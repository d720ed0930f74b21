SPECIFICATION Spec
CONSTANTS
    L = 12
    Images <- MCImages
    MinGap = 2
    N = 3
INVARIANTS TypeOK BlockComesBack
CHECK_DEADLOCK FALSE
