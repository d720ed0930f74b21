SPECIFICATION FairSpec
CONSTANTS
    a = a
    b = b
    Images <- MCImages
    Erased = erased
    Garbled = garbled
    NPages = 4
    HalfPages = 1
    Chunks = 2
    Commands <- MCCommands
INVARIANTS TypeOK OkIsTrue Heard
PROPERTIES OnlyOwnPages ImplementsStore RunsEnd
