SPECIFICATION Spec
CONSTANTS
    long = long
    short = short
    Cells = 3
    Sides <- MCSides
    Bad = bad
    Zero = zero
    Old = old
    Length <- MCLength
    Games <- MCGames
    Waits <- MCAlways
INVARIANTS TypeOK DiskHoldsSide
