SPECIFICATION RecoverySpec
CONSTANTS
    MaxPulses = 7
    MaxGarbage = 2
    Gaps = {6, 7}
    Disks <- MCDisks
    Header <- MCHeader
    SearchLimit = 15
    ShortGap = 2
    PostGlitch = 3
    LongGap = 3
    LongPostGlitch = 3
    MinGap = 3
    MaxGap = 11
    ByteBits = 2
    Width = 2
    Poly <- MCPoly
INVARIANTS RecoveryTypeOK BlocksIntact BlocksComeOut
CHECK_DEADLOCK FALSE
