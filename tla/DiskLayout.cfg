SPECIFICATION Spec
CONSTANTS
    Games <- MCGames
    MaxFiles = 2
    MaxSize = 3
    HeadSize = 2
    InfoSize = 1
    FileSize = 2
    Gap = 2
    MinGap = 1
    LeadIn = 2
    DiskSize = 42
    SlotSize = 40
    SearchSize = 4
    FdsSize = 12
    MaxFill = 2
INVARIANTS TypeOK OneWholeSide SideComesBack
