SPECIFICATION ReadSpec
CONSTANTS
    ReadMax = 3
    BufSize = 26
    SeqNumbers = 3
    MaxLost = 2
INVARIANTS ReadTypeOK ReadIsPrefix RoomForPacket
CHECK_DEADLOCK FALSE
