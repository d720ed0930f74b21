SPECIFICATION Spec
CONSTANTS
    PageSize = 4
    FlashSize = 16
    WriteMax = 2
    CmdSize = 1
    MaxAddr = 21
    Units = {4, 8}
    Writes <- MCWrites
    Contents <- MCContents
    Erased = erased
    Garbled = garbled
INVARIANTS TypeOK FileWritten OnlyOwnBytes FailsForReason
CHECK_DEADLOCK FALSE
