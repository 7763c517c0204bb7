\* Numbers of three bits that wrap at the third packet.
CONSTANTS
    SeqSpace = 8
    MaxWindow = 4
    SeqInit = 6
    NumMessages = 4
    Chunks <- OneSplit
    Windows = {1, 2}
    StartWindow = 2
    MaxRequeued = 2
    MaxPings = 0
SPECIFICATION Spec
INVARIANTS AckedIsHeld NoPacketForgotten NothingTooNew
PROPERTY DeliversInOrder
CHECK_DEADLOCK FALSE
