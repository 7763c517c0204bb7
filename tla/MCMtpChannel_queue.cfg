\* A window large enough for PutReliableSendCommand to number at once, and
\* a ping that overtakes the queue of channel 0.
CONSTANTS
    SeqSpace = 16
    MaxWindow = 8
    SeqInit = 14
    NumMessages = 3
    Chunks <- SplitSecond
    Windows = {4}
    StartWindow = 4
    MaxRequeued = 1
    MaxPings = 1
SPECIFICATION Spec
INVARIANT ListsAreOrdered
PROPERTY DeliversInOrder
CHECK_DEADLOCK FALSE
