\* Fewer packets: the temporal property needs the whole graph.
CONSTANTS
    SeqSpace = 8
    MaxWindow = 4
    SeqInit = 6
    NumMessages = 2
    Chunks <- SplitLast
    Windows = {1, 2}
    StartWindow = 2
    MaxRequeued = 1
    MaxPings = 0
SPECIFICATION FairSpec
PROPERTY EverythingArrives
CHECK_DEADLOCK FALSE
