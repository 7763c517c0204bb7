\* Two threads, no errors, no nested calls: everything comes to its end.
CONSTANTS
    None = None
    b1 = b1
    b2 = b2
    b3 = b3
    k1 = k1
    k2 = k2
    c1 = c1
    c2 = c2
    NumThreads = 2
    Blocks = {b1, b2}
    Chunks = {k1}
    ChunkOf <- ChunkOfTwo
    Around <- AroundTwo
    Outside = {}
    Barred = {}
    Saved = {}
    Peers = {}
    NoPeer = 0
    LimitTotal = 2
    LimitDiskonly = 1
    LimitGenerate = 1
    Calls = {c1}
    Area <- OneBlock
    Nested = {}
    MayFail = FALSE
SPECIFICATION FairSpec
INVARIANTS QueuesMatchTable OneGeneratorPerChunk NoLostWakeup
PROPERTIES AreaCompletes ShutdownFinishes
CHECK_DEADLOCK FALSE
