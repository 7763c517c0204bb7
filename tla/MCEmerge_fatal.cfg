\* An error ends a thread while the server runs.
CONSTANTS
    None = None
    b1 = b1
    b2 = b2
    b3 = b3
    k1 = k1
    k2 = k2
    c1 = c1
    c2 = c2
    NumThreads = 1
    Blocks = {b1, b2}
    Chunks = {k1}
    ChunkOf <- ChunkOfTwo
    Around <- AroundTwo
    Outside = {}
    Barred = {}
    Saved = {}
    Peers = {}
    NoPeer = 0
    LimitTotal = 2
    LimitDiskonly = 1
    LimitGenerate = 1
    Calls = {c1}
    Area <- OneBlock
    Nested = {}
    MayFail = TRUE
SPECIFICATION FairSpec
PROPERTY ShutdownFinishes
CHECK_DEADLOCK FALSE
