\* One thread at the limits of the map, with errors and nested calls.
CONSTANTS
    None = None
    b1 = b1
    b2 = b2
    b3 = b3
    k1 = k1
    k2 = k2
    c1 = c1
    c2 = c2
    NumThreads = 1
    Blocks = {b1, b2, b3}
    Chunks = {k1, k2}
    ChunkOf <- ChunkOfEdge
    Around <- AroundEdge
    Outside = {b3}
    Barred = {k2}
    Saved = {}
    Peers = {1}
    NoPeer = 0
    LimitTotal = 2
    LimitDiskonly = 1
    LimitGenerate = 1
    Calls = {c1, c2}
    Area <- TwoAreas
    Nested = {c2}
    MayFail = TRUE
SPECIFICATION Spec
INVARIANTS PeerCountIsExact ReportedIsGenerated StateOutlivesCallbacks
CHECK_DEADLOCK FALSE
