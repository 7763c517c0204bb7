SPECIFICATION Spec
CONSTANTS
    b1 = b1
    b2 = b2
    Blocks = {b1, b2}
    Near <- Pair
    Workers = {w1, w2}
    MaxEvents = 3
SYMMETRY Symmetry
INVARIANTS RefsExact MeshIsCurrent AcksAreKept NobodySleepsOverWork
CHECK_DEADLOCK FALSE
