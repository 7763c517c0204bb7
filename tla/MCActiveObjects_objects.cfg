SPECIFICATION Spec
CONSTANTS
    e1 = e1
    e2 = e2
    b1 = b1
    b2 = b2
    c1 = c1
    i1 = i1
    i2 = i2
    Entities = {e1, e2}
    Ids = {i1, i2}
    Blocks = {b1, b2}
    Clients = {c1}
    MaxObjects = 1
    Nowhere = Nowhere
SYMMETRY Sameness
INVARIANTS StaticExact NoDuplicate NothingLost RemovedStaysRemoved UnmodifiedIsOnDisk KnownExact
