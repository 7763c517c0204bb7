\* Two threads, one of them with two helpers, and the server thread.
CONSTANTS
    send = send
    receive = receive
    s1 = s1
    r1 = r1
    r2 = r2
    None = None
    Objects = {o1, o2}
    Ids = {1, 2}
    Threads = {send, receive}
    Helpers = {s1, r1, r2}
    Owner <- OwnerOfTwo
    Closer = receive
SPECIFICATION ServerFairSpec
INVARIANTS NoGhostClient NoDanglingPointer FreedByOne UsageIsExact NoOrphan EventsArePaired
PROPERTIES RemovedIsFreed GhostsVanish
CHECK_DEADLOCK FALSE
