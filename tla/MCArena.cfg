SPECIFICATION MCSpec
CONSTANTS
    t1 = t1
    t2 = t2
    t3 = t3
    v1 = v1
    v2 = v2
    v3 = v3
    v4 = v4
    Owner = t1
    Worker = t3
    Pair = {v1, v2}
    Threads = {t1, t2, t3}
    Vecs = {v1, v2, v3, v4}
    Requests <- AllRequests
    MaxSlabs = 2
    SlabSize = 8
    CacheLine = 2
    ReuseMin = 2
    FreeListCap = 2
    MaxPhases = 2
    KeepsStale = FALSE
    None = None
SYMMETRY Symmetry
INVARIANTS BlocksAreExclusive HeldBlocksAreDead HeldBlocksAreApart OnePhaseInFlight
