SPECIFICATION BoundedSpec
CONSTANTS
    d1 = d1
    d2 = d2
    w1 = w1
    w2 = w2
    Dispatchers = {d1, d2}
    Workers = {w1, w2}
    ClaimDivisor = 1
    MaxClaimBatch = 2
    MaxTasks = 6
    GenModulus = 2
    None = None
SYMMETRY Symmetry
INVARIANTS TypeOK DisjointClaims JobOutlivesDrain OutcomeIsOfThisDispatch WorkingCountsOwing NoLostWakeup SlotsAreExclusive
