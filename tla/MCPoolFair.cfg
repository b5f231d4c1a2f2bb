SPECIFICATION FairSpec
CONSTANTS
    d1 = d1
    d2 = d2
    w1 = w1
    Dispatchers = {d1, d2}
    Workers = {w1}
    ClaimDivisor = 1
    MaxClaimBatch = 2
    MaxTasks = 4
    GenModulus = 2
    None = None
PROPERTIES DispatchReturns ImplementsParallelFor
