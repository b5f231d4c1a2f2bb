SPECIFICATION MCSpec
CONSTANTS
    w1 = w1
    w2 = w2
    w3 = w3
    Workers = {w1, w2, w3}
    Batch = 2
    BlockItems = 2
    MaxBlocks = 2
    Unset = 2
    NumThreads = 3
    MaxItems = 6
INVARIANTS SmallestNonce EachItemOnce
PROPERTIES SearchEnds
CHECK_DEADLOCK FALSE
