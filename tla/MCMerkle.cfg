SPECIFICATION Spec
CONSTANTS
    Height = 3
    Words <- Bits
    RowWords = 1
    LeafWords = 2
    Matrices <- SomeMatrices
    QueryLists <- SomeLists
INVARIANTS AcceptedRowsAreCommitted HonestOpens AcceptedIsPruned PathsReachTheRoot
CHECK_DEADLOCK FALSE
