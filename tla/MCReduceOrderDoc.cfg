SPECIFICATION Spec
CONSTANTS
    NumThreads = 3
    MaxItems = 6
INVARIANTS ReducesInItemOrder
CHECK_DEADLOCK FALSE
