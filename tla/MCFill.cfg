SPECIFICATION Spec
CONSTANTS
    Sizes <- Halving
    MinRows <- Floors
    Width <- Columns
    MinLogMem = 5
    MinLog = 8
    MaxLogRows = 3
    MaxSteps = 34
    MaxBase = 2
    MaxMain = 3
INVARIANTS EndsFilled CyclesClose DummiesRepeat WitnessReaches
CHECK_DEADLOCK FALSE
