SPECIFICATION MCSpec
CONSTANTS
    Cells <- FiveCells
    Words <- GFWords
    Zero <- GFZero
    One <- GFOne
    Add <- GFAdd
    Mul <- GFMul
    Inv <- GFInv
    Cell <- CellAt
    NoCell <- None
    InK <- GFInK
    Canonical <- GFInK
    Hash <- Mix
    Pointers <- SomePointers
    Constants <- SomeWords
    Derefs <- SomeDerefs
    Operands <- SomeTriples
    HashOperands <- HashCells
    Inputs <- SomeInputs
    MaxSteps = 4
    MinIndex = 4
    Seeded = 1
    MaxCells = 6
    LargestSize = 3
    MaxWord = 8
    Mixes <- FewMixes
INVARIANTS RowHoldsToTheEnd LinkedCellsAgree LogInvertsPow
PROPERTIES WrittenForGood
CHECK_DEADLOCK FALSE
