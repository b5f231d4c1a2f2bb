CONSTANTS
  KBits = 7
  KTail = 3
  KSums <- KXor
  KProducts <- KProduct
  GPows <- GPowTable
  MinLogMem = 4
  IndexBound = 256
  IvCells <- MCIvCells
  Cells = 120
  Compression <- Compress
  Sources <- MCSources
  Means <- MCMeans
  Advice <- MCAdvice
  MaxLies = 1
  MaxSteps = 120
SPECIFICATION Spec
INVARIANTS RefusesTheMeaningless RunsAsWritten OnlyWhatIsMeant
CHECK_DEADLOCK FALSE
