SPECIFICATION Spec
CONSTANTS
  TotalPages = 4
  PageUnits = 4
  Header = 1
  InitialPages = 1
  MinGrow = 1
  Sizes = {1, 2, 5}
  OtherRuns = {1}
INVARIANTS
  TypeOK
  ScanIsFirstFit
  BlocksTileHeap
  LiveBlocksAreListed
CHECK_DEADLOCK FALSE
