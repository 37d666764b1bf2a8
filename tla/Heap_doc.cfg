SPECIFICATION Spec
CONSTANTS
  TotalPages = 5
  PageUnits = 4
  Header = 1
  InitialPages = 1
  MinGrow = 1
  Sizes = {1, 2, 5}
  OtherRuns = {1}
INVARIANTS
  AllocatesOwnMemory
CHECK_DEADLOCK FALSE
