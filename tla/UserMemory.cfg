SPECIFICATION Spec
CONSTANTS
  TotalPages = 19
  MaxTasks = 3
  KernelFrames = 1
  PageUnits = 2
  RegionPages = 4
  CodePage = 4
  StackPage = 12
  StackPages = 1
  CodeSizes = {1, 2}
  Breaks = {6, 13, 19, 21}
  Growths = {1}
INVARIANTS
  TypeOK
  Isolation
  HeapIsMapped
  NoOrphans
CHECK_DEADLOCK FALSE
