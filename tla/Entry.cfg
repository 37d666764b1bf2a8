SPECIFICATION Spec
CONSTANTS
  MaxTid = 2
  Nesting = 2
  Points = 2
  KernelPreemptible = FALSE
INVARIANTS
  TypeOK
  UserContextKept
  
  
CHECK_DEADLOCK FALSE
