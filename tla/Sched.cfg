SPECIFICATION FairSpec
CONSTANTS
  MAX_TASKS = 3
  Signals = {9, 11, 17}
  Sendable = {9}
  Settable = {11}
  KernelPreemptible = FALSE
INVARIANTS
  TypeOK
  
  
PROPERTIES
  
  WaitReturnsForAReason
  
  ReadyTaskRuns
  
  SystemHalts
