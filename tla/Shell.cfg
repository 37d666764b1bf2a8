SPECIFICATION Spec
CONSTANTS
  MaxTid = 4
  MaxFd = 6
  MaxPipes = 3
  PipeSize = 1
  EchoBytes = 2
  Lines <- MCLines
INVARIANTS
  InputIsComplete
  DescriptorsAreTidy

  
CHECK_DEADLOCK FALSE
