SPECIFICATION Spec
CONSTANTS
  Buses <- MCBuses
  Inputs <- MCInputs
  MaxQueues = 6
  MmioBase = 16
  PioBase = 200
  MaxInits = 3
  MaxNum = 6
  IdxMod = 12
  Sectors = {s1, s2}
  Bufs = {b1}
  Nothing = none
  PoolSize = 2
  MaxTimeouts = 2
  MaxFrames = 3
SYMMETRY Symmetry
INVARIANTS
  DescriptorsKept
  RequestsAreDone
  FramesAreTrue
  WindowsAreApart
  DriversOwnTheirQueues
CHECK_DEADLOCK FALSE
