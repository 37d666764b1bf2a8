SPECIFICATION FairSpec
CONSTANTS
  Size = 3
  Readers = {r1, r2}
  Writers = {w1}
  NoTask = none
  Counts = {2}
  MaxBytes = 6
  Preemptible = FALSE
INVARIANTS
  CountIsBytesInBuffer
PROPERTIES
  ImplementsChannel
  NobodyIsStuck
CHECK_DEADLOCK FALSE
