SPECIFICATION Spec
CONSTANTS
  MAX_TASKS = 3
  Signals = {9, 11, 17}
  Sendable = {9}
  Settable = {}
  KernelPreemptible = FALSE
PROPERTIES
  WaitReturnsWhenTargetFinished
