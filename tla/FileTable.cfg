SPECIFICATION Spec
CONSTANTS
  Tasks = {t1, t2}
  MaxFds = 3
  StdFds = 1
  Objs = {o1, o2, o3}
  Console = console
  Pipes = {p1}
  Null = null
SYMMETRY Symmetry
INVARIANTS
  TypeOK
  RefCountsExact
  NoDangling
  EndsAreTrue
CHECK_DEADLOCK FALSE
