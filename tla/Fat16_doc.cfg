SPECIFICATION Spec
CONSTANTS
  Tasks = {t1}
  Files = {f1, f2}
  Paths = {"a", "A", "b", "c"}
  Names = {"A", "B", "C"}
  Fat83 <- MCFat83
  Disks <- MCDisks
  SectorBytes = 2
  EntriesPerSector = 2
  Counts = {0, 1, 3, 8}
  Rooms = {1, 9}
  MaxBytes = 7
  Preemptible = FALSE
INVARIANTS
  ReadKeepsToBuffer
CHECK_DEADLOCK FALSE
