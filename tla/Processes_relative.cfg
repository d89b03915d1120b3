CONSTANTS
  Procs = {p1, p2, p3, p4}
  Daemonizes = TRUE
  Absolute = FALSE
  Overlaps = FALSE
  MaxStarts = 3
  MaxSignals = 3
  MaxFinished = 2
SPECIFICATION Spec
INVARIANTS LibraryMeant
CHECK_DEADLOCK FALSE
