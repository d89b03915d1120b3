CONSTANTS
  Procs = {p1, p2, p3, p4}
  Daemonizes = TRUE
  Absolute = TRUE
  Overlaps = FALSE
  MaxStarts = 3
  MaxSignals = 3
  MaxFinished = 2
SPECIFICATION Spec
INVARIANTS TypeOK OnePolls HistoryComplete
CHECK_DEADLOCK FALSE
