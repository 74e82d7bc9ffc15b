SPECIFICATION Spec
CONSTANTS
  p1 = p1
  p2 = p2
  origin = origin
  hub = hub
  Procs <- OneProc
  Places <- OnePlace
  Origin = origin
  Operations <- HistoryWriters
  ClientDates = TRUE
  MaxTime = 1
  MaxRows = 2
  MaxHistory = 3
INVARIANTS
  ExactlyOnce
  LatestEventShowsStatus
  MovesTellTheStatus
PROPERTY RecordsAtMostOnce
CHECK_DEADLOCK FALSE
