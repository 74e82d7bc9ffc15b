SPECIFICATION FairSpec
CONSTANTS
  p1 = p1
  p2 = p2
  origin = origin
  hub = hub
  Procs <- OneProc
  Places <- OnePlace
  Origin = origin
  Operations <- StatusAndLocation
  ClientDates = FALSE
  MaxTime = 3
  MaxRows = 3
  MaxHistory = 3
PROPERTY EveryAcceptedRowIsRecorded
CHECK_DEADLOCK FALSE
