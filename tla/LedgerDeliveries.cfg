SPECIFICATION Spec
CONSTANTS
  p1 = p1
  p2 = p2
  origin = origin
  hub = hub
  Procs <- TwoProcs
  Places <- OnePlace
  Origin = origin
  Operations <- DeliveryWriters
  ClientDates = TRUE
  MaxTime = 1
  MaxRows = 2
  MaxHistory = 3
SYMMETRY ProcSymmetry
INVARIANTS
  LedgerInv
  ConflictMeansDelivered
  OnlyDisturbedRowsStall
PROPERTY StatusNeverRegresses
CHECK_DEADLOCK FALSE
