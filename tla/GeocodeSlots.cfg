SPECIFICATION Spec
CONSTANTS
  p1 = p1
  p2 = p2
  Procs <- TwoProcs
  Limit = 2
  Window = 3
  Skew <- OneAhead
  MaxSkew = 1
  MaxDelay = 1
  MaxTime = 7
INVARIANTS
  SlotsInv
  RateHolds
PROPERTY WaitsAreNeeded
CHECK_DEADLOCK FALSE
