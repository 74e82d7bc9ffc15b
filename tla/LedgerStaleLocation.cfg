SPECIFICATION Spec
CONSTANTS
  p1 = p1
  p2 = p2
  origin = origin
  hub = hub
  Procs <- TwoProcs
  Places <- TwoPlaces
  Origin = origin
  Operations <- LocationAndDelivery
  ClientDates = FALSE
  MaxTime = 1
  MaxRows = 2
  MaxHistory = 3
PROPERTY DeliveryKeepsLatestLocation
CHECK_DEADLOCK FALSE
