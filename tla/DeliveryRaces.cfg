SPECIFICATION Spec
CONSTANTS
  r1 = r1
  r2 = r2
  s1 = s1
  w1 = w1
  w2 = w2
  x1 = x1
  d1 = d1
  d2 = d2
  NoOne = NoOne
  Rows <- OneRow
  Shipments <- OneShipment
  ShipmentOf <- SameShipment
  Workers <- TwoWorkers
  DeadWorkers <- OneDeadWorker
  Dispatchers <- TwoDispatchers
  MaxFaults = 2
INVARIANTS
  DeliveryInv
  OnlyExpiryTakesALock
  OnlyFaultsLoseWork
PROPERTY AtMostOnceDelivery
SYMMETRY SlotSymmetry
CHECK_DEADLOCK FALSE
