SPECIFICATION FairSpec
CONSTANTS
  r1 = r1
  r2 = r2
  s1 = s1
  w1 = w1
  w2 = w2
  x1 = x1
  d1 = d1
  d2 = d2
  NoOne = NoOne
  Rows <- OneRow
  Shipments <- OneShipment
  ShipmentOf <- SameShipment
  Workers <- OneWorker
  DeadWorkers <- OneDeadWorker
  Dispatchers <- OneDispatcher
  MaxFaults = 2
PROPERTIES
  ReliablyDelivered
  QueuesDrain
CHECK_DEADLOCK FALSE
