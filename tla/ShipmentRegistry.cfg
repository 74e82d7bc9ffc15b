SPECIFICATION Spec
CONSTANTS
  Requests = {r1, r2, r3}
  Mixes <- MCMixes
  Emails = {"ana", "bia", "caio", "dora", "eva"}
  Users0 <- MCUsers
  Customers0 <- MCCustomers
  Tokens0 <- MCTokens
  NewUsers <- MCNewUsers
  UserPatches <- MCUserPatches
  NewCustomers <- MCNewCustomers
  CustomerPatches <- MCCustomerPatches
  Codes = {"A", "B", "C"}
  MaxTime = 2
  LastId0 = 4
  Shipments0 <- MCShipments
  Events0 <- MCEvents
  Registrations <- MCRegistrations
  ShipmentQueries <- MCShipmentQueries
  EventQueries <- MCEventQueries
SYMMETRY Symmetry
INVARIANTS RegistryInv TokensWereTrue HandlersOperate AnswersStayInScope ListsAreWhole
PROPERTIES QuietListsAreExact OnlyStaleUpdatesBreakTheLink FieldsChangeAsAsked InternalErrorsAreRaces CancelRemovesWhatItLoaded
CHECK_DEADLOCK FALSE
