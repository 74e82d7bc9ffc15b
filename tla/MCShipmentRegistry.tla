------------------------- MODULE MCShipmentRegistry -------------------------
EXTENDS ShipmentRegistry, TLC

\* An administrator, two customers with an operator each, a customer that
\* nothing refers to, and an operator whose link two updates have broken
\* (OnlyStaleUpdatesBreakTheLink shows how); tokens of all the users.
MCUsers ==
  (1 :> [email |-> "ana",  role |-> "ADMINISTRATOR", active |-> TRUE, customer |-> 0])
  @@ (2 :> [email |-> "bia",  role |-> "OPERATOR", active |-> TRUE, customer |-> 1])
  @@ (3 :> [email |-> "caio", role |-> "OPERATOR", active |-> TRUE, customer |-> 2])
  @@ (4 :> [email |-> "eva",  role |-> "OPERATOR", active |-> TRUE, customer |-> 0])
MCCustomers == (1 :> [email |-> "ana", contact |-> "old"])
               @@ (2 :> [email |-> "bia", contact |-> "old"])
               @@ (3 :> [email |-> "caio", contact |-> "old"])
MCTokens == ActivePrincipals(MCUsers)

MCNewUsers ==
  {[email |-> "dora", role |-> "OPERATOR", active |-> TRUE, customer |-> 3]}
MCUserPatches ==
  {[role |-> "ADMINISTRATOR", customer |-> 0], [role |-> "CUSTOMER"],
   [role |-> "OPERATOR"], [customer |-> 3], [email |-> "dora"],
   [active |-> FALSE]}
MCNewCustomers == {[email |-> "dora", contact |-> "new"]}
MCCustomerPatches ==
  {[contact |-> "new"], [email |-> "dora"], [email |-> "dora", contact |-> "new"]}

\* Two shipments of the first customer, whose departures tie, and a few
\* events, whose times tie.
MCShipments ==
  (1 :> [code |-> "A", customer |-> 1, handler |-> 2, departureDate |-> 1])
  @@ (2 :> [code |-> "B", customer |-> 1, handler |-> 2, departureDate |-> 1])
MCEvents == (1 :> [shipment |-> 1, occurredAt |-> 1, place |-> "origin"])
            @@ (2 :> [shipment |-> 2, occurredAt |-> 1, place |-> "origin"])
            @@ (3 :> [shipment |-> 1, occurredAt |-> 1, place |-> "hub"])

Body(code, customer, handler, date) ==
  [code |-> code, customer |-> customer, handler |-> handler,
   departureDate |-> date]
MCRegistrations == {Body("A", 2, 3, 2), Body("C", 3, 2, 1)}

Query(list, filters, order, page, limit) ==
  [list |-> list, filters |-> filters, from |-> 1, to |-> 2, order |-> order,
   page |-> page, limit |-> limit]
MCShipmentQueries ==
  {Query("shipments", [customer |-> 2], "asc", 1, 1),
   Query("shipments", <<>>, "desc", 1, 1)}
MCEventQueries == {Query("events", <<>>, "desc", 1, 1)}

\* What is called together: up to three requests.
MCMixes ==
  {[updateUser |-> 2],
   [login |-> 1, updateUser |-> 1, createShipment |-> 1],
   [createUser |-> 1, updateProfile |-> 1, deleteUser |-> 1],
   [createUser |-> 1, updateUser |-> 1, deleteCustomer |-> 1],
   [createCustomer |-> 1, updateCustomer |-> 1, deleteCustomer |-> 1],
   [updateCustomer |-> 2],
   [createShipment |-> 1, updateUser |-> 1, deleteCustomer |-> 1],
   [createShipment |-> 2, cancelShipment |-> 1],
   [createShipment |-> 1, cancelShipment |-> 2],
   [createShipment |-> 1, listShipments |-> 1],
   [cancelShipment |-> 1, listShipments |-> 1],
   [createShipment |-> 1, cancelShipment |-> 1, shipmentHistory |-> 1],
   [addEvent |-> 1, cancelShipment |-> 1, allHistory |-> 1],
   [addEvent |-> 1, cancelShipment |-> 1, getShipment |-> 1]}
Symmetry == Permutations(Requests)
=============================================================================
