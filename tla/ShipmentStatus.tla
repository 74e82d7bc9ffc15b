--------------------------- MODULE ShipmentStatus ---------------------------
(***************************************************************************)
(* The status machine of the domain layer                                  *)
(* (src/domain/shipments/shipment.entity.ts): pure functions, no state.    *)
(***************************************************************************)
EXTENDS Naturals

Statuses == {"CREATED", "IN_TRANSIT", "TRANSFERRED", "DELIVERED"}

\* Bug: the table lets a transferred shipment go back on the road.
BugLooseTransitions ==
  [CREATED |-> {"IN_TRANSIT"}, IN_TRANSIT |-> {"TRANSFERRED"},
   TRANSFERRED |-> {"DELIVERED", "IN_TRANSIT"}, DELIVERED |-> {}]

AllowedTransitions ==
  [CREATED |-> {"IN_TRANSIT"}, IN_TRANSIT |-> {"TRANSFERRED"},
   TRANSFERRED |-> {"DELIVERED"}, DELIVERED |-> {}]

CanTransition(from, to) == from # to /\ to \in AllowedTransitions[from]

\* PUT /tracking/{cargoCode}/entrega: DELIVERED from any non-terminal status.
CanDeliver(from) == from # "DELIVERED"

\* The place of a status in the flow CREATED -> ... -> DELIVERED.
Rank == [CREATED |-> 0, IN_TRANSIT |-> 1, TRANSFERRED |-> 2, DELIVERED |-> 3]
=============================================================================
