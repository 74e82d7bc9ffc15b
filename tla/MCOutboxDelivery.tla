-------------------------- MODULE MCOutboxDelivery --------------------------
(***************************************************************************)
(* Finite instances of OutboxDelivery for TLC.                             *)
(***************************************************************************)
EXTENDS OutboxDelivery, TLC

CONSTANTS r1, r2, s1, w1, w2, x1, d1, d2

OneRow == {r1}
TwoRows == {r1, r2}
OneShipment == {s1}
SameShipment == [r \in Rows |-> s1]
OneWorker == {w1}
TwoWorkers == {w1, w2}
OneDeadWorker == {x1}
NoDeadWorker == {}
OneDispatcher == {d1}
TwoDispatchers == {d1, d2}

\* Slots and processes of a kind are interchangeable (safety runs only).
SlotSymmetry == Permutations(Workers) \cup Permutations(Dispatchers)
=============================================================================
