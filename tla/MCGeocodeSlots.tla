--------------------------- MODULE MCGeocodeSlots ---------------------------
(***************************************************************************)
(* Finite instances of GeocodeSlots for TLC.                               *)
(***************************************************************************)
EXTENDS GeocodeSlots

CONSTANTS p1, p2

TwoProcs == {p1, p2}
\* One process is ahead of the other.
OneAhead == [p \in Procs |-> IF p = p1 THEN 1 ELSE 0]
=============================================================================
