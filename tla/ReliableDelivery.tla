-------------------------- MODULE ReliableDelivery --------------------------
(***************************************************************************)
(* What the asynchronous tracking plan promises (ADR-0004, ADR-0005): an   *)
(* accepted row is recorded in the history, once.                          *)
(***************************************************************************)
EXTENDS Naturals

CONSTANT Rows

VARIABLES
  accepted,  \* the rows answered with 202
  recorded   \* how many history events each row has caused

vars == <<accepted, recorded>>

Init ==
  /\ accepted = {}
  /\ recorded = [r \in Rows |-> 0]

Accept(r) ==
  /\ r \notin accepted
  /\ accepted' = accepted \cup {r}
  /\ UNCHANGED recorded

Record(r) ==
  /\ r \in accepted /\ recorded[r] = 0
  /\ recorded' = [recorded EXCEPT ![r] = 1]
  /\ UNCHANGED accepted

Next == \E r \in Rows : Accept(r) \/ Record(r)

\* Safety alone: at most once, and never without an acceptance.
AtMostOnce == Init /\ [][Next]_vars

\* At least once as well.
Spec == AtMostOnce /\ \A r \in Rows : WF_vars(Record(r))
=============================================================================
