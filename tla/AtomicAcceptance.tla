-------------------------- MODULE AtomicAcceptance --------------------------
(***************************************************************************)
(* What a client of PUT .../localizacao may count on (TRACKING_DEFINITION, *)
(* the section on idempotency): a request takes effect at one instant      *)
(* between its arrival and its answer.  At that instant it is either       *)
(* accepted, when no row of its key is in force, or told what became of    *)
(* the row its key still names, or given up without any effect.            *)
(***************************************************************************)
EXTENDS Naturals, Sequences

CONSTANTS Procs, Keys, Contents

VARIABLES
  rows,     \* the accepted requests, in order
  inForce,  \* the rows whose key has not expired
  named,    \* the row each key names, 0 if none
  client    \* client[p]: [pc, key, content, answer, row]

vars == <<rows, inForce, named, client>>

Init ==
  /\ rows = <<>>
  /\ inForce = {}
  /\ named = [k \in Keys |-> 0]
  /\ \A p \in Procs : client[p].pc = "idle"

Becomes(p, pc, key, content, answer, row) ==
  client' = [client EXCEPT ![p] =
    [pc |-> pc, key |-> key, content |-> content, answer |-> answer, row |-> row]]

Ask(p, key, content) ==
  /\ client[p].pc # "asking"
  /\ Becomes(p, "asking", key, content, "none", 0)
  /\ UNCHANGED <<rows, inForce, named>>

Tell(p, answer, row) ==
  Becomes(p, "answered", client[p].key, client[p].content, answer, row)

AcceptNew(p) ==
  /\ client[p].pc = "asking"
  /\ \A n \in inForce : rows[n].key # client[p].key
  /\ rows' = Append(rows, [key |-> client[p].key, content |-> client[p].content])
  /\ inForce' = inForce \cup {Len(rows) + 1}
  /\ named' = [named EXCEPT ![client[p].key] = Len(rows) + 1]
  /\ Tell(p, "new", Len(rows) + 1) \/ Tell(p, "lost", 0)

Repeat(p) ==
  /\ client[p].pc = "asking"
  /\ named[client[p].key] # 0
  /\ LET row == named[client[p].key] IN
     IF rows[row].content = client[p].content THEN Tell(p, "duplicate", row)
     ELSE Tell(p, "conflict", 0)
  /\ UNCHANGED <<rows, inForce, named>>

GiveUp(p) ==
  /\ client[p].pc = "asking"
  /\ Tell(p, "error", 0) \/ Tell(p, "lost", 0)
  /\ UNCHANGED <<rows, inForce, named>>

Expire(n) ==
  /\ inForce' = inForce \ {n}
  /\ UNCHANGED <<rows, named, client>>

Forget(k) ==
  /\ named[k] \notin inForce
  /\ named' = [named EXCEPT ![k] = 0]
  /\ UNCHANGED <<rows, inForce, client>>

Next ==
  \/ \E p \in Procs :
       \/ \E key \in Keys, content \in Contents : Ask(p, key, content)
       \/ AcceptNew(p) \/ Repeat(p) \/ GiveUp(p)
  \/ \E n \in inForce : Expire(n)
  \/ \E k \in Keys : Forget(k)

Spec == Init /\ [][Next]_vars
=============================================================================
