------------------------ MODULE IdempotentAcceptance ------------------------
(***************************************************************************)
(* How PUT .../localizacao accepts a request once per Idempotency-Key      *)
(* (acceptTrackingUpdateAttempt): the serializable transaction, its        *)
(* retries as a deadlock victim, the look at the key outside of it, and    *)
(* the hourly cleanup of expired keys.  One shipment; clients may repeat a *)
(* request, with the same content or another one, at any time.             *)
(*                                                                         *)
(* The transaction is two steps here: under SERIALIZABLE its read of a key *)
(* holds a shared (range) lock until the commit, which keeps the row, or   *)
(* its absence, as it was read; two transactions that both read and both   *)
(* want to insert deadlock, and SQL Server makes one of them the victim.   *)
(***************************************************************************)
EXTENDS Naturals, Sequences

CONSTANTS
  Procs,     \* API request handlers that may be in flight together
  Keys,      \* values of the Idempotency-Key header
  Contents,  \* hashes of the deduplication payload
  NoKey,     \* no request yet
  MaxRows,   \* bound on accepted requests
  MaxLosses  \* bound on answers the client never gets

ASSUME AcceptanceAssumption ==
  /\ NoKey \notin Keys /\ NoKey \notin Contents
  /\ MaxRows \in Nat /\ MaxLosses \in Nat

VARIABLES
  rows,    \* tracking_outbox in acceptance order, with the key of each row
  keys,    \* tracking_idempotency_keys: the row of each key, if any
  ended,   \* observation: accepted rows whose key has expired since
  req,     \* req[p]: the request p serves, and then its answer
  losses   \* answers lost so far

vars == <<rows, keys, ended, req, losses>>

NoRow == 0
Attempts == 3

KeyRow == [state : {"none", "valid", "expired"},
           content : Contents \cup {NoKey}, row : 0 .. MaxRows]
NoKeyRow == [state |-> "none", content |-> NoKey, row |-> NoRow]

\* found is the row of the expired key that the transaction will replace.
Request == [pc : {"idle", "find", "write", "catch", "answered"},
            key : Keys \cup {NoKey}, content : Contents \cup {NoKey},
            left : 0 .. Attempts, found : 0 .. MaxRows,
            answer : {"none", "new", "duplicate", "conflict", "error", "lost"},
            row : 0 .. MaxRows]

KeyOf(p) == keys[req[p].key]

Init ==
  /\ rows = <<>>
  /\ keys = [k \in Keys |-> NoKeyRow]
  /\ ended = {}
  /\ req = [p \in Procs |->
       [pc |-> "idle", key |-> NoKey, content |-> NoKey, left |-> 0,
        found |-> NoRow, answer |-> "none", row |-> NoRow]]
  /\ losses = 0

Send(p, key, content) ==
  /\ req[p].pc \in {"idle", "answered"}
  /\ req' = [req EXCEPT ![p] =
       [pc |-> "find", key |-> key, content |-> content, left |-> Attempts,
        found |-> NoRow, answer |-> "none", row |-> NoRow]]
  /\ UNCHANGED <<rows, keys, ended, losses>>

Answered(p, answer, row) ==
  [req EXCEPT ![p].pc = "answered", ![p].answer = answer, ![p].row = row]

\* Bug: the content is not compared with that of the first request.
BugKnownKeyAnswer(p) == Answered(p, "duplicate", KeyOf(p).row)

\* A key that is already there: the first acceptance again, or a 409.
KnownKeyAnswer(p) ==
  IF KeyOf(p).content = req[p].content
    THEN Answered(p, "duplicate", KeyOf(p).row)
    ELSE Answered(p, "conflict", NoRow)

-----------------------------------------------------------------------------
(***************************************************************************)
(* The transaction                                                         *)
(***************************************************************************)
\* Bug: the comparison with expiresAt is the wrong way round.
BugInForce(p) == KeyOf(p).state = "expired"

InForce(p) == KeyOf(p).state = "valid"

\* The transaction reads the key; it may have to wait for nobody, since the
\* only exclusive locks are held within a step of Write or Cleanup.
Find(p) ==
  /\ req[p].pc = "find"
  /\ req' = IF InForce(p) THEN KnownKeyAnswer(p)
            ELSE [req EXCEPT ![p].pc = "write", ![p].found = KeyOf(p).row]
  /\ UNCHANGED <<rows, keys, ended, losses>>

\* Bug: the default isolation level, under which a read keeps no lock.
BugHoldsLock(p, k) == FALSE

HoldsLock(p, k) == req[p].pc = "write" /\ req[p].key = k

MayWrite(p) == \A q \in Procs \ {p} : ~HoldsLock(q, req[p].key)

\* Replace the expired key that was found, insert row and key, commit.  The
\* unique index on (shipmentId, key) refuses (P2002) a key inserted since.
KeyTaken(p) == KeyOf(p).state # "none" /\ KeyOf(p).row # req[p].found

\* Bug: the key is given the id of the row before its own.
BugInsert(p) ==
  /\ rows' = Append(rows, [key |-> req[p].key, content |-> req[p].content])
  /\ keys' = [keys EXCEPT ![req[p].key] =
       [state |-> "valid", content |-> req[p].content, row |-> Len(rows)]]

Insert(p) ==
  /\ rows' = Append(rows, [key |-> req[p].key, content |-> req[p].content])
  /\ keys' = [keys EXCEPT ![req[p].key] =
       [state |-> "valid", content |-> req[p].content, row |-> Len(rows')]]

Write(p) ==
  /\ req[p].pc = "write" /\ MayWrite(p) /\ Len(rows) < MaxRows
  /\ IF KeyTaken(p)
       THEN /\ req' = [req EXCEPT ![p].pc = "catch"]
            /\ UNCHANGED <<rows, keys>>
       ELSE /\ Insert(p)
            /\ req' = Answered(p, "new", Len(rows'))
  /\ UNCHANGED <<ended, losses>>

\* P2034: the transaction is the victim of a deadlock or a write conflict.
Abort(p) ==
  /\ req[p].pc \in {"find", "write"}
  /\ req' = [req EXCEPT ![p].pc = "catch"]
  /\ UNCHANGED <<rows, keys, ended, losses>>

\* Bug: the retries are not counted.
BugRetriesLeft(p) == req[p].left

RetriesLeft(p) == req[p].left - 1

\* The key is looked up again, outside the transaction and whatever its
\* expiresAt; without it the attempt is repeated, or given up with a 500.
Catch(p) ==
  /\ req[p].pc = "catch"
  /\ req' =
       IF KeyOf(p).state # "none" THEN KnownKeyAnswer(p)
       ELSE IF req[p].left > 1
         THEN [req EXCEPT ![p].pc = "find", ![p].left = RetriesLeft(p)]
       ELSE Answered(p, "error", NoRow)
  /\ UNCHANGED <<rows, keys, ended, losses>>

\* The connection or the process is gone: the client has no answer, whether
\* the transaction had committed or not.
Lose(p) ==
  /\ losses < MaxLosses /\ losses' = losses + 1
  /\ req[p].pc \in {"find", "write", "catch"}
  /\ \/ UNCHANGED <<rows, keys>>
     \/ /\ req[p].pc = "write" /\ MayWrite(p) /\ ~KeyTaken(p)
        /\ Len(rows) < MaxRows /\ Insert(p)
  /\ req' = Answered(p, "lost", NoRow)
  /\ UNCHANGED ended

Serve(p) == Find(p) \/ Write(p) \/ Abort(p) \/ Catch(p)

-----------------------------------------------------------------------------
\* Five years pass.
Expire(k) ==
  /\ keys[k].state = "valid"
  /\ keys' = [keys EXCEPT ![k].state = "expired"]
  /\ ended' = ended \cup {keys[k].row}
  /\ UNCHANGED <<rows, req, losses>>

\* The hourly deleteMany waits for the locks of the transactions.
Cleanup(k) ==
  /\ keys[k].state = "expired" /\ \A p \in Procs : ~HoldsLock(p, k)
  /\ keys' = [keys EXCEPT ![k] = NoKeyRow]
  /\ UNCHANGED <<rows, ended, req, losses>>

Next ==
  \/ \E p \in Procs :
       \/ \E key \in Keys, content \in Contents : Send(p, key, content)
       \/ Find(p) \/ Write(p) \/ Abort(p) \/ Catch(p) \/ Lose(p)
  \/ \E k \in Keys : Expire(k) \/ Cleanup(k)

Spec == Init /\ [][Next]_vars

\* A transaction that waits for the locks of another one is released, or SQL
\* Server finds the deadlock and aborts it: in either case it goes on.
FairSpec == Spec /\ \A p \in Procs : WF_vars(Serve(p))

-----------------------------------------------------------------------------
(***************************************************************************)
(* Properties                                                              *)
(***************************************************************************)

\* Rows, keys and requests have their shapes; a key names a row that exists.
TypeOK ==
  /\ rows \in Seq([key : Keys, content : Contents]) /\ Len(rows) <= MaxRows
  /\ keys \in [Keys -> KeyRow]
  /\ \A k \in Keys :
       IF keys[k].state = "none" THEN keys[k] = NoKeyRow
       ELSE keys[k].row \in DOMAIN rows
  /\ ended \subseteq DOMAIN rows
  /\ req \in [Procs -> Request]
  /\ losses \in 0 .. MaxLosses

\* PROJECT_DEFINITION.md:42: repeating a request creates no second occurrence.
\* Of all the rows accepted under one key at most one has an unexpired key,
\* whatever races, deadlocks, lost answers and repetitions came before.
OneOccurrencePerKey ==
  \A m, n \in DOMAIN rows \ ended : rows[m].key = rows[n].key => m = n

\* What an answer says is so: a 202 names a row accepted under this key with
\* this very content, no two requests are told that the same row is new, and
\* a 409 is for a key once used with another content.
AnswersAreTrue ==
  \A p \in Procs :
    /\ req[p].answer \in {"new", "duplicate"} =>
         /\ req[p].row \in DOMAIN rows
         /\ rows[req[p].row] = [key |-> req[p].key, content |-> req[p].content]
    /\ req[p].answer = "new" =>
         \A q \in Procs \ {p} : req[q].answer = "new" => req[q].row # req[p].row
    /\ req[p].answer = "conflict" =>
         \E n \in DOMAIN rows :
           rows[n].key = req[p].key /\ rows[n].content # req[p].content

\* The read at the start of the transaction is still true when it writes: no
\* other request, no cleanup and no repetition changed the key in between, so
\* the unique index has nothing to refuse.
WhatWasFoundHolds ==
  \A p \in Procs : req[p].pc = "write" => KeyOf(p).state # "valid" /\ ~KeyTaken(p)

\* What a client sees of a request: the attempts, the transactions and the look
\* at the key after an abort are one long wait for an answer.
Seen(p) ==
  [pc |-> IF req[p].pc \in {"idle", "answered"} THEN req[p].pc ELSE "asking",
   key |-> req[p].key, content |-> req[p].content,
   answer |-> req[p].answer, row |-> req[p].row]

Atomic == INSTANCE AtomicAcceptance WITH
  inForce <- DOMAIN rows \ ended,
  named <- [k \in Keys |-> keys[k].row],
  client <- [p \in Procs |-> Seen(p)]

\* The transaction, its retries and the look at the key outside of it are as
\* good as one atomic step per request: whatever the interleaving, an answer
\* is true of one instant at which the request was being served.
AcceptsAtomically == Atomic!Spec

\* Every request is answered (or its connection is lost): deadlock victims do
\* not retry for ever.
EveryRequestIsAnswered ==
  \A p \in Procs : req[p].pc = "find" ~> req[p].pc = "answered"

\* DATABASE.md:255 "As chaves expiram após cinco anos": an answer that denies
\* a new occurrence rests on a key that had not expired.
AnswersRestOnValidKeys ==
  [][\A p \in Procs :
       /\ req[p].pc # "answered" /\ req'[p].pc = "answered"
       /\ req'[p].answer \in {"duplicate", "conflict"}
       => keys[req[p].key].state = "valid"]_vars

-----------------------------------------------------------------------------
(***************************************************************************)
(* The inductive invariant (module IdempotentAcceptanceProofs)             *)
(***************************************************************************)

\* A request that is being served or was answered has a key and a content, and
\* an answer only when it was answered.
RequestsAreComplete ==
  \A p \in Procs :
    /\ req[p].pc # "idle" => req[p].key \in Keys /\ req[p].content \in Contents
    /\ req[p].pc # "answered" => req[p].answer = "none"

\* A key is that of its row, and the rows whose key has not expired are
\* exactly those that the valid keys name.
KeysNameTheirRows ==
  /\ \A k \in Keys : keys[k].state # "none" =>
       rows[keys[k].row] = [key |-> k, content |-> keys[k].content]
  /\ \A n \in DOMAIN rows :
       n \notin ended <=>
         keys[rows[n].key].state = "valid" /\ keys[rows[n].key].row = n

AcceptanceInv ==
  /\ TypeOK
  /\ RequestsAreComplete
  /\ KeysNameTheirRows
  /\ WhatWasFoundHolds
  /\ AnswersAreTrue
=============================================================================
