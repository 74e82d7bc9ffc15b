--------------------------- MODULE TrackingLedger ---------------------------
(***************************************************************************)
(* The SQL side of one shipment: its row, its history (shipment_events),   *)
(* the durable outbox of accepted updates (tracking_outbox), and the API   *)
(* requests and worker transactions that read and write them.              *)
(*                                                                         *)
(* A SQL transaction is one step: the acceptance and the worker run under  *)
(* SERIALIZABLE (two-phase locking in SQL Server), and the optimistic      *)
(* delivery holds the exclusive row lock of its conditional update until   *)
(* it commits.  What an API request reads BEFORE its transaction is kept   *)
(* in api[p] and may be stale when the transaction runs.                   *)
(*                                                                         *)
(* Whether and when a worker runs the transaction of a row is left open:   *)
(* module OutboxDelivery models the queue, the jobs and the lock.          *)
(***************************************************************************)
EXTENDS ShipmentStatus, Sequences, FiniteSets

CONSTANTS
  Procs,        \* API request handlers that may be in flight together
  Places,       \* what a location (text and coordinates) may be
  Origin,       \* the origin address, the place of the CREATED event
  Operations,   \* the API operations clients call
  ClientDates,  \* TRUE: clients may send occurredAt, past or future
  MaxTime,      \* bound on the clock
  MaxRows,      \* bound on accepted updates
  MaxHistory    \* a manual event is added only to a history shorter than this

AllOperations ==
  {"status", "location", "deliver", "deliverAt", "manual", "cancel"}

ASSUME LedgerAssumption ==
  /\ Origin \in Places
  /\ Operations \subseteq AllOperations
  /\ ClientDates \in BOOLEAN
  /\ MaxTime \in Nat /\ MaxRows \in Nat /\ MaxHistory \in Nat

Times == 0 .. MaxTime
NotDelivered == MaxTime + 1        \* deliveredAt IS NULL
NoRow == 0                         \* an event that no outbox row caused

VARIABLES
  now,       \* the clock of the API, the workers and the database
  shipment,  \* [state, status, deliveredAt, updatedAt]
  events,    \* shipment_events in id order (the position is the id)
  outbox,    \* tracking_outbox in createdAt order (the position is the row)
  api        \* api[p]: the request p is serving

vars == <<now, shipment, events, outbox, api>>

(***************************************************************************)
(* Data                                                                    *)
(***************************************************************************)
Kinds == {"created", "status", "location", "delivery", "manual"}

\* A shipment that is not live ("unborn" before the INSERT, "gone" after the
\* DELETE) has no row; the other fields are then meaningless.
ShipmentRow ==
  [state : {"unborn", "live", "gone"}, status : Statuses,
   deliveredAt : Times \cup {NotDelivered}, updatedAt : Times]

\* kind, row and moved are not columns: they say who wrote the event and
\* whether the same transaction changed the status of the shipment.
Event ==
  [status : Statuses, occurredAt : Times, place : Places, createdAt : Times,
   kind : Kinds, row : 0 .. MaxRows, moved : BOOLEAN]

OutboxRow ==
  [eventType : {"STATUS", "LOCATION"}, status : Statuses,
   occurredAt : Times, place : Places, processed : BOOLEAN]

Dated == {"status", "location", "manual"}   \* may be sent with occurredAt
Deliveries == {"deliver", "deliverAt"}

\* status and updatedAt are those of the shipment when the request read it;
\* at is the occurredAt of the request, of a delivery the clock at the start of
\* its present attempt; attempt counts optimistic attempts.
Request ==
  [pc : {"idle", "loaded", "ready", "conflict"},
   op : AllOperations \cup {"none"}, status : Statuses, updatedAt : Times,
   place : Places, at : Times, attempt : 0 .. 3]

NoRequest(pc) ==
  [pc |-> pc, op |-> "none", status |-> "CREATED", updatedAt |-> 0,
   place |-> Origin, at |-> 0, attempt |-> 0]

Live == shipment.state = "live"

NewEvent(kind, row, status, at, place, moved) ==
  [status |-> status, occurredAt |-> at, place |-> place, createdAt |-> now,
   kind |-> kind, row |-> row, moved |-> moved]

\* The canonical order of the history: occurredAt, then id.
Precedes(i, j) ==
  \/ events[i].occurredAt < events[j].occurredAt
  \/ events[i].occurredAt = events[j].occurredAt /\ i < j

IsLatestEvent(i) ==
  i \in DOMAIN events /\ \A j \in DOMAIN events \ {i} : Precedes(j, i)

Finish(p, pc) == api' = [api EXCEPT ![p] = NoRequest(pc)]

Init ==
  /\ now = 0
  /\ shipment = [state |-> "unborn", status |-> "CREATED",
                 deliveredAt |-> NotDelivered, updatedAt |-> 0]
  /\ events = <<>>
  /\ outbox = <<>>
  /\ api = [p \in Procs |-> NoRequest("idle")]

(***************************************************************************)
(* Registration: the row and its CREATED event in one transaction.         *)
(***************************************************************************)
Create ==
  /\ shipment.state = "unborn"
  /\ shipment' = [state |-> "live", status |-> "CREATED",
                  deliveredAt |-> NotDelivered, updatedAt |-> now]
  /\ events' = <<NewEvent("created", NoRow, "CREATED", now, Origin, TRUE)>>
  /\ UNCHANGED <<now, outbox, api>>

(***************************************************************************)
(* Every API operation starts by loading the shipment by its cargo code;   *)
(* what it read is used later, in a transaction of its own.  "deliver" is  *)
(* the delivery without a location in the request, "deliverAt" with one.   *)
(* A request that the code rejects here changes nothing.                   *)
(***************************************************************************)
Load(p) ==
  /\ api[p].pc \in {"idle", "conflict"}
  /\ Live
  /\ \E op \in Operations :
     \E at \in IF ClientDates /\ op \in Dated THEN Times ELSE {now} :
     \E place \in IF op = "deliverAt" THEN Places ELSE {Origin} :
       /\ op \in Deliveries => CanDeliver(shipment.status)
       /\ api' = [api EXCEPT ![p] =
            [pc |-> IF op = "deliver" THEN "loaded" ELSE "ready",
             op |-> op, status |-> shipment.status,
             updatedAt |-> shipment.updatedAt,
             place |-> place, at |-> at, attempt |-> 1]]
  /\ UNCHANGED <<now, shipment, events, outbox>>

(***************************************************************************)
(* PUT .../status and .../localizacao: the acceptance transaction.         *)
(***************************************************************************)
PendingStatusRows ==
  {n \in DOMAIN outbox : outbox[n].eventType = "STATUS" /\ ~outbox[n].processed}

\* Bug: the oldest pending row decides, not the newest one.
BugOldestPending(n) ==
  n \in PendingStatusRows /\ \A m \in PendingStatusRows : n <= m

NewestPending(n) ==
  n \in PendingStatusRows /\ \A m \in PendingStatusRows : m <= n

\* Bug: the rows still pending are not looked at.
BugIgnoresPending(status) == status = shipment.status

\* The status the next one is validated against: that of the newest accepted
\* STATUS row still pending, else that of the shipment.
EffectiveStatus(status) ==
  \/ \E n \in PendingStatusRows : NewestPending(n) /\ status = outbox[n].status
  \/ PendingStatusRows = {} /\ status = shipment.status

Accept(p, type, status, place) ==
  /\ Len(outbox) < MaxRows
  /\ outbox' = Append(outbox,
       [eventType |-> type, status |-> status, occurredAt |-> api[p].at,
        place |-> place, processed |-> FALSE])
  /\ Finish(p, "idle")
  /\ UNCHANGED <<now, shipment, events>>

AcceptStatus(p) ==
  /\ api[p].pc = "ready" /\ api[p].op = "status" /\ Live
  /\ \E status \in Statuses, place \in Places :
       /\ \E from \in Statuses :
            EffectiveStatus(from) /\ CanTransition(from, status)
       /\ Accept(p, "STATUS", status, place)

\* The shipment is not looked up again: a location is accepted even when the
\* shipment was removed after the request had loaded it.
AcceptLocation(p) ==
  /\ api[p].pc = "ready" /\ api[p].op = "location"
  /\ \E place \in Places : Accept(p, "LOCATION", api[p].status, place)

\* The request ends without any effect: a 404 or 422 of its transaction, an
\* infrastructure error, or the process that served it is gone.
Fail(p) ==
  /\ api[p].pc \in {"loaded", "ready"}
  /\ Finish(p, "idle")
  /\ UNCHANGED <<now, shipment, events, outbox>>

(***************************************************************************)
(* The worker's transaction on outbox row n: conditional claim, history    *)
(* event and, for the latest STATUS, the shipment.  It throws, and rolls   *)
(* back the claim, when the shipment is gone or the transition of a latest *)
(* STATUS is not allowed; the job is then retried.                         *)
(***************************************************************************)
\* Bug: the claim does not look at processedAt.
BugUnconditionalClaim(n) == n \in DOMAIN outbox

Claimable(n) == n \in DOMAIN outbox /\ ~outbox[n].processed

\* Bug: a tie with the latest event counts as older.
BugStrictlyLatest(at) == \A i \in DOMAIN events : events[i].occurredAt < at

IsLatest(at) == \A i \in DOMAIN events : events[i].occurredAt <= at

\* Bug: the worker applies a STATUS without validating it again.
BugUncheckedMove(n) ==
  outbox[n].eventType = "STATUS" /\ IsLatest(outbox[n].occurredAt)

MovesShipment(n) ==
  /\ outbox[n].eventType = "STATUS"
  /\ IsLatest(outbox[n].occurredAt)
  /\ CanTransition(shipment.status, outbox[n].status)

RecordsOnly(n) ==
  \/ outbox[n].eventType = "LOCATION"
  \/ ~IsLatest(outbox[n].occurredAt)

RecordRow(n, status, moved) ==
  /\ outbox' = [outbox EXCEPT ![n].processed = TRUE]
  /\ events' = Append(events,
       NewEvent(IF outbox[n].eventType = "STATUS" THEN "status" ELSE "location",
                n, status, outbox[n].occurredAt, outbox[n].place, moved))

ProcessRow(n) ==
  /\ Claimable(n) /\ Live
  /\ \/ /\ MovesShipment(n)
        /\ RecordRow(n, outbox[n].status, TRUE)
        /\ shipment' = [shipment EXCEPT
             !.status = outbox[n].status, !.updatedAt = now,
             !.deliveredAt = IF outbox[n].status = "DELIVERED"
                               THEN outbox[n].occurredAt ELSE @]
     \/ /\ RecordsOnly(n)
        /\ RecordRow(n, IF outbox[n].eventType = "STATUS"
                          THEN outbox[n].status ELSE shipment.status, FALSE)
        /\ UNCHANGED shipment
  /\ UNCHANGED <<now, api>>

(***************************************************************************)
(* PUT .../entrega: the delivery, synchronous and optimistic.              *)
(***************************************************************************)
MaxAttempts == 3

\* Without a location in the request, the one of the latest event is read.
ReadLatestLocation(p) ==
  /\ api[p].pc = "loaded"
  /\ \E place \in Places :
       /\ \/ \E i \in DOMAIN events : IsLatestEvent(i) /\ place = events[i].place
          \/ events = <<>> /\ place = Origin
       /\ api' = [api EXCEPT ![p].pc = "ready", ![p].place = place,
                              ![p].at = now]
  /\ UNCHANGED <<now, shipment, events, outbox>>

\* Bug: the conditional update matches on the id alone.
BugBlindUpdate(p) == Live

\* Bug: it trusts updatedAt alone, which two writes may share.
BugMatchUpdatedAt(p) == Live /\ shipment.updatedAt = api[p].updatedAt

Matches(p) ==
  /\ Live
  /\ shipment.status = api[p].status
  /\ shipment.updatedAt = api[p].updatedAt

DeliverMatching(p) ==
  /\ Matches(p)
  /\ shipment' = [shipment EXCEPT !.status = "DELIVERED",
                                  !.deliveredAt = api[p].at, !.updatedAt = now]
  /\ events' = Append(events,
       NewEvent("delivery", NoRow, "DELIVERED", now, api[p].place, TRUE))
  /\ Finish(p, "idle")
  /\ UNCHANGED <<now, outbox>>

\* Bug: the delivery gives up after its second attempt.
BugOutOfAttempts(p) == api[p].attempt >= 2

OutOfAttempts(p) == api[p].attempt >= MaxAttempts

\* Zero rows matched: 404 when the shipment is gone, 409 after the last
\* attempt, 422 when the status now read is terminal, else another attempt.
DeliverConflicting(p) ==
  /\ ~Matches(p)
  /\ IF ~Live THEN Finish(p, "idle")
     ELSE IF OutOfAttempts(p) THEN Finish(p, "conflict")
     ELSE IF ~CanDeliver(shipment.status) THEN Finish(p, "idle")
     ELSE api' = [api EXCEPT ![p].status = shipment.status,
                             ![p].updatedAt = shipment.updatedAt,
                             ![p].at = now, ![p].attempt = @ + 1]
  /\ UNCHANGED <<now, shipment, events, outbox>>

AttemptDelivery(p) ==
  /\ api[p].pc = "ready" /\ api[p].op \in Deliveries
  /\ DeliverMatching(p) \/ DeliverConflicting(p)

(***************************************************************************)
(* POST /historico: an administrator's event, with any status and date, or *)
(* with the status and clock read at loading.  The foreign key makes the   *)
(* INSERT fail (Fail(p)) when the shipment has gone.                       *)
(***************************************************************************)
AddManualEvent(p) ==
  /\ api[p].pc = "ready" /\ api[p].op = "manual" /\ Live
  /\ Len(events) < MaxHistory
  /\ \E status \in Statuses, place \in Places :
       events' = Append(events,
         NewEvent("manual", NoRow, status, api[p].at, place, FALSE))
  /\ Finish(p, "idle")
  /\ UNCHANGED <<now, shipment, outbox>>

\* DELETE /tracking/{cargoCode}: the history goes by cascade, the outbox has
\* no foreign key and stays.
Cancel(p) ==
  /\ api[p].pc = "ready" /\ api[p].op = "cancel" /\ Live
  /\ shipment' = [shipment EXCEPT !.state = "gone"]
  /\ events' = <<>>
  /\ Finish(p, "idle")
  /\ UNCHANGED <<now, outbox>>

Tick ==
  /\ now < MaxTime
  /\ now' = now + 1
  /\ UNCHANGED <<shipment, events, outbox, api>>

Handle(p) ==
  \/ Load(p) \/ AcceptStatus(p) \/ AcceptLocation(p) \/ Fail(p)
  \/ ReadLatestLocation(p) \/ AttemptDelivery(p)
  \/ AddManualEvent(p) \/ Cancel(p)

Next ==
  \/ Create
  \/ \E p \in Procs : Handle(p)
  \/ \E n \in 1 .. MaxRows : ProcessRow(n)
  \/ Tick

Spec == Init /\ [][Next]_vars

\* A pending row is tried again and again: the job is retried and the
\* dispatcher publishes it anew (module OutboxDelivery).
FairSpec == Spec /\ \A n \in 1 .. MaxRows : WF_vars(ProcessRow(n))

-----------------------------------------------------------------------------
(***************************************************************************)
(* Properties                                                              *)
(***************************************************************************)

\* The state is well formed: rows of the right shape, dates within the clock.
TypeOK ==
  /\ now \in Times
  /\ shipment \in ShipmentRow
  /\ events \in Seq(Event)
  /\ outbox \in Seq(OutboxRow) /\ Len(outbox) <= MaxRows
  /\ api \in [Procs -> Request]

\* "Nenhum evento aceito é perdido ou duplicado" (ADR-0004), as far as safety
\* goes: an accepted row is in the history exactly once when it is marked
\* processed and not at all before, however many requests and workers
\* interleave (the claim, the event and the status are one transaction).
ExactlyOnce ==
  Live =>
    /\ \A n \in DOMAIN outbox :
         outbox[n].processed <=> \E i \in DOMAIN events : events[i].row = n
    /\ \A i, j \in DOMAIN events :
         events[i].row = events[j].row /\ events[i].row # NoRow => i = j

\* The current status never goes back (ADR-0004), whatever stale snapshot a
\* delivery holds, and whatever order the worker processes the rows in; once
\* DELIVERED, the shipment row never changes again.
StatusNeverRegresses ==
  [][Live /\ Live' =>
       /\ Rank[shipment.status] <= Rank[shipment'.status]
       /\ shipment.status = "DELIVERED" => shipment' = shipment]_vars

\* The events that moved the shipment tell its story: no status was entered
\* twice (so two deliveries racing, or a delivery racing a worker, never both
\* win), they are in id order, the last one is the current status, and
\* deliveredAt is the date of the one that delivered (a synchronous delivery
\* reads the clock before its transaction and dates its event within it).
MovesTellTheStatus ==
  Live =>
    /\ \A i, j \in DOMAIN events :
         events[i].moved /\ events[j].moved /\ i < j =>
           Rank[events[i].status] < Rank[events[j].status]
    /\ \E i \in DOMAIN events :
         /\ events[i].moved /\ events[i].status = shipment.status
         /\ \A j \in DOMAIN events : events[j].moved => j <= i
    /\ (shipment.deliveredAt # NotDelivered) <=> (shipment.status = "DELIVERED")
    /\ \A i \in DOMAIN events :
         events[i].moved /\ events[i].status = "DELIVERED" =>
           \/ events[i].occurredAt = shipment.deliveredAt
           \/ /\ events[i].kind = "delivery"
              /\ events[i].occurredAt > shipment.deliveredAt

\* As long as no administrator wrote to the history and nothing was dated
\* after its own recording, the latest event in canonical order carries the
\* current status: the head of the history page and the shipment agree.
LatestEventShowsStatus ==
  /\ Live
  /\ \A i \in DOMAIN events :
       events[i].kind # "manual" /\ events[i].occurredAt <= events[i].createdAt
  => \A i \in DOMAIN events : IsLatestEvent(i) => events[i].status = shipment.status

\* Accepted and still pending transitions take part in the validation
\* (TRACKING_DEFINITION.md): the pending STATUS rows climb the flow in
\* acceptance order, so no two of them ask for the same transition.
PendingStatusesAscend ==
  \A m, n \in PendingStatusRows :
    m < n => Rank[outbox[m].status] < Rank[outbox[n].status]

\* The pending STATUS row that was accepted first.
NextInLine(n) ==
  n \in PendingStatusRows /\ \A m \in PendingStatusRows : n <= m

\* No delivery went past the outbox, and every STATUS recorded so far moved
\* the shipment: none was found older than the latest event.
Undisturbed ==
  \A i \in DOMAIN events :
    events[i].kind # "delivery" /\ (events[i].kind = "status" => events[i].moved)

\* The outbox holds STATUS rows alone, dated in acceptance order, and nothing
\* else in the history is a delivery or later than one of them.
Orderly ==
  /\ \A n \in DOMAIN outbox : outbox[n].eventType = "STATUS"
  /\ \A m, n \in DOMAIN outbox :
       m < n => outbox[m].occurredAt <= outbox[n].occurredAt
  /\ \A i \in DOMAIN events :
       /\ events[i].kind # "delivery"
       /\ events[i].row = NoRow =>
            \A n \in DOMAIN outbox : events[i].occurredAt <= outbox[n].occurredAt

\* A pending row is stuck (its transaction throws on every retry) only behind a
\* delivery or behind a STATUS that was recorded as retroactive: otherwise the
\* STATUS next in line, whatever it was validated against when accepted, can
\* be processed now.  In an orderly outbox it even moves the shipment, so that
\* the shipment goes through all the statuses that were accepted.
OnlyDisturbedRowsStall ==
  Live =>
    \A n \in PendingStatusRows : NextInLine(n) =>
      /\ Undisturbed => MovesShipment(n) \/ RecordsOnly(n)
      /\ Orderly => MovesShipment(n)

\* How many events the history holds of a row; a removed shipment takes them
\* along, the mark on the row stays.
Recorded(n) ==
  IF Live THEN Cardinality({i \in DOMAIN events : events[i].row = n})
  ELSE IF n \in DOMAIN outbox /\ outbox[n].processed THEN 1 ELSE 0

Promise == INSTANCE ReliableDelivery WITH
  Rows <- 1 .. MaxRows, accepted <- DOMAIN outbox,
  recorded <- [n \in 1 .. MaxRows |-> Recorded(n)]

\* The transactions of the database implement the safety part of the promise,
\* as the queues do (module OutboxDelivery): a row that was accepted gets at
\* most one event, and no other row gets any.
RecordsAtMostOnce == Promise!AtMostOnce

\* Three attempts are enough: a delivery answers 409 SHIPMENT_CONFLICT only
\* when somebody else delivered the shipment (or removed it) meanwhile,
\* because only two moves fit between its snapshot and DELIVERED.
ConflictMeansDelivered ==
  \A p \in Procs :
    api[p].pc = "conflict" => ~Live \/ shipment.status = "DELIVERED"

\* Every accepted row is recorded sooner or later.
EveryAcceptedRowIsRecorded ==
  \A n \in 1 .. MaxRows :
    Claimable(n) ~> (n \in DOMAIN outbox /\ outbox[n].processed)

-----------------------------------------------------------------------------
(***************************************************************************)
(* The inductive invariant (module TrackingLedgerProofs)                   *)
(***************************************************************************)

\* Nothing precedes the registration; an event names an accepted row, if any,
\* whose date it has, and was recorded in the past.
Bookkeeping ==
  /\ shipment.state = "unborn" =>
       outbox = <<>> /\ api = [p \in Procs |-> NoRequest("idle")]
  /\ \A i \in DOMAIN events :
       /\ \/ events[i].row = NoRow
          \/ /\ events[i].row \in DOMAIN outbox
             /\ events[i].occurredAt = outbox[events[i].row].occurredAt
       /\ events[i].createdAt <= now

\* What a delivery in flight has read is deliverable and not ahead of the
\* shipment, is the shipment's present row if the status is, and has climbed
\* the flow with every further attempt.
DeliverySnapshots ==
  \A p \in Procs :
    api[p].op \in Deliveries =>
      /\ api[p].at <= now
      /\ CanDeliver(api[p].status)
      /\ api[p].attempt <= Rank[api[p].status] + 1
      /\ Live => Rank[api[p].status] <= Rank[shipment.status]
      /\ Live /\ api[p].status = shipment.status =>
           api[p].updatedAt = shipment.updatedAt

\* Undisturbed, the pending STATUS rows continue the flow from the status of
\* the shipment, each from the one before it.
PendingRowsChain ==
  Live /\ Undisturbed =>
    \A n \in PendingStatusRows :
      /\ Rank[shipment.status] < Rank[outbox[n].status]
      /\ \/ NextInLine(n) /\ CanTransition(shipment.status, outbox[n].status)
         \/ \E m \in PendingStatusRows :
              /\ m < n /\ \A k \in PendingStatusRows : k <= m \/ n <= k
              /\ CanTransition(outbox[m].status, outbox[n].status)

\* The rows of an orderly outbox are processed in order, and move the shipment.
OrderlyProgress ==
  Live /\ Orderly =>
    /\ Undisturbed
    /\ \A m, n \in DOMAIN outbox :
         m < n /\ outbox[n].processed => outbox[m].processed

LedgerInv ==
  /\ TypeOK
  /\ Bookkeeping
  /\ DeliverySnapshots
  /\ ExactlyOnce
  /\ MovesTellTheStatus
  /\ LatestEventShowsStatus
  /\ PendingStatusesAscend
  /\ PendingRowsChain
  /\ OrderlyProgress
  /\ ConflictMeansDelivered

-----------------------------------------------------------------------------
(***************************************************************************)
(* Statements of the documentation that the code does not keep             *)
(***************************************************************************)

\* mark-shipment-delivered.use-case.ts:26 "Without an explicit location, the
\* delivery keeps the latest event location".
DeliveryKeepsLatestLocation ==
  [][\A p \in Procs :
       DeliverMatching(p) /\ api[p].pc = "ready" /\ api[p].op = "deliver" =>
         \A i \in DOMAIN events :
           IsLatestEvent(i) => api[p].place = events[i].place]_vars
=============================================================================
