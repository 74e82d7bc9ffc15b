------------------------ MODULE TrackingLedgerProofs ------------------------
(***************************************************************************)
(* Theorems about TrackingLedger, for every set of requests and places and *)
(* every bound on the clock, the rows and the history.                     *)
(***************************************************************************)
EXTENDS TrackingLedger, FiniteSetTheorems, TLAPS

USE LedgerAssumption

\* The event a step writes is a well-formed row of shipment_events.
LEMMA NewEventType ==
  ASSUME now \in Times, NEW kind \in Kinds, NEW row \in 0 .. MaxRows,
         NEW status \in Statuses, NEW at \in Times, NEW place \in Places,
         NEW moved \in BOOLEAN
  PROVE  NewEvent(kind, row, status, at, place, moved) \in Event
  BY DEF NewEvent, Event

\* A finished request leaves a well-formed request table.
LEMMA FinishType ==
  ASSUME TypeOK, NEW p \in Procs, NEW pc \in {"idle", "conflict"},
         Finish(p, pc)
  PROVE  api' \in [Procs -> Request]
  BY DEF TypeOK, Finish, NoRequest, Request, Statuses, Times, AllOperations

\* A history of one event is a sequence of events.
LEMMA SingletonSeq == ASSUME NEW S, NEW e \in S PROVE <<e>> \in Seq(S)
  OBVIOUS

LEMMA InitType == Init => TypeOK
  BY DEF Init, TypeOK, ShipmentRow, NotDelivered, Times, Statuses, NoRequest,
         Request, AllOperations

LEMMA CreateType == TypeOK /\ Create => TypeOK'
  <1> SUFFICES ASSUME TypeOK, Create PROVE TypeOK'
    OBVIOUS
  <1>1. NewEvent("created", NoRow, "CREATED", now, Origin, TRUE) \in Event
    BY DEF NewEvent, Event, TypeOK, Kinds, NoRow, Statuses
  <1>2. events' \in Seq(Event)
    BY <1>1, SingletonSeq DEF Create
  <1> QED
    BY <1>2 DEF TypeOK, Create, ShipmentRow, NotDelivered, Times, Statuses

LEMMA LoadType == ASSUME NEW p \in Procs PROVE TypeOK /\ Load(p) => TypeOK'
  <1> SUFFICES ASSUME TypeOK, Load(p) PROVE TypeOK'
    OBVIOUS
  <1>1. api' \in [Procs -> Request]
    BY DEF TypeOK, Load, Request, ShipmentRow, AllOperations
  <1> QED
    BY <1>1 DEF TypeOK, Load

LEMMA AcceptType ==
  ASSUME TypeOK, NEW p \in Procs, NEW type \in {"STATUS", "LOCATION"},
         NEW status \in Statuses, NEW place \in Places,
         Accept(p, type, status, place)
  PROVE  TypeOK'
  <1> DEFINE row == [eventType |-> type, status |-> status,
                     occurredAt |-> api[p].at, place |-> place,
                     processed |-> FALSE]
  <1>1. row \in OutboxRow
    BY DEF TypeOK, Request, OutboxRow
  <1>2. outbox' \in Seq(OutboxRow) /\ Len(outbox') <= MaxRows
    BY <1>1 DEF TypeOK, Accept
  <1>3. api' \in [Procs -> Request]
    BY FinishType DEF Accept
  <1> QED
    BY <1>2, <1>3 DEF TypeOK, Accept

LEMMA RecordRowType ==
  ASSUME TypeOK, NEW n \in 1 .. MaxRows, Claimable(n),
         NEW status \in Statuses, NEW moved \in BOOLEAN,
         RecordRow(n, status, moved)
  PROVE  /\ events' \in Seq(Event)
         /\ outbox' \in Seq(OutboxRow) /\ Len(outbox') = Len(outbox)
  <1> DEFINE kind == IF outbox[n].eventType = "STATUS" THEN "status" ELSE "location"
             e == NewEvent(kind, n, status, outbox[n].occurredAt,
                           outbox[n].place, moved)
  <1>1. outbox[n] \in OutboxRow
    BY DEF TypeOK, Claimable
  <1>2. e \in Event
    <2>1. kind \in Kinds /\ outbox[n].occurredAt \in Times /\ outbox[n].place \in Places
      BY <1>1 DEF Kinds, OutboxRow
    <2>2. now \in Times /\ n \in 0 .. MaxRows
      BY DEF TypeOK
    <2> QED
      BY <2>1, <2>2, NewEventType
  <1>3. events' = Append(events, e)
    BY DEF RecordRow
  <1>4. [outbox[n] EXCEPT !.processed = TRUE] \in OutboxRow
    BY <1>1 DEF OutboxRow
  <1>5. outbox' = [outbox EXCEPT ![n] = [outbox[n] EXCEPT !.processed = TRUE]]
    BY DEF RecordRow
  <1> HIDE DEF e
  <1> QED
    BY <1>2, <1>3, <1>4, <1>5 DEF TypeOK, Claimable

LEMMA ProcessRowType ==
  ASSUME NEW n \in 1 .. MaxRows PROVE TypeOK /\ ProcessRow(n) => TypeOK'
  <1> SUFFICES ASSUME TypeOK, ProcessRow(n) PROVE TypeOK'
    OBVIOUS
  <1>1. Claimable(n) /\ now' = now /\ api' = api
    BY DEF ProcessRow
  <1>2. outbox[n] \in OutboxRow
    BY <1>1 DEF TypeOK, Claimable
  <1>3. CASE /\ MovesShipment(n)
             /\ RecordRow(n, outbox[n].status, TRUE)
             /\ shipment' = [shipment EXCEPT
                  !.status = outbox[n].status, !.updatedAt = now,
                  !.deliveredAt = IF outbox[n].status = "DELIVERED"
                                    THEN outbox[n].occurredAt ELSE @]
    <2>1. outbox[n].status \in Statuses /\ outbox[n].occurredAt \in Times
      BY <1>2 DEF OutboxRow
    <2>2. shipment' \in ShipmentRow
      BY <1>3, <2>1 DEF TypeOK, ShipmentRow
    <2> QED
      BY <1>1, <1>3, <2>1, <2>2, RecordRowType DEF TypeOK
  <1>4. CASE /\ RecordRow(n, IF outbox[n].eventType = "STATUS"
                               THEN outbox[n].status ELSE shipment.status, FALSE)
             /\ UNCHANGED shipment
    <2>1. (IF outbox[n].eventType = "STATUS"
             THEN outbox[n].status ELSE shipment.status) \in Statuses
      BY <1>2 DEF OutboxRow, TypeOK, ShipmentRow
    <2> QED
      BY <1>1, <1>4, <2>1, RecordRowType DEF TypeOK
  <1> QED
    BY <1>3, <1>4 DEF ProcessRow

LEMMA ReadLatestLocationType ==
  ASSUME NEW p \in Procs PROVE TypeOK /\ ReadLatestLocation(p) => TypeOK'
  <1> SUFFICES ASSUME TypeOK, ReadLatestLocation(p) PROVE TypeOK'
    OBVIOUS
  <1>1. PICK place \in Places :
          api' = [api EXCEPT ![p].pc = "ready", ![p].place = place,
                              ![p].at = now]
    BY DEF ReadLatestLocation
  <1>2. api' \in [Procs -> Request]
    <2>1. api[p] \in Request /\ now \in Times
      BY DEF TypeOK
    <2>2. [api[p] EXCEPT !.pc = "ready", !.place = place, !.at = now] \in Request
      BY <2>1 DEF Request
    <2>3. api' = [api EXCEPT ![p] =
                    [api[p] EXCEPT !.pc = "ready", !.place = place, !.at = now]]
      BY <1>1 DEF TypeOK
    <2> QED
      BY <2>2, <2>3 DEF TypeOK
  <1> QED
    BY <1>2 DEF TypeOK, ReadLatestLocation

LEMMA DeliverMatchingType ==
  ASSUME NEW p \in Procs PROVE TypeOK /\ DeliverMatching(p) => TypeOK'
  <1> SUFFICES ASSUME TypeOK, DeliverMatching(p) PROVE TypeOK'
    OBVIOUS
  <1> DEFINE e == NewEvent("delivery", NoRow, "DELIVERED", now, api[p].place, TRUE)
  <1>1. e \in Event
    <2>1. api[p].place \in Places /\ now \in Times
      BY DEF TypeOK, Request
    <2> QED
      BY <2>1 DEF NewEvent, Event, Kinds, Statuses, NoRow
  <1>2. events' = Append(events, e)
    BY DEF DeliverMatching
  <1> HIDE DEF e
  <1>3. events' \in Seq(Event)
    BY <1>1, <1>2 DEF TypeOK
  <1>4. shipment' \in ShipmentRow
    <2>1. shipment \in ShipmentRow /\ now \in Times /\ api[p].at \in Times
      BY DEF TypeOK, Request
    <2> QED
      BY <2>1 DEF DeliverMatching, ShipmentRow, Statuses
  <1>5. api' \in [Procs -> Request]
    BY FinishType DEF DeliverMatching
  <1> QED
    BY <1>3, <1>4, <1>5 DEF TypeOK, DeliverMatching

LEMMA DeliverConflictingType ==
  ASSUME NEW p \in Procs PROVE TypeOK /\ DeliverConflicting(p) => TypeOK'
  <1> SUFFICES ASSUME TypeOK, DeliverConflicting(p) PROVE TypeOK'
    OBVIOUS
  <1>1. CASE Finish(p, "idle") \/ Finish(p, "conflict")
    BY <1>1, FinishType DEF TypeOK, DeliverConflicting
  <1>2. CASE /\ ~OutOfAttempts(p)
             /\ api' = [api EXCEPT ![p].status = shipment.status,
                                   ![p].updatedAt = shipment.updatedAt,
                                   ![p].at = now, ![p].attempt = @ + 1]
    <2>1. api[p] \in Request /\ api[p].attempt + 1 \in 0 .. 3
      BY <1>2 DEF TypeOK, Request, OutOfAttempts, MaxAttempts
    <2>2. api' \in [Procs -> Request]
      BY <1>2, <2>1 DEF TypeOK, Request, ShipmentRow
    <2> QED
      BY <2>2 DEF TypeOK, DeliverConflicting
  <1> QED
    BY <1>1, <1>2 DEF DeliverConflicting

LEMMA AddManualEventType ==
  ASSUME NEW p \in Procs PROVE TypeOK /\ AddManualEvent(p) => TypeOK'
  <1> SUFFICES ASSUME TypeOK, AddManualEvent(p) PROVE TypeOK'
    OBVIOUS
  <1>1. PICK status \in Statuses, place \in Places :
          events' = Append(events,
            NewEvent("manual", NoRow, status, api[p].at, place, FALSE))
    BY DEF AddManualEvent
  <1> DEFINE e == NewEvent("manual", NoRow, status, api[p].at, place, FALSE)
  <1>2. e \in Event
    <2>1. api[p].at \in Times /\ now \in Times
      BY DEF TypeOK, Request
    <2> QED
      BY <2>1 DEF NewEvent, Event, Kinds, NoRow
  <1>3. events' = Append(events, e)
    BY <1>1
  <1> HIDE DEF e
  <1>4. events' \in Seq(Event)
    BY <1>2, <1>3 DEF TypeOK
  <1>5. api' \in [Procs -> Request]
    BY FinishType DEF AddManualEvent
  <1> QED
    BY <1>4, <1>5 DEF TypeOK, AddManualEvent

LEMMA CancelType == ASSUME NEW p \in Procs PROVE TypeOK /\ Cancel(p) => TypeOK'
  <1> SUFFICES ASSUME TypeOK, Cancel(p) PROVE TypeOK'
    OBVIOUS
  <1>1. api' \in [Procs -> Request]
    BY FinishType DEF Cancel
  <1>2. shipment' \in ShipmentRow
    BY DEF TypeOK, Cancel, ShipmentRow
  <1>3. events' \in Seq(Event)
    BY DEF Cancel
  <1> QED
    BY <1>1, <1>2, <1>3 DEF TypeOK, Cancel

\* One request's step.
LEMMA HandleType == ASSUME NEW p \in Procs PROVE TypeOK /\ Handle(p) => TypeOK'
  <1> SUFFICES ASSUME TypeOK, Handle(p) PROVE TypeOK'
    OBVIOUS
  <1>1. CASE AcceptStatus(p)
    BY <1>1, AcceptType DEF AcceptStatus
  <1>2. CASE AcceptLocation(p)
    <2>1. api[p].status \in Statuses
      BY DEF TypeOK, Request
    <2> QED
      BY <1>2, <2>1, AcceptType DEF AcceptLocation
  <1>3. CASE Fail(p)
    BY <1>3, FinishType DEF Fail, TypeOK
  <1>4. CASE AttemptDelivery(p)
    BY <1>4, DeliverMatchingType, DeliverConflictingType DEF AttemptDelivery
  <1> QED
    BY <1>1, <1>2, <1>3, <1>4, LoadType, ReadLatestLocationType,
       AddManualEventType, CancelType DEF Handle

LEMMA NextType == TypeOK /\ [Next]_vars => TypeOK'
  <1> SUFFICES ASSUME TypeOK, [Next]_vars PROVE TypeOK'
    OBVIOUS
  <1>1. CASE Tick
    BY <1>1 DEF Tick, TypeOK, Times
  <1>2. CASE UNCHANGED vars
    BY <1>2 DEF vars, TypeOK
  <1> QED
    BY <1>1, <1>2, CreateType, HandleType, ProcessRowType DEF Next

\* The ledger is well formed in every reachable state, whatever the number of
\* requests, rows and events.
THEOREM TypeCorrect == Spec => []TypeOK
  BY InitType, NextType, PTL DEF Spec

-----------------------------------------------------------------------------
(***************************************************************************)
(* The status flow                                                         *)
(***************************************************************************)

\* Ranks number the statuses; an allowed transition climbs exactly one.
LEMMA RankFacts ==
  /\ \A s \in Statuses : Rank[s] \in 0 .. 3 /\ (s # "DELIVERED" => Rank[s] < 3)
  /\ Rank["DELIVERED"] = 3
  /\ \A s, t \in Statuses : Rank[s] = Rank[t] => s = t
  /\ \A s, t \in Statuses : CanTransition(s, t) => Rank[t] = Rank[s] + 1
  BY DEF Rank, Statuses, CanTransition, AllowedTransitions

-----------------------------------------------------------------------------
(***************************************************************************)
(* How the steps touch the history and the shipment                        *)
(***************************************************************************)

\* Neither the history nor the shipment changes.
Quiet == UNCHANGED <<shipment, events>>

\* An event is appended to the history of a live shipment.
AppendsEvent(e) == Live /\ Live' /\ events' = Append(events, e)

\* What an appended event does to the history, entry by entry.
LEMMA Appended ==
  ASSUME events \in Seq(Event), NEW e \in Event, AppendsEvent(e)
  PROVE  /\ DOMAIN events' = DOMAIN events \cup {Len(events) + 1}
         /\ Len(events) + 1 \in Nat /\ Len(events) + 1 \notin DOMAIN events
         /\ \A i \in DOMAIN events :
              events'[i] = events[i] /\ i \in Nat /\ i < Len(events) + 1
         /\ events'[Len(events) + 1] = e
  BY DEF AppendsEvent

-----------------------------------------------------------------------------
(***************************************************************************)
(* The shipment only advances                                              *)
(***************************************************************************)

\* A live shipment keeps its row or moves up the flow, and nothing else than
\* a registration brings a row to life.
Advances ==
  /\ Live /\ Live' =>
       shipment' = shipment \/ Rank[shipment.status] < Rank[shipment'.status]
  /\ ~Live /\ Live' => shipment.state = "unborn"

LEMMA QuietAdvances == Quiet => Advances
  BY DEF Quiet, Advances, Live

LEMMA ProcessRowAdvances ==
  ASSUME TypeOK, NEW n \in 1 .. MaxRows, ProcessRow(n) PROVE Advances
  <1>1. CASE UNCHANGED shipment
    BY <1>1 DEF Advances, Live
  <1>2. CASE /\ MovesShipment(n)
             /\ shipment' = [shipment EXCEPT
                  !.status = outbox[n].status, !.updatedAt = now,
                  !.deliveredAt = IF outbox[n].status = "DELIVERED"
                                    THEN outbox[n].occurredAt ELSE @]
    <2>1. outbox[n].status \in Statuses /\ shipment.status \in Statuses
      <3>1. outbox[n] \in OutboxRow
        BY DEF TypeOK, ProcessRow, Claimable
      <3> QED
        BY <3>1 DEF OutboxRow, TypeOK, ShipmentRow
    <2>2. Rank[outbox[n].status] = Rank[shipment.status] + 1
      BY <1>2, <2>1, RankFacts DEF MovesShipment
    <2>3. Rank[shipment.status] < Rank[outbox[n].status]
      BY <2>1, <2>2, RankFacts
    <2>4. shipment'.status = outbox[n].status
      BY <1>2 DEF TypeOK, ShipmentRow
    <2>5. Live
      BY DEF ProcessRow
    <2> QED
      BY <2>3, <2>4, <2>5 DEF Advances
  <1> QED
    BY <1>1, <1>2 DEF ProcessRow

LEMMA DeliveryAdvances ==
  ASSUME TypeOK, DeliverySnapshots, NEW p \in Procs, AttemptDelivery(p)
  PROVE  Advances
  <1>1. CASE DeliverConflicting(p)
    BY <1>1, QuietAdvances DEF DeliverConflicting, Quiet
  <1>2. CASE DeliverMatching(p)
    <2>1. shipment.status \in Statuses /\ shipment.status # "DELIVERED"
      BY <1>2 DEF TypeOK, ShipmentRow, DeliverySnapshots, AttemptDelivery,
                  DeliverMatching, Matches, CanDeliver
    <2>2. shipment'.status = "DELIVERED" /\ Live
      BY <1>2 DEF TypeOK, ShipmentRow, DeliverMatching, Matches
    <2> QED
      BY <2>1, <2>2, RankFacts DEF Advances
  <1> QED
    BY <1>1, <1>2 DEF AttemptDelivery

LEMMA HandleAdvances ==
  ASSUME TypeOK, DeliverySnapshots, NEW p \in Procs, Handle(p) PROVE Advances
  <1>1. CASE Load(p) \/ AcceptStatus(p) \/ AcceptLocation(p) \/ Fail(p)
             \/ ReadLatestLocation(p)
    BY <1>1, QuietAdvances DEF Load, AcceptStatus, AcceptLocation, Accept, Fail,
                               ReadLatestLocation, Quiet
  <1>2. CASE AddManualEvent(p)
    BY <1>2 DEF AddManualEvent, Advances, Live
  <1>3. CASE Cancel(p)
    BY <1>3 DEF Cancel, Advances, Live, TypeOK, ShipmentRow
  <1> QED
    BY <1>1, <1>2, <1>3, DeliveryAdvances DEF Handle

LEMMA NextAdvances ==
  ASSUME TypeOK, DeliverySnapshots, [Next]_vars PROVE Advances
  <1>1. CASE Create
    BY <1>1 DEF Create, Advances, Live
  <1>2. CASE Tick \/ UNCHANGED vars
    BY <1>2, QuietAdvances DEF Tick, vars, Quiet
  <1> QED
    BY <1>1, <1>2, HandleAdvances, ProcessRowAdvances DEF Next

-----------------------------------------------------------------------------
(***************************************************************************)
(* Deliveries in flight                                                    *)
(***************************************************************************)

\* A request table entry that is kept, or is none, stays a good snapshot.
LEMMA SnapshotsKept ==
  ASSUME TypeOK, TypeOK', DeliverySnapshots, Advances, now <= now',
         shipment.state = "unborn" =>
           \A p \in Procs : api'[p].op = "none",
         \A p \in Procs : api'[p] = api[p] \/ api'[p].op = "none"
  PROVE  DeliverySnapshots'
  <1> SUFFICES ASSUME NEW p \in Procs, api'[p].op \in Deliveries
               PROVE  /\ api'[p].at <= now'
                      /\ CanDeliver(api'[p].status)
                      /\ api'[p].attempt <= Rank[api'[p].status] + 1
                      /\ Live' => Rank[api'[p].status] <= Rank[shipment'.status]
                      /\ Live' /\ api'[p].status = shipment'.status =>
                           api'[p].updatedAt = shipment'.updatedAt
    BY DEF DeliverySnapshots
  <1>1. api'[p] = api[p] /\ shipment.state # "unborn"
    BY DEF Deliveries
  <1>2. Live' => Live
    BY <1>1 DEF Advances
  <1>3. /\ api[p].status \in Statuses /\ shipment.status \in Statuses
        /\ shipment'.status \in Statuses
        /\ api[p].at \in Nat /\ now \in Nat /\ now' \in Nat
    BY DEF TypeOK, Request, ShipmentRow, Times
  <1>4. /\ Rank[api[p].status] \in 0 .. 3 /\ Rank[shipment.status] \in 0 .. 3
        /\ Rank[shipment'.status] \in 0 .. 3
    BY <1>3, RankFacts
  <1> QED
    BY <1>1, <1>2, <1>3, <1>4 DEF DeliverySnapshots, Advances, Deliveries

LEMMA LoadSnapshots ==
  ASSUME TypeOK, DeliverySnapshots, NEW p \in Procs, Load(p)
  PROVE  DeliverySnapshots'
  <1>1. shipment' = shipment /\ Live /\ shipment.status \in Statuses
    BY DEF Load, TypeOK, ShipmentRow
  <1>2. ASSUME NEW q \in Procs, q # p PROVE api'[q] = api[q]
    BY <1>2 DEF Load, TypeOK
  <1>3. /\ api'[p].status = shipment.status
        /\ api'[p].updatedAt = shipment.updatedAt /\ api'[p].attempt = 1
        /\ api'[p].op \in Deliveries => CanDeliver(shipment.status) /\ api'[p].at = now
    BY DEF Load, TypeOK, Dated, Deliveries
  <1>4. /\ Rank[shipment.status] \in 0 .. 3
        /\ now' = now /\ now <= now
    BY <1>1, RankFacts DEF Load, TypeOK, Times
  <1> QED
    BY <1>1, <1>2, <1>3, <1>4 DEF DeliverySnapshots, Live

\* Another attempt starts from a row further up the flow.
LEMMA RetrySnapshots ==
  ASSUME TypeOK, DeliverySnapshots, NEW p \in Procs, AttemptDelivery(p),
         DeliverConflicting(p)
  PROVE  DeliverySnapshots'
  <1>1. CASE Finish(p, "idle") \/ Finish(p, "conflict")
    <2>1. \A q \in Procs : api'[q] = api[q] \/ api'[q].op = "none"
      BY <1>1 DEF Finish, NoRequest, TypeOK
    <2> QED
      BY <2>1 DEF DeliverySnapshots, DeliverConflicting, Live, Deliveries
  <1>2. CASE /\ Live /\ CanDeliver(shipment.status)
             /\ api' = [api EXCEPT ![p].status = shipment.status,
                                   ![p].updatedAt = shipment.updatedAt,
                                   ![p].at = now, ![p].attempt = @ + 1]
    <2>1. /\ api[p].status \in Statuses /\ shipment.status \in Statuses
          /\ api[p].attempt \in 0 .. 3
      BY DEF TypeOK, Request, ShipmentRow
    <2>2. api[p].status # shipment.status
      BY <1>2 DEF AttemptDelivery, DeliverConflicting, Matches, DeliverySnapshots
    <2>3. /\ Rank[api[p].status] < Rank[shipment.status]
          /\ api[p].attempt <= Rank[api[p].status] + 1
          /\ Rank[api[p].status] \in 0 .. 3 /\ Rank[shipment.status] \in 0 .. 3
      BY <1>2, <2>1, <2>2, RankFacts DEF AttemptDelivery, DeliverySnapshots
    <2>4. /\ api'[p].status = shipment.status
          /\ api'[p].updatedAt = shipment.updatedAt
          /\ api'[p].attempt = api[p].attempt + 1 /\ api'[p].at = now
          /\ \A q \in Procs \ {p} : api'[q] = api[q]
      BY <1>2 DEF TypeOK, Request
    <2>5. shipment' = shipment /\ now' = now /\ now <= now
      BY DEF DeliverConflicting, TypeOK, Times
    <2>6. Rank[shipment.status] <= Rank[shipment.status]
      BY <2>3
    <2>7. ASSUME NEW q \in Procs, api'[q].op \in Deliveries
          PROVE  /\ api'[q].at <= now'
                 /\ CanDeliver(api'[q].status)
                 /\ api'[q].attempt <= Rank[api'[q].status] + 1
                 /\ Live' => Rank[api'[q].status] <= Rank[shipment'.status]
                 /\ Live' /\ api'[q].status = shipment'.status =>
                      api'[q].updatedAt = shipment'.updatedAt
      <3>1. CASE q = p
        BY <1>2, <2>1, <2>3, <2>4, <2>5, <2>6, <3>1
      <3>2. CASE q # p
        BY <2>4, <2>5, <2>7, <3>2 DEF DeliverySnapshots, Live
      <3> QED
        BY <3>1, <3>2
    <2> QED
      BY <2>7 DEF DeliverySnapshots
  <1> QED
    BY <1>1, <1>2 DEF DeliverConflicting

\* A 409 that was justified stays justified.
LEMMA ConflictKept ==
  ASSUME TypeOK, TypeOK', Bookkeeping, ConflictMeansDelivered, Advances,
         \A q \in Procs : api'[q].pc = "conflict" => api[q].pc = "conflict"
  PROVE  ConflictMeansDelivered'
  <1> SUFFICES ASSUME NEW q \in Procs, api'[q].pc = "conflict", Live'
               PROVE  shipment'.status = "DELIVERED"
    BY DEF ConflictMeansDelivered
  <1>1. api[q].pc = "conflict" /\ shipment.state # "unborn"
    BY DEF Bookkeeping, NoRequest
  <1>2. Live /\ shipment.status = "DELIVERED"
    BY <1>1 DEF Advances, ConflictMeansDelivered
  <1>3. shipment'.status \in Statuses
    BY DEF TypeOK, ShipmentRow
  <1>4. Rank["DELIVERED"] = 3 /\ Rank[shipment'.status] \in 0 .. 3
    BY <1>3, RankFacts
  <1> QED
    BY <1>2, <1>4 DEF Advances

\* The third attempt has seen TRANSFERRED; what it met instead is DELIVERED.
LEMMA ConflictJustified ==
  ASSUME TypeOK, TypeOK', Bookkeeping, ConflictMeansDelivered, DeliverySnapshots,
         NEW p \in Procs, AttemptDelivery(p), DeliverConflicting(p)
  PROVE  ConflictMeansDelivered'
  <1>0. shipment' = shipment /\ Advances
    BY QuietAdvances DEF DeliverConflicting, Quiet
  <1>1. CASE \A q \in Procs : api'[q].pc = "conflict" => api[q].pc = "conflict"
    BY <1>0, <1>1, ConflictKept
  <1>2. CASE Live /\ OutOfAttempts(p) /\ Finish(p, "conflict")
    <2>1. api[p].status \in Statuses /\ shipment.status \in Statuses
          /\ api[p].attempt \in 0 .. 3
      BY DEF TypeOK, Request, ShipmentRow
    <2>2. api[p].status # shipment.status
      BY <1>2 DEF AttemptDelivery, DeliverConflicting, Matches, DeliverySnapshots
    <2>3. /\ Rank[api[p].status] <= Rank[shipment.status]
          /\ 3 <= Rank[api[p].status] + 1
      BY <1>2, <2>1, RankFacts
         DEF AttemptDelivery, DeliverySnapshots, OutOfAttempts, MaxAttempts
    <2>4. /\ Rank[api[p].status] \in 0 .. 3 /\ Rank[shipment.status] \in 0 .. 3
          /\ Rank[api[p].status] # Rank[shipment.status]
      BY <2>1, <2>2, RankFacts
    <2>5. Rank[shipment.status] = Rank["DELIVERED"]
      BY <2>3, <2>4, RankFacts
    <2>6. shipment.status = "DELIVERED"
      BY <2>1, <2>5, RankFacts DEF Statuses
    <2> QED
      BY <1>0, <2>6 DEF ConflictMeansDelivered
  <1>3. CASE \/ Finish(p, "idle")
             \/ api' = [api EXCEPT ![p].status = shipment.status,
                                   ![p].updatedAt = shipment.updatedAt,
                                   ![p].at = now, ![p].attempt = @ + 1]
    <2>1. \A q \in Procs : api'[q].pc = "conflict" => api[q].pc = "conflict"
      BY <1>3 DEF TypeOK, Request, Finish, NoRequest
    <2> QED
      BY <1>1, <2>1
  <1> QED
    BY <1>2, <1>3 DEF DeliverConflicting

-----------------------------------------------------------------------------
(***************************************************************************)
(* Pending transitions                                                     *)
(***************************************************************************)

\* Rows that only leave the pending set leave it ascending.
LEMMA PendingKept ==
  ASSUME PendingStatusesAscend, PendingStatusRows' \subseteq PendingStatusRows,
         \A n \in PendingStatusRows : outbox'[n].status = outbox[n].status
  PROVE  PendingStatusesAscend'
  BY DEF PendingStatusesAscend

LEMMA ProcessRowPending ==
  ASSUME TypeOK, PendingStatusesAscend, NEW n \in 1 .. MaxRows, ProcessRow(n)
  PROVE  PendingStatusesAscend'
  <1>1. /\ n \in DOMAIN outbox
        /\ outbox' = [outbox EXCEPT ![n].processed = TRUE]
    BY DEF ProcessRow, Claimable, RecordRow
  <1>2. /\ DOMAIN outbox' = DOMAIN outbox
        /\ \A m \in DOMAIN outbox :
             /\ outbox'[m].status = outbox[m].status
             /\ outbox'[m].eventType = outbox[m].eventType
             /\ ~outbox'[m].processed => ~outbox[m].processed
    BY <1>1 DEF TypeOK, OutboxRow
  <1>3. PendingStatusRows' \subseteq PendingStatusRows
    BY <1>2 DEF PendingStatusRows
  <1>4. \A m \in PendingStatusRows : outbox'[m].status = outbox[m].status
    BY <1>2 DEF PendingStatusRows
  <1> QED
    BY <1>3, <1>4, PendingKept

\* What an acceptance does to the outbox, row by row.
LEMMA Accepted ==
  ASSUME TypeOK, NEW p \in Procs, NEW type \in {"STATUS", "LOCATION"},
         NEW status \in Statuses, NEW place \in Places,
         Accept(p, type, status, place)
  PROVE  /\ Len(outbox) \in Nat /\ DOMAIN outbox = 1 .. Len(outbox)
         /\ DOMAIN outbox' = DOMAIN outbox \cup {Len(outbox) + 1}
         /\ \A m \in DOMAIN outbox : outbox'[m] = outbox[m] /\ m <= Len(outbox)
         /\ LET row == outbox'[Len(outbox) + 1] IN
            row.eventType = type /\ row.status = status /\ row.processed = FALSE
  <1> DEFINE row == [eventType |-> type, status |-> status,
                     occurredAt |-> api[p].at, place |-> place,
                     processed |-> FALSE]
  <1>1. outbox' = Append(outbox, row)
    BY DEF Accept
  <1>2. row.eventType = type /\ row.status = status /\ row.processed = FALSE
    OBVIOUS
  <1>3. row \in OutboxRow
    BY DEF TypeOK, Request, OutboxRow
  <1> HIDE DEF row
  <1> QED
    BY <1>1, <1>2, <1>3 DEF TypeOK

LEMMA AcceptLocationPending ==
  ASSUME TypeOK, PendingStatusesAscend, NEW p \in Procs, AcceptLocation(p)
  PROVE  PendingStatusesAscend'
  <1>1. PICK place \in Places : Accept(p, "LOCATION", api[p].status, place)
    BY DEF AcceptLocation
  <1>2. api[p].status \in Statuses
    BY DEF TypeOK, Request
  <1>3. PendingStatusRows' = PendingStatusRows
    BY <1>1, <1>2, Accepted DEF PendingStatusRows
  <1>4. \A m \in PendingStatusRows : outbox'[m].status = outbox[m].status
    BY <1>1, <1>2, Accepted DEF PendingStatusRows
  <1> QED
    BY <1>3, <1>4, PendingKept

\* The newest pending row has the highest status; the accepted one is next.
LEMMA AcceptStatusPending ==
  ASSUME TypeOK, PendingStatusesAscend, NEW p \in Procs, AcceptStatus(p)
  PROVE  PendingStatusesAscend'
  <1>1. PICK status \in Statuses, place \in Places, from \in Statuses :
          /\ EffectiveStatus(from) /\ CanTransition(from, status)
          /\ Accept(p, "STATUS", status, place)
    BY DEF AcceptStatus
  <1> DEFINE k == Len(outbox) + 1
  <1>2. /\ PendingStatusRows' = PendingStatusRows \cup {k}
        /\ outbox'[k].status = status
        /\ \A m \in PendingStatusRows :
             outbox'[m] = outbox[m] /\ m < k /\ m \in Nat
        /\ k \in Nat
    <2>1. /\ Len(outbox) \in Nat /\ DOMAIN outbox = 1 .. Len(outbox)
          /\ DOMAIN outbox' = DOMAIN outbox \cup {k}
          /\ \A m \in DOMAIN outbox : outbox'[m] = outbox[m] /\ m <= Len(outbox)
          /\ outbox'[k].eventType = "STATUS" /\ outbox'[k].status = status
          /\ outbox'[k].processed = FALSE
      BY <1>1, Accepted
    <2>2. PendingStatusRows' = PendingStatusRows \cup {k}
      BY <2>1 DEF PendingStatusRows
    <2> QED
      BY <2>1, <2>2 DEF PendingStatusRows
  <1>3. ASSUME NEW m \in PendingStatusRows
        PROVE  Rank[outbox[m].status] < Rank[status]
    <2>1. PICK n : NewestPending(n) /\ from = outbox[n].status
      BY <1>1, <1>3 DEF EffectiveStatus
    <2>2. n \in PendingStatusRows /\ (m = n \/ m < n)
      BY <1>2, <1>3, <2>1 DEF NewestPending
    <2>3. outbox[m].status \in Statuses /\ outbox[n].status \in Statuses
      <3>1. outbox[m] \in OutboxRow /\ outbox[n] \in OutboxRow
        BY <1>3, <2>2 DEF TypeOK, PendingStatusRows
      <3> QED
        BY <3>1 DEF OutboxRow
    <2>4. /\ Rank[outbox[m].status] \in 0 .. 3 /\ Rank[outbox[n].status] \in 0 .. 3
          /\ Rank[status] = Rank[outbox[n].status] + 1
      BY <1>1, <2>1, <2>3, RankFacts
    <2>5. m < n => Rank[outbox[m].status] < Rank[outbox[n].status]
      BY <1>3, <2>2 DEF PendingStatusesAscend
    <2> QED
      BY <2>2, <2>4, <2>5
  <1> HIDE DEF k
  <1>4. ASSUME NEW m \in PendingStatusRows', NEW n \in PendingStatusRows', m < n
        PROVE  Rank[outbox'[m].status] < Rank[outbox'[n].status]
    <2>1. m \in PendingStatusRows
      BY <1>2, <1>4
    <2>2. CASE n = k
      BY <1>2, <1>3, <2>1, <2>2
    <2>3. CASE n \in PendingStatusRows
      BY <1>2, <1>4, <2>1, <2>3 DEF PendingStatusesAscend
    <2> QED
      BY <1>2, <2>2, <2>3
  <1> QED
    BY <1>4 DEF PendingStatusesAscend

-----------------------------------------------------------------------------
(***************************************************************************)
(* The events that the transactions append                                 *)
(***************************************************************************)

\* deliveredAt is the date of the event, or for a synchronous delivery earlier.
DeliveredBy(e, at) ==
  /\ at \in Times
  /\ \/ e.occurredAt = at
     \/ e.kind = "delivery" /\ e.occurredAt > at

\* The transaction moved the shipment to the status of its event.
MovesTo(e) ==
  /\ e.moved = TRUE /\ e.status = shipment'.status
  /\ Rank[shipment.status] < Rank[e.status]
  /\ IF e.status = "DELIVERED" THEN DeliveredBy(e, shipment'.deliveredAt)
     ELSE shipment'.deliveredAt = shipment.deliveredAt

\* It left the shipment alone.
OnlyRecords(e) == e.moved = FALSE /\ shipment' = shipment

LEMMA ProcessRowEffect ==
  ASSUME TypeOK, NEW n \in 1 .. MaxRows, ProcessRow(n)
  PROVE  \E e \in Event :
           /\ AppendsEvent(e) /\ e.row = n /\ e.createdAt = now
           /\ e.occurredAt = outbox[n].occurredAt
           /\ e.kind = IF outbox[n].eventType = "STATUS" THEN "status"
                                                         ELSE "location"
           /\ \/ /\ MovesShipment(n) /\ e.status = outbox[n].status
                 /\ MovesTo(e) /\ IsLatest(e.occurredAt)
              \/ /\ RecordsOnly(n) /\ OnlyRecords(e)
                 /\ e.status = shipment.status \/ ~IsLatest(e.occurredAt)
  <1>1. outbox[n] \in OutboxRow /\ Live /\ now \in Times
    BY DEF TypeOK, ProcessRow, Claimable
  <1>2. CASE /\ MovesShipment(n)
             /\ RecordRow(n, outbox[n].status, TRUE)
             /\ shipment' = [shipment EXCEPT
                  !.status = outbox[n].status, !.updatedAt = now,
                  !.deliveredAt = IF outbox[n].status = "DELIVERED"
                                    THEN outbox[n].occurredAt ELSE @]
    <2> DEFINE e == NewEvent("status", n, outbox[n].status,
                             outbox[n].occurredAt, outbox[n].place, TRUE)
    <2>1. e \in Event
      BY <1>1 DEF NewEvent, Event, Kinds, OutboxRow
    <2>2. events' = Append(events, e)
      BY <1>2 DEF RecordRow, MovesShipment
    <2>3. /\ e.row = n /\ e.createdAt = now /\ e.moved = TRUE
          /\ e.status = outbox[n].status /\ e.occurredAt = outbox[n].occurredAt
          /\ e.kind = "status"
      BY DEF NewEvent
    <2>4. /\ shipment'.state = "live" /\ shipment'.status = outbox[n].status
          /\ shipment'.deliveredAt = IF outbox[n].status = "DELIVERED"
                                       THEN outbox[n].occurredAt
                                       ELSE shipment.deliveredAt
      BY <1>1, <1>2 DEF TypeOK, ShipmentRow, Live
    <2>5. Rank[shipment.status] < Rank[outbox[n].status]
      <3>1. outbox[n].status \in Statuses /\ shipment.status \in Statuses
        BY <1>1 DEF OutboxRow, TypeOK, ShipmentRow
      <3>2. Rank[outbox[n].status] = Rank[shipment.status] + 1
        BY <1>2, <3>1, RankFacts DEF MovesShipment
      <3> QED
        BY <3>1, <3>2, RankFacts
    <2>6. IsLatest(outbox[n].occurredAt)
      BY <1>2 DEF MovesShipment
    <2> HIDE DEF e
    <2>7. AppendsEvent(e)
      BY <1>1, <2>2, <2>4 DEF AppendsEvent, Live
    <2>8. DeliveredBy(e, e.occurredAt)
      BY <2>1 DEF DeliveredBy, Event
    <2>9. MovesTo(e) /\ IsLatest(e.occurredAt)
      BY <2>3, <2>4, <2>5, <2>6, <2>8 DEF MovesTo
    <2>10. outbox[n].eventType = "STATUS"
      BY <1>2 DEF MovesShipment
    <2> QED
      BY <1>2, <2>1, <2>3, <2>7, <2>9, <2>10
  <1>3. CASE /\ RecordsOnly(n)
             /\ RecordRow(n, IF outbox[n].eventType = "STATUS"
                               THEN outbox[n].status ELSE shipment.status, FALSE)
             /\ UNCHANGED shipment
    <2> DEFINE status == IF outbox[n].eventType = "STATUS"
                           THEN outbox[n].status ELSE shipment.status
               kind == IF outbox[n].eventType = "STATUS" THEN "status"
                                                         ELSE "location"
               e == NewEvent(kind, n, status, outbox[n].occurredAt,
                             outbox[n].place, FALSE)
    <2>1. e \in Event
      BY <1>1 DEF NewEvent, Event, Kinds, OutboxRow, TypeOK, ShipmentRow
    <2>2. events' = Append(events, e)
      BY <1>3 DEF RecordRow
    <2>3. /\ e.row = n /\ e.createdAt = now /\ e.moved = FALSE
          /\ e.status = status /\ e.occurredAt = outbox[n].occurredAt
          /\ e.kind = kind
      BY DEF NewEvent
    <2>4. status = shipment.status \/ ~IsLatest(outbox[n].occurredAt)
      BY <1>1, <1>3 DEF RecordsOnly, OutboxRow
    <2> HIDE DEF e, status
    <2>5. AppendsEvent(e)
      BY <1>1, <1>3, <2>2 DEF AppendsEvent, Live
    <2>6. OnlyRecords(e) /\ (e.status = shipment.status \/ ~IsLatest(e.occurredAt))
      BY <1>3, <2>3, <2>4 DEF OnlyRecords
    <2> QED
      BY <1>3, <2>1, <2>3, <2>5, <2>6
  <1> QED
    BY <1>2, <1>3 DEF ProcessRow

LEMMA DeliveryEffect ==
  ASSUME TypeOK, DeliverySnapshots, NEW p \in Procs, AttemptDelivery(p),
         DeliverMatching(p)
  PROVE  \E e \in Event :
           /\ AppendsEvent(e) /\ e.row = NoRow /\ e.kind = "delivery"
           /\ e.createdAt = now /\ e.occurredAt = now /\ MovesTo(e)
  <1> DEFINE e == NewEvent("delivery", NoRow, "DELIVERED", now, api[p].place, TRUE)
  <1>1. e \in Event
    <2>1. api[p].place \in Places /\ now \in Times
      BY DEF TypeOK, Request
    <2> QED
      BY <2>1 DEF NewEvent, Event, Kinds, Statuses, NoRow
  <1>2. events' = Append(events, e)
    BY DEF DeliverMatching
  <1>3. /\ e.row = NoRow /\ e.createdAt = now /\ e.moved = TRUE
        /\ e.status = "DELIVERED" /\ e.occurredAt = now /\ e.kind = "delivery"
    BY DEF NewEvent
  <1>4. /\ shipment'.state = "live" /\ shipment'.status = "DELIVERED"
        /\ shipment'.deliveredAt = api[p].at /\ Live
    BY DEF TypeOK, ShipmentRow, DeliverMatching, Matches, Live
  <1>5. shipment.status \in Statuses /\ shipment.status # "DELIVERED"
    BY DEF TypeOK, ShipmentRow, DeliverySnapshots, AttemptDelivery,
           DeliverMatching, Matches, CanDeliver
  <1>6. Rank[shipment.status] < Rank["DELIVERED"]
    BY <1>5, RankFacts
  <1>7. DeliveredBy(e, api[p].at)
    <2>1. api[p].at \in Times /\ api[p].at <= now
      BY DEF TypeOK, Request, DeliverySnapshots, AttemptDelivery
    <2>2. api[p].at \in Nat /\ now \in Nat
      BY <2>1 DEF TypeOK, Times
    <2>3. e.occurredAt = now /\ e.kind = "delivery"
      BY DEF NewEvent
    <2> HIDE DEF e
    <2> QED
      BY <2>1, <2>2, <2>3 DEF DeliveredBy
  <1> HIDE DEF e
  <1>8. AppendsEvent(e) /\ MovesTo(e)
    BY <1>2, <1>3, <1>4, <1>6, <1>7 DEF AppendsEvent, MovesTo, Live
  <1> QED
    BY <1>1, <1>3, <1>8

LEMMA ManualEffect ==
  ASSUME TypeOK, NEW p \in Procs, AddManualEvent(p)
  PROVE  \E e \in Event :
           /\ AppendsEvent(e) /\ e.row = NoRow /\ e.createdAt = now
           /\ e.kind = "manual" /\ OnlyRecords(e)
  <1>1. PICK status \in Statuses, place \in Places :
          events' = Append(events,
            NewEvent("manual", NoRow, status, api[p].at, place, FALSE))
    BY DEF AddManualEvent
  <1> DEFINE e == NewEvent("manual", NoRow, status, api[p].at, place, FALSE)
  <1>2. e \in Event
    <2>1. api[p].at \in Times /\ now \in Times
      BY DEF TypeOK, Request
    <2> QED
      BY <2>1 DEF NewEvent, Event, Kinds, NoRow
  <1>3. /\ e.row = NoRow /\ e.createdAt = now /\ e.moved = FALSE
        /\ e.kind = "manual"
    BY DEF NewEvent
  <1>4. events' = Append(events, e)
    BY <1>1
  <1> HIDE DEF e
  <1>5. AppendsEvent(e) /\ OnlyRecords(e)
    BY <1>3, <1>4 DEF AppendsEvent, OnlyRecords, AddManualEvent, Live
  <1> QED
    BY <1>2, <1>3, <1>5

-----------------------------------------------------------------------------
(***************************************************************************)
(* Exactly once                                                            *)
(***************************************************************************)

\* Steps that leave the history alone and at most accept a row.
LEMMA OnceQuiet ==
  ASSUME TypeOK, Bookkeeping, ExactlyOnce, Quiet, now \in Nat, now' \in Nat,
         now <= now',
         shipment.state = "unborn" => UNCHANGED <<outbox, api>>,
         \/ outbox' = outbox
         \/ \E row \in OutboxRow :
              row.processed = FALSE /\ outbox' = Append(outbox, row)
  PROVE  Bookkeeping' /\ ExactlyOnce'
  <1>1. /\ DOMAIN outbox \subseteq DOMAIN outbox' /\ NoRow \notin DOMAIN outbox'
        /\ \A n \in DOMAIN outbox : outbox'[n] = outbox[n]
        /\ \A n \in DOMAIN outbox' \ DOMAIN outbox : outbox'[n].processed = FALSE
    <2>1. CASE outbox' = outbox
      BY <2>1 DEF TypeOK, NoRow
    <2>2. CASE \E row \in OutboxRow :
                 row.processed = FALSE /\ outbox' = Append(outbox, row)
      BY <2>2 DEF TypeOK, NoRow
    <2> QED
      BY <2>1, <2>2
  <1>2. \A i \in DOMAIN events : events[i].createdAt \in Nat
    <2>1. \A i \in DOMAIN events : events[i] \in Event
      BY DEF TypeOK
    <2> QED
      BY <2>1 DEF Event, Times
  <1>3. Bookkeeping'
    BY <1>1, <1>2 DEF Bookkeeping, Quiet
  <1>4. ExactlyOnce'
    BY <1>1 DEF ExactlyOnce, Bookkeeping, Quiet, Live
  <1> QED
    BY <1>3, <1>4

LEMMA OnceWithoutRow ==
  ASSUME TypeOK, Bookkeeping, ExactlyOnce, NEW e \in Event, AppendsEvent(e),
         e.row = NoRow, e.createdAt = now, UNCHANGED <<now, outbox>>
  PROVE  Bookkeeping' /\ ExactlyOnce'
  <1> DEFINE k == Len(events) + 1
  <1>1. /\ DOMAIN events' = DOMAIN events \cup {k}
        /\ \A i \in DOMAIN events : events'[i] = events[i]
        /\ events'[k] = e
    BY Appended DEF TypeOK
  <1> HIDE DEF k
  <1>2. NoRow \notin DOMAIN outbox
    BY DEF TypeOK, NoRow
  <1>3. now <= now
    BY DEF TypeOK, Times
  <1>4. Bookkeeping'
    BY <1>1, <1>3 DEF Bookkeeping, AppendsEvent, Live
  <1>5. ExactlyOnce'
    BY <1>1, <1>2 DEF ExactlyOnce, AppendsEvent
  <1> QED
    BY <1>4, <1>5

LEMMA OnceProcessRow ==
  ASSUME TypeOK, Bookkeeping, ExactlyOnce, NEW n \in 1 .. MaxRows, ProcessRow(n)
  PROVE  Bookkeeping' /\ ExactlyOnce'
  <1>1. PICK e \in Event :
          /\ AppendsEvent(e) /\ e.row = n /\ e.createdAt = now
          /\ e.occurredAt = outbox[n].occurredAt
    BY ProcessRowEffect
  <1> DEFINE k == Len(events) + 1
  <1>2. /\ DOMAIN events' = DOMAIN events \cup {k} /\ k \notin DOMAIN events
        /\ \A i \in DOMAIN events : events'[i] = events[i]
        /\ events'[k] = e
    BY <1>1, Appended DEF TypeOK
  <1> HIDE DEF k
  <1>3. /\ n \in DOMAIN outbox /\ outbox[n].processed = FALSE /\ now' = now
        /\ outbox' = [outbox EXCEPT ![n].processed = TRUE]
    <2>1. outbox[n] \in OutboxRow /\ ~outbox[n].processed
      BY DEF TypeOK, ProcessRow, Claimable
    <2> QED
      BY <2>1 DEF ProcessRow, Claimable, RecordRow, OutboxRow
  <1>4. /\ DOMAIN outbox' = DOMAIN outbox /\ outbox'[n].processed = TRUE
        /\ outbox'[n].occurredAt = outbox[n].occurredAt
        /\ \A m \in DOMAIN outbox \ {n} : outbox'[m] = outbox[m]
    <2>1. outbox[n] \in OutboxRow
      BY <1>3 DEF TypeOK
    <2>2. /\ [outbox[n] EXCEPT !.processed = TRUE].processed = TRUE
          /\ [outbox[n] EXCEPT !.processed = TRUE].occurredAt = outbox[n].occurredAt
      BY <2>1 DEF OutboxRow
    <2>3. outbox' = [outbox EXCEPT ![n] = [outbox[n] EXCEPT !.processed = TRUE]]
      BY <1>3
    <2> QED
      BY <1>3, <2>2, <2>3 DEF TypeOK
  <1>5. \A i \in DOMAIN events : events[i].row # n
    BY <1>1, <1>3 DEF ExactlyOnce, AppendsEvent
  <1>6. now <= now
    BY DEF TypeOK, Times
  <1>7. Bookkeeping'
    BY <1>1, <1>2, <1>3, <1>4, <1>6 DEF Bookkeeping, AppendsEvent, Live
  <1>8. \A m \in DOMAIN outbox' :
          outbox'[m].processed <=> \E i \in DOMAIN events' : events'[i].row = m
    BY <1>1, <1>2, <1>4, <1>5 DEF ExactlyOnce, AppendsEvent
  <1>9. \A i, j \in DOMAIN events' :
          events'[i].row = events'[j].row /\ events'[i].row # NoRow => i = j
    BY <1>1, <1>2, <1>5 DEF ExactlyOnce, AppendsEvent
  <1> QED
    BY <1>7, <1>8, <1>9 DEF ExactlyOnce

-----------------------------------------------------------------------------
(***************************************************************************)
(* The moves tell the status                                               *)
(***************************************************************************)

LEMMA MovesMoved ==
  ASSUME TypeOK, TypeOK', MovesTellTheStatus, NEW e \in Event, AppendsEvent(e),
         MovesTo(e)
  PROVE  MovesTellTheStatus'
  <1> DEFINE k == Len(events) + 1
  <1>1. /\ DOMAIN events' = DOMAIN events \cup {k} /\ k \in Nat
        /\ \A i \in DOMAIN events :
             events'[i] = events[i] /\ i \in Nat /\ i < k
        /\ events'[k] = e
    BY Appended DEF TypeOK
  <1> HIDE DEF k
  <1>2. \A i \in DOMAIN events : events[i].status \in Statuses
    <2>1. \A i \in DOMAIN events : events[i] \in Event
      BY DEF TypeOK
    <2> QED
      BY <2>1 DEF Event
  <1>3. shipment.status \in Statuses /\ e.status \in Statuses /\ e.occurredAt \in Times
    BY DEF TypeOK, ShipmentRow, Event
  <1>4. /\ Rank[shipment.status] \in 0 .. 3 /\ Rank[e.status] \in 0 .. 3
        /\ \A i \in DOMAIN events : Rank[events[i].status] \in 0 .. 3
    BY <1>2, <1>3, RankFacts
  <1>5. \A i \in DOMAIN events :
          events[i].moved => Rank[events[i].status] < Rank[e.status]
    <2>1. PICK last \in DOMAIN events :
            /\ events[last].moved /\ events[last].status = shipment.status
            /\ \A j \in DOMAIN events : events[j].moved => j <= last
      BY DEF MovesTellTheStatus, AppendsEvent
    <2>2. \A i \in DOMAIN events :
            events[i].moved => i = last \/ Rank[events[i].status] < Rank[events[last].status]
      BY <1>1, <2>1 DEF MovesTellTheStatus, AppendsEvent
    <2> QED
      BY <1>4, <2>1, <2>2 DEF MovesTo
  <1>6. \A i, j \in DOMAIN events' :
          events'[i].moved /\ events'[j].moved /\ i < j =>
            Rank[events'[i].status] < Rank[events'[j].status]
    BY <1>1, <1>5 DEF MovesTellTheStatus, AppendsEvent
  <1>7. /\ events'[k].moved /\ events'[k].status = shipment'.status
        /\ \A j \in DOMAIN events' : events'[j].moved => j <= k
    BY <1>1 DEF MovesTo
  <1>8. /\ shipment.status # "DELIVERED" /\ shipment.deliveredAt = NotDelivered
        /\ \A i \in DOMAIN events :
             events[i].moved => events[i].status # "DELIVERED"
    BY <1>2, <1>3, <1>4, <1>5, RankFacts DEF MovesTellTheStatus, MovesTo, AppendsEvent
  <1>9. NotDelivered \notin Times
    BY DEF Times, NotDelivered
  <1>10. (shipment'.deliveredAt # NotDelivered) <=> (shipment'.status = "DELIVERED")
    BY <1>8, <1>9 DEF MovesTo, DeliveredBy
  <1>11. \A i \in DOMAIN events' :
           events'[i].moved /\ events'[i].status = "DELIVERED" =>
             \/ events'[i].occurredAt = shipment'.deliveredAt
             \/ /\ events'[i].kind = "delivery"
                /\ events'[i].occurredAt > shipment'.deliveredAt
    BY <1>1, <1>8 DEF MovesTo, DeliveredBy
  <1> QED
    BY <1>1, <1>6, <1>7, <1>10, <1>11 DEF MovesTellTheStatus

LEMMA MovesRecorded ==
  ASSUME TypeOK, MovesTellTheStatus, NEW e \in Event, AppendsEvent(e),
         OnlyRecords(e)
  PROVE  MovesTellTheStatus'
  <1> DEFINE k == Len(events) + 1
  <1>1. /\ DOMAIN events' = DOMAIN events \cup {k}
        /\ \A i \in DOMAIN events : events'[i] = events[i]
        /\ events'[k] = e
    BY Appended DEF TypeOK
  <1> HIDE DEF k
  <1> QED
    BY <1>1 DEF MovesTellTheStatus, AppendsEvent, OnlyRecords

-----------------------------------------------------------------------------
(***************************************************************************)
(* The latest event shows the status                                       *)
(***************************************************************************)

\* The premise of LatestEventShowsStatus.
Regular ==
  \A i \in DOMAIN events :
    events[i].kind # "manual" /\ events[i].occurredAt <= events[i].createdAt

LEMMA LatestAppended ==
  ASSUME TypeOK, Bookkeeping, LatestEventShowsStatus,
         NEW e \in Event, AppendsEvent(e), e.createdAt = now,
         \/ MovesTo(e) /\ (IsLatest(e.occurredAt) \/ e.occurredAt = now)
         \/ /\ OnlyRecords(e)
            /\ \/ e.kind = "manual" \/ e.status = shipment.status
               \/ ~IsLatest(e.occurredAt)
  PROVE  LatestEventShowsStatus'
  <1> SUFFICES ASSUME Regular', NEW i \in DOMAIN events', IsLatestEvent(i)'
               PROVE  events'[i].status = shipment'.status
    BY DEF LatestEventShowsStatus, Regular
  <1> DEFINE k == Len(events) + 1
  <1>1. /\ DOMAIN events' = DOMAIN events \cup {k} /\ k \in Nat
        /\ \A j \in DOMAIN events :
             events'[j] = events[j] /\ j \in Nat /\ j < k
        /\ events'[k] = e
    BY Appended DEF TypeOK
  <1> HIDE DEF k
  <1>2. /\ \A j \in DOMAIN events :
             events[j].occurredAt \in Nat /\ events[j].createdAt \in Nat
        /\ e.occurredAt \in Nat /\ now \in Nat
    <2>1. \A j \in DOMAIN events : events[j] \in Event
      BY DEF TypeOK
    <2> QED
      BY <2>1 DEF Event, Times, TypeOK
  <1>3. Regular /\ e.kind # "manual"
    BY <1>1 DEF Regular
  <1>4. \A j \in DOMAIN events : events[j].occurredAt <= now
    BY <1>2, <1>3 DEF Regular, Bookkeeping
  <1>5. ASSUME NEW j \in DOMAIN events', j # i
        PROVE  \/ events'[j].occurredAt < events'[i].occurredAt
               \/ events'[j].occurredAt = events'[i].occurredAt /\ j < i
    BY <1>5 DEF IsLatestEvent, Precedes
  <1>6. CASE i = k
    <2>1. \A j \in DOMAIN events : events[j].occurredAt <= e.occurredAt
      BY <1>1, <1>2, <1>5, <1>6
    <2>2. IsLatest(e.occurredAt)
      BY <2>1 DEF IsLatest
    <2> QED
      BY <1>1, <1>3, <1>6, <2>2 DEF MovesTo, OnlyRecords
  <1>7. CASE i \in DOMAIN events
    <2>1. e.occurredAt < events[i].occurredAt
      <3>1. k \in DOMAIN events' /\ k # i
        BY <1>1, <1>7
      <3>2. \/ e.occurredAt < events[i].occurredAt
            \/ e.occurredAt = events[i].occurredAt /\ k < i
        BY <1>1, <1>5, <1>7, <3>1
      <3> QED
        BY <1>1, <1>7, <3>2
    <2>2. ~IsLatest(e.occurredAt) /\ e.occurredAt # now
      BY <1>2, <1>4, <1>7, <2>1 DEF IsLatest
    <2>3. shipment' = shipment
      BY <2>2 DEF OnlyRecords
    <2>4. IsLatestEvent(i)
      BY <1>1, <1>5, <1>7 DEF IsLatestEvent, Precedes
    <2>5. events[i].status = shipment.status
      BY <1>3, <1>7, <2>4 DEF LatestEventShowsStatus, Regular, AppendsEvent
    <2> QED
      BY <1>1, <1>7, <2>3, <2>5
  <1> QED
    BY <1>1, <1>6, <1>7

-----------------------------------------------------------------------------
(***************************************************************************)
(* No row stalls undisturbed                                               *)
(***************************************************************************)

\* Whether the history was disturbed can be told from the event appended.
LEMMA UndisturbedAppended ==
  ASSUME TypeOK, NEW e \in Event, AppendsEvent(e)
  PROVE  Undisturbed' <=>
           /\ Undisturbed
           /\ e.kind # "delivery" /\ (e.kind = "status" => e.moved)
  BY Appended DEF TypeOK, Undisturbed

\* An orderly outbox was orderly before: events and rows only come to it, and
\* a row keeps its type and its date.
LEMMA OrderlyBefore ==
  ASSUME DOMAIN events \subseteq DOMAIN events',
         \A i \in DOMAIN events : events'[i] = events[i],
         DOMAIN outbox \subseteq DOMAIN outbox',
         \A n \in DOMAIN outbox :
           /\ outbox'[n].eventType = outbox[n].eventType
           /\ outbox'[n].occurredAt = outbox[n].occurredAt,
         Orderly'
  PROVE  Orderly
  BY DEF Orderly

\* What processing a row does to the outbox.
LEMMA RowProcessed ==
  ASSUME TypeOK, NEW n \in 1 .. MaxRows, ProcessRow(n)
  PROVE  /\ n \in DOMAIN outbox /\ ~outbox[n].processed /\ outbox'[n].processed
         /\ DOMAIN outbox' = DOMAIN outbox
         /\ \A m \in DOMAIN outbox \ {n} : outbox'[m] = outbox[m]
         /\ outbox'[n].eventType = outbox[n].eventType
         /\ outbox'[n].status = outbox[n].status
         /\ outbox'[n].occurredAt = outbox[n].occurredAt
         /\ PendingStatusRows' = PendingStatusRows \ {n}
  <1>1. /\ n \in DOMAIN outbox /\ ~outbox[n].processed
        /\ outbox' = [outbox EXCEPT ![n].processed = TRUE]
    BY DEF ProcessRow, Claimable, RecordRow
  <1>2. outbox[n] \in OutboxRow
    BY <1>1 DEF TypeOK
  <1> DEFINE row == [outbox[n] EXCEPT !.processed = TRUE]
  <1>3. /\ row.processed = TRUE /\ row.eventType = outbox[n].eventType
        /\ row.status = outbox[n].status /\ row.occurredAt = outbox[n].occurredAt
    BY <1>2 DEF OutboxRow
  <1>4. outbox' = [outbox EXCEPT ![n] = row]
    BY <1>1
  <1> HIDE DEF row
  <1>5. /\ DOMAIN outbox' = DOMAIN outbox /\ outbox'[n] = row
        /\ \A m \in DOMAIN outbox \ {n} : outbox'[m] = outbox[m]
    BY <1>1, <1>4 DEF TypeOK
  <1> QED
    BY <1>1, <1>3, <1>5 DEF PendingStatusRows

\* The rows and their status stay; so does the chain, undisturbed.
LEMMA ChainKept ==
  ASSUME PendingRowsChain, PendingStatusRows' = PendingStatusRows,
         \A n \in PendingStatusRows : outbox'[n].status = outbox[n].status,
         Live' /\ Undisturbed' => Live /\ Undisturbed /\ shipment' = shipment
  PROVE  PendingRowsChain'
  BY DEF PendingRowsChain, NextInLine

\* The STATUS that moves the shipment is the one next in line: of the others
\* each is two ranks away at least.
LEMMA MovesNextInLine ==
  ASSUME TypeOK, PendingRowsChain, Live, Undisturbed,
         NEW n \in PendingStatusRows, MovesShipment(n)
  PROVE  NextInLine(n)
  <1> SUFFICES ASSUME NEW m \in PendingStatusRows,
                      CanTransition(outbox[m].status, outbox[n].status)
               PROVE  FALSE
    BY DEF PendingRowsChain
  <1>1. /\ outbox[m].status \in Statuses /\ outbox[n].status \in Statuses
        /\ shipment.status \in Statuses
    <2>1. outbox[m] \in OutboxRow /\ outbox[n] \in OutboxRow
      BY DEF TypeOK, PendingStatusRows
    <2> QED
      BY <2>1 DEF OutboxRow, TypeOK, ShipmentRow
  <1>2. /\ Rank[outbox[n].status] = Rank[outbox[m].status] + 1
        /\ Rank[outbox[n].status] = Rank[shipment.status] + 1
        /\ Rank[outbox[m].status] \in 0 .. 3 /\ Rank[shipment.status] \in 0 .. 3
    BY <1>1, RankFacts DEF MovesShipment
  <1> QED
    BY <1>2 DEF PendingRowsChain

\* The first link goes, and the shipment takes its place.
LEMMA ChainAdvances ==
  ASSUME TypeOK, PendingRowsChain, PendingStatusesAscend, Live, Undisturbed,
         NEW n \in PendingStatusRows, MovesShipment(n),
         PendingStatusRows' = PendingStatusRows \ {n},
         \A m \in PendingStatusRows : outbox'[m].status = outbox[m].status,
         shipment'.status = outbox[n].status
  PROVE  PendingRowsChain'
  <1>1. NextInLine(n)
    BY MovesNextInLine
  <1>2. \A m \in PendingStatusRows : m \in Nat
    BY DEF PendingStatusRows, TypeOK
  <1> SUFFICES ASSUME NEW k \in PendingStatusRows, k # n
               PROVE
      /\ Rank[outbox[n].status] < Rank[outbox[k].status]
      /\ \/ /\ \A m \in PendingStatusRows \ {n} : k <= m
            /\ CanTransition(outbox[n].status, outbox[k].status)
         \/ \E m \in PendingStatusRows \ {n} :
              /\ m < k /\ \A j \in PendingStatusRows \ {n} : j <= m \/ k <= j
              /\ CanTransition(outbox[m].status, outbox[k].status)
    BY DEF PendingRowsChain, NextInLine
  <1>3. n < k
    BY <1>1, <1>2 DEF NextInLine
  <1>4. Rank[outbox[n].status] < Rank[outbox[k].status]
    BY <1>3 DEF PendingStatusesAscend
  <1>5. PICK m \in PendingStatusRows :
          /\ m < k /\ \A j \in PendingStatusRows : j <= m \/ k <= j
          /\ CanTransition(outbox[m].status, outbox[k].status)
    <2>1. ~NextInLine(k)
      BY <1>2, <1>3 DEF NextInLine
    <2> QED
      BY <2>1 DEF PendingRowsChain
  <1>6. CASE m = n
    <2>1. \A j \in PendingStatusRows \ {n} : k <= j
      BY <1>1, <1>2, <1>5, <1>6 DEF NextInLine
    <2> QED
      BY <1>4, <1>5, <1>6, <2>1
  <1>7. CASE m # n
    BY <1>4, <1>5, <1>7
  <1> QED
    BY <1>6, <1>7

\* A new STATUS is the last link.
LEMMA ChainGrows ==
  ASSUME TypeOK, PendingRowsChain, NEW p \in Procs, AcceptStatus(p)
  PROVE  PendingRowsChain'
  <1>1. PICK status \in Statuses, place \in Places, from \in Statuses :
          /\ EffectiveStatus(from) /\ CanTransition(from, status)
          /\ Accept(p, "STATUS", status, place)
    BY DEF AcceptStatus
  <1>0. PICK k \in Nat : k = Len(outbox) + 1
    BY DEF TypeOK
  <1>2. /\ PendingStatusRows' = PendingStatusRows \cup {k}
        /\ outbox'[k].status = status
        /\ \A m \in PendingStatusRows :
             outbox'[m] = outbox[m] /\ m < k /\ m \in Nat
        /\ k \in Nat /\ k \notin PendingStatusRows
    <2>1. /\ Len(outbox) \in Nat /\ DOMAIN outbox = 1 .. Len(outbox)
          /\ DOMAIN outbox' = DOMAIN outbox \cup {k}
          /\ \A m \in DOMAIN outbox : outbox'[m] = outbox[m] /\ m <= Len(outbox)
          /\ outbox'[k].eventType = "STATUS" /\ outbox'[k].status = status
          /\ outbox'[k].processed = FALSE
      BY <1>0, <1>1, Accepted
    <2>2. PendingStatusRows' = PendingStatusRows \cup {k}
      BY <2>1 DEF PendingStatusRows
    <2>3. PendingStatusRows \subseteq DOMAIN outbox /\ DOMAIN outbox \subseteq Nat
      BY <2>1 DEF PendingStatusRows
    <2>4. \A m \in PendingStatusRows : m < k
      BY <1>0, <2>1, <2>3
    <2> QED
      BY <2>1, <2>2, <2>3, <2>4
  <1>3. shipment' = shipment /\ (Undisturbed' <=> Undisturbed)
    BY <1>1 DEF Accept, Undisturbed
  <1> SUFFICES ASSUME Live, Undisturbed
               PROVE  \A n \in PendingStatusRows' :
      /\ Rank[shipment'.status] < Rank[outbox'[n].status]
      /\ \/ NextInLine(n)' /\ CanTransition(shipment'.status, outbox'[n].status)
         \/ \E m \in PendingStatusRows' :
              /\ m < n /\ \A j \in PendingStatusRows' : j <= m \/ n <= j
              /\ CanTransition(outbox'[m].status, outbox'[n].status)
    BY <1>3 DEF PendingRowsChain, Live
  <1>4. shipment.status \in Statuses /\ Rank[shipment.status] \in 0 .. 3
        /\ Rank[status] = Rank[from] + 1 /\ Rank[from] \in 0 .. 3
    BY <1>1, RankFacts DEF TypeOK, ShipmentRow
  <1>5. ASSUME NEW n \in PendingStatusRows
        PROVE
      /\ Rank[shipment'.status] < Rank[outbox'[n].status]
      /\ \/ NextInLine(n)' /\ CanTransition(shipment'.status, outbox'[n].status)
         \/ \E m \in PendingStatusRows' :
              /\ m < n /\ \A j \in PendingStatusRows' : j <= m \/ n <= j
              /\ CanTransition(outbox'[m].status, outbox'[n].status)
    <2>1. CASE NextInLine(n) /\ CanTransition(shipment.status, outbox[n].status)
      <3>1. NextInLine(n)'
        BY <1>2, <2>1 DEF NextInLine
      <3> QED
        BY <1>2, <1>3, <2>1, <3>1 DEF PendingRowsChain
    <2>2. CASE \E m \in PendingStatusRows :
                 /\ m < n /\ \A j \in PendingStatusRows : j <= m \/ n <= j
                 /\ CanTransition(outbox[m].status, outbox[n].status)
      BY <1>2, <1>3, <2>2 DEF PendingRowsChain
    <2> QED
      BY <2>1, <2>2 DEF PendingRowsChain
  <1>6. CASE PendingStatusRows = {}
    <2>1. from = shipment.status
      BY <1>1, <1>6 DEF EffectiveStatus
    <2>2. NextInLine(k)'
      BY <1>2, <1>6 DEF NextInLine
    <2>3. Rank[shipment'.status] < Rank[outbox'[k].status]
      BY <1>2, <1>3, <1>4, <2>1
    <2> QED
      BY <1>1, <1>2, <1>3, <1>6, <2>1, <2>2, <2>3
  <1>7. CASE PendingStatusRows # {}
    <2>1. PICK newest \in PendingStatusRows :
            NewestPending(newest) /\ from = outbox[newest].status
      BY <1>1, <1>7 DEF EffectiveStatus, NewestPending
    <2>2. Rank[shipment.status] < Rank[from]
      BY <2>1 DEF PendingRowsChain
    <2>3. Rank[shipment'.status] < Rank[outbox'[k].status]
      BY <1>2, <1>3, <1>4, <2>2
    <2>4. /\ newest \in PendingStatusRows' /\ newest < k
          /\ \A j \in PendingStatusRows' : j <= newest \/ k <= j
      BY <1>2, <2>1 DEF NewestPending
    <2>5. CanTransition(outbox'[newest].status, outbox'[k].status)
      BY <1>1, <1>2, <2>1
    <2> QED
      BY <1>2, <1>5, <2>3, <2>4, <2>5
  <1> QED
    BY <1>6, <1>7

\* The row of an event was processed, and has the event's date.
LEMMA EventsHaveRows ==
  ASSUME Bookkeeping, ExactlyOnce, Live,
         NEW i \in DOMAIN events, events[i].row # NoRow
  PROVE  /\ events[i].row \in DOMAIN outbox /\ outbox[events[i].row].processed
         /\ events[i].occurredAt = outbox[events[i].row].occurredAt
  BY DEF Bookkeeping, ExactlyOnce

\* In an orderly outbox no event is later than the STATUS next in line.
LEMMA OrderlyIsLatest ==
  ASSUME TypeOK, Bookkeeping, ExactlyOnce, OrderlyProgress, Live, Orderly,
         NEW n \in DOMAIN outbox, ~outbox[n].processed
  PROVE  IsLatest(outbox[n].occurredAt)
  <1> SUFFICES ASSUME NEW i \in DOMAIN events
               PROVE  events[i].occurredAt <= outbox[n].occurredAt
    BY DEF IsLatest
  <1>1. CASE events[i].row = NoRow
    BY <1>1 DEF Orderly
  <1>2. CASE events[i].row # NoRow
    <2>1. PICK m \in DOMAIN outbox :
            outbox[m].processed /\ events[i].occurredAt = outbox[m].occurredAt
      BY <1>2, EventsHaveRows
    <2>2. m \in Nat /\ n \in Nat
      BY DEF TypeOK
    <2>3. m < n
      BY <2>1, <2>2 DEF OrderlyProgress
    <2> QED
      BY <2>1, <2>3 DEF Orderly
  <1> QED
    BY <1>1, <1>2

\* So a row that is processed is the next one, and moves the shipment.
LEMMA OrderlyProcess ==
  ASSUME TypeOK, Bookkeeping, ExactlyOnce, PendingRowsChain, OrderlyProgress,
         NEW n \in 1 .. MaxRows, ProcessRow(n)
  PROVE  OrderlyProgress'
  <1> SUFFICES ASSUME Live', Orderly'
               PROVE  /\ Undisturbed'
                      /\ \A k, m \in DOMAIN outbox' :
                           k < m /\ outbox'[m].processed => outbox'[k].processed
    BY DEF OrderlyProgress
  <1>1. PICK e \in Event :
          /\ AppendsEvent(e)
          /\ e.kind = IF outbox[n].eventType = "STATUS" THEN "status"
                                                        ELSE "location"
          /\ (MovesShipment(n) /\ MovesTo(e)) \/ RecordsOnly(n)
    BY ProcessRowEffect
  <1>2. /\ DOMAIN events \subseteq DOMAIN events'
        /\ \A i \in DOMAIN events : events'[i] = events[i]
    BY <1>1, Appended DEF TypeOK
  <1>3. Live /\ Orderly
    BY <1>1, <1>2, RowProcessed, OrderlyBefore DEF AppendsEvent
  <1>4. n \in PendingStatusRows
    BY <1>3, RowProcessed DEF Orderly, PendingStatusRows
  <1>5. IsLatest(outbox[n].occurredAt)
    BY <1>3, RowProcessed, OrderlyIsLatest
  <1>6. MovesShipment(n) /\ MovesTo(e)
    BY <1>1, <1>4, <1>5 DEF RecordsOnly, PendingStatusRows
  <1>7. Undisturbed'
    BY <1>1, <1>3, <1>6, UndisturbedAppended DEF OrderlyProgress, MovesTo
  <1>8. NextInLine(n)
    BY <1>3, <1>4, <1>6, MovesNextInLine DEF OrderlyProgress
  <1>9. \A k \in DOMAIN outbox : k < n => outbox[k].processed
    <2>1. \A k \in DOMAIN outbox : ~outbox[k].processed => k \in PendingStatusRows
      BY <1>3 DEF Orderly, PendingStatusRows
    <2>2. DOMAIN outbox \subseteq Nat /\ n \in Nat
      BY DEF TypeOK
    <2> QED
      BY <1>8, <2>1, <2>2 DEF NextInLine
  <1>10. \A k, m \in DOMAIN outbox' :
           k < m /\ outbox'[m].processed => outbox'[k].processed
    BY <1>3, <1>9, RowProcessed DEF OrderlyProgress
  <1> QED
    BY <1>7, <1>10

\* Rows and events that come to it otherwise change nothing of that.
LEMMA OrderlyKept ==
  ASSUME OrderlyProgress, TypeOK, Live' => Live,
         DOMAIN events \subseteq DOMAIN events',
         \A i \in DOMAIN events : events'[i] = events[i],
         \A i \in DOMAIN events' \ DOMAIN events :
           events'[i].kind \in {"manual", "delivery"},
         DOMAIN outbox \subseteq DOMAIN outbox', DOMAIN outbox' \subseteq Nat \ {0},
         \A n \in DOMAIN outbox : outbox'[n] = outbox[n],
         \A n \in DOMAIN outbox' \ DOMAIN outbox : ~outbox'[n].processed
  PROVE  OrderlyProgress'
  <1> SUFFICES ASSUME Live', Orderly' PROVE OrderlyProgress'
    BY DEF OrderlyProgress
  <1>1. Live /\ Orderly /\ Undisturbed
    BY OrderlyBefore DEF OrderlyProgress
  <1>2. Undisturbed'
    BY <1>1 DEF Undisturbed, Orderly
  <1>3. \A m, n \in DOMAIN outbox' :
          m < n /\ outbox'[n].processed => outbox'[m].processed
    <2> TAKE m, n \in DOMAIN outbox'
    <2> HAVE m < n /\ outbox'[n].processed
    <2>1. n \in DOMAIN outbox
      OBVIOUS
    <2>2. m \in DOMAIN outbox
      BY <2>1 DEF TypeOK
    <2> QED
      BY <1>1, <2>1, <2>2 DEF OrderlyProgress
  <1> QED
    BY <1>2, <1>3 DEF OrderlyProgress

\* The chain after a row was processed, moving the shipment or not.
LEMMA ChainProcess ==
  ASSUME TypeOK, PendingRowsChain, PendingStatusesAscend,
         NEW n \in 1 .. MaxRows, ProcessRow(n)
  PROVE  PendingRowsChain'
  <1>1. PICK e \in Event :
          /\ AppendsEvent(e)
          /\ e.kind = IF outbox[n].eventType = "STATUS" THEN "status"
                                                        ELSE "location"
          /\ \/ /\ MovesShipment(n) /\ e.status = outbox[n].status /\ MovesTo(e)
             \/ RecordsOnly(n) /\ OnlyRecords(e)
    BY ProcessRowEffect
  <1>2. /\ PendingStatusRows' = PendingStatusRows \ {n}
        /\ \A m \in PendingStatusRows : outbox'[m].status = outbox[m].status
    BY RowProcessed DEF PendingStatusRows
  <1>3. Live /\ (Undisturbed' => Undisturbed)
    BY <1>1, UndisturbedAppended DEF AppendsEvent
  <1>4. CASE Undisturbed' /\ n \in PendingStatusRows
    <2>1. MovesShipment(n) /\ shipment'.status = outbox[n].status
      <3>1. e.kind = "status"
        BY <1>1, <1>4 DEF PendingStatusRows
      <3>2. e.moved
        BY <1>1, <1>4, <3>1, UndisturbedAppended
      <3> QED
        BY <1>1, <3>2 DEF OnlyRecords, MovesTo
    <2> QED
      BY <1>2, <1>3, <1>4, <2>1, ChainAdvances
  <1>5. CASE n \notin PendingStatusRows
    <2>1. shipment' = shipment
      <3>1. outbox[n].eventType # "STATUS"
        BY <1>5, RowProcessed DEF PendingStatusRows
      <3> QED
        BY <1>1, <3>1 DEF MovesShipment, OnlyRecords
    <2> QED
      BY <1>2, <1>3, <1>5, <2>1, ChainKept
  <1>6. CASE ~Undisturbed'
    BY <1>6 DEF PendingRowsChain
  <1> QED
    BY <1>4, <1>5, <1>6

-----------------------------------------------------------------------------
(***************************************************************************)
(* The invariant, action by action                                         *)
(***************************************************************************)

LEMMA HistoryQuiet ==
  MovesTellTheStatus /\ LatestEventShowsStatus /\ Quiet =>
    MovesTellTheStatus' /\ LatestEventShowsStatus'
  BY DEF MovesTellTheStatus, LatestEventShowsStatus, Quiet, Live, IsLatestEvent,
         Precedes

\* A step that finishes or keeps every request.
LEMMA RequestsKept ==
  ASSUME LedgerInv, TypeOK', Advances, now <= now',
         shipment.state = "unborn" => \A q \in Procs : api'[q].op = "none",
         \A q \in Procs : api'[q] = api[q] \/ api'[q] = NoRequest("idle")
  PROVE  DeliverySnapshots' /\ ConflictMeansDelivered'
  <1>1. \A q \in Procs : api'[q] = api[q] \/ api'[q].op = "none"
    BY DEF NoRequest
  <1>2. \A q \in Procs : api'[q].pc = "conflict" => api[q].pc = "conflict"
    BY DEF NoRequest
  <1> QED
    BY <1>1, <1>2, SnapshotsKept, ConflictKept DEF LedgerInv

\* A step that leaves the clock alone does not set it back.
LEMMA ClockStands == ASSUME TypeOK, now' = now PROVE now <= now'
  BY DEF TypeOK, Times

\* Finishing a request with a 2xx, 404 or 422.
LEMMA Finished ==
  ASSUME LedgerInv, TypeOK', Advances, now <= now', NEW p \in Procs,
         Finish(p, "idle")
  PROVE  DeliverySnapshots' /\ ConflictMeansDelivered'
  <1>1. \A q \in Procs : api'[q] = api[q] \/ api'[q] = NoRequest("idle")
    BY DEF Finish, LedgerInv, TypeOK
  <1>2. shipment.state = "unborn" => \A q \in Procs : api'[q].op = "none"
    BY <1>1 DEF LedgerInv, Bookkeeping, NoRequest
  <1> QED
    BY <1>1, <1>2, RequestsKept

\* A request in progress has a shipment that was registered.
LEMMA Registered ==
  ASSUME LedgerInv, NEW p \in Procs, api[p].pc \in {"loaded", "ready"}
  PROVE  shipment.state # "unborn"
  BY DEF LedgerInv, Bookkeeping, NoRequest

LEMMA InitInv == Init => LedgerInv
  <1> SUFFICES ASSUME Init PROVE LedgerInv
    OBVIOUS
  <1>1. TypeOK
    BY InitType
  <1>2. ~Live /\ events = <<>> /\ outbox = <<>>
    BY DEF Init, Live
  <1>3. Bookkeeping
    BY DEF Init, Bookkeeping
  <1>4. DeliverySnapshots /\ ConflictMeansDelivered
    BY DEF Init, DeliverySnapshots, ConflictMeansDelivered, NoRequest,
                 Deliveries
  <1>5. PendingStatusesAscend
    BY <1>2 DEF PendingStatusesAscend, PendingStatusRows
  <1> QED
    BY <1>1, <1>2, <1>3, <1>4, <1>5
       DEF LedgerInv, ExactlyOnce, MovesTellTheStatus, LatestEventShowsStatus,
           PendingRowsChain, OrderlyProgress

LEMMA CreateInv == ASSUME LedgerInv, Create PROVE LedgerInv'
  <1> DEFINE e == NewEvent("created", NoRow, "CREATED", now, Origin, TRUE)
  <1>1. TypeOK'
    BY CreateType DEF LedgerInv
  <1>2. /\ events' = <<e>> /\ outbox' = <<>> /\ outbox = <<>> /\ now' = now
        /\ api' = [p \in Procs |-> NoRequest("idle")]
        /\ shipment'.state = "live" /\ shipment'.status = "CREATED"
        /\ shipment'.deliveredAt = NotDelivered
    BY DEF Create, LedgerInv, Bookkeeping
  <1>3. /\ e.row = NoRow /\ e.createdAt = now /\ e.moved = TRUE
        /\ e.status = "CREATED" /\ e.kind = "created"
    BY DEF NewEvent
  <1> HIDE DEF e
  <1>4. DOMAIN events' = {1} /\ events'[1] = e /\ DOMAIN outbox' = {}
    BY <1>2
  <1>5. now <= now
    BY DEF LedgerInv, TypeOK, Times
  <1>6. Bookkeeping'
    BY <1>2, <1>3, <1>4, <1>5 DEF Bookkeeping
  <1>7. DeliverySnapshots' /\ ConflictMeansDelivered'
    BY <1>2 DEF DeliverySnapshots, ConflictMeansDelivered, NoRequest, Deliveries
  <1>8. ExactlyOnce'
    BY <1>3, <1>4 DEF ExactlyOnce
  <1>9. MovesTellTheStatus'
    BY <1>2, <1>3, <1>4 DEF MovesTellTheStatus
  <1>10. LatestEventShowsStatus'
    BY <1>2, <1>3, <1>4 DEF LatestEventShowsStatus
  <1>11. PendingStatusesAscend'
    BY <1>4 DEF PendingStatusesAscend, PendingStatusRows
  <1>12. PendingRowsChain' /\ OrderlyProgress'
    BY <1>3, <1>4 DEF PendingRowsChain, PendingStatusRows, OrderlyProgress,
                      Undisturbed
  <1> QED
    BY <1>1, <1>6, <1>7, <1>8, <1>9, <1>10, <1>11, <1>12 DEF LedgerInv

\* Steps that write neither the history, nor the shipment, nor the outbox.
LEMMA SilentInv ==
  ASSUME LedgerInv, TypeOK', Quiet, outbox' = outbox, now <= now',
         shipment.state = "unborn" => api' = api,
         DeliverySnapshots', ConflictMeansDelivered'
  PROVE  LedgerInv'
  <1>1. now \in Nat /\ now' \in Nat
    BY DEF LedgerInv, TypeOK, Times
  <1>2. Bookkeeping' /\ ExactlyOnce'
    BY <1>1, OnceQuiet DEF LedgerInv
  <1>3. MovesTellTheStatus' /\ LatestEventShowsStatus'
    BY HistoryQuiet DEF LedgerInv
  <1>4. PendingStatusesAscend'
    BY DEF LedgerInv, PendingStatusesAscend, PendingStatusRows
  <1>5. PendingRowsChain'
    BY ChainKept DEF LedgerInv, PendingStatusRows, Quiet, Live, Undisturbed
  <1>6. OrderlyProgress'
    BY OrderlyKept DEF LedgerInv, TypeOK, Quiet, Live
  <1> QED
    BY <1>2, <1>3, <1>4, <1>5, <1>6 DEF LedgerInv

LEMMA LoadInv == ASSUME LedgerInv, NEW p \in Procs, Load(p) PROVE LedgerInv'
  <1>1. TypeOK' /\ Quiet /\ outbox' = outbox /\ now <= now'
    BY LoadType, ClockStands DEF LedgerInv, Load, Quiet
  <1>2. DeliverySnapshots'
    BY LoadSnapshots DEF LedgerInv
  <1>3. shipment.state # "unborn"
    BY DEF Load, Live
  <1>4. \A q \in Procs : api'[q].pc = "conflict" => api[q].pc = "conflict"
    BY DEF Load, LedgerInv, TypeOK
  <1>5. ConflictMeansDelivered'
    BY <1>1, <1>4, QuietAdvances, ConflictKept DEF LedgerInv
  <1> QED
    BY <1>1, <1>2, <1>3, <1>5, SilentInv

LEMMA AcceptInv ==
  ASSUME LedgerInv, NEW p \in Procs, AcceptStatus(p) \/ AcceptLocation(p)
  PROVE  LedgerInv'
  <1>1. PICK type \in {"STATUS", "LOCATION"}, status \in Statuses, place \in Places :
          Accept(p, type, status, place)
    BY DEF AcceptStatus, AcceptLocation, LedgerInv, TypeOK, Request
  <1>2. TypeOK' /\ Quiet /\ Finish(p, "idle") /\ now' = now
    BY <1>1, AcceptType DEF LedgerInv, Accept, Quiet
  <1>3. shipment.state # "unborn"
    BY Registered DEF AcceptStatus, AcceptLocation
  <1>4. \E row \in OutboxRow :
          row.processed = FALSE /\ outbox' = Append(outbox, row)
    BY <1>1 DEF Accept, OutboxRow, LedgerInv, TypeOK, Request
  <1>5. now \in Nat /\ now <= now'
    BY <1>2 DEF LedgerInv, TypeOK, Times
  <1>6. Bookkeeping' /\ ExactlyOnce'
    BY <1>2, <1>3, <1>4, <1>5, OnceQuiet DEF LedgerInv
  <1>7. MovesTellTheStatus' /\ LatestEventShowsStatus'
    BY <1>2, HistoryQuiet DEF LedgerInv
  <1>8. DeliverySnapshots' /\ ConflictMeansDelivered'
    BY <1>2, <1>5, QuietAdvances, Finished
  <1>9. PendingStatusesAscend'
    BY AcceptStatusPending, AcceptLocationPending DEF LedgerInv
  <1>10. PendingRowsChain'
    <2>1. CASE AcceptStatus(p)
      BY <2>1, ChainGrows DEF LedgerInv
    <2>2. CASE AcceptLocation(p)
      <3>1. PICK at \in Places : Accept(p, "LOCATION", api[p].status, at)
        BY <2>2 DEF AcceptLocation
      <3>2. api[p].status \in Statuses
        BY DEF LedgerInv, TypeOK, Request
      <3>3. /\ PendingStatusRows' = PendingStatusRows
            /\ \A n \in PendingStatusRows : outbox'[n].status = outbox[n].status
        BY <3>1, <3>2, Accepted DEF PendingStatusRows, LedgerInv
      <3> QED
        BY <1>2, <3>3, ChainKept DEF LedgerInv, Quiet, Live, Undisturbed
    <2> QED
      BY <2>1, <2>2
  <1>11. OrderlyProgress'
    <2>1. /\ DOMAIN outbox \subseteq DOMAIN outbox'
          /\ \A n \in DOMAIN outbox : outbox'[n] = outbox[n]
          /\ \A n \in DOMAIN outbox' \ DOMAIN outbox : ~outbox'[n].processed
      BY <1>1, Accepted DEF LedgerInv
    <2>2. TypeOK /\ DOMAIN outbox' \subseteq Nat \ {0}
      BY <1>2 DEF LedgerInv, TypeOK
    <2> QED
      BY <1>2, <2>1, <2>2, OrderlyKept DEF LedgerInv, Quiet, Live
  <1> QED
    BY <1>2, <1>6, <1>7, <1>8, <1>9, <1>10, <1>11 DEF LedgerInv

LEMMA FailInv == ASSUME LedgerInv, NEW p \in Procs, Fail(p) PROVE LedgerInv'
  <1>1. TypeOK' /\ Quiet /\ outbox' = outbox /\ now <= now' /\ Finish(p, "idle")
    BY FinishType DEF LedgerInv, Fail, Quiet, TypeOK, Times
  <1>2. shipment.state # "unborn"
    BY Registered DEF Fail
  <1> QED
    BY <1>1, <1>2, QuietAdvances, Finished, SilentInv

LEMMA ReadLatestLocationInv ==
  ASSUME LedgerInv, NEW p \in Procs, ReadLatestLocation(p) PROVE LedgerInv'
  <1>1. TypeOK' /\ Quiet /\ outbox' = outbox /\ now <= now'
    BY ReadLatestLocationType, ClockStands DEF LedgerInv, ReadLatestLocation, Quiet
  <1>2. shipment.state # "unborn"
    BY Registered DEF ReadLatestLocation
  <1>3. PICK place \in Places :
          api' = [api EXCEPT ![p].pc = "ready", ![p].place = place,
                              ![p].at = now]
    BY DEF ReadLatestLocation
  <1>4. \A q \in Procs :
          /\ api'[q].op = api[q].op /\ api'[q].status = api[q].status
          /\ api'[q].attempt = api[q].attempt
          /\ api'[q].updatedAt = api[q].updatedAt
          /\ api'[q].at = api[q].at \/ api'[q].at = now
          /\ api'[q].pc = "conflict" => api[q].pc = "conflict"
    BY <1>3 DEF LedgerInv, TypeOK, Request
  <1>5. DeliverySnapshots'
    <2>1. now' = now /\ now <= now
      BY DEF ReadLatestLocation, LedgerInv, TypeOK, Times
    <2> QED
      BY <1>1, <1>4, <2>1 DEF LedgerInv, DeliverySnapshots, Quiet, Live
  <1>6. ConflictMeansDelivered'
    BY <1>1, <1>4, QuietAdvances, ConflictKept DEF LedgerInv
  <1> QED
    BY <1>1, <1>2, <1>5, <1>6, SilentInv

LEMMA AttemptDeliveryInv ==
  ASSUME LedgerInv, NEW p \in Procs, AttemptDelivery(p) PROVE LedgerInv'
  <1>0. Advances /\ shipment.state # "unborn"
    BY DeliveryAdvances, Registered DEF LedgerInv, AttemptDelivery
  <1>1. CASE DeliverConflicting(p)
    <2>1. TypeOK' /\ Quiet /\ outbox' = outbox /\ now <= now'
      BY <1>1, DeliverConflictingType, ClockStands
         DEF LedgerInv, DeliverConflicting, Quiet
    <2>2. DeliverySnapshots' /\ ConflictMeansDelivered'
      BY <1>1, <2>1, RetrySnapshots, ConflictJustified DEF LedgerInv
    <2> QED
      BY <1>0, <2>1, <2>2, SilentInv
  <1>2. CASE DeliverMatching(p)
    <2>1. PICK e \in Event :
            /\ AppendsEvent(e) /\ e.row = NoRow /\ e.kind = "delivery"
            /\ e.createdAt = now /\ e.occurredAt = now /\ MovesTo(e)
      BY <1>2, DeliveryEffect DEF LedgerInv
    <2>2. TypeOK' /\ Finish(p, "idle") /\ UNCHANGED <<now, outbox>>
      BY <1>2, DeliverMatchingType DEF LedgerInv, DeliverMatching
    <2>3. Bookkeeping' /\ ExactlyOnce'
      BY <2>1, <2>2, OnceWithoutRow DEF LedgerInv
    <2>4. MovesTellTheStatus'
      BY <2>1, <2>2, MovesMoved DEF LedgerInv
    <2>5. LatestEventShowsStatus'
      BY <2>1, LatestAppended DEF LedgerInv
    <2>6. DeliverySnapshots' /\ ConflictMeansDelivered'
      BY <1>0, <2>2, ClockStands, Finished DEF LedgerInv
    <2>7. PendingStatusesAscend'
      BY <2>2 DEF LedgerInv, PendingStatusesAscend, PendingStatusRows
    <2>8. PendingRowsChain' /\ OrderlyProgress'
      <3>1. ~Undisturbed'
        BY <2>1, UndisturbedAppended DEF LedgerInv
      <3>2. ~Orderly'
        BY <2>1, Appended DEF LedgerInv, TypeOK, Orderly
      <3> QED
        BY <3>1, <3>2 DEF PendingRowsChain, OrderlyProgress
    <2> QED
      BY <2>2, <2>3, <2>4, <2>5, <2>6, <2>7, <2>8 DEF LedgerInv
  <1> QED
    BY <1>1, <1>2 DEF AttemptDelivery

LEMMA AddManualEventInv ==
  ASSUME LedgerInv, NEW p \in Procs, AddManualEvent(p) PROVE LedgerInv'
  <1>1. PICK e \in Event :
          /\ AppendsEvent(e) /\ e.row = NoRow /\ e.createdAt = now
          /\ e.kind = "manual" /\ OnlyRecords(e)
    BY ManualEffect DEF LedgerInv
  <1>2. TypeOK' /\ Finish(p, "idle") /\ UNCHANGED <<now, outbox>>
    BY AddManualEventType DEF LedgerInv, AddManualEvent
  <1>3. Bookkeeping' /\ ExactlyOnce'
    BY <1>1, <1>2, OnceWithoutRow DEF LedgerInv
  <1>4. MovesTellTheStatus' /\ LatestEventShowsStatus'
    BY <1>1, MovesRecorded, LatestAppended DEF LedgerInv
  <1>5. DeliverySnapshots' /\ ConflictMeansDelivered'
    BY <1>2, HandleAdvances, ClockStands, Finished DEF LedgerInv, Handle
  <1>6. PendingStatusesAscend'
    BY <1>2 DEF LedgerInv, PendingStatusesAscend, PendingStatusRows
  <1>7. PendingRowsChain'
    BY <1>1, <1>2, UndisturbedAppended, ChainKept
       DEF LedgerInv, PendingStatusRows, AppendsEvent, OnlyRecords
  <1>8. OrderlyProgress'
    BY <1>1, <1>2, Appended, OrderlyKept DEF LedgerInv, TypeOK, AppendsEvent
  <1> QED
    BY <1>2, <1>3, <1>4, <1>5, <1>6, <1>7, <1>8 DEF LedgerInv

LEMMA CancelInv == ASSUME LedgerInv, NEW p \in Procs, Cancel(p) PROVE LedgerInv'
  <1>1. /\ TypeOK' /\ Finish(p, "idle") /\ UNCHANGED <<now, outbox>>
        /\ events' = <<>> /\ ~Live' /\ shipment'.state = "gone"
    BY CancelType DEF LedgerInv, Cancel, Live, TypeOK, ShipmentRow
  <1>2. Bookkeeping'
    BY <1>1 DEF Bookkeeping
  <1>3. DeliverySnapshots' /\ ConflictMeansDelivered'
    BY <1>1, HandleAdvances, ClockStands, Finished DEF LedgerInv, Handle
  <1>4. PendingStatusesAscend'
    BY <1>1 DEF LedgerInv, PendingStatusesAscend, PendingStatusRows
  <1> QED
    BY <1>1, <1>2, <1>3, <1>4
       DEF LedgerInv, ExactlyOnce, MovesTellTheStatus, LatestEventShowsStatus,
           PendingRowsChain, OrderlyProgress

LEMMA ProcessRowInv ==
  ASSUME LedgerInv, NEW n \in 1 .. MaxRows, ProcessRow(n) PROVE LedgerInv'
  <1>1. PICK e \in Event :
          /\ AppendsEvent(e) /\ e.row = n /\ e.createdAt = now
          /\ \/ MovesTo(e) /\ IsLatest(e.occurredAt)
             \/ /\ OnlyRecords(e)
                /\ e.status = shipment.status \/ ~IsLatest(e.occurredAt)
    BY ProcessRowEffect DEF LedgerInv
  <1>2. TypeOK' /\ api' = api /\ Advances /\ now <= now'
    BY ProcessRowType, ProcessRowAdvances, ClockStands DEF LedgerInv, ProcessRow
  <1>3. Bookkeeping' /\ ExactlyOnce'
    BY OnceProcessRow DEF LedgerInv
  <1>4. MovesTellTheStatus'
    BY <1>1, <1>2, MovesMoved, MovesRecorded DEF LedgerInv
  <1>5. LatestEventShowsStatus'
    BY <1>1, LatestAppended DEF LedgerInv
  <1>6. shipment.state # "unborn"
    BY DEF ProcessRow, Live
  <1>7. DeliverySnapshots' /\ ConflictMeansDelivered'
    BY <1>2, <1>6, RequestsKept
  <1>8. PendingStatusesAscend'
    BY ProcessRowPending DEF LedgerInv
  <1>9. PendingRowsChain' /\ OrderlyProgress'
    BY ChainProcess, OrderlyProcess DEF LedgerInv
  <1> QED
    BY <1>2, <1>3, <1>4, <1>5, <1>7, <1>8, <1>9 DEF LedgerInv

LEMMA TickInv == ASSUME LedgerInv, Tick \/ UNCHANGED vars PROVE LedgerInv'
  <1>1. TypeOK'
    BY NextType DEF LedgerInv, Next
  <1>2. Quiet /\ outbox' = outbox /\ api' = api /\ now <= now'
    BY DEF Tick, vars, Quiet, LedgerInv, TypeOK, Times
  <1>3. shipment.state = "unborn" => \A q \in Procs : api'[q].op = "none"
    BY <1>2 DEF LedgerInv, Bookkeeping, NoRequest
  <1>4. DeliverySnapshots' /\ ConflictMeansDelivered'
    BY <1>1, <1>2, <1>3, QuietAdvances, RequestsKept
  <1> QED
    BY <1>1, <1>2, <1>4, SilentInv

LEMMA NextInv == ASSUME LedgerInv, [Next]_vars PROVE LedgerInv'
  <1>1. CASE \E p \in Procs : Handle(p)
    BY <1>1, LoadInv, AcceptInv, FailInv, ReadLatestLocationInv,
       AttemptDeliveryInv, AddManualEventInv, CancelInv DEF Handle
  <1> QED
    BY <1>1, CreateInv, ProcessRowInv, TickInv DEF Next

-----------------------------------------------------------------------------
(***************************************************************************)
(* Theorems                                                                *)
(***************************************************************************)

\* The inductive invariant holds in every reachable state.
THEOREM InvariantHolds == Spec => []LedgerInv
  <1>1. LedgerInv /\ [Next]_vars => LedgerInv'
    BY NextInv
  <1> QED
    BY <1>1, InitInv, PTL DEF Spec

\* An accepted row reaches the history exactly once, when it is marked
\* processed, for any number of rows, requests and worker transactions
\* (tracking-outbox-worker.service.ts:340-388).
THEOREM OutboxExactlyOnce == Spec => []ExactlyOnce
  BY InvariantHolds, PTL DEF LedgerInv

\* The moving events tell the shipment's status and deliveredAt; nobody
\* delivers, or enters any status, twice.
THEOREM HistoryTellsTheStatus == Spec => []MovesTellTheStatus
  BY InvariantHolds, PTL DEF LedgerInv

\* Without manual entries and events from the future, the latest event in
\* canonical order carries the current status.
THEOREM LatestEventAgrees == Spec => []LatestEventShowsStatus
  BY InvariantHolds, PTL DEF LedgerInv

\* Pending STATUS rows never ask twice for the same transition.
THEOREM PendingAscend == Spec => []PendingStatusesAscend
  BY InvariantHolds, PTL DEF LedgerInv

\* A STATUS next in line can be processed unless a delivery or a retroactive
\* STATUS came before it; in an orderly outbox it moves the shipment
\* (tracking-outbox-worker.service.ts:340-388 against the validation of
\* prisma-shipment-repository.adapter.ts, acceptTrackingUpdateAttempt).
THEOREM NoRowStalls == Spec => []OnlyDisturbedRowsStall
  <1>1. ASSUME LedgerInv PROVE OnlyDisturbedRowsStall
    <2> SUFFICES ASSUME Live, NEW n \in PendingStatusRows, NextInLine(n)
                 PROVE  /\ Undisturbed => MovesShipment(n) \/ RecordsOnly(n)
                        /\ Orderly => MovesShipment(n)
      BY DEF OnlyDisturbedRowsStall
    <2>1. /\ n \in DOMAIN outbox /\ outbox[n].eventType = "STATUS"
          /\ ~outbox[n].processed
      BY DEF PendingStatusRows
    <2>2. Undisturbed => CanTransition(shipment.status, outbox[n].status)
      <3>1. \A m \in PendingStatusRows : ~(m < n)
        BY <1>1 DEF NextInLine, PendingStatusRows, LedgerInv, TypeOK
      <3> QED
        BY <1>1, <3>1 DEF LedgerInv, PendingRowsChain
    <2>3. Orderly => Undisturbed /\ IsLatest(outbox[n].occurredAt)
      BY <1>1, <2>1, OrderlyIsLatest DEF LedgerInv, OrderlyProgress
    <2> QED
      BY <2>1, <2>2, <2>3 DEF MovesShipment, RecordsOnly
  <1> QED
    BY <1>1, InvariantHolds, PTL

\* A delivery answers 409 only when the shipment is delivered or removed.
THEOREM ThreeAttemptsAreEnough == Spec => []ConflictMeansDelivered
  BY InvariantHolds, PTL DEF LedgerInv

\* No step of anybody takes a shipment's status back, or touches the row of a
\* delivered shipment.
THEOREM StatusAdvances == Spec => StatusNeverRegresses
  <1>1. ASSUME LedgerInv, [Next]_vars
        PROVE  [Live /\ Live' =>
                  /\ Rank[shipment.status] <= Rank[shipment'.status]
                  /\ shipment.status = "DELIVERED" => shipment' = shipment]_vars
    <2>1. Advances
      BY <1>1, NextAdvances DEF LedgerInv
    <2>2. TypeOK'
      BY <1>1, NextType DEF LedgerInv
    <2>3. shipment.status \in Statuses /\ shipment'.status \in Statuses
      BY <1>1, <2>2 DEF LedgerInv, TypeOK, ShipmentRow
    <2>4. /\ Rank[shipment.status] \in 0 .. 3 /\ Rank[shipment'.status] \in 0 .. 3
          /\ Rank["DELIVERED"] = 3
      BY <2>3, RankFacts
    <2> QED
      BY <2>1, <2>4 DEF Advances
  <1>2. LedgerInv /\ [Next]_vars =>
          [Live /\ Live' =>
             /\ Rank[shipment.status] <= Rank[shipment'.status]
             /\ shipment.status = "DELIVERED" => shipment' = shipment]_vars
    BY <1>1
  <1> QED
    BY <1>2, InvariantHolds, PTL DEF Spec, StatusNeverRegresses

-----------------------------------------------------------------------------
(***************************************************************************)
(* The refinement: every step accepts a row, records one, or stutters      *)
(***************************************************************************)
Processed(n) == n \in DOMAIN outbox /\ outbox[n].processed

\* A row has as many events as it has marks.
Counted ==
  \A n \in 1 .. MaxRows : Recorded(n) = IF Processed(n) THEN 1 ELSE 0

LEMMA EventsAreCounted == LedgerInv => Counted
  <1> SUFFICES ASSUME LedgerInv, NEW n \in 1 .. MaxRows
               PROVE  Recorded(n) = IF Processed(n) THEN 1 ELSE 0
    BY DEF Counted
  <1> DEFINE S == {i \in DOMAIN events : events[i].row = n}
  <1>1. CASE ~Live
    BY <1>1 DEF Recorded, Processed
  <1>2. CASE Live /\ Processed(n)
    <2>1. PICK i \in DOMAIN events : events[i].row = n
      BY <1>2 DEF LedgerInv, ExactlyOnce, Processed
    <2>2. S = {i}
      BY <1>2, <2>1 DEF LedgerInv, ExactlyOnce, NoRow
    <2> HIDE DEF S
    <2>3. Cardinality(S) = 1
      BY <2>2, FS_Singleton
    <2> QED
      BY <1>2, <2>3 DEF Recorded, S
  <1>3. CASE Live /\ ~Processed(n)
    <2>1. S = {}
      BY <1>3 DEF LedgerInv, ExactlyOnce, Bookkeeping, Processed, NoRow
    <2> HIDE DEF S
    <2>2. Cardinality(S) = 0
      BY <2>1, FS_EmptySet
    <2> QED
      BY <1>3, <2>2 DEF Recorded, S
  <1> QED
    BY <1>1, <1>2, <1>3

LEMMA AcceptsARow ==
  ASSUME TypeOK, NEW p \in Procs, AcceptStatus(p) \/ AcceptLocation(p)
  PROVE  \E row \in OutboxRow :
           row.processed = FALSE /\ outbox' = Append(outbox, row)
  <1>1. PICK type \in {"STATUS", "LOCATION"}, status \in Statuses, place \in Places :
          Accept(p, type, status, place)
    BY DEF AcceptStatus, AcceptLocation, TypeOK, Request
  <1> QED
    BY <1>1 DEF Accept, OutboxRow, TypeOK, Request

LEMMA AcceptImplements ==
  ASSUME LedgerInv, LedgerInv', Counted, Counted', NEW row \in OutboxRow,
         row.processed = FALSE, outbox' = Append(outbox, row)
  PROVE  [Promise!Next]_(Promise!vars)
  <1>1. PICK n \in Nat : n = Len(outbox) + 1
    BY DEF LedgerInv, TypeOK
  <1>2. /\ DOMAIN outbox' = DOMAIN outbox \cup {n}
        /\ n \notin DOMAIN outbox /\ n \in 1 .. MaxRows
        /\ outbox'[n] = row
        /\ \A m \in DOMAIN outbox : outbox'[m] = outbox[m]
    BY <1>1 DEF LedgerInv, TypeOK
  <1>3. \A m \in 1 .. MaxRows : Recorded(m)' = Recorded(m)
    BY <1>2 DEF Counted, Processed
  <1>4. Promise!Accept(n)
    BY <1>2, <1>3 DEF Promise!Accept
  <1> QED
    BY <1>2, <1>4 DEF Promise!Next

LEMMA ProcessImplements ==
  ASSUME LedgerInv, Counted, Counted', NEW n \in 1 .. MaxRows, ProcessRow(n)
  PROVE  [Promise!Next]_(Promise!vars)
  <1>1. /\ DOMAIN outbox' = DOMAIN outbox /\ n \in DOMAIN outbox
        /\ outbox[n].processed = FALSE /\ outbox'[n].processed = TRUE
        /\ \A m \in DOMAIN outbox \ {n} : outbox'[m] = outbox[m]
    BY RowProcessed DEF LedgerInv
  <1>2. /\ Recorded(n) = 0 /\ Recorded(n)' = 1
        /\ \A m \in (1 .. MaxRows) \ {n} : Recorded(m)' = Recorded(m)
    BY <1>1 DEF Counted, Processed
  <1>3. Promise!Record(n)
    BY <1>1, <1>2 DEF Promise!Record
  <1> QED
    BY <1>3 DEF Promise!Next

LEMMA StepImplements ==
  ASSUME LedgerInv, LedgerInv', Counted, Counted', [Next]_vars
  PROVE  [Promise!Next]_(Promise!vars)
  <1>1. CASE UNCHANGED outbox
    BY <1>1 DEF Counted, Processed, Promise!vars
  <1>2. ASSUME NEW p \in Procs, AcceptStatus(p) \/ AcceptLocation(p)
        PROVE  [Promise!Next]_(Promise!vars)
    <2>1. PICK row \in OutboxRow :
            row.processed = FALSE /\ outbox' = Append(outbox, row)
      BY <1>2, AcceptsARow DEF LedgerInv
    <2> QED
      BY <2>1, AcceptImplements
  <1>3. ASSUME NEW p \in Procs, Handle(p), ~AcceptStatus(p), ~AcceptLocation(p)
        PROVE  UNCHANGED outbox
    BY <1>3 DEF Handle, Load, Fail, ReadLatestLocation, AttemptDelivery,
                DeliverMatching, DeliverConflicting, AddManualEvent, Cancel
  <1>4. CASE Create \/ Tick \/ UNCHANGED vars
    BY <1>1, <1>4 DEF Create, Tick, vars
  <1> QED
    BY <1>1, <1>2, <1>3, <1>4, ProcessImplements DEF Next

\* The transactions implement the safety part of the promised delivery: a row
\* gets an event only after it was accepted, and no more than one, whatever is
\* delivered, edited or removed meanwhile.
THEOREM LedgerImplementsAtMostOnce == Spec => RecordsAtMostOnce
  <1>1. LedgerInv /\ Init => Promise!Init
    <2> SUFFICES ASSUME LedgerInv, Init PROVE Promise!Init
      OBVIOUS
    <2>1. outbox = <<>> /\ \A n \in 1 .. MaxRows : Recorded(n) = 0
      BY EventsAreCounted DEF Init, Counted, Processed
    <2> QED
      BY <2>1 DEF Promise!Init
  <1>2. LedgerInv /\ LedgerInv' /\ Counted /\ Counted' /\ [Next]_vars
          => [Promise!Next]_(Promise!vars)
    BY StepImplements
  <1> QED
    BY <1>1, <1>2, EventsAreCounted, InvariantHolds, PTL
    DEF Spec, RecordsAtMostOnce, Promise!AtMostOnce

-----------------------------------------------------------------------------
(***************************************************************************)
(* One sender at a time                                                    *)
(***************************************************************************)

\* Clients send one STATUS after another, dated by the server, or cancel.
OneSender ==
  /\ \A p, q \in Procs : p = q
  /\ Operations \subseteq {"status", "cancel"} /\ ClientDates = FALSE

\* What is in the outbox and in the history when a request dated at arrives.
DatedUpTo(at) ==
  /\ \A n \in DOMAIN outbox : outbox[n].occurredAt <= at
  /\ \A i \in DOMAIN events : events[i].row = NoRow => events[i].occurredAt <= at

\* The clock read by the request in flight is not behind any row, nor ahead of
\* the time.
SenderInv ==
  /\ Orderly
  /\ DatedUpTo(now)
  /\ \A p \in Procs : api[p].pc # "idle" =>
       /\ api[p].pc = "ready" /\ api[p].op \in {"status", "cancel"}
       /\ api[p].at <= now /\ DatedUpTo(api[p].at)

LEMMA SenderAccepts ==
  ASSUME OneSender, LedgerInv, SenderInv, NEW p \in Procs, AcceptStatus(p)
  PROVE  SenderInv'
  <1>1. PICK row \in OutboxRow : /\ row.eventType = "STATUS"
                                 /\ row.occurredAt = api[p].at
                                 /\ outbox' = Append(outbox, row)
    <2>1. PICK status \in Statuses, place \in Places :
            Accept(p, "STATUS", status, place)
      BY DEF AcceptStatus
    <2> QED
      BY <2>1 DEF Accept, OutboxRow, LedgerInv, TypeOK, Request
  <1>2. PICK n \in Nat : n = Len(outbox) + 1
    BY DEF LedgerInv, TypeOK
  <1>3. /\ DOMAIN outbox' = DOMAIN outbox \cup {n} /\ outbox'[n] = row
        /\ \A m \in DOMAIN outbox : outbox'[m] = outbox[m] /\ m < n
    BY <1>1, <1>2 DEF LedgerInv, TypeOK
  <1>4. UNCHANGED <<now, events>>
    BY DEF AcceptStatus, Accept
  <1>5. \A q \in Procs : api'[q].pc = "idle"
    BY DEF OneSender, AcceptStatus, Accept, Finish, NoRequest, LedgerInv, TypeOK
  <1>6. api[p].pc = "ready" /\ api[p].at <= now /\ DatedUpTo(api[p].at)
    BY DEF SenderInv, AcceptStatus
  <1>7. Orderly'
    <2>1. \A m \in DOMAIN outbox' : outbox'[m].eventType = "STATUS"
      BY <1>1, <1>3 DEF SenderInv, Orderly
    <2>2. \A k, m \in DOMAIN outbox' :
            k < m => outbox'[k].occurredAt <= outbox'[m].occurredAt
      <3>1. \A m \in DOMAIN outbox : ~(n < m) /\ ~(n < n)
        BY <1>2 DEF LedgerInv, TypeOK
      <3> QED
        BY <1>1, <1>3, <1>6, <3>1 DEF SenderInv, Orderly, DatedUpTo
    <2>3. \A i \in DOMAIN events' :
            /\ events'[i].kind # "delivery"
            /\ events'[i].row = NoRow =>
                 \A m \in DOMAIN outbox' :
                   events'[i].occurredAt <= outbox'[m].occurredAt
      BY <1>1, <1>3, <1>4, <1>6 DEF SenderInv, Orderly, DatedUpTo
    <2> QED
      BY <2>1, <2>2, <2>3 DEF Orderly
  <1>8. DatedUpTo(now)'
    BY <1>1, <1>3, <1>4, <1>6 DEF SenderInv, DatedUpTo
  <1> QED
    BY <1>5, <1>7, <1>8 DEF SenderInv

LEMMA SenderProcesses ==
  ASSUME LedgerInv, SenderInv, NEW n \in 1 .. MaxRows, ProcessRow(n)
  PROVE  SenderInv'
  <1>1. PICK e \in Event :
          /\ AppendsEvent(e) /\ e.row = n
          /\ e.kind = IF outbox[n].eventType = "STATUS" THEN "status"
                                                        ELSE "location"
    BY ProcessRowEffect DEF LedgerInv
  <1>2. /\ DOMAIN events' = DOMAIN events \cup {Len(events) + 1}
        /\ \A i \in DOMAIN events : events'[i] = events[i]
        /\ events'[Len(events) + 1] = e
    BY <1>1, Appended DEF LedgerInv, TypeOK
  <1>3. e.row # NoRow /\ e.kind # "delivery"
    BY <1>1 DEF NoRow
  <1>4. /\ DOMAIN outbox' = DOMAIN outbox
        /\ \A m \in DOMAIN outbox : /\ outbox'[m].eventType = outbox[m].eventType
                                    /\ outbox'[m].occurredAt = outbox[m].occurredAt
    BY RowProcessed DEF LedgerInv
  <1>5. UNCHANGED <<now, api>>
    BY DEF ProcessRow
  <1>6. Orderly'
    BY <1>2, <1>3, <1>4 DEF SenderInv, Orderly
  <1>7. ASSUME NEW at, DatedUpTo(at)
        PROVE  /\ \A m \in DOMAIN outbox' : outbox'[m].occurredAt <= at
               /\ \A i \in DOMAIN events' :
                    events'[i].row = NoRow => events'[i].occurredAt <= at
    BY <1>2, <1>3, <1>4, <1>7 DEF DatedUpTo
  <1> QED
    BY <1>5, <1>6, <1>7 DEF SenderInv, DatedUpTo

LEMMA SenderStep ==
  ASSUME OneSender, LedgerInv, SenderInv, [Next]_vars
  PROVE  SenderInv'
  <1>1. CASE Create
    <2>1. /\ outbox = <<>> /\ \A p \in Procs : api[p].pc = "idle"
      BY <1>1 DEF LedgerInv, Bookkeeping, Create, NoRequest
    <2>2. UNCHANGED <<now, outbox, api>>
      BY <1>1 DEF Create
    <2>3. /\ DOMAIN events' = {1} /\ events'[1].kind = "created"
          /\ events'[1].occurredAt = now /\ now \in Nat
      BY <1>1 DEF Create, NewEvent, LedgerInv, TypeOK, Times
    <2> QED
      BY <2>1, <2>2, <2>3 DEF SenderInv, Orderly, DatedUpTo
  <1>2. ASSUME NEW p \in Procs, Load(p)
        PROVE  SenderInv'
    <2>1. UNCHANGED <<now, events, outbox>>
      BY <1>2 DEF Load
    <2>2. /\ api'[p].pc = "ready" /\ api'[p].op \in {"status", "cancel"}
          /\ api'[p].at = now
      BY <1>2 DEF Load, OneSender, LedgerInv, TypeOK
    <2>3. \A q \in Procs : q = p
      BY DEF OneSender
    <2>4. now <= now
      BY DEF LedgerInv, TypeOK, Times
    <2> QED
      BY <2>1, <2>2, <2>3, <2>4 DEF SenderInv, Orderly, DatedUpTo
  <1>3. ASSUME NEW p \in Procs, Fail(p)
        PROVE  SenderInv'
    <2>1. UNCHANGED <<now, events, outbox>> /\ \A q \in Procs : api'[q].pc = "idle"
      BY <1>3 DEF Fail, Finish, NoRequest, OneSender, LedgerInv, TypeOK
    <2> QED
      BY <2>1 DEF SenderInv, Orderly, DatedUpTo
  <1>4. ASSUME NEW p \in Procs, Cancel(p)
        PROVE  SenderInv'
    <2>1. /\ UNCHANGED <<now, outbox>> /\ DOMAIN events' = {}
          /\ \A q \in Procs : api'[q].pc = "idle"
      BY <1>4 DEF Cancel, Finish, NoRequest, OneSender, LedgerInv, TypeOK
    <2> QED
      BY <2>1 DEF SenderInv, Orderly, DatedUpTo
  <1>5. ASSUME NEW p \in Procs,
               AcceptLocation(p) \/ ReadLatestLocation(p)
                 \/ AttemptDelivery(p) \/ AddManualEvent(p)
        PROVE  FALSE
    <2>1. api[p].pc # "idle" => api[p].pc = "ready" /\ api[p].op \in {"status", "cancel"}
      BY DEF SenderInv
    <2>2. \/ api[p].pc = "loaded"
          \/ api[p].pc = "ready" /\ api[p].op \in {"location", "deliver", "deliverAt", "manual"}
      BY <1>5, Zenon DEF AcceptLocation, ReadLatestLocation, AttemptDelivery,
         AddManualEvent, Deliveries
    <2> QED
      BY <2>1, <2>2
  <1>6. CASE Tick
    <2>1. UNCHANGED <<events, outbox, api>> /\ now' = now + 1 /\ now \in Nat
      BY <1>6 DEF Tick, LedgerInv, TypeOK, Times
    <2>2. /\ \A n \in DOMAIN outbox : outbox[n].occurredAt \in Nat
          /\ \A i \in DOMAIN events : events[i].occurredAt \in Nat
          /\ \A p \in Procs : api[p].at \in Nat
      <3>1. \A n \in DOMAIN outbox : outbox[n] \in OutboxRow
        BY DEF LedgerInv, TypeOK
      <3>2. \A i \in DOMAIN events : events[i] \in Event
        BY DEF LedgerInv, TypeOK
      <3>3. \A p \in Procs : api[p] \in Request
        BY DEF LedgerInv, TypeOK
      <3>4. Times \subseteq Nat
        BY DEF Times
      <3> QED
        BY <3>1, <3>2, <3>3, <3>4 DEF OutboxRow, Event, Request
    <2> QED
      BY <2>1, <2>2 DEF SenderInv, Orderly, DatedUpTo
  <1>7. CASE UNCHANGED vars
    BY <1>7 DEF vars, SenderInv, Orderly, DatedUpTo
  <1> QED
    BY <1>1, <1>2, <1>3, <1>4, <1>5, <1>6, <1>7, SenderAccepts, SenderProcesses
    DEF Next, Handle

\* With one sender at a time, STATUS updates dated by the server are orderly,
\* and the pending one accepted first can always be processed and moves the
\* shipment, whatever the order in which the workers try the rows: no accepted
\* STATUS is ever stuck or skipped.
THEOREM OneSenderNeverStalls ==
  ASSUME OneSender
  PROVE  Spec => [](/\ Orderly
                    /\ Live => \A n \in PendingStatusRows :
                                  NextInLine(n) => MovesShipment(n))
  <1>1. Init => SenderInv
    BY DEF Init, SenderInv, Orderly, DatedUpTo, NoRequest
  <1>2. LedgerInv /\ SenderInv /\ [Next]_vars => SenderInv'
    BY SenderStep
  <1>3. SenderInv /\ OnlyDisturbedRowsStall =>
          /\ Orderly
          /\ Live => \A n \in PendingStatusRows : NextInLine(n) => MovesShipment(n)
    BY DEF SenderInv, OnlyDisturbedRowsStall
  <1> QED
    BY <1>1, <1>2, <1>3, InvariantHolds, NoRowStalls, PTL DEF Spec
=============================================================================
