------------------------ MODULE OutboxDeliveryProofs ------------------------
(***************************************************************************)
(* Proofs about OutboxDelivery, for any rows, shipments, worker slots,     *)
(* dispatchers and number of faults: runs exclude each other at the lock   *)
(* of a shipment as long as it does not expire, and the protocol           *)
(* implements the safety part of ReliableDelivery.                         *)
(***************************************************************************)
EXTENDS OutboxDelivery, TLAPS

-----------------------------------------------------------------------------
(***************************************************************************)
(* The invariant, by the variables it speaks of                            *)
(***************************************************************************)
RowsOK ==
  /\ accepted \subseteq Rows /\ processed \subseteq accepted
  /\ dispatched \in [Rows -> {"never", "recent", "stale"}]
  /\ recorded \in [Rows -> Nat]
  /\ RecordedIffProcessed

JobsOK ==
  /\ job \in [Queues -> [Rows -> Job]]
  /\ \A q \in Queues, r \in Rows :
       /\ (job[q][r].state = "active") <=> (job[q][r].by # NoOne)
       /\ job[q][r].state # "none" => r \in accepted
  /\ aged \subseteq Rows /\ handoffs \subseteq Rows /\ handoffs \subseteq accepted

Run == [pc : {"idle", "read", "lock", "commit", "release", "settle"},
        row : Rows \cup {NoOne}, ok : BOOLEAN]

WorkersOK ==
  /\ worker \in [AllWorkers -> Run]
  /\ \A w \in AllWorkers : worker[w].pc # "idle" => worker[w].row \in accepted

DispatchRun == [pc : {"idle", "next", "refresh", "remove", "add", "stamp"},
                batch : SUBSET Rows, row : Rows \cup {NoOne}]

DispatchersOK ==
  /\ dispatcher \in [Dispatchers -> DispatchRun]
  /\ \A d \in Dispatchers :
       /\ dispatcher[d].batch \subseteq accepted
       /\ dispatcher[d].pc \in {"refresh", "remove", "add", "stamp"} =>
            dispatcher[d].row \in accepted

LocksOK ==
  /\ lock \in [Shipments -> AllWorkers \cup {NoOne}] /\ robbed \subseteq AllWorkers
  /\ OnlyExpiryTakesALock

FaultsOK == faults \in 0 .. MaxFaults

Sound ==
  RowsOK /\ JobsOK /\ WorkersOK /\ DispatchersOK /\ LocksOK /\ FaultsOK

LEMMA InvByVariables == DeliveryInv <=> Sound /\ FaultFree
BY DEF DeliveryInv, TypeOK, OnlyAcceptedRows, RowOf, RowsOK, JobsOK, WorkersOK,
     Run, DispatchersOK, DispatchRun, LocksOK, FaultsOK, Sound

-----------------------------------------------------------------------------
(***************************************************************************)
(* What is kept by steps that leave the variables alone                    *)
(***************************************************************************)
LEMMA RowsKept == ASSUME RowsOK, UNCHANGED rowVars PROVE RowsOK'
BY DEF RowsOK, RecordedIffProcessed, rowVars

LEMMA JobsKept ==
  ASSUME JobsOK, UNCHANGED queueVars, accepted \subseteq accepted' PROVE JobsOK'
BY DEF JobsOK, queueVars

LEMMA WorkersKept ==
  ASSUME WorkersOK, UNCHANGED worker, accepted \subseteq accepted' PROVE WorkersOK'
BY DEF WorkersOK

LEMMA DispatchersKept ==
  ASSUME DispatchersOK, UNCHANGED dispatcher, accepted \subseteq accepted'
  PROVE  DispatchersOK'
BY DEF DispatchersOK

LEMMA LocksKept ==
  ASSUME LocksOK, UNCHANGED <<lockVars, worker>> PROVE LocksOK'
BY DEF LocksOK, OnlyExpiryTakesALock, ShipmentFor, RowOf, lockVars

LEMMA FaultsKept == ASSUME FaultsOK, UNCHANGED faults \/ Fault PROVE FaultsOK'
BY DeliveryAssumption DEF FaultsOK, Fault

-----------------------------------------------------------------------------
(***************************************************************************)
(* What the steps that change them do to the variables                     *)
(***************************************************************************)
LEMMA JobSet ==
  ASSUME JobsOK, RowsOK, NEW q \in Queues, NEW r \in Rows, NEW new \in Job,
         SetJob(q, r, new),
         (new.state = "active") <=> (new.by # NoOne),
         new.state # "none" => r \in accepted,
         aged' \subseteq Rows, handoffs' \subseteq accepted,
         accepted' = accepted
  PROVE  JobsOK'
BY DEF JobsOK, RowsOK, SetJob

LEMMA JobValues ==
  /\ \A state \in JobStates :
       /\ JobIn(state) \in Job
       /\ JobIn(state).state = state /\ JobIn(state).by = NoOne
  /\ \A w \in AllWorkers :
       /\ HeldBy(w) \in Job
       /\ HeldBy(w).state = "active" /\ HeldBy(w).by = w /\ w # NoOne
BY DeliveryAssumption DEF Job, JobIn, HeldBy, JobStates, AllWorkers

\* A job that is not active before or after it.
LEMMA JobMoved ==
  ASSUME JobsOK, RowsOK, NEW q \in Queues, NEW r \in Rows,
         NEW state \in JobStates \ {"active"}, SetJob(q, r, JobIn(state)),
         r \in accepted, aged' \subseteq Rows, handoffs' \subseteq accepted,
         accepted' = accepted
  PROVE  JobsOK'
BY JobValues, JobSet

LEMMA RunMoved ==
  ASSUME WorkersOK, NEW w \in AllWorkers, worker[w].pc # "idle",
         NEW pc \in {"read", "lock", "commit", "release", "settle"},
         NEW ok \in BOOLEAN, accepted' = accepted,
         \/ worker' = [worker EXCEPT ![w].pc = pc]
         \/ worker' = [worker EXCEPT ![w].pc = pc, ![w].ok = ok]
         \/ worker' = [worker EXCEPT ![w].ok = ok, ![w].pc = pc]
  PROVE  /\ WorkersOK'
         /\ worker[w].row \in accepted /\ worker'[w].row = worker[w].row
         /\ worker'[w].pc = pc
         /\ \A u \in AllWorkers \ {w} : worker'[u] = worker[u]
         /\ \A u \in AllWorkers : worker'[u].row = worker[u].row
BY DEF WorkersOK, Run

LEMMA RunEnds ==
  ASSUME WorkersOK, NEW w \in AllWorkers, accepted' = accepted,
         worker' = [worker EXCEPT ![w] = IdleWorker]
  PROVE  /\ WorkersOK'
         /\ worker'[w].pc = "idle"
         /\ \A u \in AllWorkers \ {w} : worker'[u] = worker[u]
BY DEF WorkersOK, Run, IdleWorker

\* A run that takes no part in the locks, before or after the step.
LEMMA LocksAside ==
  ASSUME LocksOK, NEW w \in AllWorkers,
         worker'[w].pc \notin {"commit", "release"},
         \A u \in AllWorkers \ {w} : worker'[u] = worker[u],
         lock' = lock, robbed' = robbed \/ robbed' = robbed \ {w}
  PROVE  LocksOK'
BY DEF LocksOK, OnlyExpiryTakesALock, ShipmentFor, RowOf

LEMMA LocksOn ==
  ASSUME LocksOK, NEW w \in AllWorkers,
         worker[w].pc = "commit", worker'[w].row = worker[w].row,
         \A u \in AllWorkers \ {w} : worker'[u] = worker[u],
         UNCHANGED lockVars
  PROVE  LocksOK'
BY DEF LocksOK, OnlyExpiryTakesALock, ShipmentFor, RowOf, lockVars

LEMMA RecordKeeps ==
  ASSUME RowsOK, NEW w \in AllWorkers, RowOf(w) \in accepted, Record(w),
         UNCHANGED <<accepted, dispatched>>
  PROVE  RowsOK'
<1>1. CASE UNCHANGED <<processed, recorded>>
  BY <1>1 DEF RowsOK, RecordedIffProcessed
<1>2. CASE /\ Claims(RowOf(w))
           /\ processed' = processed \cup {RowOf(w)}
           /\ recorded' = [recorded EXCEPT ![RowOf(w)] = @ + 1]
  <2>1. recorded[RowOf(w)] = 0
    BY <1>2 DEF RowsOK, RecordedIffProcessed, Claims
  <2>2. recorded' = [recorded EXCEPT ![RowOf(w)] = 1]
    BY <1>2, <2>1
  <2> QED BY <1>2, <2>2 DEF RowsOK, RecordedIffProcessed
<1> QED BY <1>1, <1>2 DEF Record

-----------------------------------------------------------------------------
(***************************************************************************)
(* Every step keeps the invariant: acceptance and time                     *)
(***************************************************************************)
LEMMA AcceptKeeps == ASSUME Sound, NEW r \in Rows, Accept(r) PROVE Sound'
<1>1. RowsOK'
  BY DEF Sound, RowsOK, RecordedIffProcessed, Accept
<1>2. accepted \subseteq accepted'
  BY DEF Accept
<1> QED
  BY <1>1, <1>2, JobsKept, WorkersKept, DispatchersKept, LocksKept, FaultsKept
     DEF Sound, Accept

LEMMA GrowStaleKeeps == ASSUME Sound, NEW r \in Rows, GrowStale(r) PROVE Sound'
<1>1. RowsOK'
  BY DEF Sound, RowsOK, RecordedIffProcessed, GrowStale
<1> QED
  BY <1>1, JobsKept, WorkersKept, DispatchersKept, LocksKept, FaultsKept
     DEF Sound, GrowStale

-----------------------------------------------------------------------------
(***************************************************************************)
(* The dispatcher                                                          *)
(***************************************************************************)
LEMMA DispatchKeeps ==
  ASSUME Sound, NEW d \in Dispatchers, Dispatch(d) \/ AbortDispatch(d)
  PROVE  Sound'
<1> USE DEF Sound
<1>1. accepted' = accepted
  BY DEF Dispatch, Poll, Inspect, Stamp, RemoveJob, AddJob, AbortDispatch, rowVars
<1>2. WorkersOK'
  BY <1>1, WorkersKept
     DEF Dispatch, Poll, Inspect, Stamp, RemoveJob, AddJob, AbortDispatch
<1>3. LocksOK'
  BY LocksKept
     DEF Dispatch, Poll, Inspect, Stamp, RemoveJob, AddJob, AbortDispatch
<1>4. FaultsOK'
  BY FaultsKept
     DEF Dispatch, Poll, Inspect, Stamp, RemoveJob, AddJob, AbortDispatch
<1>5. RowsOK'
  <2>1. CASE Stamp(d)
    <3>1. dispatcher[d].row \in Rows
      BY <2>1 DEF Stamp, DispatchersOK, RowsOK
    <3> QED BY <2>1, <3>1 DEF Stamp, RowsOK, RecordedIffProcessed
  <2>2. CASE UNCHANGED rowVars
    BY <2>2, RowsKept
  <2> QED
    BY <2>1, <2>2 DEF Dispatch, Poll, Inspect, RemoveJob, AddJob, AbortDispatch
<1>6. JobsOK'
  <2>1. CASE dispatcher[d].pc \in {"remove", "add"}
    <3>1. dispatcher[d].row \in accepted /\ dispatcher[d].row \in Rows
      BY <2>1 DEF DispatchersOK, RowsOK
    <3>2. CASE SetJob("main", dispatcher[d].row, JobIn("none"))
               /\ UNCHANGED <<aged, handoffs>>
      BY <1>1, <3>1, <3>2, JobMoved DEF Queues, JobStates, JobsOK
    <3>3. CASE SetJob("main", dispatcher[d].row, JobIn("waiting"))
               /\ aged' = aged \ {dispatcher[d].row} /\ UNCHANGED handoffs
      BY <1>1, <3>1, <3>3, JobMoved DEF Queues, JobStates, JobsOK
    <3>4. CASE UNCHANGED queueVars
      BY <1>1, <3>4, JobsKept
    <3> QED
      BY <2>1, <3>2, <3>3, <3>4
         DEF Dispatch, Poll, Inspect, Stamp, RemoveJob, AddJob, AbortDispatch,
             queueVars
  <2>2. CASE UNCHANGED queueVars
    BY <1>1, <2>2, JobsKept
  <2> QED
    BY <2>1, <2>2
       DEF Dispatch, Poll, Inspect, Stamp, RemoveJob, AddJob, AbortDispatch
<1>7. DispatchersOK'
  <2>1. CASE Poll(d)
    BY <1>1, <2>1 DEF Poll, DispatchersOK, DispatchRun, RowsOK, Due, Pending
  <2>2. CASE Inspect(d)
    BY <1>1, <2>2 DEF Inspect, DispatchersOK, DispatchRun, RowsOK
  <2>3. CASE Stamp(d)
    <3>1. PICK pc \in {"idle", "next"} :
            dispatcher' = [dispatcher EXCEPT ![d].row = NoOne, ![d].pc = pc]
      BY <2>3 DEF Stamp, GoOn
    <3> QED BY <1>1, <3>1 DEF DispatchersOK, DispatchRun
  <2>4. CASE RemoveJob(d)
    BY <1>1, <2>4 DEF RemoveJob, DispatchersOK, DispatchRun, IdleDispatcher
  <2>5. CASE AddJob(d)
    BY <1>1, <2>5 DEF AddJob, DispatchersOK, DispatchRun
  <2>6. CASE AbortDispatch(d)
    BY <1>1, <2>6 DEF AbortDispatch, DispatchersOK, DispatchRun, IdleDispatcher
  <2> QED BY <2>1, <2>2, <2>3, <2>4, <2>5, <2>6 DEF Dispatch
<1> QED BY <1>2, <1>3, <1>4, <1>5, <1>6, <1>7

-----------------------------------------------------------------------------
(***************************************************************************)
(* The queues                                                              *)
(***************************************************************************)
LEMMA AgeOutKeeps == ASSUME Sound, NEW r \in Rows, AgeOut(r) PROVE Sound'
<1>1. JobsOK'
  BY DEF Sound, JobsOK, AgeOut, rowVars
<1> QED
  BY <1>1, RowsKept, WorkersKept, DispatchersKept, LocksKept, FaultsKept
     DEF Sound, AgeOut, rowVars

LEMMA HandoffKeeps ==
  ASSUME Sound, NEW r \in Rows, Handoff(r) \/ LoseHandoff(r) PROVE Sound'
<1> USE DEF Sound
<1>1. accepted' = accepted /\ handoffs' \subseteq handoffs /\ aged' = aged
  BY DEF Handoff, LoseHandoff, rowVars
<1>2. JobsOK'
  <2>1. CASE UNCHANGED job
    BY <1>1, <2>1 DEF JobsOK
  <2>2. CASE r \in handoffs /\ SetJob("dead", r, JobIn("waiting"))
    BY <1>1, <2>2, JobMoved DEF JobsOK, Queues, JobStates
  <2> QED BY <2>1, <2>2 DEF Handoff, LoseHandoff
<1> QED
  BY <1>2, RowsKept, WorkersKept, DispatchersKept, LocksKept, FaultsKept
     DEF Handoff, LoseHandoff, rowVars

\* A job BullMQ moves, none of whose states is "none" before the step.
LEMMA QueueKeeps ==
  ASSUME Sound, NEW q \in Queues, NEW r \in Rows,
         Promote(q, r) \/ Stall(q, r) \/ FalseStall(q, r)
           \/ (q = "main" /\ Evict(r))
  PROVE  Sound'
<1> USE DEF Sound
<1>1. accepted' = accepted /\ aged' = aged /\ aged \subseteq Rows
  BY DEF Promote, Stall, FalseStall, Evict, rowVars, JobsOK
<1>2. job[q][r].state # "none"
  BY DEF Promote, Stall, FalseStall, Evict
<1>3. r \in accepted
  BY <1>2 DEF JobsOK
<1>4. handoffs' \subseteq accepted
  BY <1>3 DEF Promote, Stall, FalseStall, Evict, HandleFailure, JobsOK
<1>5. \E state \in JobStates \ {"active"} : SetJob(q, r, JobIn(state))
  BY DEF Promote, Stall, FalseStall, Evict, JobStates
<1>6. JobsOK'
  BY <1>1, <1>3, <1>4, <1>5, JobMoved
<1> QED
  BY <1>6, RowsKept, WorkersKept, DispatchersKept, LocksKept, FaultsKept
     DEF Promote, Stall, FalseStall, Evict, rowVars

-----------------------------------------------------------------------------
(***************************************************************************)
(* The locks                                                               *)
(***************************************************************************)
LEMMA RunHasShipment ==
  ASSUME Sound, NEW w \in AllWorkers, worker[w].pc # "idle"
  PROVE  ShipmentFor(w) \in Shipments
BY DeliveryAssumption DEF Sound, ShipmentFor, RowOf, WorkersOK, RowsOK

LEMMA LoseRedisKeeps == ASSUME Sound, LoseRedis PROVE Sound'
<1> USE DEF Sound
<1>1. JobsOK'
  BY JobValues DEF JobsOK, LoseRedis, rowVars, JobStates
<1>2. LocksOK'
  <2>1. lock' \in [Shipments -> AllWorkers \cup {NoOne}] /\ robbed' \subseteq AllWorkers
    BY DEF LocksOK, LoseRedis
  <2>2. ASSUME NEW w \in AllWorkers, w \notin robbed',
               worker[w].pc \in {"commit", "release"}
        PROVE  FALSE
    <3>1. lock[ShipmentFor(w)] = w
      BY <2>2 DEF LoseRedis, LocksOK, OnlyExpiryTakesALock
    <3>2. ShipmentFor(w) \in Shipments
      BY <2>2, RunHasShipment
    <3> QED
      BY <2>2, <3>1, <3>2, JobValues DEF LoseRedis
  <2> QED
    BY <2>1, <2>2 DEF LocksOK, OnlyExpiryTakesALock, LoseRedis
<1> QED
  BY <1>1, <1>2, RowsKept, WorkersKept, DispatchersKept, FaultsKept
     DEF LoseRedis, rowVars

LEMMA LockExpires ==
  ASSUME Sound, NEW s \in Shipments, ExpireLock(s) \/ RobLock(s) PROVE Sound'
<1> USE DEF Sound
<1>1. LocksOK'
  <2>1. lock' \in [Shipments -> AllWorkers \cup {NoOne}] /\ robbed' \subseteq AllWorkers
    BY DEF LocksOK, ExpireLock, RobLock
  <2>2. ASSUME NEW w \in AllWorkers, w \notin robbed',
               worker[w].pc \in {"commit", "release"}
        PROVE  lock'[ShipmentFor(w)] = w
    <3>1. lock[ShipmentFor(w)] = w
      BY <2>2 DEF ExpireLock, RobLock, LocksOK, OnlyExpiryTakesALock
    <3>2. ShipmentFor(w) # s
      BY <2>2, <3>1 DEF ExpireLock, RobLock, Guards
    <3>3. ShipmentFor(w) \in Shipments
      BY <2>2, RunHasShipment
    <3> QED
      BY <3>1, <3>2, <3>3 DEF ExpireLock, RobLock, LocksOK
  <2> QED
    BY <2>1, <2>2 DEF LocksOK, OnlyExpiryTakesALock, ExpireLock, RobLock,
                      ShipmentFor, RowOf
<1> QED
  BY <1>1, RowsKept, JobsKept, WorkersKept, DispatchersKept, FaultsKept
     DEF ExpireLock, RobLock, rowVars

\* A free lock taken for a run that goes on to the transaction, or that does
\* not know it has it.
LEMMA LockTaken ==
  ASSUME Sound, NEW w \in AllWorkers, worker[w].pc = "lock",
         LockFree(ShipmentFor(w)),
         lock' = [lock EXCEPT ![ShipmentFor(w)] = w], UNCHANGED robbed,
         worker'[w].row = worker[w].row,
         \A u \in AllWorkers \ {w} : worker'[u] = worker[u]
  PROVE  LocksOK'
<1> USE DEF Sound
<1>1. ShipmentFor(w) \in Shipments
  BY RunHasShipment
<1>2. lock' \in [Shipments -> AllWorkers \cup {NoOne}] /\ robbed' \subseteq AllWorkers
  BY <1>1 DEF LocksOK
<1>3. lock'[ShipmentFor(w)] = w /\ ShipmentFor(w)' = ShipmentFor(w)
  BY <1>1 DEF LocksOK, ShipmentFor, RowOf
<1>4. ASSUME NEW u \in AllWorkers \ {w}, u \notin robbed,
             worker[u].pc \in {"commit", "release"}
      PROVE  lock'[ShipmentFor(u)] = u
  <2>1. lock[ShipmentFor(u)] = u /\ u # NoOne
    BY <1>4, JobValues DEF LocksOK, OnlyExpiryTakesALock
  <2>2. ShipmentFor(u) \in Shipments
    BY <1>4, RunHasShipment
  <2> QED BY <2>1, <2>2 DEF LockFree, LocksOK
<1>5. \A u \in AllWorkers \ {w} : ShipmentFor(u)' = ShipmentFor(u)
  BY DEF ShipmentFor, RowOf
<1> QED
  BY <1>2, <1>3, <1>4, <1>5 DEF LocksOK, OnlyExpiryTakesALock

LEMMA LockDeleted ==
  ASSUME Sound, NEW w \in AllWorkers, worker[w].pc = "release",
         DeleteLock(w), UNCHANGED robbed,
         worker'[w].pc = "settle",
         \A u \in AllWorkers \ {w} : worker'[u] = worker[u]
  PROVE  LocksOK'
<1> USE DEF Sound
<1>1. lock' \in [Shipments -> AllWorkers \cup {NoOne}] /\ robbed' \subseteq AllWorkers
  BY DEF LocksOK, DeleteLock
<1>2. ASSUME NEW u \in AllWorkers \ {w}, u \notin robbed,
             worker[u].pc \in {"commit", "release"}
      PROVE  lock'[ShipmentFor(u)] = u
  <2>1. lock[ShipmentFor(u)] = u
    BY <1>2 DEF LocksOK, OnlyExpiryTakesALock
  <2>2. ShipmentFor(u) \in Shipments
    BY <1>2, RunHasShipment
  <2> QED BY <2>1, <2>2 DEF DeleteLock, OwnsLock, LocksOK
<1>3. \A u \in AllWorkers \ {w} : ShipmentFor(u)' = ShipmentFor(u)
  BY DEF ShipmentFor, RowOf
<1> QED
  BY <1>1, <1>2, <1>3 DEF LocksOK, OnlyExpiryTakesALock

-----------------------------------------------------------------------------
(***************************************************************************)
(* The workers                                                             *)
(***************************************************************************)
LEMMA TakeKeeps ==
  ASSUME Sound, NEW w \in AllWorkers, NEW r \in Rows, Take(w, r) PROVE Sound'
<1> USE DEF Sound
<1>1. /\ accepted' = accepted /\ aged' = aged /\ handoffs' = handoffs
      /\ QueueOf(w) \in Queues
  BY DEF Take, rowVars, QueueOf, Queues
<1>2. r \in accepted
  BY <1>1 DEF Take, JobsOK
<1>3. JobsOK'
  BY <1>1, <1>2, JobValues, JobSet DEF Take, JobsOK
<1>4. WorkersOK'
  BY <1>1, <1>2 DEF Take, WorkersOK, Run
<1>5. LocksOK'
  <2>1. /\ worker'[w].pc = "read"
        /\ \A u \in AllWorkers \ {w} : worker'[u] = worker[u]
    BY DEF Take, WorkersOK
  <2> QED BY <2>1, LocksAside DEF Take
<1> QED
  BY <1>1, <1>3, <1>4, <1>5, RowsKept, DispatchersKept, FaultsKept DEF Take

LEMMA ReadRowKeeps ==
  ASSUME Sound, NEW w \in AllWorkers, ReadRow(w) PROVE Sound'
<1> USE DEF Sound
<1>1. PICK pc \in {"lock", "settle"} : worker' = [worker EXCEPT ![w].pc = pc]
  BY DEF ReadRow, To
<1>2. accepted' = accepted /\ worker[w].pc # "idle"
  BY DEF ReadRow, rowVars
<1>3. WorkersOK' /\ LocksOK'
  BY <1>1, <1>2, RunMoved, LocksAside DEF ReadRow, lockVars
<1> QED
  BY <1>2, <1>3, RowsKept, JobsKept, DispatchersKept, FaultsKept DEF ReadRow

LEMMA AcquireLockKeeps ==
  ASSUME Sound, NEW w \in AllWorkers, AcquireLock(w) PROVE Sound'
<1> USE DEF Sound
<1>1. accepted' = accepted /\ worker[w].pc = "lock" /\ robbed' = robbed
  BY DEF AcquireLock, rowVars
<1>2. CASE /\ LockFree(ShipmentFor(w))
           /\ lock' = [lock EXCEPT ![ShipmentFor(w)] = w]
           /\ worker' = [worker EXCEPT ![w].pc = "commit"]
  BY <1>1, <1>2, RunMoved, LockTaken, RowsKept, JobsKept, DispatchersKept,
     FaultsKept DEF AcquireLock
<1>3. CASE /\ worker' = [worker EXCEPT ![w].pc = "settle", ![w].ok = FALSE]
           /\ lock' = lock
  BY <1>1, <1>3, RunMoved, LocksAside, RowsKept, JobsKept, DispatchersKept,
     FaultsKept DEF AcquireLock
<1> QED BY <1>2, <1>3 DEF AcquireLock, To

LEMMA CommitKeeps ==
  ASSUME Sound, NEW w \in AllWorkers, Commit(w) PROVE Sound'
<1> USE DEF Sound
<1>1. /\ accepted' = accepted /\ worker[w].pc = "commit"
      /\ worker' = [worker EXCEPT ![w].pc = "release"]
  BY DEF Commit, To
<1>2. RowsOK'
  BY <1>1, RecordKeeps DEF Commit, WorkersOK, RowOf
<1>3. WorkersOK' /\ LocksOK'
  BY <1>1, RunMoved, LocksOn DEF Commit
<1> QED
  BY <1>1, <1>2, <1>3, JobsKept, DispatchersKept, FaultsKept DEF Commit

LEMMA ReleaseKeeps ==
  ASSUME Sound, NEW w \in AllWorkers, Release(w) PROVE Sound'
<1> USE DEF Sound
<1>1. /\ accepted' = accepted /\ worker[w].pc = "release"
      /\ worker' = [worker EXCEPT ![w].pc = "settle"]
  BY DEF Release, To, rowVars
<1>2. WorkersOK' /\ LocksOK'
  BY <1>1, RunMoved, LockDeleted DEF Release
<1> QED
  BY <1>1, <1>2, RowsKept, JobsKept, DispatchersKept, FaultsKept DEF Release

LEMMA CrashWorkerKeeps ==
  ASSUME Sound, NEW w \in AllWorkers, CrashWorker(w) PROVE Sound'
<1> USE DEF Sound
<1>1. accepted' = accepted
  BY DEF CrashWorker, rowVars
<1>2. WorkersOK' /\ LocksOK'
  BY <1>1, RunEnds, LocksAside DEF CrashWorker, lockVars
<1> QED
  BY <1>1, <1>2, RowsKept, JobsKept, DispatchersKept, FaultsKept DEF CrashWorker

LEMMA SettleKeeps ==
  ASSUME Sound, NEW w \in AllWorkers, Settle(w) PROVE Sound'
<1> USE DEF Sound
<1>1. /\ accepted' = accepted /\ aged' = aged /\ aged \subseteq Rows
      /\ QueueOf(w) \in Queues /\ RowOf(w) \in accepted /\ RowOf(w) \in Rows
  BY DEF Settle, rowVars, QueueOf, Queues, RowOf, WorkersOK, RowsOK, JobsOK
<1>2. WorkersOK' /\ LocksOK'
  BY <1>1, RunEnds, LocksAside DEF Settle, lockVars
<1>3. handoffs' \subseteq accepted
  BY <1>1 DEF Settle, HandleFailure, JobsOK
<1>4. JobsOK'
  <2>1. CASE UNCHANGED <<job, handoffs>>
    BY <1>1, <2>1, JobsKept DEF queueVars
  <2>2. CASE \E state \in {"completed", "delayed", "failed"} :
               SetJob(QueueOf(w), RowOf(w), JobIn(state))
    BY <1>1, <1>3, <2>2, JobMoved DEF JobStates
  <2> QED BY <2>1, <2>2 DEF Settle
<1>5. UNCHANGED faults \/ Fault
  BY DEF Settle
<1> QED
  BY <1>1, <1>2, <1>4, <1>5, RowsKept, DispatchersKept, FaultsKept DEF Settle

LEMMA ThrowsKeeps ==
  ASSUME Sound, NEW w \in AllWorkers, Throws(w) PROVE Sound'
<1> USE DEF Sound
<1>1. /\ accepted' = accepted /\ robbed' = robbed
      /\ UNCHANGED <<dispatched, queueVars, dispatcher>> /\ Fault
      /\ worker[w].pc \in {"read", "lock", "commit", "release"}
  BY DEF Throws, ReadThrows, SetThrows, CommitThrows, DelThrows
<1>2. RowOf(w) \in accepted
  BY <1>1 DEF RowOf, WorkersOK
<1>3. RowsOK'
  <2>1. CASE Record(w)
    BY <1>1, <1>2, <2>1, RecordKeeps
  <2>2. CASE UNCHANGED <<processed, recorded>>
    BY <1>1, <2>2, RowsKept DEF rowVars
  <2> QED
    BY <2>1, <2>2 DEF Throws, ReadThrows, SetThrows, CommitThrows, DelThrows
<1>4. WorkersOK' /\ LocksOK'
  <2>1. CASE CommitThrows(w)
    <3>1. worker' = [worker EXCEPT ![w].ok = FALSE, ![w].pc = "release"]
      BY <2>1 DEF Throws, CommitThrows
    <3> QED
      BY <1>1, <2>1, <3>1, RunMoved, LocksOn DEF CommitThrows, lockVars
  <2>2. CASE ReadThrows(w) \/ SetThrows(w) \/ DelThrows(w)
    <3>1. worker' = [worker EXCEPT ![w].ok = FALSE, ![w].pc = "settle"]
      BY <2>2 DEF Throws, ReadThrows, SetThrows, DelThrows
    <3>2. /\ WorkersOK' /\ worker'[w].row = worker[w].row
          /\ worker'[w].pc = "settle"
          /\ \A u \in AllWorkers \ {w} : worker'[u] = worker[u]
      BY <1>1, <3>1, RunMoved
    <3>3. CASE lock' = lock
      BY <1>1, <3>2, <3>3, LocksAside
    <3>4. CASE /\ worker[w].pc = "lock" /\ LockFree(ShipmentFor(w))
               /\ lock' = [lock EXCEPT ![ShipmentFor(w)] = w]
      BY <1>1, <3>2, <3>4, LockTaken
    <3>5. CASE worker[w].pc = "release" /\ DeleteLock(w)
      BY <1>1, <3>2, <3>5, LockDeleted
    <3> QED
      BY <2>2, <3>2, <3>3, <3>4, <3>5 DEF ReadThrows, SetThrows, DelThrows
  <2> QED BY <2>1, <2>2 DEF Throws
<1> QED
  BY <1>1, <1>3, <1>4, JobsKept, DispatchersKept, FaultsKept

-----------------------------------------------------------------------------
(***************************************************************************)
(* Without faults                                                          *)
(***************************************************************************)
\* The parts of FaultFree, by what they speak of.
Held ==
  /\ \A w \in AllWorkers : worker[w].pc # "idle" =>
       job[QueueOf(w)][RowOf(w)] = HeldBy(w)
  /\ \A q \in Queues, r \in Rows : job[q][r].state = "active" =>
       Works(job[q][r].by, q, r)

Guarded == robbed = {} /\ \A s \in Shipments : lock[s] # NoOne => Guards(lock[s], s)

JobsCare ==
  \A r \in Rows :
    /\ job["main"][r].state \in {"completed", "failed"} => r \in processed
    /\ dispatched[r] # "never" => CaredFor(r)

RunsEnd ==
  \A w \in AllWorkers :
    (\/ worker[w].pc = "release"
     \/ worker[w].pc = "settle" /\ worker[w].ok)
    => RowOf(w) \in processed

DispatchersCare ==
  \A d \in Dispatchers :
    /\ dispatcher[d].pc = "remove" => dispatcher[d].row \in processed
    /\ dispatcher[d].pc \in {"refresh", "stamp"} => CaredFor(dispatcher[d].row)

Smooth == Held /\ Guarded /\ JobsCare /\ RunsEnd /\ DispatchersCare

LEMMA FaultFreeByParts == FaultFree <=> (faults = 0 => Smooth)
BY DEF FaultFree, Smooth, Held, Guarded, JobsCare, RunsEnd, DispatchersCare

LEMMA JobChange ==
  ASSUME JobsOK, NEW q \in Queues, NEW r \in Rows, NEW new, SetJob(q, r, new)
  PROVE  /\ job'[q][r] = new
         /\ \A p \in Queues, t \in Rows :
              (p # q \/ t # r) => job'[p][t] = job[p][t]
BY DEF JobsOK, SetJob

LEMMA BusyRow ==
  ASSUME Sound, NEW w \in AllWorkers, worker[w].pc # "idle"
  PROVE  QueueOf(w) \in Queues /\ RowOf(w) \in Rows
BY DEF Sound, WorkersOK, RowsOK, RowOf, QueueOf, Queues

\* A job that nobody works on, before or after the step.
LEMMA HeldAside ==
  ASSUME Sound, Held, NEW q \in Queues, NEW r \in Rows,
         NEW state \in JobStates \ {"active"}, SetJob(q, r, JobIn(state)),
         job[q][r].state # "active", UNCHANGED worker
  PROVE  Held'
<1>1. /\ job'[q][r].state # "active"
      /\ \A p \in Queues, t \in Rows :
           (p # q \/ t # r) => job'[p][t] = job[p][t]
  BY JobChange, JobValues DEF Sound
<1>2. ASSUME NEW w \in AllWorkers, worker[w].pc # "idle"
      PROVE  job'[QueueOf(w)][RowOf(w)] = HeldBy(w)
  <2>1. job[QueueOf(w)][RowOf(w)] = HeldBy(w) /\ HeldBy(w).state = "active"
    BY <1>2, JobValues DEF Held
  <2> QED BY <1>1, <1>2, <2>1, BusyRow
<1>3. \A p \in Queues, t \in Rows : job'[p][t].state = "active" =>
        job'[p][t] = job[p][t]
  BY <1>1
<1> QED BY <1>2, <1>3 DEF Held, Works, RowOf

\* Rows once cared for stay so when no main job leaves the states on the way,
\* unless its row is processed.
LEMMA CareKept ==
  ASSUME NEW r, processed \subseteq processed',
         \/ job'["main"][r] = job["main"][r]
         \/ job'["main"][r].state \in {"waiting", "active", "delayed"}
         \/ r \in processed,
         CaredFor(r)
  PROVE  CaredFor(r)'
BY DEF CaredFor

LEMMA HeldKept == ASSUME Held, UNCHANGED <<job, worker>> PROVE Held'
BY DEF Held, Works, RowOf

LEMMA GuardedKept ==
  ASSUME Guarded, UNCHANGED <<lockVars, worker>> PROVE Guarded'
BY DEF Guarded, Guards, ShipmentFor, RowOf, lockVars

\* A run that holds no lock may change without harm to those that do.
LEMMA OthersGuard ==
  ASSUME Sound, Guarded, NEW w \in AllWorkers,
         worker[w].pc \notin {"commit", "release"},
         \A u \in AllWorkers \ {w} : worker'[u] = worker[u],
         lock' = lock, robbed' = {}
  PROVE  Guarded'
<1> SUFFICES ASSUME NEW s \in Shipments, lock[s] # NoOne
             PROVE  Guards(lock[s], s)'
  BY DEF Guarded
<1>1. Guards(lock[s], s) /\ lock[s] \in AllWorkers
  BY DEF Guarded, Sound, LocksOK
<1>2. lock[s] # w
  BY <1>1 DEF Guards
<1> QED BY <1>1, <1>2 DEF Guards, ShipmentFor, RowOf

LEMMA JobsCareKept ==
  ASSUME JobsCare, UNCHANGED <<job, dispatched>>, processed \subseteq processed'
  PROVE  JobsCare'
BY DEF JobsCare, CaredFor

LEMMA RunsEndKept ==
  ASSUME RunsEnd, UNCHANGED worker, processed \subseteq processed' PROVE RunsEnd'
BY DEF RunsEnd, RowOf

LEMMA DispatchersCareKept ==
  ASSUME DispatchersCare, UNCHANGED <<job, dispatcher>>,
         processed \subseteq processed'
  PROVE  DispatchersCare'
BY DEF DispatchersCare, CaredFor

LEMMA TimePasses ==
  ASSUME Sound, Smooth, NEW r \in Rows, Accept(r) \/ GrowStale(r) \/ AgeOut(r)
  PROVE  Smooth'
<1> USE DEF Smooth
<1>1. /\ UNCHANGED <<processed, job, lockVars, worker, dispatcher>>
      /\ \A t \in Rows : dispatched'[t] # "never" => dispatched[t] # "never"
  BY DEF Accept, GrowStale, AgeOut, rowVars, queueVars, Sound, RowsOK
<1>2. JobsCare'
  BY <1>1 DEF JobsCare, CaredFor
<1> QED
  BY <1>1, <1>2, HeldKept, GuardedKept, RunsEndKept, DispatchersCareKept

LEMMA DispatchSmooth ==
  ASSUME Sound, Smooth, NEW d \in Dispatchers, Dispatch(d) PROVE Smooth'
<1> USE DEF Smooth
<1> DEFINE t == dispatcher[d].row
<1>1. /\ UNCHANGED <<processed, lockVars, worker>>
      /\ dispatcher \in [Dispatchers -> DispatchRun]
  BY DEF Dispatch, Poll, Inspect, Stamp, RemoveJob, AddJob, rowVars, Sound,
         DispatchersOK
<1>2. Guarded' /\ RunsEnd'
  BY <1>1, GuardedKept, RunsEndKept
<1>3. ASSUME NEW state \in {"none", "waiting"}, SetJob("main", t, JobIn(state)),
             t \in Rows, job["main"][t].state # "active",
             state = "none" => t \in processed, UNCHANGED dispatched
      PROVE  /\ Held' /\ JobsCare'
             /\ \A r \in Rows : CaredFor(r) => CaredFor(r)'
  <2>1. Held'
    BY <1>1, <1>3, HeldAside DEF Queues, JobStates
  <2>2. /\ job'["main"][t].state = state
        /\ \A r \in Rows : r # t => job'["main"][r] = job["main"][r]
    BY <1>3, JobChange, JobValues DEF Sound, Queues, JobStates
  <2>3. \A r \in Rows : CaredFor(r) => CaredFor(r)'
    BY <1>1, <1>3, <2>2 DEF CaredFor
  <2> QED
    BY <1>1, <1>3, <2>1, <2>2, <2>3 DEF JobsCare
<1>4. CASE Poll(d) \/ Inspect(d)
  <2>1. UNCHANGED <<job, dispatched>>
    BY <1>4 DEF Poll, Inspect, rowVars, queueVars
  <2>2. /\ \A e \in Dispatchers \ {d} : dispatcher'[e] = dispatcher[e]
        /\ dispatcher'[d].pc = "remove" =>
             job["main"][dispatcher'[d].row].state \in {"completed", "failed"}
        /\ dispatcher'[d].pc = "refresh" =>
             job["main"][dispatcher'[d].row].state \in {"waiting", "active", "delayed"}
        /\ dispatcher'[d].pc # "stamp"
        /\ dispatcher'[d].pc \in {"refresh", "remove"} => dispatcher'[d].row \in Rows
    <3>1. CASE Poll(d)
      BY <1>1, <3>1 DEF Poll
    <3>2. CASE Inspect(d)
      <4>1. PICK r \in dispatcher[d].batch :
              LET state == job["main"][r].state IN
              dispatcher' = [dispatcher EXCEPT ![d] =
                [pc |-> IF UnderWay(state) THEN "refresh"
                        ELSE IF state = "none" THEN "add" ELSE "remove",
                 batch |-> @.batch \ {r}, row |-> r]]
        BY <3>2 DEF Inspect
      <4>2. r \in Rows
        BY <1>1 DEF DispatchRun
      <4>3. job["main"][r].state \in JobStates
        BY <4>2 DEF Sound, JobsOK, Job, Queues
      <4> QED
        BY <1>1, <4>1, <4>2, <4>3 DEF UnderWay, JobStates
    <3> QED BY <1>4, <3>1, <3>2
  <2>3. DispatchersCare'
    BY <1>1, <2>1, <2>2 DEF DispatchersCare, CaredFor, JobsCare
  <2> QED
    BY <1>1, <1>2, <2>1, <2>3, HeldKept, JobsCareKept
<1>5. CASE Stamp(d)
  <2>1. UNCHANGED job /\ CaredFor(t) /\ dispatcher[d].pc \in {"refresh", "stamp"}
    BY <1>5 DEF Stamp, DispatchersCare, queueVars
  <2>2. t \in Rows
    BY <2>1 DEF Sound, DispatchersOK, RowsOK
  <2>3. \A r \in Rows : dispatched'[r] # "never" => dispatched[r] # "never" \/ r = t
    BY <1>5, <2>2 DEF Stamp, Sound, RowsOK
  <2>4. JobsCare'
    BY <1>1, <2>1, <2>2, <2>3 DEF JobsCare, CaredFor
  <2>5. PICK pc \in {"idle", "next"} :
          dispatcher' = [dispatcher EXCEPT ![d].row = NoOne, ![d].pc = pc]
    BY <1>5 DEF Stamp, GoOn
  <2>6. /\ \A e \in Dispatchers \ {d} : dispatcher'[e] = dispatcher[e]
        /\ dispatcher'[d].pc = pc
    BY <1>1, <2>5 DEF DispatchRun
  <2>7. DispatchersCare'
    BY <1>1, <2>1, <2>6 DEF DispatchersCare, CaredFor
  <2> QED
    BY <1>1, <1>2, <2>1, <2>4, <2>7, HeldKept
<1>6. CASE RemoveJob(d)
  <2>1. /\ t \in processed /\ t \in Rows
        /\ UNCHANGED dispatched
        /\ \A e \in Dispatchers \ {d} : dispatcher'[e] = dispatcher[e]
        /\ dispatcher'[d].pc \in {"idle", "add"}
    BY <1>1, <1>6 DEF RemoveJob, DispatchersCare, Sound, RowsOK, rowVars,
                      DispatchRun, IdleDispatcher
  <2>2. /\ Held' /\ JobsCare'
        /\ \A r \in Rows : CaredFor(r) => CaredFor(r)'
    <3>1. CASE UNCHANGED job
      BY <1>1, <2>1, <3>1, HeldKept, JobsCareKept DEF CaredFor
    <3>2. CASE /\ job["main"][t].state # "active"
               /\ SetJob("main", t, JobIn("none"))
      BY <1>3, <2>1, <3>2
    <3> QED BY <1>6, <3>1, <3>2 DEF RemoveJob
  <2>3. DispatchersCare'
    BY <1>1, <2>1, <2>2 DEF DispatchersCare, Sound, DispatchersOK, RowsOK
  <2> QED BY <1>2, <2>2, <2>3
<1>7. CASE AddJob(d)
  <2>1. /\ t \in Rows /\ UNCHANGED dispatched
        /\ \A e \in Dispatchers \ {d} : dispatcher'[e] = dispatcher[e]
        /\ dispatcher'[d].pc = "stamp" /\ dispatcher'[d].row = t
    BY <1>1, <1>7 DEF AddJob, Sound, RowsOK, rowVars, DispatchRun, DispatchersOK
  <2>2. /\ Held' /\ JobsCare' /\ CaredFor(t)'
        /\ \A r \in Rows : CaredFor(r) => CaredFor(r)'
    <3>1. CASE UNCHANGED job /\ job["main"][t].state # "none"
      <4>1. job["main"][t].state \in JobStates
        BY <2>1 DEF Sound, JobsOK, Job, Queues
      <4>2. CaredFor(t)
        BY <2>1, <3>1, <4>1 DEF JobsCare, CaredFor, JobStates
      <4> QED
        BY <1>1, <2>1, <3>1, <4>2, HeldKept, JobsCareKept DEF CaredFor
    <3>2. CASE /\ job["main"][t].state = "none"
               /\ SetJob("main", t, JobIn("waiting"))
      <4>1. job'["main"][t].state = "waiting"
        BY <2>1, <3>2, JobChange, JobValues DEF Sound, Queues, JobStates
      <4> QED BY <1>3, <2>1, <3>2, <4>1 DEF CaredFor
    <3> QED BY <1>7, <3>1, <3>2 DEF AddJob
  <2>3. DispatchersCare'
    BY <1>1, <2>1, <2>2 DEF DispatchersCare, Sound, DispatchersOK, RowsOK
  <2> QED BY <1>2, <2>2, <2>3
<1> QED BY <1>4, <1>5, <1>6, <1>7 DEF Dispatch

\* BullMQ moves a job that nobody works on; a stalled job would need a fault.
LEMMA QueueSmooth ==
  ASSUME Sound, Smooth, NEW q \in Queues, NEW r \in Rows,
         Promote(q, r) \/ Stall(q, r) \/ (q = "main" /\ Evict(r))
           \/ (q = "dead" /\ Handoff(r))
  PROVE  Smooth'
<1> USE DEF Smooth
<1>1. UNCHANGED <<rowVars, lockVars, worker, dispatcher>>
  BY DEF Promote, Stall, Evict, Handoff
<1>2. ~Stall(q, r)
  BY DEF Stall, Held
<1>3. CASE UNCHANGED job
  BY <1>1, <1>3, HeldKept, GuardedKept, JobsCareKept, RunsEndKept,
     DispatchersCareKept DEF rowVars
<1>4. CASE \E state \in {"none", "waiting"} :
             /\ SetJob(q, r, JobIn(state)) /\ job[q][r].state # "active"
             /\ q = "main" /\ state = "none" => r \in processed
  <2>1. PICK state \in {"none", "waiting"} :
             /\ SetJob(q, r, JobIn(state)) /\ job[q][r].state # "active"
             /\ q = "main" /\ state = "none" => r \in processed
    BY <1>4
  <2>2. Held'
    BY <1>1, <2>1, HeldAside DEF JobStates
  <2>3. /\ job'[q][r].state = state
        /\ \A t \in Rows : q # "main" \/ t # r => job'["main"][t] = job["main"][t]
    BY <2>1, JobChange, JobValues DEF Sound, Queues, JobStates
  <2>4. \A t \in Rows : CaredFor(t) => CaredFor(t)'
    BY <1>1, <2>1, <2>3 DEF CaredFor, rowVars
  <2>5. JobsCare'
    BY <1>1, <2>1, <2>3, <2>4 DEF JobsCare, rowVars
  <2>6. DispatchersCare'
    BY <1>1, <2>4 DEF DispatchersCare, Sound, DispatchersOK, RowsOK, rowVars
  <2> QED
    BY <1>1, <2>2, <2>5, <2>6, GuardedKept, RunsEndKept DEF rowVars
<1>5. Evict(r) => r \in processed
  BY DEF Evict, JobsCare
<1> QED
  BY <1>2, <1>3, <1>4, <1>5 DEF Promote, Evict, Handoff

LEMMA TakeSmooth ==
  ASSUME Sound, Smooth, NEW w \in AllWorkers, NEW r \in Rows, Take(w, r)
  PROVE  Smooth'
<1> USE DEF Smooth
<1> DEFINE q == QueueOf(w)
<1>1. /\ UNCHANGED <<rowVars, lock, dispatcher>> /\ robbed' = {}
      /\ q \in Queues /\ job[q][r].state = "waiting" /\ worker[w].pc = "idle"
  BY DEF Take, QueueOf, Queues, Guarded
<1>2. /\ job'[q][r] = HeldBy(w) /\ HeldBy(w).state = "active" /\ HeldBy(w).by = w
      /\ \A p \in Queues, t \in Rows :
           (p # q \/ t # r) => job'[p][t] = job[p][t]
  BY <1>1, JobChange, JobValues DEF Take, Sound
<1>3. /\ worker'[w].pc = "read" /\ worker'[w].row = r
      /\ \A u \in AllWorkers \ {w} : worker'[u] = worker[u]
  BY DEF Take, Sound, WorkersOK
<1>4. Held'
  <2>1. ASSUME NEW u \in AllWorkers, worker'[u].pc # "idle"
        PROVE  job'[QueueOf(u)][worker'[u].row] = HeldBy(u)
    <3>1. CASE u = w
      BY <1>2, <1>3, <3>1
    <3>2. CASE u # w
      <4>1. worker[u].pc # "idle" /\ worker'[u].row = RowOf(u)
        BY <1>3, <2>1, <3>2 DEF RowOf
      <4>2. job[QueueOf(u)][RowOf(u)].state = "active"
        BY <4>1, JobValues DEF Held
      <4> QED BY <1>1, <1>2, <4>1, <4>2, BusyRow DEF Held
    <3> QED BY <3>1, <3>2
  <2>2. ASSUME NEW p \in Queues, NEW t \in Rows, job'[p][t].state = "active"
        PROVE  Works(job[p][t].by, p, t)'
    <3>1. CASE p = q /\ t = r
      BY <1>2, <1>3, <3>1 DEF Works, RowOf
    <3>2. CASE p # q \/ t # r
      <4>1. /\ job'[p][t] = job[p][t] /\ Works(job[p][t].by, p, t)
            /\ job[p][t].by \in AllWorkers
        BY <1>2, <2>2, <3>2 DEF Held, Sound, JobsOK, Job
      <4>2. job[p][t].by # w
        BY <1>1, <4>1 DEF Works
      <4> QED BY <1>3, <4>1, <4>2 DEF Works, RowOf
    <3> QED BY <3>1, <3>2
  <2> QED BY <2>1, <2>2 DEF Held, RowOf
<1>5. Guarded'
  BY <1>1, <1>3, OthersGuard
<1>6. \A t \in Rows : CaredFor(t) => CaredFor(t)'
  BY <1>1, <1>2 DEF CaredFor, rowVars, Queues
<1>7. JobsCare'
  BY <1>1, <1>2, <1>6 DEF JobsCare, rowVars, Queues
<1>8. RunsEnd'
  BY <1>1, <1>3 DEF RunsEnd, RowOf, rowVars
<1>9. DispatchersCare'
  BY <1>1, <1>6 DEF DispatchersCare, Sound, DispatchersOK, RowsOK, rowVars
<1> QED BY <1>4, <1>5, <1>7, <1>8, <1>9

\* A run that goes on with the job it holds.
LEMMA RunSmooth ==
  ASSUME Sound, Smooth, NEW w \in AllWorkers,
         ReadRow(w) \/ AcquireLock(w) \/ Commit(w) \/ Release(w)
  PROVE  Smooth'
<1> USE DEF Smooth
<1>1. /\ UNCHANGED <<job, dispatched, dispatcher, robbed>>
      /\ processed \subseteq processed'
      /\ worker[w].pc \in {"read", "lock", "commit", "release"}
      /\ worker \in [AllWorkers -> Run]
  BY DEF ReadRow, AcquireLock, Commit, Release, Record, rowVars, queueVars,
         lockVars, Sound, WorkersOK
<1>2. /\ worker'[w].row = worker[w].row
      /\ worker'[w].pc \in {"lock", "commit", "release", "settle"}
      /\ \A u \in AllWorkers \ {w} : worker'[u] = worker[u]
  BY <1>1 DEF ReadRow, AcquireLock, Commit, Release, To, Run
<1>3. Held'
  <2>1. \A u \in AllWorkers :
          /\ worker'[u].row = worker[u].row
          /\ worker'[u].pc # "idle" <=> worker[u].pc # "idle"
    BY <1>1, <1>2
  <2>2. \A q \in Queues, r \in Rows :
          job[q][r].state = "active" => job[q][r].by \in AllWorkers
    BY DEF Held, Sound, JobsOK, Job
  <2> QED BY <1>1, <2>1, <2>2 DEF Held, Works, RowOf
<1>4. RowOf(w) \in accepted /\ ShipmentFor(w) \in Shipments
  BY <1>1, RunHasShipment DEF Sound, WorkersOK, RowOf
<1>5. RunsEnd'
  <2>1. (\/ worker'[w].pc = "release"
         \/ worker'[w].pc = "settle" /\ worker'[w].ok)
        => RowOf(w) \in processed'
    <3>1. CASE ReadRow(w)
      BY <1>1, <1>4, <3>1 DEF ReadRow, To, Run, Pending, rowVars
    <3>2. CASE AcquireLock(w)
      BY <1>1, <3>2 DEF AcquireLock, To, Run
    <3>3. CASE Commit(w)
      BY <3>3 DEF Commit, Record, Claims
    <3>4. CASE Release(w)
      BY <1>1, <3>4 DEF Release, RunsEnd
    <3> QED BY <3>1, <3>2, <3>3, <3>4
  <2> QED BY <1>1, <1>2, <2>1 DEF RunsEnd, RowOf
<1>6. Guarded'
  <2> SUFFICES ASSUME NEW s \in Shipments, lock'[s] # NoOne
               PROVE  Guards(lock[s], s)'
    BY <1>1 DEF Guarded
  <2>1. \/ lock'[s] = lock[s]
        \/ lock'[s] = w /\ s = ShipmentFor(w) /\ worker'[w].pc = "commit"
    <3>1. CASE AcquireLock(w) /\ LockFree(ShipmentFor(w))
      BY <1>1, <1>4, <3>1 DEF AcquireLock, To, Run, Sound, LocksOK
    <3>2. CASE Release(w)
      BY <1>4, <3>2 DEF Release, DeleteLock, Sound, LocksOK
    <3>3. CASE lock' = lock
      BY <3>3
    <3> QED
      BY <3>1, <3>2, <3>3 DEF ReadRow, AcquireLock, Commit, lockVars
  <2>2. CASE lock'[s] = w /\ worker'[w].pc = "commit" /\ s = ShipmentFor(w)
    BY <1>2, <2>2 DEF Guards, ShipmentFor, RowOf
  <2>3. CASE lock'[s] = lock[s]
    <3>1. Guards(lock[s], s) /\ lock[s] \in AllWorkers
      BY <2>3 DEF Guarded, Sound, LocksOK
    <3>2. CASE lock[s] # w
      BY <1>2, <2>3, <3>1, <3>2 DEF Guards, ShipmentFor, RowOf
    <3>3. CASE lock[s] = w
      <4>1. worker[w].pc \in {"commit", "release"} /\ ShipmentFor(w) = s
        BY <3>1, <3>3 DEF Guards
      <4>2. ~Release(w)
        <5>1. Release(w) => lock'[s] = NoOne
          BY <1>4, <3>3, <4>1 DEF Release, DeleteLock, OwnsLock, Sound, LocksOK
        <5> QED BY <5>1
      <4>3. worker'[w].pc = "release"
        BY <1>1, <4>1, <4>2 DEF ReadRow, AcquireLock, Commit, To, Run
      <4> QED BY <1>2, <2>3, <3>3, <4>1, <4>3 DEF Guards, ShipmentFor, RowOf
    <3> QED BY <3>2, <3>3
  <2> QED BY <2>1, <2>2, <2>3
<1> QED
  BY <1>1, <1>3, <1>5, <1>6, JobsCareKept, DispatchersCareKept

LEMMA SettleSmooth ==
  ASSUME Sound, Smooth, ~Fault, NEW w \in AllWorkers, Settle(w) PROVE Smooth'
<1> USE DEF Smooth
<1> DEFINE q == QueueOf(w)
           r == RowOf(w)
<1>1. /\ worker[w].pc = "settle" /\ q \in Queues /\ r \in Rows
      /\ job[q][r] = HeldBy(w)
      /\ UNCHANGED <<rowVars, lockVars, dispatcher>>
  BY BusyRow DEF Settle, Held
<1>2. PICK state \in {"completed", "delayed"} :
        /\ SetJob(q, r, JobIn(state))
        /\ state = "completed" => r \in processed
  BY <1>1 DEF Settle, RunsEnd
<1>3. /\ job'[q][r].state = state
      /\ \A p \in Queues, t \in Rows :
           (p # q \/ t # r) => job'[p][t] = job[p][t]
  BY <1>1, <1>2, JobChange, JobValues DEF Sound, JobStates
<1>4. /\ worker'[w].pc = "idle"
      /\ \A u \in AllWorkers \ {w} : worker'[u] = worker[u]
  BY RunEnds DEF Settle, Sound, rowVars
<1>5. \A u \in AllWorkers \ {w} : worker[u].pc # "idle" => q # QueueOf(u) \/ r # RowOf(u)
  BY <1>1, JobValues DEF Held
<1>6. Held'
  <2>1. ASSUME NEW u \in AllWorkers, worker'[u].pc # "idle"
        PROVE  job'[QueueOf(u)][worker'[u].row] = HeldBy(u)
    <3>1. u # w /\ worker[u].pc # "idle" /\ worker'[u].row = RowOf(u)
      BY <1>4, <2>1 DEF RowOf
    <3> QED BY <1>3, <1>5, <3>1, BusyRow DEF Held
  <2>2. ASSUME NEW p \in Queues, NEW t \in Rows, job'[p][t].state = "active"
        PROVE  Works(job[p][t].by, p, t)'
    <3>1. job'[p][t] = job[p][t] /\ (p # q \/ t # r)
      BY <1>3, <2>2
    <3>2. Works(job[p][t].by, p, t) /\ job[p][t].by \in AllWorkers
      BY <2>2, <3>1 DEF Held, Sound, JobsOK, Job
    <3>3. job[p][t].by # w
      BY <3>1, <3>2 DEF Works
    <3> QED BY <1>4, <3>1, <3>2, <3>3 DEF Works, RowOf
  <2> QED BY <2>1, <2>2 DEF Held, RowOf
<1>7. Guarded'
  <2>1. lock' = lock /\ robbed' = {}
    BY <1>1 DEF Guarded, lockVars
  <2> QED BY <1>1, <1>4, <2>1, OthersGuard
<1>8. \A t \in Rows : CaredFor(t) => CaredFor(t)'
  BY <1>1, <1>2, <1>3 DEF CaredFor, rowVars, Queues
<1>9. JobsCare'
  BY <1>1, <1>2, <1>3, <1>8 DEF JobsCare, rowVars, Queues
<1>10. RunsEnd'
  BY <1>1, <1>4 DEF RunsEnd, RowOf, rowVars
<1>11. DispatchersCare'
  BY <1>1, <1>8 DEF DispatchersCare, Sound, DispatchersOK, RowsOK, rowVars
<1> QED BY <1>6, <1>7, <1>9, <1>10, <1>11

LEMMA FaultFreeInit == ASSUME Init PROVE FaultFree
BY DEF Init, FaultFree, Queues, QueueOf, IdleWorker, IdleDispatcher, JobIn

LEMMA FaultFreeNext == ASSUME Sound, FaultFree, [Next]_vars PROVE FaultFree'
<1> SUFFICES ASSUME faults' = 0 PROVE Smooth'
  BY DEF FaultFree, Smooth, Held, Guarded, JobsCare, RunsEnd, DispatchersCare
<1>1. ~Fault
  BY DEF Fault, Sound, FaultsOK
<1>2. CASE faults = 0
  <2>1. Smooth
    BY <1>2, FaultFreeByParts
  <2>2. CASE UNCHANGED vars
    BY <2>1, <2>2, HeldKept, GuardedKept, JobsCareKept, RunsEndKept,
       DispatchersCareKept DEF vars, rowVars, queueVars, Smooth
  <2>3. ASSUME NEW r \in Rows,
               \/ Accept(r) \/ GrowStale(r) \/ AgeOut(r) \/ Evict(r) \/ Handoff(r)
               \/ \E q \in Queues : Promote(q, r) \/ Stall(q, r)
               \/ \E w \in AllWorkers : Take(w, r)
        PROVE  Smooth'
    BY <2>1, <2>3, TimePasses, QueueSmooth, TakeSmooth DEF Queues
  <2>4. ASSUME NEW w \in AllWorkers, Process(w) PROVE Smooth'
    BY <1>1, <2>1, <2>4, RunSmooth, SettleSmooth DEF Process
  <2>5. ASSUME NEW s \in Shipments, ExpireLock(s) PROVE FALSE
    BY <2>1, <2>5 DEF ExpireLock, Smooth, Guarded
  <2> QED
    BY <1>1, <2>1, <2>2, <2>3, <2>4, <2>5, DispatchSmooth
       DEF Next, LoseHandoff, FalseStall, AbortDispatch, Throws, CrashWorker,
           RobLock, LoseRedis
<1>3. CASE faults # 0
  <2>1. faults' = faults
    BY <1>1 DEF Next, Accept, GrowStale, AgeOut, Evict, Handoff, LoseHandoff,
       Promote, Stall, FalseStall, Take, Dispatch, Poll, Inspect, Stamp,
       RemoveJob, AddJob, AbortDispatch, Process, ReadRow, AcquireLock, Commit,
       Release, Settle, Throws, CrashWorker, ExpireLock, RobLock, LoseRedis, vars
  <2> QED BY <1>3, <2>1
<1> QED BY <1>2, <1>3

-----------------------------------------------------------------------------
(***************************************************************************)
(* The theorems                                                            *)
(***************************************************************************)
LEMMA SoundInit == ASSUME Init PROVE Sound
<1>1. RowsOK
  BY DEF Init, RowsOK, RecordedIffProcessed
<1>2. JobsOK
  BY JobValues DEF Init, JobsOK, JobStates
<1>3. WorkersOK /\ DispatchersOK
  BY DEF Init, WorkersOK, DispatchersOK, Run, DispatchRun, IdleWorker,
         IdleDispatcher
<1>4. LocksOK
  BY <1>3 DEF Init, LocksOK, OnlyExpiryTakesALock, IdleWorker
<1>5. FaultsOK
  BY DeliveryAssumption DEF Init, FaultsOK
<1> QED BY <1>1, <1>2, <1>3, <1>4, <1>5 DEF Sound

LEMMA SoundNext == ASSUME Sound, [Next]_vars PROVE Sound'
<1>1. CASE UNCHANGED vars
  BY <1>1, RowsKept, JobsKept, WorkersKept, DispatchersKept, LocksKept,
     FaultsKept DEF Sound, vars, rowVars, queueVars, lockVars
<1>2. ASSUME NEW r \in Rows, Accept(r) \/ GrowStale(r) PROVE Sound'
  BY <1>2, AcceptKeeps, GrowStaleKeeps
<1>3. ASSUME NEW r \in Rows,
             AgeOut(r) \/ Evict(r) \/ Handoff(r) \/ LoseHandoff(r)
      PROVE  Sound'
  BY <1>3, AgeOutKeeps, QueueKeeps, HandoffKeeps DEF Queues
<1>4. ASSUME NEW r \in Rows, NEW q \in Queues,
             Promote(q, r) \/ Stall(q, r) \/ FalseStall(q, r)
      PROVE  Sound'
  BY <1>4, QueueKeeps
<1>5. ASSUME NEW r \in Rows, NEW w \in AllWorkers, Take(w, r) PROVE Sound'
  BY <1>5, TakeKeeps
<1>6. ASSUME NEW d \in Dispatchers, Dispatch(d) \/ AbortDispatch(d) PROVE Sound'
  BY <1>6, DispatchKeeps
<1>7. ASSUME NEW w \in AllWorkers, Process(w) \/ Throws(w) \/ CrashWorker(w)
      PROVE  Sound'
  BY <1>7, ReadRowKeeps, AcquireLockKeeps, CommitKeeps, ReleaseKeeps,
     SettleKeeps, ThrowsKeeps, CrashWorkerKeeps DEF Process
<1>8. ASSUME NEW s \in Shipments, ExpireLock(s) \/ RobLock(s) PROVE Sound'
  BY <1>8, LockExpires
<1>9. CASE LoseRedis
  BY <1>9, LoseRedisKeeps
<1> QED
  BY <1>1, <1>2, <1>3, <1>4, <1>5, <1>6, <1>7, <1>8, <1>9 DEF Next

LEMMA AlwaysSound == Spec => [](Sound /\ FaultFree)
<1>1. Init => Sound /\ FaultFree
  BY SoundInit, FaultFreeInit
<1>2. Sound /\ FaultFree /\ [Next]_vars => Sound' /\ FaultFree'
  BY SoundNext, FaultFreeNext
<1> QED BY <1>1, <1>2, PTL DEF Spec

\* Runs, jobs, locks and dispatchers have their shapes, concern accepted rows
\* only, and a row has an event in the history exactly when it is processed,
\* whatever faults strike and in any order.
THEOREM DeliveryInvariant == Spec => []DeliveryInv
BY AlwaysSound, InvByVariables, PTL

\* For any number of processes, shipments and faults, a run between SET and
\* DEL that did not lose its lock to the time to live still has it.
THEOREM LocksExclude == Spec => []OnlyExpiryTakesALock
<1>1. DeliveryInv => OnlyExpiryTakesALock
  BY DEF DeliveryInv
<1> QED BY <1>1, DeliveryInvariant, PTL

\* Until the first fault a dispatched row is processed or has its job on the
\* way, no job is in two slots, and every lock guards a run that goes on: the
\* reconciliation of dispatchPending, BullMQ's stall check and the time to live
\* of the lock are there for faults alone.
THEOREM WorkIsLostByFaultsAlone == Spec => []OnlyFaultsLoseWork
<1>1. ASSUME Sound, FaultFree PROVE OnlyFaultsLoseWork
  <2> SUFFICES ASSUME faults = 0 PROVE OnlyFaultsLoseWork!2
    BY DEF OnlyFaultsLoseWork
  <2>1. Held /\ Guarded /\ JobsCare
    BY <1>1, FaultFreeByParts DEF Smooth
  <2>2. \A u, w \in AllWorkers : HeldBy(u) = HeldBy(w) => u = w
    BY JobValues
  <2> QED
    BY <2>1, <2>2 DEF Held, Guarded, JobsCare, CaredFor, Pending, OnlyFaultsLoseWork
<1> QED BY <1>1, AlwaysSound, PTL

\* Two runs of the same locked shipment are never both between SET and DEL,
\* unless a lock expired under one of them.
THEOREM OneRunPerShipment ==
  Spec => [](\A u, w \in AllWorkers \ robbed :
               /\ worker[u].pc \in {"commit", "release"}
               /\ worker[w].pc \in {"commit", "release"}
               /\ ShipmentFor(u) = ShipmentFor(w)
               => u = w)
<1>1. OnlyExpiryTakesALock =>
        \A u, w \in AllWorkers \ robbed :
          /\ worker[u].pc \in {"commit", "release"}
          /\ worker[w].pc \in {"commit", "release"}
          /\ ShipmentFor(u) = ShipmentFor(w)
          => u = w
  BY DEF OnlyExpiryTakesALock
<1> QED BY <1>1, LocksExclude, PTL

-----------------------------------------------------------------------------
(***************************************************************************)
(* The refinement: every step accepts a row, records one, or stutters      *)
(***************************************************************************)
LEMMA RecordImplements ==
  ASSUME Sound, NEW w \in AllWorkers, RowOf(w) \in accepted, Record(w),
         accepted' = accepted
  PROVE  [Promise!Next]_(Promise!vars)
<1> USE DEF Sound
<1>1. CASE UNCHANGED <<processed, recorded>>
  BY <1>1 DEF Promise!vars
<1>2. CASE Claims(RowOf(w)) /\ recorded' = [recorded EXCEPT ![RowOf(w)] = @ + 1]
  <2>1. recorded[RowOf(w)] = 0 /\ RowOf(w) \in Rows
    BY <1>2 DEF RowsOK, RecordedIffProcessed, Claims
  <2>2. recorded' = [recorded EXCEPT ![RowOf(w)] = 1]
    BY <1>2, <2>1
  <2>3. Promise!Record(RowOf(w))
    BY <2>1, <2>2 DEF Promise!Record
  <2> QED BY <2>1, <2>3 DEF Promise!Next
<1> QED BY <1>1, <1>2 DEF Record

LEMMA StepImplements ==
  ASSUME Sound, [Next]_vars PROVE [Promise!Next]_(Promise!vars)
<1> USE DEF Sound
<1>1. CASE \E r \in Rows : Accept(r)
  BY <1>1 DEF Accept, Promise!Next, Promise!Accept
<1>2. ASSUME NEW w \in AllWorkers, Commit(w) \/ (Throws(w) /\ CommitThrows(w))
      PROVE  [Promise!Next]_(Promise!vars)
  <2>1. accepted' = accepted /\ RowOf(w) \in accepted
    BY <1>2 DEF Commit, Throws, CommitThrows, RowOf, WorkersOK
  <2>2. CASE Record(w)
    BY <2>1, <2>2, RecordImplements
  <2>3. CASE UNCHANGED <<processed, recorded>>
    BY <2>1, <2>3 DEF Promise!vars
  <2> QED BY <1>2, <2>2, <2>3 DEF Commit, CommitThrows
<1>3. ASSUME NEW w \in AllWorkers,
             ReadRow(w) \/ AcquireLock(w) \/ Release(w) \/ Settle(w)
               \/ CrashWorker(w) \/ (Throws(w) /\ ~CommitThrows(w))
      PROVE  UNCHANGED <<accepted, recorded>>
  BY <1>3 DEF ReadRow, AcquireLock, Release, Settle, CrashWorker, Throws,
              ReadThrows, SetThrows, DelThrows, rowVars
<1>4. ASSUME NEW r \in Rows,
             \/ GrowStale(r) \/ AgeOut(r) \/ Evict(r) \/ Handoff(r) \/ LoseHandoff(r)
             \/ \E q \in Queues : Promote(q, r) \/ Stall(q, r) \/ FalseStall(q, r)
             \/ \E w \in AllWorkers : Take(w, r)
      PROVE  UNCHANGED <<accepted, recorded>>
  BY <1>4 DEF GrowStale, AgeOut, Evict, Handoff, LoseHandoff, Promote, Stall,
              FalseStall, Take, rowVars
<1>5. ASSUME NEW d \in Dispatchers, Dispatch(d) \/ AbortDispatch(d)
      PROVE  UNCHANGED <<accepted, recorded>>
  BY <1>5 DEF Dispatch, Poll, Inspect, Stamp, RemoveJob, AddJob, AbortDispatch,
              rowVars
<1>6. ASSUME LoseRedis \/ \E s \in Shipments : ExpireLock(s) \/ RobLock(s)
      PROVE  UNCHANGED <<accepted, recorded>>
  BY <1>6 DEF LoseRedis, ExpireLock, RobLock, rowVars
<1>7. CASE UNCHANGED <<accepted, recorded>>
  BY <1>7 DEF Promise!vars
<1>8. CASE UNCHANGED vars
  BY <1>7, <1>8 DEF vars, rowVars
<1> QED
  BY <1>1, <1>2, <1>3, <1>4, <1>5, <1>6, <1>7, <1>8 DEF Next, Process

\* Whatever fails, and however often a job runs, each accepted row is recorded
\* at most once, and no other row is: the protocol implements the safety part
\* of ReliableDelivery.
THEOREM ImplementsAtMostOnce == Spec => AtMostOnceDelivery
<1>1. Init => Promise!Init
  BY DEF Init, Promise!Init
<1>2. Sound /\ [Next]_vars => [Promise!Next]_(Promise!vars)
  BY StepImplements
<1> QED
  BY <1>1, <1>2, AlwaysSound, PTL DEF Spec, AtMostOnceDelivery, Promise!AtMostOnce

=============================================================================
