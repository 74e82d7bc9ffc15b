--------------------------- MODULE OutboxDelivery ---------------------------
(***************************************************************************)
(* The asynchronous side of tracking (tracking-outbox-worker.service.ts):  *)
(* dispatchers publish pending outbox rows as BullMQ jobs, workers process *)
(* the jobs under a Redis lock per shipment, failed jobs are retried and   *)
(* after the retry window also handed to a dead letter queue.              *)
(*                                                                         *)
(* Every await of the code ends a step.  Faults (a process that dies, a    *)
(* Redis or SQL error, a lock that expires under a live holder, a job      *)
(* BullMQ takes for stalled, the loss of Redis) may strike anywhere, at    *)
(* most MaxFaults times.  What a transaction does to the shipment is       *)
(* module TrackingLedger's; here it records the row or throws.             *)
(***************************************************************************)
EXTENDS Naturals, FiniteSets

CONSTANTS
  Rows,          \* outbox rows
  Shipments,
  ShipmentOf,    \* the shipment of each row
  Workers,       \* job slots of the main queue, over all processes
  DeadWorkers,   \* job slots of the dead letter queue
  Dispatchers,   \* processes with the dispatcher role
  NoOne,
  MaxFaults

ASSUME DeliveryAssumption ==
  /\ ShipmentOf \in [Rows -> Shipments]
  /\ Workers \cap DeadWorkers = {}
  /\ NoOne \notin Workers \cup DeadWorkers
  /\ NoOne \notin Rows
  /\ MaxFaults \in Nat

AllWorkers == Workers \cup DeadWorkers
Queues == {"main", "dead"}
QueueOf(w) == IF w \in Workers THEN "main" ELSE "dead"

VARIABLES
  accepted,    \* rows committed by an acceptance
  processed,   \* rows with processedAt set
  dispatched,  \* dispatchedAt of a row: "never", "recent" or "stale" (older
               \* than the reconciliation interval)
  recorded,    \* observation: history events each row has caused
  job,         \* job[q][r]: the job of row r in queue q
  aged,        \* rows whose main job is older than the retry window
  handoffs,    \* rows whose failed job is on its way to the dead letter queue
  lock,        \* tracking:shipment:<id>: the run that set it, or NoOne
  robbed,      \* observation: workers whose lock expired during their run
  worker,      \* worker[w]: the run of processJob in slot w
  dispatcher,  \* dispatcher[d]: the run of dispatchPending in process d
  faults       \* faults so far

rowVars == <<accepted, processed, dispatched, recorded>>
queueVars == <<job, aged, handoffs>>
lockVars == <<lock, robbed>>
vars == <<rowVars, queueVars, lockVars, worker, dispatcher, faults>>

JobStates == {"none", "waiting", "active", "delayed", "completed", "failed"}
Job == [state : JobStates, by : AllWorkers \cup {NoOne}]
JobIn(state) == [state |-> state, by |-> NoOne]

\* Bug: a job is made active without a record of who works on it.
BugHeldBy(w) == JobIn("active")

HeldBy(w) == [state |-> "active", by |-> w]

IdleWorker == [pc |-> "idle", row |-> NoOne, ok |-> TRUE]
IdleDispatcher == [pc |-> "idle", batch |-> {}, row |-> NoOne]

Pending(r) == r \in accepted /\ r \notin processed
RowOf(w) == worker[w].row
ShipmentFor(w) == ShipmentOf[RowOf(w)]

Fault == faults < MaxFaults /\ faults' = faults + 1

SetJob(q, r, new) == job' = [job EXCEPT ![q][r] = new]

Init ==
  /\ accepted = {} /\ processed = {}
  /\ dispatched = [r \in Rows |-> "never"]
  /\ recorded = [r \in Rows |-> 0]
  /\ job = [q \in Queues |-> [r \in Rows |-> JobIn("none")]]
  /\ aged = {} /\ handoffs = {}
  /\ lock = [s \in Shipments |-> NoOne] /\ robbed = {}
  /\ worker = [w \in AllWorkers |-> IdleWorker]
  /\ dispatcher = [d \in Dispatchers |-> IdleDispatcher]
  /\ faults = 0

\* The acceptance transaction commits (modules TrackingLedger, and later the
\* idempotency keys).
Accept(r) ==
  /\ r \notin accepted
  /\ accepted' = accepted \cup {r}
  /\ UNCHANGED <<processed, dispatched, recorded, queueVars, lockVars, worker,
                 dispatcher, faults>>

\* outboxRedisReconcileMs pass since dispatchedAt.
GrowStale(r) ==
  /\ dispatched[r] = "recent" /\ Pending(r)
  /\ dispatched' = [dispatched EXCEPT ![r] = "stale"]
  /\ UNCHANGED <<accepted, processed, recorded, queueVars, lockVars, worker,
                 dispatcher, faults>>

-----------------------------------------------------------------------------
(***************************************************************************)
(* dispatchPending: one run at a time in a process (the dispatching flag). *)
(* Fewer rows than the page of 100; their order does not matter then.      *)
(***************************************************************************)
\* Bug: a row once dispatched is never looked at again.
BugOnceOnly(r) == Pending(r) /\ dispatched[r] = "never"

\* Bug: the query forgets processedAt.
BugProcessedToo(r) == r \in accepted /\ dispatched[r] \in {"never", "stale"}

Due(r) == Pending(r) /\ dispatched[r] \in {"never", "stale"}

GoOn(d) ==
  dispatcher' = [dispatcher EXCEPT ![d].row = NoOne,
    ![d].pc = IF dispatcher[d].batch = {} THEN "idle" ELSE "next"]

Poll(d) ==
  /\ dispatcher[d].pc = "idle"
  /\ \E r \in Rows : Due(r)
  /\ dispatcher' = [dispatcher EXCEPT
       ![d] = [pc |-> "next", batch |-> {r \in Rows : Due(r)}, row |-> NoOne]]
  /\ UNCHANGED <<rowVars, queueVars, lockVars, worker, faults>>

\* Bug: a job counts as under way unless it has ended, even if there is none.
BugUnderWay(state) == state \notin {"completed", "failed"}

UnderWay(state) == state \in {"waiting", "active", "delayed"}

\* getJob and getState: what is done next follows from the state now read.
Inspect(d) ==
  /\ dispatcher[d].pc = "next"
  /\ \E r \in dispatcher[d].batch :
       LET state == job["main"][r].state IN
       dispatcher' = [dispatcher EXCEPT ![d] =
         [pc |-> IF UnderWay(state) THEN "refresh"
                 ELSE IF state = "none" THEN "add" ELSE "remove",
          batch |-> @.batch \ {r}, row |-> r]]
  /\ UNCHANGED <<rowVars, queueVars, lockVars, worker, faults>>

\* dispatchedAt of a row that is still pending; also after an add.
Stamp(d) ==
  /\ dispatcher[d].pc \in {"refresh", "stamp"}
  /\ dispatched' = IF Pending(dispatcher[d].row)
                     THEN [dispatched EXCEPT ![dispatcher[d].row] = "recent"]
                     ELSE dispatched
  /\ GoOn(d)
  /\ UNCHANGED <<accepted, processed, recorded, queueVars, lockVars, worker, faults>>

\* BullMQ refuses to remove an active job: the run ends there.
RemoveJob(d) ==
  /\ dispatcher[d].pc = "remove"
  /\ IF job["main"][dispatcher[d].row].state = "active"
       THEN /\ dispatcher' = [dispatcher EXCEPT ![d] = IdleDispatcher]
            /\ UNCHANGED job
       ELSE /\ dispatcher' = [dispatcher EXCEPT ![d].pc = "add"]
            /\ SetJob("main", dispatcher[d].row, JobIn("none"))
  /\ UNCHANGED <<rowVars, aged, handoffs, lockVars, worker, faults>>

\* The job id is the row's: BullMQ ignores an add when the job exists.
AddJob(d) ==
  LET r == dispatcher[d].row IN
  /\ dispatcher[d].pc = "add"
  /\ dispatcher' = [dispatcher EXCEPT ![d].pc = "stamp"]
  /\ IF job["main"][r].state = "none"
       THEN SetJob("main", r, JobIn("waiting")) /\ aged' = aged \ {r}
       ELSE UNCHANGED <<job, aged>>
  /\ UNCHANGED <<rowVars, handoffs, lockVars, worker, faults>>

\* A Redis or SQL error ends the run; so does the death of the process.
AbortDispatch(d) ==
  /\ dispatcher[d].pc # "idle"
  /\ dispatcher' = [dispatcher EXCEPT ![d] = IdleDispatcher]
  /\ Fault
  /\ UNCHANGED <<rowVars, queueVars, lockVars, worker>>

Dispatch(d) ==
  Poll(d) \/ Inspect(d) \/ Stamp(d) \/ RemoveJob(d) \/ AddJob(d)

-----------------------------------------------------------------------------
(***************************************************************************)
(* processJob, in slot w                                                   *)
(***************************************************************************)
To(w, pc) == worker' = [worker EXCEPT ![w].pc = pc]

\* BullMQ hands a waiting job to an idle slot; it stays active by that slot.
Take(w, r) ==
  /\ worker[w].pc = "idle" /\ job[QueueOf(w)][r].state = "waiting"
  /\ SetJob(QueueOf(w), r, HeldBy(w))
  /\ worker' = [worker EXCEPT ![w] = [pc |-> "read", row |-> r, ok |-> TRUE]]
  /\ robbed' = robbed \ {w}
  /\ UNCHANGED <<rowVars, aged, handoffs, lock, dispatcher, faults>>

\* A row already processed needs nothing more.
ReadRow(w) ==
  /\ worker[w].pc = "read"
  /\ To(w, IF Pending(RowOf(w)) THEN "lock" ELSE "settle")
  /\ UNCHANGED <<rowVars, queueVars, lockVars, dispatcher, faults>>

LockFree(s) == lock[s] = NoOne

\* SET NX PX; without the lock the job throws.
AcquireLock(w) ==
  /\ worker[w].pc = "lock"
  /\ IF LockFree(ShipmentFor(w))
       THEN /\ lock' = [lock EXCEPT ![ShipmentFor(w)] = w]
            /\ To(w, "commit")
       ELSE /\ worker' = [worker EXCEPT ![w].pc = "settle", ![w].ok = FALSE]
            /\ UNCHANGED lock
  /\ UNCHANGED <<rowVars, queueVars, robbed, dispatcher, faults>>

\* Bug: the claim does not look at processedAt.
BugClaims(r) == TRUE

Claims(r) == r \notin processed

\* The serializable transaction commits: the claim of a row that another run
\* has processed matches nothing.
Record(w) ==
  IF Claims(RowOf(w))
    THEN /\ processed' = processed \cup {RowOf(w)}
         /\ recorded' = [recorded EXCEPT ![RowOf(w)] = @ + 1]
    ELSE UNCHANGED <<processed, recorded>>

Commit(w) ==
  /\ worker[w].pc = "commit"
  /\ Record(w)
  /\ To(w, "release")
  /\ UNCHANGED <<accepted, dispatched, queueVars, lockVars, dispatcher, faults>>

\* Bug: DEL without comparing the token.
BugOwnsLock(w) == TRUE

OwnsLock(w) == lock[ShipmentFor(w)] = w

\* The finally block deletes the lock if it still holds this run's token.
DeleteLock(w) ==
  lock' = IF OwnsLock(w) THEN [lock EXCEPT ![ShipmentFor(w)] = NoOne] ELSE lock

Release(w) ==
  /\ worker[w].pc = "release"
  /\ DeleteLock(w)
  /\ To(w, "settle")
  /\ UNCHANGED <<rowVars, queueVars, robbed, dispatcher, faults>>

\* An await throws (CommitThrows: rolled back, or committed with the answer
\* lost).  The try block starts after the SET, so a failed read or SET skips
\* the finally block, and a failed DEL fails a job whose row is recorded.
ReadThrows(w) ==
  /\ worker[w].pc = "read"
  /\ UNCHANGED <<processed, recorded, lock>>

SetThrows(w) ==
  /\ worker[w].pc = "lock"
  /\ \/ UNCHANGED lock
     \/ LockFree(ShipmentFor(w)) /\ lock' = [lock EXCEPT ![ShipmentFor(w)] = w]
  /\ UNCHANGED <<processed, recorded>>

CommitThrows(w) ==
  /\ worker[w].pc = "commit"
  /\ Record(w) \/ UNCHANGED <<processed, recorded>>
  /\ UNCHANGED lock

DelThrows(w) ==
  /\ worker[w].pc = "release"
  /\ UNCHANGED lock \/ DeleteLock(w)
  /\ UNCHANGED <<processed, recorded>>

Throws(w) ==
  /\ ReadThrows(w) \/ SetThrows(w) \/ CommitThrows(w) \/ DelThrows(w)
  /\ worker' = [worker EXCEPT ![w].ok = FALSE,
       ![w].pc = IF @ = "commit" THEN "release" ELSE "settle"]
  /\ Fault
  /\ UNCHANGED <<accepted, dispatched, queueVars, robbed, dispatcher>>

\* handleFailure: hand an old enough job of the main queue over to the dead
\* letter queue.  The add itself is not awaited by the worker.
HandleFailure(q, r) ==
  handoffs' = IF q = "main" /\ r \in aged THEN handoffs \cup {r} ELSE handoffs

\* BullMQ moves the job on: completed, or delayed for a retry, or (the last
\* attempt) failed.  A slot whose job was taken away as stalled moves nothing.
Settle(w) ==
  LET q == QueueOf(w) r == RowOf(w) IN
  /\ worker[w].pc = "settle"
  /\ worker' = [worker EXCEPT ![w] = IdleWorker]
  /\ \/ /\ job[q][r] # HeldBy(w)
        /\ UNCHANGED <<job, handoffs, faults>>
     \/ /\ job[q][r] = HeldBy(w) /\ worker[w].ok
        /\ SetJob(q, r, JobIn("completed"))
        /\ UNCHANGED <<handoffs, faults>>
     \/ /\ job[q][r] = HeldBy(w) /\ ~worker[w].ok
        /\ \/ SetJob(q, r, JobIn("delayed")) /\ UNCHANGED faults
           \/ SetJob(q, r, JobIn("failed")) /\ Fault
        /\ HandleFailure(q, r)
  /\ UNCHANGED <<rowVars, aged, lockVars, dispatcher>>

\* deadQueue.add with the id dlq-<row>: ignored when that job exists.
Handoff(r) ==
  /\ r \in handoffs
  /\ handoffs' = handoffs \ {r}
  /\ IF job["dead"][r].state = "none"
       THEN SetJob("dead", r, JobIn("waiting"))
       ELSE UNCHANGED job
  /\ UNCHANGED <<rowVars, aged, lockVars, worker, dispatcher, faults>>

LoseHandoff(r) ==
  /\ r \in handoffs
  /\ handoffs' = handoffs \ {r}
  /\ Fault
  /\ UNCHANGED <<rowVars, job, aged, lockVars, worker, dispatcher>>

Process(w) ==
  ReadRow(w) \/ AcquireLock(w) \/ Commit(w) \/ Release(w) \/ Settle(w)

-----------------------------------------------------------------------------
(***************************************************************************)
(* BullMQ and Redis                                                        *)
(***************************************************************************)
\* The backoff of a failed attempt elapses.
Promote(q, r) ==
  /\ job[q][r].state = "delayed"
  /\ SetJob(q, r, JobIn("waiting"))
  /\ UNCHANGED <<rowVars, aged, handoffs, lockVars, worker, dispatcher, faults>>

\* retryWindowMs pass since the job was added.
AgeOut(r) ==
  /\ job["main"][r].state \in {"waiting", "active", "delayed"} /\ r \notin aged
  /\ aged' = aged \cup {r}
  /\ UNCHANGED <<rowVars, job, handoffs, lockVars, worker, dispatcher, faults>>

\* The main queue keeps only the last 1000 completed jobs.
Evict(r) ==
  /\ job["main"][r].state = "completed"
  /\ SetJob("main", r, JobIn("none"))
  /\ UNCHANGED <<rowVars, aged, handoffs, lockVars, worker, dispatcher, faults>>

Works(w, q, r) == worker[w].pc # "idle" /\ QueueOf(w) = q /\ RowOf(w) = r

\* A job whose slot is gone is found stalled and waits again, or fails when it
\* stalled too often.
Stall(q, r) ==
  /\ job[q][r].state = "active" /\ ~Works(job[q][r].by, q, r)
  /\ \/ SetJob(q, r, JobIn("waiting")) /\ UNCHANGED <<handoffs, faults>>
     \/ SetJob(q, r, JobIn("failed")) /\ HandleFailure(q, r) /\ Fault
  /\ UNCHANGED <<rowVars, aged, lockVars, worker, dispatcher>>

\* The same mistakenly, while its slot is only slow.
FalseStall(q, r) ==
  /\ job[q][r].state = "active" /\ Works(job[q][r].by, q, r)
  /\ SetJob(q, r, JobIn("waiting"))
  /\ Fault
  /\ UNCHANGED <<rowVars, aged, handoffs, lockVars, worker, dispatcher>>

\* The process of slot w dies and comes back idle.
CrashWorker(w) ==
  /\ worker[w].pc # "idle"
  /\ worker' = [worker EXCEPT ![w] = IdleWorker]
  /\ Fault
  /\ UNCHANGED <<rowVars, queueVars, lockVars, dispatcher>>

\* The run whose token is in the lock of s goes on.
Guards(w, s) ==
  worker[w].pc \in {"commit", "release"} /\ ShipmentFor(w) = s

\* The time to live of a lock nobody renews any more runs out.
ExpireLock(s) ==
  /\ lock[s] # NoOne /\ ~Guards(lock[s], s)
  /\ lock' = [lock EXCEPT ![s] = NoOne]
  /\ UNCHANGED <<rowVars, queueVars, robbed, worker, dispatcher, faults>>

\* It runs out under a run that could not renew it in time.
RobLock(s) ==
  /\ lock[s] # NoOne /\ Guards(lock[s], s)
  /\ robbed' = robbed \cup {lock[s]}
  /\ lock' = [lock EXCEPT ![s] = NoOne]
  /\ Fault
  /\ UNCHANGED <<rowVars, queueVars, worker, dispatcher>>

\* Redis comes back empty: jobs and locks are gone, the runs are not.
LoseRedis ==
  /\ job' = [q \in Queues |-> [r \in Rows |-> JobIn("none")]]
  /\ robbed' = robbed \cup ({lock[s] : s \in Shipments} \ {NoOne})
  /\ lock' = [s \in Shipments |-> NoOne]
  /\ Fault
  /\ UNCHANGED <<rowVars, aged, handoffs, worker, dispatcher>>

-----------------------------------------------------------------------------
Next ==
  \/ \E r \in Rows :
       \/ Accept(r) \/ GrowStale(r) \/ AgeOut(r) \/ Evict(r)
       \/ Handoff(r) \/ LoseHandoff(r)
       \/ \E q \in Queues : Promote(q, r) \/ Stall(q, r) \/ FalseStall(q, r)
       \/ \E w \in AllWorkers : Take(w, r)
  \/ \E d \in Dispatchers : Dispatch(d) \/ AbortDispatch(d)
  \/ \E w \in AllWorkers : Process(w) \/ Throws(w) \/ CrashWorker(w)
  \/ \E s \in Shipments : ExpireLock(s) \/ RobLock(s)
  \/ LoseRedis

Spec == Init /\ [][Next]_vars

(***************************************************************************)
(* Fairness.  The dispatcher's interval fires for ever; an await of a run  *)
(* that does not fail ends; timers (backoff, reconciliation, time to live, *)
(* BullMQ's stall check) elapse; and BullMQ's waiting list is first in,    *)
(* first out, so a job that keeps waiting is taken (strong fairness: a     *)
(* slot may be busy in between).                                           *)
(***************************************************************************)
Fairness ==
  /\ \A d \in Dispatchers : WF_vars(Dispatch(d))
  /\ \A w \in AllWorkers : WF_vars(Process(w))
  /\ \A r \in Rows : WF_vars(GrowStale(r))
  /\ \A r \in Rows, q \in Queues :
       /\ WF_vars(Promote(q, r)) /\ WF_vars(Stall(q, r))
       /\ SF_vars(\E w \in AllWorkers : QueueOf(w) = q /\ Take(w, r))
  /\ \A s \in Shipments : WF_vars(ExpireLock(s))

FairSpec == Spec /\ Fairness

-----------------------------------------------------------------------------
(***************************************************************************)
(* Properties                                                              *)
(***************************************************************************)

\* Jobs, runs and locks have their shapes; a job is held by a slot of its
\* queue exactly when it is active.
TypeOK ==
  /\ accepted \subseteq Rows /\ processed \subseteq accepted
  /\ dispatched \in [Rows -> {"never", "recent", "stale"}]
  /\ recorded \in [Rows -> Nat]
  /\ job \in [Queues -> [Rows -> Job]]
  /\ \A q \in Queues, r \in Rows :
       (job[q][r].state = "active") <=> (job[q][r].by # NoOne)
  /\ aged \subseteq Rows /\ handoffs \subseteq Rows
  /\ lock \in [Shipments -> AllWorkers \cup {NoOne}] /\ robbed \subseteq AllWorkers
  /\ worker \in [AllWorkers ->
       [pc : {"idle", "read", "lock", "commit", "release", "settle"},
        row : Rows \cup {NoOne}, ok : BOOLEAN]]
  /\ dispatcher \in [Dispatchers ->
       [pc : {"idle", "next", "refresh", "remove", "add", "stamp"},
        batch : SUBSET Rows, row : Rows \cup {NoOne}]]
  /\ faults \in 0 .. MaxFaults

\* Only its time to live takes the lock from a run: while a run that was not
\* robbed is between SET and DEL, the lock holds its token, so the serialized
\* sections of one shipment exclude each other.
OnlyExpiryTakesALock ==
  \A w \in AllWorkers :
    worker[w].pc \in {"commit", "release"} /\ w \notin robbed =>
      lock[ShipmentFor(w)] = w

Promise == INSTANCE ReliableDelivery WITH
  Rows <- Rows, accepted <- accepted, recorded <- recorded

\* Two runs of the same row (after a job taken for stalled, a job added again,
\* a lock that expired) record it once, and only rows that were accepted: the
\* protocol implements the safety part of what ReliableDelivery promises.
AtMostOnceDelivery == Promise!AtMostOnce

\* Without a fault nothing needs the reconciliation, the stall check or a time
\* to live: a row that was dispatched and not processed has its job on the way,
\* whatever several dispatchers that saw it unprocessed do to the job; a job is
\* in one slot; and no lock outlives its run, so a job that does not get it
\* competes with a run of the same shipment that goes on.
OnlyFaultsLoseWork ==
  faults = 0 =>
    /\ \A r \in Rows : Pending(r) /\ dispatched[r] # "never" =>
         job["main"][r].state \in {"waiting", "active", "delayed"}
    /\ \A u, w \in AllWorkers :
         /\ worker[u].pc # "idle" /\ worker[w].pc # "idle"
         /\ QueueOf(u) = QueueOf(w) /\ RowOf(u) = RowOf(w)
         => u = w
    /\ \A s \in Shipments : lock[s] # NoOne => Guards(lock[s], s)

\* The SQL row forgets no event: whatever became of its jobs (a crash between
\* the removal of a job and the new one, or between the add and its stamp, a
\* Redis that lost everything, exhausted attempts), reconciliation dispatches
\* it again until it is recorded.  This is the promise, liveness included.
ReliablyDelivered == Promise!Spec

\* Once a row is processed its jobs come to rest: no job is retried for ever.
QueuesDrain ==
  \A r \in Rows, q \in Queues :
    r \in processed ~>
      [](job[q][r].state \in {"none", "completed", "failed"})

-----------------------------------------------------------------------------
(***************************************************************************)
(* The inductive invariant (module OutboxDeliveryProofs)                   *)
(***************************************************************************)

\* Jobs, runs and handovers are those of accepted rows.
OnlyAcceptedRows ==
  /\ \A q \in Queues, r \in Rows : job[q][r].state # "none" => r \in accepted
  /\ handoffs \subseteq accepted
  /\ \A w \in AllWorkers : worker[w].pc # "idle" => RowOf(w) \in accepted
  /\ \A d \in Dispatchers :
       /\ dispatcher[d].batch \subseteq accepted
       /\ dispatcher[d].pc \in {"refresh", "remove", "add", "stamp"} =>
            dispatcher[d].row \in accepted

\* The history has an event of a row when, and only when, it is processed.
RecordedIffProcessed ==
  \A r \in Rows : recorded[r] = IF r \in processed THEN 1 ELSE 0

\* Without faults: slots and active jobs hold each other, locks are held by
\* guarding runs, and a job ends (or a dispatcher removes it, or takes it for
\* under way) only when its row is processed.
CaredFor(r) ==
  r \in processed \/ job["main"][r].state \in {"waiting", "active", "delayed"}

FaultFree ==
  faults = 0 =>
    /\ \A w \in AllWorkers : worker[w].pc # "idle" =>
         job[QueueOf(w)][RowOf(w)] = HeldBy(w)
    /\ \A q \in Queues, r \in Rows : job[q][r].state = "active" =>
         Works(job[q][r].by, q, r)
    /\ robbed = {} /\ \A s \in Shipments : lock[s] # NoOne => Guards(lock[s], s)
    /\ \A r \in Rows :
         /\ job["main"][r].state \in {"completed", "failed"} => r \in processed
         /\ dispatched[r] # "never" => CaredFor(r)
    /\ \A w \in AllWorkers :
         (\/ worker[w].pc = "release"
          \/ worker[w].pc = "settle" /\ worker[w].ok)
         => RowOf(w) \in processed
    /\ \A d \in Dispatchers :
         /\ dispatcher[d].pc = "remove" => dispatcher[d].row \in processed
         /\ dispatcher[d].pc \in {"refresh", "stamp"} => CaredFor(dispatcher[d].row)

DeliveryInv ==
  /\ TypeOK
  /\ OnlyAcceptedRows
  /\ RecordedIffProcessed
  /\ OnlyExpiryTakesALock
  /\ FaultFree
=============================================================================
