# A TLA+ verification project for shipment-tracking-service

The service keeps shipments, their status and their history in SQL Server and
accepts tracking updates over HTTP. An accepted update is a row of a durable
outbox; dispatchers publish the rows as BullMQ jobs in Redis; workers process the
jobs and write the history. This directory holds TLA+ models of that protocol,
the TLC configurations that check them, and TLAPS proofs of their main
properties. Paths below are relative to the repository.

    tlc -workers 2 -config LedgerHistory.cfg MCTrackingLedger   # a run
    tlapm TrackingLedgerProofs.tla                              # the proofs

## 1. Inventory

| Component | State | Operations | What makes it correct |
|---|---|---|---|
| Status machine, `src/domain/shipments/shipment.entity.ts` | none | `canTransition`, `assertTransition`, `assertDeliverable` | one direction only; DELIVERED is terminal |
| Shipment ledger, `prisma-shipment-repository.adapter.ts` and the transaction of `tracking-outbox-worker.service.ts` | `shipments`, `shipment_events`, `tracking_outbox` | create with CREATED event, accept STATUS or LOCATION, process a row, optimistic delivery, manual event, delete | a row is recorded once; the status never goes back; history and status agree |
| Write use cases, `src/application/shipments/use-cases` | what a request read before its transaction | load, validate, call the repository, retry | no decision of a stale read reaches the tables |
| Idempotent acceptance, `acceptTrackingUpdateAttempt` | `tracking_idempotency_keys` | find or replace the key, insert row and key, look up after P2002/P2034, retry; hourly cleanup | one occurrence per unexpired key, true answers |
| Dispatcher, `dispatchPending` | `dispatchedAt`, a `dispatching` flag per process | query, inspect the job, remove, add, stamp | every pending row has a job sooner or later |
| Worker, `processJob`, `handleFailure` | Redis lock `tracking:shipment:<id>` | read the row, lock, renew, transaction, release, hand over to the dead letter queue | mutual exclusion per shipment, at most one effect, no lost row |
| BullMQ and Redis (external) | jobs, locks | deliver, retry, stall, evict | as the service uses them |
| Geocoder, `tracking-geocoder.ts` | circuit state, failure counter, half-open token, rate window in Redis | geocode, record failure, reset, wait for a slot | one probe at a time, bounded rate, the circuit closes again |
| Shipment registration, `create-shipment.use-case.ts`, `cancel-shipment.use-case.ts` | `shipments`, `shipment_events` | register, cancel | one shipment per code; its handler is an operator of its customer; nobody removes what is not theirs |
| Users and profiles, `user.entity.ts`, `src/application/users` | `users` | create, update, update profile, deactivate | operators and customers belong to a customer, administrators to none; emails are unique; only administrators change access |
| Login and guards, `login.use-case.ts`, `jwt-token.service.ts`, `auth.guard.ts`, `roles.guard.ts` | tokens held by clients | login, authenticate, authorise | a token says what an active user was |
| Customers, `customer.entity.ts`, `src/application/customers` | `customers` | create, update, remove | emails are unique; nothing refers to a removed customer; no update is lost |
| Listing and history queries | none | pages, totals, filters, latest locations | total order; page and total agree; nothing outside the scope of the token |
| Controllers, DTOs, presenters, error filter | none | routes, roles, answers of errors, validation, layout | an error of the domain is answered as such |
| Configuration, observability, health, schema maintenance, scripts | start-up values, metrics, partitions | | |

Interactions. Controllers call use cases, which load a shipment in one query and
call the repository in a later one; `retryOptimisticUpdate` repeats that pair up
to three times. Acceptance writes an outbox row, which is all the API and the
dispatcher share. The dispatcher and the worker share the jobs in Redis and the
row (`dispatchedAt`, `processedAt`). The worker and the API share the shipment
and its history: STATUS and LOCATION rows arrive there asynchronously, deliveries,
manual events and removals synchronously. Every request passes two guards, which
read the token and no table; shipments point to a customer and to the user in
charge, users to a customer, and the database alone watches these references.

The hard behaviours, in order of weight:

1. Jobs of one shipment run in any order, while client dates (`occurredAt`) and
   synchronous writes decide which of them is the latest.
2. Decisions taken on what was read earlier: transitions validated against
   rows still pending, a delivery's snapshot, its location, a key looked up
   outside its transaction.
3. Faults anywhere between the awaits of dispatcher and worker: crashes, stalls
   mistaken for crashes, expired locks, commits whose answer is lost, an empty
   Redis, exhausted attempts.
4. Deadlock victims and repeated requests with one Idempotency-Key.
5. The geocoder's counters and tokens, which are several Redis commands each.
6. Read-then-write rules of users, customers and shipment codes; tokens signed from
   rows that have changed since.
7. Lists read by several queries while others write.

`PROJECT.json` lists each hazard with its line and the properties that watch it.

## 2. Plan

Modules of the core, written and described below:

| Module | Models | Uses |
|---|---|---|
| `ShipmentStatus` | the status machine | |
| `TrackingLedger` | the SQL side of one shipment | `ShipmentStatus`; implements the safety of `ReliableDelivery` |
| `TrackingLedgerProofs` | theorems of `TrackingLedger` | |
| `ReliableDelivery` | abstract: every accepted row is recorded once | |
| `AtomicAcceptance` | abstract: an acceptance with a key takes effect at one instant | |
| `OutboxDelivery` | dispatcher, worker, queues, lock | implements `ReliableDelivery` |
| `OutboxDeliveryProofs` | theorems of `OutboxDelivery`, the refinement among them | |
| `IdempotentAcceptance` | acceptance with an Idempotency-Key | implements `AtomicAcceptance` |
| `IdempotentAcceptanceProofs` | theorems of `IdempotentAcceptance` | |
| `GeocodeSlots` | the geocoder's rate limit over Redis | |
| `GeocodeSlotsProofs` | theorems of `GeocodeSlots` | |
| `GeocoderCircuit` | the circuit breaker of the geocoder, four keys in Redis | |
| `GeocoderCircuitProofs` | theorems of `GeocoderCircuit` | |
| `ApiRequests` | requests, guards, routes, answers of errors | |
| `UserDirectory` | users, customers, login and tokens | `ApiRequests` |
| `ListQueries` | order, filters, pages and totals of the lists | |
| `ShipmentRegistry` | registration, removal, manual events and reads of shipments | composes `UserDirectory` and `ListQueries` |
| `ShipmentRegistryProofs` | theorems of `ShipmentRegistry` and of the lists | |
| `MCTrackingLedger`, `MCOutboxDelivery`, `MCIdempotentAcceptance`, `MCGeocodeSlots`, `MCGeocoderCircuit`, `MCShipmentRegistry` | finite instances | |

To come, in this order:

1. The page of 100 rows of the dispatcher, with rows that can never be processed.
2. A variant of the ledger with one clock per process, for the order of
   `createdAt`.
3. A composition of ledger and delivery in which the transaction of a job is the
   ledger's.

## 3. The modules

### ShipmentStatus

The transition table, `canTransition` and the guard of the delivery. `Rank` is
the position in the flow, used by properties.

### TrackingLedger

One shipment: its row, its history, the outbox rows of it, and the requests in
flight. A SQL transaction is one step. The acceptance and the worker run under
SERIALIZABLE; the optimistic delivery holds the exclusive lock of its
conditional `updateMany` until it commits, so the event it then inserts is in the
same step. What is NOT atomic in the code is separate here:

| Action | Code |
|---|---|
| `Create` | `createWithEvent`, the row and its CREATED event |
| `Load` | `loadScopedShipment` at the start of every use case, with the snapshot it keeps |
| `AcceptStatus`, `AcceptLocation` | `acceptTrackingUpdateAttempt`; STATUS validates against the newest pending row |
| `Fail` | a rejection, an error or a dead process before the transaction commits |
| `ProcessRow` | the transaction of `processJob`: claim, `isLatest`, `assertTransition`, event, shipment |
| `ReadLatestLocation` | the read of a delivery without a location |
| `AttemptDelivery` | `updateStatusOnce` and `retryOptimisticUpdate`: match, or conflict with 404, 409, 422 or another attempt |
| `AddManualEvent`, `Cancel` | `POST /historico`, `DELETE /tracking/{cargoCode}` |
| `Tick` | time |

Events and outbox rows are sequences: the position stands for the id and for
`createdAt`. An event also says which row caused it and whether it moved the
shipment; these are observations. A delivery reads the clock twice in the code,
before its transaction (`deliveredAt`) and in it (the event), and does so here.
Coordinates, text and notes of a place are one model value. A row whose
transaction throws simply is not recorded: the action is disabled and the job
is retried elsewhere (`OutboxDelivery`).

### OutboxDelivery and ReliableDelivery

`OutboxDelivery` is the worker service await by await. The dispatcher: `Poll`
(the query of due rows), `Inspect` (`getJob`, `getState`), `RemoveJob`, `AddJob`,
`Stamp`; `AbortDispatch` is an await that throws or a process that dies. The
worker in slot `w`: `Take` (BullMQ), `ReadRow`, `AcquireLock` (SET NX PX),
`Commit` (the transaction), `Release` (compare and delete), `Settle` (BullMQ's
move of the job and `handleFailure`); `Throws` is an await that fails, with a
commit or DEL that took effect or not. The environment: `Promote` (backoff),
`AgeOut` (the retry window), `Evict` (`removeOnComplete`), `Stall`, `FalseStall`,
`CrashWorker`, `ExpireLock`, `RobLock` (expiry under a live run), `LoseRedis`,
`Handoff` and `LoseHandoff` (the add to the dead letter queue, which nobody
awaits). The lock's random token is the slot of the run: a token is new for every
run, and a run that lost its lock cannot meet its own slot's token again before
it ends, because the slot starts its next run only then. A slot that crashed
holding a lock and starts a new run could meet its old token; it then only
deletes a lock that no live run holds.

`ReliableDelivery` is what the plan of ADR-0004 promises: rows are accepted, and
each accepted row is recorded once. `OutboxDelivery!Promise` is its instance
under the identity mapping of `accepted` and `recorded`.

The transaction is abstracted to "records the row". That a row may be one the
ledger refuses for ever is `TrackingLedger`'s subject (run `LedgerPoisoned`).

### IdempotentAcceptance and AtomicAcceptance

`PUT .../localizacao` with an Idempotency-Key, the only operation that uses one.
`Find` is the look-up at the start of the serializable transaction, `Write` the
replacement of an expired key, the two inserts and the commit, `Abort` a P2034,
`Catch` the look-up outside the transaction and the retry, `Lose` an answer that
does not arrive (the commit may have). `Expire` and `Cleanup` are five years and
the hourly `deleteMany`. A transaction in `write` holds the shared range lock of
its read; two of them are the deadlock SQL Server resolves with a victim.

Under these locks the unique index never refuses an insert, so the branch for
P2002 is not reached (`WhatWasFoundHolds` says so): it is a second line of
defence. Without the locks (the mutant `BugHoldsLock`) it is reached.

`AtomicAcceptance` is what a client may count on: between arrival and answer a request
takes effect at one instant, as a new row when no row of its key is in force, as a
repetition of the row the key names, or not at all. It does not promise that a repetition
is only answered from a key in force, which the code does not keep (run
`AcceptanceExpiry`), nor that a lost answer had no effect. Its instance is
`IdempotentAcceptance!Atomic`, the property `AcceptsAtomically`.

### GeocodeSlots

`waitForGeocodeSlot`: every geocoding request of every process asks a script in
Redis for one of `Limit` slots a `Window`. `Ask` and `WakeUp` read the clock of the
process (`Skew` ahead of Redis's) and send the script; `Evaluate` is the script and
what its caller does with the answer: `Enter` (room, `ZADD`, `PEXPIRE`, 0) or `Wait`
(how long the oldest entry still counts; the caller sleeps, or goes on when that
is not positive). `Tick` lets time pass, but no script is under way for longer than
`MaxDelay`. `passes` is an observation: when the script let each request through,
whether or not its caller lives to send it. What the provider sees is later than
that by the caller's own delays, which nothing in the code bounds.

### GeocoderCircuit

`geocode` and `recordFailure`, one Redis command a step. `Ask` is a call whose
address is not in the cache; `ReadCircuit`, `ReadEverOpened` and `TakeToken` decide
whether it may go on and whether as the half-open probe; `Fetch` is its slot, the
request and the answer; `ResetCircuit` deletes the four keys, `FillCache` ends a
call that got coordinates. `Count`, `Expire`, `Open`, `Remember`, `Clear` and `Free`
are the commands of `recordFailure`, in its order. `Throws` is a command that fails,
with or without effect: `geocode` counts that as a failure of the provider, and
`recordFailure` stops there. `CoolDown`, `Forget` and `TokenExpires` are the times to
live; they end at any moment, which stands for every length. The token's random
value is the call that set it (the code never compares it), and `lost` is an
observation: the probes whose token went away under them.

A rejection by the open circuit goes through the same `catch` and is counted too, and
so is one by the token; with enough of them the cooldown starts again without a
request to the provider. A refused address (400) ends a probe without freeing
the token, which then runs out.

### ApiRequests, UserDirectory, ListQueries, ShipmentRegistry

The HTTP API apart from the tracking updates. Each request is a process: `pc` names
its route, then the step of its handler, and at last the code of its answer (`OK` or
the code of the error, which `StatusOf` turns into the HTTP status as the filter
does). A step ends at the await of a database call, of the password hasher or of
the geocoder; `arg`, `body` and `seen` are the local variables that live on. Between
two steps of a request all others may run. `ApiRequests` has the arrival and the
guards, and the vocabulary of steps (`Take` an input and read, `Proceed`, `Commit` a
write); `traffic` is what else the instance lets arrive.

| Action | Code |
|---|---|
| `CreateUser`, `InsertUser` | `CreateUserUseCase`: validation, email look-up; hash and insert |
| `UpdateUser`, `UpdateProfile`, `DeleteUser`, `CheckUserEmail`, `WriteUser` | the read with `validateUserUpdate`; `findByEmail` when the email changes; the write of the fields sent (`active: false` for a deletion) |
| `Login`, `ComparePassword` | `LoginUseCase`: the row, then bcrypt and the signature |
| `CreateCustomer`, `InsertCustomer`, `UpdateCustomer`, `CheckCustomerEmail`, `WriteCustomer`, `DeleteCustomer`, `RemoveCustomer` | the customer use cases; an update writes all the fields, `Merged` |
| `CreateShipment`, `ReadHandler`, `ReadCode`, `Geocode`, `InsertShipment` | `CreateShipmentUseCase` with `resolveOwnership`, await by await |
| `CancelShipment`, `RemoveShipment` | loaded by code and scope, removed by code, the history with it |
| `AddEvent`, `InsertEvent` | `POST /historico` |
| `GetShipment`, `ReadLocation` | one shipment and its latest location |
| `ListShipments`, `ShipmentHistory`, `AllHistory`, `ReadPage`, `ReadTotal`, `ReadLocations` | the lists: page and total are two queries of one `Promise.all`, answered in any order |

A write takes effect when the database accepts it: unique emails and codes and the
foreign keys are guards of the write (`EmailTaken`, `LinkDangles`, `InsertErrors`,
`Referenced`), and what the adapter makes of a refusal is the answer, an
`INTERNAL_ERROR` where it translates nothing. All ids come from one counter, and an id
is never given twice; a code is, after a removal.

`ListQueries` gives a list as a function from the ids of the matching rows to their
sort keys. `Rank` counts the rows before one; a page is the set of rows whose rank
is in its window. So lists need no sorting, and their properties can be proved.

Four variables observe. `held` collects the principals (user, role, customer) that
active users ever were; `owner` the customer of every shipment there ever was;
`shown` the shipments a request has read out; `disturbed` the requests during
which another one has written. No action's guard reads them.

What the data leaves out: a user has no name and no password, a customer one
field `contact` for name, phone and address, a shipment the departure as its only
date and sort field, and no status (that is `TrackingLedger`'s); filters by status
are equalities like the others. Tokens do not expire, which lets a token be used
at any later time. Only an id that exists or never will is asked for.

## 4. The runs

| Run | Question | Distinct states |
|---|---|---|
| `LedgerHistory` | `ExactlyOnce`, `LatestEventShowsStatus`, `MovesTellTheStatus`, `RecordsAtMostOnce`. One shipment from registration to removal, with client dates in the past and the future: STATUS and LOCATION rows processed in any order between an administrator's entries of any status and date and a removal. The history tells the status and every row is recorded at most once, as ReliableDelivery asks; manual entries change which STATUS rows are the latest, never the sequence of statuses. | 438765 |
| `LedgerDeliveries` | `LedgerInv`, `ConflictMeansDelivered`, `OnlyDisturbedRowsStall`, `StatusNeverRegresses`. Two API processes deliver, cancel and accept updates concurrently with the worker: stale snapshots, optimistic retries up to the third attempt and its 409, deliveries with and without a location among STATUS and LOCATION rows. The inductive invariant holds, and a STATUS row is stuck only behind a delivery or a retroactive STATUS. | 233751 |
| `LedgerOrderly` | `PendingStatusesAscend`, `EveryAcceptedRowIsRecorded`. With STATUS updates alone, dated by the server and sent one at a time, every accepted row is eventually recorded whatever order the worker takes the rows in: the pending rows climb the flow and the lowest is always processable. | 4350 |
| `LedgerPoisoned` | Violation of `EveryAcceptedRowIsRecorded`: After a STATUS row was overtaken by a LOCATION event, the next accepted STATUS row asks for a transition the shipment can never make: its transaction throws on every retry and the row is not recorded. | - |
| `LedgerStaleLocation` | Violation of `DeliveryKeepsLatestLocation`: A delivery without a location reads the latest location before its transaction; a location recorded in between is overwritten at the head of the history by the older one. | - |
| `DeliveryRaces` | `DeliveryInv`, `OnlyExpiryTakesALock`, `OnlyFaultsLoseWork`, `AtMostOnceDelivery`. One row, two worker slots, the dead letter worker and two dispatchers, with two faults anywhere (crashes, false stalls, expired locks, failed awaits, a lost Redis): the inductive invariant holds, the row is recorded at most once, no run loses its lock but by expiry, and until the first fault no row is without a job that will process it. | 562562 |
| `DeliveryLiveness` | `ReliablyDelivered`, `QueuesDrain`. Under fair dispatchers, workers and timers the protocol implements ReliableDelivery, liveness included, with two faults: an accepted row is recorded, exactly once, and its jobs come to rest. | 27105 |
| `AcceptanceRaces` | `AcceptanceInv`, `OneOccurrencePerKey`, `AnswersAreTrue`, `WhatWasFoundHolds`, `EveryRequestIsAnswered`, `AcceptsAtomically`. Two handlers serve requests with one Idempotency-Key and two contents that race, deadlock, lose their answers and are repeated while the key expires and is cleaned up: one occurrence per unexpired key, no false answer, an answer to every request, and all of it as if each request took effect at one instant (AtomicAcceptance). | 103549 |
| `GeocodeSlots` | `SlotsInv`, `RateHolds`, `WaitsAreNeeded`. Two processes, one with a clock ahead and scripts that may be late, share the geocoder's rate limit: of three requests let through in a row the last is a window after the first, up to delay and skew, and nobody sleeps longer than that takes. | 280174 |
| `GeocoderCircuit` | `CircuitInv`, `OpenIsRemembered`, `FailuresExpire`, `ThresholdOpens`, `ProbesHaveTheToken`. Three calls of any processes read and write the keys of the circuit breaker one command at a time, with one failed command or crash and times to live that end whenever they like: an open circuit leads to a probe, failures are forgotten, a reached threshold is acted on, and a probe has the token unless it was taken from it. | 440116 |
| `ShipmentRegistry` | `RegistryInv`, `TokensWereTrue`, `HandlersOperate`, `AnswersStayInScope`, `ListsAreWhole`, `QuietListsAreExact`, `OnlyStaleUpdatesBreakTheLink`, `FieldsChangeAsAsked`, `InternalErrorsAreRaces`, `CancelRemovesWhatItLoaded`. Up to three requests of any users, in fourteen mixes, interleave between their database calls: users, profiles, customers, logins, registrations, removals, manual events and paginated reads. References, unique emails and codes, tenant scope, tokens and handlers hold; lists are exact unless disturbed; broken role links, lost updates and internal errors come from races alone. | 266432 |
| `AcceptanceExpiry` | Violation of `AnswersRestOnValidKeys`: A deadlock victim looks the key up outside the transaction without comparing expiresAt, and answers duplicate or conflict from an expired key. | - |

Runs that end in a violation check a sentence of the documentation that the code
does not keep; section 7 tells their counterexamples.

Bounds, and why they are enough.

- `LedgerHistory`: two dates give a date before, at and after that of most events,
  with ties; two rows, one request in flight and three history entries before a
  manual one give every pair of writers in both orders. `LedgerDeliveries` has
  two handlers, since the third attempt of a delivery fails only when somebody
  else delivers; two rows move the shipment twice before that. `LedgerOrderly`
  has three rows because the flow has three transitions. The invariants are
  proved for all bounds: the runs find errors cheaply and let the mutants be seen.
- `DeliveryRaces`: one row is enough for runs of the same row, and so of the same
  shipment, to meet (two slots and the dead letter slot); two dispatchers and two
  faults let a fault strike the recovery from another.
- `AcceptanceRaces`: two handlers deadlock, and either repeats its request or comes
  with another content; two rows suffice for a second occurrence, and for a key
  that expires and is used again.
- `GeocodeSlots`: a window of three ticks is longer than the tolerance of two (a tick
  of delay, a tick of skew), so `RateHolds` says something; seven ticks let a third
  request enter after the window of the first.
- `GeocoderCircuit`: a threshold of two and three calls let one call count, another
  clear and a third begin anew; a probe, the call that takes its token after the
  time to live and a late success are three. `FailuresExpire`, `ThresholdOpens` and
  `OpenIsRemembered` speak of the time before the first fault: a call that dies
  between two commands does leave a counter without time to live, or an open
  circuit nobody remembers, as section 7 says.
- `ShipmentRegistry`: the properties relate a request to one or two others (the one
  that changes the row it has read, the one that takes the code it will remove), so
  three requests are called together. All routes three at a time would be too many:
  `MCMixes` lists the combinations whose tables meet, each with every interleaving,
  every token and every input of the small sets. Three customers, of which one has
  neither users nor shipments and can be removed; an administrator, two operators
  of different customers, and an operator without a customer, a row that two updates
  can leave behind (`OnlyStaleUpdatesBreakTheLink` tells how) and that the scope
  rules must refuse. The shipments and events tie in their dates, so the tie-break
  decides; pages of one and two rows make several pages of three rows.
- `CHECK_DEADLOCK FALSE`: the server may stand idle, and a bound may be reached.

Symmetry is used in safety runs only, over handlers, slots and contents that the
modules treat alike.

## 5. Fairness

- `TrackingLedger!FairSpec`: weak fairness of each `ProcessRow(n)`. A job is
  retried and its row dispatched again until it is recorded; that is what
  `OutboxDelivery` shows under its own fairness. A row whose transaction throws
  is disabled and not helped by it.
- `OutboxDelivery!FairSpec`: weak fairness of the dispatcher's next await (its
  interval fires for ever), of a worker's next await, of timers (backoff,
  reconciliation interval, stall check, time to live). Strong fairness only of
  handing a waiting job to a slot of its queue: slots are busy in between, and
  BullMQ's waiting list is first in, first out, with at most one job per row.
  No fairness is assumed of acceptance, of faults or of the retry window; faults
  are bounded (`MaxFaults`), since no protocol delivers under faults without end.
- `IdempotentAcceptance!FairSpec`: weak fairness of the steps of one handler
  together. A transaction that waits for a lock gets it or is made the victim.

## 6. The proofs

`TrackingLedgerProofs` (1640 obligations), `OutboxDeliveryProofs` (1120),
`IdempotentAcceptanceProofs` (817), `GeocodeSlotsProofs` (542),
`GeocoderCircuitProofs` (548) and `ShipmentRegistryProofs` (2441) prove, for all
values of the constants that satisfy the assumption of each module (`LedgerAssumption`, `DeliveryAssumption`,
`AcceptanceAssumption`, `SlotsAssumption`, `CircuitAssumption`, and
`MixesAssumption`, `DirectoryAssumption`, `RegistryAssumption`):

- `InvariantHolds` (`LedgerInv`): the inductive invariant of the ledger holds in every reachable state, for any number of requests, places, rows and dates.
- `TypeCorrect`: the state of the ledger is well formed in every reachable state.
- `OutboxExactlyOnce` (`ExactlyOnce`): an accepted row is in the history exactly once when processed and not before.
- `HistoryTellsTheStatus` (`MovesTellTheStatus`): the moving events tell the current status and deliveredAt; no status is entered twice.
- `LatestEventAgrees` (`LatestEventShowsStatus`): without manual entries and future dates the latest event in canonical order carries the current status.
- `PendingAscend` (`PendingStatusesAscend`): pending STATUS rows climb the flow in acceptance order.
- `NoRowStalls` (`OnlyDisturbedRowsStall`): unless a delivery or a retroactive STATUS came before it, the STATUS next in line can be processed; in an orderly outbox it moves the shipment.
- `OneSenderNeverStalls`: with STATUS updates sent one at a time and dated by the server (and cancellations), for any number of rows, the outbox is orderly and the pending STATUS accepted first can be processed and moves the shipment.
- `LedgerImplementsAtMostOnce` (`RecordsAtMostOnce`): the transactions on outbox and history implement the safety part of ReliableDelivery: an accepted row gets at most one event, and no other row gets any.
- `ThreeAttemptsAreEnough` (`ConflictMeansDelivered`): a delivery answers 409 only when the shipment has been delivered or removed.
- `StatusAdvances` (`StatusNeverRegresses`): no step takes the status back or touches the row of a delivered shipment.
- `DeliveryInvariant` (`DeliveryInv`): the inductive invariant of dispatchers, workers, queues and locks holds in every reachable state, for any number of rows, shipments, slots, processes and faults.
- `LocksExclude` (`OnlyExpiryTakesALock`): a run between SET and DEL that did not lose its lock to the time to live still holds it.
- `OneRunPerShipment`: two runs of one shipment are both between SET and DEL only after a lock expired under one of them.
- `ImplementsAtMostOnce` (`AtMostOnceDelivery`): the protocol implements the safety part of ReliableDelivery: accepted rows are recorded at most once, whatever fails.
- `WorkIsLostByFaultsAlone` (`OnlyFaultsLoseWork`): until the first fault a dispatched row is processed or has its job on the way, no job is in two slots, and every lock guards a run that goes on.
- `AcceptanceInvariant` (`AcceptanceInv`): the inductive invariant of the idempotent acceptance holds in every reachable state.
- `AcceptanceTypes`: rows, keys and requests keep their shapes and keys name existing rows.
- `KeysAreIdempotent` (`OneOccurrencePerKey`): of the rows accepted under one key at most one has an unexpired key, for any number of requests, keys and repetitions.
- `AnswersTellTheTruth` (`AnswersAreTrue`): an answer names a row of its key and content, and no two requests are told the same row is new.
- `ReadsAreStable` (`WhatWasFoundHolds`): what a transaction read of its key still holds when it writes.
- `AcceptanceIsAtomic` (`AcceptsAtomically`): the transaction, its retries and the look at the key after an abort implement AtomicAcceptance: one atomic step per request.
- `RetriesAreBounded`: every step of a request, a deadlock victim's included, lowers a bound of twelve on the steps to its answer, and nobody else's step raises it.
- `SlotsInvariant` (`SlotsInv`): the entries in Redis tell the passes of the last window, in every reachable state, for any number of processes, limit, window, delay and skew.
- `RateIsKept` (`RateHolds`): the rate limit holds over all processes together, up to the delay of scripts and the skew of clocks.
- `CircuitInvariant` (`CircuitInv`): the keys of the circuit breaker and the calls between their commands satisfy the invariant in every reachable state, for any number of calls, any threshold and any number of faults.
- `OpenCircuitIsRemembered` (`OpenIsRemembered`): without faults an open circuit is remembered, or about to be, so the way back leads through a probe.
- `FailureCountsExpire` (`FailuresExpire`): without faults a failure counter has a time to live or is about to get one.
- `ThresholdIsActedOn` (`ThresholdOpens`): without faults a counter at the threshold has a call that is opening the circuit and will clear it.
- `ProbesKeepTheToken` (`ProbesHaveTheToken`): a probe holds the token unless its time to live, a success or a probe that had lost it took it away, faults included.
- `RegistryInvariant` (`RegistryInv`): types, references, unique emails and cargo codes, and what each request in flight rests on, hold in every reachable state, for any users, customers, shipments and number of requests.
- `TokensTheorem` (`TokensWereTrue`): a token says what an active row of its user said at one moment.
- `HandlersTheorem` (`HandlersOperate`): every shipment is in the hands of somebody who was an active operator of its customer.
- `ScopeTheorem` (`AnswersStayInScope`): no read shows an operator or a customer a shipment, or an event of one, of another customer.
- `ListsTheorem` (`ListsAreWhole`): the pages of every list partition it in order, and lists and single shipments are shown with the same location.
- `ListIsPaged`: reading any finite list page by page, for any sort keys, order and limit, shows every row once, in order, on full pages.
- `PagingMissesNothing`: who reads a list page by page while rows only come misses none that was there from the start, whatever each page was read of; for any sort keys, order and limit.
- `HistoryTheorem`: only the removal of a shipment takes an event out of a history, or moves one, so PagingMissesNothing applies to histories.
- `QuietListsTheorem` (`QuietListsAreExact`): the page and the total of a list nobody wrote into while it was read are those of one state.
- `LinkTheorem` (`OnlyStaleUpdatesBreakTheLink`): role and customer of a user come apart only by an update validated against a row that has changed since.
- `FieldsTheorem` (`FieldsChangeAsAsked`): a field changes because a request sends it (an administrator's, for role, customer and active); only disturbed customer updates set others back.
- `ErrorsTheorem` (`InternalErrorsAreRaces`): a request that no write disturbed gets no 500, but for the removal of a referenced customer.
- `CancelTheorem` (`CancelRemovesWhatItLoaded`): a cancellation removes the shipment it loaded in its scope, or one registered under its code after that one was removed.
- `NoNeedlessWaits` (`WaitsAreNeeded`): a call sleeps only when Limit requests passed in the last window, and no longer than the oldest of them stays in it.

Ledger. The invariants are not inductive one by one. `LedgerInv` conjoins them
with four strengthenings:

- `Bookkeeping`: before registration there is neither a row nor a request; an
  event names an accepted row, whose date it has, or none, and was written in the
  past. Without it a new event could be the second one of a row not yet accepted.
- `DeliverySnapshots`: a delivery in flight has read a deliverable status that is
  not ahead of the shipment, and the row's present `updatedAt` if the status is
  still the same; attempt k has climbed to rank k-1. This is why a match of the
  conditional update is a match of the row, and why the fourth attempt is not
  needed: CREATED, IN_TRANSIT and TRANSFERRED are the only deliverable statuses,
  and every conflict climbs one.
- `PendingRowsChain`: as long as nothing disturbed the outbox (no delivery, no
  retroactive STATUS), each pending STATUS asks for a transition that is allowed
  from the one before it, the first from the shipment's status. The acceptance
  extends the chain at its end, and a row that moves the shipment takes its
  head off. Ascending alone is not enough: a gap would be a row that is stuck.
- `OrderlyProgress`: when all rows are STATUS rows dated in acceptance order and
  nothing else is dated later, they are processed in that order, and nothing
  disturbs them. A row is then never older than the latest event, which is the
  row before it: this needs the date in `Bookkeeping`.

`NoRowStalls` reads off these two that the next row in line can be processed, and says
what disturbs a row. `OneSenderNeverStalls` shows, with an invariant of its own
(`SenderInv`: the clock that the request in flight has read is behind no row and not
ahead of the time), that the conditions of the run `LedgerOrderly` make an orderly
outbox, for any number of rows and any clock. The row next in line stays next in line
until it is processed, since rows are accepted at the end. This is the
safety half of `EveryAcceptedRowIsRecorded`; the other half is fairness.

That status changes always change `status` makes the conditional update right
even when two writes share the same `updatedAt`, which the model allows (the
clock need not tick between writes). The proof goes action by action: lemmas
`...Type` for `TypeOK`; `Quiet`, `ProcessRowEffect`, `DeliveryEffect` and
`ManualEffect` reduce every action to what it does to the history; `Once...`,
`Moves...`, `Latest...`, `Pending...`, `Snapshots...` and `Conflict...` prove one
conjunct each from those effects; `NextInv` puts them together. The action property
`StatusNeverRegresses` follows from the invariant and the transition table.
`LedgerImplementsAtMostOnce` counts the events of a row (`Recorded`): 1 if it is
processed and 0 if not, by `ExactlyOnce` and a lemma on singletons, so the
transaction of a row is a `Record`, an acceptance an `Accept`, and all else stutters.

Idempotent acceptance. `AcceptanceInv` adds `RequestsAreComplete` and
`KeysNameTheirRows`: a key carries the key and content of the row it names, and
the rows whose key has not expired are exactly those the valid keys name. The
second makes `OneOccurrencePerKey` a consequence, and with `WhatWasFoundHolds` an
insert never replaces a valid key.

`AcceptanceIsAtomic` maps this protocol to `AtomicAcceptance`. A request that is
anywhere between its arrival and its answer is `asking` (`Seen`). Besides arrivals
only four kinds of steps are not stutters: the commit of an insert, which finds no key in force because of
`WhatWasFoundHolds` (`AcceptNew`); an answer from a key, in the transaction or in the
`catch` block, where the key need not be in force but still names a row
(`Repeat`); an error or a lost answer (`GiveUp`); expiry and cleanup. A transaction
that deletes an expired key and is then aborted, and every retry, is invisible.
`RetriesAreBounded` orders the steps of a request by the attempts left and the
place within one attempt (`StepsLeft`): each lowers it, so a deadlock victim
does not start over for ever. That the steps are taken is fairness.

Delivery. At most one effect needs `RecordedIffProcessed`: `recorded[r]` is 1 for
processed rows and 0 for the others, so a claim that matches is the first one of
its row. That the row was accepted follows from `OnlyAcceptedRows`, which follows a
row through jobs, runs, dispatcher batches and handovers. The proof regroups the
invariant by variable (`Sound`), with a lemma for each group that a step leaves
alone and one for each way a step changes it; `StepImplements` maps `Commit` and
`CommitThrows` to `Record` or a stutter, `Accept` to `Accept`, and all else to a
stutter. The lock is not needed for it: it keeps runs of one shipment apart
(`LocksExclude`), the claim makes them harmless when it fails to.

`WorkIsLostByFaultsAlone` is the other direction. `FaultFree` says what is true until the
first fault: a dispatched row has been processed or has its job on the way
(`CaredFor`), active jobs and slots hold each other, a lock guards a run that goes on,
and a job ends only when its row has been processed. The last part is what the
dispatcher's steps need: it queried the row a while ago, and a job it finds ended and
removes, in a race with another dispatcher, is one of a row processed since. The
lemmas follow the dispatcher, a run and its settling (`DispatchSmooth`, `RunSmooth`,
`SettleSmooth`). So the reconciliation after `outboxRedisReconcileMs` is needed for
faults and for nothing else.

Rate limit. `SlotsInv` adds that a clock read is not older than the delay, that
each pass renews the key, and that an entry tells its pass within the tolerance
while a pass without an entry is a window ago. A request let through finds fewer
than `Limit` entries; every pass of the last window less the tolerance has one, and
different ones, so the `Limit`-th last pass lies further back
(`RoomMeansWindowPassed`, a counting argument over finite sets).

Circuit breaker. `CircuitInv` is the conjunction of the four properties and the
types, among them that a call which frees the token is a probe: with
`ProbesHaveTheToken` such a call either deletes its own token or is lost already, and
the one whose token it deletes becomes lost with it. The proof shows once what each
command may do to the keys (`KeysStep`) and each step to its call (`CallStep`), then
takes the properties one by one.

Registry. The properties are not inductive by themselves: that a token was true
rests on what a login in flight has read, a handler on what a registration has
checked, the scope on the query a list is about to send. `RegistryInv` states, per
request and step, what it rests on: `GuardPassed`, `UserWriteIsFounded`,
`CustomerWriteIsFounded`, `ShipmentWriteIsFounded`, `ReadIsFounded`. Two kinds of facts
are in them: those that no other request can undo (a principal was `held`, a
shipment's `owner`), and those that hold as long as the request is not in
`disturbed` (the row is as read, the email is free, the total is the count). Every write
adds the requests in flight to `disturbed`, so the proof of a step has one lemma per
action for the request itself and one per kind of write for the others (`...Keeps`).
The action properties then follow from the invariant and the one request that
moves. `ListIsPaged` is a counting argument: `Precedes` is a total order
(`PrecedesIsTotal`, `PrecedesIsTransitive`), ranks tell the order
(`RankTellsOrder`) and are all of 1..n (`RanksAreOnto`), and the pages cut 1..n into
windows (`PageRanges`).

Pages of different moments: a row that comes never lowers the rank of another
(`RanksOnlyRise`), so a row that lies ahead of a reader after a page still does, or is
on the next one; and it does not lie ahead of the last page (`PagingMissesNothing`; the
induction over pages is a finite one, `ReachesTheEnd`). A row may be seen twice. The
hypothesis, that rows come and none goes or changes its key, is what `HistoryTheorem`
shows of histories. Lists of shipments that are filtered by status or sorted by
`updatedAt` do not satisfy it, and there a reader may miss a row.

Only model-checked: liveness (`EveryAcceptedRowIsRecorded`, `ReliablyDelivered`,
`QueuesDrain`, `EveryRequestIsAnswered`), which is beyond the prover together with
ENABLED and with induction over data. No module declares a RECURSIVE operator.

## 7. What the code does not keep

- `LedgerPoisoned`: `isLatest` compares a STATUS row with the latest event of any
  kind. A LOCATION recorded before an older pending STATUS makes it retroactive,
  and the shipment never enters that status. Acceptance trusted that row to move
  the shipment, so the next accepted STATUS asks for a transition that is not
  allowed and throws on every retry. An event dated later still may make it
  retroactive as well and so unblock it; without one it is never recorded.
- `LedgerStaleLocation`: a delivery without a location repeats the location read
  before its transaction; one recorded in between is overwritten as the current
  location.
- `AcceptanceExpiry`: a deadlock victim answers from an expired key.

Lesser divergences have no run. A LOCATION event carries the status at
processing time (`tracking-outbox-worker.service.ts:359`), where
`prisma/schema.prisma:113` speaks of the status after the occurrence. A job handed
to the dead letter queue (line 407) stays delayed in the main queue and is retried
by both, where ADR-0005 says it goes to the dead letter queue afterwards; the
data suffers no harm (`AtMostOnceDelivery`).

The circuit breaker's keys are not updated atomically, and a fault shows: a call
that dies after `INCR` and before `PEXPIRE` (`tracking-geocoder.ts:175-177`) leaves a
failure counter for ever, one that dies before line 196 an open circuit after
which all calls go through unprobed. Its probe may also outlive its token while
it waits for a slot, so two probes are possible (`ProbesHaveTheToken` names
the ways).

Users, customers and shipments; the run `ShipmentRegistry` has the behaviours, and its
properties bound them.

- `prisma/schema.prisma:42-43` states that operators and customers must have a customer
  and administrators none, a rule of the domain. Two concurrent updates, one of the
  role and one of the customer, break it: each is validated against the row it has
  read and writes its own field (`OnlyStaleUpdatesBreakTheLink`).
- The adapters of users and customers do not translate the unique index (P2002):
  two requests that take one email at the same time are answered 201 and 500,
  where the routes document 409. The shipment adapter does translate it. A customer
  removed twice at once, and one that users or shipments refer to, are answered 500
  as well (`InternalErrorsAreRaces`).
- An update of a customer writes the fields it was not sent as it has read them, so
  a concurrent update of another field is lost (`FieldsChangeAsAsked`). Users are
  updated field by field.
- The handler is checked before both addresses are geocoded; a handler
  deactivated, moved or given another role meanwhile stays in charge. He was an
  active operator of the customer once (`HandlersOperate`), and tokens, which the
  guards believe without a look at the user, mean no more (`TokensWereTrue`).
- `users.controller.ts:139` says of the removal of a user that it is blocked while the
  user handles shipments; nothing blocks it, the user is deactivated.
- A cancellation goes by code: a shipment removed and registered again between its
  two queries is removed, whoever owns it now (`CancelRemovesWhatItLoaded`).

The counterpart is `LedgerOrderly`: with STATUS updates alone, dated by the
server and sent one at a time, every accepted row is recorded whatever the order
of the jobs. Both conditions are needed, as `OnlyDisturbedRowsStall` says in general:

- The server reads its clock (`occurredAt ?? new Date()`) before the transaction
  that accepts the row. Two concurrent requests may be accepted against the order
  of their dates. The row accepted second, but dated earlier, is then retroactive
  when its turn comes, as after a LOCATION, and a third row validated against it
  asks for a transition that is not allowed. With two requests in flight the
  configuration of `LedgerOrderly` does not satisfy `EveryAcceptedRowIsRecorded`.
- A STATUS that is accepted after a delivery, while an older STATUS is still pending,
  is validated against that pending row and not against DELIVERED. When its turn comes
  it is the latest event and asks for a transition from DELIVERED, which there is not.

## 8. What is left out

- One clock. `now` is the time of all processes; skew between them, which could
  reorder `createdAt`, is planned.
- The page of 100 rows of the dispatcher: the models have fewer rows. Rows that
  can never be processed may fill it; that hazard is listed without a property.
- The collation of SQL Server, under which two spellings of a key may be equal.
- In `TrackingLedger`, field validation, tenant scope and the geocoding before an
  acceptance: they end a request without effect (`Fail`).
- The geocoder's cache: a hit touches no other key. The service without Redis has no
  circuit breaker and no rate limit.
- Of the API: formats and lengths that the DTOs demand (answered 400 before a handler
  runs; they keep the values within the columns), presenters, the reads of single
  users and customers and of the own profile, the geocode route, token expiry,
  hashing. They change nothing that others read.
- Configuration, observability, health, migrations, seeds, partition maintenance,
  scripts and deployment: no state the tracking depends on.
