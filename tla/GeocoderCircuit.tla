-------------------------- MODULE GeocoderCircuit --------------------------
(***************************************************************************)
(* The circuit breaker in front of the geocoding provider                  *)
(* (TrackingGeocoder.geocode, resetCircuit, recordFailure): four keys in   *)
(* Redis that every process reads and writes one command at a time.  A     *)
(* call that finds its address in the cache touches none of them.          *)
(***************************************************************************)
EXTENDS Naturals

CONSTANTS
  Calls,      \* calls of geocode in flight, over all processes
  NoOne,
  Threshold,  \* circuitFailures
  MaxFaults

ASSUME CircuitAssumption ==
  /\ NoOne \notin Calls
  /\ Threshold \in Nat \ {0}
  /\ MaxFaults \in Nat

VARIABLES
  open,        \* the key :open exists
  everOpened,  \* the key :ever-opened exists
  failures,    \* the counter :failures; 0 when there is no such key
  expiring,    \* the counter has a time to live
  token,       \* the key :half-open: the call that set it, or NoOne
  call,        \* call[c]: the command or request it waits for, and isProbe
  lost,        \* observation: probes whose token went away under them
  faults       \* faults so far

keys == <<open, everOpened, failures, expiring, token>>
vars == <<keys, call, lost, faults>>

Looking == {"circuit", "history", "token"}
Recording == {"count", "expire", "open", "remember", "clear", "free"}
Call == [pc : {"idle", "fetch", "reset", "cache"} \cup Looking \cup Recording,
         probe : BOOLEAN]
Idle == [pc |-> "idle", probe |-> FALSE]

At(c, pc) == call[c].pc = pc
To(c, pc) == call' = [call EXCEPT ![c].pc = pc]
Ends(c) == call' = [call EXCEPT ![c] = Idle]

Init ==
  /\ open = FALSE /\ everOpened = FALSE
  /\ failures = 0 /\ expiring = FALSE
  /\ token = NoOne
  /\ call = [c \in Calls |-> Idle]
  /\ lost = {}
  /\ faults = 0

-----------------------------------------------------------------------------
(***************************************************************************)
(* What the commands do to the keys                                        *)
(***************************************************************************)
DelFailures == failures' = 0 /\ expiring' = FALSE

\* SET NX PX.
SetToken(c) ==
  /\ token' = IF token = NoOne THEN c ELSE token
  /\ lost' = IF token = NoOne THEN lost \ {c} ELSE lost
  /\ UNCHANGED <<open, everOpened, failures, expiring>>

\* Bug: the circuit itself is left to its time to live.
BugDelAll ==
  /\ open' = open /\ everOpened' = FALSE /\ token' = NoOne
  /\ DelFailures
  /\ lost' = lost \cup {c \in Calls : call[c].probe}

\* One DEL for the four keys.
DelAll ==
  /\ open' = FALSE /\ everOpened' = FALSE /\ token' = NoOne
  /\ DelFailures
  /\ lost' = lost \cup {c \in Calls : call[c].probe}

Incr ==
  /\ failures' = failures + 1
  /\ UNCHANGED <<open, everOpened, expiring, token, lost>>

\* PEXPIRE; without effect when the counter is gone.
ExpireFailures ==
  /\ expiring' = (failures > 0)
  /\ UNCHANGED <<open, everOpened, failures, token, lost>>

\* SET NX PX; without effect when the circuit is open.
SetOpen ==
  /\ open' = TRUE
  /\ UNCHANGED <<everOpened, failures, expiring, token, lost>>

SetEverOpened ==
  /\ everOpened' = TRUE
  /\ UNCHANGED <<open, failures, expiring, token, lost>>

ClearFailures ==
  /\ DelFailures
  /\ UNCHANGED <<open, everOpened, token, lost>>

\* DEL, whoever set it.
DelToken(c) ==
  /\ token' = NoOne
  /\ lost' = IF c \in lost THEN lost \cup ({token} \ {NoOne}) ELSE lost
  /\ UNCHANGED <<open, everOpened, failures, expiring>>

-----------------------------------------------------------------------------
(***************************************************************************)
(* geocode                                                                 *)
(***************************************************************************)
Ask(c) ==
  /\ At(c, "idle")
  /\ To(c, "circuit")
  /\ UNCHANGED <<keys, lost, faults>>

\* An open circuit rejects; the rejection goes through recordFailure too.
ReadCircuit(c) ==
  /\ At(c, "circuit")
  /\ To(c, IF open THEN "count" ELSE "history")
  /\ UNCHANGED <<keys, lost, faults>>

ReadEverOpened(c) ==
  /\ At(c, "history")
  /\ To(c, IF everOpened THEN "token" ELSE "fetch")
  /\ UNCHANGED <<keys, lost, faults>>

\* Bug: a call without the token goes on.
BugTakes(c) == TRUE

Takes(c) == token = NoOne

TakeToken(c) ==
  /\ At(c, "token")
  /\ SetToken(c)
  /\ IF Takes(c) THEN call' = [call EXCEPT ![c] = [pc |-> "fetch", probe |-> TRUE]]
     ELSE To(c, "count")
  /\ UNCHANGED faults

\* The slot, the request and its answer: coordinates or no result, a failure
\* (also coordinates out of range), or a refused address, which says nothing
\* of the provider and leaves the token to its time to live.
Fetch(c) ==
  /\ At(c, "fetch")
  /\ To(c, "reset") \/ To(c, "count") \/ Ends(c)
  /\ UNCHANGED <<keys, lost, faults>>

ResetCircuit(c) ==
  /\ At(c, "reset")
  /\ DelAll
  /\ To(c, "cache") \/ Ends(c)  \* no result is not cached
  /\ UNCHANGED faults

FillCache(c) ==
  /\ At(c, "cache")
  /\ Ends(c)
  /\ UNCHANGED <<keys, lost, faults>>

-----------------------------------------------------------------------------
(***************************************************************************)
(* recordFailure                                                           *)
(***************************************************************************)
\* Bug: off by one.
BugOpens(c, count) == count > Threshold \/ call[c].probe

Opens(c, count) == count >= Threshold \/ call[c].probe

Counted(c, count) == IF Opens(c, count) THEN To(c, "open") ELSE Ends(c)

\* Bug: the value before INCR.
BugIsFirst(count) == count - 1 = 1

IsFirst(count) == count = 1

Count(c) ==
  /\ At(c, "count")
  /\ Incr
  /\ IF IsFirst(failures + 1) THEN To(c, "expire") ELSE Counted(c, failures + 1)
  /\ UNCHANGED faults

Expire(c) ==
  /\ At(c, "expire")
  /\ ExpireFailures
  /\ Counted(c, 1)
  /\ UNCHANGED faults

Open(c) ==
  /\ At(c, "open")
  /\ SetOpen
  /\ To(c, "remember")
  /\ UNCHANGED faults

Remember(c) ==
  /\ At(c, "remember")
  /\ SetEverOpened
  /\ To(c, "clear")
  /\ UNCHANGED faults

Clear(c) ==
  /\ At(c, "clear")
  /\ ClearFailures
  /\ IF call[c].probe THEN To(c, "free") ELSE Ends(c)
  /\ UNCHANGED faults

Free(c) ==
  /\ At(c, "free")
  /\ DelToken(c)
  /\ Ends(c)
  /\ UNCHANGED faults

-----------------------------------------------------------------------------
(***************************************************************************)
(* Redis and faults                                                        *)
(***************************************************************************)
Fault == faults < MaxFaults /\ faults' = faults + 1

\* The effect of the command c waits for.
Effect(c) ==
  \/ At(c, "token") /\ SetToken(c)
  \/ At(c, "reset") /\ DelAll
  \/ At(c, "count") /\ Incr
  \/ At(c, "expire") /\ ExpireFailures
  \/ At(c, "open") /\ SetOpen
  \/ At(c, "remember") /\ SetEverOpened
  \/ At(c, "clear") /\ ClearFailures
  \/ At(c, "free") /\ DelToken(c)

\* A command fails, before or after it took effect.  In geocode the failure
\* is recorded like one of the provider; in recordFailure it ends the record.
Throws(c) ==
  /\ call[c].pc \in Looking \cup {"reset", "cache"} \cup Recording
  /\ Effect(c) \/ UNCHANGED <<keys, lost>>
  /\ IF call[c].pc \in Recording THEN Ends(c) ELSE To(c, "count")
  /\ Fault

Crash(c) ==
  /\ ~At(c, "idle")
  /\ Ends(c)
  /\ Fault
  /\ UNCHANGED <<keys, lost>>

\* Times to live: the cooldown, the counter's, and the token's
\* (timeoutMs + 1000, which a probe that waits for its slot may outlive).
CoolDown ==
  /\ open /\ open' = FALSE
  /\ UNCHANGED <<everOpened, failures, expiring, token, call, lost, faults>>

Forget ==
  /\ expiring /\ DelFailures
  /\ UNCHANGED <<open, everOpened, token, call, lost, faults>>

TokenExpires ==
  /\ token # NoOne /\ token' = NoOne
  /\ lost' = lost \cup {token}
  /\ UNCHANGED <<open, everOpened, failures, expiring, call, faults>>

Geocode(c) ==
  \/ Ask(c) \/ ReadCircuit(c) \/ ReadEverOpened(c) \/ TakeToken(c)
  \/ Fetch(c) \/ ResetCircuit(c) \/ FillCache(c)

RecordFailure(c) ==
  Count(c) \/ Expire(c) \/ Open(c) \/ Remember(c) \/ Clear(c) \/ Free(c)

Next ==
  \/ \E c \in Calls : Geocode(c) \/ RecordFailure(c) \/ Throws(c) \/ Crash(c)
  \/ CoolDown \/ Forget \/ TokenExpires

Spec == Init /\ [][Next]_vars

-----------------------------------------------------------------------------
(***************************************************************************)
(* Properties                                                              *)
(***************************************************************************)
\* Keys and calls have their shapes; a call is a probe only after it has taken
\* the token, only a probe frees it, and only an existing counter expires.
TypeOK ==
  /\ open \in BOOLEAN /\ everOpened \in BOOLEAN /\ expiring \in BOOLEAN
  /\ failures \in Nat
  /\ token \in Calls \cup {NoOne}
  /\ call \in [Calls -> Call]
  /\ lost \subseteq Calls
  /\ faults \in 0 .. MaxFaults
  /\ expiring => failures > 0
  /\ \A c \in Calls : call[c].probe => call[c].pc \notin Looking \cup {"idle"}
  /\ \A c \in Calls : At(c, "free") => call[c].probe

\* While the circuit is open the way back leads through a probe: the key that
\* asks for one is there, or is about to be written.  A reset by a late
\* success in between takes both away.
OpenIsRemembered ==
  faults = 0 /\ open => everOpened \/ \E c \in Calls : At(c, "remember")

\* Failures are forgotten after the cooldown: a counter has a time to live or
\* is about to get one, though others increment, delete and begin it anew
\* between INCR and PEXPIRE.
FailuresExpire ==
  faults = 0 /\ failures > 0 => expiring \/ \E c \in Calls : At(c, "expire")

\* A counter at the threshold is acted on: some call is about to open the
\* circuit and to clear it, so it does not grow beyond the calls in flight.
ThresholdOpens ==
  faults = 0 /\ failures >= Threshold =>
    \E c \in Calls :
      \/ call[c].pc \in {"open", "remember", "clear"}
      \/ Threshold = 1 /\ At(c, "expire")

\* A probe has the token until it ends, unless its time to live, a success or
\* another probe that had itself lost the token takes it: there are no two
\* probes else.
ProbesHaveTheToken ==
  \A c \in Calls : call[c].probe /\ c \notin lost => token = c

\* The invariant, inductive as it stands (module GeocoderCircuitProofs).
CircuitInv ==
  /\ TypeOK
  /\ OpenIsRemembered
  /\ FailuresExpire
  /\ ThresholdOpens
  /\ ProbesHaveTheToken
=============================================================================
