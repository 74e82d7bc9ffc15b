---------------------------- MODULE GeocodeSlots ----------------------------
(***************************************************************************)
(* The distributed rate limit of the geocoding provider                    *)
(* (TrackingGeocoder.waitForGeocodeSlot): a sorted set in Redis holds one  *)
(* entry per request let through in the last second, scored with the clock *)
(* of the process that asked.  The script that counts and adds is one      *)
(* step; the clock is read before it is sent, and clocks may differ.       *)
(***************************************************************************)
EXTENDS Integers, Sequences, FiniteSets

CONSTANTS
  Procs,     \* calls of geocode that may be in flight together
  Limit,     \* max(1, rateLimit): requests per window
  Window,    \* windowMs
  Skew,      \* how far each process's clock is ahead of the slowest
  MaxSkew,
  MaxDelay,  \* bound on the time from Date.now() to the script's execution
  MaxTime    \* bound on the time

ASSUME SlotsAssumption ==
  /\ Limit \in Nat \ {0} /\ Window \in Nat \ {0}
  /\ MaxSkew \in Nat /\ Skew \in [Procs -> 0 .. MaxSkew]
  /\ MaxDelay \in Nat /\ MaxTime \in Nat

VARIABLES
  now,      \* the time, which is also Redis's clock
  slots,    \* the sorted set: [score, id], id the number of the pass
  expires,  \* when Redis drops the key
  call,     \* call[p]: what p is doing, the clock it read, when it wakes up
  passes    \* observation: when the script let each request through (its
            \* caller may never hear of it)

vars == <<now, slots, expires, call, passes>>

\* clock is what Date.now() returned to a call that is asking.
Call == [pc : {"idle", "asking", "sleeping"}, clock : Nat, wakeAt : Nat]
Idle == [pc |-> "idle", clock |-> 0, wakeAt |-> 0]
Asking(clock) == [pc |-> "asking", clock |-> clock, wakeAt |-> 0]
Sleeping(wakeAt) == [pc |-> "sleeping", clock |-> 0, wakeAt |-> wakeAt]

Clock(p) == now + Skew[p]

Init ==
  /\ now = 0
  /\ slots = {} /\ expires = 0
  /\ call = [p \in Procs |-> Idle]
  /\ passes = <<>>

ReadClock(p) == call' = [call EXCEPT ![p] = Asking(Clock(p))]

Ask(p) ==
  /\ call[p].pc = "idle"
  /\ ReadClock(p)
  /\ UNCHANGED <<now, slots, expires, passes>>

\* Bug: the entry at the very edge of the window stays.
BugKept(p) ==
  {e \in slots : now < expires /\ e.score >= call[p].clock - Window}

\* ZREMRANGEBYSCORE -inf now-window; nothing is left of an expired key.
Kept(p) ==
  {e \in slots : now < expires /\ e.score > call[p].clock - Window}

\* Bug: off by one.
BugHasRoom(p) == Cardinality(Kept(p)) <= Limit

HasRoom(p) == Cardinality(Kept(p)) < Limit

Pass(p) ==
  /\ passes' = Append(passes, now)
  /\ call' = [call EXCEPT ![p] = Idle]

\* ZADD and PEXPIRE; the script returns 0.
Enter(p) ==
  /\ HasRoom(p)
  /\ slots' = Kept(p) \cup {[score |-> call[p].clock, id |-> Len(passes) + 1]}
  /\ expires' = now + Window
  /\ Pass(p)

\* Bug: the newest entry.
BugNewest(e, p) == \A f \in Kept(p) : e.score >= f.score

Oldest(e, p) == \A f \in Kept(p) : e.score <= f.score

\* The script returns how long the oldest entry still counts.  The caller
\* takes a result of zero or less as leave to go on.
Wait(p) ==
  /\ ~HasRoom(p)
  /\ slots' = Kept(p)
  /\ \E e \in Kept(p) :
       LET waitMs == e.score + Window - call[p].clock IN
       /\ Oldest(e, p)
       /\ IF waitMs <= 0 THEN Pass(p)
          ELSE /\ call' = [call EXCEPT ![p] = Sleeping(now + waitMs)]
               /\ UNCHANGED passes
  /\ UNCHANGED expires

Evaluate(p) ==
  /\ call[p].pc = "asking"
  /\ Enter(p) \/ Wait(p)
  /\ UNCHANGED now

WakeUp(p) ==
  /\ call[p].pc = "sleeping" /\ now >= call[p].wakeAt
  /\ ReadClock(p)
  /\ UNCHANGED <<now, slots, expires, passes>>

\* The call or its process fails.
GiveUp(p) ==
  /\ call[p].pc # "idle"
  /\ call' = [call EXCEPT ![p] = Idle]
  /\ UNCHANGED <<now, slots, expires, passes>>

ReadAt(p) == call[p].clock - Skew[p]

\* No script is under way for longer than MaxDelay.
Tick ==
  /\ now < MaxTime
  /\ \A p \in Procs : call[p].pc = "asking" => now < ReadAt(p) + MaxDelay
  /\ now' = now + 1
  /\ UNCHANGED <<slots, expires, call, passes>>

Next ==
  \/ \E p \in Procs : Ask(p) \/ Evaluate(p) \/ WakeUp(p) \/ GiveUp(p)
  \/ Tick

Spec == Init /\ [][Next]_vars

-----------------------------------------------------------------------------
(***************************************************************************)
(* Properties                                                              *)
(***************************************************************************)

\* What late scripts and fast clocks can take off the window.
Tolerance == MaxDelay + MaxSkew

\* Entries are those of passes, and what a call keeps is a time.
TypeOK ==
  /\ now \in Nat /\ expires \in Nat
  /\ slots \subseteq [score : Nat, id : DOMAIN passes]
  /\ call \in [Procs -> Call]
  /\ passes \in Seq(Nat)

\* GEOCODE_RATE_LIMIT holds over all processes together: of Limit + 1 requests
\* let through in a row, the last is a window after the first, less the delay
\* of a script and the differences between clocks.
RateHolds ==
  \A k \in DOMAIN passes :
    k + Limit \in DOMAIN passes =>
      passes[k + Limit] - passes[k] >= Window - Tolerance

\* Nobody is held back without need: a call that goes to sleep wakes up when
\* the oldest of the last Limit passes is a window ago, or earlier (but for
\* the tolerance); with fewer passes nobody sleeps.
WaitsAreNeeded ==
  [][\A p \in Procs :
       call[p].pc = "asking" /\ call'[p].pc = "sleeping" =>
         /\ Len(passes) >= Limit
         /\ call'[p].wakeAt <=
              passes[Len(passes) - Limit + 1] + Window + Tolerance]_vars

-----------------------------------------------------------------------------
(***************************************************************************)
(* The inductive invariant (module GeocodeSlotsProofs)                     *)
(***************************************************************************)

\* A clock that was read is not older than MaxDelay when the script runs.
ClocksAreFresh ==
  \A p \in Procs :
    call[p].pc = "asking" => ReadAt(p) <= now /\ now <= ReadAt(p) + MaxDelay

\* Requests are let through one after the other, and each renews the key.
PassesInOrder ==
  /\ \A j, k \in DOMAIN passes : j <= k => passes[j] <= passes[k]
  /\ \A k \in DOMAIN passes : passes[k] <= now
  /\ passes # <<>> => expires = passes[Len(passes)] + Window

\* An entry belongs to one pass and tells when it was, within the tolerance;
\* a pass without an entry is a window ago.
EntriesTellThePasses ==
  /\ IsFiniteSet(slots)
  /\ \A e, f \in slots : e.id = f.id => e = f
  /\ \A e \in slots :
       /\ e.score >= passes[e.id] - MaxDelay
       /\ e.score <= passes[e.id] + MaxSkew
  /\ \A k \in DOMAIN passes :
       \/ \E e \in slots : e.id = k
       \/ now >= passes[k] + Window - Tolerance

SlotsInv ==
  /\ TypeOK
  /\ ClocksAreFresh
  /\ PassesInOrder
  /\ EntriesTellThePasses
  /\ RateHolds
=============================================================================
