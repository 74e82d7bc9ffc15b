----------------------- MODULE GeocoderCircuitProofs -----------------------
(***************************************************************************)
(* Proofs about GeocoderCircuit, for any number of calls, any threshold    *)
(* and any number of faults.                                               *)
(***************************************************************************)
EXTENDS GeocoderCircuit, TLAPS

-----------------------------------------------------------------------------
(***************************************************************************)
(* Types                                                                   *)
(***************************************************************************)
\* The keys that exist or not, and the numbers: each kind for its own prover.
FlagsOK ==
  /\ open \in BOOLEAN /\ everOpened \in BOOLEAN /\ expiring \in BOOLEAN
  /\ token \in Calls \cup {NoOne}
  /\ lost \subseteq Calls

CounterOK == failures \in Nat /\ (expiring => failures > 0)

CallsOK ==
  /\ call \in [Calls -> Call]
  /\ \A c \in Calls : call[c].probe => call[c].pc \notin Looking \cup {"idle"}
  /\ \A c \in Calls : At(c, "free") => call[c].probe

LEMMA Types == TypeOK <=> FlagsOK /\ CounterOK /\ CallsOK /\ faults \in 0 .. MaxFaults
BY Zenon DEF TypeOK, FlagsOK, CounterOK, CallsOK

\* What commands and times to live may do to the keys.
KeysStep(c) ==
  \/ UNCHANGED <<keys, lost>>
  \/ SetToken(c) \/ DelAll \/ Incr \/ ExpireFailures \/ SetOpen
  \/ SetEverOpened \/ ClearFailures \/ (At(c, "free") /\ DelToken(c))

\* A command keeps the types of the keys.
LEMMA FlagsKept ==
  ASSUME FlagsOK, NEW c \in Calls, KeysStep(c)
  PROVE  FlagsOK'
<1>1. CASE UNCHANGED <<keys, lost>>
  BY Zenon, <1>1 DEF FlagsOK, keys
<1>2. CASE SetToken(c)
  BY Zenon, <1>2 DEF FlagsOK, SetToken
<1>3. CASE DelAll
  <2>1. lost' \subseteq Calls
    BY <1>3 DEF FlagsOK, DelAll
  <2>2. ~open' /\ ~everOpened' /\ ~expiring' /\ token' = NoOne
    BY <1>3 DEF DelAll, DelFailures
  <2> QED BY Zenon, <1>3, <2>1, <2>2 DEF FlagsOK, DelAll, DelFailures
<1>4. CASE Incr \/ SetOpen \/ SetEverOpened
  BY Zenon, <1>4 DEF FlagsOK, Incr, SetOpen, SetEverOpened
<1>5. CASE ExpireFailures
  <2>1. expiring' \in BOOLEAN
    BY <1>5 DEF ExpireFailures
  <2>2. UNCHANGED <<open, everOpened, token, lost>>
    BY Zenon, <1>5 DEF ExpireFailures
  <2> QED BY Zenon, <2>1, <2>2 DEF FlagsOK
<1>6. CASE ClearFailures
  BY Zenon, <1>6 DEF FlagsOK, ClearFailures, DelFailures
<1>7. CASE DelToken(c)
  BY Zenon, <1>7 DEF FlagsOK, DelToken
<1> QED BY Zenon, <1>1, <1>2, <1>3, <1>4, <1>5, <1>6, <1>7 DEF KeysStep

LEMMA CounterKept ==
  ASSUME CounterOK, NEW c \in Calls, KeysStep(c)
  PROVE  CounterOK'
<1>1. CASE UNCHANGED <<failures, expiring>>
  BY <1>1 DEF CounterOK
<1>2. CASE Incr
  BY <1>2 DEF CounterOK, Incr
<1>3. CASE ExpireFailures
  BY <1>3 DEF CounterOK, ExpireFailures
<1>4. CASE DelFailures
  BY <1>4 DEF CounterOK, DelFailures
<1> QED BY Zenon, <1>1, <1>2, <1>3, <1>4
        DEF KeysStep, keys, SetToken, DelAll, SetOpen, SetEverOpened,
            ClearFailures, DelToken

LEMMA CallEnds ==
  ASSUME CallsOK, NEW c \in Calls, Ends(c)
  PROVE  /\ CallsOK'
         /\ call'[c].pc = "idle" /\ ~call'[c].probe
         /\ \A d \in Calls \ {c} : call'[d] = call[d]
BY DEF CallsOK, Ends, Idle, Call, At

LEMMA CallMoves ==
  ASSUME CallsOK, NEW c \in Calls, NEW pc, To(c, pc),
         \/ pc \in ({"fetch", "reset", "cache"} \cup Recording) \ {"free"}
         \/ pc = "free" /\ call[c].probe
         \/ pc \in Looking /\ ~call[c].probe
  PROVE  /\ CallsOK'
         /\ call'[c].pc = pc /\ call'[c].probe = call[c].probe
         /\ \A d \in Calls \ {c} : call'[d] = call[d]
BY DEF CallsOK, To, Call, Looking, Recording, At

LEMMA CallTakes ==
  ASSUME CallsOK, NEW c \in Calls,
         call' = [call EXCEPT ![c] = [pc |-> "fetch", probe |-> TRUE]]
  PROVE  /\ CallsOK'
         /\ call'[c].pc = "fetch" /\ call'[c].probe
         /\ \A d \in Calls \ {c} : call'[d] = call[d]
BY DEF CallsOK, Call, Looking, At

\* What a step of c does to its call: a probe remains one or ends, and no call
\* becomes a probe without the token.
CallStep(c) ==
  /\ CallsOK'
  /\ \A d \in Calls \ {c} : call'[d] = call[d]
  /\ call'[c].probe => call[c].probe \/ (TakeToken(c) /\ Takes(c))
  /\ At(c, "free") => ~call'[c].probe

LEMMA GeocodeCall ==
  ASSUME CallsOK, NEW c \in Calls, Geocode(c) PROVE CallStep(c)
<1>1. CASE Ask(c)
  BY <1>1, CallMoves DEF Ask, At, Looking, CallsOK, CallStep
<1>2. CASE ReadCircuit(c)
  BY <1>2, CallMoves DEF ReadCircuit, At, Looking, Recording, CallsOK, CallStep
<1>3. CASE ReadEverOpened(c)
  BY <1>3, CallMoves DEF ReadEverOpened, At, Looking, CallsOK, CallStep
<1>4. CASE TakeToken(c)
  BY <1>4, CallMoves, CallTakes
     DEF TakeToken, At, Looking, Recording, CallsOK, CallStep
<1>5. CASE Fetch(c)
  BY <1>5, CallMoves, CallEnds DEF Fetch, At, Recording, CallStep
<1>6. CASE ResetCircuit(c) \/ FillCache(c)
  BY <1>6, CallMoves, CallEnds DEF ResetCircuit, FillCache, At, CallStep
<1> QED BY <1>1, <1>2, <1>3, <1>4, <1>5, <1>6 DEF Geocode

LEMMA RecordCall ==
  ASSUME CallsOK, NEW c \in Calls, RecordFailure(c) PROVE CallStep(c)
<1>1. CASE Count(c)
  BY <1>1, CallMoves, CallEnds DEF Count, At, Counted, Recording, CallStep
<1>2. CASE Expire(c)
  BY <1>2, CallMoves, CallEnds DEF Expire, At, Counted, Recording, CallStep
<1>3. CASE Open(c) \/ Remember(c)
  BY <1>3, CallMoves DEF Open, Remember, At, Recording, CallStep
<1>4. CASE Clear(c) \/ Free(c)
  BY <1>4, CallMoves, CallEnds DEF Clear, Free, At, Recording, CallStep
<1> QED BY <1>1, <1>2, <1>3, <1>4 DEF RecordFailure

LEMMA FaultCall ==
  ASSUME CallsOK, NEW c \in Calls, Throws(c) \/ Crash(c) PROVE CallStep(c)
BY CallMoves, CallEnds DEF Throws, Crash, At, Recording, CallStep

\* Every step of a call on the keys is one of those commands.
LEMMA KeysStepOfCall ==
  ASSUME NEW c \in Calls, Geocode(c) \/ RecordFailure(c) \/ Throws(c) \/ Crash(c)
  PROVE  KeysStep(c)
<1>1. CASE Geocode(c)
  BY Zenon, <1>1 DEF Geocode, Ask, ReadCircuit, ReadEverOpened, TakeToken,
     Fetch, ResetCircuit, FillCache, KeysStep, keys
<1>2. CASE RecordFailure(c)
  BY Zenon, <1>2
     DEF RecordFailure, Count, Expire, Open, Remember, Clear, Free, KeysStep
<1>3. CASE Throws(c) \/ Crash(c)
  BY Zenon, <1>3 DEF Throws, Crash, Effect, KeysStep, keys
<1> QED BY <1>1, <1>2, <1>3

LEMMA CallSteps ==
  ASSUME CallsOK, NEW c \in Calls,
         Geocode(c) \/ RecordFailure(c) \/ Throws(c) \/ Crash(c)
  PROVE  CallStep(c)
BY GeocodeCall, RecordCall, FaultCall

LEMMA FaultsStep ==
  ASSUME faults \in 0 .. MaxFaults, NEW c \in Calls,
         Geocode(c) \/ RecordFailure(c) \/ Throws(c) \/ Crash(c)
  PROVE  faults' \in 0 .. MaxFaults
<1>1. CASE Geocode(c)
  <2>1. faults' = faults
    BY Zenon, <1>1 DEF Geocode, Ask, ReadCircuit, ReadEverOpened, TakeToken,
       Fetch, ResetCircuit, FillCache
  <2> QED BY <1>1, <2>1
<1>2. CASE RecordFailure(c)
  <2>1. faults' = faults
    BY Zenon, <1>2
       DEF RecordFailure, Count, Expire, Open, Remember, Clear, Free
  <2> QED BY <1>2, <2>1
<1>3. CASE Throws(c) \/ Crash(c)
  <2>1. Fault
    BY Zenon, <1>3 DEF Throws, Crash
  <2> QED BY <2>1, CircuitAssumption DEF Fault
<1> QED BY <1>1, <1>2, <1>3

LEMMA TypeStep == ASSUME TypeOK, [Next]_vars PROVE TypeOK'
<1>0. FlagsOK /\ CounterOK /\ CallsOK /\ faults \in 0 .. MaxFaults
  BY Types
<1>1. ASSUME NEW c \in Calls,
             Geocode(c) \/ RecordFailure(c) \/ Throws(c) \/ Crash(c)
      PROVE  TypeOK'
  <2>1. FlagsOK' /\ CounterOK'
    BY <1>0, <1>1, KeysStepOfCall, FlagsKept, CounterKept
  <2>2. CallsOK' /\ faults' \in 0 .. MaxFaults
    BY <1>0, <1>1, CallSteps, FaultsStep DEF CallStep
  <2> QED BY <2>1, <2>2 DEF TypeOK, FlagsOK, CounterOK, CallsOK, At
<1>2. ASSUME CoolDown \/ Forget \/ TokenExpires \/ UNCHANGED vars PROVE TypeOK'
  <2>1. UNCHANGED <<call, faults>>
    BY Zenon, <1>2 DEF CoolDown, Forget, TokenExpires, vars
  <2>2. CallsOK' /\ faults' \in 0 .. MaxFaults
    BY <1>0, <2>1 DEF CallsOK, At
  <2>3. FlagsOK'
    BY Zenon, <1>0, <1>2
       DEF FlagsOK, CoolDown, Forget, DelFailures, TokenExpires, vars, keys
  <2>4. UNCHANGED <<failures, expiring>> \/ DelFailures
    BY Zenon, <1>2 DEF CoolDown, Forget, TokenExpires, vars, keys
  <2>5. CounterOK'
    BY <1>0, <2>4 DEF CounterOK, DelFailures
  <2> QED BY <2>2, <2>3, <2>5 DEF TypeOK, FlagsOK, CounterOK, CallsOK, At
<1> QED BY <1>1, <1>2 DEF Next

-----------------------------------------------------------------------------
(***************************************************************************)
(* The invariant                                                           *)
(***************************************************************************)
LEMMA InitInv == ASSUME Init PROVE CircuitInv
<1>1. TypeOK
  <2>1. FlagsOK
    BY Zenon DEF Init, FlagsOK
  <2>3. CounterOK /\ faults \in 0 .. MaxFaults
    BY CircuitAssumption DEF Init, CounterOK
  <2>2. CallsOK
    BY DEF Init, CallsOK, Call, Idle, Looking, At
  <2> QED BY <2>1, <2>2, <2>3, Types
<1>2. ThresholdOpens
  BY CircuitAssumption DEF Init, ThresholdOpens
<1>3. OpenIsRemembered /\ FailuresExpire
  BY DEF Init, OpenIsRemembered, FailuresExpire
<1>4. ProbesHaveTheToken
  BY DEF Init, ProbesHaveTheToken, Idle
<1> QED BY <1>1, <1>2, <1>3, <1>4 DEF CircuitInv

\* A step of a call either is a fault or leaves their number alone.
LEMMA StepKinds ==
  ASSUME TypeOK, Next
  PROVE  \/ \E c \in Calls : (Geocode(c) \/ RecordFailure(c)) /\ faults' = faults
         \/ \E c \in Calls : (Throws(c) \/ Crash(c)) /\ faults' # 0
         \/ CoolDown \/ Forget \/ TokenExpires
<1>1. \/ \E c \in Calls : Geocode(c) \/ RecordFailure(c) \/ Throws(c) \/ Crash(c)
      \/ CoolDown \/ Forget \/ TokenExpires
  BY Zenon DEF Next
<1>2. ASSUME NEW c \in Calls, Geocode(c) \/ RecordFailure(c) PROVE faults' = faults
  BY Zenon, <1>2 DEF Geocode, Ask, ReadCircuit, ReadEverOpened, TakeToken,
     Fetch, ResetCircuit, FillCache,
     RecordFailure, Count, Expire, Open, Remember, Clear, Free
<1>3. ASSUME NEW c \in Calls, Throws(c) \/ Crash(c) PROVE faults' # 0
  <2>1. Fault
    BY Zenon, <1>3 DEF Throws, Crash
  <2> QED BY <2>1 DEF Fault, TypeOK
<1> QED BY Zenon, <1>1, <1>2, <1>3

LEMMA OpenStep ==
  ASSUME CircuitInv, NEW c \in Calls, Geocode(c) \/ RecordFailure(c), faults = 0
  PROVE  OpenIsRemembered'
<1>0. CallsOK /\ CallStep(c) /\ OpenIsRemembered
  BY Types, GeocodeCall, RecordCall DEF CircuitInv
<1>1. CASE Open(c)
  <2>1. At(c, "remember")'
    BY <1>0, <1>1, CallMoves DEF Open, Recording, At
  <2> QED BY Zenon, <2>1 DEF OpenIsRemembered
<1>2. CASE Remember(c)
  BY Zenon, <1>2 DEF Remember, SetEverOpened, OpenIsRemembered
<1>3. CASE ResetCircuit(c)
  BY Zenon, <1>3 DEF ResetCircuit, DelAll, OpenIsRemembered
<1>4. CASE ~(Open(c) \/ Remember(c) \/ ResetCircuit(c))
  <2>1. UNCHANGED <<open, everOpened>> /\ ~At(c, "remember")
    BY <1>4 DEF Geocode, Ask, ReadCircuit, ReadEverOpened, TakeToken, Fetch,
         FillCache, RecordFailure, Count, Expire, Clear, Free, keys, At,
         SetToken, Incr, ExpireFailures, ClearFailures, DelToken
  <2>2. \A d \in Calls : At(d, "remember") => At(d, "remember")'
    BY <1>0, <2>1 DEF CallStep, At
  <2> QED BY Zenon, <1>0, <2>1, <2>2 DEF OpenIsRemembered
<1> QED BY <1>1, <1>2, <1>3, <1>4

LEMMA ExpireStep ==
  ASSUME CircuitInv, NEW c \in Calls, Geocode(c) \/ RecordFailure(c), faults = 0
  PROVE  FailuresExpire'
<1>0. CallsOK /\ CallStep(c) /\ FailuresExpire /\ failures \in Nat
  BY Types, GeocodeCall, RecordCall DEF CircuitInv, CounterOK
<1>1. CASE Count(c) /\ failures = 0
  <2>1. To(c, "expire")
    BY <1>1 DEF Count, IsFirst
  <2>2. At(c, "expire")'
    BY <1>0, <2>1, CallMoves DEF Recording, At
  <2> QED BY Zenon, <2>2 DEF FailuresExpire
<1>2. CASE Count(c) /\ failures # 0
  <2>1. expiring' = expiring /\ ~At(c, "expire") /\ failures > 0
    BY <1>0, <1>2 DEF Count, Incr, At
  <2>2. \A d \in Calls : At(d, "expire") => At(d, "expire")'
    BY <1>0, <2>1 DEF CallStep, At
  <2> QED BY Zenon, <1>0, <2>1, <2>2 DEF FailuresExpire
<1>3. CASE Expire(c)
  BY <1>3 DEF Expire, ExpireFailures, FailuresExpire
<1>4. CASE ResetCircuit(c) \/ Clear(c)
  <2>1. failures' = 0
    BY <1>4 DEF ResetCircuit, DelAll, Clear, ClearFailures, DelFailures
  <2> QED BY <2>1 DEF FailuresExpire
<1>5. CASE ~(Count(c) \/ Expire(c) \/ ResetCircuit(c) \/ Clear(c))
  <2>1. UNCHANGED <<failures, expiring>> /\ ~At(c, "expire")
    BY <1>5 DEF Geocode, Ask, ReadCircuit, ReadEverOpened, TakeToken, Fetch,
         FillCache, RecordFailure, Open, Remember, Free, keys, At,
         SetToken, SetOpen, SetEverOpened, DelToken
  <2>2. \A d \in Calls : At(d, "expire") => At(d, "expire")'
    BY <1>0, <2>1 DEF CallStep, At
  <2> QED BY Zenon, <1>0, <2>1, <2>2 DEF FailuresExpire
<1> QED BY <1>1, <1>2, <1>3, <1>4, <1>5

\* The calls that are about to clear a counter at the threshold.
Acts(c) ==
  \/ call[c].pc \in {"open", "remember", "clear"}
  \/ Threshold = 1 /\ At(c, "expire")

LEMMA ThresholdStep ==
  ASSUME CircuitInv, NEW c \in Calls, Geocode(c) \/ RecordFailure(c), faults = 0
  PROVE  ThresholdOpens'
<1>0. CallsOK /\ CallStep(c) /\ failures \in Nat
  BY Types, GeocodeCall, RecordCall DEF CircuitInv, CounterOK
<1>a. failures >= Threshold => \E d \in Calls : Acts(d)
  BY DEF CircuitInv, ThresholdOpens, Acts
<1>b. ASSUME \E d \in Calls : Acts(d)' PROVE ThresholdOpens'
  BY Zenon, <1>b DEF ThresholdOpens, Acts
<1>1. CASE Count(c)
  <2>1. SUFFICES ASSUME failures + 1 >= Threshold PROVE \E d \in Calls : Acts(d)'
    BY <1>b, <1>1 DEF Count, Incr, ThresholdOpens
  <2>2. CASE failures = 0
    <3>1. To(c, "expire") /\ Threshold = 1
      BY <1>1, <2>1, <2>2, CircuitAssumption DEF Count, IsFirst
    <3>2. Acts(c)'
      BY <1>0, <3>1, CallMoves DEF Recording, Acts, At
    <3> QED BY Zenon, <3>2
  <2>3. CASE failures # 0
    <3>1. To(c, "open")
      BY <1>0, <1>1, <2>1, <2>3 DEF Count, IsFirst, Counted, Opens
    <3>2. Acts(c)'
      BY <1>0, <3>1, CallMoves DEF Recording, Acts, At
    <3> QED BY Zenon, <3>2
  <2> QED BY <2>2, <2>3
<1>2. CASE Expire(c)
  <2>1. failures' = failures
    BY <1>2 DEF Expire, ExpireFailures
  <2>2. CASE Threshold = 1
    <3>1. To(c, "open")
      BY <1>2, <2>2 DEF Expire, Counted, Opens
    <3>2. Acts(c)'
      BY <1>0, <3>1, CallMoves DEF Recording, Acts, At
    <3> QED BY Zenon, <1>b, <3>2
  <2>3. CASE Threshold # 1
    <3>1. ~Acts(c)
      BY <1>2, <2>3 DEF Expire, At, Acts
    <3>2. \A d \in Calls : Acts(d) => Acts(d)'
      BY <1>0, <3>1 DEF CallStep, Acts, At
    <3> QED BY <1>a, <1>b, <2>1, <3>2 DEF ThresholdOpens
  <2> QED BY <2>2, <2>3
<1>3. CASE ResetCircuit(c) \/ Clear(c)
  <2>1. failures' = 0
    BY <1>3 DEF ResetCircuit, DelAll, Clear, ClearFailures, DelFailures
  <2> QED BY <2>1, CircuitAssumption DEF ThresholdOpens
<1>4. CASE Open(c) \/ Remember(c)
  <2>1. Acts(c)'
    BY <1>0, <1>4, CallMoves DEF Open, Remember, Recording, Acts
  <2> QED BY Zenon, <1>b, <2>1
<1>5. CASE ~(Count(c) \/ Expire(c) \/ ResetCircuit(c) \/ Clear(c)
             \/ Open(c) \/ Remember(c))
  <2>1. failures' = failures /\ ~Acts(c)
    BY <1>5 DEF Geocode, Ask, ReadCircuit, ReadEverOpened, TakeToken, Fetch,
         FillCache, RecordFailure, Free, keys, At, Acts, SetToken, DelToken
  <2>2. \A d \in Calls : Acts(d) => Acts(d)'
    BY <1>0, <2>1 DEF CallStep, Acts, At
  <2> QED BY <1>a, <1>b, <2>1, <2>2 DEF ThresholdOpens
<1> QED BY <1>1, <1>2, <1>3, <1>4, <1>5

\* Faults included.
LEMMA ProbeStep ==
  ASSUME CircuitInv, NEW c \in Calls,
         Geocode(c) \/ RecordFailure(c) \/ Throws(c) \/ Crash(c)
  PROVE  ProbesHaveTheToken'
<1>0. /\ CallsOK /\ CallStep(c) /\ KeysStep(c) /\ ProbesHaveTheToken
      /\ NoOne \notin Calls
  BY Types, CallSteps, KeysStepOfCall, CircuitAssumption DEF CircuitInv
<1>1. SUFFICES ASSUME NEW d \in Calls, call'[d].probe, d \notin lost'
               PROVE  token' = d
  BY Zenon DEF ProbesHaveTheToken
<1>2. CASE call[d].probe
  <2>1. d \notin lost => token = d
    BY Zenon, <1>0, <1>2 DEF ProbesHaveTheToken
  <2>2. CASE UNCHANGED <<token, lost>>
    BY Zenon, <1>1, <2>1, <2>2
  <2>3. CASE SetToken(c)
    BY <1>0, <1>1, <1>2, <2>1, <2>3 DEF SetToken
  <2>4. CASE DelAll
    BY <1>1, <1>2, <2>4 DEF DelAll
  <2>5. CASE At(c, "free") /\ DelToken(c)
    <3>1. d # c
      BY <1>0, <1>1, <2>5 DEF CallStep
    <3>2. call[c].probe /\ (c \notin lost => token = c)
      BY <1>0, <2>5 DEF CallsOK, ProbesHaveTheToken
    <3>3. c \in lost /\ token = d
      BY Zenon, <1>1, <2>1, <2>5, <3>1, <3>2 DEF DelToken
    <3>4. d \in lost'
      BY <1>0, <2>5, <3>3 DEF DelToken
    <3> QED BY <1>1, <3>4
  <2> QED BY Zenon, <1>0, <2>2, <2>3, <2>4, <2>5
      DEF KeysStep, keys, Incr, ExpireFailures, SetOpen, SetEverOpened, ClearFailures
<1>3. CASE ~call[d].probe
  <2>1. d = c /\ TakeToken(c) /\ Takes(c)
    BY <1>0, <1>1, <1>3 DEF CallStep
  <2> QED BY Zenon, <2>1 DEF TakeToken, SetToken, Takes
<1> QED BY <1>2, <1>3

\* Times to live take away: the counter with its time to live, the open circuit
\* and the token, whose call is then among the lost ones.
LEMMA ExpiryStep ==
  ASSUME CircuitInv, CoolDown \/ Forget \/ TokenExpires \/ UNCHANGED vars
  PROVE  /\ OpenIsRemembered' /\ FailuresExpire'
         /\ ThresholdOpens' /\ ProbesHaveTheToken'
<1>0. /\ OpenIsRemembered /\ FailuresExpire /\ ThresholdOpens
      /\ ProbesHaveTheToken /\ failures \in Nat /\ NoOne \notin Calls
  BY Types, CircuitAssumption DEF CircuitInv, CounterOK
<1>1. UNCHANGED <<call, faults, everOpened>> /\ (open' => open)
  BY DEF CoolDown, Forget, TokenExpires, vars, keys
<1>2. UNCHANGED <<failures, expiring>> \/ failures' = 0
  BY DEF CoolDown, Forget, TokenExpires, DelFailures, vars, keys
<1>3. OpenIsRemembered'
  BY Zenon, <1>0, <1>1 DEF OpenIsRemembered, At
<1>4. FailuresExpire'
  BY <1>0, <1>1, <1>2 DEF FailuresExpire, At
<1>5. ThresholdOpens'
  BY <1>0, <1>1, <1>2, CircuitAssumption DEF ThresholdOpens, At
<1>6. ProbesHaveTheToken'
  <2>1. \/ UNCHANGED <<token, lost>>
        \/ lost' = lost \cup {token}
    BY DEF CoolDown, Forget, TokenExpires, vars, keys
  <2> QED BY Zenon, <1>0, <1>1, <2>1 DEF ProbesHaveTheToken
<1> QED BY <1>3, <1>4, <1>5, <1>6

LEMMA NextInv == ASSUME CircuitInv, [Next]_vars PROVE CircuitInv'
<1>1. TypeOK'
  BY TypeStep DEF CircuitInv
<1>2. CASE CoolDown \/ Forget \/ TokenExpires \/ UNCHANGED vars
  BY <1>1, <1>2, ExpiryStep DEF CircuitInv
<1>3. ASSUME NEW c \in Calls, Geocode(c) \/ RecordFailure(c), faults' = faults
      PROVE  CircuitInv'
  <2>1. CASE faults = 0
    BY <1>1, <1>3, <2>1, OpenStep, ExpireStep, ThresholdStep, ProbeStep
       DEF CircuitInv
  <2>2. CASE faults # 0
    BY <1>1, <1>3, <2>2, ProbeStep
       DEF CircuitInv, OpenIsRemembered, FailuresExpire, ThresholdOpens
  <2> QED BY <2>1, <2>2
<1>4. ASSUME NEW c \in Calls, Throws(c) \/ Crash(c), faults' # 0
      PROVE  CircuitInv'
  BY <1>1, <1>4, ProbeStep
     DEF CircuitInv, OpenIsRemembered, FailuresExpire, ThresholdOpens
<1> QED BY <1>2, <1>3, <1>4, StepKinds DEF CircuitInv

-----------------------------------------------------------------------------
(***************************************************************************)
(* Theorems                                                                *)
(***************************************************************************)
\* In every behaviour of the calls the keys of the circuit breaker and the
\* calls that use them satisfy CircuitInv.
THEOREM CircuitInvariant == Spec => []CircuitInv
<1>1. Init => CircuitInv
  BY InitInv
<1>2. CircuitInv /\ [Next]_vars => CircuitInv'
  BY NextInv
<1> QED BY <1>1, <1>2, PTL DEF Spec

\* An open circuit closes through a probe (recordFailure writes :ever-opened
\* after :open), whatever calls reset it in between.
THEOREM OpenCircuitIsRemembered == Spec => []OpenIsRemembered
<1>1. CircuitInv => OpenIsRemembered
  BY DEF CircuitInv
<1> QED BY <1>1, CircuitInvariant, PTL

\* The counter of failures expires (PEXPIRE after the INCR that returned 1),
\* however many calls count and clear at once.
THEOREM FailureCountsExpire == Spec => []FailuresExpire
<1>1. CircuitInv => FailuresExpire
  BY DEF CircuitInv
<1> QED BY <1>1, CircuitInvariant, PTL

\* A counter at the threshold has a call that opens the circuit.
THEOREM ThresholdIsActedOn == Spec => []ThresholdOpens
<1>1. CircuitInv => ThresholdOpens
  BY DEF CircuitInv
<1> QED BY <1>1, CircuitInvariant, PTL

\* A half-open probe has the token as long as nothing took it (SET NX of
\* :half-open), so two of them have not; faults included.
THEOREM ProbesKeepTheToken == Spec => []ProbesHaveTheToken
<1>1. CircuitInv => ProbesHaveTheToken
  BY DEF CircuitInv
<1> QED BY <1>1, CircuitInvariant, PTL

=============================================================================
