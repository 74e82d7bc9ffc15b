------------------------- MODULE GeocodeSlotsProofs -------------------------
(***************************************************************************)
(* Proofs about GeocodeSlots: the rate limit holds for any number of       *)
(* processes, any limit, window, delay and difference between clocks.      *)
(***************************************************************************)
EXTENDS GeocodeSlots, FiniteSetTheorems, TLAPS

-----------------------------------------------------------------------------
(***************************************************************************)
(* Entries and their passes                                                *)
(***************************************************************************)
Ids(E) == {e.id : e \in E}

\* A set of entries is as large as the set of their passes.
LEMMA AsManyAsTheirPasses ==
  ASSUME NEW E, IsFiniteSet(E), \A e, f \in E : e.id = f.id => e = f
  PROVE  IsFiniteSet(Ids(E)) /\ Cardinality(Ids(E)) = Cardinality(E)
<1> DEFINE id == [e \in E |-> e.id]
<1>1. id \in Surjection(E, Ids(E))
  BY DEF Ids, Surjection
<1>2. id \in Injection(E, Ids(E))
  BY DEF Ids, Injection, IsInjective
<1>3. QED  BY <1>1, <1>2, FS_Surjection

LEMMA KeptEntries ==
  ASSUME TypeOK, EntriesTellThePasses, NEW p \in Procs
  PROVE  /\ IsFiniteSet(Kept(p)) /\ Cardinality(Kept(p)) \in Nat
         /\ IsFiniteSet(Ids(Kept(p)))
         /\ Cardinality(Ids(Kept(p))) = Cardinality(Kept(p))
         /\ Ids(Kept(p)) \subseteq 1 .. Len(passes)
<1>1. Kept(p) \subseteq slots
  BY DEF Kept
<1>2. IsFiniteSet(Kept(p))
  BY <1>1, FS_Subset DEF EntriesTellThePasses
<1>3. \A e, f \in Kept(p) : e.id = f.id => e = f
  BY <1>1 DEF EntriesTellThePasses
<1>4. Ids(Kept(p)) \subseteq 1 .. Len(passes)
  BY <1>1 DEF TypeOK, Ids
<1>5. QED  BY <1>2, <1>3, <1>4, AsManyAsTheirPasses, FS_CardinalityType

\* What a call that asks has read, and the bounds of what it read.
LEMMA ClockBounds ==
  ASSUME TypeOK, ClocksAreFresh, NEW p \in Procs, call[p].pc = "asking"
  PROVE  /\ call[p].clock \in Nat
         /\ call[p].clock <= now + MaxSkew
         /\ now <= call[p].clock + MaxDelay
<1>1. call[p].clock \in Nat /\ Skew[p] \in 0 .. MaxSkew /\ MaxDelay \in Nat
         /\ MaxSkew \in Nat /\ now \in Nat
  BY SlotsAssumption DEF TypeOK, Call
<1>2. call[p].clock - Skew[p] <= now /\ now <= call[p].clock - Skew[p] + MaxDelay
  BY DEF ClocksAreFresh, ReadAt
<1>3. QED  BY <1>1, <1>2

\* A pass of the last window, less the tolerance, is among the entries kept.
LEMMA RecentPassesCount ==
  ASSUME SlotsInv, NEW p \in Procs, call[p].pc = "asking",
         NEW k \in DOMAIN passes, now < passes[k] + Window - Tolerance
  PROVE  k \in Ids(Kept(p))
<1>1. /\ now \in Nat /\ Window \in Nat /\ MaxDelay \in Nat /\ MaxSkew \in Nat
      /\ passes \in Seq(Nat) /\ Len(passes) \in Nat /\ k \in 1 .. Len(passes)
      /\ passes[k] \in Nat /\ passes[Len(passes)] \in Nat
      /\ Len(passes) \in DOMAIN passes /\ k <= Len(passes)
  BY SlotsAssumption DEF SlotsInv, TypeOK
<1>2. Tolerance = MaxDelay + MaxSkew /\ Tolerance \in Nat
  BY <1>1 DEF Tolerance
<1>3. PICK e \in slots : e.id = k
  BY <1>1, <1>2 DEF SlotsInv, EntriesTellThePasses
<1>4. now < expires
  <2>1. passes[k] <= passes[Len(passes)] /\ expires = passes[Len(passes)] + Window
    BY <1>1 DEF SlotsInv, PassesInOrder
  <2>2. QED  BY <1>1, <1>2, <2>1
<1>5. e.score > call[p].clock - Window
  <2>1. e.score \in Nat /\ e.score >= passes[k] - MaxDelay
    BY <1>3 DEF SlotsInv, TypeOK, EntriesTellThePasses
  <2>2. call[p].clock \in Nat /\ call[p].clock <= now + MaxSkew
    BY ClockBounds DEF SlotsInv
  <2>3. passes[k] \in Nat /\ now \in Nat /\ now < passes[k] + Window - Tolerance
    BY <1>1
  <2>4. QED
    BY <1>1, <1>2, <2>1, <2>2, <2>3,
       \A t, n, s, c, w, d, z \in Nat :
         n < t + w - (d + z) /\ s >= t - d /\ c <= n + z => s > c - w
<1>6. QED  BY <1>3, <1>4, <1>5 DEF Kept, Ids

\* If there is room, the pass Limit passes ago is a window old.
LEMMA RoomMeansWindowPassed ==
  ASSUME SlotsInv, NEW p \in Procs, call[p].pc = "asking", HasRoom(p),
         NEW k \in DOMAIN passes, k + Limit = Len(passes) + 1
  PROVE  now - passes[k] >= Window - Tolerance
<1>1. /\ now \in Nat /\ Window \in Nat /\ MaxDelay \in Nat /\ MaxSkew \in Nat
      /\ Limit \in Nat \ {0} /\ passes \in Seq(Nat) /\ Len(passes) \in Nat /\ k \in 1 .. Len(passes)
  BY SlotsAssumption DEF SlotsInv, TypeOK
<1>2. SUFFICES ASSUME now - passes[k] < Window - Tolerance PROVE FALSE
  BY <1>1 DEF Tolerance
<1>3. \A j \in k .. Len(passes) : j \in Ids(Kept(p))
  <2> SUFFICES ASSUME NEW j \in k .. Len(passes) PROVE j \in Ids(Kept(p))
    OBVIOUS
  <2>1. j \in DOMAIN passes /\ passes[j] \in Nat /\ passes[k] \in Nat
    BY <1>1
  <2>2. passes[k] <= passes[j]
    BY <2>1, <1>1 DEF SlotsInv, PassesInOrder
  <2>3. now < passes[j] + Window - Tolerance
    BY <1>1, <1>2, <2>1, <2>2 DEF Tolerance
  <2>4. QED  BY <2>1, <2>3, RecentPassesCount
<1>4. /\ IsFiniteSet(Ids(Kept(p))) /\ Cardinality(Kept(p)) \in Nat
      /\ Cardinality(Ids(Kept(p))) = Cardinality(Kept(p))
  BY KeptEntries DEF SlotsInv
<1>5. k .. Len(passes) \in SUBSET Ids(Kept(p))
  BY <1>3
<1>6. Cardinality(k .. Len(passes)) <= Cardinality(Ids(Kept(p)))
  BY <1>4, <1>5, FS_Subset
<1>7. Cardinality(k .. Len(passes)) = Limit
  <2>1. k \in Int /\ Len(passes) \in Int /\ ~(k > Len(passes))
        /\ Len(passes) - k + 1 = Limit
    <3>1. k \in Nat /\ Limit \in Nat /\ Limit >= 1 /\ Len(passes) \in Nat
      BY <1>1
    <3>2. k + Limit = Len(passes) + 1
      OBVIOUS
    <3>3. QED  BY <3>1, <3>2
  <2>2. Cardinality(k .. Len(passes)) = IF k > Len(passes) THEN 0
                                     ELSE Len(passes) - k + 1
    BY <2>1, FS_Interval
  <2>3. QED  BY <2>1, <2>2
<1>8. QED  BY <1>1, <1>4, <1>6, <1>7 DEF HasRoom

\* A call that has to wait gets a positive time to wait.
LEMMA WaitsArePositive ==
  ASSUME TypeOK, NEW p \in Procs, NEW e \in Kept(p)
  PROVE  e.score + Window - call[p].clock > 0
BY SlotsAssumption DEF TypeOK, Kept, Call

-----------------------------------------------------------------------------
(***************************************************************************)
(* The invariant                                                           *)
(***************************************************************************)
LEMMA InitInv == Init => SlotsInv
<1> SUFFICES ASSUME Init PROVE SlotsInv
  OBVIOUS
<1>1. TypeOK
  BY DEF Init, TypeOK, Call, Idle
<1>2. ClocksAreFresh
  BY DEF Init, ClocksAreFresh, Idle
<1>3. PassesInOrder /\ RateHolds
  BY DEF Init, PassesInOrder, RateHolds
<1>4. EntriesTellThePasses
  BY FS_EmptySet DEF Init, EntriesTellThePasses
<1>5. QED  BY <1>1, <1>2, <1>3, <1>4 DEF SlotsInv

\* A step of one call that leaves the entries and the passes alone.
LEMMA CallStep ==
  ASSUME SlotsInv, NEW p \in Procs, NEW c \in Call,
         c.pc = "asking" => /\ c.clock - Skew[p] <= now
                            /\ now <= c.clock - Skew[p] + MaxDelay,
         call' = [call EXCEPT ![p] = c],
         UNCHANGED <<now, slots, expires, passes>>
  PROVE  SlotsInv'
<1>1. TypeOK'
  BY DEF SlotsInv, TypeOK
<1>2. ClocksAreFresh'
  <2> SUFFICES ASSUME NEW q \in Procs, call'[q].pc = "asking"
               PROVE  /\ call'[q].clock - Skew[q] <= now
                      /\ now <= call'[q].clock - Skew[q] + MaxDelay
    BY DEF ClocksAreFresh, ReadAt
  <2>1. CASE q = p
    BY <2>1 DEF SlotsInv, TypeOK
  <2>2. CASE q # p
    BY <2>2 DEF SlotsInv, TypeOK, ClocksAreFresh, ReadAt
  <2>3. QED  BY <2>1, <2>2
<1>3. PassesInOrder'
  BY DEF SlotsInv, PassesInOrder
<1>4. EntriesTellThePasses'
  BY DEF SlotsInv, EntriesTellThePasses
<1>5. RateHolds'
  BY DEF SlotsInv, RateHolds
<1>6. QED  BY <1>1, <1>2, <1>3, <1>4, <1>5 DEF SlotsInv

LEMMA ReadClockInv ==
  ASSUME SlotsInv, NEW p \in Procs, ReadClock(p),
         UNCHANGED <<now, slots, expires, passes>>
  PROVE  SlotsInv'
<1>1. /\ now \in Nat /\ Skew[p] \in Nat /\ MaxDelay \in Nat
      /\ Clock(p) \in Nat /\ Clock(p) - Skew[p] = now
  BY SlotsAssumption DEF SlotsInv, TypeOK, Clock
<1>2. Asking(Clock(p)) \in Call /\ Asking(Clock(p)).clock = Clock(p)
  BY <1>1 DEF Asking, Call
<1>3. /\ Asking(Clock(p)).clock - Skew[p] <= now
      /\ now <= Asking(Clock(p)).clock - Skew[p] + MaxDelay
  BY <1>1, <1>2
<1>4. QED  BY <1>2, <1>3, CallStep DEF ReadClock

LEMMA RestInv ==
  ASSUME SlotsInv, NEW p \in Procs, NEW c \in Call, c.pc # "asking",
         call' = [call EXCEPT ![p] = c],
         UNCHANGED <<now, slots, expires, passes>>
  PROVE  SlotsInv'
BY CallStep

LEMMA TickInv == ASSUME SlotsInv, Tick PROVE SlotsInv'
<1>1. now \in Nat /\ MaxDelay \in Nat /\ MaxSkew \in Nat /\ Window \in Nat
      /\ now' = now + 1 /\ UNCHANGED <<slots, expires, call, passes>>
  BY SlotsAssumption DEF SlotsInv, TypeOK, Tick
<1>2. TypeOK'
  BY <1>1 DEF SlotsInv, TypeOK
<1>3. ClocksAreFresh'
  <2> SUFFICES ASSUME NEW p \in Procs, call[p].pc = "asking"
               PROVE  ReadAt(p) <= now + 1 /\ now + 1 <= ReadAt(p) + MaxDelay
    BY <1>1 DEF ClocksAreFresh, ReadAt
  <2>1. ReadAt(p) \in Int
    BY SlotsAssumption DEF ReadAt, SlotsInv, TypeOK, Call
  <2>2. ReadAt(p) <= now /\ now < ReadAt(p) + MaxDelay
    BY DEF SlotsInv, ClocksAreFresh, Tick
  <2>3. QED  BY <1>1, <2>1, <2>2
<1>4. PassesInOrder'
  <2>1. \A k \in DOMAIN passes : passes[k] \in Nat /\ passes[k] <= now
    BY DEF SlotsInv, TypeOK, PassesInOrder
  <2>2. \A k \in DOMAIN passes : passes[k] <= now + 1
    BY <1>1, <2>1
  <2>3. QED  BY <1>1, <2>2 DEF SlotsInv, PassesInOrder
<1>5. EntriesTellThePasses'
  <2>1. ASSUME NEW k \in DOMAIN passes, now >= passes[k] + Window - Tolerance
        PROVE  now + 1 >= passes[k] + Window - Tolerance
    <3>1. passes[k] \in Nat /\ Tolerance \in Nat
      BY <1>1 DEF SlotsInv, TypeOK, Tolerance
    <3>2. now >= passes[k] + Window - Tolerance
      BY <2>1
    <3>3. QED  BY <1>1, <3>1, <3>2
  <2>2. QED  BY <1>1, <2>1 DEF SlotsInv, EntriesTellThePasses
<1>6. RateHolds'
  BY <1>1 DEF SlotsInv, RateHolds
<1>7. QED  BY <1>2, <1>3, <1>4, <1>5, <1>6 DEF SlotsInv

\* What the call keeps still tells the passes.
LEMMA KeptTellThePasses ==
  ASSUME SlotsInv, NEW p \in Procs, call[p].pc = "asking"
  PROVE  /\ IsFiniteSet(Kept(p))
         /\ \A e, f \in Kept(p) : e.id = f.id => e = f
         /\ \A e \in Kept(p) :
              /\ e.score \in Nat /\ e.id \in DOMAIN passes
              /\ e.score >= passes[e.id] - MaxDelay
              /\ e.score <= passes[e.id] + MaxSkew
         /\ \A k \in DOMAIN passes :
              \/ \E e \in Kept(p) : e.id = k
              \/ now >= passes[k] + Window - Tolerance
<1>1. Kept(p) \subseteq slots
  BY DEF Kept
<1>2. IsFiniteSet(Kept(p))
  BY KeptEntries DEF SlotsInv
<1>3. ASSUME NEW k \in DOMAIN passes, ~(now >= passes[k] + Window - Tolerance)
      PROVE  \E e \in Kept(p) : e.id = k
  <2>1. /\ now \in Nat /\ passes[k] \in Nat /\ Window \in Nat /\ MaxDelay \in Nat
        /\ MaxSkew \in Nat
    BY SlotsAssumption DEF SlotsInv, TypeOK
  <2>2. Tolerance \in Nat
    BY <2>1 DEF Tolerance
  <2>3. now < passes[k] + Window - Tolerance
    BY <1>3, <2>1, <2>2
  <2>4. k \in Ids(Kept(p))
    BY <2>3, RecentPassesCount
  <2>5. QED  BY <2>4 DEF Ids
<1>4. QED
  BY <1>1, <1>2, <1>3 DEF SlotsInv, EntriesTellThePasses, TypeOK

LEMMA SleepInv ==
  ASSUME SlotsInv, NEW p \in Procs, call[p].pc = "asking",
         NEW wakeAt \in Nat, call' = [call EXCEPT ![p] = Sleeping(wakeAt)],
         slots' = Kept(p), UNCHANGED <<now, expires, passes>>
  PROVE  SlotsInv'
<1>1. TypeOK'
  BY KeptTellThePasses DEF SlotsInv, TypeOK, Call, Sleeping, Kept
<1>2. ClocksAreFresh'
  BY DEF SlotsInv, TypeOK, ClocksAreFresh, ReadAt, Sleeping
<1>3. PassesInOrder'
  BY DEF SlotsInv, PassesInOrder
<1>4. EntriesTellThePasses'
  BY KeptTellThePasses DEF EntriesTellThePasses, Tolerance
<1>5. RateHolds'
  BY DEF SlotsInv, RateHolds
<1>6. QED  BY <1>1, <1>2, <1>3, <1>4, <1>5 DEF SlotsInv

LEMMA EnterInv ==
  ASSUME SlotsInv, NEW p \in Procs, call[p].pc = "asking", Enter(p),
         UNCHANGED now
  PROVE  SlotsInv'
<1> DEFINE n == Len(passes) + 1
           new == [score |-> call[p].clock, id |-> n]
<1>1. /\ now \in Nat /\ Window \in Nat \ {0} /\ MaxDelay \in Nat /\ MaxSkew \in Nat
      /\ Limit \in Nat \ {0} /\ passes \in Seq(Nat) /\ Len(passes) \in Nat
      /\ Tolerance \in Nat
  BY SlotsAssumption DEF SlotsInv, TypeOK, Tolerance
<1>2. /\ passes' = Append(passes, now) /\ slots' = Kept(p) \cup {new}
      /\ expires' = now + Window /\ call' = [call EXCEPT ![p] = Idle] /\ now' = now
  BY DEF Enter, Pass
<1>3. /\ passes' \in Seq(Nat) /\ Len(passes') = n /\ passes'[n] = now
      /\ DOMAIN passes = 1 .. Len(passes) /\ DOMAIN passes' = 1 .. n
      /\ \A k \in DOMAIN passes : passes'[k] = passes[k] /\ passes[k] \in Nat
  BY <1>1, <1>2
<1>4. /\ call[p].clock \in Nat /\ call[p].clock <= now + MaxSkew
      /\ now <= call[p].clock + MaxDelay
  BY ClockBounds DEF SlotsInv
<1>5. TypeOK'
  <2>1. slots' \subseteq [score : Nat, id : DOMAIN passes']
    BY <1>1, <1>2, <1>3, <1>4, KeptTellThePasses DEF Kept, SlotsInv, TypeOK
  <2>2. QED  BY <1>1, <1>2, <1>3, <2>1 DEF SlotsInv, TypeOK, Call, Idle
<1>6. ClocksAreFresh'
  BY <1>2 DEF SlotsInv, TypeOK, ClocksAreFresh, ReadAt, Idle
<1>7. PassesInOrder'
  <2>1. \A k \in DOMAIN passes : passes[k] <= now
    BY DEF SlotsInv, PassesInOrder
  <2>2. \A k \in DOMAIN passes' : passes'[k] <= now
    BY <1>1, <1>3, <2>1
  <2>3. ASSUME NEW j \in DOMAIN passes', NEW k \in DOMAIN passes', j <= k
        PROVE  passes'[j] <= passes'[k]
    <3>1. CASE k = n
      BY <1>3, <2>2, <3>1
    <3>2. CASE k # n
      <4>1. j \in DOMAIN passes /\ k \in DOMAIN passes
        BY <1>1, <1>3, <2>3, <3>2
      <4>2. QED  BY <1>3, <2>3, <4>1 DEF SlotsInv, PassesInOrder
    <3>3. QED  BY <3>1, <3>2
  <2>4. QED  BY <1>2, <1>3, <2>2, <2>3 DEF PassesInOrder
<1>8. EntriesTellThePasses'
  <2>1. IsFiniteSet(slots')
    BY <1>2, KeptTellThePasses, FS_AddElement
  <2>2. \A e \in Kept(p) : e.id \in DOMAIN passes /\ e.id # n
    BY <1>1, <1>3, KeptTellThePasses
  <2>3. \A e, f \in slots' : e.id = f.id => e = f
    BY <1>2, <2>2, KeptTellThePasses
  <2>4. \A e \in slots' : /\ e.score >= passes'[e.id] - MaxDelay
                         /\ e.score <= passes'[e.id] + MaxSkew
    <3> SUFFICES ASSUME NEW e \in slots'
                 PROVE  /\ e.score >= passes'[e.id] - MaxDelay
                        /\ e.score <= passes'[e.id] + MaxSkew
      OBVIOUS
    <3>1. CASE e \in Kept(p)
      BY <1>3, <3>1, KeptTellThePasses
    <3>2. CASE e = new
      BY <1>1, <1>3, <1>4, <3>2
    <3>3. QED  BY <1>2, <3>1, <3>2
  <2>5. ASSUME NEW k \in DOMAIN passes'
        PROVE  \/ \E e \in slots' : e.id = k
               \/ now >= passes'[k] + Window - Tolerance
    <3>1. CASE k = n
      <4>1. new \in slots' /\ new.id = n
        BY <1>2
      <4>2. QED  BY <3>1, <4>1
    <3>2. CASE k # n
      <4>1. k \in DOMAIN passes
        BY <1>1, <1>3, <3>2
      <4>2. passes'[k] = passes[k]
        BY <1>3, <4>1
      <4>3. \/ \E e \in Kept(p) : e.id = k
            \/ now >= passes[k] + Window - Tolerance
        BY <4>1, KeptTellThePasses
      <4>4. QED  BY <1>2, <4>2, <4>3
    <3>3. QED  BY <3>1, <3>2
  <2>6. QED  BY <1>2, <2>1, <2>3, <2>4, <2>5 DEF EntriesTellThePasses, Tolerance
<1>9. RateHolds'
  <2> SUFFICES ASSUME NEW k \in DOMAIN passes', k + Limit \in DOMAIN passes'
               PROVE  passes'[k + Limit] - passes'[k] >= Window - Tolerance
    BY DEF RateHolds, Tolerance
  <2>1. k \in DOMAIN passes
    BY <1>1, <1>3
  <2>2. CASE k + Limit = n
    BY <1>2, <1>3, <2>1, <2>2, RoomMeansWindowPassed DEF Enter
  <2>3. CASE k + Limit # n
    <3>1. k + Limit \in DOMAIN passes
      BY <1>1, <1>3, <2>3
    <3>2. QED  BY <1>3, <2>1, <3>1 DEF SlotsInv, RateHolds
  <2>4. QED  BY <2>2, <2>3
<1>10. QED  BY <1>5, <1>6, <1>7, <1>8, <1>9 DEF SlotsInv

LEMMA WaitEnds ==
  ASSUME SlotsInv, NEW p \in Procs, Wait(p)
  PROVE  \E e \in Kept(p) :
           /\ Oldest(e, p)
           /\ call' = [call EXCEPT ![p] =
                Sleeping(now + (e.score + Window - call[p].clock))]
           /\ e.score + Window - call[p].clock > 0
           /\ UNCHANGED passes
<1>1. PICK e \in Kept(p) :
        LET waitMs == e.score + Window - call[p].clock IN
        /\ Oldest(e, p)
        /\ IF waitMs <= 0 THEN Pass(p)
           ELSE /\ call' = [call EXCEPT ![p] = Sleeping(now + waitMs)]
                /\ UNCHANGED passes
  BY DEF Wait
<1>2. e.score + Window - call[p].clock > 0
  BY WaitsArePositive DEF SlotsInv
<1>3. e.score \in Nat /\ Window \in Nat /\ call[p].clock \in Nat
  BY SlotsAssumption DEF Kept, SlotsInv, TypeOK, Call
<1>4. ~(e.score + Window - call[p].clock <= 0)
  BY <1>2, <1>3
<1>5. QED  BY <1>1, <1>2, <1>4

LEMMA WaitInv ==
  ASSUME SlotsInv, NEW p \in Procs, call[p].pc = "asking", Wait(p), UNCHANGED now
  PROVE  SlotsInv'
<1>1. PICK e \in Kept(p) :
        /\ call' = [call EXCEPT ![p] =
             Sleeping(now + (e.score + Window - call[p].clock))]
        /\ e.score + Window - call[p].clock > 0
        /\ UNCHANGED passes
  BY WaitEnds
<1>2. now \in Nat /\ e.score \in Nat /\ Window \in Nat /\ call[p].clock \in Nat
  BY SlotsAssumption DEF Kept, SlotsInv, TypeOK, Call
<1>3. now + (e.score + Window - call[p].clock) \in Nat
  BY <1>1, <1>2
<1>4. slots' = Kept(p) /\ UNCHANGED expires
  BY DEF Wait
<1>5. QED  BY <1>1, <1>3, <1>4, SleepInv

LEMMA NextInv == ASSUME SlotsInv, [Next]_vars PROVE SlotsInv'
<1>1. ASSUME NEW p \in Procs, Ask(p) PROVE SlotsInv'
  BY <1>1, ReadClockInv DEF Ask
<1>2. ASSUME NEW p \in Procs, WakeUp(p) PROVE SlotsInv'
  BY <1>2, ReadClockInv DEF WakeUp
<1>3. ASSUME NEW p \in Procs, Evaluate(p) PROVE SlotsInv'
  BY <1>3, EnterInv, WaitInv DEF Evaluate
<1>4. ASSUME NEW p \in Procs, GiveUp(p) PROVE SlotsInv'
  <2>1. Idle \in Call /\ Idle.pc # "asking"
    BY DEF Idle, Call
  <2>2. QED  BY <1>4, <2>1, RestInv DEF GiveUp
<1>5. CASE Tick
  BY <1>5, TickInv
<1>6. CASE UNCHANGED vars
  BY <1>6 DEF vars, SlotsInv, TypeOK, ClocksAreFresh, ReadAt, PassesInOrder,
       EntriesTellThePasses, RateHolds, Tolerance
<1>7. QED  BY <1>1, <1>2, <1>3, <1>4, <1>5, <1>6 DEF Next

\* The inductive invariant holds in every reachable state.
THEOREM SlotsInvariant == Spec => []SlotsInv
<1>1. Init => SlotsInv
  BY InitInv
<1>2. SlotsInv /\ [Next]_vars => SlotsInv'
  BY NextInv
<1>3. QED  BY <1>1, <1>2, PTL DEF Spec

\* waitForGeocodeSlot keeps the rate over all processes together.
THEOREM RateIsKept == Spec => []RateHolds
<1>1. SlotsInv => RateHolds
  BY DEF SlotsInv
<1>2. QED  BY <1>1, SlotsInvariant, PTL

-----------------------------------------------------------------------------
(***************************************************************************)
(* Waiting                                                                 *)
(***************************************************************************)
\* Without room, an entry is as old as the Limit-th last pass.
LEMMA NoRoomMeansOldEntry ==
  ASSUME SlotsInv, NEW p \in Procs, call[p].pc = "asking", ~HasRoom(p)
  PROVE  /\ Len(passes) >= Limit
         /\ passes[Len(passes) - Limit + 1] \in Nat
         /\ \E e \in Kept(p) :
              e.score <= passes[Len(passes) - Limit + 1] + MaxSkew
<1>1. /\ now \in Nat /\ Window \in Nat /\ MaxDelay \in Nat /\ MaxSkew \in Nat
      /\ Limit \in Nat /\ Limit >= 1 /\ passes \in Seq(Nat) /\ Len(passes) \in Nat
  BY SlotsAssumption DEF SlotsInv, TypeOK
<1>2. /\ IsFiniteSet(Ids(Kept(p))) /\ Cardinality(Kept(p)) \in Nat
      /\ Cardinality(Ids(Kept(p))) = Cardinality(Kept(p))
      /\ Ids(Kept(p)) \subseteq 1 .. Len(passes)
  BY KeptEntries DEF SlotsInv
<1>3. Cardinality(Ids(Kept(p))) >= Limit
  BY <1>1, <1>2 DEF HasRoom
<1> DEFINE last == Len(passes) - Limit + 1
<1>4. PICK k \in Ids(Kept(p)) : k <= last
  <2>1. SUFFICES ASSUME \A k \in Ids(Kept(p)) : ~(k <= last) PROVE FALSE
    OBVIOUS
  <2> DEFINE first == IF last + 1 > 1 THEN last + 1 ELSE 1
  <2>2. Ids(Kept(p)) \subseteq first .. Len(passes)
    BY <1>1, <1>2, <2>1
  <2>3. first \in Int /\ first >= last + 1 /\ last \in Int /\ Len(passes) \in Int
    BY <1>1
  <2>4. /\ IsFiniteSet(first .. Len(passes))
        /\ Cardinality(first .. Len(passes)) =
             IF first > Len(passes) THEN 0 ELSE Len(passes) - first + 1
    BY <2>3, FS_Interval
  <2>5. Cardinality(first .. Len(passes)) < Limit
    <3>1. Len(passes) - first + 1 < Limit
      <4> HIDE DEF first
      <4>1. first \in Int /\ first >= Len(passes) - Limit + 2
        BY <1>1, <2>3
      <4>2. QED  BY <1>1, <4>1
    <3> HIDE DEF first
    <3>2. QED  BY <1>1, <2>4, <3>1
  <2>6. Cardinality(Ids(Kept(p))) <= Cardinality(first .. Len(passes))
    BY <2>2, <2>4, FS_Subset
  <2>7. Cardinality(first .. Len(passes)) \in Nat
    BY <2>4, FS_CardinalityType
  <2>8. QED  BY <1>1, <1>2, <1>3, <2>5, <2>6, <2>7
<1>5. k \in 1 .. Len(passes)
  BY <1>2
<1>6. last \in DOMAIN passes /\ Len(passes) >= Limit
  BY <1>1, <1>4, <1>5
<1>7. passes[k] <= passes[last] /\ passes[k] \in Nat /\ passes[last] \in Nat
  BY <1>1, <1>4, <1>5, <1>6 DEF SlotsInv, PassesInOrder
<1>8. PICK e \in Kept(p) : e.id = k
  BY <1>4 DEF Ids
<1>9. e.score \in Nat /\ e.score <= passes[k] + MaxSkew
  BY <1>8, KeptTellThePasses
<1>10. e.score <= passes[last] + MaxSkew
  <2> HIDE DEF last
  <2> QED
    BY <1>1, <1>7, <1>9,
       \A x, t, u, z \in Nat : x <= t + z /\ t <= u => x <= u + z
<1>11. QED  BY <1>6, <1>7, <1>10

LEMMA WaitsStep ==
  ASSUME SlotsInv, [Next]_vars, NEW p \in Procs,
         call[p].pc = "asking", call'[p].pc = "sleeping"
  PROVE  /\ Len(passes) >= Limit
         /\ call'[p].wakeAt <=
              passes[Len(passes) - Limit + 1] + Window + Tolerance
<1>1. call \in [Procs -> Call]
  BY DEF SlotsInv, TypeOK
<1>2. Wait(p)
  <2>1. ASSUME NEW q \in Procs, Ask(q) \/ WakeUp(q) PROVE FALSE
    BY <1>1, <2>1 DEF Ask, WakeUp, ReadClock, Asking
  <2>2. ASSUME NEW q \in Procs, GiveUp(q) PROVE FALSE
    BY <1>1, <2>2 DEF GiveUp, Idle
  <2>3. ~Tick /\ ~UNCHANGED vars
    BY DEF Tick, vars
  <2>4. PICK q \in Procs : Evaluate(q)
    BY <2>1, <2>2, <2>3 DEF Next
  <2>5. ~Enter(q)
    BY <1>1 DEF Enter, Pass, Idle
  <2>6. Wait(q)
    BY <2>4, <2>5 DEF Evaluate
  <2>7. q = p
    BY <1>1, <2>6, WaitEnds
  <2>8. QED  BY <2>6, <2>7
<1>3. PICK e \in Kept(p) :
        /\ Oldest(e, p)
        /\ call' = [call EXCEPT ![p] =
             Sleeping(now + (e.score + Window - call[p].clock))]
  BY <1>2, WaitEnds
<1>4. call'[p].wakeAt = now + (e.score + Window - call[p].clock)
  BY <1>1, <1>3 DEF Sleeping
<1> DEFINE then == passes[Len(passes) - Limit + 1]
<1>5. Len(passes) >= Limit /\ then \in Nat
  BY <1>2, NoRoomMeansOldEntry DEF Wait
<1>6. PICK f \in Kept(p) : f.score <= then + MaxSkew
  BY <1>2, NoRoomMeansOldEntry DEF Wait
<1>7. e.score <= f.score /\ e.score \in Nat /\ f.score \in Nat
  BY <1>3, <1>6 DEF Oldest, Kept, SlotsInv, TypeOK
<1>8. now \in Nat /\ Window \in Nat /\ MaxDelay \in Nat /\ MaxSkew \in Nat
  BY SlotsAssumption DEF SlotsInv, TypeOK
<1>9. call[p].clock \in Nat /\ now <= call[p].clock + MaxDelay
  BY ClockBounds DEF SlotsInv
<1>10. call'[p].wakeAt <= then + Window + Tolerance
  <2> HIDE DEF then
  <2>1. e.score <= then + MaxSkew
    BY <1>5, <1>6, <1>7, <1>8
  <2>2. now + (e.score + Window - call[p].clock)
          <= then + Window + (MaxDelay + MaxSkew)
    BY <1>5, <1>7, <1>8, <1>9, <2>1,
       \A n, w, d, z, s, c, t \in Nat :
         s <= t + z /\ n <= c + d => n + (s + w - c) <= t + w + (d + z)
  <2> QED BY <1>4, <2>2 DEF Tolerance
<1>11. QED  BY <1>5, <1>10

\* A call waits only when the provider was asked Limit times in the last
\* window, and no longer than it takes the oldest of them to leave it.
THEOREM NoNeedlessWaits == Spec => WaitsAreNeeded
<1>1. SlotsInv /\ [Next]_vars =>
        \A p \in Procs :
          call[p].pc = "asking" /\ call'[p].pc = "sleeping" =>
            /\ Len(passes) >= Limit
            /\ call'[p].wakeAt <=
                 passes[Len(passes) - Limit + 1] + Window + Tolerance
  BY WaitsStep
<1>2. QED  BY <1>1, SlotsInvariant, PTL DEF Spec, WaitsAreNeeded

=============================================================================
