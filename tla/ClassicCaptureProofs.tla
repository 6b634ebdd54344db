------------------------ MODULE ClassicCaptureProofs ------------------------
(***************************************************************************)
(* Proofs about CircuitBreaker, for every threshold, every timing and any  *)
(* set of callers with the capture loop among them, and about              *)
(* ClassicCapture, for every threshold of the memory controller, in        *)
(* whatever order they are.                                                *)
(***************************************************************************)
EXTENDS ClassicCapture, TLAPS

USE ThresholdsAssumption, TimesAssumption, MaxOpensAssumption

LEMMA InitialBackoffType == InitialBackoff \in Nat \ {0}
<1>1. ResetTimeout \div 2 \in Nat
  OBVIOUS
<1> QED
  BY <1>1 DEF InitialBackoff, AtLeast

\* The fields keep their types; in particular the backoff is never zero, with
\* which an open breaker would admit every call.
THEOREM TypeCorrect == Spec => []TypeOK
<1>1. Init => TypeOK
  BY InitialBackoffType DEF Init, TypeOK, States
<1>2. TypeOK /\ [Next]_vars => TypeOK'
  <2> SUFFICES ASSUME TypeOK, [Next]_vars PROVE TypeOK'
    OBVIOUS
  <2> USE DEF TypeOK, States
  <2>1. ASSUME NEW c \in Callers, Allow(c) PROVE TypeOK'
    BY <2>1 DEF Allow, AllowPasses, AllowTries, AllowRefuses, Admit, vars
  <2>2. ASSUME NEW c \in Callers, RecordSuccess(c) PROVE TypeOK'
    <3>1. /\ state' \in States /\ failures' \in 0 .. MaxFailures
          /\ currentBackoff' \in Nat \ {0} /\ opens' \in 0 .. MaxOpens
      BY <2>2, InitialBackoffType
         DEF RecordSuccess, SuccessClosed, SuccessCloses, SuccessCounted
    <3>2. successes' \in 0 .. HalfOpenSuccesses /\ trial' \in 0 .. HalfOpenSuccesses
      BY <2>2 DEF RecordSuccess, AtMost
    <3>3. /\ call' \in [Callers -> {"idle", "running"}]
          /\ streak' \in 0 .. MaxFailures
          /\ sinceFail' = sinceFail /\ cameraUp' = cameraUp
      BY <2>2 DEF RecordSuccess, Finish
    <3> QED
      BY <3>1, <3>2, <3>3
  <2>3. ASSUME NEW c \in Callers, RecordFailure(c) PROVE TypeOK'
    <3>1. /\ state' \in States
          /\ currentBackoff' \in Nat \ {0} /\ opens' \in 0 .. MaxOpens
      <4>1. NextBackoff \in Nat \ {0} /\ AtMost(opens + 1, MaxOpens) \in 0 .. MaxOpens
        BY DEF NextBackoff, AtMost
      <4>2. Opens \/ UNCHANGED <<state, currentBackoff, opens>>
        BY <2>3 DEF RecordFailure
      <4>3. CASE Opens
        BY <4>1, <4>3 DEF Opens
      <4>4. CASE UNCHANGED <<state, currentBackoff, opens>>
        BY <4>4
      <4> QED
        BY <4>2, <4>3, <4>4
    <3>2. /\ failures' \in 0 .. MaxFailures /\ streak' \in 0 .. MaxFailures
          /\ sinceFail' = 0 /\ successes' = 0 /\ trial' = 0
          /\ call' \in [Callers -> {"idle", "running"}]
          /\ cameraUp' = cameraUp
      BY <2>3 DEF RecordFailure, Finish, AtMost
    <3> QED
      BY <3>1, <3>2
  <2>4. CASE Reset \/ UNCHANGED vars
    BY <2>4 DEF Reset, vars
  <2>5. CASE Tick
    BY <2>5 DEF Tick
  <2>6. CASE CameraChanges
    <3>1. cameraUp' \in BOOLEAN
      BY <2>6, Zenon DEF CameraChanges
    <3> QED
      BY <2>6, <3>1 DEF CameraChanges
  <2> QED
    BY <2>1, <2>2, <2>3, <2>4, <2>5, <2>6 DEF Next, Call, Record
<1> QED
  BY <1>1, <1>2, PTL DEF Spec
-----------------------------------------------------------------------------
\* The breaker's own counters never exceed what was recorded.  Failures may be
\* kept across a success only while the breaker is half-open, and there they are
\* cleared before it closes.
CountersInv ==
  /\ successes <= trial
  /\ state = "Closed" => failures <= streak

LEMMA CountersPreserved ==
  ASSUME TypeOK, CountersInv, [Next]_vars
  PROVE  CountersInv'
<1> USE DEF TypeOK, States, CountersInv
<1>1. ASSUME NEW c \in Callers, Allow(c) PROVE CountersInv'
  BY <1>1 DEF Allow, AllowPasses, AllowTries, AllowRefuses, vars
<1>2. ASSUME NEW c \in Callers, RecordSuccess(c) PROVE CountersInv'
  <2>1. successes' <= trial'
    BY <1>2 DEF RecordSuccess, AtMost
  <2>2. state' = "Closed" => failures' <= streak'
    BY <1>2 DEF RecordSuccess, SuccessClosed, SuccessCloses, SuccessCounted
  <2> QED
    BY <2>1, <2>2
<1>3. ASSUME NEW c \in Callers, RecordFailure(c) PROVE CountersInv'
  <2>1. successes' = 0 /\ trial' = 0
    BY <1>3 DEF RecordFailure
  <2>2. state' = "Closed" => failures' <= streak'
    BY <1>3 DEF RecordFailure, Opens, AtMost
  <2> QED
    BY <2>1, <2>2
<1>4. CASE Reset \/ CameraChanges \/ Tick \/ UNCHANGED vars
  BY <1>4 DEF Reset, CameraChanges, Tick, vars
<1> QED
  BY <1>1, <1>2, <1>3, <1>4 DEF Next, Call, Record

THEOREM CountersCorrect == Spec => []CountersInv
<1>1. Init => CountersInv
  BY DEF Init, CountersInv
<1>2. TypeOK /\ CountersInv /\ [Next]_vars => CountersInv'
  BY CountersPreserved
<1> QED
  BY <1>1, <1>2, TypeCorrect, PTL DEF Spec

\* A half-open breaker closes only on a complete run of successes.
THEOREM ClosesOnlyAfterTrial == Spec => ClosesAfterTrial
<1>1. TypeOK /\ CountersInv /\ [Next]_vars
        => [state = "HalfOpen" /\ state' = "Closed" /\ ~Reset
              => trial' = HalfOpenSuccesses]_vars
  <2> SUFFICES ASSUME TypeOK, CountersInv, Next,
                      state = "HalfOpen", state' = "Closed", ~Reset
               PROVE  trial' = HalfOpenSuccesses
    OBVIOUS
  <2>1. PICK c \in Callers : RecordSuccess(c)
    BY DEF Next, Call, Allow, AllowPasses, AllowTries, AllowRefuses, Record,
           RecordFailure, Opens, Tick, CameraChanges
  <2>2. successes + 1 >= HalfOpenSuccesses
    BY <2>1 DEF RecordSuccess, SuccessClosed, SuccessCloses, SuccessCounted
  <2> QED
    BY <2>1, <2>2 DEF RecordSuccess, CountersInv, TypeOK, AtMost
<1> QED
  BY <1>1, TypeCorrect, CountersCorrect, PTL DEF Spec, ClosesAfterTrial

\* A closed breaker opens only on a complete run of failures.
THEOREM OpensOnlyOnFailures == Spec => OpensOnFailuresInARow
<1>1. TypeOK /\ CountersInv /\ [Next]_vars
        => [state = "Closed" /\ state' = "Open" => streak' = MaxFailures]_vars
  <2> SUFFICES ASSUME TypeOK, CountersInv, Next,
                      state = "Closed", state' = "Open"
               PROVE  streak' = MaxFailures
    OBVIOUS
  <2>1. PICK c \in Callers : RecordFailure(c)
    BY DEF Next, Call, Allow, AllowPasses, AllowTries, AllowRefuses, Record,
           RecordSuccess, SuccessClosed, SuccessCloses, SuccessCounted, Reset,
           Tick, CameraChanges
  <2>2. failures' >= MaxFailures
    BY <2>1 DEF RecordFailure, TypeOK
  <2> QED
    BY <2>1, <2>2 DEF RecordFailure, CountersInv, TypeOK, AtMost
<1> QED
  BY <1>1, TypeCorrect, CountersCorrect, PTL DEF Spec, OpensOnFailuresInARow
-----------------------------------------------------------------------------
\* The law of powers, which the provers do not have: they know 2 ^ n for a
\* number n that is written out, and not for a variable.
PowersOfTwo ==
  \A n \in 0 .. MaxOpens : 2 ^ n \in Nat \ {0} /\ 2 ^ (n + 1) = 2 * 2 ^ n

\* One more opening doubles the backoff and cuts it at the largest one, from
\* which further openings do not move it.
LEMMA OpensDoubles ==
  ASSUME PowersOfTwo, TypeOK, BackoffFollowsOpenings, Opens
  PROVE  BackoffFollowsOpenings'
<1> DEFINE P(n) == 2 ^ n
           Wait(n) == IF n = 0 THEN InitialBackoff
                      ELSE AtMost(InitialBackoff * P(n), MaxBackoff)
<1>1. /\ InitialBackoff \in Nat \ {0} /\ opens \in 0 .. MaxOpens
      /\ MaxOpens \in Nat \ {0} /\ MaxBackoff \in Nat \ {0}
  BY InitialBackoffType DEF TypeOK
<1>2. /\ P(opens) \in Nat \ {0} /\ P(opens + 1) = 2 * P(opens)
      /\ P(0) = 1
      /\ InitialBackoff * P(MaxOpens) >= MaxBackoff
  BY <1>1, BackoffBound DEF PowersOfTwo
<1>3. /\ currentBackoff = Wait(opens)
      /\ currentBackoff' = AtMost(2 * currentBackoff, MaxBackoff)
      /\ opens' = AtMost(opens + 1, MaxOpens)
  BY DEF BackoffFollowsOpenings, Opens, NextBackoff
<1> HIDE DEF P
<1>4. currentBackoff' = Wait(opens')
  <2>1. InitialBackoff * (2 * P(opens)) = 2 * (InitialBackoff * P(opens))
    BY <1>1, <1>2
  <2>2. CASE opens = 0
    <3>1. opens' = 1 /\ currentBackoff' = AtMost(2 * InitialBackoff, MaxBackoff)
      BY <1>1, <1>3, <2>2 DEF AtMost
    <3>2. P(1) = 2
      BY <1>2, <2>2
    <3> QED
      BY <1>1, <3>1, <3>2 DEF AtMost
  <2>3. CASE opens \in 1 .. MaxOpens - 1
    <3>1. opens' = opens + 1 /\ opens' # 0
      BY <1>1, <1>3, <2>3 DEF AtMost
    <3>2. PICK x \in Nat : x = InitialBackoff * P(opens)
      BY <1>1, <1>2
    <3>3. currentBackoff = AtMost(x, MaxBackoff)
      BY <1>3, <2>3, <3>2
    <3>4. Wait(opens') = AtMost(2 * x, MaxBackoff)
      BY <1>2, <2>1, <3>1, <3>2
    <3> QED
      BY <1>1, <1>3, <3>3, <3>4 DEF AtMost
  <2>4. CASE opens = MaxOpens
    <3>1. opens' = MaxOpens /\ MaxOpens # 0
      BY <1>1, <1>3, <2>4 DEF AtMost
    <3>2. Wait(MaxOpens) = MaxBackoff
      BY <1>1, <1>2, <2>4, <3>1 DEF AtMost
    <3>3. currentBackoff' = MaxBackoff
      BY <1>1, <1>3, <2>4, <3>2 DEF AtMost
    <3> QED
      BY <3>1, <3>2, <3>3
  <2> QED
    BY <1>1, <2>2, <2>3, <2>4
<1> QED
  BY <1>4 DEF P, BackoffFollowsOpenings

\* The wait of the breaker is the initial one doubled once for each opening that
\* no success while closed and no completed trial has come after, up to the
\* largest: it is doubled before the first wait, and neither failures reported
\* late, nor a trial that fails, nor Reset lose a doubling or add one.
THEOREM BackoffIsExact ==
  ASSUME PowersOfTwo
  PROVE  Spec => []BackoffFollowsOpenings
<1>1. Init => BackoffFollowsOpenings
  BY DEF Init, BackoffFollowsOpenings
<1>2. TypeOK /\ BackoffFollowsOpenings /\ [Next]_vars
        => BackoffFollowsOpenings'
  <2> SUFFICES ASSUME TypeOK, BackoffFollowsOpenings, [Next]_vars
               PROVE  BackoffFollowsOpenings'
    OBVIOUS
  <2>1. CASE UNCHANGED <<currentBackoff, opens>>
    BY <2>1 DEF BackoffFollowsOpenings
  <2>2. CASE currentBackoff' = InitialBackoff /\ opens' = 0
    BY <2>2 DEF BackoffFollowsOpenings
  <2>3. CASE Opens
    BY <2>3, OpensDoubles
  <2>4. ASSUME NEW c \in Callers, Call(c) PROVE BackoffFollowsOpenings'
    BY <2>1, <2>2, <2>3, <2>4
       DEF Call, Allow, AllowPasses, AllowTries, AllowRefuses, vars, Record,
           RecordSuccess, SuccessClosed, SuccessCloses, SuccessCounted,
           RecordFailure
  <2> QED
    BY <2>1, <2>4 DEF Next, Reset, Tick, CameraChanges, vars
<1> QED
  BY <1>1, <1>2, TypeCorrect, PTL DEF Spec
-----------------------------------------------------------------------------
\* The capture loop calls the breaker as any caller does: what is proved of the
\* breaker holds in the classic mode, alone or beside other callers.
THEOREM ClassicIsABreaker == ClassicSpec => Spec
<1>1. ClassicInit => Init
  BY DEF ClassicInit
<1>2. [ClassicNext]_classicVars => [Next]_vars
  <2> SUFFICES ASSUME ClassicNext \/ UNCHANGED classicVars
               PROVE  Next \/ UNCHANGED vars
    OBVIOUS
  <2>1. CASE BeginCapture \/ Refused \/ EndCapture
    <3>1. Call(Camera)
      BY <2>1 DEF BeginCapture, Refused, EndCapture, Call, Allow
    <3> QED
      BY <3>1, CameraAssumption DEF Next
  <2>2. CASE AskPause \/ AskThrottle \/ PauseEnds \/ SlowEnds
             \/ MonitorStep \/ CollectorStep \/ ClockOfMemory
             \/ UNCHANGED classicVars
    BY <2>2 DEF AskPause, AskThrottle, PauseEnds, SlowEnds, MonitorStep,
                CollectorStep, ClockOfMemory, classicVars
  <2>3. CASE ClockOfBreaker \/ Surroundings
    BY <2>3 DEF ClockOfBreaker, Surroundings, Others, Next
  <2> QED
    BY <2>1, <2>2, <2>3 DEF ClassicNext, Loop
<1> QED
  BY <1>1, <1>2, PTL DEF ClassicSpec, Spec
-----------------------------------------------------------------------------
\* A capture that has begun in an emergency keeps the loop away from the next
\* one: it stands in that capture or where it reads the level again.
LateInv ==
  /\ begun \in {0, 1}
  /\ begun = 1 => Memory!ShouldPause /\ loop \in {"top", "pause", "capture"}

\* The steps of the loop: from the top an emergency leads only to a pause.
LEMMA LoopKeeps == ASSUME LateInv, Loop PROVE LateInv'
<1> USE DEF LateInv, Goto, memoryVars, Memory!ShouldPause
<1>1. CASE AskPause
  BY <1>1 DEF AskPause
<1>2. CASE AskThrottle
  BY <1>2 DEF AskThrottle
<1>3. CASE PauseEnds
  BY <1>3 DEF PauseEnds
<1>4. CASE SlowEnds
  BY <1>4 DEF SlowEnds
<1>5. CASE BeginCapture
  BY <1>5 DEF BeginCapture, AtMost
<1>6. CASE Refused
  BY <1>6 DEF Refused
<1>7. CASE EndCapture
  BY <1>7 DEF EndCapture
<1> QED
  BY <1>1, <1>2, <1>3, <1>4, <1>5, <1>6, <1>7 DEF Loop

\* The invariant holds in every run: when the level falls the count is reset.
LEMMA LateInvCorrect == ClassicSpec => []LateInv
<1>1. ClassicInit => LateInv
  BY DEF ClassicInit, LateInv
<1>2. LateInv /\ [ClassicNext]_classicVars => LateInv'
  <2> SUFFICES ASSUME LateInv, [ClassicNext]_classicVars PROVE LateInv'
    OBVIOUS
  <2>1. CASE Loop
    BY <2>1, LoopKeeps
  <2>2. CASE MonitorStep
    BY <2>2 DEF MonitorStep, LateInv, Memory!ShouldPause
  <2>3. CASE UNCHANGED <<level, loop, begun>>
    BY <2>3 DEF LateInv, Memory!ShouldPause
  <2>4. CASE CollectorStep \/ ClockOfMemory \/ ClockOfBreaker \/ Surroundings \/ UNCHANGED classicVars
    BY <2>3, <2>4 DEF CollectorStep, ClockOfMemory, Surroundings, ClockOfBreaker, classicVars, memoryVars,
                      Memory!CollectorEnds, Memory!Tick
  <2> QED
    BY <2>1, <2>2, <2>4 DEF ClassicNext
<1> QED
  BY <1>1, <1>2, PTL DEF ClassicSpec

\* An emergency of memory lets at most one more capture begin, however the
\* steps of the controller and of the loop interleave (camera.go:244-265).
THEOREM OneLateCaptureOnly == ClassicSpec => []OneLateCapture
<1>1. LateInv => OneLateCapture
  BY DEF LateInv, OneLateCapture
<1> QED
  BY <1>1, LateInvCorrect, PTL
-----------------------------------------------------------------------------
\* Nor does the loop touch the memory controller: what is proved of the
\* controller holds beside it.
THEOREM ClassicIsAController == ClassicSpec => Memory!Spec
<1>1. ClassicInit => Memory!Init
  BY DEF ClassicInit
<1>2. [ClassicNext]_classicVars => [Memory!Next]_Memory!vars
  <2> SUFFICES ASSUME ClassicNext \/ UNCHANGED classicVars
               PROVE  Memory!Next \/ UNCHANGED Memory!vars
    OBVIOUS
  <2> USE DEF memoryVars, Memory!vars
  <2>1. CASE Loop
    BY <2>1 DEF Loop, AskPause, AskThrottle, PauseEnds, SlowEnds, BeginCapture,
                Refused, EndCapture
  <2>2. CASE MonitorStep \/ CollectorStep \/ ClockOfMemory
    BY <2>2 DEF MonitorStep, CollectorStep, ClockOfMemory, Memory!Next
  <2>3. CASE ClockOfBreaker \/ Surroundings \/ UNCHANGED classicVars
    BY <2>3 DEF ClockOfBreaker, Surroundings, classicVars
  <2> QED
    BY <2>1, <2>2, <2>3 DEF ClassicNext
<1> QED
  BY <1>1, <1>2, PTL DEF ClassicSpec, Memory!Spec

\* Before the first measurement everything is at its least.
LEMMA NothingMeasured == 0 \in 0 .. MaxUsage /\ 0 \in 0 .. GCInterval /\ 0 \in Nat
BY UsageAssumption, GCIntervalAssumption DEF UsageAssumption, GCIntervalAssumption

\* A step of the monitor: the level follows the measurement.
LEMMA MonitorTyped ==
  ASSUME Memory!TypeOK, Memory!Monitor
  PROVE  Memory!TypeOK'
<1> USE UsageAssumption, GCIntervalAssumption
    DEF UsageAssumption, GCIntervalAssumption, Memory!TypeOK, Memory!Goto
<1>1. CASE Memory!Measure
  BY <1>1 DEF Memory!Measure
<1>2. CASE Memory!ChangeLevel
  <2>1. Memory!LevelOf(measured) \in Memory!Levels
    BY DEF Memory!LevelOf, Memory!Levels
  <2>2. level' = Memory!LevelOf(measured) /\ measured' = measured
    BY <1>2 DEF Memory!ChangeLevel
  <2>3. Memory!LevelOf(measured') = level'
    BY <2>2
  <2> QED
    BY <1>2, <2>1, <2>2, <2>3 DEF Memory!ChangeLevel
<1>3. CASE Memory!ActNothing
  BY <1>3 DEF Memory!ActNothing
<1>4. CASE Memory!ActCollect
  BY <1>4 DEF Memory!ActCollect
<1>5. CASE Memory!MonitorCollects
  BY <1>5 DEF Memory!MonitorCollects
<1>6. CASE Memory!TriggerGC
  <2>1. sinceGC' \in 0 .. GCInterval /\ collectors' \in Nat
    <3>1. collectors + 1 \in Nat
      OBVIOUS
    <3> QED
      BY <1>6, <3>1, NothingMeasured DEF Memory!TriggerGC
  <2>2. gcInProgress' \in BOOLEAN
    BY <1>6 DEF Memory!TriggerGC
  <2>3. /\ UNCHANGED <<measured, level>> /\ level = Memory!LevelOf(measured)
        /\ monitor' \in {"wait", "free"}
    BY <1>6 DEF Memory!TriggerGC
  <2> QED
    BY <2>1, <2>2, <2>3
<1> QED
  BY <1>1, <1>2, <1>3, <1>4, <1>5, <1>6 DEF Memory!Monitor

\* The variables of the memory controller have their types, and the controller
\* acts on the level of what it has just measured (controller.go:165-262).
THEOREM MemoryTypeCorrect == ClassicSpec => []Memory!TypeOK
<1>1. Memory!Init => Memory!TypeOK
  BY NothingMeasured DEF Memory!Init, Memory!TypeOK, Memory!Levels
<1>2. Memory!TypeOK /\ [Memory!Next]_Memory!vars => Memory!TypeOK'
  <2> SUFFICES ASSUME Memory!TypeOK, [Memory!Next]_Memory!vars
               PROVE  Memory!TypeOK'
    OBVIOUS
  <2>1. CASE Memory!Monitor
    BY <2>1, MonitorTyped
  <2>2. CASE Memory!CollectorEnds
    <3>1. collectors' \in Nat
      <4>1. collectors \in Nat /\ collectors > 0 /\ collectors' = collectors - 1
        BY <2>2 DEF Memory!CollectorEnds, Memory!TypeOK
      <4> QED
        BY <4>1
    <3> QED
      BY <2>2, <3>1 DEF Memory!CollectorEnds, Memory!TypeOK
  <2>3. CASE Memory!Tick
    <3>1. sinceGC' \in 0 .. GCInterval
      <4>1. sinceGC \in 0 .. GCInterval /\ sinceGC < GCInterval
            /\ sinceGC' = sinceGC + 1
        BY <2>3 DEF Memory!Tick, Memory!TypeOK
      <4> QED
        BY <4>1, GCIntervalAssumption DEF GCIntervalAssumption
    <3> QED
      BY <2>3, <3>1 DEF Memory!Tick, Memory!TypeOK
  <2>4. CASE UNCHANGED Memory!vars
    BY <2>4 DEF Memory!vars, Memory!TypeOK
  <2> QED
    BY <2>1, <2>2, <2>3, <2>4 DEF Memory!Next
<1> QED
  BY <1>1, <1>2, ClassicIsAController, PTL DEF Memory!Spec
-----------------------------------------------------------------------------
\* The flag and the goroutines of triggerGC agree after every step.
LEMMA CollectionKeeps ==
  ASSUME OneCollection, [ClassicNext]_classicVars
  PROVE  OneCollection'
<1> USE DEF OneCollection, Memory!OneCollection
<1>1. CASE MonitorStep
  BY <1>1 DEF MonitorStep, Memory!Monitor, Memory!Measure, Memory!ChangeLevel,
              Memory!ActNothing, Memory!ActCollect, Memory!TriggerGC,
              Memory!MonitorCollects
<1>2. CASE CollectorStep
  BY <1>2 DEF CollectorStep, Memory!CollectorEnds
<1>3. CASE UNCHANGED <<collectors, gcInProgress>>
  BY <1>3
<1>4. CASE Loop \/ ClockOfMemory \/ ClockOfBreaker \/ Surroundings \/ UNCHANGED classicVars
  BY <1>3, <1>4 DEF Loop, AskPause, AskThrottle, PauseEnds, SlowEnds, BeginCapture,
     Refused, EndCapture, ClockOfMemory, Surroundings, ClockOfBreaker, classicVars, memoryVars, Memory!Tick
<1> QED
  BY <1>1, <1>2, <1>4 DEF ClassicNext

\* At most one goroutine of triggerGC is collecting, and gcInProgress is set
\* exactly while one is, whatever the monitor collects itself
\* (controller.go:280-307).
THEOREM OneCollectionAtATime == ClassicSpec => []OneCollection
<1>1. ClassicInit => OneCollection
  BY DEF ClassicInit, Memory!Init, OneCollection, Memory!OneCollection
<1>2. OneCollection /\ [ClassicNext]_classicVars => OneCollection'
  BY CollectionKeeps
<1> QED
  BY <1>1, <1>2, PTL DEF ClassicSpec
=============================================================================
