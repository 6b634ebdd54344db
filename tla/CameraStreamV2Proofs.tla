------------------------ MODULE CameraStreamV2Proofs ------------------------
(***************************************************************************)
(* Proofs about CameraStreamV2, for every threshold of the breaker and     *)
(* with the breaker enabled or not, and about FramePathV2, for every       *)
(* capacity of its channel and any number of frames.                       *)
(***************************************************************************)
EXTENDS FramePathV2, SequenceTheorems, FiniteSetTheorems, TLAPS

USE EnabledAssumption, MaxFailuresAssumption

\* Every counter of goroutines stays a natural number and the failures of the
\* breaker stay at or below its threshold (circuit_breaker.go:200-223).
THEOREM TypeCorrect == Spec => []TypeOK
<1>1. Init => TypeOK
  <2> SUFFICES ASSUME Init PROVE TypeOK
    OBVIOUS
  <2>1. /\ at \in [Places -> Nat] /\ failures \in 0 .. MaxFailures
        /\ reading \in 0 .. Readers
    BY DEF Init, Readers
  <2>2. /\ running \in BOOLEAN /\ retrying \in BOOLEAN /\ ctxDone \in BOOLEAN
        /\ backoffOver \in BOOLEAN /\ cameraUp \in BOOLEAN
        /\ state \in {"Closed", "Open", "HalfOpen"}
    BY Zenon DEF Init
  <2> QED
    BY <2>1, <2>2 DEF TypeOK
<1>2. TypeOK /\ [Next]_vars => TypeOK'
  <2> SUFFICES ASSUME TypeOK, [Next]_vars PROVE TypeOK'
    OBVIOUS
  <2>1. at' \in [Places -> Nat]
    <3> USE DEF TypeOK, Places, StreamPlaces, RetryPlaces
    <3>1. CASE \/ Start \/ Stop \/ PublishLoopEnds \/ Stats
               \/ BackoffPasses \/ CameraChanges
      BY <3>1 DEF Start, Stop, PublishLoopEnds, Stats, StatsLocks, StatsReturns,
         BackoffPasses, CameraChanges, Leave
    <3>2. CASE Stream
      BY <3>2 DEF Stream, PipeFails, StartSucceeds, StartFails, ReadFails,
                  ReadStops, RecordBegins, RecordFailure, AskRetry, Move, Leave
    <3>3. CASE Retry
      BY <3>3 DEF Retry, RetryStops, RetrySleeps, RetryWakes, RetryStarts,
                  RetryLeaves, Move, Leave
    <3>4. CASE UNCHANGED vars
      BY <3>4 DEF vars
    <3> QED
      BY <3>1, <3>2, <3>3, <3>4 DEF Next
  <2>2. state' \in {"Closed", "Open", "HalfOpen"} /\ failures' \in 0 .. MaxFailures
    <3>1. CASE RecordFailure
      BY <3>1 DEF RecordFailure, Execute, breakerVars, TypeOK
    <3>2. CASE UNCHANGED <<state, failures>>
      BY <3>2 DEF TypeOK
    <3> QED
      BY <3>1, <3>2 DEF Next, Start, Stop, PublishLoopEnds, Stream, PipeFails,
         StartSucceeds, StartFails, ReadFails, ReadStops, RecordBegins, AskRetry,
         Retry, RetryStops, RetrySleeps, RetryWakes, RetryStarts, RetryLeaves,
         Stats, StatsLocks, StatsReturns,
         BackoffPasses, CameraChanges, breakerVars, vars
  <2>3. /\ running' \in BOOLEAN /\ retrying' \in BOOLEAN /\ ctxDone' \in BOOLEAN
        /\ backoffOver' \in BOOLEAN /\ cameraUp' \in BOOLEAN
    <3>1. running' \in BOOLEAN /\ retrying' \in BOOLEAN /\ ctxDone' \in BOOLEAN
      BY DEF TypeOK, Next, Start, Stop, PublishLoopEnds, Stream, PipeFails,
         StartSucceeds, StartFails, ReadFails, ReadStops, RecordBegins, RecordFailure, AskRetry,
         Retry, RetryStops, RetrySleeps, RetryWakes, RetryStarts, RetryLeaves,
         Stats, StatsLocks, StatsReturns,
         BackoffPasses, CameraChanges, vars
    <3>2. backoffOver' \in BOOLEAN
      BY DEF TypeOK, Next, Start, Stop, PublishLoopEnds, Stream, PipeFails,
         StartSucceeds, StartFails, ReadFails, ReadStops, RecordBegins, RecordFailure, Execute,
         AskRetry, Retry, RetryStops, RetrySleeps, RetryWakes, RetryStarts,
         RetryLeaves, Stats, StatsLocks, StatsReturns,
         BackoffPasses, CameraChanges, breakerVars, vars
    <3>3. cameraUp' \in BOOLEAN
      <4>1. CASE CameraChanges
        BY <4>1, Zenon DEF CameraChanges
      <4>2. CASE UNCHANGED cameraUp
        BY <4>2 DEF TypeOK
      <4> QED
        BY <4>1, <4>2 DEF Next, Start, Stop, PublishLoopEnds, Stream, PipeFails,
           StartSucceeds, StartFails, ReadFails, ReadStops, RecordBegins, RecordFailure,
           AskRetry, Retry, RetryStops, RetrySleeps, RetryWakes, RetryStarts,
           RetryLeaves, Stats, StatsLocks, StatsReturns, BackoffPasses, vars
    <3> QED
      BY <3>1, <3>2, <3>3
  <2>4. reading' \in 0 .. Readers
    <3>1. CASE Stats
      BY <3>1 DEF Stats, StatsLocks, StatsReturns, TypeOK, Readers
    <3>2. CASE UNCHANGED reading
      BY <3>2 DEF TypeOK
    <3> QED
      BY <3>1, <3>2 DEF Next, Start, Stop, PublishLoopEnds, Stream, PipeFails,
         StartSucceeds, StartFails, ReadFails, ReadStops, RecordBegins, RecordFailure,
         AskRetry, Retry, RetryStops, RetrySleeps, RetryWakes, RetryStarts,
         RetryLeaves, BackoffPasses, CameraChanges, vars
  <2> QED
    BY <2>1, <2>2, <2>3, <2>4 DEF TypeOK
<1> QED
  BY <1>1, <1>2, PTL DEF Spec
-----------------------------------------------------------------------------
\* A camera that was not started has no goroutine; the flag counts the retry
\* goroutines, the one that is leaving included; and a stream and a retry that
\* has still to start one exclude each other.
GoroutinesInv ==
  /\ ~running => ~retrying /\ \A p \in Places : at[p] = 0
  /\ FlagExact
  /\ OneStream

\* Every step of a goroutine keeps the bookkeeping of the flag.
LEMMA GoroutinesPreserved ==
  ASSUME TypeOK, GoroutinesInv, [Next]_vars
  PROVE  GoroutinesInv'
<1> USE DEF TypeOK, GoroutinesInv, FlagExact, OneStream, Streams, Retries,
            Places, StreamPlaces, RetryPlaces
<1>1. CASE Start
  BY <1>1 DEF Start
<1>2. CASE UNCHANGED <<running, retrying, at>>
  BY <1>2
<1>3. CASE PublishLoopEnds
  BY <1>3 DEF PublishLoopEnds, Leave
<1>4. CASE PipeFails \/ ReadStops
  <2>1. CASE PipeFails
    BY <2>1 DEF PipeFails, Leave
  <2>2. CASE ReadStops
    BY <2>2 DEF ReadStops, Leave
  <2> QED
    BY <1>4, <2>1, <2>2
<1>5. CASE StartSucceeds \/ StartFails \/ ReadFails
  BY <1>5 DEF StartSucceeds, StartFails, ReadFails, Move
<1>6. CASE RecordFailure
  BY <1>6 DEF RecordFailure, Move
<1>11. CASE RecordBegins
  <2>1. CASE Enabled
    BY <1>11, <2>1 DEF RecordBegins, Move
  <2>2. CASE ~Enabled
    BY <1>11, <2>2 DEF RecordBegins, Move
  <2> QED
    BY <2>1, <2>2
<1>7. CASE AskRetry
  <2>1. CASE retrying
    BY <1>7, <2>1 DEF AskRetry, Leave
  <2>2. CASE ~retrying
    BY <1>7, <2>2 DEF AskRetry, Move
  <2> QED
    BY <2>1, <2>2
<1>8. CASE RetryStops \/ RetrySleeps \/ RetryWakes
  BY <1>8 DEF RetryStops, RetrySleeps, RetryWakes, Move
<1>9. CASE RetryStarts
  BY <1>9 DEF RetryStarts
<1>10. CASE RetryLeaves
  BY <1>10 DEF RetryLeaves, Leave
<1> QED
  BY <1>1, <1>2, <1>3, <1>4, <1>5, <1>6, <1>7, <1>8, <1>9, <1>10, <1>11
     DEF Next, Stream, Retry, Stop, Stats, StatsLocks, StatsReturns,
         BackoffPasses, CameraChanges, vars

\* The bookkeeping holds in every run.
LEMMA GoroutinesCorrect == Spec => []GoroutinesInv
<1>1. Init => GoroutinesInv
  BY DEF Init, GoroutinesInv, FlagExact, OneStream, Streams, Retries, Places,
         StreamPlaces, RetryPlaces
<1>2. TypeOK /\ GoroutinesInv /\ [Next]_vars => GoroutinesInv'
  BY GoroutinesPreserved
<1> QED
  BY <1>1, <1>2, TypeCorrect, PTL DEF Spec

\* A camera never runs two ffmpeg processes, nor one while a retry is about to
\* start another.
THEOREM AtMostOneStream == Spec => []OneStream
<1>1. GoroutinesInv => OneStream
  BY DEF GoroutinesInv
<1> QED
  BY <1>1, GoroutinesCorrect, PTL

\* The flag retrying is set exactly while there is a retry goroutine.
THEOREM RetryFlagExact == Spec => []FlagExact
<1>1. GoroutinesInv => FlagExact
  BY DEF GoroutinesInv
<1> QED
  BY <1>1, GoroutinesCorrect, PTL
-----------------------------------------------------------------------------
\* A breaker opens only on a failure of the stream, which by then is about to
\* end; it never comes to be half-open, since nobody calls it while it is open.
OpenInv ==
  /\ ~running => state = "Closed"
  /\ state # "HalfOpen"
  /\ state = "Open" => at["start"] + at["read"] + at["record"] + at["lock"] = 0

\* Every step keeps an open breaker without a stream, and open.
LEMMA OpenStep ==
  ASSUME TypeOK, GoroutinesInv, OpenInv, [Next]_vars
  PROVE  /\ OpenInv'
         /\ state = "Open" => state' = "Open" /\ at'["start"] = 0 /\ at'["read"] = 0
<1> USE DEF TypeOK, GoroutinesInv, OneStream, Streams, OpenInv, Places,
            StreamPlaces, RetryPlaces
<1>1. CASE Start
  BY <1>1 DEF Start, breakerVars
<1>2. CASE UNCHANGED <<running, state, at>>
  BY <1>2
<1>3. CASE PublishLoopEnds \/ PipeFails \/ ReadStops
  <2>1. CASE PublishLoopEnds
    <3>1. UNCHANGED <<running, state, at["start"], at["read"], at["record"], at["lock"]>>
      BY <2>1 DEF PublishLoopEnds, Leave, breakerVars
    <3> QED
      BY <3>1
  <2>2. CASE PipeFails
    BY <2>2 DEF PipeFails, Leave, breakerVars
  <2>3. CASE ReadStops
    BY <2>3 DEF ReadStops, Leave, breakerVars
  <2> QED
    BY <1>3, <2>1, <2>2, <2>3
<1>4. CASE StartSucceeds \/ StartFails \/ ReadFails
  BY <1>4 DEF StartSucceeds, StartFails, ReadFails, Move, breakerVars
<1>5. CASE RecordBegins
  <2>1. CASE Enabled
    BY <1>5, <2>1 DEF RecordBegins, Move, breakerVars
  <2>2. CASE ~Enabled
    BY <1>5, <2>2 DEF RecordBegins, Move, breakerVars
  <2> QED
    BY <2>1, <2>2
<1>6. CASE RecordFailure
  <2>1. running /\ running' /\ state = "Closed" /\ state' \in {"Closed", "Open"}
    BY <1>6 DEF RecordFailure, Move, Execute, breakerVars
  <2>2. at'["start"] + at'["read"] + at'["record"] + at'["lock"] = 0
    BY <1>6 DEF RecordFailure, Move
  <2> QED
    BY <2>1, <2>2
<1>7. CASE AskRetry
  <2>1. CASE retrying
    <3>1. UNCHANGED <<running, state, at["start"], at["read"], at["record"], at["lock"]>>
      BY <1>7, <2>1 DEF AskRetry, Leave, breakerVars
    <3> QED
      BY <3>1
  <2>2. CASE ~retrying
    BY <1>7, <2>2 DEF AskRetry, Move, breakerVars
  <2> QED
    BY <2>1, <2>2
<1>8. CASE RetryStops \/ RetrySleeps \/ RetryWakes \/ RetryLeaves
  <2>1. UNCHANGED <<running, state, at["start"], at["read"], at["record"], at["lock"]>>
    <3>1. CASE RetryStops \/ RetrySleeps \/ RetryWakes
      BY <3>1 DEF RetryStops, RetrySleeps, RetryWakes, Move, breakerVars
    <3>2. CASE RetryLeaves
      BY <3>2 DEF RetryLeaves, Leave, breakerVars
    <3> QED
      BY <1>8, <3>1, <3>2
  <2> QED
    BY <2>1
<1>9. CASE RetryStarts
  BY <1>9 DEF RetryStarts, breakerVars
<1> QED
  BY <1>1, <1>2, <1>3, <1>4, <1>5, <1>6, <1>7, <1>8, <1>9
     DEF Next, Stream, Retry, Stop, Stats, StatsLocks, StatsReturns,
         BackoffPasses, CameraChanges, vars, breakerVars

\* The defect that OpenIsTried shows on an instance, for every threshold: once
\* the breaker is open it is never half-open and no stream is started, whatever
\* the backoff, although v2/README.md:374 and camera_stream.go:240 promise that
\* the camera is tried again (camera_stream.go:411, circuit_breaker.go:155).
THEOREM OpenIsNeverTried ==
  Spec => [][state = "Open" => state' = "Open" /\ at'["start"] = 0 /\ at'["read"] = 0]_vars
<1>1. Init => OpenInv
  BY DEF Init, OpenInv, Places, StreamPlaces, RetryPlaces
<1>2. TypeOK /\ GoroutinesInv /\ OpenInv /\ [Next]_vars => OpenInv'
  BY OpenStep
<1>3. TypeOK /\ GoroutinesInv /\ OpenInv /\ [Next]_vars =>
        [state = "Open" => state' = "Open" /\ at'["start"] = 0 /\ at'["read"] = 0]_vars
  BY OpenStep
<1> QED
  BY <1>1, <1>2, <1>3, TypeCorrect, GoroutinesCorrect, PTL DEF Spec
-----------------------------------------------------------------------------
\* A reader that has its first read lock and a stream that waits to write never
\* get past each other: the second read lock waits for the writer
\* (circuit_breaker.go:336, 346, 260), and no other goroutine, no timeout and
\* no Stop resolves it.  Hence what StopEnds allows is a goroutine lost for good.
THEOREM DeadlockIsFinal == Spec => [][Deadlocked => Deadlocked']_vars
<1>1. ASSUME TypeOK, GoroutinesInv, [Next]_vars, Deadlocked
      PROVE  Deadlocked'
  <2>0. at["record"] = 0 /\ at["ask"] = 0
    <3>1. \A p \in StreamPlaces \cup {"check", "sleep"} : at[p] \in Nat
      BY <1>1 DEF TypeOK, Places, StreamPlaces, RetryPlaces
    <3>2. Streams + at["check"] + at["sleep"] <= 1 /\ at["lock"] > 0
      BY <1>1 DEF GoroutinesInv, OneStream, Deadlocked
    <3> QED
      BY <3>1, <3>2 DEF Streams, StreamPlaces
  <2> USE <1>1 DEF TypeOK, Deadlocked, Places, StreamPlaces, RetryPlaces
  <2>1. CASE UNCHANGED <<reading, at>>
    BY <2>1
  <2>2. CASE RecordFailure \/ Stats
    BY <2>2 DEF RecordFailure, Stats, StatsLocks, StatsReturns
  <2>3. CASE Start \/ RetryStarts
    BY <2>3 DEF Start, RetryStarts
  <2>4. CASE PublishLoopEnds \/ PipeFails \/ ReadStops \/ RetryLeaves
    BY <2>4 DEF PublishLoopEnds, PipeFails, ReadStops, RetryLeaves, Leave
  <2>5. CASE \/ StartSucceeds \/ StartFails \/ ReadFails
             \/ RetryStops \/ RetrySleeps \/ RetryWakes
    BY <2>5 DEF StartSucceeds, StartFails, ReadFails, RetryStops, RetrySleeps,
                RetryWakes, Move
  <2>6. CASE RecordBegins \/ AskRetry
    BY <2>0, <2>6 DEF RecordBegins, AskRetry, Move, Leave
  <2> QED
    BY <2>1, <2>2, <2>3, <2>4, <2>5, <2>6
       DEF Next, Stream, Retry, Stop, BackoffPasses, CameraChanges, vars
<1>2. TypeOK /\ GoroutinesInv /\ [Next]_vars => [Deadlocked => Deadlocked']_vars
  BY <1>1
<1> QED
  BY <1>2, TypeCorrect, GoroutinesCorrect, PTL DEF Spec
-----------------------------------------------------------------------------
\* The frames do not change what the goroutines of the stream do: a run of
\* FramePathV2 is one of CameraStreamV2.
THEOREM PathIsAStream == PathSpec => Spec
<1>1. PathInit => Init
  BY DEF PathInit
<1>2. [PathNext]_pathVars => [Next]_vars
  BY DEF PathNext, StreamSteps, FrameArrives, PublishLoop, LoopSleeps,
         LoopFindsNothing, LoopTakes, LoopFlushes, LoopPublishes, Publishing,
         PublishLocks, PublishSucceeds, PublishFails, ConnectionTurns, pathVars
<1> QED
  BY <1>1, <1>2, PTL DEF PathSpec, Spec

\* Frames are in the channel, in publishLoop or with their goroutines in the
\* order in which they were received, so that no frame is in two places.
FramesTyped ==
  /\ frameChan \in Seq(Nat)
  /\ framesReceived \in Nat /\ framesDropped \in Nat /\ frameCount \in Nat
  /\ newest \in Nat /\ flushed \in Nat
  /\ sending \in Nat /\ waiting \subseteq 1 .. framesReceived
  /\ publishCount \in Nat /\ publishErrors \in Nat

FramesOrdered ==
  /\ \A i \in 1 .. Len(frameChan) : frameChan[i] \in 1 .. framesReceived
  /\ \A i, j \in 1 .. Len(frameChan) : i < j => frameChan[i] < frameChan[j]
  /\ \A f \in waiting, i \in 1 .. Len(frameChan) : f < frameChan[i]
  /\ loop = "flush" => /\ newest \in 1 .. framesReceived
                       /\ \A i \in 1 .. Len(frameChan) : newest < frameChan[i]
                       /\ \A f \in waiting : f < newest

FramesInv == FramesTyped /\ FramesOrdered /\ FramesCounted

\* A receive takes the first frame and leaves the others in their order.
LEMMA ReceiveOrder ==
  ASSUME FramesTyped, FramesOrdered, frameChan # <<>>,
         newest' = Head(frameChan), frameChan' = Tail(frameChan)
  PROVE  /\ frameChan' \in Seq(Nat) /\ Len(frameChan') = Len(frameChan) - 1
         /\ newest' \in 1 .. framesReceived
         /\ \A i \in 1 .. Len(frameChan') :
              /\ frameChan'[i] \in 1 .. framesReceived
              /\ newest' < frameChan'[i]
              /\ \A f \in waiting : f < frameChan'[i]
              /\ \A j \in 1 .. Len(frameChan') : i < j => frameChan'[i] < frameChan'[j]
         /\ \A f \in waiting : f < newest'
<1> USE DEF FramesTyped, FramesOrdered
<1>1. /\ Len(frameChan) \in Nat /\ Len(frameChan) > 0
      /\ newest' = frameChan[1]
  BY HeadTailProperties, LenProperties, EmptySeq
<1>2. /\ frameChan' \in Seq(Nat) /\ Len(frameChan') = Len(frameChan) - 1
      /\ \A i \in 1 .. Len(frameChan') : frameChan'[i] = frameChan[i+1]
  BY HeadTailProperties
<1> QED
  BY <1>1, <1>2

\* Every step of the frames keeps their bookkeeping.
LEMMA FramesStep ==
  ASSUME FramesInv, [PathNext]_pathVars
  PROVE  FramesInv'
<1> USE DEF FramesInv
<1>1. /\ framesReceived \in Nat /\ framesDropped \in Nat /\ frameCount \in Nat
      /\ flushed \in Nat /\ publishCount \in Nat /\ publishErrors \in Nat
      /\ Len(frameChan) \in Nat
      /\ IsFiniteSet(waiting) /\ Cardinality(waiting) \in Nat
  <2>1. IsFiniteSet(1 .. framesReceived)
    BY FS_Interval DEF FramesTyped
  <2>2. IsFiniteSet(waiting) /\ Cardinality(waiting) \in Nat
    BY <2>1, FS_Subset, FS_CardinalityType DEF FramesTyped
  <2>3. Len(frameChan) \in Nat
    BY LenProperties DEF FramesTyped
  <2> QED
    BY <2>2, <2>3 DEF FramesTyped
<1>2. CASE UNCHANGED frameVars
  BY <1>2 DEF frameVars, channelVars, loopVars, publisherVars, FramesTyped,
              FramesOrdered, FramesCounted
<1>3. CASE FrameArrives
  <2>1. /\ UNCHANGED <<loop, newest, flushed, frameCount, waiting, sending,
                       publishCount, publishErrors>>
        /\ framesReceived' = framesReceived + 1
    BY <1>3 DEF FrameArrives, loopVars, publisherVars
  <2>2. CASE Len(frameChan) < ChannelSize
    <3>1. /\ frameChan' = Append(frameChan, framesReceived + 1)
          /\ UNCHANGED framesDropped
      BY <1>3, <2>2 DEF FrameArrives
    <3>2. /\ frameChan' \in Seq(Nat) /\ Len(frameChan') = Len(frameChan) + 1
          /\ \A i \in 1 .. Len(frameChan) : frameChan'[i] = frameChan[i]
          /\ frameChan'[Len(frameChan) + 1] = framesReceived + 1
      BY <3>1, <1>1, AppendProperties DEF FramesTyped
    <3>3. FramesTyped'
      BY <2>1, <3>1, <3>2 DEF FramesTyped
    <3>4. FramesOrdered'
      <4>1. \A i \in 1 .. Len(frameChan') :
              i \in 1 .. Len(frameChan) \/ i = Len(frameChan) + 1
        BY <3>2, <1>1
      <4>2. \A f \in waiting : f \in 1 .. framesReceived
        BY DEF FramesTyped
      <4>3. \A i \in 1 .. Len(frameChan') : frameChan'[i] \in 1 .. framesReceived'
        <5>1. \A i \in 1 .. Len(frameChan) : frameChan[i] \in 1 .. framesReceived
          BY DEF FramesOrdered
        <5>2. framesReceived' \in Nat /\ framesReceived' = framesReceived + 1
          BY <2>1, <1>1
        <5>3. ASSUME NEW i \in 1 .. Len(frameChan)
              PROVE  frameChan'[i] \in 1 .. framesReceived'
          <6>1. 1 .. framesReceived \subseteq 1 .. framesReceived'
            BY <5>2, <1>1
          <6>2. frameChan'[i] \in 1 .. framesReceived
            BY <5>1, <3>2
          <6> QED
            BY <6>1, <6>2
        <5>4. frameChan'[Len(frameChan) + 1] \in 1 .. framesReceived'
          BY <5>2, <3>2, <1>1
        <5> SUFFICES ASSUME NEW i \in 1 .. Len(frameChan')
                     PROVE  frameChan'[i] \in 1 .. framesReceived'
          OBVIOUS
        <5>5. i \in 1 .. Len(frameChan) \/ i = Len(frameChan) + 1
          BY <4>1
        <5> QED
          BY <5>3, <5>4, <5>5
      <4>4. \A i, j \in 1 .. Len(frameChan') : i < j => frameChan'[i] < frameChan'[j]
        <5>1. /\ \A i \in 1 .. Len(frameChan) : frameChan[i] \in 1 .. framesReceived
              /\ \A i, j \in 1 .. Len(frameChan) : i < j => frameChan[i] < frameChan[j]
          BY DEF FramesOrdered
        <5> SUFFICES ASSUME NEW i \in 1 .. Len(frameChan'),
                            NEW j \in 1 .. Len(frameChan'), i < j
                     PROVE  frameChan'[i] < frameChan'[j]
          OBVIOUS
        <5>2. i \in 1 .. Len(frameChan)
          BY <3>2, <1>1
        <5>3. CASE j \in 1 .. Len(frameChan)
          BY <5>1, <5>2, <5>3, <3>2
        <5>4. CASE j = Len(frameChan) + 1
          BY <5>1, <5>2, <5>4, <3>2, <1>1
        <5> QED
          BY <5>3, <5>4, <4>1
      <4>5. \A f \in waiting', i \in 1 .. Len(frameChan') : f < frameChan'[i]
        <5>1. \A f \in waiting, i \in 1 .. Len(frameChan) : f < frameChan'[i]
          BY <3>2 DEF FramesOrdered
        <5>2. \A f \in waiting : f < frameChan'[Len(frameChan) + 1]
          BY <4>2, <3>2, <1>1
        <5>3. waiting' = waiting
          BY <2>1
        <5> QED
          BY <5>1, <5>2, <5>3, <4>1
      <4>6. loop' = "flush" =>
              /\ newest' \in 1 .. framesReceived'
              /\ \A i \in 1 .. Len(frameChan') : newest' < frameChan'[i]
              /\ \A f \in waiting' : f < newest'
        <5> SUFFICES ASSUME loop = "flush"
                     PROVE  /\ newest \in 1 .. framesReceived'
                            /\ \A i \in 1 .. Len(frameChan') : newest < frameChan'[i]
                            /\ \A f \in waiting : f < newest
          BY <2>1
        <5>1. /\ newest \in 1 .. framesReceived
              /\ \A i \in 1 .. Len(frameChan) : newest < frameChan[i]
              /\ \A f \in waiting : f < newest
          BY DEF FramesOrdered
        <5>2. newest \in 1 .. framesReceived' /\ newest < framesReceived + 1
          BY <5>1, <2>1, <1>1
        <5>3. \A i \in 1 .. Len(frameChan) : newest < frameChan'[i]
          BY <5>1, <3>2
        <5> QED
          BY <5>1, <5>2, <5>3, <3>2, <4>1
      <4> QED
        BY <4>3, <4>4, <4>5, <4>6 DEF FramesOrdered
    <3>5. FramesCounted'
      <4> DEFINE inLoop == IF loop = "flush" THEN 1 ELSE 0
      <4>1. inLoop \in Nat /\ inLoop' = inLoop
        BY <2>1
      <4>2. framesReceived = framesDropped + flushed + frameCount + Len(frameChan)
                               + inLoop
        BY DEF FramesCounted
      <4> HIDE DEF inLoop
      <4>3. framesReceived' = framesDropped' + flushed' + frameCount'
                                + Len(frameChan') + inLoop'
        BY <4>1, <4>2, <2>1, <3>1, <3>2, <1>1
      <4> QED
        BY <4>3, <2>1 DEF FramesCounted, inLoop
    <3> QED
      BY <3>3, <3>4, <3>5
  <2>3. CASE ~(Len(frameChan) < ChannelSize)
    <3>1. framesDropped' = framesDropped + 1 /\ UNCHANGED frameChan
      BY <1>3, <2>3 DEF FrameArrives
    <3>2. FramesTyped' /\ FramesOrdered'
      BY <2>1, <3>1 DEF FramesTyped, FramesOrdered
    <3>3. Len(frameChan') = Len(frameChan)
      BY <3>1
    <3>4. FramesCounted'
      <4> DEFINE n == Len(frameChan)
      <4>1. n \in Nat /\ n' = n
        BY <1>1, <3>3
      <4>2. framesReceived' = framesDropped' + flushed' + frameCount' + n'
                              + (IF loop' = "flush" THEN 1 ELSE 0)
        <5>1. framesReceived = framesDropped + flushed + frameCount + n
                               + (IF loop = "flush" THEN 1 ELSE 0)
          BY DEF FramesCounted
        <5> HIDE DEF n
        <5> QED
          BY <5>1, <4>1, <2>1, <3>1, <1>1
      <4> QED
        BY <4>2, <2>1 DEF FramesCounted
    <3> QED
      BY <3>2, <3>4
  <2> QED
    BY <2>2, <2>3
<1>4. CASE LoopSleeps \/ LoopFindsNothing
  <2>1. /\ loop # "flush" /\ loop' # "flush"
        /\ UNCHANGED <<channelVars, newest, flushed, frameCount, waiting, sending,
                       publisherVars>>
    BY <1>4 DEF LoopSleeps, LoopFindsNothing, LoopGoto
  <2> QED
    BY <2>1 DEF channelVars, publisherVars, FramesTyped, FramesOrdered, FramesCounted
<1>5. CASE LoopTakes \/ LoopFlushes
  <2>1. /\ frameChan # <<>>
        /\ newest' = Head(frameChan) /\ frameChan' = Tail(frameChan)
        /\ loop' = "flush"
        /\ UNCHANGED <<framesReceived, framesDropped, frameCount, waiting, sending,
                       publishCount, publishErrors>>
        /\ \/ loop = "take" /\ UNCHANGED flushed
           \/ loop = "flush" /\ flushed' = flushed + 1
    BY <1>5 DEF LoopTakes, LoopFlushes, LoopGoto, publisherVars
  <2>2. /\ frameChan' \in Seq(Nat) /\ Len(frameChan') = Len(frameChan) - 1
        /\ newest' \in 1 .. framesReceived
    BY <2>1, ReceiveOrder
  <2>3. FramesOrdered'
    BY <2>1, ReceiveOrder DEF FramesOrdered
  <2>4. FramesTyped'
    BY <2>1, <2>2, <1>1 DEF FramesTyped
  <2>5. FramesCounted'
    <3> DEFINE n == Len(frameChan)
    <3>1. n \in Nat /\ n' = n - 1
      BY <1>1, <2>2
    <3>2. framesReceived = framesDropped + flushed + frameCount + n
                           + (IF loop = "flush" THEN 1 ELSE 0)
      BY DEF FramesCounted
    <3>3. framesReceived' = framesDropped' + flushed' + frameCount' + n' + 1
      <4> HIDE DEF n
      <4>1. CASE loop = "take" /\ UNCHANGED flushed
        <5>1. framesReceived = framesDropped + flushed + frameCount + n
          BY <3>1, <3>2, <4>1, <1>1
        <5> QED
          BY <5>1, <4>1, <3>1, <2>1, <1>1
      <4>2. CASE loop = "flush" /\ flushed' = flushed + 1
        <5>1. framesReceived = framesDropped + flushed + frameCount + n + 1
          BY <3>1, <3>2, <4>2, <1>1
        <5> QED
          BY <5>1, <4>2, <3>1, <2>1, <1>1
      <4> QED
        BY <4>1, <4>2, <2>1
    <3> QED
      BY <3>3, <2>1 DEF FramesCounted
  <2> QED
    BY <2>3, <2>4, <2>5
<1>6. CASE LoopPublishes
  <2>1. /\ frameChan = <<>> /\ loop = "flush" /\ loop' = "check"
        /\ frameCount' = frameCount + 1
        /\ waiting' = waiting \cup {newest} /\ newest' = 0
        /\ UNCHANGED <<frameChan, framesReceived, framesDropped, flushed, sending,
                       publishCount, publishErrors>>
    BY <1>6 DEF LoopPublishes, LoopGoto, channelVars, publisherVars
  <2>2. newest \in 1 .. framesReceived /\ newest \notin waiting
    BY <2>1, <1>1 DEF FramesOrdered
  <2>3. Cardinality(waiting') = Cardinality(waiting) + 1
    BY <2>1, <2>2, <1>1, FS_AddElement
  <2>4. Len(frameChan) = 0 /\ Len(frameChan') = 0
    BY <2>1
  <2>5. FramesTyped' /\ FramesOrdered'
    BY <2>1, <2>2, <2>4, <1>1 DEF FramesTyped, FramesOrdered
  <2>6. FramesCounted'
    <3>1. framesReceived' = framesDropped' + flushed' + frameCount' + 0 + 0
      BY <2>1, <2>4, <1>1 DEF FramesCounted
    <3>2. frameCount' = publishCount' + publishErrors' + Cardinality(waiting')
                        + (IF sending' # 0 THEN 1 ELSE 0)
      <4> DEFINE c == Cardinality(waiting)
      <4>1. c \in Nat /\ c' = c + 1
        BY <1>1, <2>3
      <4>2. frameCount = publishCount + publishErrors + c
                         + (IF sending # 0 THEN 1 ELSE 0)
        BY DEF FramesCounted
      <4>3. frameCount' = publishCount' + publishErrors' + c'
                          + (IF sending' # 0 THEN 1 ELSE 0)
        <5> HIDE DEF c
        <5> QED
          BY <4>1, <4>2, <2>1, <1>1
      <4> QED
        BY <4>3
    <3> QED
      BY <3>1, <3>2, <2>1, <2>4 DEF FramesCounted
  <2> QED
    BY <2>5, <2>6
<1>7. CASE \E f \in waiting : PublishLocks(f)
  <2>1. PICK f \in waiting : PublishLocks(f)
    BY <1>7
  <2>2. /\ sending = 0 /\ waiting' = waiting \ {f} /\ sending' = f
        /\ UNCHANGED <<frameChan, framesReceived, framesDropped, flushed, loop,
                       newest, frameCount, publishCount, publishErrors>>
    BY <2>1 DEF PublishLocks, channelVars, loopVars, publisherVars
  <2>3. f \in Nat /\ f # 0
    BY <1>1 DEF FramesTyped
  <2>4. /\ Cardinality(waiting') = Cardinality(waiting) - 1
    BY <2>1, <2>2, <1>1, FS_RemoveElement
  <2>5. FramesTyped' /\ FramesOrdered'
    BY <2>2, <2>3 DEF FramesTyped, FramesOrdered
  <2>6. FramesCounted'
    <3>1. framesReceived' = framesDropped' + flushed' + frameCount' + Len(frameChan')
                              + (IF loop' = "flush" THEN 1 ELSE 0)
      BY <2>2 DEF FramesCounted
    <3>2. frameCount = publishCount + publishErrors + Cardinality(waiting)
      BY <2>2, <1>1 DEF FramesCounted
    <3>3. frameCount = publishCount + publishErrors + Cardinality(waiting') + 1
      BY <2>4, <3>2, <1>1
    <3>4. sending' # 0
      BY <2>2, <2>3
    <3> QED
      BY <2>2, <3>1, <3>3, <3>4 DEF FramesCounted
  <2> QED
    BY <2>5, <2>6
<1>8. CASE PublishSucceeds \/ PublishFails
  <2>1. /\ sending # 0 /\ sending' = 0
        /\ UNCHANGED <<frameChan, framesReceived, framesDropped, flushed, loop,
                       newest, frameCount, waiting>>
    BY <1>8 DEF PublishSucceeds, PublishFails, channelVars, loopVars
  <2>2. \/ publishCount' = publishCount + 1 /\ publishErrors' = publishErrors
        \/ publishCount' = publishCount /\ publishErrors' = publishErrors + 1
    BY <1>8 DEF PublishSucceeds, PublishFails
  <2>3. FramesTyped' /\ FramesOrdered'
    BY <2>1, <2>2 DEF FramesTyped, FramesOrdered
  <2>4. FramesCounted'
    <3>1. framesReceived' = framesDropped' + flushed' + frameCount' + Len(frameChan')
                              + (IF loop' = "flush" THEN 1 ELSE 0)
      BY <2>1 DEF FramesCounted
    <3>2. frameCount = publishCount + publishErrors + Cardinality(waiting) + 1
      BY <2>1 DEF FramesCounted
    <3>3. frameCount' = publishCount' + publishErrors' + Cardinality(waiting')
      <4> DEFINE c == Cardinality(waiting)
      <4>1. c \in Nat /\ c' = c
        BY <1>1, <2>1
      <4>2. frameCount = publishCount + publishErrors + c + 1
        BY <3>2
      <4> HIDE DEF c
      <4>3. frameCount' = publishCount' + publishErrors' + c'
        BY <2>1, <2>2, <4>1, <4>2, <1>1
      <4> QED
        BY <4>3 DEF c
    <3>4. sending' = 0
      BY <2>1
    <3> QED
      BY <3>1, <3>3, <3>4, <1>1, <2>1, <2>2 DEF FramesCounted
  <2> QED
    BY <2>3, <2>4
<1>9. CASE ConnectionTurns
  BY <1>9 DEF ConnectionTurns, channelVars, loopVars, FramesTyped, FramesOrdered,
              FramesCounted
<1> QED
  BY <1>2, <1>3, <1>4, <1>5, <1>6, <1>7, <1>8, <1>9
     DEF PathNext, StreamSteps, PublishLoop, Publishing, pathVars

\* Every frame received is dropped, flushed, on its way, published or failed,
\* for every capacity of the channel and any number of frames.
THEOREM FramesAreCounted == PathSpec => []FramesCounted
<1>1. PathInit => FramesInv
  <2> SUFFICES ASSUME PathInit PROVE FramesInv
    OBVIOUS
  <2>1. Cardinality(waiting) = 0
    BY FS_EmptySet DEF PathInit
  <2> QED
    BY <2>1 DEF PathInit, FramesInv, FramesTyped, FramesOrdered, FramesCounted
<1>2. FramesInv /\ [PathNext]_pathVars => FramesInv'
  BY FramesStep
<1>3. FramesInv => FramesCounted
  BY DEF FramesInv
<1> QED
  BY <1>1, <1>2, <1>3, PTL DEF PathSpec
=============================================================================
