----------------------- MODULE PersistentCameraProofs -----------------------
(***************************************************************************)
(* Proofs about PersistentCamera, for every number of readers, of cameras  *)
(* and every limit.                                                        *)
(***************************************************************************)
EXTENDS PersistentCamera, TLAPS

\* Before Start nothing runs, so that nobody can restart a capture that was not
\* started.
NotStarted == restarter = "nobody" /\ health = "idle"
              /\ \A p \in ReaderPlaces : at[p] = 0

\* No reader is inside a capture that was not started.
LEMMA NobodyThere ==
  ASSUME NotStarted, NEW p \in ReaderPlaces
  PROVE  ~(at[p] > 0)
<1>1. at[p] = 0
  BY DEF NotStarted
<1> QED
  BY <1>1

\* The living process is the one the fields name.  Who restarts has killed it,
\* and a capture that does not run has none: either it was not started, or its
\* context is done and no process can be started.
ProcessInv ==
  /\ procs = IF cmdAlive THEN 1 ELSE 0
  /\ restarter # "nobody" => ~cmdAlive
  /\ ~running => ~cmdAlive /\ (ctxDone \/ NotStarted)
  /\ loop = "stopped" => ~running
-----------------------------------------------------------------------------
\* restartFFmpeg: the old process is killed before another is started.
LEMMA RestartKeeps ==
  ASSUME ProcessInv, RestartBegins \/ RestartSucceeds \/ RestartFails,
         UNCHANGED loop
  PROVE  ProcessInv'
<1>1. CASE RestartBegins
  <2>1. /\ procs' = 0 /\ cmdAlive' = FALSE
        /\ running' = running /\ ctxDone' = ctxDone /\ loop' = loop
    BY <1>1 DEF RestartBegins, KillFFmpeg, ProcessInv
  <2>2. ~running => ctxDone
    <3>1. health = "restart" \/ at["error"] > 0
      BY <1>1, Zenon DEF RestartBegins
    <3>2. ~NotStarted
      <4> SUFFICES ASSUME NotStarted PROVE FALSE
        OBVIOUS
      <4>1. "error" \in ReaderPlaces /\ health # "restart"
        BY DEF ReaderPlaces, NotStarted
      <4> QED
        BY <3>1, <4>1, NobodyThere
    <3> QED
      BY <3>2 DEF ProcessInv
  <2> QED
    BY <2>1, <2>2 DEF ProcessInv
<1>2. CASE RestartSucceeds
  <2>1. restarter # "nobody" /\ ~ctxDone
    BY <1>2 DEF RestartSucceeds, RestartReturns, StartFFmpeg
  <2>2. ~cmdAlive /\ procs = 0 /\ running
    BY <2>1 DEF ProcessInv, NotStarted
  <2>3. /\ procs' = 1 /\ cmdAlive' = TRUE /\ restarter' = "nobody"
        /\ running' = running /\ loop' = loop
    BY <1>2, <2>2 DEF RestartSucceeds, RestartReturns, StartFFmpeg
  <2> QED
    BY <2>2, <2>3 DEF ProcessInv
<1>3. CASE RestartFails
  <2>1. restarter # "nobody"
    BY <1>3 DEF RestartFails, RestartReturns
  <2>2. ~running => ctxDone
    BY <2>1 DEF ProcessInv, NotStarted
  <2>3. /\ procs' = procs /\ cmdAlive' = cmdAlive /\ restarter' = "nobody"
        /\ running' = running /\ ctxDone' = ctxDone /\ loop' = loop
    BY <1>3 DEF RestartFails, RestartReturns, process
  <2> QED
    BY <2>2, <2>3 DEF ProcessInv
<1> QED
  BY <1>1, <1>2, <1>3

\* The readers and monitorHealth do not touch the process; they do nothing
\* before Start.
LEMMA ReadersKeep ==
  ASSUME ProcessInv, Reader \/ HealthTick \/ HealthEnds, UNCHANGED loop
  PROVE  ProcessInv'
<1>1. /\ procs' = procs /\ cmdAlive' = cmdAlive /\ restarter' = restarter
      /\ running' = running /\ ctxDone' = ctxDone
  BY DEF Reader, ReaderBegins, ReaderStops, ReaderFails, ReaderHasFrame,
         ReaderSends, ReaderPanics, HealthTick, HealthEnds, process
<1>2. NotStarted => NotStarted'
  <2>1. CASE Reader
    <3>1. \/ \E from \in ReaderPlaces : at[from] > 0
          \/ UNCHANGED at
      BY <2>1 DEF ReaderPlaces, Reader, ReaderBegins, ReaderStops, ReaderFails,
                  ReaderHasFrame, ReaderSends, ReaderPanics, Move, Leave
    <3>2. UNCHANGED <<restarter, health>>
      BY <2>1 DEF Reader, ReaderBegins, ReaderStops, ReaderFails,
                  ReaderHasFrame, ReaderSends, ReaderPanics
    <3> QED
      <4> SUFFICES ASSUME NotStarted PROVE NotStarted'
        OBVIOUS
      <4>1. UNCHANGED at
        BY <3>1, NobodyThere
      <4> QED
        BY <3>2, <4>1 DEF NotStarted, ReaderPlaces
  <2>2. CASE HealthTick \/ HealthEnds
    BY <2>2 DEF HealthTick, HealthEnds, NotStarted
  <2> QED
    BY <2>1, <2>2
<1> QED
  BY <1>1, <1>2 DEF ProcessInv

\* A process that ends, and the camera, start nothing.
LEMMA EnvironmentKeeps ==
  ASSUME ProcessInv, Environment \/ Cancel, UNCHANGED loop
  PROVE  ProcessInv'
<1>1. CASE FFmpegExits
  <2>1. /\ procs' = 0 /\ cmdAlive' = FALSE
        /\ UNCHANGED <<running, ctxDone, restarter, health, at, loop>>
    BY <1>1 DEF FFmpegExits, ProcessInv
  <2> QED
    BY <2>1 DEF ProcessInv, NotStarted
<1>2. CASE GoesStale \/ CameraChanges \/ Cancel
  <2>1. /\ UNCHANGED <<procs, cmdAlive, running, restarter, health, at, loop>>
        /\ ctxDone => ctxDone'
    BY <1>2 DEF GoesStale, CameraChanges, Cancel, process
  <2> QED
    BY <2>1 DEF ProcessInv, NotStarted
<1> QED
  BY <1>1, <1>2 DEF Environment

\* The camera loop starts a capture only when it has none, and Stop kills it.
LEMMA LoopKeeps ==
  ASSUME ProcessInv, Loop
  PROVE  ProcessInv'
<1>1. CASE StartCapture
  <2>1. CASE Start /\ loop' = "run"
    <3>1. ~cmdAlive /\ procs = 0 /\ restarter = "nobody"
      BY <2>1 DEF Start, ProcessInv
    <3>2. /\ procs' = 1 /\ cmdAlive' = TRUE /\ running' = TRUE
          /\ restarter' = restarter /\ loop' = "run"
      BY <2>1, <3>1 DEF Start, StartFFmpeg
    <3> QED
      BY <3>1, <3>2 DEF ProcessInv
  <2>2. CASE StartFails /\ loop' = "classic"
    <3>1. /\ UNCHANGED <<procs, cmdAlive, running, ctxDone, restarter, health, at>>
          /\ loop' = "classic"
      BY <2>2 DEF StartFails, captureVars, process
    <3> QED
      BY <3>1 DEF ProcessInv, NotStarted
  <2> QED
    BY <1>1, <2>1, <2>2 DEF StartCapture
<1>2. CASE TickTakes \/ TickMisses
  <2>1. UNCHANGED <<procs, cmdAlive, running, ctxDone, restarter, health, at, loop>>
    BY <1>2 DEF TickTakes, TickMisses, captureVars, process
  <2> QED
    BY <2>1 DEF ProcessInv, NotStarted
<1>3. CASE LoopStops
  <2>1. /\ procs' = 0 /\ cmdAlive' = FALSE /\ running' = FALSE
        /\ ctxDone' = TRUE /\ loop' = "stopped"
    BY <1>3 DEF LoopStops, Stop, KillFFmpeg, ProcessInv
  <2> QED
    BY <2>1 DEF ProcessInv
<1> QED
  BY <1>1, <1>2, <1>3 DEF Loop

\* The invariant holds in every run.
LEMMA ProcessInvCorrect == Spec => []ProcessInv
<1>1. Init => ProcessInv
  BY DEF Init, InitCapture, ProcessInv, NotStarted
<1>2. ProcessInv /\ [Next]_vars => ProcessInv'
  <2> SUFFICES ASSUME ProcessInv, [Next]_vars
               PROVE  ProcessInv'
    OBVIOUS
  <2>1. CASE Loop
    BY <2>1, LoopKeeps
  <2>2. CASE Goroutines /\ Inside
    BY <2>2, RestartKeeps, ReadersKeep DEF Goroutines, Inside
  <2>3. CASE (Environment \/ Cancel) /\ Inside
    BY <2>3, EnvironmentKeeps DEF Inside
  <2>4. CASE UNCHANGED <<captureVars, loop>>
    BY <2>4 DEF captureVars, process, ProcessInv, NotStarted
  <2> QED
    BY <2>1, <2>2, <2>3, <2>4 DEF Next, Callback, vars
<1> QED
  BY <1>1, <1>2, PTL DEF Spec

\* However the restarts of the readers and of monitorHealth overlap with each
\* other and with Stop, at most one ffmpeg is alive, and none once the loop has
\* stopped the capture (persistent_capture.go:235-293, 334-367).
THEOREM OneProcessOnly == Spec => []OneProcess
<1>1. ProcessInv => OneProcess
  BY DEF ProcessInv, OneProcess
<1> QED
  BY <1>1, ProcessInvCorrect, PTL
-----------------------------------------------------------------------------
(* The types *)

USE DEF BufferSizeAssumption, MaxReadersAssumption, ThresholdAssumption,
        CameraAssumption, MissLimitAssumption

\* The places are told apart by their names.
LEMMA PlaceNames ==
  /\ ReaderPlaces = {"begin", "read", "send", "read old", "send old", "error"}
  /\ "begin" \in ReaderPlaces /\ "error" \in ReaderPlaces
  /\ "read" \in ReaderPlaces /\ "read old" \in ReaderPlaces
  /\ "send" \in ReaderPlaces /\ "send old" \in ReaderPlaces
BY DEF ReaderPlaces

\* A sum of numbers is a number.
LEMMA SumIsNumber == \A m, n \in Nat : m + n \in Nat
OBVIOUS

\* The counters start within their bounds.
LEMMA NothingCounted ==
  0 \in Nat /\ 0 \in 0 .. BufferSize /\ 0 \in 0 .. Threshold /\ 0 \in 0 .. MissLimit
BY BufferSizeAssumption, ThresholdAssumption, MissLimitAssumption

\* A number per place remains one when the number of one place is replaced.
LEMMA PlaceReplaced ==
  ASSUME NEW S, NEW f \in [S -> Nat], NEW p \in S, NEW n \in Nat
  PROVE  [f EXCEPT ![p] = n] \in [S -> Nat]
OBVIOUS

\* A reader that goes on is taken from one place to another; the places of the
\* others are numbers as before.
LEMMA ReadersTyped ==
  ASSUME at \in [ReaderPlaces -> Nat]
  PROVE  /\ \A from, to \in ReaderPlaces :
              from # to /\ Move(from, to) => at' \in [ReaderPlaces -> Nat]
         /\ \A from \in ReaderPlaces :
              Leave(from) => at' \in [ReaderPlaces -> Nat]
         /\ Orphaned \in [ReaderPlaces -> Nat]
<1>1. \A p \in ReaderPlaces : at[p] \in Nat
  OBVIOUS
<1>2. ASSUME NEW from \in ReaderPlaces, NEW to \in ReaderPlaces, from # to,
             Move(from, to)
      PROVE  at' \in [ReaderPlaces -> Nat]
  <2>1. at' = [p \in ReaderPlaces |-> IF p = to THEN at[to] + 1
                                     ELSE IF p = from THEN at[from] - 1
                                     ELSE at[p]]
    BY <1>2 DEF Move
  <2>2. at[to] + 1 \in Nat /\ at[from] - 1 \in Nat
    BY <1>1, <1>2 DEF Move
  <2> QED
    BY <1>1, <2>1, <2>2
<1>3. ASSUME NEW from \in ReaderPlaces, Leave(from)
      PROVE  at' \in [ReaderPlaces -> Nat]
  <2>1. at[from] - 1 \in Nat
    BY <1>1, <1>3 DEF Leave
  <2>2. [at EXCEPT ![from] = at[from] - 1] \in [ReaderPlaces -> Nat]
    BY <2>1, PlaceReplaced
  <2> QED
    BY <1>3, <2>2 DEF Leave
<1>4. Orphaned \in [ReaderPlaces -> Nat]
  <2>1. at["read"] \in Nat /\ at["send"] \in Nat
        /\ at["read old"] \in Nat /\ at["send old"] \in Nat
    BY <1>1, PlaceNames
  <2>2. at["read old"] + at["read"] \in Nat /\ at["send old"] + at["send"] \in Nat
    BY <2>1, SumIsNumber
  <2>3. PICK f \in [ReaderPlaces -> Nat] : f = [at EXCEPT !["read"] = 0]
    BY PlaceReplaced, PlaceNames
  <2>4. PICK g \in [ReaderPlaces -> Nat] :
          g = [f EXCEPT !["read old"] = at["read old"] + at["read"]]
    BY <2>2, PlaceReplaced, PlaceNames
  <2>5. PICK h \in [ReaderPlaces -> Nat] : h = [g EXCEPT !["send"] = 0]
    BY PlaceReplaced, PlaceNames
  <2>6. [h EXCEPT !["send old"] = at["send old"] + at["send"]]
          \in [ReaderPlaces -> Nat]
    BY <2>2, PlaceReplaced, PlaceNames
  <2>7. Orphaned = [h EXCEPT !["send old"] = at["send old"] + at["send"]]
    BY <2>3, <2>4, <2>5, PlaceNames DEF Orphaned
  <2> QED
    BY <2>6, <2>7
<1> QED
  BY <1>2, <1>3, <1>4

\* Restart and the readers keep the types of the capture.
LEMMA GoroutinesTyped ==
  ASSUME CaptureTypeOK, Goroutines, procs' \in Nat
  PROVE  CaptureTypeOK'
<1> USE DEF CaptureTypeOK
<1>0. at \in [ReaderPlaces -> Nat] /\ Orphaned \in [ReaderPlaces -> Nat]
  BY ReadersTyped
<1>1. CASE RestartBegins
  <2>1. at' \in [ReaderPlaces -> Nat]
    <3>1. CASE at' = Orphaned
      BY <1>0, <3>1
    <3>2. CASE at["error"] > 0 /\ at' = [Orphaned EXCEPT !["error"] = @ - 1]
      <4>1. Orphaned["error"] = at["error"] /\ at["error"] \in Nat
        BY <1>0 DEF Orphaned, ReaderPlaces
      <4>2. Orphaned["error"] - 1 \in Nat
        <5> HIDE DEF CaptureTypeOK
        <5> QED
          BY <3>2, <4>1
      <4>3. [Orphaned EXCEPT !["error"] = Orphaned["error"] - 1]
              \in [ReaderPlaces -> Nat]
        BY <1>0, <4>2, PlaceReplaced, PlaceNames
      <4> QED
        BY <3>2, <4>3
    <3> QED
      BY <1>1, <3>1, <3>2 DEF RestartBegins
  <2> QED
    BY <1>1, <2>1 DEF RestartBegins, KillFFmpeg, buffer
<1>2. CASE RestartSucceeds
  <2>1. at' \in [ReaderPlaces -> Nat]
    <3>1. at["begin"] \in Nat
      BY <1>0, PlaceNames
    <3>2. at["begin"] + 1 \in Nat
      <4> HIDE DEF CaptureTypeOK
      <4> QED
        BY <3>1
    <3>3. [at EXCEPT !["begin"] = at["begin"] + 1] \in [ReaderPlaces -> Nat]
      BY <1>0, <3>2, PlaceReplaced, PlaceNames
    <3> QED
      BY <1>2, <3>3 DEF RestartSucceeds
  <2> QED
    BY <1>2, <2>1 DEF RestartSucceeds, RestartReturns, StartFFmpeg, buffer
<1>3. CASE RestartFails
  BY <1>3 DEF RestartFails, RestartReturns, process, buffer
<1>4. CASE Reader
  <2>1. at' \in [ReaderPlaces -> Nat]
    <3>1. /\ "begin" # "read" /\ "begin" # "read old" /\ "read" # "error"
          /\ "read old" # "error" /\ "read" # "send" /\ "send old" # "read old"
          /\ {"begin", "read", "send", "read old", "send old", "error"}
               = ReaderPlaces
      BY DEF ReaderPlaces
    <3>2. \/ \E from, to \in ReaderPlaces : from # to /\ Move(from, to)
          \/ \E from \in ReaderPlaces : Leave(from)
          \/ UNCHANGED at
      BY <1>4, <3>1 DEF Reader, ReaderBegins, ReaderStops, ReaderFails,
                        ReaderHasFrame, ReaderSends, ReaderPanics
    <3> QED
      BY <1>0, <3>2, ReadersTyped
  <2>2. /\ frames' \in 0 .. BufferSize
        /\ stale' \in BOOLEAN /\ panicked' \in BOOLEAN
    <3>1. CASE ReaderSends
      <4>1. frames \in Nat /\ frames <= BufferSize /\ BufferSize \in Nat
        BY BufferSizeAssumption
      <4>2. frames' = IF frames < BufferSize THEN frames + 1 ELSE frames
        BY <3>1 DEF ReaderSends
      <4>3. frames' \in 0 .. BufferSize
        <5> HIDE DEF CaptureTypeOK
        <5> QED
          BY <4>1, <4>2
      <4> QED
        BY <3>1, <4>3 DEF ReaderSends
    <3>2. CASE ReaderPanics
      BY <3>2 DEF ReaderPanics
    <3>3. CASE UNCHANGED buffer
      BY <3>3 DEF buffer
    <3> QED
      BY <1>4, <3>1, <3>2, <3>3 DEF Reader, ReaderBegins, ReaderStops,
                                    ReaderFails, ReaderHasFrame
  <2>3. UNCHANGED <<running, ctxDone, readDone, pipeOpen, cmdAlive, restarter,
                    health, bufferClosed, cameraUp>>
    BY <1>4 DEF Reader, ReaderBegins, ReaderStops, ReaderFails, ReaderHasFrame,
                ReaderSends, ReaderPanics, process, buffer
  <2> QED
    BY <2>1, <2>2, <2>3
<1>5. CASE HealthTick \/ HealthEnds
  BY <1>5 DEF HealthTick, HealthEnds, process, buffer
<1> QED
  BY <1>1, <1>2, <1>3, <1>4, <1>5 DEF Goroutines

\* The process, the clock and the camera keep them as well.
LEMMA EnvironmentTyped ==
  ASSUME CaptureTypeOK, Environment \/ Cancel, procs' \in Nat
  PROVE  CaptureTypeOK'
<1>1. CASE FFmpegExits
  <2>1. /\ cmdAlive' = FALSE
        /\ UNCHANGED <<running, ctxDone, readDone, pipeOpen, restarter, at, health,
                       frames, bufferClosed, stale, panicked, cameraUp>>
    BY <1>1 DEF FFmpegExits, buffer
  <2>2. /\ running' \in BOOLEAN /\ ctxDone' \in BOOLEAN /\ readDone' \in BOOLEAN
        /\ pipeOpen' \in BOOLEAN /\ cmdAlive' \in BOOLEAN
        /\ bufferClosed' \in BOOLEAN /\ stale' \in BOOLEAN
        /\ panicked' \in BOOLEAN /\ cameraUp' \in BOOLEAN
    BY <2>1 DEF CaptureTypeOK
  <2>3. /\ restarter' \in {"nobody", "health", "reader"}
        /\ at' \in [ReaderPlaces -> Nat]
        /\ health' \in {"idle", "wait", "restart", "ended"}
        /\ frames' \in 0 .. BufferSize
    BY <2>1 DEF CaptureTypeOK
  <2> QED
    BY <2>2, <2>3 DEF CaptureTypeOK
<1>2. CASE GoesStale
  BY <1>2 DEF GoesStale, process, CaptureTypeOK
<1>3. CASE Cancel
  BY <1>3 DEF Cancel, process, buffer, CaptureTypeOK
<1>4. CASE CameraChanges
  <2>1. cameraUp' \in BOOLEAN
    BY <1>4, Zenon DEF CameraChanges
  <2>2. UNCHANGED <<running, ctxDone, readDone, process, restarter, at, health,
                    buffer>>
    BY <1>4 DEF CameraChanges
  <2> QED
    BY <2>1, <2>2 DEF process, buffer, CaptureTypeOK
<1> QED
  BY <1>1, <1>2, <1>3, <1>4 DEF Environment

\* So do the calls of the capture loop.
LEMMA CallsTyped ==
  ASSUME CaptureTypeOK, Start \/ StartFails \/ Stop, procs' \in Nat
  PROVE  CaptureTypeOK'
<1>0. at \in [ReaderPlaces -> Nat] /\ Orphaned \in [ReaderPlaces -> Nat]
  BY ReadersTyped DEF CaptureTypeOK
<1>1. CASE Start
  <2>1. at' \in [ReaderPlaces -> Nat]
    <3>1. at["begin"] \in Nat /\ 1 \in Nat
      BY <1>0, PlaceNames
    <3>2. at["begin"] + 1 \in Nat
      BY <3>1, SumIsNumber
    <3>3. [at EXCEPT !["begin"] = at["begin"] + 1] \in [ReaderPlaces -> Nat]
      BY <1>0, <3>2, PlaceReplaced, PlaceNames
    <3> QED
      BY <1>1, <3>3 DEF Start
  <2> QED
    BY <1>1, <2>1 DEF Start, StartFFmpeg, buffer, CaptureTypeOK
<1>2. CASE StartFails
  BY <1>2 DEF StartFails, captureVars, process, buffer, CaptureTypeOK
<1>3. CASE Stop
  BY <1>0, <1>3 DEF Stop, KillFFmpeg, CaptureTypeOK
<1> QED
  BY <1>1, <1>2, <1>3

\* The monitor counts failures up to the threshold and knows no other camera
\* than the registered ones.
LEMMA MonitorTyped ==
  ASSUME MonitorTypeOK,
         \/ RecordSuccess(Camera) \/ RecordFailure(Camera)
         \/ \E e \in Events : RunCallback(e)
  PROVE  MonitorTypeOK'
<1> USE DEF MonitorTypeOK
<1>0. Event(Camera, "active") \in Events /\ Event(Camera, "inactive") \in Events
      /\ Alarm \in Events
  BY CameraAssumption DEF Events, Event, Alarm
<1>1. CASE RecordSuccess(Camera)
  <2>1. failures' \in [Cameras -> 0 .. Threshold]
    BY <1>1, NothingCounted DEF RecordSuccess
  <2>2. active' \in [Cameras -> BOOLEAN]
    BY <1>1 DEF RecordSuccess
  <2>3. callbacks' \subseteq Events /\ told' = told
    BY <1>0, <1>1 DEF RecordSuccess
  <2> QED
    BY <2>1, <2>2, <2>3
<1>2. CASE RecordFailure(Camera)
  <2> DEFINE count == IF failures[Camera] < Threshold THEN failures[Camera] + 1
                      ELSE Threshold
             down == count = Threshold
  <2>1. failures' \in [Cameras -> 0 .. Threshold]
    <3>1. failures[Camera] \in 0 .. Threshold
      BY CameraAssumption
    <3>2. count \in 0 .. Threshold
      BY <3>1, ThresholdAssumption
    <3>3. failures' = [failures EXCEPT ![Camera] = count]
      BY <1>2 DEF RecordFailure
    <3> QED
      BY <3>2, <3>3
  <2>2. active' \in [Cameras -> BOOLEAN]
    <3>1. active' = [active EXCEPT ![Camera] = active[Camera] /\ ~down]
      BY <1>2 DEF RecordFailure
    <3>2. (active[Camera] /\ ~down) \in BOOLEAN
      BY Zenon
    <3> HIDE DEF down
    <3> QED
      BY <3>1, <3>2, Zenon
  <2>3. callbacks' \subseteq Events /\ told' = told
    BY <1>0, <1>2 DEF RecordFailure
  <2> QED
    BY <2>1, <2>2, <2>3
<1>3. ASSUME NEW e \in Events, RunCallback(e)
      PROVE  MonitorTypeOK'
  <2>1. told' \in [Cameras -> {"none", "active", "inactive"}]
    <3>1. CASE e = Alarm
      BY <1>3, <3>1 DEF RunCallback
    <3>2. CASE e # Alarm
      <4>1. e.camera \in Cameras /\ e.state \in {"active", "inactive"}
        BY <3>2 DEF Events
      <4> QED
        BY <1>3, <3>2, <4>1 DEF RunCallback
    <3> QED
      BY <3>1, <3>2
  <2> QED
    BY <1>3, <2>1 DEF RunCallback
<1> QED
  BY <1>1, <1>2, <1>3

\* The capture loop: what it calls, and the misses it counts up to the limit.
LEMMA LoopTyped ==
  ASSUME TypeOK, Loop, procs' \in Nat
  PROVE  TypeOK'
<1> USE DEF TypeOK
<1>1. CASE StartCapture
  <2>1. CaptureTypeOK'
    BY <1>1, CallsTyped DEF StartCapture
  <2>2. MonitorTypeOK'
    BY <1>1, MonitorTyped DEF StartCapture
  <2> QED
    BY <1>1, <2>1, <2>2 DEF StartCapture
<1>2. CASE TickTakes
  <2>1. CaptureTypeOK'
    <3>1. frames' \in 0 .. BufferSize
      BY <1>2, BufferSizeAssumption DEF TickTakes
    <3> QED
      BY <1>2, <3>1 DEF TickTakes, CaptureTypeOK, process
  <2>2. MonitorTypeOK'
    BY <1>2, MonitorTyped DEF TickTakes
  <2>3. misses' \in 0 .. MissLimit
    BY <1>2, MissLimitAssumption DEF TickTakes
  <2> QED
    BY <1>2, <2>1, <2>2, <2>3 DEF TickTakes
<1>3. CASE TickMisses
  <2>1. CaptureTypeOK'
    BY <1>3 DEF TickMisses, captureVars, process, buffer, CaptureTypeOK
  <2>2. MonitorTypeOK'
    <3>1. CASE UNCHANGED monitorVars
      BY <3>1 DEF monitorVars, MonitorTypeOK
    <3> QED
      BY <1>3, <3>1, MonitorTyped DEF TickMisses
  <2>3. misses' \in 0 .. MissLimit
    BY <1>3, MissLimitAssumption DEF TickMisses
  <2> QED
    BY <1>3, <2>1, <2>2, <2>3 DEF TickMisses
<1>4. CASE LoopStops
  <2>1. CaptureTypeOK'
    BY <1>4, CallsTyped DEF LoopStops
  <2> QED
    BY <1>4, <2>1 DEF LoopStops, monitorVars, MonitorTypeOK
<1> QED
  BY <1>1, <1>2, <1>3, <1>4 DEF Loop

\* Every variable of the capture, of the monitor and of the loop has its type:
\* in particular the channel never holds more frames than it has room for, the
\* places of the readers are never left more often than they are entered, and
\* the monitor never counts above its threshold.  That the number of processes
\* is one needs ProcessInv: the types alone do not rule out that a process is
\* killed twice.
THEOREM TypeCorrect == Spec => []TypeOK
<1>1. Init => TypeOK
  BY NothingCounted
  DEF Init, InitCapture, InitMonitor, TypeOK, CaptureTypeOK, MonitorTypeOK
<1>2. TypeOK /\ ProcessInv' /\ [Next]_vars => TypeOK'
  <2> SUFFICES ASSUME TypeOK, ProcessInv', [Next]_vars
               PROVE  TypeOK'
    OBVIOUS
  <2>1. procs' \in Nat
    BY DEF ProcessInv
  <2>2. CASE Loop
    BY <2>1, <2>2, LoopTyped
  <2>3. CASE (Goroutines \/ Environment \/ Cancel) /\ Inside
    <3>1. CaptureTypeOK'
      BY <2>1, <2>3, GoroutinesTyped, EnvironmentTyped DEF TypeOK
    <3> QED
      BY <2>3, <3>1 DEF Inside, monitorVars, TypeOK, MonitorTypeOK
  <2>4. CASE \E e \in Events : Callback(e)
    <3>1. MonitorTypeOK'
      BY <2>4, MonitorTyped DEF Callback, TypeOK
    <3> QED
      BY <2>4, <3>1 DEF Callback, captureVars, process, buffer, TypeOK,
                        CaptureTypeOK
  <2>5. CASE UNCHANGED vars
    BY <2>5 DEF vars, captureVars, monitorVars, process, buffer, TypeOK,
                CaptureTypeOK, MonitorTypeOK
  <2> QED
    BY <2>2, <2>3, <2>4, <2>5 DEF Next
<1> QED
  BY <1>1, <1>2, ProcessInvCorrect, PTL DEF Spec
-----------------------------------------------------------------------------
(* The capture is watched *)

\* A living ffmpeg has a reader and a capture that runs has its monitorHealth,
\* until the context is done: the readers that a restart leaves behind never take
\* the last one with them, and the goroutine that has to notice a capture without
\* a process is there (persistent_capture.go:200-216, 272-287).
CaptureIsWatched ==
  ~ctxDone => /\ running => health \in {"wait", "restart"}
              /\ cmdAlive => at["begin"] > 0 \/ at["read"] > 0 \/ at["send"] > 0

\* The pipe of a living process is open and the context of its reader is not
\* done, so that a reader which begins late takes that pipe and none stops.
WatchInv ==
  /\ CaptureIsWatched
  /\ cmdAlive => pipeOpen /\ (readDone => ctxDone)
  /\ restarter = "health" => health = "restart"

\* Where a reader is started there is one.
LEMMA ReaderArrives ==
  \A f \in [ReaderPlaces -> Nat] : [f EXCEPT !["begin"] = f["begin"] + 1]["begin"] > 0
<1> SUFFICES ASSUME NEW f \in [ReaderPlaces -> Nat]
             PROVE  [f EXCEPT !["begin"] = f["begin"] + 1]["begin"] > 0
  OBVIOUS
<1>1. f["begin"] \in Nat
  BY PlaceNames
<1>2. [f EXCEPT !["begin"] = f["begin"] + 1]["begin"] = f["begin"] + 1
  BY PlaceNames
<1> QED
  BY ONLY <1>1, <1>2

\* Restart starts a reader with each process, and the goroutine that called it
\* waits again.
LEMMA RestartWatches ==
  ASSUME WatchInv, ProcessInv, CaptureTypeOK,
         RestartBegins \/ RestartSucceeds \/ RestartFails
  PROVE  WatchInv'
<1>1. CASE RestartBegins
  <2>1. /\ ~cmdAlive'
        /\ restarter' = "health" => health = "restart"
        /\ UNCHANGED <<running, ctxDone, health>>
    BY <1>1 DEF RestartBegins, KillFFmpeg
  <2> QED
    BY <2>1 DEF WatchInv, CaptureIsWatched
<1>2. CASE RestartSucceeds \/ RestartFails
  <2>1. /\ restarter' = "nobody" /\ UNCHANGED <<running, ctxDone>>
        /\ health' = "wait" \/ health' = health
    BY <1>2 DEF RestartSucceeds, RestartFails, RestartReturns
  <2>2. CASE RestartSucceeds
    <3>1. at'["begin"] > 0
      <4>1. at' = [at EXCEPT !["begin"] = at["begin"] + 1]
        BY <2>2 DEF RestartSucceeds
      <4>2. at \in [ReaderPlaces -> Nat]
        BY DEF CaptureTypeOK
      <4> QED
        BY ONLY <4>1, <4>2, ReaderArrives
    <3>2. pipeOpen' = TRUE /\ readDone' = FALSE
      BY <2>2 DEF RestartSucceeds, StartFFmpeg
    <3> QED
      BY <2>1, <3>1, <3>2 DEF WatchInv, CaptureIsWatched
  <2>3. CASE RestartFails
    <3>1. ~cmdAlive'
      BY <2>3 DEF RestartFails, RestartReturns, process, ProcessInv
    <3> QED
      BY <2>1, <3>1 DEF WatchInv, CaptureIsWatched
  <2> QED
    BY <1>2, <2>2, <2>3
<1> QED
  BY <1>1, <1>2

\* A reader of the current pipe goes on reading it while its process lives.
LEMMA ReadersGoOn ==
  ASSUME WatchInv, CaptureTypeOK, Reader
  PROVE  WatchInv'
<1>1. UNCHANGED <<running, ctxDone, readDone, pipeOpen, cmdAlive, restarter, health>>
  BY DEF Reader, ReaderBegins, ReaderStops, ReaderFails, ReaderHasFrame,
         ReaderSends, ReaderPanics, process
<1>2. at \in [ReaderPlaces -> Nat]
  BY DEF CaptureTypeOK
<1>3. ASSUME NEW from \in ReaderPlaces, NEW to \in ReaderPlaces, from # to,
             Move(from, to)
      PROVE  /\ at'[to] > 0
             /\ \A p \in ReaderPlaces \ {from, to} : at'[p] = at[p]
  BY <1>2, <1>3 DEF Move
<1>4. ASSUME ~ctxDone, cmdAlive
      PROVE  at'["begin"] > 0 \/ at'["read"] > 0 \/ at'["send"] > 0
  <2>1. pipeOpen /\ ~readDone
    BY <1>4 DEF WatchInv
  <2>2. at["begin"] > 0 \/ at["read"] > 0 \/ at["send"] > 0
    BY <1>4 DEF WatchInv, CaptureIsWatched
  <2>3. CASE ReaderBegins
    BY <1>3, <2>1, <2>3, PlaceNames DEF ReaderBegins
  <2>4. CASE ReaderStops
    BY <1>4, <2>1, <2>4 DEF ReaderStops
  <2>5. CASE ReaderFails
    <3>1. Move("read old", "error")
      BY <1>4, <2>5 DEF ReaderFails
    <3>2. \A p \in ReaderPlaces \ {"read old", "error"} : at'[p] = at[p]
      BY <1>3, <3>1, PlaceNames
    <3> QED
      BY <2>2, <3>2, PlaceNames
  <2>6. CASE ReaderHasFrame
    BY <1>3, <2>6, PlaceNames DEF ReaderHasFrame
  <2>7. CASE ReaderSends
    <3>1. CASE Move("send", "read")
      BY <1>3, <3>1, PlaceNames
    <3>2. CASE Move("send old", "read old")
      <4>1. \A p \in ReaderPlaces \ {"send old", "read old"} : at'[p] = at[p]
        BY <1>3, <3>2, PlaceNames
      <4> QED
        BY <2>2, <4>1, PlaceNames
    <3> QED
      BY <2>7, <3>1, <3>2 DEF ReaderSends
  <2>8. CASE ReaderPanics
    BY <2>2, <2>8 DEF ReaderPanics
  <2> QED
    BY <2>3, <2>4, <2>5, <2>6, <2>7, <2>8 DEF Reader
<1> QED
  BY <1>1, <1>4 DEF WatchInv, CaptureIsWatched

\* monitorHealth ends only with the context; the process and the time take no
\* reader away.
LEMMA OthersWatch ==
  ASSUME WatchInv, HealthTick \/ HealthEnds \/ Environment \/ Cancel
  PROVE  WatchInv'
<1>1. CASE HealthTick
  BY <1>1 DEF HealthTick, process, WatchInv, CaptureIsWatched
<1>2. CASE HealthEnds
  BY <1>2 DEF HealthEnds, process, WatchInv, CaptureIsWatched
<1>3. CASE FFmpegExits
  BY <1>3 DEF FFmpegExits, WatchInv, CaptureIsWatched
<1>4. CASE GoesStale \/ CameraChanges
  <2>1. UNCHANGED <<running, ctxDone, readDone, process, restarter, at, health>>
    BY <1>4 DEF GoesStale, CameraChanges
  <2> QED
    BY <2>1 DEF process, WatchInv, CaptureIsWatched
<1>5. CASE Cancel
  <2>1. ctxDone' = TRUE /\ UNCHANGED <<process, restarter, health>>
    BY <1>5 DEF Cancel
  <2> QED
    BY <2>1 DEF process, WatchInv, CaptureIsWatched
<1> QED
  BY <1>1, <1>2, <1>3, <1>4, <1>5 DEF Environment

\* Start starts the two goroutines with the process; Stop ends the process.
LEMMA CallsWatch ==
  ASSUME WatchInv, CaptureTypeOK, Loop
  PROVE  WatchInv'
<1>1. CASE Start
  <2>1. at'["begin"] > 0
    <3>1. at' = [at EXCEPT !["begin"] = at["begin"] + 1]
      BY <1>1 DEF Start
    <3>2. at \in [ReaderPlaces -> Nat]
      BY DEF CaptureTypeOK
    <3> QED
      BY ONLY <3>1, <3>2, ReaderArrives
  <2>2. /\ pipeOpen' = TRUE /\ readDone' = FALSE /\ health' = "wait"
        /\ restarter' = "nobody"
    BY <1>1 DEF Start, StartFFmpeg
  <2> QED
    BY <2>1, <2>2 DEF WatchInv, CaptureIsWatched
<1>2. CASE StartFails \/ TickTakes \/ TickMisses
  <2>1. UNCHANGED <<running, ctxDone, readDone, process, restarter, at, health>>
    BY <1>2 DEF StartFails, TickTakes, TickMisses, captureVars
  <2> QED
    BY <2>1 DEF process, WatchInv, CaptureIsWatched
<1>3. CASE Stop
  <2>1. ctxDone' = TRUE /\ cmdAlive' = FALSE /\ UNCHANGED <<restarter, health>>
    BY <1>3 DEF Stop, KillFFmpeg
  <2> QED
    BY <2>1 DEF WatchInv, CaptureIsWatched
<1> QED
  BY <1>1, <1>2, <1>3 DEF Loop, StartCapture, LoopStops

\* Whatever restarts the capture, a living ffmpeg has a reader, and a capture that
\* runs has the goroutine that restarts it, until the context is done: what the
\* recovery of a camera rests on (persistent_capture.go:200-216, 272-287).
THEOREM CaptureStaysWatched == Spec => []CaptureIsWatched
<1>1. Init => WatchInv
  BY DEF Init, InitCapture, WatchInv, CaptureIsWatched
<1>2. WatchInv /\ ProcessInv /\ TypeOK /\ [Next]_vars => WatchInv'
  <2> SUFFICES ASSUME WatchInv, ProcessInv, TypeOK, [Next]_vars
               PROVE  WatchInv'
    OBVIOUS
  <2>1. CaptureTypeOK
    BY DEF TypeOK
  <2>2. CASE Loop
    BY <2>1, <2>2, CallsWatch
  <2>3. CASE Goroutines \/ Environment \/ Cancel
    BY <2>1, <2>3, RestartWatches, ReadersGoOn, OthersWatch DEF Goroutines
  <2>4. CASE UNCHANGED captureVars
    BY <2>4 DEF captureVars, process, WatchInv, CaptureIsWatched
  <2> QED
    BY <2>2, <2>3, <2>4 DEF Next, Callback, vars
<1>3. WatchInv => CaptureIsWatched
  BY DEF WatchInv
<1> QED
  BY <1>1, <1>2, <1>3, ProcessInvCorrect, TypeCorrect, PTL DEF Spec
=============================================================================
