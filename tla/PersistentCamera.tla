------------------------- MODULE PersistentCamera -------------------------
(***************************************************************************)
(* The persistent mode of a v1 camera: Capture.Start and the loop          *)
(* persistentCaptureLoop of pkg/camera/camera.go, which take the frames of *)
(* PersistentCapture and report to CameraMonitor.  The frames go on to the *)
(* buffer of the camera (module CapturePipeline).                          *)
(***************************************************************************)
EXTENDS PersistentCapture, CameraMonitor

CONSTANTS Camera,
          MissLimit   \* misses in a row that are a failure; 5 in the code

ASSUME CameraAssumption == Camera \in Cameras
ASSUME MissLimitAssumption == MissLimit \in Nat \ {0}

VARIABLES
  loop,     \* where the goroutine of the capture stands
  misses    \* consecutiveFailures of the loop, up to MissLimit

vars == <<captureVars, monitorVars, loop, misses>>

Init ==
  /\ InitCapture /\ InitMonitor
  /\ loop = "start" /\ misses = 0

\* Without a process the camera goes on in classic mode.
StartCapture ==
  /\ loop = "start"
  /\ \/ Start /\ RecordSuccess(Camera) /\ loop' = "run"
     \/ StartFails /\ RecordFailure(Camera) /\ loop' = "classic"
  /\ UNCHANGED misses

\* The loop takes all frames and passes on the last one.  A tick that is due may
\* win over a context that is done.
TickTakes ==
  /\ loop = "run" /\ frames > 0
  /\ frames' = 0 /\ misses' = 0
  /\ RecordSuccess(Camera)
  /\ UNCHANGED <<running, ctxDone, readDone, process, restarter, at, health,
                 bufferClosed, stale, panicked, cameraUp, loop>>

\* Fault for TickMisses: a miss is reported only when the limit is reached.
TickMissesOnce ==
  /\ loop = "run" /\ frames = 0
  /\ misses' = IF misses < MissLimit THEN misses + 1 ELSE misses
  /\ IF misses' = MissLimit /\ misses # MissLimit
     THEN RecordFailure(Camera) ELSE UNCHANGED monitorVars
  /\ UNCHANGED <<captureVars, loop>>

TickMisses ==
  /\ loop = "run" /\ frames = 0
  /\ misses' = IF misses < MissLimit THEN misses + 1 ELSE misses
  /\ IF misses' = MissLimit THEN RecordFailure(Camera) ELSE UNCHANGED monitorVars
  /\ UNCHANGED <<captureVars, loop>>

LoopStops ==
  /\ loop = "run" /\ ctxDone
  /\ Stop
  /\ loop' = "stopped"
  /\ UNCHANGED <<monitorVars, misses>>

Loop == StartCapture \/ TickTakes \/ TickMisses \/ LoopStops

Inside == UNCHANGED <<monitorVars, loop, misses>>

Callback(e) == RunCallback(e) /\ UNCHANGED <<captureVars, loop, misses>>

Next ==
  /\ ~panicked
  /\ \/ Loop
     \/ Goroutines /\ Inside
     \/ Environment /\ Inside
     \/ Cancel /\ Inside
     \/ \E e \in Events : Callback(e)

Spec == Init /\ [][Next]_vars

\* Every goroutine is scheduled, time passes, and of the ffmpeg processes that
\* are started again and again some has its reader and delivers a frame before
\* the next restart, which is 10 s later.
Fairness ==
  /\ WF_vars(~panicked /\ Loop)
  /\ WF_vars(~panicked /\ (RestartBegins \/ RestartSucceeds \/ RestartFails
                         \/ HealthTick \/ GoesStale) /\ Inside)
  /\ WF_vars(~panicked /\ (ReaderBegins \/ ReaderSends \/ ReaderStops
                         \/ ReaderFails) /\ Inside)
  /\ \A e \in Events : WF_vars(~panicked /\ Callback(e))
  /\ SF_vars(~panicked /\ pipeOpen /\ ReaderBegins /\ Inside)
  /\ SF_vars(~panicked /\ ReaderHasFrame /\ Inside)

FairSpec == Spec /\ Fairness
-----------------------------------------------------------------------------
(* Properties *)

TypeOK ==
  /\ CaptureTypeOK /\ MonitorTypeOK
  /\ loop \in {"start", "run", "stopped", "classic"}
  /\ misses \in 0 .. MissLimit

\* However the restarts of the readers and of monitorHealth overlap with each
\* other and with Stop, at most one ffmpeg is alive, and none once Stop has
\* returned (persistent_capture.go:235-293, 334-367).
OneProcess == procs <= 1 /\ (loop = "stopped" => procs = 0)

\* A camera that has failed for good becomes inactive and stays so, and that
\* is announced (camera.go:180-194, monitor.go:104-110).
OutageReported ==
  <>[](~cameraUp) => <>[](~active[Camera] \/ ctxDone)
                     /\ <>(told[Camera] = "inactive" \/ ctxDone \/ loop = "classic")

\* A camera that is back for good delivers frames again: the capture recovers
\* even when Restart has failed and left no reader (persistent_capture.go:209-213).
ComesBack ==
  <>[]cameraUp => []<>(active[Camera] \/ ctxDone \/ loop = "classic")
=============================================================================
