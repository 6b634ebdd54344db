--------------------------- MODULE ClassicCapture ---------------------------
(***************************************************************************)
(* The classic mode of pkg/camera/camera.go: classicCaptureLoop asks the   *)
(* MemoryController whether to pause or to slow down, and then runs one    *)
(* ffmpeg for one frame under the CircuitBreaker of the camera.            *)
(*                                                                         *)
(* The loop reads the level of memory twice, under a lock that is free in  *)
(* between and during the sleeps.  What happens to the frame is in         *)
(* CapturePipeline; the end of the loop is CaptureExits there.             *)
(*                                                                         *)
(* The module extends CircuitBreaker, whose Init, actions and properties   *)
(* it uses, and has an instance of MemoryController.  In the program the   *)
(* loop is the only caller of its breaker, with Callers = {Camera}; a      *)
(* breaker may serve more, as breaker_test.go:140 has it, and the loop     *)
(* relies on nobody else being absent.                                     *)
(***************************************************************************)
EXTENDS CircuitBreaker, MemoryParameters

CONSTANT Camera   \* the capture loop, one of the callers of the breaker

ASSUME CameraAssumption == Camera \in Callers

VARIABLES
  measured, level, monitor, gcInProgress, sinceGC, collectors,
  loop,     \* where classicCaptureLoop stands
  begun     \* history: captures begun since the level was last below Emergency

Memory == INSTANCE MemoryController

memoryVars == <<measured, level, monitor, gcInProgress, sinceGC, collectors>>
classicVars == <<vars, memoryVars, loop, begun>>

ClassicInit == Init /\ Memory!Init /\ loop = "top" /\ begun = 0

Goto(from, to) == loop = from /\ loop' = to
-----------------------------------------------------------------------------
(* classicCaptureLoop *)

AskPause ==
  /\ Goto("top", IF Memory!ShouldPause THEN "pause" ELSE "throttle")
  /\ UNCHANGED <<vars, memoryVars, begun>>

AskThrottle ==
  /\ Goto("throttle", IF Memory!ShouldThrottle THEN "slow" ELSE "allow")
  /\ UNCHANGED <<vars, memoryVars, begun>>

\* Fault for PauseEnds: the loop goes on with a capture.
PauseEndsInCapture ==
  /\ Goto("pause", "allow")
  /\ UNCHANGED <<vars, memoryVars, begun>>

\* A paused loop starts again from the top.
PauseEnds ==
  /\ Goto("pause", "top")
  /\ UNCHANGED <<vars, memoryVars, begun>>

SlowEnds ==
  /\ Goto("slow", "allow")
  /\ UNCHANGED <<vars, memoryVars, begun>>

\* The breaker admits the capture, and ffmpeg starts.
BeginCapture ==
  /\ Goto("allow", "capture")
  /\ AllowPasses(Camera) \/ AllowTries(Camera)
  /\ begun' = IF Memory!ShouldPause THEN AtMost(begun + 1, 2) ELSE begun
  /\ UNCHANGED memoryVars

Refused ==
  /\ Goto("allow", "top")
  /\ AllowRefuses(Camera)
  /\ UNCHANGED <<memoryVars, begun>>

\* The result is recorded; the rest of the interval is slept.
EndCapture ==
  /\ Goto("capture", "top")
  /\ Record(Camera)
  /\ UNCHANGED <<memoryVars, begun>>

Loop == \/ AskPause \/ AskThrottle \/ PauseEnds \/ SlowEnds
        \/ BeginCapture \/ Refused \/ EndCapture
-----------------------------------------------------------------------------
(* The controller, the clocks and the camera *)

MonitorStep ==
  /\ Memory!Monitor
  /\ begun' = IF level' >= Memory!Emergency THEN begun ELSE 0
  /\ UNCHANGED <<vars, loop>>

CollectorStep ==
  /\ Memory!CollectorEnds
  /\ UNCHANGED <<vars, loop, begun>>

ClockOfMemory ==
  /\ Memory!Tick
  /\ UNCHANGED <<vars, loop, begun>>

ClockOfBreaker ==
  /\ Tick
  /\ UNCHANGED <<memoryVars, loop, begun>>

\* What the breaker offers to others beside the loop: Reset, and calls of their
\* own, at any time.
Others == Reset \/ \E c \in Callers \ {Camera} : Call(c)

Surroundings ==
  /\ CameraChanges \/ Others
  /\ UNCHANGED <<memoryVars, loop, begun>>

ClassicNext == \/ Loop \/ MonitorStep \/ CollectorStep
               \/ ClockOfMemory \/ ClockOfBreaker \/ Surroundings

ClassicSpec == ClassicInit /\ [][ClassicNext]_classicVars

\* The goroutines are scheduled, sleeps and captures end, and time passes.
Fairness == /\ WF_classicVars(Loop)
            /\ WF_classicVars(MonitorStep)
            /\ WF_classicVars(CollectorStep)
            /\ WF_classicVars(ClockOfBreaker)

ClassicFairSpec == ClassicSpec /\ Fairness
-----------------------------------------------------------------------------
(* Properties *)

\* An emergency lets at most one more capture begin, the one whose loop had
\* read the level before: however short the pauses are, the loop reads the
\* level again before each further capture (camera.go:244-265).
OneLateCapture == begun <= 1

\* The goroutines of triggerGC do not pile up, although Critical and Emergency
\* ask for one at every tick: there is at most one, while the flag is set.  The
\* collections of the monitor itself (:246, :258-262) run beside it
\* (controller.go:280-307).
OneCollection == Memory!OneCollection

\* When the camera is up and no emergency is measured any more, from some time
\* on, the paused and refused captures begin again and the breaker closes for
\* good (breaker.go:94, camera.go:253).
Recovers == <>[](cameraUp /\ measured < EmergencyAt) => <>[](state = "Closed")
=============================================================================
