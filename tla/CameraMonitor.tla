--------------------------- MODULE CameraMonitor ---------------------------
(***************************************************************************)
(* pkg/camera/monitor.go with the callbacks of cmd/edge-video/main.go: what*)
(* the v1 program knows of each camera.  The captures record successes and *)
(* failures; a camera becomes inactive with its third failure in a row and *)
(* active with a success.  Every change, and every failure while no camera *)
(* is active, starts a goroutine that publishes an event.                  *)
(*                                                                         *)
(* Two goroutines that publish the same event are one element of callbacks.*)
(***************************************************************************)
EXTENDS Naturals

CONSTANTS Cameras,
          Threshold   \* failures in a row that make a camera inactive; 3 in the code

ASSUME ThresholdAssumption == Threshold \in Nat \ {0}

VARIABLES
  active, failures,   \* IsActive, and ConsecutiveFailures up to Threshold
  callbacks,          \* the goroutines that have an event to publish
  told                \* the last event published of each camera

monitorVars == <<active, failures, callbacks, told>>

Event(c, s) == [camera |-> c, state |-> s]
Alarm == Event("all", "inactive")
Events == [camera : Cameras, state : {"active", "inactive"}] \cup {Alarm}

\* RegisterCamera, of every camera.
InitMonitor ==
  /\ active = [c \in Cameras |-> FALSE]
  /\ failures = [c \in Cameras |-> 0]
  /\ callbacks = {}
  /\ told = [c \in Cameras |-> "none"]

RecordSuccess(c) ==
  /\ failures' = [failures EXCEPT ![c] = 0]
  /\ active' = [active EXCEPT ![c] = TRUE]
  /\ callbacks' = IF active[c] THEN callbacks
                  ELSE callbacks \cup {Event(c, "active")}
  /\ UNCHANGED told

RecordFailure(c) ==
  LET count == IF failures[c] < Threshold THEN failures[c] + 1 ELSE Threshold
      down == count = Threshold
      event == IF down /\ active[c] THEN {Event(c, "inactive")} ELSE {}
  IN /\ failures' = [failures EXCEPT ![c] = count]
     /\ active' = [active EXCEPT ![c] = @ /\ ~down]
     /\ callbacks' = callbacks \cup event
                     \cup (IF \E d \in Cameras : active'[d] THEN {} ELSE {Alarm})
     /\ UNCHANGED told

\* A goroutine publishes its event; they run in any order.
RunCallback(e) ==
  /\ e \in callbacks
  /\ callbacks' = callbacks \ {e}
  /\ told' = IF e = Alarm THEN told ELSE [told EXCEPT ![e.camera] = e.state]
  /\ UNCHANGED <<active, failures>>

MonitorTypeOK ==
  /\ active \in [Cameras -> BOOLEAN]
  /\ failures \in [Cameras -> 0 .. Threshold]
  /\ callbacks \subseteq Events
  /\ told \in [Cameras -> {"none", "active", "inactive"}]
=============================================================================
