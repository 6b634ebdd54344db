-------------------------- MODULE MemoryController --------------------------
(***************************************************************************)
(* pkg/memcontrol/controller.go: the controller that watches the memory of *)
(* the v1 program.  The goroutine of monitorLoop measures the use, changes *)
(* the level that the capture loops read, starts goroutines that collect   *)
(* garbage, and at the levels Critical and Emergency collects itself too.  *)
(* The mutex is free between its steps.                                    *)
(*                                                                         *)
(* Memory use is a number without unit that each measurement chooses       *)
(* freely: collections and FreeOSMemory have no other effect.  The gauges  *)
(* that the callbacks set are left out, and so are the delays that         *)
(* GetThrottleDelay returns, which are only slept.  ForceGC is called by   *)
(* nobody; UpdateConfig runs before Start and Stop at the end of main.     *)
(***************************************************************************)
EXTENDS MemoryParameters

VARIABLES
  measured,       \* stats: the use that was measured last
  level,          \* currentLevel
  monitor,        \* where monitorLoop stands
  gcInProgress,   \* field of Controller
  sinceGC,        \* ticks since lastGC, up to GCInterval
  collectors      \* the goroutines of triggerGC that have not ended

vars == <<measured, level, monitor, gcInProgress, sinceGC, collectors>>

Normal == 0
Warning == 1
Critical == 2
Emergency == 3
Levels == {Normal, Warning, Critical, Emergency}

\* determineLevel
LevelOf(use) == IF use >= EmergencyAt THEN Emergency
                ELSE IF use >= CriticalAt THEN Critical
                ELSE IF use >= WarningAt THEN Warning ELSE Normal

ShouldThrottle == level >= Critical
ShouldPause == level >= Emergency

Init ==
  /\ measured = 0 /\ level = Normal
  /\ monitor = "wait"
  /\ gcInProgress = FALSE /\ sinceGC = 0 /\ collectors = 0
-----------------------------------------------------------------------------
(* monitorLoop *)

Goto(from, to) == monitor = from /\ monitor' = to

\* updateStats, on a tick.
Measure ==
  /\ Goto("wait", "measured")
  /\ measured' \in 0 .. MaxUsage
  /\ UNCHANGED <<level, gcInProgress, sinceGC, collectors>>

\* onLevelChange.
ChangeLevel ==
  /\ Goto("measured", "act")
  /\ level' = LevelOf(measured)
  /\ UNCHANGED <<measured, gcInProgress, sinceGC, collectors>>

\* shouldTriggerGC, which is asked at the level Warning only.
ShouldTriggerGC ==
  ~gcInProgress /\ sinceGC >= GCInterval /\ measured >= GCTriggerAt

Wants == \/ LevelOf(measured) >= Critical
         \/ LevelOf(measured) = Warning /\ ShouldTriggerGC

ActNothing ==
  /\ ~Wants
  /\ Goto("act", "wait")
  /\ UNCHANGED <<measured, level, gcInProgress, sinceGC, collectors>>

ActCollect ==
  /\ Wants
  /\ Goto("act", "trigger")
  /\ UNCHANGED <<measured, level, gcInProgress, sinceGC, collectors>>

\* Fault for TriggerGC: the flag is not looked at.
TriggerGCAnyway ==
  /\ Goto("trigger", IF LevelOf(measured) >= Critical THEN "free" ELSE "wait")
  /\ gcInProgress' = TRUE /\ sinceGC' = 0 /\ collectors' = collectors + 1
  /\ UNCHANGED <<measured, level>>

\* A goroutine collects, unless an earlier one still does.
TriggerGC ==
  /\ Goto("trigger", IF LevelOf(measured) >= Critical THEN "free" ELSE "wait")
  /\ IF gcInProgress
     THEN UNCHANGED <<gcInProgress, sinceGC, collectors>>
     ELSE gcInProgress' = TRUE /\ sinceGC' = 0 /\ collectors' = collectors + 1
  /\ UNCHANGED <<measured, level>>

\* The rest of handleCritical, FreeOSMemory, and of handleEmergency: the same,
\* runtime.GC, a sleep and FreeOSMemory again.  The monitor collects itself,
\* beside the goroutine and without the flag.
MonitorCollects ==
  /\ \/ Goto("free", IF LevelOf(measured) = Emergency THEN "gc" ELSE "wait")
     \/ Goto("gc", "freeAgain")
     \/ Goto("freeAgain", "wait")
  /\ UNCHANGED <<measured, level, gcInProgress, sinceGC, collectors>>

Monitor == \/ Measure \/ ChangeLevel \/ ActNothing \/ ActCollect
           \/ TriggerGC \/ MonitorCollects
-----------------------------------------------------------------------------
\* The deferred function of the goroutine clears the flag.
CollectorEnds ==
  /\ collectors > 0
  /\ collectors' = collectors - 1 /\ gcInProgress' = FALSE
  /\ UNCHANGED <<measured, level, monitor, sinceGC>>

Tick ==
  /\ sinceGC < GCInterval
  /\ sinceGC' = sinceGC + 1
  /\ UNCHANGED <<measured, level, monitor, gcInProgress, collectors>>

Next == Monitor \/ CollectorEnds \/ Tick

Spec == Init /\ [][Next]_vars
-----------------------------------------------------------------------------
(* Properties *)

\* The level is that of the last measurement from the change on until the next
\* tick.
TypeOK ==
  /\ measured \in 0 .. MaxUsage /\ level \in Levels
  /\ monitor \in {"wait", "measured", "act", "trigger", "free", "gc", "freeAgain"}
  /\ monitor \notin {"wait", "measured"} => level = LevelOf(measured)
  /\ gcInProgress \in BOOLEAN /\ sinceGC \in 0 .. GCInterval
  /\ collectors \in Nat

\* The goroutines of triggerGC do not pile up, although Critical and Emergency
\* ask for one at every tick, however long a collection lasts: the flag tells
\* whether there is one, and there is at most one.  Of the collections that the
\* monitor makes itself (:246, :258-262) it says nothing (controller.go:280-307).
OneCollection == collectors = IF gcInProgress THEN 1 ELSE 0
=============================================================================
