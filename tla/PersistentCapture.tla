------------------------- MODULE PersistentCapture -------------------------
(***************************************************************************)
(* pkg/camera/persistent_capture.go: one ffmpeg process that stays up, the *)
(* goroutine that reads its frames, and the one that watches over both.    *)
(* Either may call Restart, which takes the mutex for more than a second   *)
(* while the readers go on without it: a reader looks at the fields stdout *)
(* and readCtx as they are when it gets there.                             *)
(*                                                                         *)
(* The model counts the reader goroutines at each place.  Of a pipe it     *)
(* keeps whether it is the current one; of a frame, that there is one; of  *)
(* the time, whether 30 s have passed without a frame.  Left out are the   *)
(* flag restarting, which is set and cleared under the mutex and never     *)
(* read as TRUE, and errorCount, which only delays a Restart.              *)
(***************************************************************************)
EXTENDS Naturals

CONSTANTS BufferSize,  \* capacity of the channel frameBuffer
          MaxReaders   \* bound: readers at the same time

ASSUME BufferSizeAssumption == BufferSize \in Nat \ {0}
ASSUME MaxReadersAssumption == MaxReaders \in Nat \ {0}

VARIABLES
  running,        \* field of PersistentCapture
  ctxDone,        \* its context is done
  readDone,       \* the context readCtx is done
  pipeOpen,       \* the pipe stdout is open
  cmdAlive,       \* the process cmd is alive
  procs,          \* the ffmpeg processes that are alive
  restarter,      \* who holds the mutex in Restart
  at,             \* how many readers stand at each place
  health,         \* where monitorHealth stands
  frames,         \* frames in the channel frameBuffer
  bufferClosed,   \* it is closed
  stale,          \* no frame was received for 30 s
  panicked,       \* a reader has sent on the closed channel
  cameraUp        \* ffmpeg can start and deliver frames

process == <<pipeOpen, cmdAlive, procs>>
buffer == <<frames, bufferClosed, stale, panicked>>
captureVars == <<running, ctxDone, readDone, process, restarter, at, health,
                 buffer, cameraUp>>

ReaderPlaces == {"begin", "read", "send", "read old", "send old", "error"}

Move(from, to) ==
  at[from] > 0 /\ at' = [at EXCEPT ![from] = @ - 1, ![to] = @ + 1]
Leave(from) == at[from] > 0 /\ at' = [at EXCEPT ![from] = @ - 1]

Readers == at["begin"] + at["read"] + at["send"] + at["read old"]
           + at["send old"] + at["error"]

InitCapture ==
  /\ running = FALSE /\ ctxDone = FALSE /\ readDone = FALSE
  /\ pipeOpen = FALSE /\ cmdAlive = FALSE /\ procs = 0
  /\ restarter = "nobody" /\ health = "idle"
  /\ at = [p \in ReaderPlaces |-> 0]
  /\ frames = 0 /\ bufferClosed = FALSE /\ stale = FALSE /\ panicked = FALSE
  /\ cameraUp = TRUE
-----------------------------------------------------------------------------
(* Start, Restart and Stop, under the mutex *)

\* Fault for StartFFmpeg: the process is not bound to the context.
StartFFmpegDetached ==
  pipeOpen' = TRUE /\ cmdAlive' = TRUE /\ procs' = procs + 1

\* A command whose context is done is not started.
StartFFmpeg ==
  /\ ~ctxDone
  /\ pipeOpen' = TRUE /\ cmdAlive' = TRUE /\ procs' = procs + 1

MayFail == ~cameraUp \/ ctxDone

Start ==
  /\ ~running /\ restarter = "nobody"
  /\ StartFFmpeg
  /\ running' = TRUE /\ readDone' = FALSE /\ health' = "wait"
  /\ at' = [at EXCEPT !["begin"] = @ + 1]
  /\ UNCHANGED <<ctxDone, restarter, buffer, cameraUp>>

StartFails ==
  /\ ~running /\ MayFail
  /\ UNCHANGED captureVars

KillFFmpeg ==
  /\ pipeOpen' = FALSE /\ cmdAlive' = FALSE
  /\ procs' = IF cmdAlive THEN procs - 1 ELSE procs

\* The readers of the current pipe are left with a closed one.
Orphaned == [at EXCEPT !["read"] = 0, !["read old"] = @ + at["read"],
                       !["send"] = 0, !["send old"] = @ + at["send"]]

RestartBegins ==
  /\ restarter = "nobody"
  /\ \/ /\ health = "restart"
        /\ restarter' = "health" /\ at' = Orphaned
     \/ /\ at["error"] > 0
        /\ restarter' = "reader" /\ at' = [Orphaned EXCEPT !["error"] = @ - 1]
  /\ readDone' = TRUE
  /\ KillFFmpeg
  /\ UNCHANGED <<running, ctxDone, health, buffer, cameraUp>>

\* The goroutine of monitorHealth goes on, that of a reader ends.
RestartReturns ==
  /\ restarter # "nobody" /\ restarter' = "nobody"
  /\ health' = IF restarter = "health" THEN "wait" ELSE health

RestartSucceeds ==
  /\ RestartReturns
  /\ StartFFmpeg
  /\ readDone' = FALSE
  /\ at' = [at EXCEPT !["begin"] = @ + 1]
  /\ UNCHANGED <<running, ctxDone, buffer, cameraUp>>

\* No reader is left: monitorHealth has to try again.
RestartFails ==
  /\ RestartReturns /\ MayFail
  /\ UNCHANGED <<running, ctxDone, readDone, process, at, buffer, cameraUp>>

Stop ==
  /\ running /\ restarter = "nobody"
  /\ running' = FALSE
  /\ ctxDone' = TRUE /\ readDone' = TRUE
  /\ KillFFmpeg
  /\ at' = Orphaned
  /\ bufferClosed' = TRUE
  /\ UNCHANGED <<restarter, health, frames, stale, panicked, cameraUp>>
-----------------------------------------------------------------------------
(* readFrames *)

\* The reader takes the pipe that is the current one when it first runs.
ReaderBegins ==
  /\ Move("begin", IF pipeOpen THEN "read" ELSE "read old")
  /\ UNCHANGED <<running, ctxDone, readDone, process, restarter, health,
                 buffer, cameraUp>>

ReaderStops ==
  /\ readDone \/ ctxDone
  /\ Leave("read") \/ Leave("read old")
  /\ UNCHANGED <<running, ctxDone, readDone, process, restarter, health,
                 buffer, cameraUp>>

\* The read fails and readCtx, which may be that of a newer reader, is not done.
ReaderFails ==
  /\ ~readDone /\ ~ctxDone
  /\ (~cmdAlive /\ Move("read", "error")) \/ Move("read old", "error")
  /\ UNCHANGED <<running, ctxDone, readDone, process, restarter, health,
                 buffer, cameraUp>>

ReaderHasFrame ==
  /\ cmdAlive /\ cameraUp
  /\ Move("read", "send")
  /\ UNCHANGED <<running, ctxDone, readDone, process, restarter, health,
                 buffer, cameraUp>>

\* A frame for which there is no room is discarded.
ReaderSends ==
  /\ ~bufferClosed
  /\ Move("send", "read") \/ Move("send old", "read old")
  /\ frames' = IF frames < BufferSize THEN frames + 1 ELSE frames
  /\ stale' = FALSE
  /\ UNCHANGED <<running, ctxDone, readDone, process, restarter, health,
                 bufferClosed, panicked, cameraUp>>

\* A send on the closed channel ends the program.
ReaderPanics ==
  /\ bufferClosed /\ at["send"] + at["send old"] > 0
  /\ panicked' = TRUE
  /\ UNCHANGED <<running, ctxDone, readDone, process, restarter, at, health,
                 frames, bufferClosed, stale, cameraUp>>

Reader == \/ ReaderBegins \/ ReaderStops \/ ReaderFails \/ ReaderHasFrame
          \/ ReaderSends \/ ReaderPanics
-----------------------------------------------------------------------------
(* monitorHealth, the process and the time *)

\* Fault for HealthTick: a capture without a reader is left alone.
HealthTickReading ==
  /\ health = "wait" /\ stale /\ Readers \in 1 .. MaxReaders - 1
  /\ health' = "restart"
  /\ UNCHANGED <<running, ctxDone, readDone, process, restarter, at, buffer, cameraUp>>

HealthTick ==
  /\ health = "wait" /\ stale /\ Readers < MaxReaders
  /\ health' = "restart"
  /\ UNCHANGED <<running, ctxDone, readDone, process, restarter, at, buffer, cameraUp>>

HealthEnds ==
  /\ health = "wait" /\ ctxDone
  /\ health' = "ended"
  /\ UNCHANGED <<running, ctxDone, readDone, process, restarter, at, buffer, cameraUp>>

\* The camera fails, or the context is done and the process is killed.
FFmpegExits ==
  /\ cmdAlive /\ MayFail
  /\ cmdAlive' = FALSE /\ procs' = procs - 1
  /\ UNCHANGED <<running, ctxDone, readDone, pipeOpen, restarter, at, health,
                 buffer, cameraUp>>

\* 30 s pass without a frame.
GoesStale ==
  /\ running /\ ~stale
  /\ ~(cameraUp /\ cmdAlive /\ at["read"] + at["send"] > 0)
  /\ stale' = TRUE
  /\ UNCHANGED <<running, ctxDone, readDone, process, restarter, at, health,
                 frames, bufferClosed, panicked, cameraUp>>

Cancel ==
  /\ ~ctxDone
  /\ ctxDone' = TRUE
  /\ UNCHANGED <<running, readDone, process, restarter, at, health, buffer, cameraUp>>

CameraChanges ==
  /\ cameraUp' = ~cameraUp
  /\ UNCHANGED <<running, ctxDone, readDone, process, restarter, at, health, buffer>>

Goroutines == \/ RestartBegins \/ RestartSucceeds \/ RestartFails
              \/ Reader \/ HealthTick \/ HealthEnds

Environment == FFmpegExits \/ GoesStale \/ CameraChanges

CaptureTypeOK ==
  /\ running \in BOOLEAN /\ ctxDone \in BOOLEAN /\ readDone \in BOOLEAN
  /\ pipeOpen \in BOOLEAN /\ cmdAlive \in BOOLEAN /\ procs \in Nat
  /\ restarter \in {"nobody", "health", "reader"}
  /\ at \in [ReaderPlaces -> Nat]
  /\ health \in {"idle", "wait", "restart", "ended"}
  /\ frames \in 0 .. BufferSize
  /\ bufferClosed \in BOOLEAN /\ stale \in BOOLEAN /\ panicked \in BOOLEAN
  /\ cameraUp \in BOOLEAN
=============================================================================
