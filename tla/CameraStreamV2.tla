--------------------------- MODULE CameraStreamV2 ---------------------------
(***************************************************************************)
(* v2/src/camera_stream.go with v2/src/circuit_breaker.go: the goroutines  *)
(* that keep the ffmpeg of one v2 camera running.  startFFmpeg starts it   *)
(* and reads its frames until it fails; a failure is recorded in the       *)
(* circuit breaker and starts, unless the flag retrying is set, a          *)
(* goroutine in retryFFmpegWithBackoff, which waits for the breaker, starts*)
(* another startFFmpeg and clears the flag when it has returned.           *)
(*                                                                         *)
(* The model counts the goroutines that stand at each place, so that the   *)
(* code alone bounds how many there are.  Of the time it keeps whether the *)
(* breaker's backoff has passed.  The frames are in FramePathV2.           *)
(*                                                                         *)
(* The breaker's lock is a sync.RWMutex, whose read lock is not granted    *)
(* while a writer waits.  The writer is the goroutine of the stream, which *)
(* waits at "lock"; the readers are the monitor of the statistics and the  *)
(* final report, whose Stats takes the read lock twice.                    *)
(***************************************************************************)
EXTENDS Naturals

CONSTANTS Enabled,      \* circuit_breaker.enabled
          MaxFailures   \* circuit_breaker.max_failures

ASSUME EnabledAssumption == Enabled \in BOOLEAN
ASSUME MaxFailuresAssumption == MaxFailures \in Nat \ {0}

VARIABLES
  running, retrying,       \* fields of CameraStream
  ctxDone,                 \* the camera's context is done
  at,                      \* how many goroutines stand at each place
  state, failures,         \* fields of CircuitBreaker
  backoffOver,             \* its backoff has passed since the last failure
  reading,                 \* how many calls of Stats hold its read lock
  cameraUp                 \* ffmpeg can start and deliver frames

breakerVars == <<state, failures, backoffOver>>
vars == <<running, retrying, ctxDone, at, breakerVars, reading, cameraUp>>

StreamPlaces == {"start", "read", "record", "lock", "ask"}
RetryPlaces == {"check", "sleep", "leave"}
Places == StreamPlaces \cup RetryPlaces \cup {"publish"}
Readers == 2   \* statsMonitor and printFinalReport

\* A goroutine moves, ends, or ends having started another one.
Move(from, to) ==
  at[from] > 0 /\ at' = [at EXCEPT ![from] = @ - 1, ![to] = @ + 1]
Leave(from) == at[from] > 0 /\ at' = [at EXCEPT ![from] = @ - 1]

Init ==
  /\ running = FALSE /\ retrying = FALSE /\ ctxDone = FALSE
  /\ at = [p \in Places |-> 0]
  /\ state = "Closed" /\ failures = 0 /\ backoffOver = FALSE
  /\ reading = 0 /\ cameraUp = TRUE
-----------------------------------------------------------------------------
(* Start and Stop *)

\* Fault for Start: the flag is not looked at.
StartAgain ==
  /\ running' = TRUE
  /\ at["start"] < 2 /\ at' = [at EXCEPT !["start"] = @ + 1, !["publish"] = 1]
  /\ UNCHANGED <<retrying, ctxDone, breakerVars, reading, cameraUp>>

\* A second call returns at once.
Start ==
  /\ ~running
  /\ running' = TRUE
  /\ at' = [at EXCEPT !["start"] = @ + 1, !["publish"] = @ + 1]
  /\ UNCHANGED <<retrying, ctxDone, breakerVars, reading, cameraUp>>

\* Stop cancels the context, which kills ffmpeg.
Stop ==
  /\ running /\ ~ctxDone
  /\ ctxDone' = TRUE
  /\ UNCHANGED <<running, retrying, at, breakerVars, reading, cameraUp>>

PublishLoopEnds ==
  /\ ctxDone
  /\ Leave("publish")
  /\ UNCHANGED <<running, retrying, ctxDone, breakerVars, reading, cameraUp>>
-----------------------------------------------------------------------------
(* startFFmpeg and readFrames *)

\* A pipe cannot be created: the goroutine returns and nobody retries.
PipeFails ==
  /\ Leave("start")
  /\ UNCHANGED <<running, retrying, ctxDone, breakerVars, reading, cameraUp>>

StartSucceeds ==
  /\ ~ctxDone
  /\ Move("start", "read")
  /\ UNCHANGED <<running, retrying, ctxDone, breakerVars, reading, cameraUp>>

StartFails ==
  /\ ~cameraUp \/ ctxDone
  /\ Move("start", "record")
  /\ UNCHANGED <<running, retrying, ctxDone, breakerVars, reading, cameraUp>>

\* The stream ends.
ReadFails ==
  /\ ~cameraUp /\ ~ctxDone
  /\ Move("read", "record")
  /\ UNCHANGED <<running, retrying, ctxDone, breakerVars, reading, cameraUp>>

ReadStops ==
  /\ ctxDone
  /\ Leave("read")
  /\ UNCHANGED <<running, retrying, ctxDone, breakerVars, reading, cameraUp>>

\* Execute of a function that fails: an open breaker rejects the call while its
\* backoff lasts and is half-open for it afterwards.
Execute ==
  LET allowed == state # "Open" \/ backoffOver
      count == IF failures < MaxFailures THEN failures + 1 ELSE failures
  IN IF allowed
     THEN /\ failures' = count
          /\ state' = IF state # "Closed" \/ count >= MaxFailures
                      THEN "Open" ELSE state
          /\ backoffOver' = FALSE
     ELSE UNCHANGED breakerVars

\* A breaker that is disabled takes no lock; otherwise the goroutine waits for
\* the lock from here on, and new readers wait for the goroutine.
RecordBegins ==
  /\ Move("record", IF Enabled THEN "lock" ELSE "ask")
  /\ UNCHANGED <<running, retrying, ctxDone, breakerVars, reading, cameraUp>>

RecordFailure ==
  /\ reading = 0
  /\ Move("lock", "ask")
  /\ Execute
  /\ UNCHANGED <<running, retrying, ctxDone, reading, cameraUp>>

\* Fault for AskRetry: a retry is started whether or not there is one.
AskRetryAlways ==
  /\ retrying' = TRUE
  /\ at["check"] < 2 /\ Move("ask", "check")
  /\ UNCHANGED <<running, ctxDone, breakerVars, reading, cameraUp>>

\* The goroutine ends; it starts a retry unless the flag is set.
AskRetry ==
  /\ retrying' = TRUE
  /\ IF retrying THEN Leave("ask") ELSE Move("ask", "check")
  /\ UNCHANGED <<running, ctxDone, breakerVars, reading, cameraUp>>

Stream == \/ PipeFails \/ StartSucceeds \/ StartFails \/ ReadFails \/ ReadStops
          \/ RecordBegins \/ RecordFailure \/ AskRetry
-----------------------------------------------------------------------------
(* retryFFmpegWithBackoff *)

\* The goroutine looks at Stats in one step: while it does there is no stream,
\* hence no writer that could come between the two read locks.

\* Fault for RetryStops: a sleeping goroutine is told, one that finds the
\* breaker open is not.
RetryStopsIfClosed ==
  /\ ctxDone /\ state # "Open"
  /\ Move("check", "leave")
  /\ UNCHANGED <<running, retrying, ctxDone, breakerVars, reading, cameraUp>>

RetryStops ==
  /\ ctxDone
  /\ Move("check", "leave")
  /\ UNCHANGED <<running, retrying, ctxDone, breakerVars, reading, cameraUp>>

\* The breaker is open; when its backoff has passed the loop goes round
\* without waiting.
RetrySleeps ==
  /\ ~ctxDone /\ state = "Open" /\ ~backoffOver
  /\ Move("check", "sleep")
  /\ UNCHANGED <<running, retrying, ctxDone, breakerVars, reading, cameraUp>>

RetryWakes ==
  /\ backoffOver
  /\ Move("sleep", "check")
  /\ UNCHANGED <<running, retrying, ctxDone, breakerVars, reading, cameraUp>>

\* The new goroutine runs although the deferred function has not yet.
RetryStarts ==
  /\ ~ctxDone /\ state # "Open"
  /\ at["check"] > 0
  /\ at' = [at EXCEPT !["check"] = @ - 1, !["start"] = @ + 1, !["leave"] = @ + 1]
  /\ UNCHANGED <<running, retrying, ctxDone, breakerVars, reading, cameraUp>>

RetryLeaves ==
  /\ Leave("leave")
  /\ retrying' = FALSE
  /\ UNCHANGED <<running, ctxDone, breakerVars, reading, cameraUp>>

Retry == RetryStops \/ RetrySleeps \/ RetryWakes \/ RetryStarts \/ RetryLeaves

-----------------------------------------------------------------------------
(* Stats of the breaker, for the monitor and the final report *)

StatsLocks ==
  /\ at["lock"] = 0 /\ reading < Readers
  /\ reading' = reading + 1
  /\ UNCHANGED <<running, retrying, ctxDone, at, breakerVars, cameraUp>>

\* timeUntilRetry takes the read lock again; then Stats returns.
StatsReturns ==
  /\ at["lock"] = 0 /\ reading > 0
  /\ reading' = reading - 1
  /\ UNCHANGED <<running, retrying, ctxDone, at, breakerVars, cameraUp>>

Stats == StatsLocks \/ StatsReturns
-----------------------------------------------------------------------------
(* The environment *)

BackoffPasses ==
  /\ state = "Open" /\ ~backoffOver
  /\ backoffOver' = TRUE
  /\ UNCHANGED <<running, retrying, ctxDone, at, state, failures, reading, cameraUp>>

CameraChanges ==
  /\ cameraUp' = ~cameraUp
  /\ UNCHANGED <<running, retrying, ctxDone, at, breakerVars, reading>>

Next == \/ Start \/ Stop \/ PublishLoopEnds
        \/ Stream \/ Retry \/ Stats
        \/ BackoffPasses \/ CameraChanges

Spec == Init /\ [][Next]_vars

\* The goroutines are scheduled and time passes.
Fairness == /\ WF_vars(PublishLoopEnds) /\ WF_vars(Stream) /\ WF_vars(Retry)
            /\ WF_vars(BackoffPasses) /\ WF_vars(StatsReturns)

FairSpec == Spec /\ Fairness
-----------------------------------------------------------------------------
(* Properties *)

TypeOK ==
  /\ running \in BOOLEAN /\ retrying \in BOOLEAN /\ ctxDone \in BOOLEAN
  /\ backoffOver \in BOOLEAN /\ cameraUp \in BOOLEAN
  /\ at \in [Places -> Nat]
  /\ state \in {"Closed", "Open", "HalfOpen"}
  /\ failures \in 0 .. MaxFailures
  /\ reading \in 0 .. Readers

Streams == at["start"] + at["read"] + at["record"] + at["lock"] + at["ask"]
Retries == at["check"] + at["sleep"] + at["leave"]

\* However the end of a retry races the failure of the stream it has started,
\* a camera has at most one ffmpeg and at most one goroutine that is going to
\* start one, and never both (camera_stream.go:35, 98, 188, 243).
OneStream == Streams + at["check"] + at["sleep"] <= 1

\* The flag is set exactly while a retry goroutine is there, so that it never
\* stays set with nobody to clear it.
FlagExact == Retries = IF retrying THEN 1 ELSE 0

\* A reader and the stream wait for each other: the reader for its second read
\* lock, behind the stream, which waits for the first one to be released.
Deadlocked == reading > 0 /\ at["lock"] > 0

\* After Stop every goroutine of the camera ends, those that wait for an open
\* breaker included, or Stats and the stream have locked each other out
\* (circuit_breaker.go:336, 346, 260): nothing else keeps one of them.
StopEnds == ctxDone ~> (Deadlocked \/ \A p \in Places : at[p] = 0)

\* "HALF_OPEN (Teste): Apos timeout, testa se camera voltou"
\* (v2/README.md:374): a goroutine that waits for an open breaker starts the
\* stream again.
OpenIsTried == (state = "Open" /\ at["check"] > 0) ~> (Streams > 0 \/ ctxDone)
=============================================================================
