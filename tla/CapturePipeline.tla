-------------------------- MODULE CapturePipeline --------------------------
(***************************************************************************)
(* The path of a frame in v1: the capture loop pushes it into the camera's *)
(* FrameBuffer, bufferDispatcher submits it to the WorkerPool or, when the *)
(* pool refuses it, processes it itself; FrameProcessJob.Process publishes *)
(* the frame, stores it, publishes its metadata and releases its memory to *)
(* the pool of frame buffers, from which the next capture takes it.  main  *)
(* cancels the context, closes the publisher and closes the worker pool.   *)
(*                                                                         *)
(* The module extends WorkerPool and has an instance of FrameBuffer; a     *)
(* frame's number is also the number of its job, and MaxJobs bounds both.  *)
(***************************************************************************)
EXTENDS WorkerPool

CONSTANT Capacity      \* capacity of the FrameBuffer

ASSUME CapacityAssumption == Capacity \in Nat \ {0}

VARIABLES
  buffer, bufferClosed, totalFrames, droppedFrames, pc, consumer, cancelled,
  out, stats,      \* of the FrameBuffer
  capture,         \* the capture loop: "running" or "exited"
  dispatcher,      \* where bufferDispatcher stands
  held,            \* the frame that bufferDispatcher has popped
  stage,           \* where the Process of each frame stands
  released,        \* how many times the memory of each frame was released
  main,            \* where main stands in its shutdown
  publisherClosed, \* main has closed the publisher
  crashed          \* a goroutine has panicked

\* The program closes no FrameBuffer and reads no Stats of one: bufferClosed
\* and stats keep their initial values.
FB == INSTANCE FrameBuffer WITH closed <- bufferClosed, MaxFrames <- MaxJobs

bufferVars == <<buffer, bufferClosed, totalFrames, droppedFrames, pc, consumer,
                cancelled, out, stats>>
poolVars == vars
frameVars == <<stage, released>>
dispatcherVars == <<dispatcher, held>>
mainVars == <<main, publisherClosed, crashed>>
pipelineVars == <<poolVars, bufferVars, capture, frameVars, dispatcherVars,
                  mainVars>>

Frames == Jobs
Stages == {"none", "publish", "save", "metadata", "succeeded", "failed",
           "returned"}

PipelineInit ==
  /\ FB!Init /\ Init
  /\ capture = "running"
  /\ dispatcher = "pop" /\ held = NoJob
  /\ stage = [f \in Frames |-> "none"]
  /\ released = [f \in Frames |-> 0]
  /\ main = "running" /\ publisherClosed = FALSE /\ crashed = FALSE

Alive == ~crashed /\ main # "exited"

Release(f) == released' = [released EXCEPT ![f] = @ + 1]
-----------------------------------------------------------------------------
(* The capture loop: enqueueFrame calls Push *)

\* A tick and the done context are equally eligible: frames may still be
\* captured after the cancellation.
CapturePushes ==
  /\ capture = "running"
  /\ FB!PushBegin
  /\ UNCHANGED <<poolVars, capture, frameVars, dispatcherVars, mainVars>>

\* The steps of Push; the frame that it drops is released.
CaptureInPush ==
  /\ \/ (FB!PushDropOldest /\ Release(Head(buffer)))
     \/ /\ FB!PushTrySend \/ FB!PushFindsFull \/ FB!PushFindsDrained
           \/ FB!PushSend \/ FB!PushCount
        /\ UNCHANGED released
  /\ UNCHANGED <<poolVars, capture, stage, dispatcherVars, mainVars>>

CaptureExits ==
  /\ capture = "running" /\ cancelled /\ pc = "idle"
  /\ capture' = "exited"
  /\ UNCHANGED <<bufferVars, poolVars, frameVars, dispatcherVars, mainVars>>

Capture == CapturePushes \/ CaptureInPush \/ CaptureExits
-----------------------------------------------------------------------------
(* bufferDispatcher *)

DispatcherPops ==
  /\ dispatcher = "pop"
  /\ FB!PopBlockingFrame
  /\ held' = Head(buffer)
  /\ dispatcher' = "submit"
  /\ UNCHANGED <<poolVars, capture, frameVars, mainVars>>

DispatcherExits ==
  /\ dispatcher = "pop"
  /\ FB!PopBlockingEnds
  /\ dispatcher' = "exited"
  /\ UNCHANGED <<poolVars, capture, held, frameVars, mainVars>>

\* Fault for DispatcherSubmits: the job is submitted again.
DispatcherSubmitsAgain ==
  /\ dispatcher = "submit"
  /\ SubmitAccepted(held)
  /\ UNCHANGED <<bufferVars, capture, frameVars, dispatcherVars, mainVars>>

DispatcherSubmits ==
  /\ dispatcher = "submit"
  /\ SubmitAccepted(held)
  /\ dispatcher' = "pop" /\ held' = NoJob
  /\ UNCHANGED <<bufferVars, capture, frameVars, mainVars>>

\* Fault for DispatcherFallsBack: the dispatcher gives the frame up instead of
\* processing it.
DispatcherSkips ==
  /\ dispatcher = "submit"
  /\ SubmitPoolClosed(held) \/ SubmitBufferFull(held)
  /\ dispatcher' = "pop" /\ held' = NoJob
  /\ UNCHANGED <<bufferVars, capture, frameVars, mainVars>>

\* Submit returns an error: the dispatcher processes the frame itself.
DispatcherFallsBack ==
  /\ dispatcher = "submit"
  /\ SubmitPoolClosed(held) \/ SubmitBufferFull(held)
  /\ dispatcher' = "process"
  /\ stage' = [stage EXCEPT ![held] = "publish"]
  /\ UNCHANGED <<bufferVars, capture, held, released, mainVars>>

\* The select of Submit picks the send on the closed channel.
DispatcherPanics ==
  /\ dispatcher = "submit" /\ closed
  /\ crashed' = TRUE
  /\ UNCHANGED <<bufferVars, poolVars, capture, frameVars, dispatcherVars, main,
                 publisherClosed>>

\* The deferred release of Process.
Return(f) == stage' = [stage EXCEPT ![f] = "returned"] /\ Release(f)

DispatcherReturns ==
  /\ dispatcher = "process" /\ stage[held] \in {"succeeded", "failed"}
  /\ Return(held)
  /\ dispatcher' = "pop" /\ held' = NoJob
  /\ UNCHANGED <<bufferVars, poolVars, capture, mainVars>>

Dispatcher == \/ DispatcherPops \/ DispatcherExits \/ DispatcherSubmits
              \/ DispatcherFallsBack \/ DispatcherPanics \/ DispatcherReturns
-----------------------------------------------------------------------------
(* FrameProcessJob.Process and the workers that run it *)

\* Fault for Advance: the frame is released as soon as it is published.
AdvanceReleasing(f, from, to) ==
  /\ stage[f] = from
  /\ stage' = [stage EXCEPT ![f] = to]
  /\ IF from = "publish" THEN Release(f) ELSE UNCHANGED released
  /\ UNCHANGED <<bufferVars, poolVars, capture, dispatcherVars, mainVars>>

Advance(f, from, to) ==
  /\ stage[f] = from
  /\ stage' = [stage EXCEPT ![f] = to]
  /\ UNCHANGED <<bufferVars, poolVars, capture, released, dispatcherVars,
                 mainVars>>

\* Each call may fail; a store or a metadata publisher that is not enabled is
\* skipped.
Publish(f) == \/ Advance(f, "publish", "failed")
              \/ (~publisherClosed /\ Advance(f, "publish", "save"))
SaveFrame(f) == \E to \in {"failed", "metadata", "succeeded"} : Advance(f, "save", to)
PublishMetadata(f) == \E to \in {"failed", "succeeded"} : Advance(f, "metadata", to)

Process(f) == Publish(f) \/ SaveFrame(f) \/ PublishMetadata(f)

\* Every step of a worker; Process begins when the worker has entered the
\* counter and ends when it leaves it.
WorkerBegins(w) ==
  /\ WorkerStarts(w)
  /\ stage' = [stage EXCEPT ![job[w]] = "publish"]
  /\ UNCHANGED <<bufferVars, capture, released, dispatcherVars, mainVars>>

\* Fault for WorkerReturns: a frame whose Process fails is not released.
WorkerReturnsNoDefer(w) ==
  /\ worker[w] = "processing" /\ stage[job[w]] \in {"succeeded", "failed"}
  /\ WorkerFinishes(w, stage[job[w]] = "failed")
  /\ IF stage[job[w]] = "failed"
     THEN stage' = [stage EXCEPT ![job[w]] = "returned"] /\ UNCHANGED released
     ELSE Return(job[w])
  /\ UNCHANGED <<bufferVars, capture, dispatcherVars, mainVars>>

WorkerReturns(w) ==
  /\ worker[w] = "processing" /\ stage[job[w]] \in {"succeeded", "failed"}
  /\ WorkerFinishes(w, stage[job[w]] = "failed")
  /\ Return(job[w])
  /\ UNCHANGED <<bufferVars, capture, dispatcherVars, mainVars>>

WorkerLoops(w) ==
  /\ \/ WorkerReceives(w) \/ WorkerExits(w)
     \/ WorkerCounts(w) \/ WorkerCountsError(w)
     \/ WorkerReports(w) \/ WorkerExitsAtReport(w)
  /\ UNCHANGED <<bufferVars, capture, frameVars, dispatcherVars, mainVars>>

Worker(w) == WorkerBegins(w) \/ WorkerReturns(w) \/ WorkerLoops(w)

Collector ==
  /\ CollectResult \/ CollectorExits
  /\ UNCHANGED <<bufferVars, capture, frameVars, dispatcherVars, mainVars>>
-----------------------------------------------------------------------------
(* main *)

\* The signal cancels the context from which the context of the dispatcher and
\* the one of the pool are derived.
MainCancels ==
  /\ main = "running"
  /\ FB!Cancel /\ ParentCancels
  /\ main' = "cancelled"
  /\ UNCHANGED <<capture, frameVars, dispatcherVars, publisherClosed, crashed>>

\* After two seconds main returns; its deferred calls close the publisher...
MainClosesPublisher ==
  /\ main = "cancelled"
  /\ publisherClosed' = TRUE
  /\ main' = "closing"
  /\ UNCHANGED <<bufferVars, poolVars, capture, frameVars, dispatcherVars, crashed>>

\* ... and then the worker pool.
MainClosesPool ==
  /\ main = "closing"
  /\ Close
  /\ main' = "waiting"
  /\ UNCHANGED <<bufferVars, capture, frameVars, dispatcherVars,
                 publisherClosed, crashed>>

\* Fault for MainExits: main waits for the workers and for the queued jobs, and
\* without a timeout.
MainExitsWhenDrained ==
  /\ main = "waiting" /\ jobs = <<>>
  /\ CloseFindsIdle
  /\ main' = "exited"
  /\ UNCHANGED <<bufferVars, capture, frameVars, dispatcherVars,
                 publisherClosed, crashed>>

\* When Close returns the process exits.
MainExits ==
  /\ main = "waiting"
  /\ CloseFindsIdle \/ CloseTimesOut
  /\ main' = "exited"
  /\ UNCHANGED <<bufferVars, capture, frameVars, dispatcherVars,
                 publisherClosed, crashed>>

Main == MainCancels \/ MainClosesPublisher \/ MainClosesPool \/ MainExits

PipelineNext ==
  /\ Alive
  /\ \/ Capture
     \/ Dispatcher
     \/ \E f \in Frames : Process(f)
     \/ \E w \in Workers : Worker(w)
     \/ Collector
     \/ Main

PipelineSpec == PipelineInit /\ [][PipelineNext]_pipelineVars

\* Every goroutine is scheduled, every publish, save and select returns.  The
\* signal that makes main shut down need not come.
PipelineFairness ==
  /\ WF_pipelineVars(Alive /\ CaptureInPush)
  /\ WF_pipelineVars(Alive /\ Dispatcher)
  /\ \A f \in Frames : WF_pipelineVars(Alive /\ Process(f))
  /\ \A w \in Workers : WF_pipelineVars(Alive /\ Worker(w))
  /\ WF_pipelineVars(Alive /\ Collector)
  /\ WF_pipelineVars(Alive /\ (MainClosesPublisher \/ MainClosesPool \/ MainExits))

PipelineFairSpec == PipelineSpec /\ PipelineFairness
-----------------------------------------------------------------------------
(* Properties *)

PipelineTypeOK ==
  /\ FB!TypeOK /\ TypeOK
  /\ capture \in {"running", "exited"}
  /\ dispatcher \in {"pop", "submit", "process", "exited"}
  /\ held \in Frames \cup {NoJob}
  /\ stage \in [Frames -> Stages]
  /\ released \in [Frames -> Nat]
  /\ main \in {"running", "cancelled", "closing", "waiting", "exited"}
  /\ publisherClosed \in BOOLEAN /\ crashed \in BOOLEAN

InBuffer == {buffer[i] : i \in 1 .. Len(buffer)}
InPush == IF pc \in {"try", "full", "send"} THEN {totalFrames} ELSE {}
InQueue == {jobs[i] : i \in 1 .. Len(jobs)}
WithWorker == {job[w] : w \in Busy}
WithDispatcher == IF dispatcher \in {"submit", "process"} THEN {held} ELSE {}
InUse == InBuffer \cup InPush \cup InQueue \cup WithWorker \cup WithDispatcher

\* The memory of a frame goes back to the pool of frame buffers at most once,
\* and never while the frame is buffered, queued or being published: otherwise
\* the next capture would overwrite an image that is still read, or two frames
\* would share one buffer (frame_pool.go:29, camera.go:408, 450).
ReleasedOnceAndUnused ==
  \A f \in Frames : released[f] <= 1 /\ (released[f] = 1 => f \notin InUse)

\* A frame that was captured is in use or released: none is forgotten, on no
\* error path of Submit or Process.
NoFrameForgotten ==
  \A f \in 1 .. totalFrames : f \in InUse \/ released[f] = 1

\* The dispatcher, main and the timeouts of the process use the pool as its
\* specification allows: no frame is submitted twice or out of order, however
\* the frames that the buffer drops, the refusals of Submit and the fallback
\* come in between (camera.go:126-150).
ImplementsPool == Spec

\* Until the shutdown begins every captured frame is published or given up,
\* and its memory comes back.
MemoryComesBack ==
  \A f \in Frames : totalFrames >= f ~> (released[f] > 0 \/ main # "running")

\* After the signal the program ends.
ShutdownEnds == main = "cancelled" ~> (main = "exited" \/ crashed)

\* The error "pool fechado" (pool.go:115-117) is what Submit promises to the
\* caller that comes after Close.
SubmitAfterCloseIsRefused == ~crashed
=============================================================================
