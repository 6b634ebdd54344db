# edge-video in TLA+

This directory holds TLA+ models of edge-video, the Go program that captures
frames from IP cameras with ffmpeg and publishes them to a message broker. The
models are translated from the code (`pkg/`, `internal/`, `cmd/` for v1 and
`v2/src/` for v2), checked with TLC on small instances, and, all but liveness,
proved with TLAPS for every instance. Comments in the modules name the code behaviour that
each property is about; `PROJECT.json` maps each definition to its lines.

## The system

### v1: one process, many cameras

```
ffmpeg -> PersistentCapture -> persistentCaptureLoop -> FrameBuffer
                  |                     |                   |
           monitorHealth          CameraMonitor      bufferDispatcher
                                  (status events)      |         |
                                               worker.Pool   (synchronous
                                                       |       fallback)
                                           FrameProcessJob.Process
                                            |         |         |
                                       publisher    Redis    metadata
```

| Component | State | Operations | Runs in | What makes it correct |
|---|---|---|---|---|
| Frame buffer, `pkg/buffer/frame_buffer.go` | a bounded channel, two atomic counters | Push (drops the oldest when full), Pop, PopBlocking, Close, Stats | capture loop, dispatcher | Push never waits; order and identity of frames are kept; every drop is counted |
| Worker pool, `pkg/worker/pool.go` | channels `jobs` and `results`, counters, context | Submit, SubmitNonBlocking, worker, resultCollector, Close | N workers, a collector, every dispatcher, main | a job runs once; counters are exact; workers exit; Close returns |
| Capture, `pkg/camera/camera.go`, `frame_pool.go` | the buffer, the pooled memory of the frames | capture loops, bufferDispatcher, Process | two goroutines per camera, the workers | the memory of a frame goes back once, after its last use |
| Persistent capture, `persistent_capture.go` | process, pipes, `readCtx`, channel of frames | Start, Restart, Stop, readFrames, monitorHealth | readers, health goroutine, camera loop | one ffmpeg per camera; the capture comes back after an outage |
| Camera monitor, `monitor.go` | active flag and failures per camera | RecordSuccess, RecordFailure, callbacks | camera loops; a goroutine per event | outages are noticed and announced |
| Circuit breaker, `pkg/circuit/breaker.go` | state, failures, successes, backoff | Call, Allow, RecordSuccess, RecordFailure, Reset | the classic capture loop | threshold, backoff and trial follow what was recorded |
| AMQP publisher, `pkg/mq/amqp.go` | `conn`, `channel`, `closed` | NewAMQPPublisher, Publish, reconnect, handleConnectionClose, Close | all workers, a goroutine per connection, main | calls end; the publisher recovers; closed is final |
| main, `cmd/edge-video/main.go` | | start; cancel, then deferred Close calls | main | the shutdown ends |
| Memory controller, `pkg/memcontrol/controller.go` | level, last measurement, `gcInProgress` | monitorLoop, triggerGC, ShouldPause, ShouldThrottle | its own goroutine, a goroutine per collection; the capture loops read it | captures pause in an emergency; goroutines that collect do not pile up |
| Redis store, key generator, `internal/storage/` | `client` under a read-write lock, sequence number | SaveFrame with its second attempt, reconnect, GenerateKey | all workers and dispatchers | one open client; distinct keys; a frame is stored under one key; calls end |
| Metadata publisher, `internal/metadata/publisher.go` | the channel it was given at the start | PublishMetadata, status events | workers, callbacks | metadata name a key that is stored |
| registration client, MQTT publisher | | a retry loop; a wrapper of a client library | background goroutines | not modelled, see the end |
| configuration, compression, metrics, logging, Windows service | | | | pure data, output or operating-system glue; not modelled |

### v2: one process, one publisher per camera

| Component | State | Operations | Runs in | What makes it correct |
|---|---|---|---|---|
| Camera stream, `v2/src/camera_stream.go` | `running`, `retrying`, context, ffmpeg, `frameChan`, counters | Start, Stop, startFFmpeg, readFrames, retryFFmpegWithBackoff, publishLoop | stream, retry and publish goroutines | one ffmpeg, one retry, every frame accounted for, everything ends after Stop |
| Circuit breaker, `v2/src/circuit_breaker.go` | state, failures, backoff | Execute, Stats | stream and retry, the monitor of the statistics | an open breaker is tried again; Stats and Execute do not lock each other out |
| Publisher, `v2/src/publisher.go` | `conn`, `channel`, `notifyClose`, `connected`, `reconnecting` | NewPublisher, Publish, reconnect, monitorConnection, Close | monitor, a goroutine per frame and per failed Publish | one reconnection at a time, no leak, connected again in the end |
| memory controller, main, config, profiling, `camera.go`, `pool.go` | | | | reports, or code that the program does not call; not modelled |

### What is hard to test

Interleavings inside one method (Push between its two selects, Close between a
worker's receive and its counter), restarts requested by two goroutines at once,
connections lost between two steps of a reconnection, shutdown while every stage
still holds a frame, and the liveness of it all: retries that must start, waits
that must end. `PROJECT.json` lists these hazards with their lines and the
properties that watch them. Those without a property say why: some of them are
reached in the models because the code does not exclude them, and a property
that passes would have to look away.

## Modules

| Module | Models | Remarks |
|---|---|---|
| `LossyQueue` | what the frame buffer promises | abstract: a bounded FIFO that replaces its oldest element when full |
| `FrameBuffer` | `frame_buffer.go` | one action per select of Push (`pc`); `out` is a history of the frames that have left and how |
| `WorkerPool` | `pool.go` | receive, counter, Process, totals and report of a worker are separate steps; `SubmitNext` is what callers may do: submit each job at most once, in the order of the numbers; `fate` is a history |
| `CapturePipeline` | `camera.go`, `frame_pool.go`, shutdown of `main.go` | extends `WorkerPool`, has an instance of `FrameBuffer` and uses the actions of both; `stage` is the progress of Process, `released` counts the returns of each frame's memory |
| `RedisStore` | `redis_store.go`, `key_generator.go` | a caller reads the client under the lock and uses it after the unlock; `numbers` and `stored` are histories |
| `FrameProcessing` | `FrameProcessJob.Process` with its store and its metadata | extends `RedisStore`; `connection` is the publisher's, of which the metadata publisher has only the first |
| `MemoryParameters` | thresholds of the memory controller | the constants and their assumptions |
| `CircuitBreaker` | `breaker.go` | time in ticks since the last failure; `streak`, `trial` and `opens` are histories of what was recorded |
| `MemoryController` | `memcontrol/controller.go` | each measurement chooses the use of memory; `collectors` counts the goroutines of triggerGC, `MonitorCollects` is what the monitor collects itself |
| `ClassicCapture` | `classicCaptureLoop`, `captureAndPublish` | extends `CircuitBreaker`, has an instance of `MemoryController` and uses the actions of both; the loop reads the level once per step, as the code does; `Others` are further callers of the breaker; `begun` is a history |
| `AMQPPublisher` | `amqp.go` | every goroutine has a place `at`; a connection stands also for its channel and for the goroutine that waits for its end |
| `PersistentCapture` | `persistent_capture.go` | counts the readers at each place, so that the code alone bounds them |
| `CameraMonitor` | `monitor.go` and the callbacks of `main.go` | the goroutines of the events are the set `callbacks` |
| `PersistentCamera` | `Capture.Start`, `persistentCaptureLoop` | composes `PersistentCapture` and `CameraMonitor` |
| `CameraStreamV2` | v2 `camera_stream.go`, `circuit_breaker.go` | counts the goroutines at each place; `reading` and the place `lock` are the two sides of the breaker's read-write lock |
| `FramePathV2` | readFrames, publishLoop and Publish of v2, as far as frames go | extends `CameraStreamV2` with the frames; `flushed` is a history |
| `PublisherV2` | v2 `publisher.go` | the unprotected fields and the flags under the mutex are separate variables; connect is one step per call to the broker |
| `*Proofs` | | theorems about the module of that name |
| `MC*` | | the instances that TLC checks |

A definition whose comment says *Fault for X* is a broken variant of `X`, kept
beside it: with it in the place of `X` the property named in `PROJECT.json`
fails, which shows that the property depends on that code.

### Abstractions

- Frames are numbers; a payload is never looked at. Logs and metrics are left
  out.
- Network calls have the outcomes success and failure. In the reconnection
  models a failure needs `~brokerUp` (or a camera that is down), and the broker
  may come and go at any time.
- A `select` with several ready cases takes any of them; a tick that is due may
  win over a context that is done.
- Connection identifiers are used again once nothing refers to them, so the
  number of reconnections is unbounded in a finite model.
- The frame buffer has one producer and one consumer, as in the program. The
  program never calls its Pop, Close and Stats; `FrameBuffer` has them
  nonetheless, `CapturePipeline` does not. A Pop of an empty channel changes
  nothing and is left out; of a closed one it returns an empty frame and true
  (frame_buffer.go:53-60).
- `WorkerPool`: the counters are unbounded naturals; the log of the collector
  is left out. `CapturePipeline` has one camera.
- `MemoryController`: the gauges that the callbacks set are left out, and the
  delays are sleeps of any length. The two clocks of `ClassicCapture` are
  independent, as each is only compared with a time of its own.
- `ClassicCapture`: in the program the capture loop is the only caller of its
  breaker, and nothing calls Reset. The breaker has a mutex and a test with
  concurrent callers (breaker_test.go:140), and its properties are about calls
  that overlap, so the model allows Reset at any time and calls of others
  (`Callers \ {Camera}`); with `Callers = {Camera}` it is the program.
- `CircuitBreaker`: elapsed time saturates one tick above the longest backoff,
  and `opens` at `MaxOpens`, which suffices to reach that backoff
  (`BackoffBound`).
- `AMQPPublisher`: the loss of a channel and that of its connection are one
  event; the check of `closed` and `closeCurrent` are one step, and so are the
  context check and the send.
- `PersistentCapture`: the flag `restarting` is left out (it is set and cleared
  under the mutex that every reader of it holds) and so is `errorCount`, which
  only delays a Restart.
- `RedisStore`: a key is its sequence number and the frame it was made for;
  vhost, prefix, camera and time come with the frame. A failed Set has been
  executed by Redis or has not. Which error an interrupted Set returns is open,
  so that shouldRetry says either. GetFrame and QueryFrames, which read the
  client without its lock, are called by nobody.
- `FrameProcessing`: Publish is one step; its own attempts are in
  `AMQPPublisher`. Store and metadata are enabled: disabled, there is nothing of
  them left. How a frame reaches its caller is in `CapturePipeline`.
- `CameraStreamV2`: the program passes to Execute only functions that fail, so
  onSuccess does not appear. Execute takes the breaker's lock three times in a
  row; the model waits for it once. `FramePathV2`: readFrames copies a frame
  and returns its buffer to the pool before it sends it, so that no memory is
  shared; the count of a received frame (camera_stream.go:282) and the select
  that sends it (:287) are one step, as the one reader of the stream makes both
  and nobody else looks at that count but the reports; the check of
  `connected`, the send and the count of Publish are one step.
- `PublisherV2`: the counters and handleConfirms, which only counts, are
  left out. Close of a connection returns: `notifyClose` has no buffer
  (publisher.go:153), so that a library that delivers the error of a connection
  synchronously, while its only reader, the monitor, is in reconnect and closes
  that connection, could keep the monitor waiting for itself. Whether it can is
  a matter of the library and not in the model.

## Runs

| Run | Instance | Shows |
|---|---|---|
| `frame_buffer` | capacity 2, 5 pushes | Push never waits, frames are conserved in order, releases are counted, Stats is consistent, the buffer implements `LossyQueue`, frames leave |
| `worker_pool` | 2 workers, one-slot channels, 3 jobs | jobs in one place, exact counter, workers exit, accepted jobs run |
| `pipeline` | 1 camera, 1 worker, one-slot channels, 3 frames | memory released once and unused, no frame forgotten, the pool is used as `WorkerPool` allows, all memory comes back, shutdown ends |
| `pipeline_panic` | the same | *violated:* Submit after Close is refused with an error |
| `classic_capture` | the loop and one more caller of the breaker, 2 failures open, 3 successes close, backoff 1-2-3, one measurement for each answer of the controller | backoff, threshold, trial; under calls of two goroutines; one late capture in an emergency; the goroutines of triggerGC do not pile up; a camera that is back is captured again |
| `publisher_v2` | 4 connections, 1 publishing goroutine, 2 attempts at start | one reconnection, no leak, no channel only meanwhile, reconnections end |
| `publisher_v2_stranded` | the same | *violated:* a disconnected publisher has somebody who reconnects it |
| `camera_v2` | breaker opens at 2 failures, channel of 1 frame, 3 frames | one stream, flag exact, every frame counted, everything ends after Stop or is locked out |
| `camera_v2_open` | the same | *violated:* a retry that waits for an open breaker starts the stream again |
| `amqp` | 2 workers, 2 connections, 2 attempts at start, 1 in a reconnection | closed is final, every open connection is watched, calls end, the publisher recovers |
| `frame_processing` | 2 workers, 3 clients, 3 frames, sequence numbers 1 and 2 | one open client, distinct keys, one copy of a frame, Process ends |
| `persistent_camera` | 1 camera, 2 readers, 2 misses, 2 failures | one ffmpeg, outages reported, frames come back |

The three violations are disagreements between the code and what its
documentation or comments say; `PROJECT.json` quotes them under `findings`.
Every type invariant is proved and needs no run (see Proofs). More disagreements
were met that have no run of their own:

- Close of the worker pool returns when the counter `processing` is 0 (pool.go:147),
  but a worker that has received a job (:56) increments it only at :61, and jobs
  may still be queued; `docs/guides/worker-pool-implementation.md:220` says
  "Aguarda jobs em processamento terminarem". In `WorkerPool` the state is
  reached: `CloseFindsIdle` looks at the counter alone.
- After the first reconnection of the AMQP publisher metadata are not published
  any more (cmd/edge-video/main.go:196), whereas `docs/features/metadata.md:3`
  says that they are sent whenever a frame is captured
  (`MetadataFails` in `FrameProcessing`).
- Stats of the v2 breaker takes a read lock that it already holds
  (circuit_breaker.go:346, 260). A sync.RWMutex grants no read lock while a
  writer waits, so Stats and the stream whose failure is being recorded can lock
  each other out: `Deadlocked` in `CameraStreamV2`, which `StopEnds` names.
- The breaker of v2 is never half-open without a stream that fails, so that an
  open one stays open; this is the cause of the violation of `camera_v2_open`,
  and proved for every threshold (`OpenIsNeverTried`).
- `docs/MEMORY-CONTROL.md` says more than the memory controller does: a delay of
  100 ms at the level Warning (the loop asks ShouldThrottle, which starts at
  Critical), at most one collection in 5 s (only the level Warning is limited,
  and the monitor collects itself at the higher ones, controller.go:246 and
  :258-262, beside the goroutine and without the flag `gcInProgress`),
  and a gauge of the level (no callback sets it back to Normal).

Why these bounds are enough: a one-slot channel is full, drained and refilled
within three frames, and each further slot only delays the same decisions (the
frame buffer has two, so that a drop and a receive may hit different frames).
Two workers, or two goroutines that reconnect, are the least number that can
disagree, and the code treats them alike; the AMQP instance has four, the two
workers and the goroutines of the two connections. A reconnection makes one
attempt there: an attempt fails only while the broker is away, a further one is
the same dial later, and the goroutine of main exercises the second attempt. `PublisherV2` needs three
connections at once (stored, watched by the monitor, captured by Publish) and a
fourth to be opened. The limits 3 and 5 of the monitor and of the camera loop
are 2 in the instance: what matters is one more than one. Redis needs two
workers to disagree about the client, a client for each of them and the one of
the store, and a third key for the sequence to start again. In v2 one frame can
be with its goroutine and one in the channel when the third arrives. `MaxReaders` bounds
the readers that `HealthTick` may add: readers that have not run yet since the
last restart.

`CHECK_DEADLOCK FALSE` stands where the program may really stop: after a
shutdown, an exit of main or a panic.

### Fairness

Weak fairness of a goroutine says that the Go scheduler runs it while it can
move. Beyond that:
- calls to the network, of the client libraries and ffmpeg return, Close of a
  lost connection included (`Process`, `PublishSucceeds \/
  PublishFails`, `Record`); the signal that ends the program, the loss of a
  connection and the return of a broker need not happen, and the properties
  that need the broker or the camera say so (`<>[]brokerUp`, `<>[]cameraUp`);
- the calls of `Process` have timeouts and waiting goroutines get the lock of the
  Redis store in turn (`FrameProcessing`); Redis need not come back;
- time passes: `Tick`, `BackoffPasses`, `GoesStale`, `HealthTick`;
- `AMQPPublisher` assumes that cameras deliver frames to publish, because after
  a long outage only the next Publish reconnects;
- `PersistentCamera` assumes strong fairness of the first run of a reader and of
  the first frame: among the processes that are started again and again some
  delivers within the 10 s until the next restart. The code does not guarantee
  that of a camera that always needs longer; the hazard is listed.
- `WF(Loop)` in `ClassicCapture` says that the guarded call returns; the ffmpeg
  of the classic mode has no timeout of its own.

## Proofs

All theorems are about `Spec`, without fairness, for every value of the
constants that the ASSUMEs allow.

| Module | Theorems | Argument |
|---|---|---|
| `FrameBufferProofs` | types, `PushNeverBlocks`, `FramesConserved`, `ImplementsLossyQueue`, `StatsConsistent`, `ReleasesAreCounted` | the types give the capacity; `PushNeverBlocks` is inductive with them because only Push sends; conservation and order follow, and with both every step is one of `LossyQueue` or a stutter; the two counters need what Push owes them at each `pc` |
| `CapturePipelineProofs` | of the pool: types, `ProcessingExact`, `JobsInOnePlace`, `TotalsExact`; of the pipeline: types, `ReleasedOnceAndUnused`, `NoFrameForgotten`, `ImplementsPool`, `PipelineIsABuffer`, `PanicOnlyInClose` | the counter is a natural number only because it is the number of workers inside Process, so types and `ProcessingExact` are one inductive invariant, and the place of each job needs the types; see below for the pipeline |
| `CameraStreamV2Proofs` | types, `OneStream`, `FlagExact`, `OpenIsNeverTried`, `DeadlockIsFinal`, `FramesCounted` | the first two are not inductive alone: `GoroutinesInv` couples them and says that a camera that was not started has no goroutine; with them an open breaker has no stream that could fail, which gives the third, the defect behind `camera_v2_open`; every behaviour with frames is one without (`PathIsAStream`), and they are counted because no two of them have the same number (`FramesOrdered`) |
| `PublisherV2Proofs` | types, `OneReconnect`, `NoConnectionLeak`, `NilChannelIsTransient` | strengthened with the places each goroutine can be at and with `Startup`: while main connects nobody else runs; hence one goroutine dials at a time; `LeakInv` adds that everything is closed where it does, and `NilInv` that who opens a channel has a connection and that somebody is on the way there while there is none |
| `ClassicCaptureProofs` | of the breaker: types, `ClosesAfterTrial`, `OpensOnFailuresInARow`, `BackoffFollowsOpenings`; of the loop: `ClassicIsABreaker`, `ClassicIsAController`, `OneLateCapture`, `OneCollection`; types of the memory controller | the breaker's counters never exceed what was recorded since (`CountersInv`); every step of the loop is one of the breaker or a stutter, so that these hold in the loop too; an opening doubles the wait (`OpensDoubles`), for which `BackoffIsExact` takes the laws of powers of two as its hypothesis; `LateInv`: a capture begun in an emergency leaves the loop in that capture or where it reads the level again |
| `AMQPPublisherProofs` | types, `ClosedForGood`, `ConnectionsWatched` | the types bound the attempts of every goroutine; that closed is final is inductive, because connect looks at `closed` where it stores; `WatchInv`: a connection that is being opened is owned by one goroutine, stored nowhere and not watched yet, and an error that was delivered is that of a closed connection somebody listens to |
| `FrameProcessingProofs` | types, `OneClient`, `KeysDistinct`, `OneCopy` | the last MaxSequence numbers count down from the current one; a key that somebody holds or Redis has was made for one frame, and no later frame gets it (`CopyInv`); that only captured frames are stored needs in turn where each call stands |
| `PersistentCameraProofs` | types, `OneProcess`, `CaptureIsWatched` | `ProcessInv`: the living process is that of the current command, who restarts has killed it, and a capture that does not run has none because it was not started or its context is done; `WatchInv`: the pipe of a living process is open and the context of its readers is not done, so that none of them stops |

The pipeline is proved by way of its parts. Every step of it is a step of its
frame buffer or leaves the buffer alone, so that the theorems of
`FrameBufferProofs`, cited through an instance, hold in it (`BufferKept`). With
the pool it is the other way round: that a step of the pipeline is one of the
pool needs that the dispatcher submits every frame once and in order, which
needs the place of every frame. `PlaceInv` says it: the frame that the dispatcher
holds has left the buffer and the pool has not seen it, nor any later one; and
the memory of a frame was released, once, if and only if the frame has left the
buffer and neither the dispatcher nor the pool has it. `PipelineInv` joins it
with the types, the counter and the places of the jobs, and is inductive; from
it and from the order of the frames in the buffer follow
`ReleasedOnceAndUnused` and `NoFrameForgotten`.

Three theorems say that somebody is there who can act, which is the part of the
liveness arguments that needs no fairness. `ConnectionsWatched`:
an open connection of the v1 publisher has the goroutine that hears its loss,
also when another reconnection has replaced it in the fields.
`CaptureIsWatched`: a living ffmpeg has a reader, and a running capture has its
monitorHealth, which alone starts a process again after a failed Restart.
`NilChannelIsTransient`: the v2 publisher has no channel only while a goroutine
reconnects it; the call that panics with a nil channel (publisher.go:308) can
take it in that time only.

Every invariant and every action property that a run checks is proved. Two
things rest on more than the ASSUMEs of the modules or on less than a proof:

- `BackoffIsExact` has the hypothesis `PowersOfTwo` (a power of two is
  a positive number, and one more in the exponent doubles it, up to `MaxOpens`):
  the provers know `2 ^ n` for no `n` but a literal.
- The liveness properties (`~>`, `<>`) are only model-checked: fairness and
  ENABLED are out of the prover's reach.

## Not modelled, and what comes next

1. The order of the status events of `CameraMonitor` with two cameras.
2. The registration client: one goroutine that repeats an HTTP request every
   minute until it succeeds. It shares no state with the rest, so that a model
   of it would restate its loop.
3. The v2 memory controller: one goroutine that measures and logs, as the program
   never calls ApplyThrottle, its only effect on the streams.

Left out for good: the MQTT client and the Windows service (libraries and the
operating system do the work), parsing, compression, metrics and logs, and the
v2 files that the program does not call.
