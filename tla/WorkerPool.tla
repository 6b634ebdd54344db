----------------------------- MODULE WorkerPool -----------------------------
(***************************************************************************)
(* pkg/worker/pool.go: the pool that all cameras share.  Dispatchers       *)
(* submit jobs to a bounded channel, the workers execute them, and the     *)
(* goroutine that shuts the program down calls Close.                      *)
(*                                                                         *)
(* A worker's receive, its update of the counter "processing", the job and *)
(* the updates of the totals are separate steps: Close looks at the        *)
(* counter between any two of them.  A select with several ready cases     *)
(* takes any of them.                                                      *)
(*                                                                         *)
(* Jobs are numbered in the order in which they are submitted.             *)
(***************************************************************************)
EXTENDS Naturals, Sequences, FiniteSets

CONSTANTS Workers,     \* the worker goroutines
          BufferSize,  \* the capacity of the channels jobs and results
          MaxJobs,     \* bound: the jobs a behaviour may submit
          NoJob        \* what a worker holds between two jobs

ASSUME WorkersAssumption == IsFiniteSet(Workers)
ASSUME BufferSizeAssumption == BufferSize \in Nat \ {0}
ASSUME MaxJobsAssumption == MaxJobs \in Nat
ASSUME NoJobAssumption == NoJob \notin Nat

VARIABLES
  jobs,             \* the channel of jobs
  closed,           \* the channel of jobs was closed
  ctxDone,          \* the pool's context is done
  worker,           \* where each worker stands in its loop
  job,              \* the job each worker holds
  failed,           \* whether the job a worker finished last returned an error
  processing, totalProcessed, totalErrors,   \* the Pool's counters
  results,          \* how many results the channel of results holds
  collector,        \* the resultCollector goroutine
  closer,           \* the call to Close
  fate              \* history: what became of each job

counters == <<processing, totalProcessed, totalErrors>>
workerVars == <<worker, job, failed>>
vars == <<jobs, closed, ctxDone, workerVars, counters, results, collector,
          closer, fate>>

Jobs == 1 .. MaxJobs
WorkerPCs == {"select", "taken", "processing", "finished", "failed", "report",
              "exited"}
CloserPCs == {"open", "waiting", "drained", "timedout"}
Fates == {"new", "queued", "started", "succeeded", "failed", "refused"}

Init ==
  /\ jobs = <<>> /\ closed = FALSE /\ ctxDone = FALSE
  /\ worker = [w \in Workers |-> "select"]
  /\ job = [w \in Workers |-> NoJob]
  /\ failed = [w \in Workers |-> FALSE]
  /\ processing = 0 /\ totalProcessed = 0 /\ totalErrors = 0
  /\ results = 0 /\ collector = "running" /\ closer = "open"
  /\ fate = [j \in Jobs |-> "new"]

Goto(w, from, to) == worker[w] = from /\ worker' = [worker EXCEPT ![w] = to]
-----------------------------------------------------------------------------
(* Submit and SubmitNonBlocking *)

SubmitAccepted(j) ==
  /\ ~closed /\ Len(jobs) < BufferSize
  /\ jobs' = Append(jobs, j)
  /\ fate' = [fate EXCEPT ![j] = "queued"]
  /\ UNCHANGED <<closed, ctxDone, workerVars, counters, results, collector, closer>>

Refuse(j) ==
  /\ fate' = [fate EXCEPT ![j] = "refused"]
  /\ UNCHANGED <<jobs, closed, ctxDone, workerVars, counters, results,
                 collector, closer>>

SubmitPoolClosed(j) == ctxDone /\ Refuse(j)

\* The default branch runs when no other case is ready.
SubmitBufferFull(j) ==
  /\ ~closed /\ ~ctxDone /\ Len(jobs) = BufferSize
  /\ Refuse(j)

\* SubmitNonBlocking does not look at the context.
SubmitNonBlocking(j) ==
  \/ SubmitAccepted(j)
  \/ ~closed /\ Len(jobs) = BufferSize /\ Refuse(j)

Submit(j) == SubmitAccepted(j) \/ SubmitPoolClosed(j) \/ SubmitBufferFull(j)

\* The callers submit in the order of the numbers and may leave numbers out.  A
\* Submit after Close is refused or panics; CapturePipeline has the panic.
SubmitNext ==
  \E j \in Jobs :
    /\ \A i \in j .. MaxJobs : fate[i] = "new"
    /\ Submit(j) \/ SubmitNonBlocking(j)
-----------------------------------------------------------------------------
(* worker *)

\* Fault for WorkerReceives: the job stays in the channel.
WorkerPeeks(w) ==
  /\ jobs # <<>>
  /\ Goto(w, "select", "taken")
  /\ job' = [job EXCEPT ![w] = Head(jobs)]
  /\ fate' = [fate EXCEPT ![Head(jobs)] = "started"]
  /\ UNCHANGED <<jobs, closed, ctxDone, failed, counters, results, collector,
                 closer>>

\* Fault for WorkerReceives: a worker waits for a second job to be queued.
WorkerReceivesLate(w) ==
  /\ Len(jobs) > 1
  /\ Goto(w, "select", "taken")
  /\ jobs' = Tail(jobs)
  /\ job' = [job EXCEPT ![w] = Head(jobs)]
  /\ fate' = [fate EXCEPT ![Head(jobs)] = "started"]
  /\ UNCHANGED <<closed, ctxDone, failed, counters, results, collector, closer>>

\* A queued job may be taken although the context is done.
WorkerReceives(w) ==
  /\ jobs # <<>>
  /\ Goto(w, "select", "taken")
  /\ jobs' = Tail(jobs)
  /\ job' = [job EXCEPT ![w] = Head(jobs)]
  /\ fate' = [fate EXCEPT ![Head(jobs)] = "started"]
  /\ UNCHANGED <<closed, ctxDone, failed, counters, results, collector, closer>>

\* The context is done, or the channel is closed and empty.
WorkerExits(w) ==
  /\ ctxDone \/ (closed /\ jobs = <<>>)
  /\ Goto(w, "select", "exited")
  /\ UNCHANGED <<jobs, closed, ctxDone, job, failed, counters, results,
                 collector, closer, fate>>

WorkerStarts(w) ==
  /\ Goto(w, "taken", "processing")
  /\ processing' = processing + 1
  /\ UNCHANGED <<jobs, closed, ctxDone, job, failed, totalProcessed,
                 totalErrors, results, collector, closer, fate>>

\* Fault for WorkerFinishes: only a job that succeeds leaves the counter.
WorkerFinishesNoDefer(w, err) ==
  /\ Goto(w, "processing", "finished")
  /\ processing' = IF err THEN processing ELSE processing - 1
  /\ failed' = [failed EXCEPT ![w] = err]
  /\ job' = [job EXCEPT ![w] = NoJob]
  /\ fate' = [fate EXCEPT ![job[w]] = IF err THEN "failed" ELSE "succeeded"]
  /\ UNCHANGED <<jobs, closed, ctxDone, totalProcessed, totalErrors, results,
                 collector, closer>>

\* Process returns err, and the worker leaves the counter.
WorkerFinishes(w, err) ==
  /\ Goto(w, "processing", "finished")
  /\ processing' = processing - 1
  /\ failed' = [failed EXCEPT ![w] = err]
  /\ job' = [job EXCEPT ![w] = NoJob]
  /\ fate' = [fate EXCEPT ![job[w]] = IF err THEN "failed" ELSE "succeeded"]
  /\ UNCHANGED <<jobs, closed, ctxDone, totalProcessed, totalErrors, results,
                 collector, closer>>

WorkerCounts(w) ==
  /\ Goto(w, "finished", IF failed[w] THEN "failed" ELSE "report")
  /\ totalProcessed' = totalProcessed + 1
  /\ UNCHANGED <<jobs, closed, ctxDone, job, failed, processing, totalErrors,
                 results, collector, closer, fate>>

WorkerCountsError(w) ==
  /\ Goto(w, "failed", "report")
  /\ totalErrors' = totalErrors + 1
  /\ UNCHANGED <<jobs, closed, ctxDone, job, failed, processing,
                 totalProcessed, results, collector, closer, fate>>

\* The result is sent if there is room, and is otherwise dropped.
WorkerReports(w) ==
  /\ Goto(w, "report", "select")
  /\ results' = IF results < BufferSize THEN results + 1 ELSE results
  /\ UNCHANGED <<jobs, closed, ctxDone, job, failed, counters, collector,
                 closer, fate>>

WorkerExitsAtReport(w) ==
  /\ ctxDone
  /\ Goto(w, "report", "exited")
  /\ UNCHANGED <<jobs, closed, ctxDone, job, failed, counters, results,
                 collector, closer, fate>>

\* Fault for WorkerStep: a worker waits for room in the channel of results.
WorkerReportsBlocking(w) == results < BufferSize /\ WorkerReports(w)
WorkerStepBlocking(w) ==
  \/ WorkerReceives(w) \/ WorkerExits(w) \/ WorkerStarts(w)
  \/ \E err \in BOOLEAN : WorkerFinishes(w, err)
  \/ WorkerCounts(w) \/ WorkerCountsError(w)
  \/ WorkerReportsBlocking(w)

WorkerStep(w) ==
  \/ WorkerReceives(w) \/ WorkerExits(w) \/ WorkerStarts(w)
  \/ \E err \in BOOLEAN : WorkerFinishes(w, err)
  \/ WorkerCounts(w) \/ WorkerCountsError(w)
  \/ WorkerReports(w) \/ WorkerExitsAtReport(w)
-----------------------------------------------------------------------------
(* resultCollector, Close and the parent's context *)

CollectResult ==
  /\ collector = "running" /\ results > 0
  /\ results' = results - 1
  /\ UNCHANGED <<jobs, closed, ctxDone, workerVars, counters, collector,
                 closer, fate>>

CollectorExits ==
  /\ collector = "running" /\ ctxDone
  /\ collector' = "exited"
  /\ UNCHANGED <<jobs, closed, ctxDone, workerVars, counters, results, closer,
                 fate>>

Close ==
  /\ closer = "open"
  /\ closer' = "waiting" /\ closed' = TRUE
  /\ UNCHANGED <<jobs, ctxDone, workerVars, counters, results, collector, fate>>

\* A tick of Close finds the counter at 0.
CloseFindsIdle ==
  /\ closer = "waiting" /\ processing = 0
  /\ closer' = "drained" /\ ctxDone' = TRUE
  /\ UNCHANGED <<jobs, closed, workerVars, counters, results, collector, fate>>

CloseTimesOut ==
  /\ closer = "waiting"
  /\ closer' = "timedout" /\ ctxDone' = TRUE
  /\ UNCHANGED <<jobs, closed, workerVars, counters, results, collector, fate>>

ParentCancels ==
  /\ ~ctxDone
  /\ ctxDone' = TRUE
  /\ UNCHANGED <<jobs, closed, workerVars, counters, results, collector,
                 closer, fate>>

Next ==
  \/ SubmitNext
  \/ \E w \in Workers : WorkerStep(w)
  \/ CollectResult \/ CollectorExits
  \/ Close \/ CloseFindsIdle \/ CloseTimesOut
  \/ ParentCancels

Spec == Init /\ [][Next]_vars

\* Every worker is a goroutine of its own, every job returns, and the timer of
\* Close fires.
Fairness == /\ \A w \in Workers : WF_vars(WorkerStep(w))
            /\ WF_vars(CollectResult \/ CollectorExits)
            /\ WF_vars(CloseTimesOut)

FairSpec == Spec /\ Fairness
-----------------------------------------------------------------------------
(* Properties *)

TypeOK ==
  /\ jobs \in Seq(Jobs) /\ Len(jobs) <= BufferSize
  /\ closed \in BOOLEAN /\ ctxDone \in BOOLEAN
  /\ worker \in [Workers -> WorkerPCs]
  /\ job \in [Workers -> Jobs \cup {NoJob}]
  /\ failed \in [Workers -> BOOLEAN]
  /\ processing \in Nat /\ totalProcessed \in Nat /\ totalErrors \in Nat
  /\ results \in 0 .. BufferSize
  /\ collector \in {"running", "exited"}
  /\ closer \in CloserPCs
  /\ fate \in [Jobs -> Fates]

Busy == {w \in Workers : worker[w] \in {"taken", "processing"}}
Processing == {w \in Workers : worker[w] = "processing"}
Done == {j \in Jobs : fate[j] \in {"succeeded", "failed"}}

\* Every accepted job is in one place: once in the channel, or in the hands of
\* one worker, or done.  No two workers ever execute the same job, and no job
\* is executed again (pool.go:56-63).
JobsInOnePlace ==
  /\ \A w \in Workers : job[w] # NoJob <=> w \in Busy
  /\ \A w \in Busy : fate[job[w]] = "started"
  /\ \A v, w \in Busy : job[v] = job[w] => v = w
  /\ \A i \in 1 .. Len(jobs) : fate[jobs[i]] = "queued"
  /\ \A i, k \in 1 .. Len(jobs) : jobs[i] = jobs[k] => i = k
  /\ \A j \in Jobs :
       /\ fate[j] = "queued" => \E i \in 1 .. Len(jobs) : jobs[i] = j
       /\ fate[j] = "started" => \E w \in Busy : job[w] = j

\* The counter on which Close relies is the number of workers inside Process,
\* whether their jobs succeed or fail (pool.go:61-65).
ProcessingExact == processing = Cardinality(Processing)

\* Once the context is done every worker returns: none is left waiting for a
\* job, or for room in the channel of results.
WorkersExit == ctxDone ~> \A w \in Workers : worker[w] = "exited"

\* An accepted job is executed unless the context is done; closing the channel
\* alone loses nothing, and neither does a full channel of results.
AcceptedJobsRun ==
  \A j \in Jobs : fate[j] = "queued" ~> (j \in Done \/ ctxDone)
=============================================================================
