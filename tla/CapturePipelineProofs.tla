----------------------- MODULE CapturePipelineProofs -----------------------
(***************************************************************************)
(* Proofs about WorkerPool, for every number of workers and jobs and every *)
(* capacity of its channels, and about CapturePipeline, in which the pool  *)
(* and the frame buffer keep what is proved of them.                       *)
(***************************************************************************)
EXTENDS CapturePipeline, SequenceTheorems, FiniteSetTheorems, TLAPS

USE WorkersAssumption, BufferSizeAssumption, MaxJobsAssumption, NoJobAssumption

\* What the counter counts, with the types: WorkerFinishes would take it below
\* zero if it did not count the workers inside Process.
CounterInv == TypeOK /\ ProcessingExact

LEMMA ProcessingFinite == IsFiniteSet(Processing) /\ Cardinality(Processing) \in Nat
  BY FS_Subset, FS_CardinalityType DEF Processing

\* A worker that goes from one place to another changes the set of workers
\* inside Process only by itself.
LEMMA ProcessingMoves ==
  ASSUME TypeOK, NEW w \in Workers, NEW from, NEW to, Goto(w, from, to)
  PROVE  /\ from # "processing" /\ to # "processing" =>
              Processing' = Processing
         /\ from # "processing" /\ to = "processing" =>
              Cardinality(Processing') = Cardinality(Processing) + 1
         /\ from = "processing" /\ to # "processing" =>
              /\ Cardinality(Processing) > 0
              /\ Cardinality(Processing') = Cardinality(Processing) - 1
<1>1. /\ worker \in [Workers -> WorkerPCs] /\ worker[w] = from
      /\ worker' = [worker EXCEPT ![w] = to]
  BY DEF TypeOK, Goto
<1>2. ASSUME from # "processing", to # "processing"
      PROVE  Processing' = Processing
  BY <1>1, <1>2 DEF Processing
<1>3. ASSUME from # "processing", to = "processing"
      PROVE  Cardinality(Processing') = Cardinality(Processing) + 1
  <2>1. w \notin Processing /\ Processing' = Processing \cup {w}
    BY <1>1, <1>3 DEF Processing
  <2> QED
    BY <2>1, ProcessingFinite, FS_AddElement
<1>4. ASSUME from = "processing", to # "processing"
      PROVE  /\ Cardinality(Processing) > 0
             /\ Cardinality(Processing') = Cardinality(Processing) - 1
  <2>1. w \in Processing /\ Processing' = Processing \ {w}
    BY <1>1, <1>4 DEF Processing
  <2>2. Cardinality(Processing') = Cardinality(Processing) - 1
    BY <2>1, ProcessingFinite, FS_RemoveElement
  <2>3. Cardinality(Processing) # 0
    BY <2>1, ProcessingFinite, FS_EmptySet
  <2> QED
    BY <2>2, <2>3, ProcessingFinite
<1> QED
  BY <1>2, <1>3, <1>4

LEMMA GotoTyped ==
  ASSUME TypeOK, NEW w \in Workers, NEW from, NEW to \in WorkerPCs,
         Goto(w, from, to)
  PROVE  worker' \in [Workers -> WorkerPCs]
  BY DEF TypeOK, Goto
-----------------------------------------------------------------------------
\* The types and the counter are preserved by every step of a worker.
LEMMA WorkerStepCounter ==
  ASSUME CounterInv, NEW w \in Workers, WorkerStep(w)
  PROVE  CounterInv'
<1> USE DEF CounterInv
<1>0. processing = Cardinality(Processing) /\ Cardinality(Processing) \in Nat
  BY ProcessingFinite DEF ProcessingExact
<1>1. CASE WorkerReceives(w)
  <2>1. Processing' = Processing
    BY <1>1, ProcessingMoves DEF WorkerReceives
  <2>2. worker' \in [Workers -> WorkerPCs]
    BY <1>1, GotoTyped DEF WorkerReceives, WorkerPCs
  <2>3. /\ Head(jobs) \in Jobs /\ Tail(jobs) \in Seq(Jobs)
        /\ Len(Tail(jobs)) <= BufferSize
    BY <1>1 DEF WorkerReceives, TypeOK
  <2> QED
    BY <1>0, <1>1, <2>1, <2>2, <2>3
       DEF WorkerReceives, TypeOK, ProcessingExact, counters, Fates
<1>2. CASE WorkerStarts(w)
  <2>1. Cardinality(Processing') = Cardinality(Processing) + 1
    BY <1>2, ProcessingMoves DEF WorkerStarts
  <2>2. worker' \in [Workers -> WorkerPCs]
    BY <1>2, GotoTyped DEF WorkerStarts, WorkerPCs
  <2> QED
    BY <1>0, <1>2, <2>1, <2>2 DEF WorkerStarts, TypeOK, ProcessingExact
<1>3. ASSUME NEW err \in BOOLEAN, WorkerFinishes(w, err)
      PROVE  CounterInv'
  <2>1. /\ Cardinality(Processing) > 0
        /\ Cardinality(Processing') = Cardinality(Processing) - 1
    BY <1>3, ProcessingMoves DEF WorkerFinishes
  <2>2. worker' \in [Workers -> WorkerPCs]
    BY <1>3, GotoTyped DEF WorkerFinishes, WorkerPCs
  <2>3. /\ failed' \in [Workers -> BOOLEAN]
        /\ job' \in [Workers -> Jobs \cup {NoJob}]
        /\ fate' \in [Jobs -> Fates]
    BY <1>3 DEF WorkerFinishes, TypeOK, Fates
  <2> QED
    BY <1>0, <1>3, <2>1, <2>2, <2>3
       DEF WorkerFinishes, TypeOK, ProcessingExact
<1>4. CASE WorkerExits(w) \/ WorkerCounts(w) \/ WorkerCountsError(w)
           \/ WorkerReports(w) \/ WorkerExitsAtReport(w)
  <2>1. Processing' = Processing
    BY <1>4, ProcessingMoves
       DEF WorkerExits, WorkerCounts, WorkerCountsError, WorkerReports,
           WorkerExitsAtReport
  <2>2. worker' \in [Workers -> WorkerPCs]
    BY <1>4, GotoTyped
       DEF WorkerExits, WorkerCounts, WorkerCountsError, WorkerReports,
           WorkerExitsAtReport, WorkerPCs
  <2>3. results' \in 0 .. BufferSize
    BY <1>4 DEF WorkerExits, WorkerCounts, WorkerCountsError, WorkerReports,
                WorkerExitsAtReport, TypeOK
  <2> QED
    BY <1>0, <1>4, <2>1, <2>2, <2>3
       DEF WorkerExits, WorkerCounts, WorkerCountsError, WorkerReports,
           WorkerExitsAtReport, TypeOK, ProcessingExact, counters
<1> QED
  BY <1>1, <1>2, <1>3, <1>4 DEF WorkerStep

\* The types and the counter are preserved by every step of the pool.
LEMMA CounterStep ==
  ASSUME CounterInv, [Next]_vars
  PROVE  CounterInv'
<1>1. ASSUME NEW w \in Workers, WorkerStep(w) PROVE CounterInv'
  BY <1>1, WorkerStepCounter
<1>2. ASSUME NEW j \in Jobs, SubmitAccepted(j) PROVE CounterInv'
  <2>1. /\ Append(jobs, j) \in Seq(Jobs)
        /\ Len(Append(jobs, j)) = Len(jobs) + 1
    BY DEF CounterInv, TypeOK
  <2>2. Processing' = Processing
    BY <1>2 DEF SubmitAccepted, workerVars, Processing
  <2> QED
    BY <1>2, <2>1, <2>2
       DEF CounterInv, SubmitAccepted, TypeOK, workerVars, counters, Fates,
           ProcessingExact
<1>3. ASSUME NEW j \in Jobs, Refuse(j) PROVE CounterInv'
  <2>1. Processing' = Processing
    BY <1>3 DEF Refuse, workerVars, Processing
  <2> QED
    BY <1>3, <2>1
       DEF CounterInv, Refuse, TypeOK, workerVars, counters, Fates,
           ProcessingExact
<1>4. CASE CollectResult \/ CollectorExits \/ Close \/ CloseFindsIdle
           \/ CloseTimesOut \/ ParentCancels \/ UNCHANGED vars
  <2>1. Processing' = Processing
    BY <1>4 DEF CollectResult, CollectorExits, Close, CloseFindsIdle,
                CloseTimesOut, ParentCancels, vars, workerVars, Processing
  <2>2. results' \in 0 .. BufferSize
    BY <1>4 DEF CollectResult, CollectorExits, Close, CloseFindsIdle,
                CloseTimesOut, ParentCancels, vars, CounterInv, TypeOK
  <2> QED
    BY <1>4, <2>1, <2>2
       DEF CollectResult, CollectorExits, Close, CloseFindsIdle,
           CloseTimesOut, ParentCancels, vars, workerVars, counters,
           CounterInv, TypeOK, ProcessingExact, CloserPCs
<1> QED
  BY <1>1, <1>2, <1>3, <1>4
     DEF Next, SubmitNext, Submit, SubmitNonBlocking, SubmitPoolClosed,
         SubmitBufferFull

\* The pool starts with its counter at zero and nobody inside Process.
LEMMA CounterInit ==
  ASSUME Init
  PROVE  CounterInv
<1>1. jobs \in Seq(Jobs) /\ Len(jobs) <= BufferSize
  BY EmptySeq DEF Init
<1>2. TypeOK
  <2>1. /\ worker \in [Workers -> WorkerPCs]
        /\ job \in [Workers -> Jobs \cup {NoJob}]
        /\ failed \in [Workers -> BOOLEAN]
        /\ fate \in [Jobs -> Fates]
    BY DEF Init, WorkerPCs, Fates
  <2>2. results \in 0 .. BufferSize
    BY DEF Init
  <2> QED
    BY <1>1, <2>1, <2>2 DEF Init, TypeOK, CloserPCs
<1>3. Processing = {}
  BY DEF Init, Processing
<1> QED
  BY <1>2, <1>3, FS_EmptySet DEF Init, CounterInv, ProcessingExact

\* The types hold, and the counter on which Close relies is exact, in every
\* interleaving of the workers with Submit, Close and the cancellation.
THEOREM CounterCorrect == Spec => []CounterInv
<1>1. Init => CounterInv
  BY CounterInit
<1>2. CounterInv /\ [Next]_vars => CounterInv'
  BY CounterStep
<1> QED
  BY <1>1, <1>2, PTL DEF Spec

\* Every variable of the pool keeps its type.
THEOREM TypeCorrect == Spec => []TypeOK
  BY CounterCorrect, PTL DEF CounterInv

\* The counter "processing" is the number of workers inside Process.
THEOREM CounterExact == Spec => []ProcessingExact
  BY CounterCorrect, PTL DEF CounterInv
-----------------------------------------------------------------------------
\* A step of a worker keeps every job in one place.
LEMMA WorkerStepPlaces ==
  ASSUME TypeOK, JobsInOnePlace, NEW w \in Workers, WorkerStep(w)
  PROVE  JobsInOnePlace'
<1>0. /\ worker \in [Workers -> WorkerPCs]
      /\ job \in [Workers -> Jobs \cup {NoJob}]
      /\ fate \in [Jobs -> Fates]
      /\ jobs \in Seq(Jobs) /\ NoJob \notin Jobs
  BY DEF TypeOK, Jobs
<1>1. CASE WorkerReceives(w)
  <2>1. /\ Len(jobs) > 0 /\ Len(jobs') = Len(jobs) - 1
        /\ \A i \in 1 .. Len(jobs') : jobs'[i] = jobs[i + 1]
        /\ jobs[1] \in Jobs
        /\ worker[w] = "select" /\ worker' = [worker EXCEPT ![w] = "taken"]
        /\ job' = [job EXCEPT ![w] = jobs[1]]
        /\ fate' = [fate EXCEPT ![jobs[1]] = "started"]
    BY <1>0, <1>1 DEF WorkerReceives, Goto
  <2>2. w \notin Busy /\ Busy' = Busy \cup {w}
    BY <1>0, <2>1 DEF Busy
  <2> HIDE DEF Busy
  <2>3. \A v \in Workers : job'[v] # NoJob <=> v \in Busy'
    BY <1>0, <2>1, <2>2 DEF JobsInOnePlace
  <2>4. \A v \in Busy' : fate'[job'[v]] = "started"
    BY <1>0, <2>1, <2>2 DEF JobsInOnePlace, Busy
  <2>5. \A u, v \in Busy' : job'[u] = job'[v] => u = v
    <3>1. \A v \in Busy : job[v] # jobs[1]
      BY <1>0, <2>1 DEF JobsInOnePlace
    <3> QED
      BY <1>0, <2>1, <2>2, <3>1 DEF JobsInOnePlace, Busy
  <2>6. \A i, k \in 1 .. Len(jobs') : jobs'[i] = jobs'[k] => i = k
    BY <1>0, <2>1 DEF JobsInOnePlace
  <2>7. \A i \in 1 .. Len(jobs') : fate'[jobs'[i]] = "queued"
    BY <1>0, <2>1 DEF JobsInOnePlace
  <2>8. ASSUME NEW j \in Jobs
        PROVE  /\ fate'[j] = "queued" => \E i \in 1 .. Len(jobs') : jobs'[i] = j
               /\ fate'[j] = "started" => \E v \in Busy' : job'[v] = j
    <3>1. CASE j = jobs[1]
      BY <1>0, <2>1, <2>2, <3>1
    <3>2. CASE j # jobs[1]
      <4>1. fate'[j] = fate[j]
        BY <1>0, <2>1, <3>2
      <4>2. ASSUME fate[j] = "queued"
            PROVE  \E i \in 1 .. Len(jobs') : jobs'[i] = j
        <5>1. PICK i \in 1 .. Len(jobs) : jobs[i] = j
          BY <4>2 DEF JobsInOnePlace
        <5>2. i - 1 \in 1 .. Len(jobs') /\ jobs'[i - 1] = j
          BY <1>0, <2>1, <3>2, <5>1
        <5> QED
          BY <5>2
      <4>3. ASSUME fate[j] = "started"
            PROVE  \E v \in Busy' : job'[v] = j
        BY <1>0, <2>1, <2>2, <4>3 DEF JobsInOnePlace, Busy
      <4> QED
        BY <4>1, <4>2, <4>3
    <3> QED
      BY <3>1, <3>2
  <2> QED
    BY <2>3, <2>4, <2>5, <2>6, <2>7, <2>8 DEF JobsInOnePlace
<1>2. ASSUME NEW err \in BOOLEAN, WorkerFinishes(w, err)
      PROVE  JobsInOnePlace'
  <2>1. /\ worker[w] = "processing" /\ worker' = [worker EXCEPT ![w] = "finished"]
        /\ job' = [job EXCEPT ![w] = NoJob] /\ jobs' = jobs
    BY <1>2 DEF WorkerFinishes, Goto
  <2>2. w \in Busy /\ Busy' = Busy \ {w}
    BY <1>0, <2>1 DEF Busy
  <2>3. /\ job[w] \in Jobs /\ fate[job[w]] = "started"
        /\ fate'[job[w]] \notin {"queued", "started"}
        /\ \A j \in Jobs \ {job[w]} : fate'[j] = fate[j]
    BY <1>0, <1>2, <2>2 DEF WorkerFinishes, JobsInOnePlace, Busy
  <2>4. \A v \in Busy \ {w} : job'[v] = job[v] /\ job[v] \in Jobs \ {job[w]}
    BY <1>0, <2>1, <2>2 DEF JobsInOnePlace, Busy
  <2>5. \A i \in 1 .. Len(jobs) : jobs[i] \in Jobs \ {job[w]}
    BY <1>0, <2>3 DEF JobsInOnePlace
  <2>6. \A v \in Workers : job'[v] # NoJob <=> v \in Busy'
    BY <1>0, <2>1, <2>2 DEF JobsInOnePlace
  <2> HIDE DEF Busy
  <2>7. \A v \in Busy' : fate'[job'[v]] = "started"
    BY <2>2, <2>3, <2>4 DEF JobsInOnePlace
  <2>8. \A u, v \in Busy' : job'[u] = job'[v] => u = v
    BY <2>2, <2>4 DEF JobsInOnePlace
  <2>9. /\ \A i \in 1 .. Len(jobs') : fate'[jobs'[i]] = "queued"
        /\ \A i, k \in 1 .. Len(jobs') : jobs'[i] = jobs'[k] => i = k
    BY <2>1, <2>3, <2>5 DEF JobsInOnePlace
  <2>10. \A j \in Jobs :
           /\ fate'[j] = "queued" => \E i \in 1 .. Len(jobs') : jobs'[i] = j
           /\ fate'[j] = "started" => \E v \in Busy' : job'[v] = j
    BY <2>1, <2>2, <2>3, <2>4 DEF JobsInOnePlace
  <2> QED
    BY <2>6, <2>7, <2>8, <2>9, <2>10 DEF JobsInOnePlace
<1>3. CASE WorkerStarts(w) \/ WorkerExits(w) \/ WorkerCounts(w)
           \/ WorkerCountsError(w) \/ WorkerReports(w) \/ WorkerExitsAtReport(w)
  <2>1. Busy' = Busy
    BY <1>0, <1>3
       DEF WorkerStarts, WorkerExits, WorkerCounts, WorkerCountsError,
           WorkerReports, WorkerExitsAtReport, Goto, Busy
  <2>2. job' = job /\ jobs' = jobs /\ fate' = fate
    BY <1>3 DEF WorkerStarts, WorkerExits, WorkerCounts, WorkerCountsError,
                WorkerReports, WorkerExitsAtReport
  <2> QED
    BY <2>1, <2>2 DEF JobsInOnePlace
<1> QED
  BY <1>1, <1>2, <1>3 DEF WorkerStep

\* An accepted job is new: it is in no other place.
LEMMA SubmitPlaces ==
  ASSUME TypeOK, JobsInOnePlace, NEW j \in Jobs, fate[j] = "new",
         SubmitAccepted(j)
  PROVE  JobsInOnePlace'
<1>0. /\ job \in [Workers -> Jobs \cup {NoJob}]
      /\ fate \in [Jobs -> Fates] /\ jobs \in Seq(Jobs) /\ Len(jobs) \in Nat
  BY DEF TypeOK
<1>1. /\ Len(jobs') = Len(jobs) + 1 /\ jobs'[Len(jobs) + 1] = j
      /\ \A i \in 1 .. Len(jobs) : jobs'[i] = jobs[i] /\ jobs[i] \in Jobs \ {j}
  BY <1>0 DEF SubmitAccepted, JobsInOnePlace
<1>2. /\ fate'[j] = "queued" /\ \A i \in Jobs \ {j} : fate'[i] = fate[i]
      /\ job' = job /\ Busy' = Busy
  BY <1>0 DEF SubmitAccepted, workerVars, Busy
<1>3. \A w \in Busy : job[w] \in Jobs \ {j}
  BY <1>0 DEF JobsInOnePlace, Busy
<1> HIDE DEF Busy
<1>4. /\ \A w \in Workers : job'[w] # NoJob <=> w \in Busy'
      /\ \A w \in Busy' : fate'[job'[w]] = "started"
      /\ \A v, w \in Busy' : job'[v] = job'[w] => v = w
  BY <1>2, <1>3 DEF JobsInOnePlace
<1>5. /\ \A i \in 1 .. Len(jobs') : fate'[jobs'[i]] = "queued"
      /\ \A i, k \in 1 .. Len(jobs') : jobs'[i] = jobs'[k] => i = k
  <2>1. \A i \in 1 .. Len(jobs') : i \in 1 .. Len(jobs) \/ i = Len(jobs) + 1
    BY <1>0, <1>1
  <2>2. /\ \A i \in 1 .. Len(jobs) : fate[jobs[i]] = "queued"
        /\ \A i, k \in 1 .. Len(jobs) : jobs[i] = jobs[k] => i = k
    BY DEF JobsInOnePlace
  <2>3. \A i \in 1 .. Len(jobs') : fate'[jobs'[i]] = "queued"
    BY <1>1, <1>2, <2>1, <2>2
  <2>4. \A i, k \in 1 .. Len(jobs') : jobs'[i] = jobs'[k] => i = k
    BY <1>1, <2>1, <2>2
  <2> QED
    BY <2>3, <2>4
<1>6. ASSUME NEW k \in Jobs
      PROVE  /\ fate'[k] = "queued" => \E i \in 1 .. Len(jobs') : jobs'[i] = k
             /\ fate'[k] = "started" => \E w \in Busy' : job'[w] = k
  <2>1. CASE k = j
    <3>1. Len(jobs) + 1 \in 1 .. Len(jobs')
      BY <1>0, <1>1
    <3> QED
      BY <1>1, <1>2, <2>1, <3>1
  <2>2. CASE k # j
    BY <1>0, <1>1, <1>2, <2>2 DEF JobsInOnePlace
  <2> QED
    BY <2>1, <2>2
<1> QED
  BY <1>4, <1>5, <1>6 DEF JobsInOnePlace

\* A job that is refused was new: it leaves every place as it is.
LEMMA RefusePlaces ==
  ASSUME TypeOK, JobsInOnePlace, NEW j \in Jobs, fate[j] = "new", Refuse(j)
  PROVE  JobsInOnePlace'
<1>0. fate \in [Jobs -> Fates] /\ job \in [Workers -> Jobs \cup {NoJob}]
      /\ jobs \in Seq(Jobs)
  BY DEF TypeOK
<1>1. /\ fate'[j] = "refused" /\ \A i \in Jobs \ {j} : fate'[i] = fate[i]
      /\ job' = job /\ jobs' = jobs /\ Busy' = Busy
  BY <1>0 DEF Refuse, workerVars, Busy
<1>2. /\ \A w \in Busy : job[w] \in Jobs \ {j}
      /\ \A i \in 1 .. Len(jobs) : jobs[i] \in Jobs \ {j}
  BY <1>0 DEF JobsInOnePlace, Busy
<1> QED
  BY <1>1, <1>2 DEF JobsInOnePlace

\* Every step of the pool keeps every job in one place.
LEMMA PlacesStep ==
  ASSUME TypeOK, JobsInOnePlace, [Next]_vars
  PROVE  JobsInOnePlace'
<1>1. CASE SubmitNext
  <2>1. PICK j \in Jobs : /\ \A i \in j .. MaxJobs : fate[i] = "new"
                          /\ Submit(j) \/ SubmitNonBlocking(j)
    BY <1>1 DEF SubmitNext
  <2>2. j \in j .. MaxJobs
    BY DEF Jobs
  <2>3. fate[j] = "new"
    BY <2>1, <2>2
  <2>4. SubmitAccepted(j) \/ Refuse(j)
    BY <2>1 DEF Submit, SubmitNonBlocking, SubmitPoolClosed, SubmitBufferFull
  <2> QED
    BY <2>3, <2>4, SubmitPlaces, RefusePlaces
<1>2. CASE \E w \in Workers : WorkerStep(w)
  BY <1>2, WorkerStepPlaces
<1>3. CASE CollectResult \/ CollectorExits \/ Close \/ CloseFindsIdle
           \/ CloseTimesOut \/ ParentCancels \/ UNCHANGED vars
  BY <1>3 DEF CollectResult, CollectorExits, Close, CloseFindsIdle,
              CloseTimesOut, ParentCancels, vars, workerVars, JobsInOnePlace,
              Busy
<1> QED
  BY <1>1, <1>2, <1>3 DEF Next

\* At the start every job is new.
LEMMA PlacesInit ==
  ASSUME Init
  PROVE  JobsInOnePlace
BY DEF Init, JobsInOnePlace, Busy

\* No job is lost, queued twice or held by two workers.
THEOREM OnePlace == Spec => []JobsInOnePlace
<1>1. Init => JobsInOnePlace
  BY PlacesInit
<1>2. TypeOK /\ JobsInOnePlace /\ [Next]_vars => JobsInOnePlace'
  BY PlacesStep
<1> QED
  BY <1>1, <1>2, TypeCorrect, PTL DEF Spec
-----------------------------------------------------------------------------
(* The totals that Stats returns. *)

FailedJobs == {j \in Jobs : fate[j] = "failed"}

\* The workers that have executed a job and not counted it, or its error, yet.
Uncounted == {w \in Workers : worker[w] = "finished"}
UncountedErrors ==
  {w \in Workers : worker[w] = "failed" \/ (worker[w] = "finished" /\ failed[w])}

\* Jobs and errors are counted once each, after Process (pool.go:66-69).
TotalsExact ==
  /\ totalProcessed + Cardinality(Uncounted) = Cardinality(Done)
  /\ totalErrors + Cardinality(UncountedErrors) = Cardinality(FailedJobs)

TotalsSets == <<Uncounted, UncountedErrors, Done, FailedJobs>>

LEMMA TotalsFinite ==
  \A S \in {Uncounted, UncountedErrors, Done, FailedJobs} :
    IsFiniteSet(S) /\ Cardinality(S) \in Nat
<1>1. IsFiniteSet(Workers) /\ IsFiniteSet(Jobs)
  BY FS_Interval DEF Jobs
<1>2. /\ Uncounted \in SUBSET Workers /\ UncountedErrors \in SUBSET Workers
      /\ Done \in SUBSET Jobs /\ FailedJobs \in SUBSET Jobs
  BY DEF Uncounted, UncountedErrors, Done, FailedJobs
<1> QED
  BY <1>1, <1>2, FS_Subset, FS_CardinalityType

LEMMA TotalsKept ==
  ASSUME TotalsExact, UNCHANGED <<totalProcessed, totalErrors>>, UNCHANGED TotalsSets
  PROVE  TotalsExact'
  BY DEF TotalsExact, TotalsSets

\* The steps between the end of Process and the report move a worker, and at the
\* same time count what it has executed.
LEMMA WorkerStepTotals ==
  ASSUME TypeOK, JobsInOnePlace, TotalsExact, NEW w \in Workers, WorkerStep(w)
  PROVE  TotalsExact'
<1>0. /\ worker \in [Workers -> WorkerPCs] /\ failed \in [Workers -> BOOLEAN]
      /\ fate \in [Jobs -> Fates]
      /\ totalProcessed \in Nat /\ totalErrors \in Nat
  BY DEF TypeOK
<1>1. ASSUME NEW err \in BOOLEAN, WorkerFinishes(w, err)
      PROVE  TotalsExact'
  <2>1. PICK x \in Jobs : x = job[w] /\ fate[x] = "started"
    BY <1>1 DEF WorkerFinishes, Goto, TypeOK, JobsInOnePlace, Busy
  <2>2. /\ worker[w] = "processing" /\ worker' = [worker EXCEPT ![w] = "finished"]
        /\ failed' = [failed EXCEPT ![w] = err]
        /\ fate' = [fate EXCEPT ![x] = IF err THEN "failed" ELSE "succeeded"]
        /\ UNCHANGED <<totalProcessed, totalErrors>>
    BY <1>1, <2>1 DEF WorkerFinishes, Goto
  <2>3. w \notin Uncounted /\ Uncounted' = Uncounted \cup {w}
    BY <1>0, <2>2 DEF Uncounted
  <2>4. x \notin Done /\ Done' = Done \cup {x}
    BY <1>0, <2>1, <2>2 DEF Done
  <2>5. /\ Cardinality(Uncounted') = Cardinality(Uncounted) + 1
        /\ Cardinality(Done') = Cardinality(Done) + 1
    BY <2>3, <2>4, TotalsFinite, FS_AddElement
  <2>6. CASE err
    <3>1. /\ w \notin UncountedErrors
          /\ UncountedErrors' = UncountedErrors \cup {w}
      BY <1>0, <2>2, <2>6 DEF UncountedErrors
    <3>2. x \notin FailedJobs /\ FailedJobs' = FailedJobs \cup {x}
      BY <1>0, <2>1, <2>2, <2>6 DEF FailedJobs
    <3>3. /\ Cardinality(UncountedErrors') = Cardinality(UncountedErrors) + 1
          /\ Cardinality(FailedJobs') = Cardinality(FailedJobs) + 1
      BY <3>1, <3>2, TotalsFinite, FS_AddElement
    <3> QED
      BY <1>0, <2>2, <2>5, <3>3, TotalsFinite DEF TotalsExact
  <2>7. CASE ~err
    <3>1. UncountedErrors' = UncountedErrors
      BY <1>0, <2>2, <2>7 DEF UncountedErrors
    <3>2. FailedJobs' = FailedJobs
      BY <1>0, <2>1, <2>2, <2>7 DEF FailedJobs
    <3> QED
      BY <1>0, <2>2, <2>5, <3>1, <3>2, TotalsFinite DEF TotalsExact
  <2> QED
    BY <2>6, <2>7
<1>2. CASE WorkerCounts(w)
  <2>1. /\ worker[w] = "finished"
        /\ worker' = [worker EXCEPT ![w] = IF failed[w] THEN "failed" ELSE "report"]
        /\ totalProcessed' = totalProcessed + 1
        /\ UNCHANGED <<failed, fate, totalErrors>>
    BY <1>2 DEF WorkerCounts, Goto
  <2>2. w \in Uncounted /\ Uncounted' = Uncounted \ {w}
    BY <1>0, <2>1 DEF Uncounted
  <2>3. Cardinality(Uncounted') = Cardinality(Uncounted) - 1
    BY <2>2, TotalsFinite, FS_RemoveElement
  <2>4. UncountedErrors' = UncountedErrors
    BY <1>0, <2>1 DEF UncountedErrors
  <2>5. Done' = Done /\ FailedJobs' = FailedJobs
    BY <2>1 DEF Done, FailedJobs
  <2> QED
    BY <1>0, <2>1, <2>3, <2>4, <2>5, TotalsFinite DEF TotalsExact
<1>3. CASE WorkerCountsError(w)
  <2>1. /\ worker[w] = "failed" /\ worker' = [worker EXCEPT ![w] = "report"]
        /\ totalErrors' = totalErrors + 1
        /\ UNCHANGED <<failed, fate, totalProcessed>>
    BY <1>3 DEF WorkerCountsError, Goto
  <2>2. w \in UncountedErrors /\ UncountedErrors' = UncountedErrors \ {w}
    BY <1>0, <2>1 DEF UncountedErrors
  <2>3. Cardinality(UncountedErrors') = Cardinality(UncountedErrors) - 1
    BY <2>2, TotalsFinite, FS_RemoveElement
  <2>4. Uncounted' = Uncounted
    BY <1>0, <2>1 DEF Uncounted
  <2>5. Done' = Done /\ FailedJobs' = FailedJobs
    BY <2>1 DEF Done, FailedJobs
  <2> QED
    BY <1>0, <2>1, <2>3, <2>4, <2>5, TotalsFinite DEF TotalsExact
<1>4. CASE WorkerReceives(w)
  <2>1. PICK x \in Jobs : x = Head(jobs) /\ fate[x] = "queued"
    <3>1. jobs \in Seq(Jobs) /\ jobs # <<>>
      BY <1>4 DEF TypeOK, WorkerReceives
    <3>2. Head(jobs) = jobs[1] /\ 1 \in 1 .. Len(jobs) /\ jobs[1] \in Jobs
      BY <3>1
    <3> QED
      BY <3>2 DEF JobsInOnePlace
  <2>2. /\ worker[w] = "select" /\ worker' = [worker EXCEPT ![w] = "taken"]
        /\ fate' = [fate EXCEPT ![x] = "started"]
        /\ UNCHANGED <<failed, totalProcessed, totalErrors>>
    BY <1>4, <2>1 DEF WorkerReceives, Goto, counters
  <2>3. Uncounted' = Uncounted /\ UncountedErrors' = UncountedErrors
    BY <1>0, <2>2 DEF Uncounted, UncountedErrors
  <2>4. Done' = Done /\ FailedJobs' = FailedJobs
    BY <1>0, <2>1, <2>2 DEF Done, FailedJobs
  <2> QED
    BY <2>2, <2>3, <2>4, TotalsKept DEF TotalsSets
<1>5. CASE \/ WorkerExits(w) \/ WorkerStarts(w) \/ WorkerReports(w)
           \/ WorkerExitsAtReport(w)
  <2>1. /\ UNCHANGED <<failed, fate, totalProcessed, totalErrors>>
        /\ worker[w] \notin {"finished", "failed"}
        /\ \E to \in {"processing", "exited", "select"} :
             worker' = [worker EXCEPT ![w] = to]
    BY <1>5 DEF WorkerExits, WorkerStarts, WorkerReports, WorkerExitsAtReport,
                Goto, counters
  <2>2. Uncounted' = Uncounted /\ UncountedErrors' = UncountedErrors
    BY <1>0, <2>1 DEF Uncounted, UncountedErrors
  <2>3. Done' = Done /\ FailedJobs' = FailedJobs
    BY <2>1 DEF Done, FailedJobs
  <2> QED
    BY <2>1, <2>2, <2>3, TotalsKept DEF TotalsSets
<1> QED
  BY <1>1, <1>2, <1>3, <1>4, <1>5 DEF WorkerStep

\* Every executed job is counted once, and so is every error, or a worker is
\* about to do it: whatever the number of workers that count at the same time.
THEOREM TotalsCorrect == Spec => []TotalsExact
<1>1. Init => TotalsExact
  <2> SUFFICES ASSUME Init PROVE TotalsExact
    OBVIOUS
  <2>1. Uncounted = {} /\ UncountedErrors = {} /\ Done = {} /\ FailedJobs = {}
    BY DEF Init, Uncounted, UncountedErrors, Done, FailedJobs
  <2> QED
    BY <2>1, FS_EmptySet DEF Init, TotalsExact
<1>2. TypeOK /\ JobsInOnePlace /\ TotalsExact /\ [Next]_vars => TotalsExact'
  <2> SUFFICES ASSUME TypeOK, JobsInOnePlace, TotalsExact, [Next]_vars
               PROVE  TotalsExact'
    OBVIOUS
  <2>1. ASSUME NEW w \in Workers, WorkerStep(w) PROVE TotalsExact'
    BY <2>1, WorkerStepTotals
  <2>2. CASE SubmitNext
    <3>1. PICK j \in Jobs : fate[j] = "new" /\ (Submit(j) \/ SubmitNonBlocking(j))
      <4>1. PICK j \in Jobs : /\ \A i \in j .. MaxJobs : fate[i] = "new"
                              /\ Submit(j) \/ SubmitNonBlocking(j)
        BY <2>2 DEF SubmitNext
      <4>2. j \in j .. MaxJobs
        BY DEF Jobs
      <4> QED
        BY <4>1, <4>2
    <3>2. PICK to \in {"queued", "refused"} :
            /\ fate' = [fate EXCEPT ![j] = to]
            /\ UNCHANGED <<worker, failed, totalProcessed, totalErrors>>
      BY <3>1 DEF Submit, SubmitNonBlocking, SubmitAccepted, SubmitPoolClosed,
                  SubmitBufferFull, Refuse, workerVars, counters
    <3>3. Done' = Done /\ FailedJobs' = FailedJobs
      BY <3>1, <3>2 DEF Done, FailedJobs, TypeOK
    <3>4. Uncounted' = Uncounted /\ UncountedErrors' = UncountedErrors
      BY <3>2 DEF Uncounted, UncountedErrors
    <3> QED
      BY <3>2, <3>3, <3>4, TotalsKept DEF TotalsSets
  <2>3. CASE UNCHANGED <<worker, failed, fate, totalProcessed, totalErrors>>
    <3>1. UNCHANGED TotalsSets
      BY <2>3 DEF TotalsSets, Uncounted, UncountedErrors, Done, FailedJobs
    <3> QED
      BY <2>3, <3>1, TotalsKept
  <2> QED
    BY <2>1, <2>2, <2>3
       DEF Next, CollectResult, CollectorExits, Close, CloseFindsIdle,
           CloseTimesOut, ParentCancels, vars, workerVars, counters
<1> QED
  BY <1>1, <1>2, TypeCorrect, OnePlace, PTL DEF Spec
-----------------------------------------------------------------------------
(* The frame buffer of the pipeline keeps what FrameBufferProofs proves. *)

USE CapacityAssumption

FBP == INSTANCE FrameBufferProofs WITH closed <- bufferClosed, MaxFrames <- MaxJobs

\* FB and FBP are two instances of one module with one substitution.
LEMMA SameBuffer ==
  /\ FB!Init <=> FBP!Init
  /\ [FB!Next]_(FB!vars) <=> [FBP!Next]_(FBP!vars)
  /\ FB!TypeOK <=> FBP!TypeOK
  /\ FB!FramesConserved <=> FBP!FramesConserved
<1>1. FB!Init <=> FBP!Init
  BY DEF FB!Init, FBP!Init
<1>2. FB!TypeOK <=> FBP!TypeOK
  BY DEF FB!TypeOK, FBP!TypeOK, FB!PCs, FBP!PCs, FB!Fates, FBP!Fates,
         FB!StatsPCs, FBP!StatsPCs
<1>3. FB!FramesConserved <=> FBP!FramesConserved
  BY DEF FB!FramesConserved, FBP!FramesConserved, FB!InHand, FBP!InHand
<1>4. [FB!Next]_(FB!vars) <=> [FBP!Next]_(FBP!vars)
  <2>1. /\ FB!PushBegin <=> FBP!PushBegin
        /\ FB!PushStep <=> FBP!PushStep
    BY DEF FB!PushBegin, FBP!PushBegin, FB!PushStep, FBP!PushStep, FB!PushTrySend,
           FBP!PushTrySend, FB!PushFindsFull, FBP!PushFindsFull,
           FB!PushDropOldest, FBP!PushDropOldest, FB!PushFindsDrained,
           FBP!PushFindsDrained, FB!PushSend, FBP!PushSend,
           FB!PushCount, FBP!PushCount, FB!Receive, FBP!Receive,
           FB!popVars, FBP!popVars
  <2>2. /\ FB!Pop <=> FBP!Pop
        /\ FB!PopBlocking <=> FBP!PopBlocking
    BY DEF FB!Pop, FBP!Pop, FB!PopBlocking, FBP!PopBlocking, FB!PopBlockingFrame,
           FBP!PopBlockingFrame, FB!PopBlockingEnds,
           FBP!PopBlockingEnds, FB!Receive, FBP!Receive, FB!pushVars,
           FBP!pushVars, FB!popVars, FBP!popVars
  <2>3. /\ FB!Cancel <=> FBP!Cancel
        /\ FB!Close <=> FBP!Close
        /\ FB!Stats <=> FBP!Stats
    BY DEF FB!Cancel, FBP!Cancel, FB!Close, FBP!Close, FB!Stats, FBP!Stats,
           FB!StatsLoadDropped, FBP!StatsLoadDropped, FB!StatsLoadTotal,
           FBP!StatsLoadTotal, FB!StatsReturn, FBP!StatsReturn,
           FB!pushVars, FBP!pushVars, FB!popVars, FBP!popVars
  <2>4. UNCHANGED FB!vars <=> UNCHANGED FBP!vars
    BY DEF FB!vars, FBP!vars, FB!pushVars, FBP!pushVars, FB!popVars, FBP!popVars
  <2> QED
    BY <2>1, <2>2, <2>3, <2>4 DEF FB!Next, FBP!Next
<1> QED
  BY <1>1, <1>2, <1>3, <1>4

\* Every step of the pipeline is a step of its buffer or leaves the buffer alone.
LEMMA BufferStep ==
  ASSUME [PipelineNext]_pipelineVars
  PROVE  [FB!Next]_(FB!vars)
<1>1. CASE CapturePushes \/ CaptureInPush
  BY <1>1 DEF CapturePushes, CaptureInPush, FB!Next, FB!PushStep
<1>2. CASE DispatcherPops \/ DispatcherExits
  BY <1>2 DEF DispatcherPops, DispatcherExits, FB!Next, FB!PopBlocking
<1>3. CASE MainCancels
  BY <1>3 DEF MainCancels, FB!Next
<1>4. CASE UNCHANGED bufferVars
  BY <1>4 DEF bufferVars, FB!vars, FB!pushVars, FB!popVars
<1>5. UNCHANGED pipelineVars => UNCHANGED bufferVars
  BY DEF pipelineVars
<1>6. Capture \/ Dispatcher => \/ CapturePushes \/ CaptureInPush
                               \/ DispatcherPops \/ DispatcherExits
                               \/ UNCHANGED bufferVars
  BY DEF Capture, CaptureExits, Dispatcher, DispatcherSubmits,
         DispatcherFallsBack, DispatcherPanics, DispatcherReturns
<1>7. ASSUME NEW f \in Frames, Process(f) PROVE UNCHANGED bufferVars
  BY <1>7 DEF Process, Publish, SaveFrame, PublishMetadata, Advance
<1>8. ASSUME NEW w \in Workers, Worker(w) PROVE UNCHANGED bufferVars
  BY <1>8 DEF Worker, WorkerBegins, WorkerReturns, WorkerLoops
<1>9. Collector \/ Main => MainCancels \/ UNCHANGED bufferVars
  BY DEF Collector, Main, MainClosesPublisher, MainClosesPool, MainExits
<1> QED
  BY <1>1, <1>2, <1>3, <1>4, <1>5, <1>6, <1>7, <1>8, <1>9 DEF PipelineNext

\* The pipeline uses the frame buffer as its specification says, so that the
\* buffer keeps every property that is proved of it alone.
THEOREM PipelineIsABuffer == PipelineSpec => FB!Spec
  BY BufferStep, PTL DEF PipelineSpec, PipelineInit, FB!Spec

BufferInv == FB!TypeOK /\ FB!FramesConserved

LEMMA BufferKept == PipelineSpec => []BufferInv
<1>1. FBP!Spec => []FBP!TypeOK
  BY FBP!TypeCorrect
<1>2. FBP!Spec => []FBP!FramesConserved
  BY FBP!Conserved
<1>3. FB!Spec <=> FBP!Spec
  BY SameBuffer, PTL DEF FB!Spec, FBP!Spec
<1> QED
  BY <1>1, <1>2, <1>3, SameBuffer, PipelineIsABuffer, PTL DEF BufferInv

\* In the pipeline too every frame that the capture loop has pushed is in the
\* channel, in the hand of Push or out, once and in order.
THEOREM PipelineConserves == PipelineSpec => []FB!FramesConserved
  BY BufferKept, PTL DEF BufferInv
-----------------------------------------------------------------------------
(* When the program can panic. *)

\* main has called Close, and a panic that has come came before main returned.
ShutdownInv == /\ closed => main \in {"waiting", "exited"}
               /\ crashed => main = "waiting"

\* The send on the closed channel of jobs (pool.go:113, 133) can only happen
\* while main waits in Close: not before the shutdown, and not once main has
\* returned from Close, when the process is gone.
THEOREM PanicOnlyInClose == PipelineSpec => [](crashed => main = "waiting")
<1>1. PipelineInit => ShutdownInv
  BY DEF PipelineInit, Init, ShutdownInv
<1>2. ShutdownInv /\ [PipelineNext]_pipelineVars => ShutdownInv'
  <2> SUFFICES ASSUME ShutdownInv, [PipelineNext]_pipelineVars
               PROVE  ShutdownInv'
    OBVIOUS
  <2>1. CASE UNCHANGED <<closed, main, crashed>>
    BY <2>1 DEF ShutdownInv
  <2>2. CASE Alive /\ DispatcherPanics
    BY <2>2 DEF DispatcherPanics, poolVars, vars, Alive, ShutdownInv
  <2>3. CASE Alive /\ Main
    BY <2>3 DEF Main, MainCancels, MainClosesPublisher, MainClosesPool, MainExits,
                ParentCancels, Close, CloseFindsIdle, CloseTimesOut, poolVars,
                vars, Alive, ShutdownInv
  <2>4. Capture \/ Dispatcher => DispatcherPanics \/ UNCHANGED <<closed, main, crashed>>
    BY DEF Capture, CapturePushes, CaptureInPush, CaptureExits, Dispatcher,
           DispatcherPops, DispatcherExits, DispatcherSubmits, DispatcherFallsBack,
           DispatcherReturns, SubmitAccepted, SubmitPoolClosed, SubmitBufferFull,
           Refuse, poolVars, vars, mainVars
  <2>5. ASSUME NEW f \in Frames, Process(f)
        PROVE  UNCHANGED <<closed, main, crashed>>
    BY <2>5 DEF Process, Publish, SaveFrame, PublishMetadata, Advance, poolVars,
                vars, mainVars
  <2>6. ASSUME NEW w \in Workers, Worker(w)
        PROVE  UNCHANGED <<closed, main, crashed>>
    BY <2>6 DEF Worker, WorkerBegins, WorkerReturns, WorkerLoops, WorkerStarts,
                WorkerFinishes, WorkerReceives, WorkerExits, WorkerCounts,
                WorkerCountsError, WorkerReports, WorkerExitsAtReport, mainVars
  <2>7. Collector => UNCHANGED <<closed, main, crashed>>
    BY DEF Collector, CollectResult, CollectorExits, mainVars
  <2> QED
    BY <2>1, <2>2, <2>3, <2>4, <2>5, <2>6, <2>7
       DEF PipelineNext, pipelineVars, poolVars, vars, mainVars
<1>3. ShutdownInv => (crashed => main = "waiting")
  BY DEF ShutdownInv
<1> QED
  BY <1>1, <1>2, <1>3, PTL DEF PipelineSpec
-----------------------------------------------------------------------------
(* Where every frame is. *)

\* The frame has left the buffer, and it is neither with the dispatcher nor
\* accepted by the pool and not yet processed.
Gone(f) == /\ f <= Len(out) /\ f \notin WithDispatcher
           /\ fate[f] \notin {"queued", "started"}

\* The memory of a frame was released, once, if and only if the frame is gone;
\* the pool has not seen the frames that are still to be submitted.
PlaceInv ==
  /\ totalFrames <= MaxJobs
  /\ dispatcher \in {"submit", "process"} =>
       /\ held \in Frames /\ held <= Len(out)
       /\ fate[held] = IF dispatcher = "submit" THEN "new" ELSE "refused"
       /\ \A f \in Frames : f > held => fate[f] = "new"
  /\ \A f \in Frames :
       /\ f > Len(out) => fate[f] = "new"
       /\ released[f] = IF Gone(f) THEN 1 ELSE 0

PipelineInv == PipelineTypeOK /\ ProcessingExact /\ JobsInOnePlace /\ PlaceInv

\* Every step of the pipeline is a step of its pool or leaves the pool alone.
LEMMA PoolStep ==
  ASSUME PlaceInv, [PipelineNext]_pipelineVars
  PROVE  [Next]_vars
<1>1. CASE DispatcherSubmits \/ DispatcherFallsBack
  <2>1. /\ held \in Jobs
        /\ SubmitAccepted(held) \/ SubmitPoolClosed(held) \/ SubmitBufferFull(held)
    BY <1>1 DEF DispatcherSubmits, DispatcherFallsBack, PlaceInv, Frames
  <2>2. \A i \in held .. MaxJobs : fate[i] = "new"
    <3>1. dispatcher = "submit"
      BY <1>1 DEF DispatcherSubmits, DispatcherFallsBack
    <3>2. fate[held] = "new" /\ \A f \in Frames : f > held => fate[f] = "new"
      BY <3>1 DEF PlaceInv
    <3>3. \A i \in held .. MaxJobs : i \in Frames /\ (i = held \/ i > held)
      BY <2>1 DEF Frames, Jobs
    <3> QED
      BY <3>2, <3>3
  <2> QED
    BY <2>1, <2>2 DEF Next, SubmitNext, Submit
<1>2. ASSUME NEW w \in Workers, Worker(w) PROVE WorkerStep(w)
  <2>1. (stage[job[w]] = "failed") \in BOOLEAN
    OBVIOUS
  <2> QED
    BY <1>2, <2>1 DEF Worker, WorkerBegins, WorkerReturns, WorkerLoops, WorkerStep
<1>3. CASE Collector \/ Main
  BY <1>3 DEF Collector, Main, MainCancels, MainClosesPublisher,
              MainClosesPool, MainExits, Next, poolVars
<1>4. ASSUME NEW f \in Frames, Process(f) PROVE UNCHANGED vars
  BY <1>4 DEF Process, Publish, SaveFrame, PublishMetadata, Advance, poolVars
<1>5. Capture \/ Dispatcher => \/ DispatcherSubmits \/ DispatcherFallsBack
                               \/ UNCHANGED vars
  BY DEF Capture, CapturePushes, CaptureInPush, CaptureExits, Dispatcher,
         DispatcherPops, DispatcherExits, DispatcherPanics,
         DispatcherReturns, poolVars
<1>6. UNCHANGED pipelineVars => UNCHANGED vars
  BY DEF pipelineVars, poolVars
<1> QED
  BY <1>1, <1>2, <1>3, <1>4, <1>5, <1>6 DEF PipelineNext, Next

\* The oldest frame of the buffer is the one after those that have left.
LEMMA OldestFrame ==
  ASSUME BufferInv, buffer # <<>>
  PROVE  /\ Head(buffer) = Len(out) + 1 /\ Len(out) \in Nat
         /\ Len(out) + 1 <= totalFrames
<1>1. buffer \in Seq(Nat) /\ Len(out) \in Nat /\ totalFrames \in Nat
  BY DEF BufferInv, FB!TypeOK
<1>2. Len(buffer) \in Nat /\ Len(buffer) > 0 /\ Head(buffer) = buffer[1]
  BY <1>1
<1>3. buffer[1] = Len(out) + 1
  BY <1>2 DEF BufferInv, FB!FramesConserved
<1>4. FB!InHand \in Nat
  BY DEF FB!InHand
<1>5. totalFrames = Len(out) + Len(buffer) + FB!InHand
  BY DEF BufferInv, FB!FramesConserved
<1> QED
  BY <1>1, <1>2, <1>3, <1>4, <1>5

\* A frame that the dispatcher pops or that Push drops is one of Frames.
LEMMA PoppedFrame ==
  ASSUME BufferInv, PlaceInv, buffer # <<>>
  PROVE  Head(buffer) \in Frames
<1>1. totalFrames \in Nat /\ totalFrames <= MaxJobs
  BY DEF BufferInv, FB!TypeOK, PlaceInv
<1> QED
  BY <1>1, OldestFrame DEF Frames, Jobs

\* Only the dispatcher changes what it holds.
LEMMA OthersLeaveDispatcher ==
  ASSUME [PipelineNext]_pipelineVars
  PROVE  Dispatcher \/ UNCHANGED dispatcherVars
<1>1. Capture => UNCHANGED dispatcherVars
  BY DEF Capture, CapturePushes, CaptureInPush, CaptureExits
<1>2. ASSUME NEW f \in Frames, Process(f) PROVE UNCHANGED dispatcherVars
  BY <1>2 DEF Process, Publish, SaveFrame, PublishMetadata, Advance
<1>3. ASSUME NEW w \in Workers, Worker(w) PROVE UNCHANGED dispatcherVars
  BY <1>3 DEF Worker, WorkerBegins, WorkerReturns, WorkerLoops
<1>4. Collector \/ Main => UNCHANGED dispatcherVars
  BY DEF Collector, Main, MainCancels, MainClosesPublisher, MainClosesPool,
         MainExits
<1>5. UNCHANGED pipelineVars => UNCHANGED dispatcherVars
  BY DEF pipelineVars
<1> QED
  BY <1>1, <1>2, <1>3, <1>4, <1>5 DEF PipelineNext

\* The variables that neither the pool nor the buffer has keep their types.
LEMMA OwnTypesStep ==
  ASSUME PipelineTypeOK, PlaceInv, BufferInv, BufferInv', TypeOK',
         [PipelineNext]_pipelineVars
  PROVE  PipelineTypeOK'
<1> USE DEF PipelineTypeOK
<1>1. stage' \in [Frames -> Stages]
  <2>1. ASSUME NEW f, NEW to \in Stages, stage' = [stage EXCEPT ![f] = to]
        PROVE  stage' \in [Frames -> Stages]
    BY <2>1
  <2>2. CASE UNCHANGED stage
    BY <2>2
  <2>3. Capture \/ Dispatcher =>
          \/ UNCHANGED stage
          \/ \E to \in Stages : stage' = [stage EXCEPT ![held] = to]
    BY DEF Capture, CapturePushes, CaptureInPush, CaptureExits, Dispatcher,
           DispatcherPops, DispatcherExits, DispatcherSubmits,
           DispatcherFallsBack, DispatcherPanics, DispatcherReturns, Return,
           frameVars, Stages
  <2>4. ASSUME NEW f \in Frames, Process(f) PROVE stage' \in [Frames -> Stages]
    <3>1. PICK to \in Stages : stage' = [stage EXCEPT ![f] = to]
      BY <2>4 DEF Process, Publish, SaveFrame, PublishMetadata, Advance, Stages
    <3> QED
      BY <3>1
  <2>5. ASSUME NEW w \in Workers, Worker(w) PROVE stage' \in [Frames -> Stages]
    BY <2>5 DEF Worker, WorkerBegins, WorkerReturns, WorkerLoops, Return,
                frameVars, Stages
  <2>6. Collector \/ Main \/ UNCHANGED pipelineVars => UNCHANGED stage
    BY DEF Collector, Main, MainCancels, MainClosesPublisher, MainClosesPool,
           MainExits, pipelineVars, frameVars
  <2> QED
    BY <2>1, <2>2, <2>3, <2>4, <2>5, <2>6 DEF PipelineNext
<1>2. released' \in [Frames -> Nat]
  <2>1. UNCHANGED released \/ \E f : Release(f)
    <3>1. Capture \/ Dispatcher => UNCHANGED released \/ \E f : Release(f)
      BY DEF Capture, CapturePushes, CaptureInPush, CaptureExits, Dispatcher,
             DispatcherPops, DispatcherExits, DispatcherSubmits,
             DispatcherFallsBack, DispatcherPanics, DispatcherReturns, Return,
             frameVars
    <3>2. ASSUME NEW f \in Frames, Process(f) PROVE UNCHANGED released
      BY <3>2 DEF Process, Publish, SaveFrame, PublishMetadata, Advance
    <3>3. ASSUME NEW w \in Workers, Worker(w)
          PROVE  UNCHANGED released \/ \E f : Release(f)
      BY <3>3 DEF Worker, WorkerBegins, WorkerReturns, WorkerLoops, Return,
                  frameVars
    <3>4. Collector \/ Main \/ UNCHANGED pipelineVars => UNCHANGED released
      BY DEF Collector, Main, MainCancels, MainClosesPublisher, MainClosesPool,
             MainExits, pipelineVars, frameVars
    <3> QED
      BY <3>1, <3>2, <3>3, <3>4 DEF PipelineNext
  <2>2. ASSUME NEW f, Release(f) PROVE released' \in [Frames -> Nat]
    <3>1. /\ released \in [Frames -> Nat]
          /\ released' = [g \in Frames |-> IF g = f THEN released[g] + 1
                                                  ELSE released[g]]
      BY <2>2 DEF Release
    <3>2. \A g \in Frames : released[g] \in Nat /\ released[g] + 1 \in Nat
      BY <3>1
    <3> QED
      BY <3>1, <3>2
  <2> QED
    BY <2>1, <2>2
<1>3. /\ dispatcher' \in {"pop", "submit", "process", "exited"}
      /\ held' \in Frames \cup {NoJob}
  <2>1. CASE DispatcherPops
    <3>1. buffer # <<>> /\ held' = Head(buffer) /\ dispatcher' = "submit"
      BY <2>1 DEF DispatcherPops, FB!PopBlockingFrame, FB!Receive
    <3> QED
      BY <3>1, PoppedFrame
  <2>2. CASE UNCHANGED dispatcherVars
    BY <2>2 DEF dispatcherVars
  <2>3. CASE \/ DispatcherExits \/ DispatcherSubmits \/ DispatcherFallsBack
             \/ DispatcherPanics \/ DispatcherReturns
    <3>1. /\ dispatcher' \in {dispatcher, "pop", "process", "exited"}
          /\ held' \in {held, NoJob}
      BY <2>3 DEF DispatcherExits, DispatcherSubmits, DispatcherFallsBack,
                  DispatcherPanics, DispatcherReturns, dispatcherVars
    <3> QED
      BY <3>1
  <2> QED
    BY <2>1, <2>2, <2>3, OthersLeaveDispatcher DEF Dispatcher
<1>4. /\ capture' \in {"running", "exited"}
      /\ main' \in {"running", "cancelled", "closing", "waiting", "exited"}
      /\ publisherClosed' \in BOOLEAN /\ crashed' \in BOOLEAN
  <2>1. Capture \/ Dispatcher =>
          /\ capture' \in {"running", "exited"}
          /\ UNCHANGED <<main, publisherClosed>> /\ crashed' \in {crashed, TRUE}
    BY DEF Capture, CapturePushes, CaptureInPush, CaptureExits, Dispatcher,
           DispatcherPops, DispatcherExits, DispatcherSubmits,
           DispatcherFallsBack, DispatcherPanics, DispatcherReturns, mainVars
  <2>2. ASSUME NEW f \in Frames, Process(f)
        PROVE  UNCHANGED <<capture, main, publisherClosed, crashed>>
    BY <2>2 DEF Process, Publish, SaveFrame, PublishMetadata, Advance, mainVars
  <2>3. ASSUME NEW w \in Workers, Worker(w)
        PROVE  UNCHANGED <<capture, main, publisherClosed, crashed>>
    BY <2>3 DEF Worker, WorkerBegins, WorkerReturns, WorkerLoops, mainVars
  <2>4. Collector => UNCHANGED <<capture, main, publisherClosed, crashed>>
    BY DEF Collector, mainVars
  <2>5. Main => /\ UNCHANGED <<capture, crashed>>
                /\ main' \in {"cancelled", "closing", "waiting", "exited"}
                /\ publisherClosed' \in {publisherClosed, TRUE}
    BY DEF Main, MainCancels, MainClosesPublisher, MainClosesPool, MainExits
  <2>6. UNCHANGED pipelineVars =>
          UNCHANGED <<capture, main, publisherClosed, crashed>>
    BY DEF pipelineVars, mainVars
  <2> QED
    BY <2>1, <2>2, <2>3, <2>4, <2>5, <2>6 DEF PipelineNext
<1>5. FB!TypeOK'
  BY DEF BufferInv
<1> QED
  BY <1>1, <1>2, <1>3, <1>4, <1>5

\* The buffer counts no more frames than the bound allows.
LEMMA TotalBounded ==
  ASSUME BufferInv, totalFrames <= MaxJobs, [FB!Next]_(FB!vars)
  PROVE  totalFrames' <= MaxJobs
<1>1. totalFrames \in Nat
  BY DEF BufferInv, FB!TypeOK
<1>2. CASE FB!PushBegin
  BY <1>1, <1>2 DEF FB!PushBegin
<1>3. FB!PushStep => totalFrames' = totalFrames
  BY DEF FB!PushStep, FB!PushTrySend, FB!PushFindsFull, FB!PushDropOldest,
         FB!PushFindsDrained, FB!PushSend, FB!PushCount
<1>4. FB!Pop \/ FB!PopBlocking => totalFrames' = totalFrames
  BY DEF FB!Pop, FB!PopBlocking, FB!PopBlockingFrame, FB!PopBlockingEnds,
         FB!pushVars
<1>5. FB!Cancel \/ FB!Close \/ FB!Stats => totalFrames' = totalFrames
  BY DEF FB!Cancel, FB!Close, FB!Stats, FB!StatsLoadDropped,
         FB!StatsLoadTotal, FB!StatsReturn, FB!pushVars
<1>6. UNCHANGED FB!vars => totalFrames' = totalFrames
  BY DEF FB!vars, FB!pushVars
<1> QED
  BY <1>2, <1>3, <1>4, <1>5, <1>6 DEF FB!Next

\* A receive makes the history longer by the frame that follows it.
LEMMA ReceivedFrame ==
  ASSUME BufferInv, PlaceInv, NEW how, FB!Receive(how)
  PROVE  /\ Len(out) \in Nat /\ Len(out') = Len(out) + 1
         /\ Head(buffer) = Len(out) + 1 /\ Len(out) + 1 \in Frames
<1>1. buffer # <<>> /\ out' = Append(out, [frame |-> Head(buffer), fate |-> how])
  BY DEF FB!Receive
<1>2. out \in Seq([frame : Nat, fate : FB!Fates])
  BY DEF BufferInv, FB!TypeOK
<1>3. Len(out') = Len(out) + 1
  BY <1>1, <1>2
<1> QED
  BY <1>1, <1>3, OldestFrame, PoppedFrame

\* A step that moves no frame keeps all of them in their places.
LEMMA PlaceKept ==
  ASSUME PlaceInv, totalFrames' <= MaxJobs, UNCHANGED <<out, fate, released>>,
         \/ UNCHANGED dispatcherVars
         \/ {dispatcher, dispatcher'} \subseteq {"pop", "exited"}
  PROVE  PlaceInv'
<1>1. WithDispatcher' = WithDispatcher
  BY DEF WithDispatcher, dispatcherVars
<1>2. \A f \in Frames : Gone(f)' <=> Gone(f)
  BY <1>1 DEF Gone
<1> QED
  BY <1>1, <1>2 DEF PlaceInv, dispatcherVars

\* The frame that leaves the channel goes to the dispatcher, ...
LEMMA PopPlaces ==
  ASSUME BufferInv, PlaceInv, totalFrames' <= MaxJobs, DispatcherPops
  PROVE  PlaceInv'
<1> DEFINE n == Len(out)
<1>1. /\ n \in Nat /\ Len(out') = n + 1 /\ n + 1 \in Frames
      /\ dispatcher = "pop" /\ dispatcher' = "submit" /\ held' = n + 1
      /\ fate' = fate /\ released' = released
  BY ReceivedFrame
     DEF DispatcherPops, FB!PopBlockingFrame, poolVars, vars, frameVars
<1>2. WithDispatcher = {} /\ WithDispatcher' = {n + 1}
  BY <1>1 DEF WithDispatcher
<1>3. \A f \in Frames : /\ f \in Nat
                        /\ f > n => fate[f] = "new"
                        /\ released[f] = IF Gone(f) THEN 1 ELSE 0
  BY DEF PlaceInv, Frames, Jobs
<1> HIDE DEF n
<1>4. \A f \in Frames : Gone(f)' <=> Gone(f)
  BY <1>1, <1>2, <1>3 DEF Gone, n
<1>5. \A f \in Frames : f > n + 1 => fate[f] = "new"
  BY <1>1, <1>3
<1> QED
  BY <1>1, <1>3, <1>4, <1>5 DEF PlaceInv

\* ... or, dropped by Push, back to the pool of frame buffers.
LEMMA DropPlaces ==
  ASSUME BufferInv, PipelineTypeOK, PlaceInv, totalFrames' <= MaxJobs,
         FB!PushDropOldest, Release(Head(buffer)),
         UNCHANGED <<poolVars, dispatcherVars>>
  PROVE  PlaceInv'
<1> DEFINE n == Len(out)
<1>1. /\ n \in Nat /\ Len(out') = n + 1 /\ n + 1 \in Frames
      /\ released' = [released EXCEPT ![n + 1] = released[n + 1] + 1]
      /\ fate' = fate /\ dispatcher' = dispatcher /\ held' = held
      /\ released \in [Frames -> Nat]
  BY ReceivedFrame
     DEF FB!PushDropOldest, Release, poolVars, vars, dispatcherVars,
         PipelineTypeOK
<1>2. WithDispatcher' = WithDispatcher /\ n + 1 \notin WithDispatcher
  BY <1>1 DEF WithDispatcher, PlaceInv
<1>3. \A f \in Frames : /\ f \in Nat
                        /\ f > n => fate[f] = "new"
                        /\ released[f] = IF Gone(f) THEN 1 ELSE 0
  BY DEF PlaceInv, Frames, Jobs
<1> HIDE DEF n
<1>4. \A f \in Frames \ {n + 1} : Gone(f)' <=> Gone(f)
  BY <1>1, <1>2, <1>3 DEF Gone, n
<1>5. \A f \in Frames : f = n + 1 => Gone(f)' /\ ~Gone(f)
  BY <1>1, <1>2, <1>3 DEF Gone, n
<1>6. \A f \in Frames : released'[f] = IF Gone(f)' THEN 1 ELSE 0
  BY <1>1, <1>3, <1>4, <1>5
<1>7. \A f \in Frames : f > n + 1 => fate[f] = "new"
  BY <1>1, <1>3
<1>8. dispatcher \in {"submit", "process"} =>
        /\ held \in Frames /\ held <= n + 1
        /\ fate[held] = IF dispatcher = "submit" THEN "new" ELSE "refused"
        /\ \A f \in Frames : f > held => fate[f] = "new"
  BY <1>1, <1>3 DEF PlaceInv, n
<1> QED
  BY <1>1, <1>6, <1>7, <1>8 DEF PlaceInv

\* The dispatcher gives its frame to the pool or, refused, keeps it.
LEMMA SubmittedPlaces ==
  ASSUME PipelineTypeOK, PlaceInv, totalFrames' <= MaxJobs,
         DispatcherSubmits \/ DispatcherFallsBack
  PROVE  PlaceInv'
<1>1. /\ dispatcher = "submit" /\ out' = out /\ released' = released
      /\ \/ /\ fate' = [fate EXCEPT ![held] = "queued"] /\ dispatcher' = "pop"
         \/ /\ fate' = [fate EXCEPT ![held] = "refused"]
            /\ dispatcher' = "process" /\ held' = held
  BY DEF DispatcherSubmits, DispatcherFallsBack, SubmitAccepted,
         SubmitPoolClosed, SubmitBufferFull, Refuse, bufferVars, frameVars
<1>2. /\ fate \in [Frames -> Fates] /\ held \in Frames /\ held <= Len(out)
      /\ \A f \in Frames : /\ f \in Nat
                           /\ f > held => fate[f] = "new"
                           /\ f > Len(out) => fate[f] = "new"
                           /\ released[f] = IF Gone(f) THEN 1 ELSE 0
  BY <1>1 DEF PlaceInv, PipelineTypeOK, TypeOK, Frames, Jobs
<1>3. \A f \in Frames : Gone(f)' <=> Gone(f)
  BY <1>1, <1>2 DEF Gone, WithDispatcher
<1>4. \A f \in Frames : f > held \/ f > Len(out) => fate'[f] = "new"
  BY <1>1, <1>2
<1>5. dispatcher' \in {"submit", "process"} =>
        held' = held /\ dispatcher' = "process" /\ fate'[held] = "refused"
  BY <1>1, <1>2
<1> QED
  BY <1>1, <1>2, <1>3, <1>4, <1>5 DEF PlaceInv

\* When the dispatcher has processed a frame itself, the frame is gone.
LEMMA ReturnedPlaces ==
  ASSUME PipelineTypeOK, PlaceInv, totalFrames' <= MaxJobs, DispatcherReturns
  PROVE  PlaceInv'
<1>1. /\ dispatcher = "process" /\ dispatcher' = "pop"
      /\ out' = out /\ fate' = fate
      /\ released' = [released EXCEPT ![held] = released[held] + 1]
  BY DEF DispatcherReturns, Return, Release, bufferVars, poolVars, vars
<1>2. /\ released \in [Frames -> Nat] /\ held \in Frames
      /\ held <= Len(out) /\ fate[held] = "refused"
      /\ \A f \in Frames : /\ f > Len(out) => fate[f] = "new"
                           /\ released[f] = IF Gone(f) THEN 1 ELSE 0
  BY <1>1 DEF PlaceInv, PipelineTypeOK
<1>3. \A f \in Frames : /\ f # held => (Gone(f)' <=> Gone(f))
                        /\ f = held => Gone(f)' /\ ~Gone(f)
  BY <1>1, <1>2 DEF Gone, WithDispatcher
<1>4. \A f \in Frames : released'[f] = IF Gone(f)' THEN 1 ELSE 0
  BY <1>1, <1>2, <1>3
<1> QED
  BY <1>1, <1>2, <1>4 DEF PlaceInv

\* A worker takes a frame from the queue of the pool, or has processed it, and
\* then the frame is gone.
LEMMA WorkerPlaces ==
  ASSUME PipelineTypeOK, PlaceInv, totalFrames' <= MaxJobs,
         NEW x \in Frames, fate[x] \in {"queued", "started"},
         NEW to, fate' = [fate EXCEPT ![x] = to],
         UNCHANGED <<out, dispatcherVars>>,
         \/ to = "started" /\ UNCHANGED released
         \/ to \in {"failed", "succeeded"} /\ Release(x)
  PROVE  PlaceInv'
<1>1. /\ released \in [Frames -> Nat] /\ fate \in [Frames -> Fates]
      /\ dispatcher' = dispatcher /\ held' = held
      /\ \A f \in Frames : /\ f > Len(out) => fate[f] = "new"
                           /\ released[f] = IF Gone(f) THEN 1 ELSE 0
  BY DEF PlaceInv, PipelineTypeOK, TypeOK, Frames, dispatcherVars
<1>2. \A f \in Frames \ {x} : fate'[f] = fate[f]
  BY <1>1
<1>3. fate'[x] = to /\ ~(x > Len(out)) /\ x \notin WithDispatcher
  <2>1. dispatcher \in {"submit", "process"} => fate[held] \in {"new", "refused"}
    BY DEF PlaceInv
  <2>2. x \notin WithDispatcher
    BY <2>1 DEF WithDispatcher
  <2> QED
    BY <1>1, <2>2
<1>4. Len(out) \in Nat /\ \A f \in Frames : f \in Nat
  <2>1. out \in Seq([frame : Nat, fate : FB!Fates])
    BY DEF PipelineTypeOK, FB!TypeOK
  <2>2. Len(out) \in Nat
    BY ONLY <2>1, LenProperties
  <2> QED
    BY ONLY <2>2, MaxJobsAssumption DEF Frames, Jobs, MaxJobsAssumption
<1>5. WithDispatcher' = WithDispatcher /\ Len(out)' = Len(out)
  BY <1>1 DEF WithDispatcher
<1>6. \A f \in Frames \ {x} : Gone(f)' <=> Gone(f)
  BY <1>2, <1>5 DEF Gone
<1>7. ~Gone(x) /\ (Gone(x)' <=> to # "started")
  BY <1>3, <1>4, <1>5 DEF Gone
<1>8. \A f \in Frames : released'[f] = IF Gone(f)' THEN 1 ELSE 0
  <2>1. CASE to = "started"
    BY <1>1, <1>6, <1>7, <2>1 DEF Release
  <2>2. CASE to # "started"
    <3>1. released' = [released EXCEPT ![x] = released[x] + 1]
      BY <2>2 DEF Release
    <3> QED
      BY <1>1, <1>6, <1>7, <2>2, <3>1
  <2> QED
    BY <2>1, <2>2
<1>9. \A f \in Frames : f > Len(out) => fate'[f] = "new"
  BY <1>1, <1>2, <1>3
<1>10. dispatcher \in {"submit", "process"} =>
         /\ held \in Frames /\ held <= Len(out)
         /\ fate'[held] = IF dispatcher = "submit" THEN "new" ELSE "refused"
         /\ \A f \in Frames : f > held => fate'[f] = "new"
  BY <1>2, <1>3 DEF PlaceInv, WithDispatcher
<1> QED
  BY <1>1, <1>5, <1>8, <1>9, <1>10 DEF PlaceInv

\* A worker holds a frame between the receive and the end of Process.
LEMMA WorkersFrame ==
  ASSUME TypeOK, JobsInOnePlace, NEW w \in Workers,
         worker[w] \in {"taken", "processing"}
  PROVE  job[w] \in Frames /\ fate[job[w]] = "started"
BY DEF TypeOK, JobsInOnePlace, Busy, Frames

\* Every step of the pipeline moves a frame from one place to the next.
LEMMA PlaceStep ==
  ASSUME PipelineInv, BufferInv, [PipelineNext]_pipelineVars
  PROVE  PlaceInv'
<1>0. PipelineTypeOK /\ TypeOK /\ JobsInOnePlace /\ PlaceInv
  BY DEF PipelineInv, PipelineTypeOK
<1>1. totalFrames' <= MaxJobs
  BY <1>0, BufferStep, TotalBounded DEF PlaceInv
<1>2. CASE Capture
  <2>1. CASE FB!PushDropOldest /\ Release(Head(buffer)) /\ CaptureInPush
    <3>1. UNCHANGED <<poolVars, dispatcherVars>>
      BY <2>1 DEF CaptureInPush
    <3> QED
      BY <1>0, <1>1, <2>1, <3>1, DropPlaces
  <2>2. CASE UNCHANGED <<out, fate, released, dispatcherVars>>
    BY <1>0, <1>1, <2>2, PlaceKept
  <2> QED
    BY <1>2, <2>1, <2>2
       DEF Capture, CapturePushes, CaptureInPush, CaptureExits, FB!PushBegin,
           FB!PushTrySend, FB!PushFindsFull, FB!PushFindsDrained, FB!PushSend,
           FB!PushCount, poolVars, vars, bufferVars, frameVars
<1>3. CASE Dispatcher
  <2>1. CASE DispatcherPops
    BY <1>0, <1>1, <2>1, PopPlaces
  <2>2. CASE DispatcherSubmits \/ DispatcherFallsBack
    BY <1>0, <1>1, <2>2, SubmittedPlaces
  <2>3. CASE DispatcherReturns
    BY <1>0, <1>1, <2>3, ReturnedPlaces
  <2>4. CASE DispatcherExits \/ DispatcherPanics
    <3>1. UNCHANGED <<out, fate, released>>
      BY <2>4 DEF DispatcherExits, DispatcherPanics, FB!PopBlockingEnds,
                  poolVars, vars, bufferVars, frameVars
    <3>2. \/ UNCHANGED dispatcherVars
          \/ {dispatcher, dispatcher'} \subseteq {"pop", "exited"}
      BY <2>4 DEF DispatcherExits, DispatcherPanics
    <3> QED
      BY <1>0, <1>1, <3>1, <3>2, PlaceKept
  <2> QED
    BY <1>3, <2>1, <2>2, <2>3, <2>4 DEF Dispatcher
<1>4. ASSUME NEW f \in Frames, Process(f) PROVE PlaceInv'
  <2>1. UNCHANGED <<out, fate, released, dispatcherVars>>
    BY <1>4 DEF Process, Publish, SaveFrame, PublishMetadata, Advance,
                poolVars, vars, bufferVars
  <2> QED
    BY <1>0, <1>1, <2>1, PlaceKept
<1>5. ASSUME NEW w \in Workers, Worker(w) PROVE PlaceInv'
  <2>1. UNCHANGED <<out, dispatcherVars>>
    BY <1>5 DEF Worker, WorkerBegins, WorkerReturns, WorkerLoops, bufferVars
  <2>2. CASE WorkerLoops(w) /\ WorkerReceives(w)
    <3>1. /\ Head(jobs) \in Frames /\ fate[Head(jobs)] = "queued"
          /\ fate' = [fate EXCEPT ![Head(jobs)] = "started"]
          /\ released' = released
      <4>1. jobs \in Seq(Jobs) /\ jobs # <<>>
        BY <1>0, <2>2 DEF TypeOK, WorkerReceives
      <4>2. Head(jobs) = jobs[1] /\ 1 \in 1 .. Len(jobs) /\ jobs[1] \in Jobs
        BY <4>1
      <4> QED
        BY <1>0, <2>2, <4>2 DEF WorkerLoops, WorkerReceives, JobsInOnePlace,
                                Frames, frameVars
    <3>2. PICK x \in Frames : x = Head(jobs)
      BY <3>1
    <3> QED
      BY <1>0, <1>1, <2>1, <3>1, <3>2, WorkerPlaces
  <2>3. CASE WorkerReturns(w)
    <3>1. PICK x \in Frames : x = job[w] /\ fate[x] = "started"
      BY <1>0, <2>3, WorkersFrame DEF WorkerReturns
    <3>2. PICK to \in {"failed", "succeeded"} : fate' = [fate EXCEPT ![x] = to]
      BY <2>3, <3>1 DEF WorkerReturns, WorkerFinishes
    <3>3. Release(x)
      BY <2>3, <3>1 DEF WorkerReturns, Return
    <3> QED
      BY <1>0, <1>1, <2>1, <3>1, <3>2, <3>3, WorkerPlaces
  <2>4. CASE UNCHANGED <<fate, released>>
    BY <1>0, <1>1, <2>1, <2>4, PlaceKept
  <2> QED
    BY <1>5, <2>2, <2>3, <2>4
       DEF Worker, WorkerBegins, WorkerLoops, WorkerStarts, WorkerExits,
           WorkerCounts, WorkerCountsError, WorkerReports, WorkerExitsAtReport,
           frameVars
<1>6. CASE Collector \/ Main \/ UNCHANGED pipelineVars
  <2>1. UNCHANGED <<out, fate, released, dispatcherVars>>
    <3>1. CASE Collector
      BY <3>1 DEF Collector, CollectResult, CollectorExits, bufferVars, frameVars
    <3>2. CASE Main
      BY <3>2 DEF Main, MainCancels, MainClosesPublisher, MainClosesPool,
                  MainExits, FB!Cancel, ParentCancels, Close, CloseFindsIdle,
                  CloseTimesOut, poolVars, vars, bufferVars, frameVars
    <3>3. CASE UNCHANGED pipelineVars
      BY <3>3 DEF pipelineVars, poolVars, vars, bufferVars, frameVars
    <3> QED
      BY <1>6, <3>1, <3>2, <3>3
  <2> QED
    BY <1>0, <1>1, <2>1, PlaceKept
<1> QED
  BY <1>2, <1>3, <1>4, <1>5, <1>6 DEF PipelineNext
-----------------------------------------------------------------------------
\* The types, the counter and the place of every frame and job are one
\* invariant: the pool keeps its jobs apart because the dispatcher submits
\* each frame once, which it does because every frame has one place.
THEOREM PipelineCorrect == PipelineSpec => []PipelineInv
<1>1. PipelineInit /\ BufferInv => PipelineInv
  <2> SUFFICES ASSUME PipelineInit, BufferInv PROVE PipelineInv
    OBVIOUS
  <2>1. CounterInv /\ JobsInOnePlace
    BY CounterInit, PlacesInit DEF PipelineInit
  <2>2. PipelineTypeOK
    <3>1. stage \in [Frames -> Stages] /\ released \in [Frames -> Nat]
      BY DEF PipelineInit, Stages
    <3> QED
      BY <2>1, <3>1 DEF PipelineInit, PipelineTypeOK, BufferInv, CounterInv
  <2>3. PlaceInv
    <3>1. /\ totalFrames = 0 /\ dispatcher = "pop" /\ Len(out) = 0
          /\ \A f \in Frames : f \in Nat /\ f > 0
          /\ \A f \in Frames : fate[f] = "new" /\ released[f] = 0
      BY DEF PipelineInit, FB!Init, Init, Frames, Jobs
    <3> QED
      BY <3>1 DEF PlaceInv, Gone
  <2> QED
    BY <2>1, <2>2, <2>3 DEF PipelineInv, CounterInv
<1>2. PipelineInv /\ BufferInv /\ BufferInv' /\ [PipelineNext]_pipelineVars
        => PipelineInv'
  <2> SUFFICES ASSUME PipelineInv, BufferInv, BufferInv',
                      [PipelineNext]_pipelineVars
               PROVE  PipelineInv'
    OBVIOUS
  <2>1. CounterInv /\ JobsInOnePlace /\ PlaceInv /\ PipelineTypeOK
    BY DEF PipelineInv, PipelineTypeOK, CounterInv
  <2>2. [Next]_vars
    BY <2>1, PoolStep
  <2>3. CounterInv' /\ JobsInOnePlace'
    BY <2>1, <2>2, CounterStep, PlacesStep DEF CounterInv
  <2>4. PipelineTypeOK'
    BY <2>1, <2>3, OwnTypesStep DEF CounterInv
  <2> QED
    BY <2>3, <2>4, PlaceStep DEF PipelineInv, CounterInv
<1> QED
  BY <1>1, <1>2, BufferKept, PTL DEF PipelineSpec

\* Every variable of the pipeline keeps its type.
THEOREM PipelineTypeCorrect == PipelineSpec => []PipelineTypeOK
  BY PipelineCorrect, PTL DEF PipelineInv

\* The dispatcher and main use the worker pool as its specification says, so
\* that the pool keeps in the pipeline what is proved of it alone.
THEOREM PipelineIsAPool == PipelineSpec => ImplementsPool
<1>1. PipelineInit => Init
  BY DEF PipelineInit
<1>2. PipelineInv /\ [PipelineNext]_pipelineVars => [Next]_vars
  BY PoolStep DEF PipelineInv
<1> QED
  BY <1>1, <1>2, PipelineCorrect, PTL DEF PipelineSpec, ImplementsPool, Spec

\* A frame that is buffered or in the hand of Push has not left the buffer, and
\* those in the pool are accepted and not processed.
LEMMA PlacesInUse ==
  ASSUME PipelineInv, BufferInv, NEW f \in Frames
  PROVE  /\ f \in InBuffer \cup InPush => f > Len(out)
         /\ f \in InQueue => fate[f] = "queued"
         /\ f \in WithWorker => fate[f] = "started"
<1>1. /\ buffer \in Seq(Nat) /\ Len(buffer) \in Nat /\ Len(out) \in Nat
      /\ totalFrames = Len(out) + Len(buffer) + FB!InHand
      /\ \A i \in 1 .. Len(buffer) : buffer[i] = Len(out) + i
  BY DEF BufferInv, FB!TypeOK, FB!FramesConserved
<1>2. f \in InBuffer => f > Len(out)
  BY <1>1 DEF InBuffer
<1>3. f \in InPush => f > Len(out)
  BY <1>1 DEF InPush, FB!InHand
<1>4. f \in InQueue => fate[f] = "queued"
  BY DEF InQueue, PipelineInv, JobsInOnePlace
<1>5. f \in WithWorker => fate[f] = "started"
  BY DEF WithWorker, PipelineInv, JobsInOnePlace
<1> QED
  BY <1>2, <1>3, <1>4, <1>5

\* The memory of a frame goes back once, and not before its last use.
THEOREM ReleasedOnce == PipelineSpec => []ReleasedOnceAndUnused
<1>1. PipelineInv /\ BufferInv => ReleasedOnceAndUnused
  <2> SUFFICES ASSUME PipelineInv, BufferInv, NEW f \in Frames
               PROVE  released[f] <= 1 /\ (released[f] = 1 => f \notin InUse)
    BY DEF ReleasedOnceAndUnused
  <2>1. released[f] = IF Gone(f) THEN 1 ELSE 0
    BY DEF PipelineInv, PlaceInv
  <2>2. f \in Nat /\ Len(out) \in Nat
    BY DEF Frames, Jobs, BufferInv, FB!TypeOK
  <2>3. Gone(f) => f \notin InUse
    BY <2>2, PlacesInUse DEF Gone, InUse
  <2> QED
    BY <2>1, <2>3
<1> QED
  BY <1>1, PipelineCorrect, BufferKept, PTL

\* No error path of Submit or Process, and no drop, forgets a frame.
THEOREM NothingForgotten == PipelineSpec => []NoFrameForgotten
<1>1. PipelineInv /\ BufferInv => NoFrameForgotten
  <2> SUFFICES ASSUME PipelineInv, BufferInv, NEW f \in 1 .. totalFrames
               PROVE  f \in InUse \/ released[f] = 1
    BY DEF NoFrameForgotten
  <2>1. /\ buffer \in Seq(Nat) /\ Len(buffer) \in Nat /\ Len(out) \in Nat
        /\ totalFrames \in Nat /\ f \in Nat /\ f <= totalFrames
        /\ totalFrames = Len(out) + Len(buffer) + FB!InHand
        /\ \A i \in 1 .. Len(buffer) : buffer[i] = Len(out) + i
    BY DEF BufferInv, FB!TypeOK, FB!FramesConserved
  <2>2. f \in Frames
    BY <2>1 DEF PipelineInv, PlaceInv, Frames, Jobs
  <2>3. released[f] = IF Gone(f) THEN 1 ELSE 0
    BY <2>2 DEF PipelineInv, PlaceInv
  <2>4. CASE f <= Len(out)
    <3>1. CASE fate[f] = "queued"
      BY <2>2, <3>1 DEF PipelineInv, JobsInOnePlace, Frames, InQueue, InUse
    <3>2. CASE fate[f] = "started"
      BY <2>2, <3>2 DEF PipelineInv, JobsInOnePlace, Frames, WithWorker, InUse
    <3> QED
      BY <2>3, <2>4, <3>1, <3>2 DEF Gone, InUse
  <2>5. CASE f > Len(out) /\ f <= Len(out) + Len(buffer)
    <3>1. f - Len(out) \in 1 .. Len(buffer) /\ buffer[f - Len(out)] = f
      BY <2>1, <2>5
    <3> QED
      BY <3>1 DEF InBuffer, InUse
  <2>6. CASE f > Len(out) + Len(buffer)
    <3>1. FB!InHand = 1 /\ f = totalFrames
      BY <2>1, <2>6 DEF FB!InHand
    <3> QED
      BY <3>1 DEF FB!InHand, InPush, InUse
  <2> QED
    BY <2>1, <2>4, <2>5, <2>6
<1> QED
  BY <1>1, PipelineCorrect, BufferKept, PTL
=============================================================================
