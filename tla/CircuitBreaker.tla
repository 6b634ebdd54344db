--------------------------- MODULE CircuitBreaker ---------------------------
(***************************************************************************)
(* pkg/circuit/breaker.go: the breaker that guards the captures of one     *)
(* camera.  Each method runs under the breaker's mutex and is one action;  *)
(* a Call is Allow, then the guarded function, then RecordSuccess or       *)
(* RecordFailure, and the mutex is free in between, so that the calls of   *)
(* several goroutines may overlap.                                         *)
(*                                                                         *)
(* Time advances in ticks.  The breaker reads the clock only to compare    *)
(* the time since the last failure with the backoff, so that time is kept  *)
(* up to the largest backoff.  The counters are compared only with their   *)
(* thresholds and saturate there.                                          *)
(***************************************************************************)
EXTENDS Integers

CONSTANTS Callers,            \* the goroutines that use the breaker
          MaxFailures,        \* failures in a row that open it
          HalfOpenSuccesses,  \* successes in a row that close it
          ResetTimeout,       \* the configured reset timeout
          MinBackoff,         \* the least initial backoff (5 s)
          MaxBackoff,         \* the largest backoff (10 min)
          MaxOpens            \* bound: openings in a row that are told apart

ASSUME ThresholdsAssumption ==
  MaxFailures \in Nat \ {0} /\ HalfOpenSuccesses \in Nat \ {0}
ASSUME TimesAssumption ==
  ResetTimeout \in Nat /\ MinBackoff \in Nat \ {0} /\ MaxBackoff \in Nat \ {0}
ASSUME MaxOpensAssumption == MaxOpens \in Nat \ {0}

VARIABLES
  state, failures, successes, currentBackoff,   \* fields of Breaker
  sinceFail,       \* ticks since lastFailTime
  call,            \* whether each caller is inside the guarded function
  cameraUp,        \* whether the guarded function succeeds
  opens,           \* history: openings since the backoff was last reset
  trial,           \* history: successes recorded since the last failure
  streak           \* history: failures recorded since the last success

vars == <<state, failures, successes, currentBackoff, sinceFail, call, cameraUp,
          opens, trial, streak>>

States == {"Closed", "Open", "HalfOpen"}

AtMost(n, bound) == IF n < bound THEN n ELSE bound
AtLeast(n, bound) == IF n > bound THEN n ELSE bound

\* NewBreaker
InitialBackoff == AtLeast(ResetTimeout \div 2, MinBackoff)

\* The openings that are told apart suffice to reach the largest backoff.
ASSUME BackoffBound == InitialBackoff * 2 ^ MaxOpens >= MaxBackoff

Init ==
  /\ state = "Closed" /\ failures = 0 /\ successes = 0
  /\ currentBackoff = InitialBackoff
  /\ sinceFail = 0
  /\ call = [c \in Callers |-> "idle"]
  /\ cameraUp = TRUE
  /\ opens = 0 /\ trial = 0 /\ streak = 0
-----------------------------------------------------------------------------
(* Allow *)

Admit(c) == call[c] = "idle" /\ call' = [call EXCEPT ![c] = "running"]

AllowPasses(c) ==
  /\ Admit(c)
  /\ state \in {"Closed", "HalfOpen"}
  /\ UNCHANGED <<state, failures, successes, currentBackoff, sinceFail,
                 cameraUp, opens, trial, streak>>

\* Fault for AllowTries: the breaker stays open.
AllowTriesNothing(c) ==
  /\ state = "Open" /\ sinceFail > MaxBackoff + 1
  /\ Admit(c)
  /\ UNCHANGED <<state, failures, successes, currentBackoff, sinceFail,
                 cameraUp, opens, trial, streak>>

\* The backoff has passed since the last failure.
AllowTries(c) ==
  /\ state = "Open" /\ sinceFail > currentBackoff
  /\ Admit(c)
  /\ state' = "HalfOpen"
  /\ UNCHANGED <<failures, successes, currentBackoff, sinceFail, cameraUp,
                 opens, trial, streak>>

AllowRefuses(c) ==
  /\ state = "Open" /\ sinceFail <= currentBackoff
  /\ call[c] = "idle"
  /\ UNCHANGED vars

Allow(c) == AllowPasses(c) \/ AllowTries(c) \/ AllowRefuses(c)
-----------------------------------------------------------------------------
(* RecordSuccess and RecordFailure *)

Finish(c) == call[c] = "running" /\ call' = [call EXCEPT ![c] = "idle"]

\* Fault for SuccessClosed: earlier failures are kept.
SuccessKeepsFailures(c) ==
  /\ state = "Closed"
  /\ currentBackoff' = InitialBackoff /\ opens' = 0
  /\ UNCHANGED <<state, failures>>

SuccessClosed(c) ==
  /\ state = "Closed"
  /\ failures' = 0
  /\ currentBackoff' = InitialBackoff /\ opens' = 0
  /\ UNCHANGED state

\* Enough successes while half-open close the breaker.
SuccessCloses(c) ==
  /\ state = "HalfOpen" /\ successes + 1 >= HalfOpenSuccesses
  /\ state' = "Closed" /\ failures' = 0
  /\ currentBackoff' = InitialBackoff /\ opens' = 0

SuccessCounted(c) ==
  /\ \/ state = "Open"
     \/ (state = "HalfOpen" /\ successes + 1 < HalfOpenSuccesses)
  /\ UNCHANGED <<state, failures, currentBackoff, opens>>

\* RecordSuccess counts the success whatever the state is.
RecordSuccess(c) ==
  /\ Finish(c) /\ cameraUp
  /\ \/ SuccessClosed(c) \/ SuccessCloses(c) \/ SuccessCounted(c)
  /\ successes' = IF state = "HalfOpen" /\ successes + 1 >= HalfOpenSuccesses
                  THEN 0 ELSE AtMost(successes + 1, HalfOpenSuccesses)
  /\ trial' = AtMost(trial + 1, HalfOpenSuccesses)
  /\ streak' = 0
  /\ UNCHANGED <<sinceFail, cameraUp>>

\* Fault for NextBackoff: the cap is forgotten.
NextBackoffUncapped == 2 * currentBackoff
NextBackoff == AtMost(2 * currentBackoff, MaxBackoff)

\* The backoff is doubled before the first wait.
Opens ==
  /\ state' = "Open"
  /\ currentBackoff' = NextBackoff
  /\ opens' = AtMost(opens + 1, MaxOpens)

\* Fault for RecordFailure: the successes of an earlier trial are kept.
RecordFailureKeepingSuccesses(c) ==
  /\ Finish(c) /\ ~cameraUp
  /\ failures' = AtMost(failures + 1, MaxFailures)
  /\ streak' = AtMost(streak + 1, MaxFailures)
  /\ sinceFail' = 0 /\ trial' = 0
  /\ IF state = "HalfOpen" \/ (state = "Closed" /\ failures' >= MaxFailures)
     THEN Opens
     ELSE UNCHANGED <<state, currentBackoff, opens>>
  /\ UNCHANGED <<successes, cameraUp>>

RecordFailure(c) ==
  /\ Finish(c) /\ ~cameraUp
  /\ failures' = AtMost(failures + 1, MaxFailures)
  /\ streak' = AtMost(streak + 1, MaxFailures)
  /\ sinceFail' = 0 /\ successes' = 0 /\ trial' = 0
  /\ IF state = "HalfOpen" \/ (state = "Closed" /\ failures' >= MaxFailures)
     THEN Opens
     ELSE UNCHANGED <<state, currentBackoff, opens>>
  /\ UNCHANGED cameraUp
-----------------------------------------------------------------------------
(* Reset, the clock and the camera *)

\* Reset closes the breaker and leaves the backoff as it is.
Reset ==
  /\ state' = "Closed" /\ failures' = 0 /\ successes' = 0
  /\ UNCHANGED <<currentBackoff, sinceFail, call, cameraUp, opens, trial,
                 streak>>

Tick ==
  /\ sinceFail <= MaxBackoff
  /\ sinceFail' = sinceFail + 1
  /\ UNCHANGED <<state, failures, successes, currentBackoff, call, cameraUp,
                 opens, trial, streak>>

CameraChanges ==
  /\ cameraUp' = ~cameraUp
  /\ UNCHANGED <<state, failures, successes, currentBackoff, sinceFail, call,
                 opens, trial, streak>>

Record(c) == RecordSuccess(c) \/ RecordFailure(c)
Call(c) == Allow(c) \/ Record(c)

Next == \/ \E c \in Callers : Call(c)
        \/ Reset \/ Tick \/ CameraChanges

Spec == Init /\ [][Next]_vars
-----------------------------------------------------------------------------
(* Properties *)

TypeOK ==
  /\ state \in States
  /\ failures \in 0 .. MaxFailures /\ successes \in 0 .. HalfOpenSuccesses
  /\ currentBackoff \in Nat \ {0}
  /\ sinceFail \in 0 .. MaxBackoff + 1
  /\ call \in [Callers -> {"idle", "running"}]
  /\ cameraUp \in BOOLEAN
  /\ opens \in 0 .. MaxOpens
  /\ trial \in 0 .. HalfOpenSuccesses
  /\ streak \in 0 .. MaxFailures

\* The wait doubles each time the breaker opens without having seen a success
\* while closed, up to ten minutes; it is not doubled by failures that other
\* callers report late, nor forgotten by a trial that fails (breaker.go:120,
\* 128, 146, 155).
BackoffFollowsOpenings ==
  currentBackoff = IF opens = 0 THEN InitialBackoff
                   ELSE AtMost(InitialBackoff * 2 ^ opens, MaxBackoff)

\* A closed breaker opens only when the last MaxFailures results recorded were
\* failures, however the calls that report them overlap, and whatever was
\* counted while it was open or half-open (breaker.go:118, 143).
OpensOnFailuresInARow ==
  [][state = "Closed" /\ state' = "Open" => streak' = MaxFailures]_vars

\* Unless it is reset, a half-open breaker closes only when the last
\* HalfOpenSuccesses results recorded were successes: neither those of an
\* earlier trial count, nor a success that another caller reports before a
\* failure (breaker.go:114, 123, 139).
ClosesAfterTrial ==
  [][state = "HalfOpen" /\ state' = "Closed" /\ ~Reset
       => trial' = HalfOpenSuccesses]_vars
=============================================================================
