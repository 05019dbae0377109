--------------------------- MODULE ToolResilience ---------------------------
(***************************************************************************)
(* ResilientToolRunner and the CircuitBreaker it consults: concurrent      *)
(* calls of run() on one runner, each with bounded retries and exponential *)
(* backoff, share the breaker. A call is interrupted only at its awaits:   *)
(* the operation and the sleep before a retry. The breaker's methods do    *)
(* not await, so each of them is atomic.                                   *)
(*                                                                         *)
(* Only differences of monotonic() matter. Time is kept as the seconds     *)
(* since the circuit opened, which stop counting at RecoverySeconds, and   *)
(* the seconds each call still has to sleep.                               *)
(***************************************************************************)
EXTENDS Integers, Sequences, FiniteSets

CONSTANTS
  Calls,             \* calls of run() on one runner
  MaxAttempts,       \* RetryPolicy.max_attempts
  InitialDelay,      \* RetryPolicy.initial_delay_seconds
  Multiplier,        \* RetryPolicy.backoff_multiplier
  FailureThreshold,  \* CircuitBreaker.failure_threshold
  RecoverySeconds    \* CircuitBreaker.recovery_seconds

ASSUME ResilienceAssumption ==
  /\ MaxAttempts \in Nat \ {0}
  /\ InitialDelay \in Nat
  /\ Multiplier \in Nat \ {0}
  /\ FailureThreshold \in Nat \ {0}
  /\ RecoverySeconds \in Nat \ {0}

VARIABLES
  failures,   \* CircuitBreaker._failures
  openFor,    \* seconds since _opened_at, NotOpened if that is None
  call,       \* the state of each call of run()
  outcomes,   \* history: the attempts that have ended, in order
  quietFor    \* history: seconds since the last of them

breakerVars == <<failures, openFor>>
historyVars == <<outcomes, quietFor>>
vars == <<breakerVars, call, historyVars>>

NotOpened == -1
CallPc == {"idle", "calling", "sleeping", "returned", "raised", "refused", "cancelled"}
Ended == {"returned", "raised", "refused", "cancelled"}

\* attempt counts from 0 as in the code; delay is the next sleep.
Call == [pc : CallPc, attempt : 0..(MaxAttempts - 1), delay : Nat, sleep : Nat]
Outcome == [call : Calls, ok : BOOLEAN]

TypeOK ==
  /\ failures \in Nat
  /\ openFor \in {NotOpened} \cup (0..RecoverySeconds)
  /\ call \in [Calls -> Call]
  /\ outcomes \in Seq(Outcome)
  /\ quietFor \in 0..RecoverySeconds

Init ==
  /\ failures = 0
  /\ openFor = NotOpened
  /\ call = [c \in Calls |-> [pc |-> "idle", attempt |-> 0,
                              delay |-> InitialDelay, sleep |-> 0]]
  /\ outcomes = <<>>
  /\ quietFor = 0

-----------------------------------------------------------------------------
At(c, pc) == call[c].pc = pc
End(c, pc) == call' = [call EXCEPT ![c].pc = pc]

\* is_open, which forgets the failures when the cooldown is over.
Recovered == openFor = RecoverySeconds
IsOpen == openFor # NotOpened /\ ~Recovered
Forget == failures' = 0 /\ openFor' = NotOpened

Refuse(c) ==
  /\ At(c, "idle")
  /\ IsOpen
  /\ End(c, "refused")
  /\ UNCHANGED <<breakerVars, historyVars>>

Begin(c) ==
  /\ At(c, "idle")
  /\ ~IsOpen
  /\ IF Recovered THEN Forget ELSE UNCHANGED breakerVars
  /\ End(c, "calling")
  /\ UNCHANGED historyVars

Record(c, ok) ==
  /\ outcomes' = Append(outcomes, [call |-> c, ok |-> ok])
  /\ quietFor' = 0

\* Mutant of Succeed: the failures are not forgotten.
SucceedSilently(c) ==
  /\ At(c, "calling")
  /\ End(c, "returned")
  /\ Record(c, TRUE)
  /\ UNCHANGED breakerVars

\* record_success. A call that began before the circuit opened closes it.
Succeed(c) ==
  /\ At(c, "calling")
  /\ Forget
  /\ End(c, "returned")
  /\ Record(c, TRUE)

\* Mutant of RecordFailure: the circuit opens one failure early.
RecordFailureEarly ==
  /\ failures' = failures + 1
  /\ openFor' = IF failures + 2 >= FailureThreshold THEN 0 ELSE openFor

\* record_failure. Every further failure restarts the cooldown.
RecordFailure ==
  /\ failures' = failures + 1
  /\ openFor' = IF failures + 1 >= FailureThreshold THEN 0 ELSE openFor

\* Mutants of LastAttempt: one attempt more, one less.
LastAttemptLate(c) == call[c].attempt = MaxAttempts
LastAttemptEarly(c) == call[c].attempt + 2 = MaxAttempts

LastAttempt(c) == call[c].attempt + 1 = MaxAttempts

\* The next attempt of call c, after the backoff if there is one.
Retry(k) ==
  [pc |-> IF k.delay > 0 THEN "sleeping" ELSE "calling",
   attempt |-> k.attempt + 1, delay |-> k.delay * Multiplier, sleep |-> k.delay]

Fail(c) ==
  /\ At(c, "calling")
  /\ RecordFailure
  /\ IF LastAttempt(c) THEN End(c, "raised")
                       ELSE call' = [call EXCEPT ![c] = Retry(@)]
  /\ Record(c, FALSE)

\* Mutant of Wake: a retry waits for _opened_at to be None.
WakeWhenClosed(c) ==
  /\ At(c, "sleeping")
  /\ call[c].sleep = 0
  /\ openFor = NotOpened
  /\ End(c, "calling")
  /\ UNCHANGED <<breakerVars, historyVars>>

\* The sleep is over. run() does not look at the circuit again.
Wake(c) ==
  /\ At(c, "sleeping")
  /\ call[c].sleep = 0
  /\ End(c, "calling")
  /\ UNCHANGED <<breakerVars, historyVars>>

\* The caller's task is cancelled: CancelledError is no Exception, so the
\* breaker does not learn of it.
Cancel(c) ==
  /\ call[c].pc \in {"calling", "sleeping"}
  /\ End(c, "cancelled")
  /\ UNCHANGED <<breakerVars, historyVars>>

\* A second passes.
Later(t) == IF t < RecoverySeconds THEN t + 1 ELSE t
Tick ==
  /\ openFor' = IF openFor = NotOpened THEN NotOpened ELSE Later(openFor)
  /\ call' = [c \in Calls |-> [call[c] EXCEPT !.sleep = IF @ > 0 THEN @ - 1 ELSE 0]]
  /\ quietFor' = Later(quietFor)
  /\ UNCHANGED <<failures, outcomes>>

Step(c) == Begin(c) \/ Refuse(c) \/ Succeed(c) \/ Fail(c) \/ Wake(c) \/ Cancel(c)

Next == Tick \/ \E c \in Calls : Step(c)

Spec == Init /\ [][Next]_vars

(***************************************************************************)
(* Operations answer or raise (run() itself sets them no timeout), time    *)
(* passes, and the event loop resumes a sleeper.                           *)
(***************************************************************************)
Fairness ==
  /\ WF_vars(Tick)
  /\ \A c \in Calls : WF_vars(Succeed(c) \/ Fail(c)) /\ WF_vars(Wake(c))

FairSpec == Spec /\ Fairness

-----------------------------------------------------------------------------
\* The last n attempts, of whichever calls, all failed.
LastFailed(n) ==
  /\ n <= Len(outcomes)
  /\ \A i \in (Len(outcomes) - n + 1)..Len(outcomes) : ~outcomes[i].ok

(***************************************************************************)
(* CircuitBreaker: "Open a circuit after consecutive failures". However    *)
(* the attempts of several calls interleave, an open circuit means that at *)
(* least FailureThreshold attempts in a row failed, the latest of them     *)
(* when the cooldown began.                                                *)
(***************************************************************************)
OpenMeansFailing ==
  openFor # NotOpened => LastFailed(FailureThreshold) /\ openFor = quietFor

\* The inductive invariant behind it: failures counts the failed attempts
\* since the last success or recovery.
BreakerInv ==
  /\ LastFailed(failures)
  /\ openFor # NotOpened => failures >= FailureThreshold /\ openFor = quietFor

(***************************************************************************)
(* A call is refused only for recent failures: the last FailureThreshold   *)
(* attempts failed, the last of them less than RecoverySeconds ago. No     *)
(* other call's cancellation, success or refusal keeps the circuit open.   *)
(***************************************************************************)
RefusedForAReason ==
  [][\A c \in Calls :
       At(c, "idle") /\ At(c, "refused")'
         => LastFailed(FailureThreshold) /\ quietFor < RecoverySeconds]_vars

\* The attempts of call c that have ended, by their place in the history.
Attempts(c) == {i \in DOMAIN outcomes : outcomes[i].call = c}

(***************************************************************************)
(* How a call ends tells what it did: one that raises the operation's      *)
(* error used its whole retry budget in vain, one that returns did so on   *)
(* its first success, and one that is refused never tried.                 *)
(***************************************************************************)
EndIsJustified ==
  \A c \in Calls :
    /\ At(c, "raised") => /\ Cardinality(Attempts(c)) = MaxAttempts
                          /\ \A i \in Attempts(c) : ~outcomes[i].ok
    /\ At(c, "returned") => \E i \in Attempts(c) :
                              \A j \in Attempts(c) : outcomes[j].ok <=> i = j
    /\ At(c, "refused") => Attempts(c) = {}

(***************************************************************************)
(* Every call that has begun returns or raises: the retries are bounded    *)
(* and so is the backoff.                                                  *)
(***************************************************************************)
EveryCallEnds == \A c \in Calls : ~At(c, "idle") ~> call[c].pc \in Ended
=============================================================================
