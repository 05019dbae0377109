------------------------ MODULE ToolResilienceProofs ------------------------
(***************************************************************************)
(* Proofs about the circuit breaker: whatever the number of calls, their   *)
(* retry policy and the breaker's limits.                                  *)
(***************************************************************************)
EXTENDS ToolResilience, FiniteSetTheorems, TLAPS

\* A call that begins, sleeps, retries or ends keeps its type.
LEMMA CallType ==
  ASSUME TypeOK, NEW c \in Calls, Step(c)
  PROVE  call' \in [Calls -> Call]
<1> USE ResilienceAssumption DEF TypeOK
<1>1. ASSUME NEW pc \in CallPc, End(c, pc) PROVE call' \in [Calls -> Call]
  BY <1>1 DEF End, Call
<1>2. CASE Fail(c) /\ ~LastAttempt(c)
  <2>1. call[c] \in Call
    OBVIOUS
  <2>2. Retry(call[c]) \in Call
    <3>1. call[c].attempt + 1 \in 0..(MaxAttempts - 1)
      BY <1>2, <2>1 DEF Call, LastAttempt
    <3>2. call[c].delay * Multiplier \in Nat
      BY <2>1 DEF Call
    <3> QED BY <2>1, <3>1, <3>2 DEF Call, Retry, CallPc
  <2>3. call' = [call EXCEPT ![c] = Retry(call[c])]
    BY <1>2 DEF Fail
  <2> QED BY <2>2, <2>3
<1>3. CASE Fail(c) /\ LastAttempt(c)
  BY <1>1, <1>3 DEF Fail, CallPc
<1> QED BY <1>1, <1>2, <1>3 DEF Step, Begin, Refuse, Succeed, Wake, Cancel, CallPc

LEMMA TypeStep == TypeOK /\ [Next]_vars => TypeOK'
<1> SUFFICES ASSUME TypeOK, [Next]_vars PROVE TypeOK'
  OBVIOUS
<1> USE ResilienceAssumption
<1>1. CASE Tick
  <2>1. call' \in [Calls -> Call]
    <3>1. ASSUME NEW c \in Calls
          PROVE  [call[c] EXCEPT !.sleep = IF @ > 0 THEN @ - 1 ELSE 0] \in Call
      <4>1. PICK k \in Call : k = call[c]
        BY DEF TypeOK
      <4>2. (IF k.sleep > 0 THEN k.sleep - 1 ELSE 0) \in Nat
        BY DEF Call
      <4>3. PICK s \in Nat : s = IF k.sleep > 0 THEN k.sleep - 1 ELSE 0
        BY <4>2
      <4>4. [k EXCEPT !.sleep = s] \in Call
        BY <4>3 DEF Call
      <4> QED BY <4>1, <4>3, <4>4
    <3> QED BY <1>1, <3>1 DEF Tick
  <2>2. openFor' \in {NotOpened} \cup (0..RecoverySeconds) /\ quietFor' \in 0..RecoverySeconds
    BY <1>1 DEF Tick, Later, TypeOK, NotOpened
  <2> QED BY <1>1, <2>1, <2>2 DEF Tick, TypeOK
<1>2. ASSUME NEW c \in Calls, Step(c) PROVE TypeOK'
  <2>1. call' \in [Calls -> Call]
    BY <1>2, CallType
  <2>2. failures' \in Nat /\ openFor' \in {NotOpened} \cup (0..RecoverySeconds)
    <3>1. Forget \/ RecordFailure \/ UNCHANGED breakerVars
      BY <1>2 DEF Step, Begin, Refuse, Succeed, Fail, Wake, Cancel
    <3> QED BY <3>1 DEF TypeOK, breakerVars, Forget, RecordFailure
  <2>3. outcomes' \in Seq(Outcome) /\ quietFor' \in 0..RecoverySeconds
    <3>1. ASSUME NEW ok \in BOOLEAN, Record(c, ok)
          PROVE  outcomes' \in Seq(Outcome) /\ quietFor' \in 0..RecoverySeconds
      BY <3>1 DEF Record, TypeOK, Outcome
    <3> QED BY <1>2, <3>1 DEF TypeOK, Step, Begin, Refuse, Succeed, Fail, Wake, Cancel, historyVars
  <2> QED BY <2>1, <2>2, <2>3 DEF TypeOK
<1>3. CASE UNCHANGED vars
  BY <1>3 DEF vars, breakerVars, historyVars, TypeOK
<1> QED BY <1>1, <1>2, <1>3 DEF Next

LEMMA TypeInit == Init => TypeOK
  BY ResilienceAssumption DEF Init, TypeOK, Call, CallPc, NotOpened

(***************************************************************************)
(* Every variable of the runner and its breaker keeps its type (TypeOK):   *)
(* in particular no call counts past its last attempt.                     *)
(***************************************************************************)
THEOREM TypeCorrect == Spec => []TypeOK
  BY TypeInit, TypeStep, PTL DEF Spec

-----------------------------------------------------------------------------
\* A failed attempt lengthens the row of failures by one.
LEMMA FailureLengthens ==
  ASSUME TypeOK, NEW c \in Calls, NEW n \in Nat, LastFailed(n), Record(c, FALSE)
  PROVE  LastFailed(n + 1)'
<1>1. outcomes \in Seq(Outcome)
  BY DEF TypeOK
<1> DEFINE o == [call |-> c, ok |-> FALSE]
<1>2. outcomes' = Append(outcomes, o)
  BY DEF Record
<1>3. Len(outcomes') = Len(outcomes) + 1 /\ outcomes'[Len(outcomes) + 1] = o
      /\ \A i \in 1..Len(outcomes) : outcomes'[i] = outcomes[i]
  BY <1>1, <1>2
<1> QED BY <1>1, <1>3 DEF LastFailed

LEMMA BreakerStep == TypeOK /\ BreakerInv /\ [Next]_vars => BreakerInv'
<1> SUFFICES ASSUME TypeOK, BreakerInv, [Next]_vars PROVE BreakerInv'
  OBVIOUS
<1>1. TypeOK'
  BY TypeStep
<1>2. CASE UNCHANGED <<breakerVars, historyVars>>
  BY <1>2 DEF BreakerInv, LastFailed, breakerVars, historyVars
<1>3. ASSUME Forget PROVE BreakerInv'
  BY <1>1, <1>3 DEF Forget, BreakerInv, LastFailed, TypeOK
<1>4. ASSUME NEW c \in Calls, Fail(c) PROVE BreakerInv'
  <2>1. failures' = failures + 1 /\ quietFor' = 0
        /\ openFor' = IF failures + 1 >= FailureThreshold THEN 0 ELSE openFor
    BY <1>4 DEF Fail, RecordFailure, Record
  <2>2. LastFailed(failures)'
    <3>1. PICK n \in Nat : n = failures
      BY DEF TypeOK
    <3>2. LastFailed(n + 1)'
      BY <1>4, <3>1, FailureLengthens DEF Fail, BreakerInv
    <3> QED BY <2>1, <3>1, <3>2 DEF LastFailed
  <2> QED BY <2>1, <2>2, ResilienceAssumption DEF BreakerInv, TypeOK, NotOpened
<1>5. CASE Tick
  BY <1>5, ResilienceAssumption DEF Tick, Later, BreakerInv, LastFailed, TypeOK, NotOpened
<1>6. ASSUME NEW c \in Calls, Step(c) PROVE BreakerInv'
  <2>1. CASE Begin(c)
    BY <1>2, <1>3, <2>1 DEF Begin
  <2> QED BY <1>2, <1>3, <1>4, <1>6, <2>1 DEF Step, Refuse, Succeed, Wake, Cancel
<1> QED BY <1>2, <1>5, <1>6 DEF Next, vars

LEMMA BreakerInit == Init => BreakerInv
  BY DEF Init, BreakerInv, LastFailed

\* The row of failures, and when the cooldown began.
THEOREM BreakerCounts == Spec => []BreakerInv
  BY BreakerInit, BreakerStep, TypeCorrect, PTL DEF Spec

\* A longer row of failures contains the shorter ones.
LEMMA OpenFromInv == TypeOK /\ BreakerInv => OpenMeansFailing
  BY ResilienceAssumption DEF TypeOK, BreakerInv, OpenMeansFailing, LastFailed

(***************************************************************************)
(* The circuit is open only after FailureThreshold attempts in a row have  *)
(* failed (OpenMeansFailing), however concurrent calls interleave.         *)
(***************************************************************************)
THEOREM CircuitOpensForFailures == Spec => []OpenMeansFailing
  BY TypeCorrect, BreakerCounts, OpenFromInv, PTL

(***************************************************************************)
(* A call is refused only for recent failures (RefusedForAReason).         *)
(***************************************************************************)
THEOREM RefusalsHaveAReason == Spec => RefusedForAReason
<1>1. TypeOK /\ BreakerInv /\ [Next]_vars =>
        [\A c \in Calls :
           At(c, "idle") /\ At(c, "refused")'
             => LastFailed(FailureThreshold) /\ quietFor < RecoverySeconds]_vars
  <2> SUFFICES ASSUME TypeOK, BreakerInv, [Next]_vars,
                      NEW c \in Calls, At(c, "idle"), At(c, "refused")'
               PROVE  LastFailed(FailureThreshold) /\ quietFor < RecoverySeconds
    OBVIOUS
  <2>1. OpenMeansFailing
    BY OpenFromInv
  <2>2. call[c].pc = "idle" /\ call'[c].pc = "refused"
    BY DEF At
  <2>3. Refuse(c)
    <3>1. CASE Tick
      BY <2>2, <3>1 DEF Tick, TypeOK, Call
    <3>2. ASSUME NEW d \in Calls, Step(d) PROVE Refuse(c)
      <4>1. call'[c].pc # call[c].pc
        BY <2>2
      <4>2. c = d
        BY <3>2, <4>1 DEF Step, Begin, Refuse, Succeed, Fail, Wake, Cancel, End, TypeOK
      <4> QED BY <2>2, <3>2, <4>2
        DEF Step, Begin, Refuse, Succeed, Fail, Wake, Cancel, End, At, TypeOK, Call
    <3>3. CASE UNCHANGED vars
      BY <2>2, <3>3 DEF vars
    <3> QED BY <3>1, <3>2, <3>3 DEF Next
  <2>4. openFor # NotOpened /\ openFor # RecoverySeconds
    BY <2>3 DEF Refuse, IsOpen, Recovered
  <2> QED BY <2>1, <2>4, ResilienceAssumption DEF OpenMeansFailing, TypeOK, NotOpened
<1> QED BY <1>1, TypeCorrect, BreakerCounts, PTL DEF Spec, RefusedForAReason

-----------------------------------------------------------------------------
(***************************************************************************)
(* What a call has tried, by where it stands: while it runs, its count of  *)
(* attempts is the number of its failures in the history.                  *)
(***************************************************************************)
AllFailed(c) == \A i \in Attempts(c) : ~outcomes[i].ok

CallInv(c) ==
  /\ IsFiniteSet(Attempts(c))
  /\ call[c].pc \in {"idle", "refused"} => Attempts(c) = {}
  /\ call[c].pc = "idle" => call[c].attempt = 0
  /\ call[c].pc \in {"calling", "sleeping"} =>
       AllFailed(c) /\ Cardinality(Attempts(c)) = call[c].attempt
  /\ call[c].pc = "raised" => AllFailed(c) /\ Cardinality(Attempts(c)) = MaxAttempts
  /\ call[c].pc = "returned" => \E i \in Attempts(c) :
                                  \A j \in Attempts(c) : outcomes[j].ok <=> i = j

CallsInv == \A c \in Calls : CallInv(c)

LEMMA EndFromInv == CallsInv => EndIsJustified
BY DEF CallsInv, CallInv, EndIsJustified, At, AllFailed

LEMMA CallsInit == Init => CallsInv
<1> SUFFICES ASSUME Init, NEW c \in Calls PROVE CallInv(c)
  BY DEF CallsInv
<1>1. call[c].pc = "idle" /\ call[c].attempt = 0
  BY DEF Init
<1>2. Attempts(c) = {}
  BY DEF Init, Attempts
<1> QED BY <1>1, <1>2, FS_EmptySet DEF CallInv

\* A call that neither moves on nor records an attempt.
LEMMA CallRests ==
  ASSUME CallsInv, NEW c \in Calls, Attempts(c)' = Attempts(c),
         \A i \in Attempts(c) : outcomes'[i] = outcomes[i],
         call'[c].pc = call[c].pc, call'[c].attempt = call[c].attempt
  PROVE  CallInv(c)'
<1>1. CallInv(c)
  BY DEF CallsInv
<1>2. AllFailed(c)' <=> AllFailed(c)
  BY DEF AllFailed
<1>3. (\E i \in Attempts(c) : \A j \in Attempts(c) : outcomes[j].ok <=> i = j)
        => (\E i \in Attempts(c) : \A j \in Attempts(c) : outcomes[j].ok <=> i = j)'
  OBVIOUS
<1> QED BY <1>1, <1>2, <1>3 DEF CallInv

\* A recorded attempt is one more of its call, and of no other.
LEMMA Recorded ==
  ASSUME TypeOK, NEW c \in Calls, NEW ok \in BOOLEAN, Record(c, ok)
  PROVE  /\ Attempts(c)' = Attempts(c) \cup {Len(outcomes) + 1}
         /\ Len(outcomes) + 1 \notin Attempts(c)
         /\ outcomes'[Len(outcomes) + 1].ok = ok
         /\ \A i \in DOMAIN outcomes : outcomes'[i] = outcomes[i]
         /\ \A d \in Calls \ {c} : Attempts(d)' = Attempts(d)
         /\ \A d \in Calls : Attempts(d) \subseteq DOMAIN outcomes
<1>1. PICK o \in Outcome : o = [call |-> c, ok |-> ok]
  BY DEF Outcome
<1>2. o.call = c /\ o.ok = ok
  BY <1>1
<1>3. outcomes \in Seq(Outcome) /\ outcomes' = Append(outcomes, o)
  BY <1>1 DEF TypeOK, Record
<1>4. /\ DOMAIN outcomes' = DOMAIN outcomes \cup {Len(outcomes) + 1}
      /\ Len(outcomes) + 1 \notin DOMAIN outcomes
      /\ outcomes'[Len(outcomes) + 1] = o
      /\ \A i \in DOMAIN outcomes : outcomes'[i] = outcomes[i]
  BY <1>3
<1> QED BY <1>2, <1>4 DEF Attempts

LEMMA CallsStep == TypeOK /\ CallsInv /\ [Next]_vars => CallsInv'
<1> SUFFICES ASSUME TypeOK, CallsInv, [Next]_vars, NEW d \in Calls PROVE CallInv(d)'
  BY DEF CallsInv
<1>1. CallInv(d)
  BY DEF CallsInv
<1>2. ASSUME UNCHANGED outcomes, call'[d].pc = call[d].pc, call'[d].attempt = call[d].attempt
      PROVE  CallInv(d)'
  BY <1>2, CallRests DEF Attempts
<1>3. CASE Tick
  <2>1. PICK k \in Call : k = call[d]
    BY DEF TypeOK
  <2>2. PICK s : s = IF k.sleep > 0 THEN k.sleep - 1 ELSE 0
    OBVIOUS
  <2>3. call'[d] = [k EXCEPT !.sleep = s]
    BY <1>3, <2>1, <2>2 DEF Tick
  <2>4. call'[d].pc = k.pc /\ call'[d].attempt = k.attempt
    BY <2>3 DEF Call
  <2> QED BY <1>2, <1>3, <2>1, <2>4 DEF Tick
<1>4. CASE UNCHANGED vars
  BY <1>2, <1>4 DEF vars, historyVars
<1>5. ASSUME NEW c \in Calls, Step(c) PROVE CallInv(d)'
  <2>1. PICK k \in Call : k = call[c]
    BY DEF TypeOK
  <2>2. ASSUME NEW pc, End(c, pc)
        PROVE  /\ call'[c].pc = pc /\ call'[c].attempt = k.attempt
               /\ \A e \in Calls \ {c} : call'[e] = call[e]
    <3>1. PICK w : w = [k EXCEPT !.pc = pc]
      OBVIOUS
    <3>2. w.pc = pc /\ w.attempt = k.attempt
      BY <3>1 DEF Call
    <3>3. call' = [call EXCEPT ![c] = w]
      BY <2>1, <2>2, <3>1 DEF End
    <3> QED BY <3>2, <3>3 DEF TypeOK
  <2>3. Len(outcomes) + 1 \notin DOMAIN outcomes
    BY DEF TypeOK
  <2>4. CASE Succeed(c)
    <3>1. At(c, "calling") /\ End(c, "returned") /\ Record(c, TRUE)
      BY <2>4 DEF Succeed
    <3>2. CASE d # c
      BY <2>2, <3>1, <3>2, Recorded, CallRests
    <3>3. CASE d = c
      <4>1. AllFailed(c) /\ IsFiniteSet(Attempts(c))
        BY <1>1, <3>1, <3>3 DEF CallInv, At
      <4>2. PICK n : n = Len(outcomes) + 1
        OBVIOUS
      <4>3. /\ Attempts(c)' = Attempts(c) \cup {n} /\ n \notin Attempts(c)
            /\ outcomes'[n].ok = TRUE
            /\ \A i \in Attempts(c) : outcomes'[i] = outcomes[i]
        BY <3>1, <4>2, Recorded
      <4>4. \A j \in Attempts(c)' : outcomes'[j].ok <=> n = j
        BY <4>1, <4>3 DEF AllFailed
      <4>5. IsFiniteSet(Attempts(c)')
        BY <4>1, <4>3, FS_AddElement
      <4>6. call'[c].pc = "returned"
        BY <2>2, <3>1
      <4> QED BY <3>3, <4>3, <4>4, <4>5, <4>6 DEF CallInv
    <3> QED BY <3>2, <3>3
  <2>5. CASE Fail(c)
    <3>1. At(c, "calling") /\ Record(c, FALSE)
      BY <2>5 DEF Fail
    <3>2. /\ call'[c].pc \in {"calling", "sleeping", "raised"}
          /\ call'[c].pc = "raised" => k.attempt + 1 = MaxAttempts
          /\ call'[c].pc # "raised" => call'[c].attempt = k.attempt + 1
          /\ \A e \in Calls \ {c} : call'[e] = call[e]
      <4>1. CASE LastAttempt(c)
        BY <2>1, <2>2, <2>5, <4>1 DEF Fail, LastAttempt
      <4>2. CASE ~LastAttempt(c)
        <5>1. PICK w : w = Retry(k)
          OBVIOUS
        <5>2. w.pc \in {"calling", "sleeping"} /\ w.attempt = k.attempt + 1
          BY <5>1 DEF Retry
        <5>3. call' = [call EXCEPT ![c] = w]
          BY <2>1, <2>5, <4>2, <5>1 DEF Fail
        <5> QED BY <5>2, <5>3 DEF TypeOK
      <4> QED BY <4>1, <4>2
    <3>3. CASE d # c
      BY <3>1, <3>2, <3>3, Recorded, CallRests
    <3>4. CASE d = c
      <4>1. AllFailed(c) /\ IsFiniteSet(Attempts(c)) /\ Cardinality(Attempts(c)) = k.attempt
        BY <1>1, <2>1, <3>1, <3>4 DEF CallInv, At
      <4>2. PICK n : n = Len(outcomes) + 1
        OBVIOUS
      <4>3. /\ Attempts(c)' = Attempts(c) \cup {n} /\ n \notin Attempts(c)
            /\ outcomes'[n].ok = FALSE
            /\ \A i \in Attempts(c) : outcomes'[i] = outcomes[i]
        BY <3>1, <4>2, Recorded
      <4>4. AllFailed(c)'
        BY <4>1, <4>3 DEF AllFailed
      <4>5. IsFiniteSet(Attempts(c)') /\ Cardinality(Attempts(c)') = k.attempt + 1
        BY <4>1, <4>3, FS_AddElement
      <4> QED BY <3>2, <3>4, <4>4, <4>5 DEF CallInv
    <3> QED BY <3>3, <3>4
  <2>6. CASE Begin(c) \/ Refuse(c) \/ Wake(c) \/ Cancel(c)
    <3>1. UNCHANGED outcomes
      BY <2>6 DEF Begin, Refuse, Wake, Cancel, historyVars
    <3>2. PICK pc \in {"calling", "refused", "cancelled"} :
            /\ End(c, pc)
            /\ pc = "calling" => k.pc \in {"idle", "sleeping"}
            /\ pc = "refused" => k.pc = "idle"
      BY <2>1, <2>6 DEF Begin, Refuse, Wake, Cancel, At
    <3>3. CASE d # c
      BY <1>2, <2>2, <3>1, <3>2, <3>3
    <3>4. CASE d = c
      <4>1. call'[c].pc = pc /\ call'[c].attempt = k.attempt
        BY <2>2, <3>2
      <4>2. Attempts(c)' = Attempts(c) /\ (AllFailed(c)' <=> AllFailed(c))
        BY <3>1 DEF Attempts, AllFailed
      <4>3. k.pc = "idle" => Attempts(c) = {} /\ k.attempt = 0
        BY <1>1, <2>1, <3>4 DEF CallInv
      <4>4. k.pc = "sleeping" => AllFailed(c) /\ Cardinality(Attempts(c)) = k.attempt
        BY <1>1, <2>1, <3>4 DEF CallInv
      <4>5. k.pc = "idle" => AllFailed(c) /\ Cardinality(Attempts(c)) = k.attempt
        BY <4>3, FS_EmptySet DEF AllFailed
      <4> QED BY <1>1, <3>2, <3>4, <4>1, <4>2, <4>3, <4>4, <4>5 DEF CallInv
    <3> QED BY <3>3, <3>4
  <2> QED BY <1>5, <2>4, <2>5, <2>6 DEF Step
<1> QED BY <1>3, <1>4, <1>5 DEF Next

(***************************************************************************)
(* How a call ends tells what it did (EndIsJustified): it raises after its *)
(* whole budget of failures, returns on its first success, and is refused  *)
(* before it tried, however the calls on one runner interleave.            *)
(***************************************************************************)
THEOREM EndsAreJustified == Spec => []EndIsJustified
<1>1. Init => TypeOK /\ CallsInv
  BY TypeInit, CallsInit
<1>2. TypeOK /\ CallsInv /\ [Next]_vars => (TypeOK /\ CallsInv)'
  BY TypeStep, CallsStep
<1> QED BY <1>1, <1>2, EndFromInv, PTL DEF Spec
=============================================================================
