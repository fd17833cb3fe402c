---------------------------- MODULE JournalProofs ----------------------------
(***************************************************************************)
(* Proofs about Journal, for any approvals, operations, plans and clock,   *)
(* and every workload.                                                     *)
(***************************************************************************)
EXTENDS Journal, WellFoundedInduction, TLAPS

-----------------------------------------------------------------------------
(* Operations and their steps, under a workload that does not change. *)

StepsOf(w) ==
  [in : w.inputs, attempt : 1 .. w.maxAttempt, status : {"running", "succeeded", "failed"},
   reason : Reasons \cup {Empty}, recovered : BOOLEAN, retry : BOOLEAN]

OperationsOf(w) ==
  [approval : ApprovalId, plan : PlanDigest, startedAt : Time,
   state : States, steps : Seq(StepsOf(w)), mutationStarted : BOOLEAN,
   rollbackStarted : BOOLEAN, failure : Nat, finished : BOOLEAN]

Running(op, i) == op.steps[i].status = "running"

\* Two operations that differ in their steps only, or in the state as well.
SameButSteps(a, b) ==
  /\ a.approval = b.approval /\ a.plan = b.plan /\ a.startedAt = b.startedAt
  /\ (a.mutationStarted <=> b.mutationStarted) /\ (a.rollbackStarted <=> b.rollbackStarted)
  /\ a.failure = b.failure /\ (a.finished <=> b.finished)

\* A step that was given up.
GivenUp(step) ==
  [step EXCEPT !.status = "failed", !.reason = "interrupted_retry", !.recovered = FALSE]

LEMMA StepsDomain ==
  ASSUME NEW w, NEW op \in OperationsOf(w)
  PROVE  /\ op.steps \in Seq(StepsOf(w)) /\ Len(op.steps) \in Nat
         /\ DOMAIN op.steps = 1 .. Len(op.steps)
         /\ \A i \in 1 .. Len(op.steps) : op.steps[i] \in StepsOf(w)
  BY DEF OperationsOf

LEMMA GivenUpEffect ==
  ASSUME NEW w, NEW step \in StepsOf(w)
  PROVE  /\ GivenUp(step) \in StepsOf(w)
         /\ GivenUp(step).in = step.in /\ GivenUp(step).attempt = step.attempt
         /\ (GivenUp(step).retry <=> step.retry) /\ ~GivenUp(step).recovered
         /\ GivenUp(step).status = "failed" /\ GivenUp(step).reason = "interrupted_retry"
  BY DEF StepsOf, GivenUp, Reasons

LEMMA AbandonEffect ==
  ASSUME NEW w, NEW op \in OperationsOf(w)
  PROVE  /\ Abandon(op) \in OperationsOf(w)
         /\ SameButSteps(Abandon(op), op) /\ Abandon(op).state = op.state
         /\ Len(Abandon(op).steps) = Len(op.steps)
         /\ \A i \in 1 .. Len(op.steps) :
              Abandon(op).steps[i] = IF i \in InFlight(op) THEN GivenUp(op.steps[i]) ELSE op.steps[i]
<1> DEFINE S == [i \in 1 .. Len(op.steps) |-> IF i \in InFlight(op) THEN GivenUp(op.steps[i]) ELSE op.steps[i]]
<1>1. Abandon(op) = [op EXCEPT !.steps = S]
  BY StepsDomain DEF Abandon, GivenUp
<1>2. \A i \in 1 .. Len(op.steps) :
        (IF i \in InFlight(op) THEN GivenUp(op.steps[i]) ELSE op.steps[i]) \in StepsOf(w)
  BY StepsDomain, GivenUpEffect
<1>3. S \in Seq(StepsOf(w)) /\ Len(S) = Len(op.steps)
  BY <1>2, StepsDomain
<1> HIDE DEF S
<1>4. [op EXCEPT !.steps = S] \in OperationsOf(w) /\ [op EXCEPT !.steps = S].steps = S
      /\ SameButSteps([op EXCEPT !.steps = S], op) /\ [op EXCEPT !.steps = S].state = op.state
  BY <1>3 DEF OperationsOf, SameButSteps
<1>5. QED
  BY <1>1, <1>3, <1>4 DEF S

\* The largest member of a set of indices: what the code's backward loops find.
LEMMA LargestIndex ==
  ASSUME NEW n \in Nat, NEW S \in SUBSET (1 .. n), S # {}
  PROVE  \E i \in S : \A j \in S : j <= i
<1> DEFINE T == {n - i : i \in S}
<1>1. T \subseteq Nat /\ T # {}
  <2>1. \A i \in S : i \in 1 .. n /\ n - i \in Nat
    OBVIOUS
  <2>2. QED
    BY <2>1
<1>2. IsWellFoundedOn({p \in Nat \X Nat : p[1] < p[2]}, Nat)
  BY NatLessThanWellFounded DEF OpToRel
<1>3. PICK x \in T : \A y \in T : x <= y
  <2> DEFINE R == {p \in Nat \X Nat : p[1] < p[2]}
  <2>1. \A p : p \in R <=> p \in Nat \X Nat /\ p[1] < p[2]
    OBVIOUS
  <2> HIDE DEF R, T
  <2>2. PICK x \in T : \A y \in T : ~(<<y, x>> \in R)
    BY <1>1, <1>2, WFMin DEF R
  <2>3. \A y \in T : ~(y < x)
    BY <1>1, <2>1, <2>2
  <2>4. QED
    BY <1>1, <2>2, <2>3
<1>4. PICK i \in S : x = n - i
  BY <1>3
<1>5. \A j \in S : n - i <= n - j
  BY <1>3, <1>4
<1>6. QED
  BY <1>5

-----------------------------------------------------------------------------
(* What a record does to its operation. *)

\* Well-formed inputs, as callers pass them.
InputsOK(w) == w.maxSteps \in Nat /\ w.maxAttempt \in Nat /\ \A in \in w.inputs : ValidStepInput(in)

Started(op, step) ==
  [Abandon(op) EXCEPT !.steps = Append(@, step),
                      !.mutationStarted = @ \/ IsMutation(step),
                      !.state = PhaseState(step.in.phase)]

WithResult(op, i, status, reason) ==
  LET phase == op.steps[i].in.phase
  IN  [op EXCEPT
         !.steps[i] = [@ EXCEPT !.status = status, !.reason = reason, !.recovered = FALSE],
         !.failure = IF status = "failed" THEN i ELSE @,
         !.state = IF status = "succeeded" THEN PhaseState(phase)
                   ELSE IF phase = "rollback" THEN "recovery_required"
                   ELSE "failed"]

InState(op, state) == [op EXCEPT !.state = state, !.finished = TRUE]
RollingBack(op) == [op EXCEPT !.rollbackStarted = TRUE, !.state = "rolling_back"]

LEMMA PhaseStates ==
  /\ PhaseState("preflight") = "preflighting" /\ PhaseState("apply") = "applying"
  /\ PhaseState("verify") = "verifying" /\ PhaseState("rollback") = "rolling_back"
  BY DEF PhaseState

LEMMA StepPhases ==
  ASSUME NEW w, InputsOK(w), NEW step \in StepsOf(w)
  PROVE  step.in.phase \in Phases /\ PhaseState(step.in.phase) \in States
  BY PhaseStates DEF InputsOK, StepsOf, ValidStepInput, Phases, States

LEMMA StartedEffect ==
  ASSUME NEW w, InputsOK(w), NEW op \in OperationsOf(w), NEW step \in StepsOf(w)
  PROVE  /\ Started(op, step) \in OperationsOf(w)
         /\ Started(op, step).approval = op.approval /\ Started(op, step).plan = op.plan
         /\ (Started(op, step).rollbackStarted <=> op.rollbackStarted)
         /\ Started(op, step).failure = op.failure /\ (Started(op, step).finished <=> op.finished)
         /\ (Started(op, step).mutationStarted <=> (op.mutationStarted \/ IsMutation(step)))
         /\ Started(op, step).state = PhaseState(step.in.phase)
         /\ Len(Started(op, step).steps) = Len(op.steps) + 1
         /\ Started(op, step).steps[Len(op.steps) + 1] = step
         /\ \A i \in 1 .. Len(op.steps) : Started(op, step).steps[i] = Abandon(op).steps[i]
<1> DEFINE a == Abandon(op)
           S == Append(a.steps, step)
<1>1. a \in OperationsOf(w) /\ SameButSteps(a, op) /\ Len(a.steps) = Len(op.steps)
  BY AbandonEffect
<1>2. Started(op, step) = [a EXCEPT !.steps = S, !.mutationStarted = a.mutationStarted \/ IsMutation(step),
                                    !.state = PhaseState(step.in.phase)]
  BY DEF Started
<1> HIDE DEF a
<1>3. /\ S \in Seq(StepsOf(w)) /\ Len(S) = Len(a.steps) + 1 /\ S[Len(a.steps) + 1] = step
      /\ \A i \in 1 .. Len(a.steps) : S[i] = a.steps[i]
  BY <1>1, StepsDomain
<1> HIDE DEF S
<1>4. (a.mutationStarted \/ IsMutation(step)) \in BOOLEAN /\ PhaseState(step.in.phase) \in States
  BY StepPhases
<1>5. /\ Started(op, step) \in OperationsOf(w) /\ Started(op, step).steps = S
      /\ Started(op, step).state = PhaseState(step.in.phase)
      /\ (Started(op, step).mutationStarted <=> (a.mutationStarted \/ IsMutation(step)))
      /\ Started(op, step).approval = a.approval /\ Started(op, step).plan = a.plan
      /\ (Started(op, step).rollbackStarted <=> a.rollbackStarted)
      /\ Started(op, step).failure = a.failure /\ (Started(op, step).finished <=> a.finished)
  BY <1>1, <1>2, <1>3, <1>4 DEF OperationsOf
<1>6. QED
  BY <1>1, <1>3, <1>5 DEF SameButSteps, a

LEMMA WithResultEffect ==
  ASSUME NEW w, InputsOK(w), NEW op \in OperationsOf(w), NEW i \in 1 .. Len(op.steps),
         NEW status \in {"succeeded", "failed"}, NEW reason \in Reasons \cup {Empty}
  PROVE  LET q == WithResult(op, i, status, reason)
             phase == op.steps[i].in.phase
         IN  /\ q \in OperationsOf(w)
             /\ q.approval = op.approval /\ q.plan = op.plan
             /\ (q.rollbackStarted <=> op.rollbackStarted) /\ (q.mutationStarted <=> op.mutationStarted)
             /\ (q.finished <=> op.finished)
             /\ q.failure = (IF status = "failed" THEN i ELSE op.failure)
             /\ q.state = (IF status = "succeeded" THEN PhaseState(phase)
                           ELSE IF phase = "rollback" THEN "recovery_required" ELSE "failed")
             /\ Len(q.steps) = Len(op.steps)
             /\ \A j \in 1 .. Len(op.steps) : j # i => q.steps[j] = op.steps[j]
             /\ q.steps[i] \in StepsOf(w)
             /\ q.steps[i].in = op.steps[i].in /\ q.steps[i].attempt = op.steps[i].attempt
             /\ (q.steps[i].retry <=> op.steps[i].retry) /\ ~q.steps[i].recovered
             /\ q.steps[i].status = status /\ q.steps[i].reason = reason
<1> DEFINE q == WithResult(op, i, status, reason)
           phase == op.steps[i].in.phase
           s == [op.steps[i] EXCEPT !.status = status, !.reason = reason, !.recovered = FALSE]
           S == [op.steps EXCEPT ![i] = s]
           f == IF status = "failed" THEN i ELSE op.failure
           t == IF status = "succeeded" THEN PhaseState(phase)
                ELSE IF phase = "rollback" THEN "recovery_required" ELSE "failed"
<1>1. op.steps[i] \in StepsOf(w) /\ op.steps \in Seq(StepsOf(w))
  BY StepsDomain
<1>2. /\ s \in StepsOf(w) /\ s.in = op.steps[i].in /\ s.attempt = op.steps[i].attempt
      /\ s.retry = op.steps[i].retry /\ s.recovered = FALSE /\ s.status = status /\ s.reason = reason
  BY <1>1 DEF StepsOf
<1>3. f \in Nat /\ t \in States
  BY <1>1, StepPhases DEF OperationsOf, States
<1>4. q = [op EXCEPT !.steps = S, !.failure = f, !.state = t]
  BY DEF WithResult, OperationsOf
<1> HIDE DEF s, f, t
<1>5. /\ S \in Seq(StepsOf(w)) /\ Len(S) = Len(op.steps) /\ S[i] = s
      /\ \A j \in 1 .. Len(op.steps) : j # i => S[j] = op.steps[j]
  BY <1>1, <1>2
<1> HIDE DEF S
<1>6. /\ q \in OperationsOf(w) /\ q.steps = S /\ q.failure = f /\ q.state = t
      /\ q.approval = op.approval /\ q.plan = op.plan
      /\ (q.rollbackStarted <=> op.rollbackStarted) /\ (q.mutationStarted <=> op.mutationStarted)
      /\ (q.finished <=> op.finished)
  BY <1>3, <1>4, <1>5 DEF OperationsOf
<1>7. QED
  BY <1>2, <1>5, <1>6 DEF f, t

LEMMA StateEffect ==
  ASSUME NEW w, NEW op \in OperationsOf(w), NEW state \in States
  PROVE  /\ InState(op, state) \in OperationsOf(w)
         /\ InState(op, state).approval = op.approval /\ InState(op, state).plan = op.plan
         /\ InState(op, state).state = state /\ InState(op, state).finished
         /\ InState(op, state).steps = op.steps /\ InState(op, state).failure = op.failure
         /\ (InState(op, state).mutationStarted <=> op.mutationStarted)
         /\ (InState(op, state).rollbackStarted <=> op.rollbackStarted)
  BY DEF OperationsOf, InState, States

LEMMA RollingBackEffect ==
  ASSUME NEW w, NEW op \in OperationsOf(w)
  PROVE  /\ RollingBack(op) \in OperationsOf(w)
         /\ RollingBack(op).approval = op.approval /\ RollingBack(op).plan = op.plan
         /\ RollingBack(op).state = "rolling_back" /\ (RollingBack(op).finished <=> op.finished)
         /\ RollingBack(op).steps = op.steps /\ RollingBack(op).failure = op.failure
         /\ (RollingBack(op).mutationStarted <=> op.mutationStarted)
         /\ RollingBack(op).rollbackStarted
  BY DEF OperationsOf, RollingBack, States

-----------------------------------------------------------------------------
(* What the log says of one operation, whose approved components are C. *)

Indices(op) == 1 .. Len(op.steps)

\* A finished operation has an outcome.
StateInv(op) ==
  /\ op.state # "retry_required"
  /\ op.state \in {"complete", "rolled_back", "cancelled"} => op.finished
  /\ op.finished => op.state \in Outcomes \cup {"cancelled"}
  /\ op.finished /\ op.state \in {"cancelled", "failed"} => ~op.mutationStarted

\* Only the last step runs, and the state is the one its phase gives; an operation that
\* was finished over a running step is in recovery.  Replay marks nothing.
RunningInv(op) ==
  \A i \in Indices(op) :
    /\ ~op.steps[i].recovered
    /\ Running(op, i) =>
         /\ i = Len(op.steps)
         /\ op.state = IF op.finished THEN "recovery_required" ELSE PhaseState(op.steps[i].in.phase)

\* The flags are raised before the first step they are about.
FlagInv(op) ==
  \A i \in Indices(op) :
    /\ IsMutation(op.steps[i]) => op.mutationStarted
    /\ op.steps[i].in.phase = "rollback" => op.rollbackStarted

\* The part of MutationsAreNeverRetried about one operation.
OnceInv(op) ==
  \A i, j \in Indices(op) : i < j =>
    /\ IsMutation(op.steps[i]) /\ IsMutation(op.steps[j]) =>
         op.steps[i].in.idempotency # op.steps[j].in.idempotency
    /\ op.steps[i].in.id = op.steps[j].in.id =>
         /\ ~IsMutation(op.steps[i]) /\ ~IsMutation(op.steps[j])
         /\ op.steps[i].reason = "interrupted_retry"
         /\ op.steps[i].attempt < op.steps[j].attempt

\* The part of PhaseOrder about one operation, and the states a verification leaves.
OrderInv(C, op) ==
  \A j \in Indices(op) :
    /\ op.steps[j].in.phase \in {"apply", "verify"} =>
         \A c \in C : \E i \in 1 .. j - 1 :
           op.steps[i].in.component = c /\ Done(op.steps[i], "preflight", "succeeded")
    /\ op.steps[j].in.phase \in {"preflight", "apply"} =>
         \A i \in 1 .. j - 1 : op.steps[i].in.phase # "verify"
    /\ op.failure # NoFailure /\ j > op.failure => op.steps[j].in.phase = "rollback"
    /\ op.steps[j].in.phase = "verify" => op.state \notin {"approved", "preflighting", "applying"}

\* A rollback step undoes an earlier change of its component, by its reference.
UndoInv(op) ==
  \A j \in Indices(op) : op.steps[j].in.phase = "rollback" =>
    \E i \in 1 .. j - 1 :
      /\ op.steps[i].in.phase = "apply" /\ op.steps[i].in.id = op.steps[j].in.compensates
      /\ op.steps[i].in.component = op.steps[j].in.component
      /\ op.steps[i].in.reference = op.steps[j].in.reference

\* The part of CompleteIsVerified about one operation.
CompleteInv(C, op) ==
  op.state = "complete" =>
    /\ \A i \in Indices(op) : ~Running(op, i)
    /\ \A i \in Indices(op) : IsMutation(op.steps[i]) => op.steps[i].status = "succeeded"
    /\ \A c \in C : \E i \in Indices(op) :
         /\ Done(op.steps[i], "verify", "succeeded") /\ op.steps[i].in.component = c
         /\ \A j \in Indices(op) : IsMutation(op.steps[j]) => j < i

\* The part of UndoneOrUntouched about an operation that was rolled back.
RolledBackInv(op) ==
  op.state = "rolled_back" =>
    \A i \in Indices(op) : op.steps[i].in.phase = "apply" =>
      \E j \in Indices(op) :
        /\ j > i /\ Done(op.steps[j], "rollback", "succeeded")
        /\ op.steps[j].in.compensates = op.steps[i].in.id
        /\ op.steps[j].in.component = op.steps[i].in.component
        /\ op.steps[j].in.reference = op.steps[i].in.reference

\* What an outcome says of the failure, of a rollback and of verifications.
OutcomeInv(op) ==
  /\ op.state = "failed" => op.failure # NoFailure
  /\ op.state = "rolled_back" => op.rollbackStarted
  /\ op.state = "cancelled" => \A i \in Indices(op) : op.steps[i].in.phase # "verify"

\* Only approved components are touched.  An operation that has changed nothing
\* yet is in one of four states, and has failed in one of them only.
UntouchedInv(C, op) ==
  /\ \A i \in Indices(op) : op.steps[i].in.component \in C
  /\ op.rollbackStarted => op.mutationStarted
  /\ op.state = "verifying" => \E i \in Indices(op) : op.steps[i].in.phase = "verify"
  /\ ~op.mutationStarted /\ ~op.finished =>
       /\ op.state \in {"approved", "preflighting", "verifying", "failed"}
       /\ op.failure # NoFailure => op.state = "failed"

OpInv(C, op) ==
  /\ StateInv(op) /\ RunningInv(op) /\ FlagInv(op) /\ OnceInv(op)
  /\ OrderInv(C, op) /\ UndoInv(op) /\ CompleteInv(C, op) /\ RolledBackInv(op)
  /\ OutcomeInv(op) /\ UntouchedInv(C, op)

\* inFlight finds the running step.
LEMMA InFlightIs ==
  ASSUME NEW w, NEW op \in OperationsOf(w), RunningInv(op)
  PROVE  /\ InFlight(op) = {i \in Indices(op) : Running(op, i)}
         /\ \A i \in InFlight(op) : i = Len(op.steps)
  BY StepsDomain DEF InFlight, RunningInv, Running, Indices

\* What is given up is the running step; everything else is kept.
LEMMA AbandonSteps ==
  ASSUME NEW w, NEW op \in OperationsOf(w), RunningInv(op), NEW i \in Indices(op)
  PROVE  LET s == Abandon(op).steps[i] IN
         /\ s \in StepsOf(w)
         /\ s.in = op.steps[i].in /\ s.attempt = op.steps[i].attempt
         /\ ~s.recovered /\ s.status # "running"
         /\ ~Running(op, i) => s = op.steps[i]
         /\ Running(op, i) => s.status = "failed" /\ s.reason = "interrupted_retry"
<1>1. Abandon(op).steps[i] = IF i \in InFlight(op) THEN GivenUp(op.steps[i]) ELSE op.steps[i]
  BY AbandonEffect DEF Indices
<1>2. op.steps[i] \in StepsOf(w) /\ op.steps[i].recovered \in BOOLEAN
  BY StepsDomain DEF Indices, StepsOf
<1>3. i \in InFlight(op) <=> Running(op, i)
  BY InFlightIs
<1>4. CASE Running(op, i)
  <2>1. Abandon(op).steps[i] = GivenUp(op.steps[i])
    BY <1>1, <1>3, <1>4
  <2> DEFINE s == GivenUp(op.steps[i])
  <2>2. /\ s \in StepsOf(w) /\ s.in = op.steps[i].in /\ s.attempt = op.steps[i].attempt
        /\ ~s.recovered /\ s.status = "failed" /\ s.reason = "interrupted_retry"
    BY <1>2, GivenUpEffect
  <2> HIDE DEF s
  <2>3. QED
    BY <1>4, <2>1, <2>2 DEF s
<1>5. CASE ~Running(op, i)
  BY <1>1, <1>2, <1>3, <1>5 DEF RunningInv, Running
<1>6. QED
  BY <1>4, <1>5

\* What validateStepTransition asks for by phase.
LEMMA TransitionFacts ==
  ASSUME NEW p, NEW op, NEW step, step.in.phase \in Phases, StepTransitionOK(p, op, step)
  PROVE  /\ op.state \notin {"complete", "rolled_back", "cancelled"} /\ ~op.finished
         /\ step.in.component \in ApprovedComponents(p, op)
         /\ AttemptOK(op, step) /\ DigestUnused(op, step)
         /\ step.in.phase = "preflight" => PreflightOK(op)
         /\ step.in.phase = "apply" => ApplyOK(p, op)
         /\ step.in.phase = "verify" => VerifyOK(p, op)
         /\ step.in.phase = "rollback" => RollbackOK(op, step.in)
<1>1. CASE step.in.phase = "preflight"
  BY <1>1 DEF StepTransitionOK
<1>2. CASE step.in.phase = "apply"
  BY <1>2 DEF StepTransitionOK
<1>3. CASE step.in.phase = "verify"
  BY <1>3 DEF StepTransitionOK
<1>4. CASE step.in.phase = "rollback"
  BY <1>4 DEF StepTransitionOK
<1>5. QED
  BY <1>1, <1>2, <1>3, <1>4 DEF Phases

\* A step that begins keeps what the log says of its operation.
LEMMA StartedKeeps ==
  ASSUME NEW w, InputsOK(w), NEW op \in OperationsOf(w), NEW C, OpInv(C, op),
         NEW step \in StepsOf(w), step.status = "running", ~step.recovered,
         RetriesInFlight(op, step), step.retry => InFlight(op) # {},
         NEW p, StepTransitionOK(p, Abandon(op), step), ApprovedComponents(p, Abandon(op)) = C
  PROVE  OpInv(C, Started(op, step))
<1> DEFINE a == Abandon(op)
           q == Started(op, step)
           n == Len(op.steps)
           phase == step.in.phase
<1>p. phase \in Phases
  BY StepPhases
<1>r. RunningInv(op)
  BY DEF OpInv
<1>a. /\ a \in OperationsOf(w) /\ SameButSteps(a, op) /\ a.state = op.state /\ Len(a.steps) = n
      /\ n \in Nat
  BY AbandonEffect, StepsDomain
<1>s. \A i \in 1 .. n :
        /\ a.steps[i].in = op.steps[i].in /\ a.steps[i].attempt = op.steps[i].attempt
        /\ ~a.steps[i].recovered /\ a.steps[i].status # "running"
        /\ ~Running(op, i) => a.steps[i] = op.steps[i]
        /\ Running(op, i) => a.steps[i].status = "failed" /\ a.steps[i].reason = "interrupted_retry"
  BY <1>r, AbandonSteps DEF Indices
<1>d. DOMAIN a.steps = 1 .. n
  BY <1>a, StepsDomain
<1>q. /\ (q.rollbackStarted <=> op.rollbackStarted) /\ q.failure = op.failure /\ (q.finished <=> op.finished)
      /\ (q.mutationStarted <=> (op.mutationStarted \/ IsMutation(step))) /\ q.state = PhaseState(phase)
      /\ Len(q.steps) = n + 1 /\ q.steps[n + 1] = step
      /\ \A i \in 1 .. n : q.steps[i] = a.steps[i]
  BY StartedEffect
<1>t. /\ ~op.finished /\ step.in.component \in C /\ AttemptOK(a, step) /\ DigestUnused(a, step)
      /\ phase = "preflight" => PreflightOK(a)
      /\ phase = "apply" => ApplyOK(p, a)
      /\ phase = "verify" => VerifyOK(p, a)
      /\ phase = "rollback" => RollbackOK(a, step.in)
  BY <1>a, <1>p, TransitionFacts DEF SameButSteps
<1>c. phase \in {"apply", "verify"} => Succeeded(a, "preflight") = C
  BY <1>t DEF ApplyOK, VerifyOK, AllComponentsSucceededPhase
<1>f. phase # "rollback" => op.failure = NoFailure
  BY <1>a, <1>p, <1>t DEF PreflightOK, ApplyOK, VerifyOK, SameButSteps, Phases
<1>x. Indices(q) = 1 .. n + 1 /\ Indices(op) = 1 .. n
  BY <1>q DEF Indices
<1>b. op.mutationStarted \in BOOLEAN /\ op.finished \in BOOLEAN /\ op.rollbackStarted \in BOOLEAN
  BY DEF OperationsOf
<1> HIDE DEF a, q, n
<1>i. \A i \in 1 .. n : q.steps[i].in = op.steps[i].in
  BY <1>q, <1>s
<1>1. StateInv(q)
  BY <1>b, <1>p, <1>q, <1>t, PhaseStates DEF StateInv, Phases
<1>2. RunningInv(q)
  <2>1. ASSUME NEW i \in 1 .. n + 1
        PROVE  /\ ~q.steps[i].recovered
               /\ Running(q, i) => /\ i = n + 1
                                   /\ q.state = IF q.finished THEN "recovery_required"
                                                ELSE PhaseState(q.steps[i].in.phase)
    <3>1. CASE i = n + 1
      BY <1>q, <1>t, <3>1
    <3>2. CASE i \in 1 .. n
      BY <1>q, <1>s, <3>2 DEF Running
    <3>3. QED
      BY <1>a, <3>1, <3>2
  <2>2. QED
    BY <1>q, <1>x, <2>1 DEF RunningInv
<1>3. FlagInv(q)
  <2>1. ASSUME NEW i \in 1 .. n + 1
        PROVE  /\ IsMutation(q.steps[i]) => q.mutationStarted
               /\ q.steps[i].in.phase = "rollback" => q.rollbackStarted
    <3>1. CASE i = n + 1
      BY <1>a, <1>b, <1>q, <1>t, <3>1 DEF RollbackOK, SameButSteps
    <3>2. CASE i \in 1 .. n
      BY <1>b, <1>i, <1>q, <1>x, <3>2 DEF OpInv, FlagInv, IsMutation
    <3>3. QED
      BY <1>a, <3>1, <3>2
  <2>2. QED
    BY <1>x, <2>1 DEF FlagInv
<1>4. OnceInv(q)
  <2>1. ASSUME NEW i \in 1 .. n, IsMutation(op.steps[i]), IsMutation(step)
        PROVE  op.steps[i].in.idempotency # step.in.idempotency
    BY <1>d, <1>s, <1>t, <2>1 DEF DigestUnused, IsMutation
  <2>2. ASSUME NEW i \in 1 .. n, op.steps[i].in.id = step.in.id
        PROVE  /\ ~IsMutation(op.steps[i]) /\ ~IsMutation(step)
               /\ a.steps[i].reason = "interrupted_retry" /\ op.steps[i].attempt < step.attempt
    <3> DEFINE S == {k \in 1 .. n : op.steps[k].in.id = step.in.id}
    <3>1. PICK m \in S : \A k \in S : k <= m
      <4>1. S \in SUBSET (1 .. n) /\ i \in S
        BY <2>2
      <4> HIDE DEF S
      <4>2. QED
        BY <1>a, <4>1, LargestIndex
    <3>2. m \in LatestStepByID(a, step.in.id)
      BY <1>d, <1>s, <3>1 DEF LatestStepByID
    <3>3. /\ step.retry /\ step.attempt = a.steps[m].attempt + 1
          /\ ~IsMutation(a.steps[m]) /\ a.steps[m].reason = "interrupted_retry"
      BY <1>t, <3>2 DEF AttemptOK
    <3>4. ~IsMutation(step)
      BY <3>3 DEF RetriesInFlight, IsMutation
    <3>5. op.steps[m].attempt \in Nat /\ op.steps[i].attempt \in Nat /\ step.attempt = op.steps[m].attempt + 1
      <4>1. op.steps[m] \in StepsOf(w) /\ op.steps[i] \in StepsOf(w)
        BY <3>1, StepsDomain DEF n
      <4>2. QED
        BY <1>s, <3>1, <3>3, <4>1 DEF StepsOf, InputsOK
    <3>6. CASE i = m
      BY <1>s, <3>1, <3>3, <3>4, <3>5, <3>6 DEF IsMutation
    <3>7. CASE i < m
      <4>1. /\ ~IsMutation(op.steps[i]) /\ op.steps[i].reason = "interrupted_retry"
            /\ op.steps[i].attempt < op.steps[m].attempt
        BY <1>x, <2>2, <3>1, <3>7 DEF OpInv, OnceInv
      <4>2. ~Running(op, i)
        BY <1>a, <1>r, <1>x, <3>1, <3>7 DEF RunningInv, n
      <4>3. QED
        BY <1>s, <3>4, <3>5, <4>1, <4>2
    <3>8. QED
      BY <1>a, <2>2, <3>1, <3>6, <3>7
  <2>3. ASSUME NEW i \in 1 .. n + 1, NEW j \in 1 .. n + 1, i < j
        PROVE  /\ IsMutation(q.steps[i]) /\ IsMutation(q.steps[j]) =>
                    q.steps[i].in.idempotency # q.steps[j].in.idempotency
               /\ q.steps[i].in.id = q.steps[j].in.id =>
                    /\ ~IsMutation(q.steps[i]) /\ ~IsMutation(q.steps[j])
                    /\ q.steps[i].reason = "interrupted_retry"
                    /\ q.steps[i].attempt < q.steps[j].attempt
    <3>1. i \in 1 .. n /\ q.steps[i].in = op.steps[i].in /\ q.steps[i].attempt = op.steps[i].attempt
          /\ q.steps[i] = a.steps[i]
      BY <1>a, <1>i, <1>q, <1>s, <2>3
    <3>2. CASE j = n + 1
      BY <1>q, <2>1, <2>2, <3>1, <3>2 DEF IsMutation
    <3>3. CASE j \in 1 .. n
      <4>1. ~Running(op, i)
        BY <1>a, <1>r, <1>x, <2>3, <3>1, <3>3 DEF RunningInv, n
      <4>2. q.steps[i] = op.steps[i]
        BY <1>s, <3>1, <4>1
      <4>3. q.steps[j].in = op.steps[j].in /\ q.steps[j].attempt = op.steps[j].attempt
        BY <1>q, <1>s, <3>3
      <4>4. QED
        BY <1>x, <2>3, <3>1, <3>3, <4>2, <4>3 DEF OpInv, OnceInv, IsMutation
    <3>4. QED
      BY <1>a, <3>2, <3>3
  <2>4. QED
    BY <1>x, <2>3 DEF OnceInv
<1>5. OrderInv(C, q)
  <2>1. ASSUME NEW c \in C, phase \in {"apply", "verify"}
        PROVE  \E i \in 1 .. n : op.steps[i].in.component = c /\ Done(op.steps[i], "preflight", "succeeded")
    <3>1. PICK i \in DOMAIN a.steps : Done(a.steps[i], "preflight", "succeeded") /\ a.steps[i].in.component = c
      BY <1>c, <2>1 DEF Succeeded
    <3>2. i \in 1 .. n /\ a.steps[i] = op.steps[i]
      BY <1>d, <1>s, <3>1 DEF Done
    <3>3. QED
      BY <3>1, <3>2
  <2>2. phase \in {"preflight", "apply"} => \A i \in 1 .. n : op.steps[i].in.phase # "verify"
    BY <1>a, <1>t, <1>x DEF OpInv, OrderInv, StateInv, PreflightOK, ApplyOK
  <2>3. ASSUME NEW i \in 1 .. n, Done(op.steps[i], "preflight", "succeeded")
        PROVE  q.steps[i] = op.steps[i]
    BY <1>q, <1>s, <2>3 DEF Running, Done
  <2>4. ASSUME NEW j \in 1 .. n + 1
        PROVE  /\ q.steps[j].in.phase \in {"apply", "verify"} =>
                    \A c \in C : \E i \in 1 .. j - 1 :
                      q.steps[i].in.component = c /\ Done(q.steps[i], "preflight", "succeeded")
               /\ q.steps[j].in.phase \in {"preflight", "apply"} =>
                    \A i \in 1 .. j - 1 : q.steps[i].in.phase # "verify"
               /\ q.failure # NoFailure /\ j > q.failure => q.steps[j].in.phase = "rollback"
    <3>1. CASE j = n + 1
      <4>1. j - 1 = n
        BY <1>a, <3>1
      <4>2. q.steps[j] = step
        BY <1>q, <3>1
      <4>3. phase \in {"apply", "verify"} =>
              \A c \in C : \E i \in 1 .. n :
                q.steps[i].in.component = c /\ Done(q.steps[i], "preflight", "succeeded")
        BY <2>1, <2>3
      <4>4. phase \in {"preflight", "apply"} => \A i \in 1 .. n : q.steps[i].in.phase # "verify"
        BY <1>i, <2>2
      <4>5. q.failure # NoFailure => phase = "rollback"
        BY <1>f, <1>q
      <4>6. QED
        BY <4>1, <4>2, <4>3, <4>4, <4>5
    <3>2. CASE j \in 1 .. n
      <4>1. \A i \in 1 .. j - 1 : i \in 1 .. n
        BY <1>a, <3>2
      <4>2. q.steps[j].in = op.steps[j].in /\ j \in Indices(op)
        BY <1>i, <1>x, <3>2
      <4>3. op.steps[j].in.phase \in {"apply", "verify"} =>
              \A c \in C : \E i \in 1 .. j - 1 :
                op.steps[i].in.component = c /\ Done(op.steps[i], "preflight", "succeeded")
        BY <4>2 DEF OpInv, OrderInv
      <4>4. op.steps[j].in.phase \in {"preflight", "apply"} =>
              \A i \in 1 .. j - 1 : op.steps[i].in.phase # "verify"
        BY <4>2 DEF OpInv, OrderInv
      <4>5. op.failure # NoFailure /\ j > op.failure => op.steps[j].in.phase = "rollback"
        BY <4>2 DEF OpInv, OrderInv
      <4>6. QED
        BY <1>i, <1>q, <2>3, <4>1, <4>2, <4>3, <4>4, <4>5
    <3>3. QED
      BY <1>a, <3>1, <3>2
  <2>5. ASSUME NEW j \in 1 .. n + 1, q.steps[j].in.phase = "verify"
        PROVE  q.state \notin {"approved", "preflighting", "applying"}
    <3>1. CASE j = n + 1
      BY <1>q, <2>5, <3>1, PhaseStates
    <3>2. CASE j \in 1 .. n
      BY <1>i, <1>p, <1>q, <2>2, <2>5, <3>2, PhaseStates DEF Phases
    <3>3. QED
      BY <1>a, <3>1, <3>2
  <2>6. QED
    BY <1>x, <2>4, <2>5 DEF OrderInv
<1>6. UndoInv(q)
  <2>1. ASSUME phase = "rollback"
        PROVE  \E i \in 1 .. n :
                 /\ op.steps[i].in.phase = "apply" /\ op.steps[i].in.id = step.in.compensates
                 /\ op.steps[i].in.component = step.in.component
                 /\ op.steps[i].in.reference = step.in.reference
    <3>1. PICK i \in LatestRollbackEligible(a, step.in.compensates) :
            a.steps[i].in.component = step.in.component /\ a.steps[i].in.reference = step.in.reference
      BY <1>t, <2>1 DEF RollbackOK
    <3>2. i \in DOMAIN a.steps /\ a.steps[i].in.phase = "apply" /\ a.steps[i].in.id = step.in.compensates
      BY DEF LatestRollbackEligible, FinishedMutations
    <3>3. QED
      BY <1>d, <1>s, <3>1, <3>2
  <2>2. ASSUME NEW j \in 1 .. n + 1, q.steps[j].in.phase = "rollback"
        PROVE  \E i \in 1 .. j - 1 :
                 /\ q.steps[i].in.phase = "apply" /\ q.steps[i].in.id = q.steps[j].in.compensates
                 /\ q.steps[i].in.component = q.steps[j].in.component
                 /\ q.steps[i].in.reference = q.steps[j].in.reference
    <3>1. CASE j = n + 1
      <4>1. j - 1 = n
        BY <1>a, <3>1
      <4>2. QED
        BY <1>i, <1>q, <2>1, <2>2, <3>1, <4>1
    <3>2. CASE j \in 1 .. n
      <4>1. q.steps[j].in = op.steps[j].in
        BY <1>i, <3>2
      <4>2. PICK i \in 1 .. j - 1 :
              /\ op.steps[i].in.phase = "apply" /\ op.steps[i].in.id = op.steps[j].in.compensates
              /\ op.steps[i].in.component = op.steps[j].in.component
              /\ op.steps[i].in.reference = op.steps[j].in.reference
        BY <1>x, <2>2, <3>2, <4>1 DEF OpInv, UndoInv
      <4>3. i \in 1 .. n
        BY <1>a, <3>2
      <4>4. QED
        BY <1>i, <4>1, <4>2, <4>3
    <3>3. QED
      BY <1>a, <3>1, <3>2
  <2>3. QED
    BY <1>x, <2>2 DEF UndoInv
<1>7. CompleteInv(C, q) /\ RolledBackInv(q)
  BY <1>p, <1>q, PhaseStates DEF CompleteInv, RolledBackInv, Phases
<1>8. OutcomeInv(q)
  BY <1>p, <1>q, PhaseStates DEF OutcomeInv, Phases
<1>9. UntouchedInv(C, q)
  <2>1. ASSUME NEW i \in 1 .. n + 1
        PROVE  q.steps[i].in.component \in C
    <3>1. CASE i = n + 1
      BY <1>q, <1>t, <3>1
    <3>2. CASE i \in 1 .. n
      BY <1>i, <1>x, <3>2 DEF OpInv, UntouchedInv
    <3>3. QED
      BY <1>a, <3>1, <3>2
  <2>2. q.rollbackStarted => q.mutationStarted
    BY <1>b, <1>q DEF OpInv, UntouchedInv
  <2>3. q.state = "verifying" => q.steps[n + 1].in.phase = "verify" /\ n + 1 \in 1 .. n + 1
    <3>1. q.state = "verifying" => phase = "verify"
      BY <1>p, <1>q, PhaseStates DEF Phases
    <3>2. q.steps[n + 1].in.phase = phase
      BY <1>q
    <3>3. n + 1 \in 1 .. n + 1
      BY <1>a
    <3>4. QED
      BY <3>1, <3>2, <3>3
  <2>4. ASSUME ~q.mutationStarted
        PROVE  q.state \in {"preflighting", "verifying"} /\ q.failure = NoFailure
    <3>1. phase \in {"preflight", "verify"}
      BY <1>p, <1>q, <2>4 DEF IsMutation, Mode, Phases
    <3>2. QED
      BY <1>f, <1>q, <3>1, PhaseStates
  <2>5. QED
    BY <1>x, <2>1, <2>2, <2>3, <2>4 DEF UntouchedInv
<1>10. QED
  BY <1>1, <1>2, <1>3, <1>4, <1>5, <1>6, <1>7, <1>8, <1>9 DEF OpInv, q

\* The result of the running step keeps it.
LEMMA ResultKeeps ==
  ASSUME NEW w, InputsOK(w), NEW op \in OperationsOf(w), NEW C, OpInv(C, op), ~op.finished,
         NEW i \in Indices(op), Running(op, i),
         NEW status \in {"succeeded", "failed"}, NEW reason \in Reasons \cup {Empty}
  PROVE  OpInv(C, WithResult(op, i, status, reason))
<1> DEFINE q == WithResult(op, i, status, reason)
           n == Len(op.steps)
           phase == op.steps[i].in.phase
<1>n. n \in Nat /\ i = n /\ i \in 1 .. n /\ phase \in Phases
  BY StepsDomain, StepPhases DEF OpInv, RunningInv, Indices
<1>q. /\ (q.rollbackStarted <=> op.rollbackStarted) /\ (q.mutationStarted <=> op.mutationStarted)
      /\ (q.finished <=> op.finished) /\ q.failure = (IF status = "failed" THEN i ELSE op.failure)
      /\ q.state = (IF status = "succeeded" THEN PhaseState(phase)
                    ELSE IF phase = "rollback" THEN "recovery_required" ELSE "failed")
      /\ Len(q.steps) = n
      /\ \A j \in 1 .. n : j # i => q.steps[j] = op.steps[j]
      /\ q.steps[i].in = op.steps[i].in /\ q.steps[i].attempt = op.steps[i].attempt
      /\ ~q.steps[i].recovered /\ q.steps[i].status = status
  <2>1. i \in 1 .. Len(op.steps)
    BY DEF Indices
  <2>2. QED
    BY <2>1, WithResultEffect
<1>x. Indices(q) = 1 .. n /\ Indices(op) = 1 .. n
  BY <1>q DEF Indices
<1> HIDE DEF q, n
<1>i. \A j \in 1 .. n : q.steps[j].in = op.steps[j].in /\ q.steps[j].attempt = op.steps[j].attempt
  BY <1>q
<1>u. \A j \in 1 .. n : \A k \in 1 .. j - 1 : k \in 1 .. n /\ q.steps[k] = op.steps[k]
  BY <1>n, <1>q
<1>1. StateInv(q)
  BY <1>n, <1>q, PhaseStates DEF StateInv, Phases
<1>2. RunningInv(q)
  <2>1. ASSUME NEW j \in 1 .. n
        PROVE  ~q.steps[j].recovered /\ ~Running(q, j)
    <3>1. CASE j = i
      BY <1>q, <3>1 DEF Running
    <3>2. CASE j # i
      BY <1>n, <1>q, <1>x, <3>2 DEF Running, OpInv, RunningInv, n
    <3>3. QED
      BY <3>1, <3>2
  <2>2. QED
    BY <1>x, <2>1 DEF RunningInv
<1>3. FlagInv(q)
  BY <1>i, <1>q, <1>x DEF OpInv, FlagInv, IsMutation
<1>4. OnceInv(q)
  <2>1. ASSUME NEW j \in 1 .. n, NEW k \in 1 .. n, j < k
        PROVE  q.steps[j] = op.steps[j]
    BY <1>n, <1>q, <2>1
  <2>2. QED
    BY <1>i, <1>x, <2>1 DEF OpInv, OnceInv, IsMutation
<1>5. OrderInv(C, q)
  <2>1. ASSUME NEW j \in 1 .. n
        PROVE  /\ q.steps[j].in.phase \in {"apply", "verify"} =>
                    \A c \in C : \E k \in 1 .. j - 1 :
                      q.steps[k].in.component = c /\ Done(q.steps[k], "preflight", "succeeded")
               /\ q.steps[j].in.phase \in {"preflight", "apply"} =>
                    \A k \in 1 .. j - 1 : q.steps[k].in.phase # "verify"
    BY <1>i, <1>u, <1>x DEF OpInv, OrderInv
  <2>2. ASSUME NEW j \in 1 .. n, q.failure # NoFailure, j > q.failure
        PROVE  q.steps[j].in.phase = "rollback"
    BY <1>i, <1>n, <1>q, <1>x, <2>2 DEF OpInv, OrderInv
  <2>3. ASSUME NEW j \in 1 .. n, q.steps[j].in.phase = "verify"
        PROVE  q.state \notin {"approved", "preflighting", "applying"}
    <3>1. op.steps[j].in.phase = "verify" /\ (j = i \/ j \in 1 .. i - 1)
      BY <1>i, <1>n, <2>3
    <3>2. phase \notin {"preflight", "apply"}
      BY <1>x, <3>1 DEF OpInv, OrderInv
    <3>3. QED
      BY <1>n, <1>q, <3>2, PhaseStates DEF Phases
  <2>4. QED
    BY <1>x, <2>1, <2>2, <2>3 DEF OrderInv
<1>6. UndoInv(q)
  <2>1. ASSUME NEW j \in 1 .. n, q.steps[j].in.phase = "rollback"
        PROVE  \E k \in 1 .. j - 1 :
                 /\ q.steps[k].in.phase = "apply" /\ q.steps[k].in.id = q.steps[j].in.compensates
                 /\ q.steps[k].in.component = q.steps[j].in.component
                 /\ q.steps[k].in.reference = q.steps[j].in.reference
    <3>1. op.steps[j].in = q.steps[j].in
      BY <1>i
    <3>2. PICK k \in 1 .. j - 1 :
            /\ op.steps[k].in.phase = "apply" /\ op.steps[k].in.id = op.steps[j].in.compensates
            /\ op.steps[k].in.component = op.steps[j].in.component
            /\ op.steps[k].in.reference = op.steps[j].in.reference
      BY <1>x, <2>1, <3>1 DEF OpInv, UndoInv
    <3>3. q.steps[k] = op.steps[k]
      BY <1>u
    <3>4. QED
      BY <3>1, <3>2, <3>3
  <2>2. QED
    BY <1>x, <2>1 DEF UndoInv
<1>7. CompleteInv(C, q) /\ RolledBackInv(q)
  BY <1>n, <1>q, PhaseStates DEF CompleteInv, RolledBackInv, Phases
<1>8. OutcomeInv(q)
  <2>1. i # NoFailure
    BY <1>n DEF NoFailure
  <2>2. QED
    BY <1>n, <1>q, <2>1, PhaseStates DEF OutcomeInv, Phases
<1>9. UntouchedInv(C, q)
  <2>1. \A j \in 1 .. n : q.steps[j].in.component \in C
    BY <1>i, <1>x DEF OpInv, UntouchedInv
  <2>2. q.rollbackStarted => q.mutationStarted
    BY <1>q DEF OpInv, UntouchedInv
  <2>3. q.state = "verifying" => q.steps[i].in.phase = "verify"
    BY <1>n, <1>q, PhaseStates DEF Phases
  <2>4. ASSUME ~q.mutationStarted
        PROVE  /\ q.state \in {"preflighting", "verifying", "failed"}
               /\ q.failure # NoFailure => q.state = "failed"
    <3>1. ~op.mutationStarted /\ ~IsMutation(op.steps[i])
      BY <1>q, <2>4 DEF OpInv, FlagInv
    <3>2. phase \in {"preflight", "verify"}
      BY <1>n, <3>1 DEF IsMutation, Mode, Phases
    <3>3. op.state = PhaseState(phase)
      BY DEF OpInv, RunningInv
    <3>4. op.failure = NoFailure
      BY <3>1, <3>2, <3>3, PhaseStates DEF OpInv, UntouchedInv
    <3>5. QED
      BY <1>q, <3>2, <3>4, PhaseStates
  <2>5. QED
    BY <1>n, <1>x, <2>1, <2>2, <2>3, <2>4 DEF UntouchedInv
<1>10. QED
  BY <1>1, <1>2, <1>3, <1>4, <1>5, <1>6, <1>7, <1>8, <1>9 DEF OpInv, q

\* So does an outcome, or a cancellation, that says the truth.
LEMMA OutcomeKeeps ==
  ASSUME NEW w, NEW op \in OperationsOf(w), NEW C, OpInv(C, op), NEW state \in Outcomes \cup {"cancelled"},
         state \in {"cancelled", "failed"} => ~op.mutationStarted,
         state # "recovery_required" => InFlight(op) = {},
         CompleteInv(C, InState(op, state)), RolledBackInv(InState(op, state)), OutcomeInv(InState(op, state))
  PROVE  OpInv(C, InState(op, state))
<1> DEFINE q == InState(op, state)
<1>q. /\ q.state = state /\ q.finished /\ q.steps = op.steps /\ q.failure = op.failure
      /\ (q.mutationStarted <=> op.mutationStarted) /\ (q.rollbackStarted <=> op.rollbackStarted)
  <2>1. state \in States
    BY DEF Outcomes, States
  <2>2. QED
    BY <2>1, StateEffect
<1>c. CompleteInv(C, q) /\ RolledBackInv(q) /\ OutcomeInv(q)
  OBVIOUS
<1>r. state # "recovery_required" => \A i \in Indices(op) : ~Running(op, i)
  BY InFlightIs DEF OpInv
<1> HIDE DEF q
<1>1. StateInv(q)
  BY <1>q DEF StateInv, Outcomes
<1>2. RunningInv(q)
  BY <1>q, <1>r DEF OpInv, RunningInv, Running, Indices
<1>3. FlagInv(q) /\ OnceInv(q) /\ UndoInv(q)
  <2>1. FlagInv(q)
    BY <1>q DEF OpInv, FlagInv, Indices
  <2>2. OnceInv(q)
    BY <1>q DEF OpInv, OnceInv, Indices
  <2>3. UndoInv(q)
    BY <1>q DEF OpInv, UndoInv, Indices
  <2>4. QED
    BY <2>1, <2>2, <2>3
<1>4. OrderInv(C, q)
  BY <1>q DEF OpInv, OrderInv, Indices, Outcomes
<1>5. UntouchedInv(C, q)
  BY <1>q DEF OpInv, UntouchedInv, Indices, Outcomes
<1>6. QED
  BY <1>1, <1>2, <1>3, <1>4, <1>5, <1>c DEF OpInv, q

\* complete, as FinishOperation admits it.
LEMMA CompleteKeeps ==
  ASSUME NEW w, InputsOK(w), NEW op \in OperationsOf(w), NEW C, OpInv(C, op), NEW p, CanComplete(p, op),
         ApprovedComponents(p, op) = C
  PROVE  CompleteInv(C, InState(op, "complete"))
<1> DEFINE q == InState(op, "complete")
<1>q. q.steps = op.steps
  BY StateEffect DEF States
<1>d. DOMAIN op.steps = Indices(op) /\ Len(op.steps) \in Nat
  BY StepsDomain DEF Indices
<1>1. \A i \in Indices(op) : ~Running(op, i)
  BY InFlightIs DEF OpInv, CanComplete
<1>2. \A i \in Indices(op) : IsMutation(op.steps[i]) => op.steps[i].status = "succeeded"
  BY <1>d DEF CanComplete
<1>3. ASSUME NEW i \in Indices(op), op.steps[i].in.phase = "verify",
             NEW j \in Indices(op), IsMutation(op.steps[j])
      PROVE  j < i
  <2>1. op.steps[j].in.phase \in {"apply", "rollback"}
    BY <1>3 DEF IsMutation, Mode
  <2>2. op.steps[j].in.phase = "apply"
    BY <2>1 DEF OpInv, FlagInv, CanComplete
  <2>3. i \notin 1 .. j - 1 /\ i # j
    BY <1>3, <2>2 DEF OpInv, OrderInv
  <2>4. QED
    BY <1>d, <2>3 DEF Indices
<1>4. ASSUME NEW c \in C
      PROVE  \E i \in Indices(op) :
               /\ Done(op.steps[i], "verify", "succeeded") /\ op.steps[i].in.component = c
               /\ \A j \in Indices(op) : IsMutation(op.steps[j]) => j < i
  <2>1. PICK i \in DOMAIN op.steps : Done(op.steps[i], "verify", "succeeded") /\ op.steps[i].in.component = c
    BY DEF CanComplete, AllComponentsSucceededPhase, Succeeded
  <2>2. QED
    BY <1>3, <1>d, <2>1 DEF Done
<1> HIDE DEF q
<1>5. CompleteInv(C, q)
  BY <1>1, <1>2, <1>4, <1>q DEF CompleteInv, Indices, Running
<1>6. QED
  BY <1>5 DEF q

\* rolled_back, as FinishOperation admits it.
LEMMA RolledBackKeeps ==
  ASSUME NEW w, NEW op \in OperationsOf(w), NEW C, OpInv(C, op), CanReportRolledBack(op)
  PROVE  RolledBackInv(InState(op, "rolled_back"))
<1> DEFINE q == InState(op, "rolled_back")
<1>q. q.steps = op.steps
  BY StateEffect DEF States
<1>d. DOMAIN op.steps = Indices(op) /\ Len(op.steps) \in Nat
  BY StepsDomain DEF Indices
<1>1. ASSUME NEW i \in Indices(op), op.steps[i].in.phase = "apply"
      PROVE  \E j \in Indices(op) :
               /\ j > i /\ Done(op.steps[j], "rollback", "succeeded")
               /\ op.steps[j].in.compensates = op.steps[i].in.id
               /\ op.steps[j].in.component = op.steps[i].in.component
               /\ op.steps[j].in.reference = op.steps[i].in.reference
  <2>1. ~Running(op, i)
    BY InFlightIs DEF OpInv, CanReportRolledBack
  <2>2. PICK j \in Indices(op) : Done(op.steps[j], "rollback", "succeeded")
                                 /\ op.steps[j].in.compensates = op.steps[i].in.id
    BY <1>1, <1>d, <2>1 DEF CanReportRolledBack, FinishedMutations, Compensated, Running
  <2>3. PICK k \in 1 .. j - 1 :
          /\ op.steps[k].in.phase = "apply" /\ op.steps[k].in.id = op.steps[j].in.compensates
          /\ op.steps[k].in.component = op.steps[j].in.component
          /\ op.steps[k].in.reference = op.steps[j].in.reference
    BY <2>2 DEF OpInv, UndoInv, Done
  <2>4. k \in Indices(op) /\ k < j
    BY <1>d DEF Indices
  <2>5. IsMutation(op.steps[k]) /\ IsMutation(op.steps[i])
    BY <1>1, <2>3 DEF IsMutation, Mode
  <2>6. k = i
    <3>1. ~(k < i) /\ ~(i < k)
      BY <2>2, <2>3, <2>4, <2>5 DEF OpInv, OnceInv
    <3>2. QED
      BY <1>d, <2>4, <3>1 DEF Indices
  <2>7. QED
    BY <2>2, <2>3, <2>4, <2>6
<1> HIDE DEF q
<1>2. RolledBackInv(q)
  BY <1>1, <1>q DEF RolledBackInv, Indices
<1>3. QED
  BY <1>2 DEF q

\* And the beginning of a rollback.
LEMMA RollingBackKeeps ==
  ASSUME NEW w, NEW op \in OperationsOf(w), NEW C, OpInv(C, op), InFlight(op) = {}, ~op.finished,
         op.mutationStarted
  PROVE  OpInv(C, RollingBack(op))
<1> DEFINE q == RollingBack(op)
<1>q. /\ q.state = "rolling_back" /\ (q.finished <=> op.finished) /\ q.steps = op.steps /\ q.failure = op.failure
      /\ (q.mutationStarted <=> op.mutationStarted) /\ q.rollbackStarted
  BY RollingBackEffect
<1>r. \A i \in Indices(op) : ~Running(op, i)
  BY InFlightIs DEF OpInv
<1> HIDE DEF q
<1>1. StateInv(q)
  BY <1>q DEF StateInv
<1>2. RunningInv(q)
  BY <1>q, <1>r DEF OpInv, RunningInv, Running, Indices
<1>3. FlagInv(q) /\ OnceInv(q) /\ UndoInv(q)
  <2>1. FlagInv(q)
    BY <1>q DEF OpInv, FlagInv, Indices
  <2>2. OnceInv(q)
    BY <1>q DEF OpInv, OnceInv, Indices
  <2>3. UndoInv(q)
    BY <1>q DEF OpInv, UndoInv, Indices
  <2>4. QED
    BY <2>1, <2>2, <2>3
<1>4. OrderInv(C, q) /\ CompleteInv(C, q) /\ RolledBackInv(q)
  BY <1>q DEF OpInv, OrderInv, CompleteInv, RolledBackInv, Indices
<1>5. OutcomeInv(q) /\ UntouchedInv(C, q)
  BY <1>q DEF OpInv, OutcomeInv, UntouchedInv, Indices
<1>6. QED
  BY <1>1, <1>2, <1>3, <1>4, <1>5 DEF OpInv, q

-----------------------------------------------------------------------------
(* What a record that is admitted leads to, one kind of record after the other. *)

\* An operation that fits the workload and is what the log may say.
Good(w, C, op) ==
  /\ op \in OperationsOf(w) /\ OpInv(C, op)
  /\ Len(op.steps) <= w.maxSteps /\ op.failure <= w.maxSteps

\* An operation whose outcome no later call may take back.
Sealed(op) == op.finished /\ op.state \in FinalStates

\* v follows op: results are kept, and so is an outcome.
Follows(op, v) ==
  /\ v.approval = op.approval /\ (op.finished => v.finished) /\ (Sealed(op) => v = op)
  /\ Len(op.steps) <= Len(v.steps)
  /\ \A i \in Indices(op) : ~Running(op, i) => v.steps[i] = op.steps[i]

LEMMA SubmitStart ==
  ASSUME NEW w, InputsOK(w), NEW C, NEW op, Good(w, C, op), Len(op.steps) < w.maxSteps,
         NEW step \in StepsOf(w), step.status = "running", ~step.recovered,
         RetriesInFlight(op, step), step.retry => InFlight(op) # {},
         NEW p, StepTransitionOK(p, Abandon(op), step), ApprovedComponents(p, Abandon(op)) = C
  PROVE  Good(w, C, Started(op, step)) /\ Follows(op, Started(op, step))
<1>1. op \in OperationsOf(w) /\ OpInv(C, op) /\ op.failure <= w.maxSteps /\ RunningInv(op)
  BY DEF Good, OpInv
<1>2. OpInv(C, Started(op, step))
  BY <1>1, StartedKeeps
<1> DEFINE q == Started(op, step)
<1>3. /\ q \in OperationsOf(w) /\ q.approval = op.approval /\ (q.finished <=> op.finished)
      /\ q.failure = op.failure /\ Len(q.steps) = Len(op.steps) + 1
      /\ \A i \in 1 .. Len(op.steps) : q.steps[i] = Abandon(op).steps[i]
  BY <1>1, StartedEffect
<1>4. \A i \in Indices(op) : ~Running(op, i) => Abandon(op).steps[i] = op.steps[i]
  BY <1>1, AbandonSteps
<1>5. Len(op.steps) \in Nat /\ w.maxSteps \in Nat
  BY <1>1, StepsDomain DEF InputsOK
<1>u. ~op.finished
  BY <1>1, AbandonEffect DEF StepTransitionOK, SameButSteps
<1> HIDE DEF q
<1>6. Good(w, C, q) /\ Follows(op, q)
  BY <1>1, <1>2, <1>3, <1>4, <1>5, <1>u DEF Good, Follows, Sealed, Indices, q
<1>7. QED
  BY <1>6 DEF q

LEMMA SubmitResult ==
  ASSUME NEW w, InputsOK(w), NEW C, NEW op, Good(w, C, op), ~op.finished,
         NEW i \in Indices(op), Running(op, i),
         NEW status \in {"succeeded", "failed"}, NEW reason \in Reasons \cup {Empty}
  PROVE  /\ Good(w, C, WithResult(op, i, status, reason))
         /\ Follows(op, WithResult(op, i, status, reason))
<1>1. op \in OperationsOf(w) /\ OpInv(C, op) /\ i \in 1 .. Len(op.steps)
  BY DEF Good, Indices
<1> DEFINE q == WithResult(op, i, status, reason)
<1>2. OpInv(C, q)
  BY <1>1, ResultKeeps
<1>3. /\ q \in OperationsOf(w) /\ q.approval = op.approval /\ (q.finished <=> op.finished)
      /\ q.failure = (IF status = "failed" THEN i ELSE op.failure) /\ Len(q.steps) = Len(op.steps)
      /\ \A j \in 1 .. Len(op.steps) : j # i => q.steps[j] = op.steps[j]
  BY <1>1, WithResultEffect
<1>4. Len(op.steps) \in Nat /\ w.maxSteps \in Nat
  BY <1>1, StepsDomain DEF InputsOK
<1> HIDE DEF q
<1>5. Good(w, C, q)
  BY <1>1, <1>2, <1>3, <1>4 DEF Good
<1>6. Follows(op, q)
  BY <1>3, <1>4 DEF Follows, Sealed, Indices
<1>7. QED
  BY <1>5, <1>6 DEF q

\* An operation that changes in its state and flags only.
LEMMA SubmitState ==
  ASSUME NEW w, NEW C, NEW op, Good(w, C, op), NEW q \in OperationsOf(w), OpInv(C, q),
         q.approval = op.approval, op.finished => q.finished, Sealed(op) => q = op,
         q.steps = op.steps, q.failure = op.failure
  PROVE  Good(w, C, q) /\ Follows(op, q)
<1>1. Len(op.steps) \in Nat
  BY StepsDomain DEF Good
<1>2. QED
  BY <1>1 DEF Good, Follows

\* The outcome that is already there changes nothing.
LEMMA SameOutcome ==
  ASSUME NEW w, NEW op \in OperationsOf(w), op.finished
  PROVE  InState(op, op.state) = op
<1>1. op.finished = TRUE
  BY DEF OperationsOf
<1>2. QED
  BY <1>1 DEF InState, OperationsOf

LEMMA SubmitCancel ==
  ASSUME NEW w, InputsOK(w), NEW C, NEW op, Good(w, C, op), ~op.mutationStarted, InFlight(op) = {},
         op.state \in {"approved", "preflighting"}
  PROVE  Good(w, C, InState(op, "cancelled")) /\ Follows(op, InState(op, "cancelled"))
<1> DEFINE q == InState(op, "cancelled")
<1>1. op \in OperationsOf(w) /\ OpInv(C, op) /\ RunningInv(op) /\ "cancelled" \in States
  BY DEF Good, OpInv, States
<1>2. q \in OperationsOf(w) /\ q.approval = op.approval /\ q.finished /\ q.steps = op.steps
      /\ q.failure = op.failure /\ q.state = "cancelled"
  BY <1>1, StateEffect
<1>3. ~op.finished
  BY <1>1 DEF OpInv, StateInv, Outcomes
<1>4. \A i \in Indices(op) : op.steps[i].in.phase # "verify"
  BY <1>1 DEF OpInv, OrderInv
<1> HIDE DEF q
<1>5. CompleteInv(C, q) /\ RolledBackInv(q) /\ OutcomeInv(q)
  BY <1>2, <1>4 DEF CompleteInv, RolledBackInv, OutcomeInv, Indices
<1>6. OpInv(C, q)
  BY <1>1, <1>5, OutcomeKeeps DEF q
<1>7. QED
  BY <1>2, <1>3, <1>6, SubmitState DEF q, Sealed

LEMMA SubmitRollback ==
  ASSUME NEW w, InputsOK(w), NEW C, NEW op, Good(w, C, op), InFlight(op) = {}, ~op.finished,
         op.mutationStarted
  PROVE  Good(w, C, RollingBack(op)) /\ Follows(op, RollingBack(op))
<1>1. op \in OperationsOf(w) /\ OpInv(C, op)
  BY DEF Good
<1> DEFINE q == RollingBack(op)
<1>2. q \in OperationsOf(w) /\ q.approval = op.approval /\ (q.finished <=> op.finished) /\ q.steps = op.steps
      /\ q.failure = op.failure
  BY <1>1, RollingBackEffect
<1>3. OpInv(C, q)
  BY <1>1, RollingBackKeeps
<1> HIDE DEF q
<1>4. QED
  BY <1>2, <1>3, SubmitState DEF q, Sealed

\* FinishOperation, a repetition of a recorded outcome included.
LEMMA SubmitOutcome ==
  ASSUME NEW w, InputsOK(w), NEW C, NEW op, Good(w, C, op), NEW p, NEW outcome \in Outcomes,
         ApprovedComponents(p, op) = C, C # {},
         \/ op.state = outcome /\ op.finished
         \/ /\ InFlight(op) = {}
            /\ \/ outcome = "complete" /\ CanComplete(p, op)
               \/ outcome = "failed" /\ op.state = "failed" /\ ~op.mutationStarted
               \/ outcome = "rolled_back" /\ CanReportRolledBack(op)
         \/ outcome = "recovery_required" /\ RecoveryRequiredOK(op)
  PROVE  Good(w, C, InState(op, outcome)) /\ Follows(op, InState(op, outcome))
<1> DEFINE q == InState(op, outcome)
<1>1. op \in OperationsOf(w) /\ OpInv(C, op) /\ RunningInv(op) /\ outcome \in States
  BY DEF Good, OpInv, States, Outcomes
<1>2. q \in OperationsOf(w) /\ q.approval = op.approval /\ q.finished /\ q.steps = op.steps
      /\ q.failure = op.failure /\ q.state = outcome
  BY <1>1, StateEffect
<1>c. CASE op.state = outcome /\ op.finished
  <2>1. q = op
    BY <1>1, <1>c, SameOutcome
  <2> HIDE DEF q
  <2>2. QED
    BY <1>1, <1>2, <2>1, SubmitState DEF q
<1>n. CASE ~(op.state = outcome /\ op.finished)
  <2>1. outcome # "recovery_required" => InFlight(op) = {}
    BY <1>n
  <2>2. outcome = "failed" => ~op.mutationStarted
    BY <1>n
  <2>3. CompleteInv(C, q)
    <3>1. CASE outcome = "complete"
      BY <1>1, <1>n, <3>1, CompleteKeeps
    <3>2. CASE outcome # "complete"
      BY <1>2, <3>2 DEF CompleteInv
    <3>3. QED
      BY <3>1, <3>2
  <2>4. RolledBackInv(q)
    <3>1. CASE outcome = "rolled_back"
      BY <1>1, <1>n, <3>1, RolledBackKeeps
    <3>2. CASE outcome # "rolled_back"
      BY <1>2, <3>2 DEF RolledBackInv
    <3>3. QED
      BY <3>1, <3>2
  <2>5. outcome # "cancelled"
    BY DEF Outcomes
  <2> HIDE DEF q
  <2>6. OutcomeInv(q)
    <3>1. outcome = "failed" => op.failure # NoFailure
      BY <1>1, <1>n DEF OpInv, OutcomeInv
    <3>2. outcome = "rolled_back" => op.rollbackStarted
      BY <1>n DEF CanReportRolledBack
    <3>3. q.rollbackStarted <=> op.rollbackStarted
      BY <1>1, StateEffect DEF q
    <3>4. QED
      BY <1>2, <2>5, <3>1, <3>2, <3>3 DEF OutcomeInv
  <2>7. OpInv(C, q)
    BY <1>1, <2>1, <2>2, <2>3, <2>4, <2>5, <2>6, OutcomeKeeps DEF q
  <2>8. ~Sealed(op)
    <3> SUFFICES ASSUME op.finished, op.state \in FinalStates
                 PROVE  FALSE
      BY DEF Sealed
    <3>1. CASE outcome = "complete"
      <4>1. CanComplete(p, op) /\ op.state # "complete"
        BY <1>n, <3>1
      <4>2. op.failure = NoFailure /\ ~op.rollbackStarted /\ Succeeded(op, "verify") # {}
        BY <4>1 DEF CanComplete, AllComponentsSucceededPhase
      <4>3. op.state = "cancelled"
        BY <1>1, <4>1, <4>2 DEF OpInv, OutcomeInv, FinalStates
      <4>4. PICK i \in DOMAIN op.steps : Done(op.steps[i], "verify", "succeeded")
        BY <4>2 DEF Succeeded
      <4>5. i \in Indices(op)
        BY <1>1, StepsDomain DEF Indices
      <4>6. QED
        BY <1>1, <4>3, <4>4, <4>5 DEF OpInv, OutcomeInv, Done
    <3>2. CASE outcome # "complete"
      BY <1>n, <3>2 DEF CanReportRolledBack, RecoveryRequiredOK, FinalStates
    <3>3. QED
      BY <3>1, <3>2
  <2>9. QED
    BY <1>2, <2>7, <2>8, SubmitState DEF q
<1>3. QED
  BY <1>c, <1>n

-----------------------------------------------------------------------------
(* Projections. *)

\* The type of a projection.
Shape(w, p) ==
  /\ p = [approvals |-> p.approvals, operations |-> p.operations]
  /\ DOMAIN p.approvals \subseteq ApprovalId /\ DOMAIN p.operations \subseteq OperationId
  /\ p.approvals \in [DOMAIN p.approvals -> Approval]
  /\ p.operations \in [DOMAIN p.operations -> OperationsOf(w)]

\* No two operations share an approval, and at most one is unfinished.
Exclusive(p) ==
  \A o1, o2 \in DOMAIN p.operations : o1 # o2 =>
    /\ p.operations[o1].approval # p.operations[o2].approval
    /\ p.operations[o1].finished \/ p.operations[o2].finished

\* What replay of a log may build.
ProjInv(w, p) ==
  /\ Shape(w, p) /\ Exclusive(p)
  /\ \A o \in DOMAIN p.operations :
       /\ p.operations[o].approval \in DOMAIN p.approvals
       /\ Good(w, ApprovedComponents(p, p.operations[o]), p.operations[o])

\* The projection with v for one operation.
Updated(p, o, v) == [p EXCEPT !.operations[o] = v]

LEMMA UpdateEffect ==
  ASSUME NEW w, NEW p, Shape(w, p), NEW o \in DOMAIN p.operations, NEW v \in OperationsOf(w)
  PROVE  LET q == Updated(p, o, v) IN
         /\ Shape(w, q) /\ q.approvals = p.approvals
         /\ DOMAIN q.operations = DOMAIN p.operations
         /\ q.operations[o] = v
         /\ \A x \in DOMAIN p.operations : x # o => q.operations[x] = p.operations[x]
<1> DEFINE f == [p.operations EXCEPT ![o] = v]
           q == Updated(p, o, v)
<1>1. p = [approvals |-> p.approvals, operations |-> p.operations]
  BY DEF Shape
<1>2. q = [approvals |-> p.approvals, operations |-> f]
  BY <1>1 DEF Updated
<1>3. /\ f \in [DOMAIN p.operations -> OperationsOf(w)] /\ f[o] = v
      /\ \A x \in DOMAIN p.operations : x # o => f[x] = p.operations[x]
  BY DEF Shape
<1> HIDE DEF f, q
<1>4. q.approvals = p.approvals /\ q.operations = f /\ DOMAIN f = DOMAIN p.operations
  BY <1>2, <1>3
<1>5. Shape(w, q)
  BY <1>2, <1>3, <1>4 DEF Shape
<1>6. QED
  BY <1>3, <1>4, <1>5 DEF q

LEMMA NewApprovalEffect ==
  ASSUME NEW w, NEW p, Shape(w, p), NEW id \in ApprovalId, NEW a \in Approval, id \notin DOMAIN p.approvals
  PROVE  LET q == [p EXCEPT !.approvals = Put(p.approvals, id, a)] IN
         /\ Shape(w, q) /\ q.operations = p.operations /\ q.approvals = Put(p.approvals, id, a)
         /\ DOMAIN p.approvals \subseteq DOMAIN q.approvals
         /\ \A x \in DOMAIN p.approvals : q.approvals[x] = p.approvals[x]
<1> DEFINE f == Put(p.approvals, id, a)
           q == [p EXCEPT !.approvals = f]
<1>1. p = [approvals |-> p.approvals, operations |-> p.operations]
  BY DEF Shape
<1>2. q = [approvals |-> f, operations |-> p.operations]
  BY <1>1
<1>3. /\ f \in [DOMAIN p.approvals \cup {id} -> Approval] /\ DOMAIN f = DOMAIN p.approvals \cup {id}
      /\ \A x \in DOMAIN p.approvals : x # id => f[x] = p.approvals[x]
  <2>1. p.approvals \in [DOMAIN p.approvals -> Approval]
    BY DEF Shape
  <2>2. QED
    BY <2>1 DEF Put
<1> HIDE DEF f, q
<1>4. q.approvals = f /\ q.operations = p.operations
  BY <1>2
<1>5. Shape(w, q)
  BY <1>2, <1>3, <1>4 DEF Shape
<1>6. QED
  BY <1>3, <1>4, <1>5 DEF q, f

LEMMA NewOperationEffect ==
  ASSUME NEW w, NEW p, Shape(w, p), NEW o \in OperationId, NEW v \in OperationsOf(w), o \notin DOMAIN p.operations
  PROVE  LET q == [p EXCEPT !.operations = Put(p.operations, o, v)] IN
         /\ Shape(w, q) /\ q.approvals = p.approvals
         /\ DOMAIN q.operations = DOMAIN p.operations \cup {o} /\ q.operations[o] = v
         /\ \A x \in DOMAIN p.operations : q.operations[x] = p.operations[x]
<1> DEFINE f == Put(p.operations, o, v)
           q == [p EXCEPT !.operations = f]
<1>1. p = [approvals |-> p.approvals, operations |-> p.operations]
  BY DEF Shape
<1>2. q = [approvals |-> p.approvals, operations |-> f]
  BY <1>1
<1>3. /\ f \in [DOMAIN p.operations \cup {o} -> OperationsOf(w)] /\ DOMAIN f = DOMAIN p.operations \cup {o}
      /\ f[o] = v /\ \A x \in DOMAIN p.operations : x # o => f[x] = p.operations[x]
  <2>1. p.operations \in [DOMAIN p.operations -> OperationsOf(w)]
    BY DEF Shape
  <2>2. QED
    BY <2>1 DEF Put
<1> HIDE DEF f, q
<1>4. q.operations = f /\ q.approvals = p.approvals
  BY <1>2
<1>5. Shape(w, q)
  BY <1>2, <1>3, <1>4 DEF Shape
<1>6. QED
  BY <1>3, <1>4, <1>5 DEF q, f

-----------------------------------------------------------------------------
(* What a running journal sees of a logged operation. *)

\* The relation of LiveMatchesLog.
Sees(l, g) == l \in {g, MarkInterrupted(g), [MarkInterrupted(g) EXCEPT !.state = g.state]}

\* The logged operation g with its running step marked, in a state t.
WithMark(step) == [step EXCEPT !.recovered = TRUE]
View(g, t) ==
  [g EXCEPT !.steps = [i \in DOMAIN g.steps |-> IF i \in InFlight(g) THEN WithMark(g.steps[i]) ELSE g.steps[i]],
            !.state = t]
MarkState(g) ==
  IF \E i \in InFlight(g) : IsMutation(g.steps[i]) THEN "recovery_required" ELSE "retry_required"

LEMMA WithMarkEffect ==
  ASSUME NEW w, NEW step \in StepsOf(w)
  PROVE  /\ WithMark(step) \in StepsOf(w)
         /\ WithMark(step).in = step.in /\ WithMark(step).attempt = step.attempt
         /\ WithMark(step).status = step.status /\ WithMark(step).reason = step.reason
         /\ (WithMark(step).retry <=> step.retry) /\ WithMark(step).recovered
  BY DEF StepsOf, WithMark

LEMMA ViewEffect ==
  ASSUME NEW w, NEW g \in OperationsOf(w), NEW t \in States
  PROVE  /\ View(g, t) \in OperationsOf(w) /\ SameButSteps(View(g, t), g) /\ View(g, t).state = t
         /\ Len(View(g, t).steps) = Len(g.steps)
         /\ \A i \in Indices(g) :
              View(g, t).steps[i] = IF i \in InFlight(g) THEN WithMark(g.steps[i]) ELSE g.steps[i]
<1> DEFINE S == [i \in DOMAIN g.steps |-> IF i \in InFlight(g) THEN WithMark(g.steps[i]) ELSE g.steps[i]]
<1>1. View(g, t) = [g EXCEPT !.steps = S, !.state = t]
  BY DEF View
<1>2. \A i \in 1 .. Len(g.steps) :
        (IF i \in InFlight(g) THEN WithMark(g.steps[i]) ELSE g.steps[i]) \in StepsOf(w)
  BY StepsDomain, WithMarkEffect
<1>3. S \in Seq(StepsOf(w)) /\ Len(S) = Len(g.steps)
  BY <1>2, StepsDomain
<1>4. \A i \in Indices(g) : S[i] = IF i \in InFlight(g) THEN WithMark(g.steps[i]) ELSE g.steps[i]
  BY StepsDomain DEF Indices
<1> HIDE DEF S
<1> DEFINE v == [g EXCEPT !.steps = S, !.state = t]
<1>5. v \in OperationsOf(w) /\ v.steps = S /\ SameButSteps(v, g) /\ v.state = t
  BY <1>3 DEF OperationsOf, SameButSteps
<1>6. QED
  BY <1>1, <1>3, <1>4, <1>5

LEMMA SeesIs ==
  ASSUME NEW w, NEW g \in OperationsOf(w), NEW l
  PROVE  Sees(l, g) <=> (\/ l = g
                         \/ InFlight(g) # {} /\ (l = View(g, MarkState(g)) \/ l = View(g, g.state)))
<1>1. CASE InFlight(g) = {}
  <2>1. MarkInterrupted(g) = g
    BY <1>1 DEF MarkInterrupted
  <2>2. [g EXCEPT !.state = g.state] = g
    BY DEF OperationsOf
  <2>3. QED
    BY <1>1, <2>1, <2>2 DEF Sees
<1>2. CASE InFlight(g) # {}
  <2>1. MarkInterrupted(g) = View(g, MarkState(g))
    BY <1>2 DEF MarkInterrupted, View, WithMark, MarkState
  <2>2. [View(g, MarkState(g)) EXCEPT !.state = g.state] = View(g, g.state)
    BY DEF View, OperationsOf
  <2>3. QED
    BY <1>2, <2>1, <2>2 DEF Sees
<1>3. QED
  BY <1>1, <1>2

\* What the mark changes, and what it does not.
SameStep(a, b) ==
  /\ a.in = b.in /\ a.attempt = b.attempt /\ a.status = b.status /\ a.reason = b.reason
  /\ (a.retry <=> b.retry)

LEMMA SeesEffect ==
  ASSUME NEW w, NEW g \in OperationsOf(w), NEW l, Sees(l, g)
  PROVE  /\ l \in OperationsOf(w) /\ SameButSteps(l, g) /\ Len(l.steps) = Len(g.steps)
         /\ \A i \in Indices(g) :
              /\ SameStep(l.steps[i], g.steps[i])
              /\ ~Running(g, i) => l.steps[i] = g.steps[i]
         /\ InFlight(g) = {} => l = g
         /\ l.state = g.state \/ (InFlight(g) # {} /\ l.state = MarkState(g))
<1>1. g.state \in States /\ MarkState(g) \in States
  BY DEF MarkState, States, OperationsOf
<1>2. \A i \in InFlight(g) : Running(g, i)
  BY DEF InFlight, Running
<1>3. ASSUME NEW t \in States
      PROVE  /\ View(g, t) \in OperationsOf(w) /\ SameButSteps(View(g, t), g) /\ View(g, t).state = t
             /\ Len(View(g, t).steps) = Len(g.steps)
             /\ \A i \in Indices(g) :
                  /\ SameStep(View(g, t).steps[i], g.steps[i])
                  /\ ~Running(g, i) => View(g, t).steps[i] = g.steps[i]
  <2>1. \A i \in Indices(g) : g.steps[i] \in StepsOf(w)
    BY StepsDomain DEF Indices
  <2>2. \A i \in Indices(g) : SameStep(WithMark(g.steps[i]), g.steps[i])
    BY <2>1, WithMarkEffect DEF SameStep
  <2>3. \A i \in Indices(g) : SameStep(g.steps[i], g.steps[i])
    BY DEF SameStep
  <2>4. QED
    BY <1>2, <2>2, <2>3, ViewEffect
<1>4. CASE l = g
  BY <1>4 DEF SameButSteps, SameStep
<1>5. CASE InFlight(g) # {} /\ l = View(g, MarkState(g))
  BY <1>1, <1>3, <1>5
<1>6. CASE InFlight(g) # {} /\ l = View(g, g.state)
  BY <1>1, <1>3, <1>6
<1>7. QED
  BY <1>4, <1>5, <1>6, SeesIs

\* The lookups do not tell them apart.
LEMMA SeesLookups ==
  ASSUME NEW w, NEW g \in OperationsOf(w), NEW l, Sees(l, g)
  PROVE  /\ InFlight(l) = InFlight(g)
         /\ \A id, attempt : FindStep(l, id, attempt) = FindStep(g, id, attempt)
         /\ \A i \in Indices(g) : (Running(l, i) <=> Running(g, i)) /\ (IsMutation(l.steps[i]) <=> IsMutation(g.steps[i]))
<1>1. /\ l \in OperationsOf(w) /\ Len(l.steps) = Len(g.steps)
      /\ \A i \in Indices(g) : SameStep(l.steps[i], g.steps[i])
  BY SeesEffect
<1>2. DOMAIN l.steps = Indices(g) /\ DOMAIN g.steps = Indices(g)
  BY <1>1, StepsDomain DEF Indices
<1>3. \A i \in Indices(g) : /\ l.steps[i].in = g.steps[i].in /\ l.steps[i].attempt = g.steps[i].attempt
                            /\ l.steps[i].status = g.steps[i].status
  BY <1>1 DEF SameStep
<1>4. InFlight(l) = InFlight(g)
  BY <1>2, <1>3 DEF InFlight
<1>5. ASSUME NEW id, NEW attempt
      PROVE  FindStep(l, id, attempt) = FindStep(g, id, attempt)
  BY <1>2, <1>3 DEF FindStep
<1>6. \A i \in Indices(g) : (Running(l, i) <=> Running(g, i)) /\ (IsMutation(l.steps[i]) <=> IsMutation(g.steps[i]))
  BY <1>3 DEF Running, IsMutation
<1>7. QED
  BY <1>4, <1>5, <1>6

\* Once the running step is given up, only the states may differ.
LEMMA AbandonSame ==
  ASSUME NEW w, NEW g \in OperationsOf(w), NEW l, Sees(l, g)
  PROVE  /\ Abandon(l) \in OperationsOf(w) /\ Abandon(g) \in OperationsOf(w)
         /\ Abandon(l).steps = Abandon(g).steps /\ SameButSteps(Abandon(l), Abandon(g))
         /\ Abandon(l).state = l.state /\ Abandon(g).state = g.state
<1>1. /\ l \in OperationsOf(w) /\ SameButSteps(l, g) /\ Len(l.steps) = Len(g.steps)
      /\ \A i \in Indices(g) : /\ SameStep(l.steps[i], g.steps[i])
                               /\ ~Running(g, i) => l.steps[i] = g.steps[i]
      /\ InFlight(g) = {} => l = g
  BY SeesEffect
<1>2. InFlight(l) = InFlight(g)
  BY SeesLookups
<1>3. /\ Abandon(l) \in OperationsOf(w) /\ SameButSteps(Abandon(l), l) /\ Abandon(l).state = l.state
      /\ Len(Abandon(l).steps) = Len(l.steps)
      /\ \A i \in 1 .. Len(l.steps) :
           Abandon(l).steps[i] = IF i \in InFlight(l) THEN GivenUp(l.steps[i]) ELSE l.steps[i]
  BY <1>1, AbandonEffect
<1>4. /\ Abandon(g) \in OperationsOf(w) /\ SameButSteps(Abandon(g), g) /\ Abandon(g).state = g.state
      /\ Len(Abandon(g).steps) = Len(g.steps)
      /\ \A i \in 1 .. Len(g.steps) :
           Abandon(g).steps[i] = IF i \in InFlight(g) THEN GivenUp(g.steps[i]) ELSE g.steps[i]
  BY AbandonEffect
<1>5. ASSUME NEW i \in Indices(g)
      PROVE  GivenUp(l.steps[i]) = GivenUp(g.steps[i]) /\ (i \notin InFlight(g) => l.steps[i] = g.steps[i])
  <2>1. g.steps[i] \in StepsOf(w)
    BY StepsDomain DEF Indices
  <2>2. GivenUp(WithMark(g.steps[i])) = GivenUp(g.steps[i])
    BY <2>1 DEF GivenUp, WithMark, StepsOf
  <2>3. g.state \in States /\ MarkState(g) \in States
    BY DEF MarkState, States, OperationsOf
  <2>4. \/ l.steps[i] = g.steps[i]
        \/ i \in InFlight(g) /\ l.steps[i] = WithMark(g.steps[i])
    <3>1. \A t \in States : View(g, t).steps[i] = IF i \in InFlight(g) THEN WithMark(g.steps[i]) ELSE g.steps[i]
      BY ViewEffect
    <3>2. l = g \/ l = View(g, MarkState(g)) \/ l = View(g, g.state)
      BY SeesIs
    <3>3. QED
      BY <2>3, <3>1, <3>2
  <2>5. QED
    BY <2>2, <2>4
<1>6. \A i \in 1 .. Len(g.steps) : Abandon(l).steps[i] = Abandon(g).steps[i]
  BY <1>1, <1>2, <1>3, <1>4, <1>5 DEF Indices
<1>7. /\ Abandon(l).steps \in Seq(StepsOf(w)) /\ Abandon(g).steps \in Seq(StepsOf(w))
      /\ Len(Abandon(l).steps) = Len(g.steps) /\ Len(Abandon(g).steps) = Len(g.steps)
  BY <1>1, <1>3, <1>4, StepsDomain
<1>8. Abandon(l).steps = Abandon(g).steps
  BY <1>6, <1>7
<1>9. SameButSteps(Abandon(l), Abandon(g))
  BY <1>1, <1>3, <1>4 DEF SameButSteps
<1>10. QED
  BY <1>3, <1>4, <1>8, <1>9

-----------------------------------------------------------------------------
(* What the running journal admits, its log admits, with what it sees of   *)
(* the outcome.  Again one kind of record after the other.                 *)

\* validateStepTransition looks at the marks of no step, and takes a retry in
\* the state of its phase as well as in the state the mark implies.
LEMMA TransitionSame ==
  ASSUME NEW p, NEW q, NEW a, NEW b, NEW step, step.in.phase \in Phases,
         StepTransitionOK(p, a, step), ApprovedComponents(q, b) = ApprovedComponents(p, a),
         b.steps = a.steps, SameButSteps(a, b),
         \/ b.state = a.state
         \/ step.in.phase = "preflight" /\ b.state = "preflighting"
         \/ step.in.phase = "verify" /\ b.state = "verifying"
  PROVE  StepTransitionOK(q, b, step)
<1>1. /\ a.state \notin {"complete", "rolled_back", "cancelled"} /\ ~a.finished
      /\ step.in.component \in ApprovedComponents(p, a)
      /\ AttemptOK(a, step) /\ DigestUnused(a, step)
      /\ step.in.phase = "preflight" => PreflightOK(a)
      /\ step.in.phase = "apply" => ApplyOK(p, a)
      /\ step.in.phase = "verify" => VerifyOK(p, a)
      /\ step.in.phase = "rollback" => RollbackOK(a, step.in)
  BY TransitionFacts
<1>2. AttemptOK(b, step) /\ DigestUnused(b, step)
  <2>1. LatestStepByID(b, step.in.id) = LatestStepByID(a, step.in.id)
    BY DEF LatestStepByID
  <2>2. AttemptOK(b, step)
    BY <1>1, <2>1 DEF AttemptOK
  <2>3. DigestUnused(b, step)
    BY <1>1 DEF DigestUnused
  <2>4. QED
    BY <2>2, <2>3
<1>3. Succeeded(b, "preflight") = Succeeded(a, "preflight")
  BY DEF Succeeded
<1>4. CASE step.in.phase = "preflight"
  BY <1>1, <1>2, <1>4 DEF StepTransitionOK, PreflightOK, SameButSteps
<1>5. CASE step.in.phase = "apply"
  <2>1. ApplyOK(q, b)
    BY <1>1, <1>3, <1>5 DEF ApplyOK, AllComponentsSucceededPhase, SameButSteps
  <2>2. QED
    BY <1>1, <1>2, <1>5, <2>1 DEF StepTransitionOK, SameButSteps
<1>6. CASE step.in.phase = "verify"
  <2>1. VerifyOK(q, b)
    BY <1>1, <1>3, <1>6 DEF VerifyOK, AllComponentsSucceededPhase, SameButSteps
  <2>2. QED
    BY <1>1, <1>2, <1>6, <2>1 DEF StepTransitionOK, SameButSteps
<1>7. CASE step.in.phase = "rollback"
  <2>1. RollbackOK(b, step.in)
    <3>1. Compensated(b, step.in.compensates) <=> Compensated(a, step.in.compensates)
      BY DEF Compensated
    <3>2. LatestRollbackEligible(b, step.in.compensates) = LatestRollbackEligible(a, step.in.compensates)
      BY DEF LatestRollbackEligible, FinishedMutations
    <3>3. QED
      BY <1>1, <1>7, <3>1, <3>2 DEF RollbackOK, SameButSteps
  <2>2. QED
    BY <1>1, <1>2, <1>7, <2>1 DEF StepTransitionOK, SameButSteps
<1>8. QED
  BY <1>4, <1>5, <1>6, <1>7 DEF Phases

LEMMA MatchStart ==
  ASSUME NEW w, InputsOK(w), NEW C, NEW g, Good(w, C, g), NEW l, Sees(l, g),
         NEW step \in StepsOf(w), RetriesInFlight(l, step),
         NEW p, StepTransitionOK(p, Abandon(l), step), ApprovedComponents(p, Abandon(l)) = C,
         NEW q, ApprovedComponents(q, Abandon(g)) = C
  PROVE  /\ RetriesInFlight(g, step) /\ StepTransitionOK(q, Abandon(g), step)
         /\ Started(l, step) = Started(g, step)
<1>g. g \in OperationsOf(w) /\ OpInv(C, g) /\ RunningInv(g)
  BY DEF Good, OpInv
<1>p. step.in.phase \in Phases
  BY StepPhases
<1>s. /\ l \in OperationsOf(w) /\ SameButSteps(l, g)
      /\ \A i \in Indices(g) : SameStep(l.steps[i], g.steps[i])
      /\ InFlight(g) = {} => l = g
  BY <1>g, SeesEffect
<1>l. InFlight(l) = InFlight(g)
      /\ \A i \in Indices(g) : IsMutation(l.steps[i]) <=> IsMutation(g.steps[i])
  BY <1>g, SeesLookups
<1>f. \A i \in InFlight(g) : i \in Indices(g) /\ Running(g, i)
  BY <1>g, InFlightIs
<1>1. RetriesInFlight(g, step)
  BY <1>f, <1>l, <1>s DEF RetriesInFlight, SameStep
<1>a. /\ Abandon(l) \in OperationsOf(w) /\ Abandon(g) \in OperationsOf(w)
      /\ Abandon(l).steps = Abandon(g).steps /\ SameButSteps(Abandon(l), Abandon(g))
      /\ Abandon(l).state = l.state /\ Abandon(g).state = g.state
  BY <1>g, AbandonSame
<1>2. \/ g.state = l.state
      \/ step.in.phase = "preflight" /\ g.state = "preflighting"
      \/ step.in.phase = "verify" /\ g.state = "verifying"
  <2>1. SUFFICES ASSUME NEW i \in InFlight(g)
                 PROVE  \/ step.in.phase = "preflight" /\ g.state = "preflighting"
                        \/ step.in.phase = "verify" /\ g.state = "verifying"
    BY <1>s
  <2>2. g.steps[i].in.phase = step.in.phase /\ ~IsMutation(g.steps[i])
    BY <1>1 DEF RetriesInFlight
  <2>3. step.in.phase \in {"preflight", "verify"}
    BY <1>p, <2>2 DEF IsMutation, Mode, Phases
  <2>4. ~Abandon(l).finished
    BY <1>p, TransitionFacts
  <2>5. ~g.finished
    BY <1>s, <1>a, <2>4, AbandonEffect DEF SameButSteps
  <2>6. g.state = PhaseState(step.in.phase)
    BY <1>f, <1>g, <2>2, <2>5 DEF RunningInv
  <2>7. QED
    BY <2>3, <2>6, PhaseStates
<1>3. StepTransitionOK(q, Abandon(g), step)
  <2> DEFINE al == Abandon(l)
             ag == Abandon(g)
  <2>1. /\ StepTransitionOK(p, al, step) /\ ApprovedComponents(q, ag) = ApprovedComponents(p, al)
        /\ ag.steps = al.steps /\ SameButSteps(al, ag)
        /\ \/ ag.state = al.state
           \/ step.in.phase = "preflight" /\ ag.state = "preflighting"
           \/ step.in.phase = "verify" /\ ag.state = "verifying"
    BY <1>2, <1>a
  <2> HIDE DEF al, ag
  <2>2. StepTransitionOK(q, ag, step)
    BY <1>p, <2>1, TransitionSame
  <2>3. QED
    BY <2>2 DEF ag
<1>4. Started(l, step) = Started(g, step)
  <2> DEFINE al == Abandon(l)
             ag == Abandon(g)
  <2>1. /\ al \in OperationsOf(w) /\ ag \in OperationsOf(w) /\ al.steps = ag.steps
        /\ al.approval = ag.approval /\ al.plan = ag.plan /\ al.startedAt = ag.startedAt
        /\ al.failure = ag.failure
    BY <1>a DEF SameButSteps
  <2>2. al.mutationStarted = ag.mutationStarted /\ al.rollbackStarted = ag.rollbackStarted
        /\ al.finished = ag.finished
    BY <1>a, Zenon DEF SameButSteps, OperationsOf
  <2> HIDE DEF al, ag
  <2>3. [al EXCEPT !.state = PhaseState(step.in.phase)] = [ag EXCEPT !.state = PhaseState(step.in.phase)]
    BY <2>1, <2>2 DEF OperationsOf
  <2>4. QED
    BY <2>1, <2>2, <2>3 DEF Started, OperationsOf, al, ag
<1>5. QED
  BY <1>1, <1>3, <1>4

LEMMA MatchResult ==
  ASSUME NEW w, InputsOK(w), NEW C, NEW g, Good(w, C, g), NEW l, Sees(l, g),
         NEW i \in Indices(g), Running(g, i),
         NEW status \in {"succeeded", "failed"}, NEW reason \in Reasons \cup {Empty}
  PROVE  WithResult(l, i, status, reason) = WithResult(g, i, status, reason)
<1>g. g \in OperationsOf(w) /\ OpInv(C, g) /\ RunningInv(g)
  BY DEF Good, OpInv
<1>f. i \in InFlight(g) /\ \A j \in Indices(g) : j # i => j \notin InFlight(g)
  BY <1>g, InFlightIs
<1>1. SUFFICES ASSUME NEW t \in States
               PROVE  WithResult(View(g, t), i, status, reason) = WithResult(g, i, status, reason)
  <2>1. g.state \in States /\ MarkState(g) \in States
    BY <1>g DEF MarkState, States, OperationsOf
  <2>2. l = g \/ l = View(g, MarkState(g)) \/ l = View(g, g.state)
    BY <1>g, SeesIs
  <2>3. QED
    BY <1>1, <2>1, <2>2
<1> DEFINE v == View(g, t)
           R(s) == [s EXCEPT !.status = status, !.reason = reason, !.recovered = FALSE]
           f(op) == IF status = "failed" THEN i ELSE op.failure
           u(op) == IF status = "succeeded" THEN PhaseState(op.steps[i].in.phase)
                    ELSE IF op.steps[i].in.phase = "rollback" THEN "recovery_required" ELSE "failed"
           S(op) == [op.steps EXCEPT ![i] = R(op.steps[i])]
<1>2. /\ v \in OperationsOf(w) /\ SameButSteps(v, g) /\ Len(v.steps) = Len(g.steps)
      /\ v.steps[i] = WithMark(g.steps[i])
      /\ \A j \in Indices(g) : j # i => v.steps[j] = g.steps[j]
  BY <1>f, <1>g, ViewEffect
<1>3. g.steps[i] \in StepsOf(w)
  BY <1>g, StepsDomain DEF Indices
<1>4. R(WithMark(g.steps[i])) = R(g.steps[i]) /\ v.steps[i].in = g.steps[i].in
  BY <1>2, <1>3 DEF WithMark, StepsOf
<1>5. /\ DOMAIN v.steps = Indices(g) /\ DOMAIN g.steps = Indices(g) /\ v.steps \in Seq(StepsOf(w))
      /\ g.steps \in Seq(StepsOf(w))
  BY <1>2, <1>g, StepsDomain DEF Indices
<1> HIDE DEF v, R
<1>6. S(v) = S(g)
  BY <1>2, <1>4, <1>5
<1>7. f(v) = f(g) /\ u(v) = u(g)
  BY <1>2, <1>4 DEF SameButSteps
<1>8. ASSUME NEW op \in OperationsOf(w)
      PROVE  WithResult(op, i, status, reason) = [op EXCEPT !.steps = S(op), !.failure = f(op), !.state = u(op)]
  BY DEF WithResult, OperationsOf, R
<1> HIDE DEF S, f, u
<1>9. [v EXCEPT !.steps = S(g), !.failure = f(g), !.state = u(g)] = [g EXCEPT !.steps = S(g), !.failure = f(g), !.state = u(g)]
  <2>1. v = [g EXCEPT !.steps = v.steps, !.state = t]
    BY <1>g DEF v, View, OperationsOf
  <2>2. QED
    BY <1>g, <2>1 DEF OperationsOf
<1>10. QED
  BY <1>2, <1>6, <1>7, <1>8, <1>9, <1>g DEF v

\* An outcome over a running step is recovery_required, and the mark stays.
LEMMA MatchOutcome ==
  ASSUME NEW w, InputsOK(w), NEW C, NEW g, Good(w, C, g), NEW l, Sees(l, g), RecoveryRequiredOK(l)
  PROVE  /\ RecoveryRequiredOK(g)
         /\ Sees(InState(l, "recovery_required"), InState(g, "recovery_required"))
<1>g. g \in OperationsOf(w) /\ OpInv(C, g) /\ RunningInv(g)
  BY DEF Good, OpInv
<1>s. /\ l \in OperationsOf(w) /\ SameButSteps(l, g) /\ (InFlight(g) = {} => l = g)
      /\ l.state = g.state \/ (InFlight(g) # {} /\ l.state = MarkState(g))
  BY <1>g, SeesEffect
<1>l. InFlight(l) = InFlight(g)
      /\ \A i \in Indices(g) : IsMutation(l.steps[i]) <=> IsMutation(g.steps[i])
  BY <1>g, SeesLookups
<1>f. \A i \in InFlight(g) : i \in Indices(g) /\ Running(g, i)
  BY <1>g, InFlightIs
<1>m. ASSUME NEW i \in InFlight(g), IsMutation(g.steps[i])
      PROVE  g.state = "recovery_required" \/ (g.mutationStarted /\ ~g.finished)
  <2>1. g.mutationStarted
    BY <1>f, <1>g, <1>m DEF OpInv, FlagInv
  <2>2. g.finished => g.state = "recovery_required"
    BY <1>f, <1>g DEF RunningInv
  <2>3. QED
    BY <2>1, <2>2
<1>1. g.state = "recovery_required" \/ (g.mutationStarted /\ ~g.finished)
  <2>1. CASE l.state = "recovery_required"
    <3>1. g.state = "recovery_required" \/ \E i \in InFlight(g) : IsMutation(g.steps[i])
      BY <1>s, <2>1 DEF MarkState
    <3>2. QED
      BY <1>m, <3>1
  <2>2. CASE \E i \in InFlight(l) : IsMutation(l.steps[i])
    BY <1>f, <1>l, <1>m, <2>2
  <2>3. CASE l.mutationStarted /\ ~l.finished
    BY <1>s, <2>3 DEF SameButSteps
  <2>4. QED
    BY <2>1, <2>2, <2>3 DEF RecoveryRequiredOK
<1>2. RecoveryRequiredOK(g)
  BY <1>1 DEF RecoveryRequiredOK
<1> DEFINE h == InState(g, "recovery_required")
<1>3. h \in OperationsOf(w) /\ h.steps = g.steps /\ h.state = "recovery_required"
  BY <1>g, StateEffect DEF States
<1>4. InFlight(h) = InFlight(g)
  BY <1>3 DEF InFlight
<1>5. ASSUME NEW t \in States
      PROVE  InState(View(g, t), "recovery_required") = View(h, "recovery_required")
  <2> DEFINE S == [i \in DOMAIN g.steps |-> IF i \in InFlight(g) THEN WithMark(g.steps[i]) ELSE g.steps[i]]
  <2>1. View(g, t) = [g EXCEPT !.steps = S, !.state = t]
    BY DEF View
  <2>2. View(h, "recovery_required") = [h EXCEPT !.steps = S, !.state = "recovery_required"]
    BY <1>3, <1>4 DEF View
  <2> HIDE DEF S
  <2>3. QED
    BY <1>g, <2>1, <2>2 DEF InState, OperationsOf
<1>6. Sees(InState(l, "recovery_required"), h)
  <2>1. g.state \in States /\ MarkState(g) \in States
    BY <1>g DEF MarkState, States, OperationsOf
  <2>2. l = g \/ (InFlight(g) # {} /\ (l = View(g, MarkState(g)) \/ l = View(g, g.state)))
    BY <1>g, SeesIs
  <2>3. InState(l, "recovery_required") = h \/ (InFlight(h) # {} /\ InState(l, "recovery_required") = View(h, h.state))
    BY <1>3, <1>4, <1>5, <2>1, <2>2
  <2> HIDE DEF h
  <2>4. QED
    BY <1>3, <2>3, SeesIs
<1>7. QED
  BY <1>2, <1>6

-----------------------------------------------------------------------------
(* The projection in memory and the one the log yields. *)

\* LiveMatchesLog for an open journal.
Matches(p, q) ==
  /\ p.approvals = q.approvals /\ DOMAIN p.operations = DOMAIN q.operations
  /\ \A o \in DOMAIN p.operations : Sees(p.operations[o], q.operations[o])

\* Results and outcomes are kept, and a running step is followed by another only
\* once it is known to be interrupted.
KeptOp(l, v) ==
  /\ Len(l.steps) <= Len(v.steps)
  /\ l.finished => v.finished
  /\ Sealed(l) => v = l
  /\ \A i \in Indices(l) :
       /\ ~Running(l, i) => v.steps[i] = l.steps[i]
       /\ Running(l, i) /\ Len(l.steps) < Len(v.steps) => l.steps[i].recovered
Kept(p, q) ==
  \A o \in DOMAIN p.operations : o \in DOMAIN q.operations /\ KeptOp(p.operations[o], q.operations[o])

\* A sealed operation runs nothing, so that Open has nothing to mark.
LEMMA SealedSees ==
  ASSUME NEW w, NEW g \in OperationsOf(w), RunningInv(g), NEW l, Sees(l, g)
  PROVE  /\ Sealed(l) \/ Sealed(g) => l = g
         /\ l.finished <=> g.finished
<1>1. /\ InFlight(g) = {} => l = g
      /\ l.state = g.state \/ (InFlight(g) # {} /\ l.state = MarkState(g))
      /\ (l.finished <=> g.finished)
  BY SeesEffect DEF SameButSteps
<1>2. ASSUME InFlight(g) # {}, g.finished
      PROVE  g.state = "recovery_required"
  <2>1. PICK i \in Indices(g) : Running(g, i)
    BY <1>2, InFlightIs
  <2>2. QED
    BY <1>2, <2>1 DEF RunningInv
<1>3. MarkState(g) \notin FinalStates /\ "recovery_required" \notin FinalStates
  BY DEF MarkState, FinalStates
<1>4. QED
  BY <1>1, <1>2, <1>3 DEF Sealed

LEMMA KeptSees ==
  ASSUME NEW w, NEW g \in OperationsOf(w), RunningInv(g), NEW l, Sees(l, g)
  PROVE  KeptOp(l, g)
<1>1. /\ Len(l.steps) = Len(g.steps)
      /\ \A i \in Indices(g) : ~Running(g, i) => l.steps[i] = g.steps[i]
  BY SeesEffect
<1>2. \A i \in Indices(g) : Running(l, i) <=> Running(g, i)
  BY SeesLookups
<1>3. Len(g.steps) \in Nat
  BY StepsDomain
<1>4. (Sealed(l) => g = l) /\ (l.finished => g.finished)
  BY SealedSees
<1>5. QED
  BY <1>1, <1>2, <1>3, <1>4 DEF KeptOp, Indices

LEMMA KeptFollows ==
  ASSUME NEW w, NEW g \in OperationsOf(w), RunningInv(g), NEW l, Sees(l, g), NEW v, Follows(g, v),
         Len(l.steps) < Len(v.steps) => \A i \in Indices(l) : Running(l, i) => l.steps[i].recovered
  PROVE  KeptOp(l, v)
<1>1. /\ Len(l.steps) = Len(g.steps)
      /\ \A i \in Indices(g) : ~Running(g, i) => l.steps[i] = g.steps[i]
  BY SeesEffect
<1>2. \A i \in Indices(g) : Running(l, i) <=> Running(g, i)
  BY SeesLookups
<1>3. (Sealed(l) => v = l) /\ (l.finished => v.finished)
  BY SealedSees DEF Follows
<1>4. QED
  BY <1>1, <1>2, <1>3 DEF KeptOp, Follows, Indices

LEMMA KeptThenSees ==
  ASSUME NEW w, NEW l \in OperationsOf(w), NEW v \in OperationsOf(w), RunningInv(v), KeptOp(l, v), NEW m, Sees(m, v)
  PROVE  KeptOp(l, m)
<1>1. /\ Len(m.steps) = Len(v.steps)
      /\ \A i \in Indices(v) : ~Running(v, i) => m.steps[i] = v.steps[i]
  BY SeesEffect
<1>2. Len(l.steps) \in Nat /\ Len(v.steps) \in Nat
  BY StepsDomain
<1>3. ASSUME NEW i \in Indices(l), ~Running(l, i)
      PROVE  m.steps[i] = l.steps[i]
  <2>1. v.steps[i] = l.steps[i] /\ ~Running(v, i)
    BY <1>3 DEF KeptOp, Running
  <2>2. i \in Indices(v)
    BY <1>2 DEF KeptOp, Indices
  <2>3. QED
    BY <1>1, <2>1, <2>2
<1>4. (Sealed(l) => m = l) /\ (l.finished => m.finished)
  <2>1. (Sealed(v) => m = v) /\ (m.finished <=> v.finished)
    BY SealedSees
  <2>2. QED
    BY <2>1 DEF KeptOp
<1>5. QED
  BY <1>1, <1>3, <1>4 DEF KeptOp

\* Keeps, one operation at a time.
KeepsOp(l, v) ==
  /\ \A i \in DOMAIN l.steps :
       /\ i \in DOMAIN v.steps
       /\ l.steps[i].status # "running" => v.steps[i] = l.steps[i]
  /\ l.finished => v.finished
  /\ Sealed(l) => v = l

LEMMA KeepsIs ==
  ASSUME NEW p, NEW q
  PROVE  Keeps(p, q) <=>
           \A o \in DOMAIN p.operations :
             o \in DOMAIN q.operations /\ KeepsOp(p.operations[o], q.operations[o])
  BY DEF Keeps, KeepsOp, Sealed

LEMMA KeepsSelf ==
  ASSUME NEW p
  PROVE  Keeps(p, p)
  BY DEF Keeps

LEMMA KeepsTransitive ==
  ASSUME NEW p, NEW q, NEW r, Keeps(p, q), Keeps(q, r)
  PROVE  Keeps(p, r)
<1>1. ASSUME NEW o \in DOMAIN p.operations
      PROVE  o \in DOMAIN r.operations /\ KeepsOp(p.operations[o], r.operations[o])
  <2>1. /\ o \in DOMAIN q.operations /\ KeepsOp(p.operations[o], q.operations[o])
        /\ o \in DOMAIN r.operations /\ KeepsOp(q.operations[o], r.operations[o])
    BY KeepsIs
  <2>2. QED
    BY <2>1 DEF KeepsOp
<1>2. QED
  BY <1>1, KeepsIs

\* What a running journal keeps is kept.
LEMMA KeptIsKeeps ==
  ASSUME NEW w, NEW v, NEW p, NEW q, Kept(p, q),
         \A o \in DOMAIN p.operations : p.operations[o] \in OperationsOf(w),
         \A o \in DOMAIN q.operations : q.operations[o] \in OperationsOf(v)
  PROVE  Keeps(p, q)
<1>1. ASSUME NEW o \in DOMAIN p.operations
      PROVE  o \in DOMAIN q.operations /\ KeepsOp(p.operations[o], q.operations[o])
  <2>1. o \in DOMAIN q.operations /\ KeptOp(p.operations[o], q.operations[o])
    BY DEF Kept
  <2>2. /\ DOMAIN p.operations[o].steps = Indices(p.operations[o]) /\ Len(p.operations[o].steps) \in Nat
        /\ DOMAIN q.operations[o].steps = Indices(q.operations[o]) /\ Len(q.operations[o].steps) \in Nat
    BY <2>1, StepsDomain DEF Indices
  <2>3. QED
    BY <2>1, <2>2 DEF KeptOp, KeepsOp, Indices, Running
<1>2. QED
  BY <1>1, KeepsIs

\* A journal that shows what its log says shows what the log keeps.
LEMMA KeepsThenMatches ==
  ASSUME NEW w, NEW p, NEW q, ProjInv(w, q), Keeps(p, q), NEW r, Matches(r, q)
  PROVE  Keeps(p, r)
<1>1. ASSUME NEW o \in DOMAIN p.operations
      PROVE  o \in DOMAIN r.operations /\ KeepsOp(p.operations[o], r.operations[o])
  <2> DEFINE g == q.operations[o]
             l == r.operations[o]
  <2>1. /\ o \in DOMAIN q.operations /\ KeepsOp(p.operations[o], g)
        /\ o \in DOMAIN r.operations /\ Sees(l, g)
    BY KeepsIs DEF Matches
  <2>2. g \in OperationsOf(w) /\ RunningInv(g)
    BY <2>1 DEF ProjInv, Good, OpInv
  <2> HIDE DEF g, l
  <2>3. /\ Len(l.steps) = Len(g.steps)
        /\ \A i \in Indices(g) : ~Running(g, i) => l.steps[i] = g.steps[i]
    BY <2>1, <2>2, SeesEffect
  <2>4. l \in OperationsOf(w)
    BY <2>1, <2>2, SeesEffect
  <2>5. DOMAIN g.steps = Indices(g) /\ DOMAIN l.steps = Indices(g)
    BY <2>2, <2>3, <2>4, StepsDomain DEF Indices
  <2>6. (Sealed(g) => l = g) /\ (g.finished => l.finished)
    BY <2>1, <2>2, SealedSees
  <2>7. QED
    BY <2>1, <2>3, <2>5, <2>6 DEF KeepsOp, Running, g, l
<1>2. QED
  BY <1>1, KeepsIs

\* The log keeps its own results when the journal that shows it does.
LEMMA LogKeeps ==
  ASSUME NEW w, NEW p, NEW s, ProjInv(w, s), Matches(p, s), NEW q, ProjInv(w, q), Kept(p, q)
  PROVE  Keeps(s, q)
<1>1. ASSUME NEW o \in DOMAIN s.operations
      PROVE  o \in DOMAIN q.operations /\ KeepsOp(s.operations[o], q.operations[o])
  <2> DEFINE g == s.operations[o]
             l == p.operations[o]
             v == q.operations[o]
  <2>1. /\ o \in DOMAIN p.operations /\ Sees(l, g)
        /\ o \in DOMAIN q.operations /\ KeptOp(l, v)
    BY DEF Matches, Kept
  <2>2. g \in OperationsOf(w) /\ RunningInv(g) /\ v \in OperationsOf(w)
    BY <2>1 DEF ProjInv, Good, OpInv
  <2> HIDE DEF g, l, v
  <2>3. /\ Len(l.steps) = Len(g.steps)
        /\ \A i \in Indices(g) : ~Running(g, i) => l.steps[i] = g.steps[i]
    BY <2>1, <2>2, SeesEffect
  <2>4. \A i \in Indices(g) : Running(l, i) <=> Running(g, i)
    BY <2>1, <2>2, SeesLookups
  <2>5. /\ DOMAIN g.steps = Indices(g) /\ DOMAIN v.steps = Indices(v)
        /\ Len(g.steps) \in Nat /\ Len(v.steps) \in Nat
    BY <2>2, StepsDomain DEF Indices
  <2>6. (Sealed(g) => l = g) /\ (g.finished => l.finished)
    BY <2>1, <2>2, SealedSees
  <2>7. (Sealed(g) => v = g) /\ (g.finished => v.finished)
    BY <2>1, <2>6 DEF KeptOp
  <2>8. \A i \in Indices(g) : i \in Indices(v) /\ (~Running(g, i) => v.steps[i] = g.steps[i])
    BY <2>1, <2>3, <2>4, <2>5 DEF KeptOp, Indices
  <2>9. QED
    BY <2>1, <2>5, <2>7, <2>8 DEF KeepsOp, Running, g, v
<1>2. QED
  BY <1>1, KeepsIs

\* The log leads to q, the running journal to r; p is what it was before.
Settled(w, p, r, q) == Shape(w, r) /\ ProjInv(w, q) /\ Matches(r, q) /\ Kept(p, q)

LEMMA UpdateProj ==
  ASSUME NEW w, NEW q, ProjInv(w, q), NEW o \in DOMAIN q.operations,
         NEW v, Good(w, ApprovedComponents(q, q.operations[o]), v), Follows(q.operations[o], v)
  PROVE  ProjInv(w, Updated(q, o, v))
<1> DEFINE u == Updated(q, o, v)
<1>1. Shape(w, q) /\ v \in OperationsOf(w) /\ v.approval = q.operations[o].approval
      /\ (q.operations[o].finished => v.finished)
  BY DEF ProjInv, Good, Follows
<1>2. /\ Shape(w, u) /\ u.approvals = q.approvals /\ DOMAIN u.operations = DOMAIN q.operations
      /\ u.operations[o] = v
      /\ \A x \in DOMAIN q.operations : x # o => u.operations[x] = q.operations[x]
  BY <1>1, UpdateEffect
<1> HIDE DEF u
<1>3. Exclusive(u)
  BY <1>1, <1>2 DEF ProjInv, Exclusive
<1>4. ASSUME NEW x \in DOMAIN u.operations
      PROVE  /\ u.operations[x].approval \in DOMAIN u.approvals
             /\ Good(w, ApprovedComponents(u, u.operations[x]), u.operations[x])
  <2>1. CASE x = o
    <3>1. u.operations[x] = v
      BY <1>2, <2>1
    <3>2. ApprovedComponents(u, v) = ApprovedComponents(q, q.operations[o])
      BY <1>1, <1>2 DEF ApprovedComponents
    <3>3. QED
      BY <1>1, <1>2, <3>1, <3>2 DEF ProjInv
  <2>2. CASE x # o
    <3>1. u.operations[x] = q.operations[x] /\ x \in DOMAIN q.operations
      BY <1>2, <2>2
    <3>2. ApprovedComponents(u, u.operations[x]) = ApprovedComponents(q, q.operations[x])
      BY <1>2, <3>1 DEF ApprovedComponents
    <3>3. QED
      BY <1>2, <3>1, <3>2 DEF ProjInv
  <2>3. QED
    BY <2>1, <2>2
<1>5. QED
  BY <1>2, <1>3, <1>4 DEF ProjInv, u

LEMMA UpdateSettled ==
  ASSUME NEW w, NEW p, Shape(w, p), NEW q, ProjInv(w, q), Matches(p, q), NEW o \in DOMAIN q.operations,
         NEW v, Good(w, ApprovedComponents(q, q.operations[o]), v), Follows(q.operations[o], v),
         NEW m, Sees(m, v),
         Len(p.operations[o].steps) < Len(v.steps) =>
           \A i \in Indices(p.operations[o]) : Running(p.operations[o], i) => p.operations[o].steps[i].recovered
  PROVE  Settled(w, p, Updated(p, o, m), Updated(q, o, v))
<1> DEFINE u == Updated(q, o, v)
           n == Updated(p, o, m)
<1>1. Shape(w, q) /\ v \in OperationsOf(w) /\ \A x \in DOMAIN q.operations : q.operations[x] \in OperationsOf(w)
  BY DEF ProjInv, Good
<1>2. m \in OperationsOf(w)
  BY <1>1, SeesEffect
<1>3. /\ u.approvals = q.approvals /\ DOMAIN u.operations = DOMAIN q.operations /\ u.operations[o] = v
      /\ \A x \in DOMAIN q.operations : x # o => u.operations[x] = q.operations[x]
  BY <1>1, UpdateEffect
<1>4. o \in DOMAIN p.operations /\ DOMAIN p.operations = DOMAIN q.operations
  BY DEF Matches
<1>5. /\ Shape(w, n) /\ n.approvals = p.approvals /\ DOMAIN n.operations = DOMAIN p.operations
      /\ n.operations[o] = m
      /\ \A x \in DOMAIN p.operations : x # o => n.operations[x] = p.operations[x]
  BY <1>2, <1>4, UpdateEffect
<1>6. ProjInv(w, u)
  BY UpdateProj
<1> HIDE DEF u, n
<1>7. Matches(n, u)
  BY <1>3, <1>4, <1>5 DEF Matches
<1>8. ASSUME NEW x \in DOMAIN p.operations
      PROVE  KeptOp(p.operations[x], u.operations[x])
  <2>1. Sees(p.operations[x], q.operations[x]) /\ q.operations[x] \in OperationsOf(w)
        /\ RunningInv(q.operations[x])
    BY <1>1, <1>4 DEF Matches, ProjInv, Good, OpInv
  <2>2. CASE x = o
    BY <1>3, <2>1, <2>2, KeptFollows
  <2>3. CASE x # o
    BY <1>3, <1>4, <2>1, <2>3, KeptSees
  <2>4. QED
    BY <2>2, <2>3
<1>9. Kept(p, u)
  BY <1>3, <1>4, <1>8 DEF Kept
<1>10. QED
  BY <1>5, <1>6, <1>7, <1>9 DEF Settled, u, n

\* An operation in memory and in the log.
LEMMA MatchedOp ==
  ASSUME NEW w, NEW p, Shape(w, p), NEW q, ProjInv(w, q), Matches(p, q), NEW o \in DOMAIN p.operations
  PROVE  LET l == p.operations[o]
             g == q.operations[o]
             C == ApprovedComponents(q, g)
         IN  /\ o \in DOMAIN q.operations /\ Sees(l, g) /\ Good(w, C, g) /\ g \in OperationsOf(w)
             /\ l \in OperationsOf(w) /\ SameButSteps(l, g) /\ RunningInv(g)
             /\ ApprovedComponents(p, l) = C /\ ApprovedComponents(p, Abandon(l)) = C
             /\ ApprovedComponents(q, Abandon(g)) = C
<1> DEFINE l == p.operations[o]
           g == q.operations[o]
           C == ApprovedComponents(q, g)
<1>1. o \in DOMAIN q.operations /\ Sees(l, g) /\ Good(w, C, g) /\ g \in OperationsOf(w) /\ p.approvals = q.approvals
  BY DEF Matches, ProjInv, Good
<1>2. l \in OperationsOf(w) /\ SameButSteps(l, g)
  BY <1>1, SeesEffect
<1>3. RunningInv(g)
  BY <1>1 DEF Good, OpInv
<1>4. l.approval = g.approval /\ Abandon(l).approval = l.approval /\ Abandon(g).approval = g.approval
  BY <1>1, <1>2, AbandonEffect DEF SameButSteps
<1>5. ApprovedComponents(p, l) = C /\ ApprovedComponents(p, Abandon(l)) = C /\ ApprovedComponents(q, Abandon(g)) = C
  BY <1>1, <1>4 DEF ApprovedComponents
<1>6. QED
  BY <1>1, <1>2, <1>3, <1>5

\* RecordApproval.
LEMMA AcceptApproval ==
  ASSUME NEW w, NEW p, Shape(w, p), NEW q, ProjInv(w, q), Matches(p, q),
         NEW r, r.id \in ApprovalId, r.approval \in Approval, r.id \notin DOMAIN p.approvals,
         r.approval.issued < r.approval.expires
  PROVE  AdmitsApproval(q, r) /\ Settled(w, p, ApplyApproval(p, r), ApplyApproval(q, r))
<1> DEFINE m == ApplyApproval(p, r)
           u == ApplyApproval(q, r)
<1>0. Shape(w, q) /\ p.approvals = q.approvals /\ DOMAIN p.operations = DOMAIN q.operations
      /\ r.id \notin DOMAIN q.approvals
  BY DEF ProjInv, Matches
<1>1. AdmitsApproval(q, r)
  BY <1>0 DEF AdmitsApproval
<1>2. /\ Shape(w, m) /\ m.operations = p.operations /\ m.approvals = Put(p.approvals, r.id, r.approval)
  BY NewApprovalEffect DEF ApplyApproval
<1>3. /\ Shape(w, u) /\ u.operations = q.operations /\ u.approvals = Put(q.approvals, r.id, r.approval)
      /\ DOMAIN q.approvals \subseteq DOMAIN u.approvals
      /\ \A x \in DOMAIN q.approvals : u.approvals[x] = q.approvals[x]
  BY <1>0, NewApprovalEffect DEF ApplyApproval
<1> HIDE DEF m, u
<1>4. Matches(m, u)
  BY <1>0, <1>2, <1>3 DEF Matches
<1>5. Exclusive(u)
  BY <1>3 DEF ProjInv, Exclusive
<1>6. ASSUME NEW o \in DOMAIN u.operations
      PROVE  /\ u.operations[o].approval \in DOMAIN u.approvals
             /\ Good(w, ApprovedComponents(u, u.operations[o]), u.operations[o])
  <2>1. q.operations[o].approval \in DOMAIN q.approvals
        /\ Good(w, ApprovedComponents(q, q.operations[o]), q.operations[o])
    BY <1>3 DEF ProjInv
  <2>2. ApprovedComponents(u, u.operations[o]) = ApprovedComponents(q, q.operations[o])
    BY <1>3, <2>1 DEF ApprovedComponents
  <2>3. QED
    BY <1>3, <2>1, <2>2
<1>7. ProjInv(w, u)
  BY <1>3, <1>5, <1>6 DEF ProjInv
<1>8. Kept(p, u)
  <2>1. ASSUME NEW o \in DOMAIN p.operations
        PROVE  KeptOp(p.operations[o], q.operations[o])
    <3>1. q.operations[o] \in OperationsOf(w) /\ Sees(p.operations[o], q.operations[o]) /\ RunningInv(q.operations[o])
      BY MatchedOp
    <3>2. QED
      BY <3>1, KeptSees
  <2>2. QED
    BY <1>0, <1>3, <2>1 DEF Kept
<1>9. QED
  BY <1>1, <1>2, <1>4, <1>7, <1>8 DEF Settled, m, u

\* StartOperation.
LEMMA NewOperationGood ==
  ASSUME NEW w, InputsOK(w), NEW C, NEW r, r.approval \in ApprovalId, r.plan \in PlanDigest, r.at \in Time
  PROVE  Good(w, C, NewOperation(r)) /\ NewOperation(r).approval = r.approval /\ ~NewOperation(r).finished
<1> DEFINE v == NewOperation(r)
<1>1. "approved" \in States /\ << >> \in Seq(StepsOf(w)) /\ NoFailure \in Nat
  BY DEF States, NoFailure
<1>2. v \in OperationsOf(w)
  BY <1>1 DEF NewOperation, OperationsOf
<1>3. /\ v.approval = r.approval /\ v.state = "approved" /\ v.steps = << >> /\ ~v.finished /\ ~v.rollbackStarted
      /\ v.failure = NoFailure /\ Len(v.steps) = 0
  BY DEF NewOperation
<1> HIDE DEF v
<1>4. Indices(v) = {}
  BY <1>3 DEF Indices
<1>5. OpInv(C, v)
  BY <1>3, <1>4 DEF OpInv, StateInv, RunningInv, FlagInv, OnceInv, OrderInv, UndoInv, CompleteInv, RolledBackInv,
                    OutcomeInv, UntouchedInv
<1>6. w.maxSteps \in Nat /\ 0 <= w.maxSteps
  BY DEF InputsOK
<1>7. QED
  BY <1>2, <1>3, <1>5, <1>6 DEF Good, NoFailure, v

LEMMA AcceptOperation ==
  ASSUME NEW w, InputsOK(w), NEW p, Shape(w, p), NEW q, ProjInv(w, q), Matches(p, q),
         NEW r, r.op \in OperationId, r.approval \in ApprovalId, r.plan \in PlanDigest, r.at \in Time,
         r.op \notin DOMAIN p.operations, AdmitsOperation(p, r)
  PROVE  AdmitsOperation(q, r) /\ Settled(w, p, ApplyOperation(p, r), ApplyOperation(q, r))
<1> DEFINE v == NewOperation(r)
           m == ApplyOperation(p, r)
           u == ApplyOperation(q, r)
<1>0. Shape(w, q) /\ p.approvals = q.approvals /\ DOMAIN p.operations = DOMAIN q.operations
  BY DEF ProjInv, Matches
<1>s. \A o \in DOMAIN p.operations : SameButSteps(p.operations[o], q.operations[o])
  BY MatchedOp
<1>1. /\ r.approval \in DOMAIN q.approvals
      /\ \A o \in DOMAIN q.operations : q.operations[o].approval # r.approval /\ q.operations[o].finished
  BY <1>0, <1>s DEF AdmitsOperation, SameButSteps
<1>2. AdmitsOperation(q, r)
  BY <1>0, <1>1 DEF AdmitsOperation
<1>3. \A C : Good(w, C, v) /\ v \in OperationsOf(w) /\ v.approval = r.approval /\ ~v.finished
  BY NewOperationGood DEF Good
<1> HIDE DEF v
<1>4. /\ Shape(w, m) /\ m.approvals = p.approvals /\ DOMAIN m.operations = DOMAIN p.operations \cup {r.op}
      /\ m.operations[r.op] = v
      /\ \A x \in DOMAIN p.operations : m.operations[x] = p.operations[x]
  BY <1>3, NewOperationEffect DEF ApplyOperation, v
<1>5. /\ Shape(w, u) /\ u.approvals = q.approvals /\ DOMAIN u.operations = DOMAIN q.operations \cup {r.op}
      /\ u.operations[r.op] = v
      /\ \A x \in DOMAIN q.operations : u.operations[x] = q.operations[x]
  BY <1>0, <1>3, NewOperationEffect DEF ApplyOperation, v
<1> HIDE DEF m, u
<1>6. Matches(m, u)
  <2>1. Sees(v, v)
    BY DEF Sees
  <2>2. QED
    BY <1>0, <1>4, <1>5, <2>1 DEF Matches
<1>7. Exclusive(u)
  BY <1>1, <1>3, <1>5 DEF ProjInv, Exclusive
<1>8. ASSUME NEW o \in DOMAIN u.operations
      PROVE  /\ u.operations[o].approval \in DOMAIN u.approvals
             /\ Good(w, ApprovedComponents(u, u.operations[o]), u.operations[o])
  <2>1. CASE o = r.op
    BY <1>1, <1>3, <1>5, <2>1
  <2>2. CASE o # r.op
    <3>1. /\ o \in DOMAIN q.operations /\ u.operations[o] = q.operations[o]
          /\ q.operations[o].approval \in DOMAIN q.approvals
          /\ Good(w, ApprovedComponents(q, q.operations[o]), q.operations[o])
      BY <1>5, <2>2 DEF ProjInv
    <3>2. ApprovedComponents(u, u.operations[o]) = ApprovedComponents(q, q.operations[o])
      BY <1>5, <3>1 DEF ApprovedComponents
    <3>3. QED
      BY <1>5, <3>1, <3>2
  <2>3. QED
    BY <2>1, <2>2
<1>9. ProjInv(w, u)
  BY <1>5, <1>7, <1>8 DEF ProjInv
<1>10. Kept(p, u)
  <2>1. ASSUME NEW o \in DOMAIN p.operations
        PROVE  KeptOp(p.operations[o], q.operations[o])
    <3>1. q.operations[o] \in OperationsOf(w) /\ Sees(p.operations[o], q.operations[o]) /\ RunningInv(q.operations[o])
      BY MatchedOp
    <3>2. QED
      BY <3>1, KeptSees
  <2>2. QED
    BY <1>0, <1>5, <2>1 DEF Kept
<1>11. QED
  BY <1>2, <1>4, <1>6, <1>9, <1>10 DEF Settled, m, u

\* BeginStep.
LEMMA AcceptStart ==
  ASSUME NEW w, InputsOK(w), NEW p, Shape(w, p), NEW q, ProjInv(w, q), Matches(p, q),
         NEW r, r.op \in DOMAIN p.operations, r.step \in StepsOf(w), r.step.status = "running", ~r.step.recovered,
         FindStep(p.operations[r.op], r.step.in.id, r.step.attempt) = {},
         Len(p.operations[r.op].steps) < w.maxSteps,
         r.step.retry => \E i \in InFlight(p.operations[r.op]) : p.operations[r.op].steps[i].recovered,
         AdmitsStepStart(p, r)
  PROVE  AdmitsStepStart(q, r) /\ Settled(w, p, ApplyStepStart(p, r), ApplyStepStart(q, r))
<1> DEFINE o == r.op
           step == r.step
           l == p.operations[o]
           g == q.operations[o]
           C == ApprovedComponents(q, g)
<1>1. /\ o \in DOMAIN q.operations /\ Sees(l, g) /\ Good(w, C, g) /\ g \in OperationsOf(w)
      /\ ApprovedComponents(p, Abandon(l)) = C /\ ApprovedComponents(q, Abandon(g)) = C /\ RunningInv(g)
  BY MatchedOp
<1>2. /\ step.retry => step.attempt >= 2
      /\ RetriesInFlight(l, step) /\ StepTransitionOK(p, Abandon(l), step)
  BY DEF AdmitsStepStart
<1>3. ApplyStepStart(p, r) = Updated(p, o, Started(l, step))
  BY DEF ApplyStepStart, Updated, Started
<1>4. FindStep(g, step.in.id, step.attempt) = {} /\ InFlight(l) = InFlight(g)
  BY <1>1, SeesLookups
<1>5. ApplyStepStart(q, r) = Updated(q, o, Started(g, step))
  BY <1>4 DEF ApplyStepStart, Updated, Started
<1>6. Len(l.steps) = Len(g.steps) /\ Len(g.steps) \in Nat
  BY <1>1, SeesEffect, StepsDomain
<1>7. step.retry => InFlight(g) # {}
  BY <1>4
<1>l. step \in StepsOf(w) /\ step.status = "running" /\ ~step.recovered /\ Len(g.steps) < w.maxSteps
  BY <1>6
<1>r. \A i \in Indices(l) : Running(l, i) => l.steps[i].recovered
  <2>1. SUFFICES ASSUME NEW i \in Indices(l), Running(l, i)
                 PROVE  l.steps[i].recovered
    OBVIOUS
  <2>2. i \in Indices(g) /\ Running(g, i)
    BY <1>1, <1>6, <2>1, SeesLookups DEF Indices
  <2>3. i \in InFlight(g) /\ \A j \in InFlight(g) : j = i
    BY <1>1, <2>2, InFlightIs
  <2>4. step.retry
    BY <1>2, <1>4, <2>3 DEF RetriesInFlight
  <2>5. QED
    BY <1>4, <2>3, <2>4
<1> HIDE DEF o, step, l, g, C
<1>8. RetriesInFlight(g, step) /\ StepTransitionOK(q, Abandon(g), step) /\ Started(l, step) = Started(g, step)
  BY <1>1, <1>2, <1>l, MatchStart
<1>9. Good(w, C, Started(g, step)) /\ Follows(g, Started(g, step))
  BY <1>1, <1>7, <1>8, <1>l, SubmitStart
<1>10. Sees(Started(l, step), Started(g, step))
  BY <1>8 DEF Sees
<1>11. AdmitsStepStart(q, r)
  BY <1>1, <1>2, <1>4, <1>8 DEF AdmitsStepStart, o, g, step
<1>12. Settled(w, p, Updated(p, o, Started(l, step)), Updated(q, o, Started(g, step)))
  BY <1>1, <1>9, <1>10, <1>r, UpdateSettled DEF l, g, C
<1>13. QED
  BY <1>3, <1>5, <1>11, <1>12

\* findStep finds one step at most.
LEMMA FindStepOne ==
  ASSUME NEW w, NEW op \in OperationsOf(w), NEW id, NEW attempt
  PROVE  /\ FindStep(op, id, attempt) \subseteq Indices(op)
         /\ \A i, j \in FindStep(op, id, attempt) : i = j
<1>1. DOMAIN op.steps = 1 .. Len(op.steps) /\ Len(op.steps) \in Nat
  BY StepsDomain
<1>2. QED
  BY <1>1 DEF FindStep, Indices

LEMMA ResultApplied ==
  ASSUME NEW p, NEW r, NEW i, (CHOOSE j \in FindStep(p.operations[r.op], r.id, r.attempt) : TRUE) = i,
         p.operations[r.op].steps[i].status = "running"
  PROVE  ApplyStepFinish(p, r) = Updated(p, r.op, WithResult(p.operations[r.op], i, r.status, r.reason))
<1> DEFINE k == CHOOSE j \in FindStep(p.operations[r.op], r.id, r.attempt) : TRUE
<1>1. ApplyStepFinish(p, r) =
        IF p.operations[r.op].steps[k].status # "running" THEN p
        ELSE Updated(p, r.op, WithResult(p.operations[r.op], k, r.status, r.reason))
  BY Zenon DEF ApplyStepFinish, Updated, WithResult
<1>2. k = i
  OBVIOUS
<1> HIDE DEF k
<1>3. QED
  BY <1>1, <1>2

\* FinishStep.
LEMMA AcceptFinish ==
  ASSUME NEW w, InputsOK(w), NEW p, Shape(w, p), NEW q, ProjInv(w, q), Matches(p, q),
         NEW r, r.op \in DOMAIN p.operations, r.status \in {"succeeded", "failed"}, r.reason \in Reasons \cup {Empty},
         NEW i \in FindStep(p.operations[r.op], r.id, r.attempt), Running(p.operations[r.op], i),
         AdmitsStepFinish(p, r)
  PROVE  AdmitsStepFinish(q, r) /\ Settled(w, p, ApplyStepFinish(p, r), ApplyStepFinish(q, r))
<1> DEFINE o == r.op
           l == p.operations[o]
           g == q.operations[o]
           C == ApprovedComponents(q, g)
           v == WithResult(g, i, r.status, r.reason)
<1>1. /\ o \in DOMAIN q.operations /\ Sees(l, g) /\ Good(w, C, g) /\ g \in OperationsOf(w)
      /\ l \in OperationsOf(w) /\ SameButSteps(l, g) /\ RunningInv(g)
  BY MatchedOp
<1>2. /\ FindStep(g, r.id, r.attempt) = FindStep(l, r.id, r.attempt) /\ InFlight(l) = InFlight(g)
      /\ \A j \in Indices(g) : (Running(l, j) <=> Running(g, j)) /\ (IsMutation(l.steps[j]) <=> IsMutation(g.steps[j]))
  BY <1>1, SeesLookups
<1>3. Len(l.steps) = Len(g.steps)
  BY <1>1, SeesEffect
<1>4. i \in Indices(g) /\ \A j \in FindStep(l, r.id, r.attempt) : j = i
  BY <1>1, <1>2, FindStepOne
<1>5. Running(g, i) /\ i \in InFlight(g)
  BY <1>1, <1>2, <1>4, InFlightIs
<1>6. (CHOOSE j \in FindStep(l, r.id, r.attempt) : TRUE) = i
  BY <1>4
<1>7. ~g.finished /\ (r.reconciles => IsMutation(g.steps[i]))
  <2>1. ~l.finished
    BY DEF AdmitsStepFinish
  <2>2. l.steps[i].status = "running" /\ r.status # "running"
    BY DEF Running
  <2>3. r.reconciles => IsMutation(l.steps[i])
    BY <1>4, <2>2 DEF AdmitsStepFinish
  <2>4. QED
    BY <1>1, <1>2, <1>4, <2>1, <2>3 DEF SameButSteps
<1>8. ApplyStepFinish(p, r) = Updated(p, o, WithResult(l, i, r.status, r.reason))
  BY <1>6, ResultApplied DEF Running
<1>9. ApplyStepFinish(q, r) = Updated(q, o, v)
  <2>1. (CHOOSE j \in FindStep(g, r.id, r.attempt) : TRUE) = i
    BY <1>2, <1>6
  <2>2. g.steps[i].status = "running"
    BY <1>5 DEF Running
  <2>3. QED
    BY <2>1, <2>2, ResultApplied
<1>10. AdmitsStepFinish(q, r)
  BY <1>1, <1>2, <1>5, <1>7 DEF AdmitsStepFinish, Running
<1> HIDE DEF o, l, g, C
<1>11. WithResult(l, i, r.status, r.reason) = v
  BY <1>1, <1>4, <1>5, MatchResult
<1>12. Good(w, C, v) /\ Follows(g, v)
  BY <1>1, <1>4, <1>5, <1>7, SubmitResult
<1>13. Sees(v, v) /\ Len(v.steps) = Len(g.steps) /\ Len(g.steps) \in Nat
  BY <1>1, <1>4, WithResultEffect, StepsDomain DEF Sees, Indices
<1> HIDE DEF v
<1>14. Settled(w, p, Updated(p, o, v), Updated(q, o, v))
  BY <1>1, <1>3, <1>12, <1>13, UpdateSettled DEF l, g, C
<1>15. QED
  BY <1>8, <1>9, <1>10, <1>11, <1>14

\* Cancel.
LEMMA AcceptCancel ==
  ASSUME NEW w, InputsOK(w), NEW p, Shape(w, p), NEW q, ProjInv(w, q), Matches(p, q),
         NEW r, r.op \in DOMAIN p.operations, p.operations[r.op].state # "cancelled", AdmitsCancel(p, r)
  PROVE  AdmitsCancel(q, r) /\ Settled(w, p, ApplyCancel(p, r), ApplyCancel(q, r))
<1> DEFINE o == r.op
           l == p.operations[o]
           g == q.operations[o]
           C == ApprovedComponents(q, g)
<1>1. /\ o \in DOMAIN q.operations /\ Sees(l, g) /\ Good(w, C, g) /\ g \in OperationsOf(w)
  BY MatchedOp
<1>2. ~l.mutationStarted /\ InFlight(l) = {} /\ l.state \in {"approved", "preflighting"}
  BY DEF AdmitsCancel
<1>3. l = g
  BY <1>1, <1>2, SeesEffect, SeesLookups
<1>4. AdmitsCancel(q, r)
  BY <1>1, <1>2, <1>3 DEF AdmitsCancel
<1>5. ApplyCancel(p, r) = Updated(p, o, InState(l, "cancelled")) /\ ApplyCancel(q, r) = Updated(q, o, InState(g, "cancelled"))
  BY DEF ApplyCancel, Updated, InState
<1> DEFINE v == InState(g, "cancelled")
<1> HIDE DEF o, l, g, C
<1>6. Good(w, C, v) /\ Follows(g, v)
  BY <1>1, <1>2, <1>3, SubmitCancel
<1>7. v.steps = g.steps /\ Len(g.steps) \in Nat
  BY <1>1, StateEffect, StepsDomain DEF States
<1>8. Sees(v, v)
  BY DEF Sees
<1> HIDE DEF v
<1>9. Settled(w, p, Updated(p, o, v), Updated(q, o, v))
  BY <1>1, <1>3, <1>6, <1>7, <1>8, UpdateSettled DEF l, g, C
<1>10. QED
  BY <1>3, <1>4, <1>5, <1>9 DEF v

\* BeginRollback.
LEMMA AcceptRollback ==
  ASSUME NEW w, InputsOK(w), NEW p, Shape(w, p), NEW q, ProjInv(w, q), Matches(p, q),
         NEW r, r.op \in DOMAIN p.operations, ~p.operations[r.op].rollbackStarted, AdmitsRollback(p, r)
  PROVE  AdmitsRollback(q, r) /\ Settled(w, p, ApplyRollback(p, r), ApplyRollback(q, r))
<1> DEFINE o == r.op
           l == p.operations[o]
           g == q.operations[o]
           C == ApprovedComponents(q, g)
<1>1. /\ o \in DOMAIN q.operations /\ Sees(l, g) /\ Good(w, C, g) /\ g \in OperationsOf(w)
  BY MatchedOp
<1>2. InFlight(l) = {} /\ ~l.finished /\ l.mutationStarted
  BY DEF AdmitsRollback
<1>3. l = g
  BY <1>1, <1>2, SeesEffect, SeesLookups
<1>4. AdmitsRollback(q, r)
  BY <1>1, <1>3 DEF AdmitsRollback
<1>5. ApplyRollback(p, r) = Updated(p, o, RollingBack(l)) /\ ApplyRollback(q, r) = Updated(q, o, RollingBack(g))
  BY <1>3 DEF ApplyRollback, Updated, RollingBack
<1> DEFINE v == RollingBack(g)
<1> HIDE DEF o, l, g, C
<1>6. Good(w, C, v) /\ Follows(g, v)
  BY <1>1, <1>2, <1>3, SubmitRollback
<1>7. v.steps = g.steps /\ Len(g.steps) \in Nat
  BY <1>1, RollingBackEffect, StepsDomain
<1>8. Sees(v, v)
  BY DEF Sees
<1> HIDE DEF v
<1>9. Settled(w, p, Updated(p, o, v), Updated(q, o, v))
  BY <1>1, <1>3, <1>6, <1>7, <1>8, UpdateSettled DEF l, g, C
<1>10. QED
  BY <1>3, <1>4, <1>5, <1>9 DEF v

\* A plan has components.
LEMMA Approved ==
  ASSUME NEW w, NEW q, ProjInv(w, q), NEW o \in DOMAIN q.operations
  PROVE  ApprovedComponents(q, q.operations[o]) # {}
<1>1. q.approvals[q.operations[o].approval] \in Approval
  BY DEF ProjInv, Shape
<1>2. q.approvals[q.operations[o].approval].plan \in PlanDigest
  BY <1>1 DEF Approval
<1>3. QED
  BY <1>2, JournalAssumption DEF ApprovedComponents

\* FinishOperation.
LEMMA AcceptTerminal ==
  ASSUME NEW w, InputsOK(w), NEW p, Shape(w, p), NEW q, ProjInv(w, q), Matches(p, q),
         NEW r, r.op \in DOMAIN p.operations, r.outcome \in Outcomes,
         ~(p.operations[r.op].state = r.outcome /\ p.operations[r.op].finished), AdmitsTerminal(p, r)
  PROVE  AdmitsTerminal(q, r) /\ Settled(w, p, ApplyTerminal(p, r), ApplyTerminal(q, r))
<1> DEFINE o == r.op
           l == p.operations[o]
           g == q.operations[o]
           C == ApprovedComponents(q, g)
           out == r.outcome
           Ends(s, op) ==
             \/ op.state = out /\ op.finished
             \/ /\ InFlight(op) = {}
                /\ \/ out = "complete" /\ CanComplete(s, op)
                   \/ out = "failed" /\ op.state = "failed" /\ ~op.mutationStarted
                   \/ out = "rolled_back" /\ CanReportRolledBack(op)
             \/ out = "recovery_required" /\ RecoveryRequiredOK(op)
<1>1. /\ o \in DOMAIN q.operations /\ Sees(l, g) /\ Good(w, C, g) /\ g \in OperationsOf(w)
      /\ ApprovedComponents(p, l) = C
  BY MatchedOp
<1>a. C # {}
  BY <1>1, Approved
<1>2. Ends(p, l) /\ ~(l.state = out /\ l.finished)
  BY DEF AdmitsTerminal
<1>3. InFlight(l) = {} => l = g
  BY <1>1, SeesEffect, SeesLookups
<1>4. ApplyTerminal(p, r) = Updated(p, o, InState(l, out)) /\ ApplyTerminal(q, r) = Updated(q, o, InState(g, out))
  BY DEF ApplyTerminal, Updated, InState
<1>d. out \in Outcomes
  OBVIOUS
<1>5. Ends(q, g) => AdmitsTerminal(q, r)
  BY <1>1 DEF AdmitsTerminal
<1> HIDE DEF o, l, g, C, out
<1>6. Ends(q, g) /\ Sees(InState(l, out), InState(g, out))
  <2>1. CASE InFlight(l) = {}
    <3>1. l = g
      BY <1>3, <2>1
    <3>2. CanComplete(p, l) => CanComplete(q, g)
      BY <1>1, <3>1 DEF CanComplete, AllComponentsSucceededPhase, C
    <3>3. QED
      BY <1>2, <3>1, <3>2 DEF Sees
  <2>2. CASE InFlight(l) # {}
    <3>1. out = "recovery_required" /\ RecoveryRequiredOK(l)
      BY <1>2, <2>2
    <3>2. QED
      BY <1>1, <3>1, MatchOutcome
  <2>3. QED
    BY <2>1, <2>2
<1>7. Good(w, C, InState(g, out)) /\ Follows(g, InState(g, out))
  BY <1>1, <1>6, <1>a, <1>d, SubmitOutcome DEF C
<1> DEFINE v == InState(g, out)
<1>8. v.steps = g.steps /\ Len(g.steps) \in Nat /\ Len(l.steps) = Len(g.steps)
  <2>1. out \in States
    BY <1>d DEF Outcomes, States
  <2>2. QED
    BY <1>1, <2>1, StateEffect, StepsDomain, SeesEffect
<1> HIDE DEF v
<1>9. Settled(w, p, Updated(p, o, InState(l, out)), Updated(q, o, v))
  BY <1>1, <1>6, <1>7, <1>8, UpdateSettled DEF l, g, C, v
<1>10. QED
  BY <1>4, <1>5, <1>6, <1>9 DEF v

-----------------------------------------------------------------------------
(* The invariant, and the steps that keep it. *)

\* The journal in memory is what some log shows, also when the handle is
\* poisoned or closed and the log has moved on.
LiveInv(w, p) == Shape(w, p) /\ \E s : ProjInv(w, s) /\ Matches(p, s)

JournalInv ==
  /\ workload \in Workloads /\ handle \in {"open", "poisoned", "down"}
  /\ replayable \in BOOLEAN /\ replayable
  /\ ProjInv(workload, stored) /\ LiveInv(workload, live)
  /\ handle = "open" => Matches(live, stored)
  /\ Kept(live, stored)
  /\ stored \in cuts /\ ProjInv(workload, durable)
  /\ \A p \in cuts : ProjInv(workload, p) /\ Keeps(durable, p)

\* The record leads from both projections to projections that match again.
Accepts(r) == Admits(stored, r) /\ Settled(workload, live, Apply(live, r), Apply(stored, r))

LEMMA WorkloadFacts ==
  ASSUME NEW w \in Workloads
  PROVE  InputsOK(w) /\ w.plans \subseteq PlanDigest /\ w.times \subseteq Time
  BY JournalAssumption DEF ValidWorkload, InputsOK

LEMMA Kinds ==
  ASSUME NEW p, NEW r
  PROVE  /\ r.kind = "approval" => ((Admits(p, r) <=> AdmitsApproval(p, r)) /\ Apply(p, r) = ApplyApproval(p, r))
         /\ r.kind = "operation" => ((Admits(p, r) <=> AdmitsOperation(p, r)) /\ Apply(p, r) = ApplyOperation(p, r))
         /\ r.kind = "stepStart" => ((Admits(p, r) <=> AdmitsStepStart(p, r)) /\ Apply(p, r) = ApplyStepStart(p, r))
         /\ r.kind = "stepFinish" => ((Admits(p, r) <=> AdmitsStepFinish(p, r)) /\ Apply(p, r) = ApplyStepFinish(p, r))
         /\ r.kind = "cancel" => ((Admits(p, r) <=> AdmitsCancel(p, r)) /\ Apply(p, r) = ApplyCancel(p, r))
         /\ r.kind = "rollback" => ((Admits(p, r) <=> AdmitsRollback(p, r)) /\ Apply(p, r) = ApplyRollback(p, r))
         /\ r.kind = "operationFinish" => ((Admits(p, r) <=> AdmitsTerminal(p, r)) /\ Apply(p, r) = ApplyTerminal(p, r))
<1>1. CASE r.kind = "approval"
  BY <1>1 DEF Admits, Apply
<1>2. CASE r.kind = "operation"
  BY <1>2 DEF Admits, Apply
<1>3. CASE r.kind = "stepStart"
  BY <1>3 DEF Admits, Apply
<1>4. CASE r.kind = "stepFinish"
  BY <1>4 DEF Admits, Apply
<1>5. CASE r.kind = "cancel"
  BY <1>5 DEF Admits, Apply
<1>6. CASE r.kind = "rollback"
  BY <1>6 DEF Admits, Apply
<1>7. CASE r.kind = "operationFinish"
  BY <1>7 DEF Admits, Apply
<1>8. QED
  BY <1>1, <1>2, <1>3, <1>4, <1>5, <1>6, <1>7

LEMMA OpenFacts ==
  ASSUME JournalInv, handle = "open"
  PROVE  /\ InputsOK(workload) /\ workload.plans \subseteq PlanDigest
         /\ Shape(workload, live) /\ ProjInv(workload, stored) /\ Matches(live, stored)
  BY WorkloadFacts DEF JournalInv, LiveInv

LEMMA CallApproval ==
  ASSUME JournalInv, NEW id \in ApprovalId, NEW plan \in workload.plans, NEW expires \in workload.times,
         NEW now \in workload.times,
         RecordApproval(id, plan, expires, now)
  PROVE  \E r : AppendRecord(r) /\ Accepts(r)
<1> DEFINE r == [kind |-> "approval", id |-> id, approval |-> [plan |-> plan, issued |-> now, expires |-> expires]]
<1>1. id \notin DOMAIN live.approvals /\ AppendRecord(r) /\ handle = "open" /\ Admits(live, r)
  BY DEF RecordApproval, AppendRecord
<1>2. r.kind = "approval" /\ r.id = id /\ r.approval = [plan |-> plan, issued |-> now, expires |-> expires]
  OBVIOUS
<1>f. /\ InputsOK(workload) /\ workload.plans \subseteq PlanDigest
      /\ Shape(workload, live) /\ ProjInv(workload, stored) /\ Matches(live, stored)
  BY <1>1, OpenFacts
<1>3. r.approval \in Approval
  <2>1. now \in Time /\ expires \in Time
    BY WorkloadFacts DEF JournalInv
  <2>2. QED
    BY <1>2, <1>f, <2>1 DEF Approval
<1> HIDE DEF r
<1>i. r.approval.issued < r.approval.expires
  BY <1>1, <1>2, Kinds DEF AdmitsApproval
<1>4. AdmitsApproval(stored, r) /\ Settled(workload, live, ApplyApproval(live, r), ApplyApproval(stored, r))
  BY <1>1, <1>2, <1>3, <1>f, <1>i, AcceptApproval
<1>5. Accepts(r)
  BY <1>2, <1>4, Kinds DEF Accepts
<1>6. QED
  BY <1>1, <1>5

LEMMA CallOperation ==
  ASSUME JournalInv, NEW o \in OperationId, NEW id \in ApprovalId, NEW plan \in workload.plans,
         NEW now \in workload.times, StartOperation(o, id, plan, now)
  PROVE  \E r : AppendRecord(r) /\ Accepts(r)
<1> DEFINE r == [kind |-> "operation", op |-> o, approval |-> id, plan |-> plan, at |-> now]
<1>1. o \notin DOMAIN live.operations /\ AppendRecord(r) /\ handle = "open" /\ Admits(live, r)
  BY DEF StartOperation, AppendRecord
<1>2. r.kind = "operation" /\ r.op = o /\ r.approval = id /\ r.plan = plan /\ r.at = now
  OBVIOUS
<1>f. /\ InputsOK(workload) /\ workload.plans \subseteq PlanDigest
      /\ Shape(workload, live) /\ ProjInv(workload, stored) /\ Matches(live, stored)
  BY <1>1, OpenFacts
<1> HIDE DEF r
<1>t. now \in Time
  BY WorkloadFacts DEF JournalInv
<1>3. AdmitsOperation(live, r) /\ r.plan \in PlanDigest /\ r.at \in Time
  BY <1>1, <1>2, <1>f, <1>t, Kinds
<1>4. AdmitsOperation(stored, r) /\ Settled(workload, live, ApplyOperation(live, r), ApplyOperation(stored, r))
  BY <1>1, <1>2, <1>3, <1>f, AcceptOperation
<1>5. Accepts(r)
  BY <1>2, <1>4, Kinds DEF Accepts
<1>6. QED
  BY <1>1, <1>5

LEMMA NewStepFacts ==
  ASSUME NEW w, NEW op, NEW in \in w.inputs, NEW attempt \in 1 .. w.maxAttempt
  PROVE  LET step == NewStep(op, in, attempt) IN
         /\ step \in StepsOf(w) /\ step.in = in /\ step.attempt = attempt
         /\ step.status = "running" /\ ~step.recovered
         /\ step.retry => \E i \in InFlight(op) : op.steps[i].recovered
<1> DEFINE R == \E i \in InFlight(op) :
                  /\ op.steps[i].recovered /\ ~IsMutation(op.steps[i])
                  /\ op.steps[i].in.id = in.id
                  /\ op.steps[i].in.component = in.component
                  /\ op.steps[i].in.phase = in.phase
                  /\ attempt = op.steps[i].attempt + 1
           step == NewStep(op, in, attempt)
<1>1. step = [in |-> in, attempt |-> attempt, status |-> "running", reason |-> Empty, recovered |-> FALSE, retry |-> R]
  BY Zenon DEF NewStep
<1>2. R \in BOOLEAN /\ (R => \E i \in InFlight(op) : op.steps[i].recovered)
  OBVIOUS
<1> HIDE DEF R, step
<1>3. step \in StepsOf(w) /\ step.in = in /\ step.attempt = attempt /\ step.status = "running"
  BY <1>1, <1>2 DEF StepsOf
<1>4. ~step.recovered /\ (step.retry <=> R)
  BY <1>1, <1>2
<1>5. QED
  BY <1>2, <1>3, <1>4 DEF step

LEMMA CallStart ==
  ASSUME JournalInv, NEW o \in OperationId, NEW in \in workload.inputs, NEW attempt \in 1 .. workload.maxAttempt,
         BeginStep(o, in, attempt)
  PROVE  \E r : AppendRecord(r) /\ Accepts(r)
<1> DEFINE step == NewStep(live.operations[o], in, attempt)
           r == [kind |-> "stepStart", op |-> o, step |-> step]
<1>1. /\ o \in DOMAIN live.operations /\ AppendRecord(r) /\ handle = "open" /\ Admits(live, r)
      /\ Len(live.operations[o].steps) < workload.maxSteps
      /\ FindStep(live.operations[o], in.id, attempt) = {}
  BY DEF BeginStep, AppendRecord
<1>2. /\ step \in StepsOf(workload) /\ step.in = in /\ step.attempt = attempt
      /\ step.status = "running" /\ ~step.recovered
      /\ step.retry => \E i \in InFlight(live.operations[o]) : live.operations[o].steps[i].recovered
  BY NewStepFacts
<1> HIDE DEF step
<1>3. r.kind = "stepStart" /\ r.op = o /\ r.step = step
  OBVIOUS
<1>f. InputsOK(workload) /\ Shape(workload, live) /\ ProjInv(workload, stored) /\ Matches(live, stored)
  BY <1>1, OpenFacts
<1> HIDE DEF r
<1>4. AdmitsStepStart(live, r)
  BY <1>1, <1>3, Kinds
<1>5. AdmitsStepStart(stored, r) /\ Settled(workload, live, ApplyStepStart(live, r), ApplyStepStart(stored, r))
  BY <1>1, <1>2, <1>3, <1>4, <1>f, AcceptStart
<1>6. Accepts(r)
  BY <1>3, <1>5, Kinds DEF Accepts
<1>7. QED
  BY <1>1, <1>6

LEMMA CallFinish ==
  ASSUME JournalInv, NEW o \in OperationId, NEW i, NEW status \in {"succeeded", "failed"},
         NEW reason \in Reasons \cup {Empty}, FinishStep(o, i, status, reason)
  PROVE  \E r : AppendRecord(r) /\ Accepts(r)
<1> DEFINE step == live.operations[o].steps[i]
           r == [kind |-> "stepFinish", op |-> o, id |-> step.in.id, attempt |-> step.attempt, status |-> status,
                 reason |-> reason, reconciles |-> step.recovered /\ IsMutation(step)]
<1>1. /\ o \in DOMAIN live.operations /\ AppendRecord(r) /\ handle = "open" /\ Admits(live, r)
      /\ i \in FindStep(live.operations[o], step.in.id, step.attempt)
      /\ Running(live.operations[o], i)
  BY DEF FinishStep, AppendRecord, Running
<1>2. r.kind = "stepFinish" /\ r.op = o /\ r.id = step.in.id /\ r.attempt = step.attempt /\ r.status = status
      /\ r.reason = reason
  OBVIOUS
<1>f. InputsOK(workload) /\ Shape(workload, live) /\ ProjInv(workload, stored) /\ Matches(live, stored)
  BY <1>1, OpenFacts
<1> HIDE DEF r, step
<1>3. AdmitsStepFinish(live, r)
  BY <1>1, <1>2, Kinds
<1>4. AdmitsStepFinish(stored, r) /\ Settled(workload, live, ApplyStepFinish(live, r), ApplyStepFinish(stored, r))
  BY <1>1, <1>2, <1>3, <1>f, AcceptFinish
<1>5. Accepts(r)
  BY <1>2, <1>4, Kinds DEF Accepts
<1>6. QED
  BY <1>1, <1>5

LEMMA CallCancel ==
  ASSUME JournalInv, NEW o \in OperationId, Cancel(o)
  PROVE  \E r : AppendRecord(r) /\ Accepts(r)
<1> DEFINE r == [kind |-> "cancel", op |-> o]
<1>1. /\ o \in DOMAIN live.operations /\ AppendRecord(r) /\ handle = "open" /\ Admits(live, r)
      /\ live.operations[o].state # "cancelled"
  BY DEF Cancel, AppendRecord
<1>2. r.kind = "cancel" /\ r.op = o
  OBVIOUS
<1>f. InputsOK(workload) /\ Shape(workload, live) /\ ProjInv(workload, stored) /\ Matches(live, stored)
  BY <1>1, OpenFacts
<1> HIDE DEF r
<1>3. AdmitsCancel(live, r)
  BY <1>1, <1>2, Kinds
<1>4. AdmitsCancel(stored, r) /\ Settled(workload, live, ApplyCancel(live, r), ApplyCancel(stored, r))
  BY <1>1, <1>2, <1>3, <1>f, AcceptCancel
<1>5. Accepts(r)
  BY <1>2, <1>4, Kinds DEF Accepts
<1>6. QED
  BY <1>1, <1>5

LEMMA CallRollback ==
  ASSUME JournalInv, NEW o \in OperationId, BeginRollback(o)
  PROVE  \E r : AppendRecord(r) /\ Accepts(r)
<1> DEFINE r == [kind |-> "rollback", op |-> o]
<1>1. /\ o \in DOMAIN live.operations /\ AppendRecord(r) /\ handle = "open" /\ Admits(live, r)
      /\ ~live.operations[o].rollbackStarted
  BY DEF BeginRollback, AppendRecord
<1>2. r.kind = "rollback" /\ r.op = o
  OBVIOUS
<1>f. InputsOK(workload) /\ Shape(workload, live) /\ ProjInv(workload, stored) /\ Matches(live, stored)
  BY <1>1, OpenFacts
<1> HIDE DEF r
<1>3. AdmitsRollback(live, r)
  BY <1>1, <1>2, Kinds
<1>4. AdmitsRollback(stored, r) /\ Settled(workload, live, ApplyRollback(live, r), ApplyRollback(stored, r))
  BY <1>1, <1>2, <1>3, <1>f, AcceptRollback
<1>5. Accepts(r)
  BY <1>2, <1>4, Kinds DEF Accepts
<1>6. QED
  BY <1>1, <1>5

LEMMA CallTerminal ==
  ASSUME JournalInv, NEW o \in OperationId, NEW outcome \in Outcomes, FinishOperation(o, outcome)
  PROVE  \E r : AppendRecord(r) /\ Accepts(r)
<1> DEFINE r == [kind |-> "operationFinish", op |-> o, outcome |-> outcome]
<1>1. /\ o \in DOMAIN live.operations /\ AppendRecord(r) /\ handle = "open" /\ Admits(live, r)
      /\ ~(live.operations[o].state = outcome /\ live.operations[o].finished)
  BY DEF FinishOperation, AppendRecord
<1>2. r.kind = "operationFinish" /\ r.op = o /\ r.outcome = outcome
  OBVIOUS
<1>f. InputsOK(workload) /\ Shape(workload, live) /\ ProjInv(workload, stored) /\ Matches(live, stored)
  BY <1>1, OpenFacts
<1> HIDE DEF r
<1>3. AdmitsTerminal(live, r)
  BY <1>1, <1>2, Kinds
<1>4. AdmitsTerminal(stored, r) /\ Settled(workload, live, ApplyTerminal(live, r), ApplyTerminal(stored, r))
  BY <1>1, <1>2, <1>3, <1>f, AcceptTerminal
<1>5. Accepts(r)
  BY <1>2, <1>4, Kinds DEF Accepts
<1>6. QED
  BY <1>1, <1>5

LEMMA LiveTypes ==
  ASSUME NEW w, NEW p, LiveInv(w, p), NEW o \in DOMAIN p.operations
  PROVE  p.operations[o] \in OperationsOf(w)
  BY DEF LiveInv, Shape

LEMMA KeptSelf ==
  ASSUME NEW w, NEW p, LiveInv(w, p)
  PROVE  Kept(p, p)
<1>1. ASSUME NEW o \in DOMAIN p.operations
      PROVE  KeptOp(p.operations[o], p.operations[o])
  <2>1. Len(p.operations[o].steps) \in Nat
    BY LiveTypes, StepsDomain
  <2>2. QED
    BY <2>1 DEF KeptOp
<1>2. QED
  BY <1>1 DEF Kept

LEMMA KeptMatched ==
  ASSUME NEW w, NEW p, LiveInv(w, p), NEW q, ProjInv(w, q), Kept(p, q), NEW r, Matches(r, q)
  PROVE  Kept(p, r) /\ Kept(r, q)
<1>0. \A o \in DOMAIN q.operations : q.operations[o] \in OperationsOf(w) /\ RunningInv(q.operations[o])
  BY DEF ProjInv, Good, OpInv
<1>1. ASSUME NEW o \in DOMAIN p.operations
      PROVE  o \in DOMAIN r.operations /\ KeptOp(p.operations[o], r.operations[o])
  <2>1. /\ o \in DOMAIN q.operations /\ o \in DOMAIN r.operations /\ KeptOp(p.operations[o], q.operations[o])
        /\ Sees(r.operations[o], q.operations[o])
    BY DEF Kept, Matches
  <2>2. p.operations[o] \in OperationsOf(w) /\ q.operations[o] \in OperationsOf(w)
        /\ RunningInv(q.operations[o])
    BY <1>0, <2>1, LiveTypes
  <2>3. QED
    BY <2>1, <2>2, KeptThenSees
<1>2. ASSUME NEW o \in DOMAIN r.operations
      PROVE  o \in DOMAIN q.operations /\ KeptOp(r.operations[o], q.operations[o])
  BY <1>0, KeptSees DEF Matches
<1>3. QED
  BY <1>1, <1>2 DEF Kept

\* Open finds what the log says.
LEMMA MarkedMatches ==
  ASSUME NEW w, NEW q, ProjInv(w, q)
  PROVE  Shape(w, Marked(q)) /\ Matches(Marked(q), q)
<1> DEFINE f == [o \in DOMAIN q.operations |-> MarkInterrupted(q.operations[o])]
           m == Marked(q)
<1>0. Shape(w, q) /\ \A o \in DOMAIN q.operations : q.operations[o] \in OperationsOf(w)
  BY DEF ProjInv, Good
<1>1. m = [approvals |-> q.approvals, operations |-> f]
  <2>1. q = [approvals |-> q.approvals, operations |-> q.operations]
    BY <1>0 DEF Shape
  <2>2. QED
    BY <2>1 DEF Marked
<1>2. ASSUME NEW o \in DOMAIN q.operations
      PROVE  Sees(f[o], q.operations[o]) /\ f[o] \in OperationsOf(w)
  <2>1. Sees(f[o], q.operations[o])
    BY DEF Sees
  <2>2. QED
    BY <1>0, <2>1, SeesEffect
<1>3. DOMAIN f = DOMAIN q.operations /\ f \in [DOMAIN f -> OperationsOf(w)]
  BY <1>2
<1> HIDE DEF f, m
<1>4. m.approvals = q.approvals /\ m.operations = f
  BY <1>1
<1>5. Shape(w, m)
  BY <1>0, <1>1, <1>3, <1>4 DEF Shape
<1>6. Matches(m, q)
  BY <1>2, <1>3, <1>4 DEF Matches
<1>7. QED
  BY <1>5, <1>6 DEF m

\* An append, whether the storage fails or not.
LEMMA AppendKeeps ==
  ASSUME JournalInv, NEW r, AppendRecord(r), Accepts(r)
  PROVE  JournalInv' /\ Kept(live, live') /\ Keeps(durable, durable')
<1>1. /\ workload \in Workloads /\ ProjInv(workload, stored) /\ LiveInv(workload, live)
      /\ replayable \in BOOLEAN /\ replayable
      /\ handle = "open" /\ workload' = workload /\ Matches(live, stored) /\ Kept(live, stored)
  BY DEF JournalInv, AppendRecord
<1>c. /\ stored \in cuts /\ ProjInv(workload, durable)
      /\ \A p \in cuts : ProjInv(workload, p) /\ Keeps(durable, p)
  BY DEF JournalInv
<1>2. /\ Admits(stored, r) /\ Shape(workload, Apply(live, r)) /\ ProjInv(workload, Apply(stored, r))
      /\ Matches(Apply(live, r), Apply(stored, r)) /\ Kept(live, Apply(stored, r))
  BY DEF Accepts, Settled
<1>k. Keeps(durable, Apply(stored, r)) /\ Keeps(Apply(stored, r), Apply(stored, r))
  <2>1. Keeps(stored, Apply(stored, r))
    BY <1>1, <1>2, LogKeeps
  <2>2. QED
    BY <1>c, <2>1, KeepsTransitive, KeepsSelf
<1>p. ASSUME Persist(r)
      PROVE  stored' = Apply(stored, r) /\ replayable' \in BOOLEAN /\ replayable'
  BY <1>1, <1>2, <1>p DEF Persist
<1>3. CASE Persist(r) /\ live' = Apply(live, r) /\ durable' = stored' /\ cuts' = {stored'} /\ handle' = handle
  <2>1. stored' = Apply(stored, r) /\ replayable' \in BOOLEAN /\ replayable'
    BY <1>3, <1>p
  <2>2. LiveInv(workload, Apply(live, r))
    BY <1>2 DEF LiveInv
  <2>3. Kept(live, Apply(live, r)) /\ Kept(Apply(live, r), Apply(stored, r))
    BY <1>1, <1>2, KeptMatched
  <2>4. /\ stored' \in cuts' /\ ProjInv(workload, durable')
        /\ \A p \in cuts' : ProjInv(workload, p) /\ Keeps(durable', p)
    BY <1>2, <1>3, <1>k, <2>1
  <2>5. QED
    BY <1>1, <1>2, <1>3, <1>k, <2>1, <2>2, <2>3, <2>4 DEF JournalInv
<1>4. CASE /\ handle' = "poisoned" /\ live' = live /\ durable' = durable
           /\ (Persist(r) /\ cuts' = cuts \cup {stored'}) \/ UNCHANGED <<stored, replayable, cuts>>
  <2>1. /\ ProjInv(workload, stored') /\ Kept(live, stored') /\ replayable' \in BOOLEAN /\ replayable'
        /\ stored' \in cuts'
        /\ \A p \in cuts' : ProjInv(workload, p) /\ Keeps(durable, p)
    <3>1. CASE Persist(r) /\ cuts' = cuts \cup {stored'}
      BY <1>2, <1>c, <1>k, <1>p, <3>1
    <3>2. CASE UNCHANGED <<stored, replayable, cuts>>
      BY <1>1, <1>c, <3>2
    <3>3. QED
      BY <1>4, <3>1, <3>2
  <2>2. Kept(live, live) /\ Keeps(durable, durable)
    BY <1>1, KeptSelf, KeepsSelf
  <2>3. QED
    BY <1>1, <1>4, <1>c, <2>1, <2>2 DEF JournalInv
<1>5. QED
  BY <1>3, <1>4 DEF AppendRecord

LEMMA OpenKeeps ==
  ASSUME JournalInv, Open
  PROVE  JournalInv' /\ Kept(live, live') /\ Keeps(durable, durable')
<1>1. /\ workload \in Workloads /\ ProjInv(workload, stored) /\ LiveInv(workload, live)
      /\ replayable \in BOOLEAN /\ replayable /\ Kept(live, stored)
      /\ live' = Marked(stored) /\ handle' = "open"
      /\ UNCHANGED <<workload, stored, replayable, durable, cuts>>
  BY DEF JournalInv, Open
<1>2. Shape(workload, Marked(stored)) /\ Matches(Marked(stored), stored)
  BY <1>1, MarkedMatches
<1>3. LiveInv(workload, Marked(stored))
  BY <1>1, <1>2 DEF LiveInv
<1>4. Kept(live, Marked(stored)) /\ Kept(Marked(stored), stored) /\ Keeps(durable, durable)
  BY <1>1, <1>2, KeptMatched, KeepsSelf
<1>5. QED
  BY <1>1, <1>2, <1>3, <1>4 DEF JournalInv

LEMMA StopKeeps ==
  ASSUME JournalInv, Stop \/ UNCHANGED vars
  PROVE  JournalInv' /\ Kept(live, live') /\ Keeps(durable, durable')
<1>1. /\ UNCHANGED <<workload, live, stored, replayable, durable, cuts>>
      /\ (handle' = "down" \/ handle' = handle)
  BY DEF Stop, vars
<1>2. Kept(live, live) /\ Keeps(durable, durable)
  BY KeptSelf, KeepsSelf DEF JournalInv
<1>3. QED
  BY <1>1, <1>2 DEF JournalInv

\* The empty journal.
LEMMA EmptyFacts ==
  /\ DOMAIN Nothing.operations = {} /\ DOMAIN Nothing.approvals = {}
  /\ \A w : Shape(w, Nothing) /\ ProjInv(w, Nothing) /\ LiveInv(w, Nothing)
  /\ Matches(Nothing, Nothing)
  /\ \A p : Kept(Nothing, p) /\ Keeps(Nothing, p)
<1>1. /\ Nothing.approvals = << >> /\ Nothing.operations = << >>
      /\ Nothing = [approvals |-> Nothing.approvals, operations |-> Nothing.operations]
  BY DEF Nothing
<1>2. DOMAIN << >> = {} /\ \A S : << >> \in [{} -> S]
  OBVIOUS
<1> DEFINE n == Nothing
<1> HIDE DEF n
<1>3. \A w : Shape(w, n)
  BY <1>1, <1>2 DEF Shape, n
<1>4. \A w : ProjInv(w, n)
  BY <1>1, <1>2, <1>3 DEF ProjInv, Exclusive, n
<1>5. Matches(n, n) /\ \A p : Kept(n, p) /\ Keeps(n, p)
  BY <1>1, <1>2 DEF Matches, Kept, Keeps, n
<1>6. \A w : LiveInv(w, n)
  BY <1>3, <1>4, <1>5 DEF LiveInv
<1>7. DOMAIN n.operations = {} /\ DOMAIN n.approvals = {}
  BY <1>1, <1>2 DEF n
<1>8. QED
  BY <1>3, <1>4, <1>5, <1>6, <1>7 DEF n

\* Whatever is left of the log when power is lost, it is a log.
LEMMA PowerKeeps ==
  ASSUME JournalInv, PowerLoss
  PROVE  JournalInv' /\ Keeps(durable, durable') /\ DOMAIN live'.operations = {}
<1> DEFINE n == Nothing
<1>1. /\ stored' \in cuts /\ durable' = stored' /\ cuts' = {stored'}
      /\ live' = n /\ handle' = "down" /\ workload' = workload /\ replayable' = replayable
  BY DEF PowerLoss
<1>2. /\ workload \in Workloads /\ replayable \in BOOLEAN /\ replayable
      /\ ProjInv(workload, stored') /\ Keeps(durable, stored')
  BY <1>1 DEF JournalInv
<1>3. /\ DOMAIN n.operations = {} /\ LiveInv(workload, n) /\ \A p : Kept(n, p)
  BY EmptyFacts
<1> HIDE DEF n
<1>4. Keeps(stored', stored')
  BY KeepsSelf
<1>5. QED
  BY <1>1, <1>2, <1>3, <1>4 DEF JournalInv

LEMMA NextKeeps ==
  ASSUME JournalInv, [Next]_vars
  PROVE  /\ JournalInv' /\ Keeps(durable, durable')
         /\ Kept(live, live') \/ (PowerLoss /\ DOMAIN live'.operations = {})
<1>1. (\E r : AppendRecord(r) /\ Accepts(r)) \/ Open \/ Stop \/ PowerLoss \/ UNCHANGED vars
  <2>1. ASSUME NEW id \in ApprovalId, NEW plan \in workload.plans, NEW expires \in workload.times,
               NEW now \in workload.times, RecordApproval(id, plan, expires, now)
        PROVE  \E r : AppendRecord(r) /\ Accepts(r)
    BY <2>1, CallApproval
  <2>2. ASSUME NEW o \in OperationId, NEW id \in ApprovalId, NEW plan \in workload.plans,
               NEW now \in workload.times, StartOperation(o, id, plan, now)
        PROVE  \E r : AppendRecord(r) /\ Accepts(r)
    BY <2>2, CallOperation
  <2>3. ASSUME NEW o \in OperationId, NEW in \in workload.inputs, NEW attempt \in 1 .. workload.maxAttempt,
               BeginStep(o, in, attempt)
        PROVE  \E r : AppendRecord(r) /\ Accepts(r)
    BY <2>3, CallStart
  <2>4. ASSUME NEW o \in OperationId, NEW i \in 1 .. workload.maxSteps,
               FinishStep(o, i, "succeeded", Empty) \/ \E reason \in Reasons : FinishStep(o, i, "failed", reason)
        PROVE  \E r : AppendRecord(r) /\ Accepts(r)
    BY <2>4, CallFinish
  <2>5. ASSUME NEW o \in OperationId, Cancel(o) \/ BeginRollback(o)
        PROVE  \E r : AppendRecord(r) /\ Accepts(r)
    BY <2>5, CallCancel, CallRollback
  <2>6. ASSUME NEW o \in OperationId, NEW outcome \in Outcomes, FinishOperation(o, outcome)
        PROVE  \E r : AppendRecord(r) /\ Accepts(r)
    BY <2>6, CallTerminal
  <2>7. QED
    BY <2>1, <2>2, <2>3, <2>4, <2>5, <2>6 DEF Next
<1>2. QED
  BY <1>1, AppendKeeps, OpenKeeps, StopKeeps, PowerKeeps

LEMMA InitKeeps ==
  ASSUME Init
  PROVE  JournalInv
<1> DEFINE n == Nothing
<1>1. /\ workload \in Workloads /\ live = n /\ stored = n /\ replayable \in BOOLEAN /\ replayable
      /\ handle = "down" /\ durable = n /\ cuts = {n}
  BY DEF Init
<1>2. /\ \A w : ProjInv(w, n) /\ LiveInv(w, n)
      /\ \A p : Kept(n, p) /\ Keeps(n, p)
  BY EmptyFacts
<1> HIDE DEF n
<1>3. QED
  BY <1>1, <1>2 DEF JournalInv

-----------------------------------------------------------------------------
(* The theorems. *)

\* What the process has in memory is always what a log can show, the log is
\* always one that replay accepts, and an open journal shows its own.
THEOREM JournalInvariant == Spec => []JournalInv
<1>1. Init => JournalInv
  BY InitKeeps
<1>2. JournalInv /\ [Next]_vars => JournalInv'
  BY NextKeeps
<1>3. QED
  BY <1>1, <1>2, PTL DEF Spec

\* The journal never writes a record that a later replay of its log refuses,
\* however often it was interrupted in between: applyRecord is called by
\* appendRecord on the marked projection and by replay on the unmarked one.
THEOREM ReplayTheorem == Spec => []ReplayAccepts
<1>1. JournalInv => ReplayAccepts
  BY DEF JournalInv, ReplayAccepts
<1>2. QED
  BY <1>1, JournalInvariant, PTL

\* An open journal shows what its log says, up to the marks of Open.
THEOREM MatchTheorem == Spec => []LiveMatchesLog
<1>1. JournalInv => LiveMatchesLog
  BY DEF JournalInv, LiveMatchesLog, Matches, Sees, Ops
<1>2. QED
  BY <1>1, JournalInvariant, PTL

\* An operation in memory, as the log it was read from has it.
LEMMA LiveOp ==
  ASSUME JournalInv, NEW o \in Ops
  PROVE  \E g : /\ Sees(live.operations[o], g) /\ live.operations[o] \in OperationsOf(workload)
                /\ Good(workload, ApprovedComponents(live, live.operations[o]), g)
                /\ live.operations[o].approval \in DOMAIN live.approvals
<1>1. Shape(workload, live)
  BY DEF JournalInv, LiveInv
<1>2. PICK s : ProjInv(workload, s) /\ Matches(live, s)
  BY DEF JournalInv, LiveInv
<1> DEFINE l == live.operations[o]
           g == s.operations[o]
<1>o. o \in DOMAIN live.operations
  BY DEF Ops
<1>3. /\ o \in DOMAIN s.operations /\ Sees(l, g) /\ Good(workload, ApprovedComponents(s, g), g)
      /\ l \in OperationsOf(workload) /\ SameButSteps(l, g)
      /\ ApprovedComponents(live, l) = ApprovedComponents(s, g)
  BY <1>o, <1>1, <1>2, MatchedOp
<1>4. l.approval \in DOMAIN live.approvals
  BY <1>2, <1>3 DEF SameButSteps, Matches, ProjInv
<1>5. QED
  BY <1>3, <1>4

\* The facts about it that the properties read.
LEMMA LiveFacts ==
  ASSUME JournalInv, NEW o \in Ops
  PROVE  \E g : LET l == live.operations[o] IN
           /\ g \in OperationsOf(workload) /\ OpInv(ApprovedComponents(live, l), g)
           /\ l \in OperationsOf(workload) /\ SameButSteps(l, g) /\ Len(l.steps) = Len(g.steps)
           /\ DOMAIN l.steps = Indices(g)
           /\ \A i \in Indices(g) : SameStep(l.steps[i], g.steps[i])
           /\ l.state = g.state \/ l.state \in {"recovery_required", "retry_required"}
           /\ Len(l.steps) <= workload.maxSteps /\ l.failure <= workload.maxSteps
           /\ l.approval \in DOMAIN live.approvals
<1> DEFINE l == live.operations[o]
           C == ApprovedComponents(live, l)
<1>1. PICK g : Sees(l, g) /\ l \in OperationsOf(workload) /\ Good(workload, C, g) /\ l.approval \in DOMAIN live.approvals
  BY LiveOp
<1>2. g \in OperationsOf(workload) /\ OpInv(C, g) /\ Len(g.steps) <= workload.maxSteps /\ g.failure <= workload.maxSteps
  BY <1>1 DEF Good
<1>3. /\ SameButSteps(l, g) /\ Len(l.steps) = Len(g.steps)
      /\ \A i \in Indices(g) : SameStep(l.steps[i], g.steps[i])
      /\ l.state = g.state \/ l.state = MarkState(g)
  BY <1>1, <1>2, SeesEffect
<1>4. DOMAIN l.steps = Indices(g)
  BY <1>1, <1>3, StepsDomain DEF Indices
<1>5. l.state = g.state \/ l.state \in {"recovery_required", "retry_required"}
  BY <1>3 DEF MarkState
<1>6. l.failure = g.failure
  BY <1>3 DEF SameButSteps
<1>7. QED
  BY <1>1, <1>2, <1>3, <1>4, <1>5, <1>6

\* Both projections are well formed, and within the bounds of the workload.
THEOREM TypeTheorem == Spec => []TypeOK
<1>1. ASSUME JournalInv
      PROVE  TypeOK
  <2>0. Step = StepsOf(workload)
    BY DEF Step, StepsOf
  <2>1. ASSUME NEW op \in OperationsOf(workload), op.failure <= workload.maxSteps
        PROVE  op \in Operation
    <3>1. op.failure \in 0 .. workload.maxSteps
      BY <1>1, <2>1, WorkloadFacts DEF OperationsOf, InputsOK, JournalInv
    <3>2. QED
      BY <2>0, <3>1 DEF OperationsOf, Operation
  <2>2. ASSUME NEW p, Shape(workload, p),
               \A o \in DOMAIN p.operations :
                 /\ p.operations[o].failure <= workload.maxSteps /\ Len(p.operations[o].steps) <= workload.maxSteps
                 /\ p.operations[o].approval \in DOMAIN p.approvals
        PROVE  ProjectionOK(p)
    <3>1. DOMAIN p = {"approvals", "operations"}
      BY <2>2 DEF Shape
    <3>2. \A o \in DOMAIN p.operations : p.operations[o] \in Operation
      BY <2>1, <2>2 DEF Shape
    <3>3. QED
      BY <2>2, <3>1, <3>2 DEF ProjectionOK, Shape
  <2>3. \A p : ProjInv(workload, p) => ProjectionOK(p)
    BY <2>2 DEF ProjInv, Good
  <2>4. ProjectionOK(live)
    <3>1. \A o \in Ops :
            /\ live.operations[o].failure <= workload.maxSteps /\ Len(live.operations[o].steps) <= workload.maxSteps
            /\ live.operations[o].approval \in DOMAIN live.approvals
      BY <1>1, LiveFacts
    <3>2. QED
      BY <1>1, <2>2, <3>1 DEF JournalInv, LiveInv, Ops
  <2>5. QED
    BY <1>1, <2>3, <2>4 DEF TypeOK, JournalInv
<1>2. QED
  BY <1>1, JournalInvariant, PTL

\* Two approved plans never race, and an operation has one running step.
THEOREM OneOperationTheorem == Spec => []OneOperationAtATime
<1>1. ASSUME JournalInv
      PROVE  OneOperationAtATime
  <2>1. ASSUME NEW o1 \in Ops, NEW o2 \in Ops, o1 # o2
        PROVE  /\ live.operations[o1].approval # live.operations[o2].approval
               /\ live.operations[o1].finished \/ live.operations[o2].finished
    <3>1. PICK s : ProjInv(workload, s) /\ Matches(live, s)
      BY <1>1 DEF JournalInv, LiveInv
    <3>2. Shape(workload, live)
      BY <1>1 DEF JournalInv, LiveInv
    <3>3. \A o \in DOMAIN live.operations :
            o \in DOMAIN s.operations /\ SameButSteps(live.operations[o], s.operations[o])
      BY <3>1, <3>2, MatchedOp
    <3>4. QED
      BY <2>1, <3>1, <3>3 DEF ProjInv, Exclusive, SameButSteps, Ops
  <2>2. ASSUME NEW o \in Ops, NEW i \in DOMAIN live.operations[o].steps, NEW j \in DOMAIN live.operations[o].steps,
               live.operations[o].steps[i].status = "running", live.operations[o].steps[j].status = "running"
        PROVE  i = j
    <3>1. PICK g : /\ g \in OperationsOf(workload) /\ RunningInv(g)
                   /\ DOMAIN live.operations[o].steps = Indices(g)
                   /\ \A k \in Indices(g) : SameStep(live.operations[o].steps[k], g.steps[k])
      BY <1>1, LiveFacts DEF OpInv
    <3>2. QED
      BY <2>2, <3>1 DEF RunningInv, Running, SameStep
  <2>3. QED
    BY <2>1, <2>2 DEF OneOperationAtATime
<1>2. QED
  BY <1>1, JournalInvariant, PTL

\* A change is attempted once.
THEOREM OnceTheorem == Spec => []MutationsAreNeverRetried
<1>1. ASSUME JournalInv
      PROVE  MutationsAreNeverRetried
  <2>1. ASSUME NEW o \in Ops, NEW i \in DOMAIN live.operations[o].steps, NEW j \in DOMAIN live.operations[o].steps, i < j
        PROVE  LET steps == live.operations[o].steps IN
               /\ IsMutation(steps[i]) /\ IsMutation(steps[j]) =>
                    steps[i].in.idempotency # steps[j].in.idempotency
               /\ steps[i].in.id = steps[j].in.id =>
                    /\ ~IsMutation(steps[i]) /\ ~IsMutation(steps[j])
                    /\ steps[i].reason = "interrupted_retry"
                    /\ steps[i].attempt < steps[j].attempt
    <3>1. PICK g : /\ g \in OperationsOf(workload) /\ OnceInv(g)
                   /\ DOMAIN live.operations[o].steps = Indices(g)
                   /\ \A k \in Indices(g) : SameStep(live.operations[o].steps[k], g.steps[k])
      BY <1>1, LiveFacts DEF OpInv
    <3> DEFINE S == live.operations[o].steps
    <3>2. /\ S[i].in = g.steps[i].in /\ S[i].attempt = g.steps[i].attempt /\ S[i].reason = g.steps[i].reason
          /\ S[j].in = g.steps[j].in /\ S[j].attempt = g.steps[j].attempt
      BY <3>1 DEF SameStep
    <3>3. (IsMutation(S[i]) <=> IsMutation(g.steps[i])) /\ (IsMutation(S[j]) <=> IsMutation(g.steps[j]))
      BY <3>2 DEF IsMutation
    <3>4. QED
      BY <2>1, <3>1, <3>2, <3>3 DEF OnceInv
  <2>2. QED
    BY <2>1 DEF MutationsAreNeverRetried
<1>2. QED
  BY <1>1, JournalInvariant, PTL

\* The steps of an operation come in the documented order.
THEOREM OrderTheorem == Spec => []PhaseOrder
<1>1. ASSUME JournalInv
      PROVE  PhaseOrder
  <2>1. ASSUME NEW o \in Ops, NEW j \in DOMAIN live.operations[o].steps
        PROVE  LET op == live.operations[o] steps == op.steps IN
               /\ steps[j].in.phase \in {"apply", "verify"} =>
                    \A c \in ApprovedComponents(live, op) : \E i \in 1 .. j - 1 :
                      steps[i].in.component = c /\ Done(steps[i], "preflight", "succeeded")
               /\ steps[j].in.phase \in {"preflight", "apply"} =>
                    \A i \in 1 .. j - 1 : steps[i].in.phase # "verify"
               /\ op.failure # NoFailure /\ j > op.failure => steps[j].in.phase = "rollback"
    <3> DEFINE op == live.operations[o]
               C == ApprovedComponents(live, op)
    <3>1. PICK g : /\ g \in OperationsOf(workload) /\ OrderInv(C, g) /\ SameButSteps(op, g)
                   /\ DOMAIN op.steps = Indices(g)
                   /\ \A k \in Indices(g) : SameStep(op.steps[k], g.steps[k])
      BY <1>1, LiveFacts DEF OpInv
    <3>2. /\ j \in Indices(g) /\ Len(g.steps) \in Nat /\ op.failure = g.failure
          /\ \A k \in Indices(g) : op.steps[k].in = g.steps[k].in /\ op.steps[k].status = g.steps[k].status
      BY <3>1, StepsDomain DEF SameStep, SameButSteps
    <3>3. \A i \in 1 .. j - 1 : i \in Indices(g)
      BY <3>2 DEF Indices
    <3> HIDE DEF op, C
    <3>4. op.steps[j].in.phase \in {"apply", "verify"} =>
            \A c \in C : \E i \in 1 .. j - 1 :
              op.steps[i].in.component = c /\ Done(op.steps[i], "preflight", "succeeded")
      BY <3>1, <3>2, <3>3 DEF OrderInv, Done
    <3>5. op.steps[j].in.phase \in {"preflight", "apply"} => \A i \in 1 .. j - 1 : op.steps[i].in.phase # "verify"
      BY <3>1, <3>2, <3>3 DEF OrderInv
    <3>6. op.failure # NoFailure /\ j > op.failure => op.steps[j].in.phase = "rollback"
      BY <3>1, <3>2 DEF OrderInv
    <3>7. QED
      BY <3>4, <3>5, <3>6 DEF op, C
  <2>2. QED
    BY <2>1 DEF PhaseOrder
<1>2. QED
  BY <1>1, JournalInvariant, PTL

\* `complete' is said of nothing that was not verified after its last change.
THEOREM CompleteTheorem == Spec => []CompleteIsVerified
<1>1. ASSUME JournalInv
      PROVE  CompleteIsVerified
  <2>1. ASSUME NEW o \in Ops, live.operations[o].state = "complete"
        PROVE  LET op == live.operations[o] steps == op.steps IN
               /\ \A i \in DOMAIN steps : steps[i].status # "running"
               /\ \A i \in DOMAIN steps : IsMutation(steps[i]) => steps[i].status = "succeeded"
               /\ \A c \in ApprovedComponents(live, op) : \E i \in DOMAIN steps :
                    /\ Done(steps[i], "verify", "succeeded") /\ steps[i].in.component = c
                    /\ \A j \in DOMAIN steps : IsMutation(steps[j]) => j < i
    <3> DEFINE op == live.operations[o]
               C == ApprovedComponents(live, op)
    <3>1. PICK g : /\ CompleteInv(C, g) /\ DOMAIN op.steps = Indices(g)
                   /\ \A k \in Indices(g) : SameStep(op.steps[k], g.steps[k])
                   /\ op.state = g.state \/ op.state \in {"recovery_required", "retry_required"}
      BY <1>1, LiveFacts DEF OpInv
    <3>2. /\ g.state = "complete"
          /\ \A k \in Indices(g) : op.steps[k].in = g.steps[k].in /\ op.steps[k].status = g.steps[k].status
      BY <2>1, <3>1 DEF SameStep
    <3>3. \A k \in Indices(g) : IsMutation(op.steps[k]) <=> IsMutation(g.steps[k])
      BY <3>2 DEF IsMutation
    <3> HIDE DEF op, C
    <3>4. \A i \in DOMAIN op.steps : op.steps[i].status # "running"
      BY <3>1, <3>2 DEF CompleteInv, Running
    <3>5. \A i \in DOMAIN op.steps : IsMutation(op.steps[i]) => op.steps[i].status = "succeeded"
      BY <3>1, <3>2, <3>3 DEF CompleteInv
    <3>6. \A c \in C : \E i \in DOMAIN op.steps :
            /\ Done(op.steps[i], "verify", "succeeded") /\ op.steps[i].in.component = c
            /\ \A j \in DOMAIN op.steps : IsMutation(op.steps[j]) => j < i
      BY <3>1, <3>2, <3>3 DEF CompleteInv, Done
    <3>7. QED
      BY <3>4, <3>5, <3>6 DEF op, C
  <2>2. QED
    BY <2>1 DEF CompleteIsVerified
<1>2. QED
  BY <1>1, JournalInvariant, PTL

\* `rolled_back' is said only when every change was undone, `cancelled' and
\* `failed' only when nothing was changed.
THEOREM UndoneTheorem == Spec => []UndoneOrUntouched
<1>1. ASSUME JournalInv
      PROVE  UndoneOrUntouched
  <2>1. ASSUME NEW o \in Ops, live.operations[o].finished
        PROVE  LET op == live.operations[o] steps == op.steps IN
               /\ op.state = "rolled_back" =>
                    \A i \in DOMAIN steps : steps[i].in.phase = "apply" =>
                      \E j \in DOMAIN steps :
                        /\ j > i /\ Done(steps[j], "rollback", "succeeded")
                        /\ steps[j].in.compensates = steps[i].in.id
                        /\ steps[j].in.component = steps[i].in.component
                        /\ steps[j].in.reference = steps[i].in.reference
               /\ op.state \in {"cancelled", "failed"} =>
                    \A i \in DOMAIN steps : ~IsMutation(steps[i])
    <3> DEFINE op == live.operations[o]
    <3>1. PICK g : /\ StateInv(g) /\ FlagInv(g) /\ RolledBackInv(g) /\ DOMAIN op.steps = Indices(g)
                   /\ SameButSteps(op, g)
                   /\ \A k \in Indices(g) : SameStep(op.steps[k], g.steps[k])
                   /\ op.state = g.state \/ op.state \in {"recovery_required", "retry_required"}
      BY <1>1, LiveFacts DEF OpInv
    <3>2. /\ \A k \in Indices(g) : op.steps[k].in = g.steps[k].in /\ op.steps[k].status = g.steps[k].status
          /\ g.finished
      BY <2>1, <3>1 DEF SameStep, SameButSteps
    <3> HIDE DEF op
    <3>3. ASSUME op.state = "rolled_back"
          PROVE  \A i \in DOMAIN op.steps : op.steps[i].in.phase = "apply" =>
                   \E j \in DOMAIN op.steps :
                     /\ j > i /\ Done(op.steps[j], "rollback", "succeeded")
                     /\ op.steps[j].in.compensates = op.steps[i].in.id
                     /\ op.steps[j].in.component = op.steps[i].in.component
                     /\ op.steps[j].in.reference = op.steps[i].in.reference
      <4>1. g.state = "rolled_back"
        BY <3>1, <3>3
      <4>2. QED
        BY <3>1, <3>2, <4>1 DEF RolledBackInv, Done
    <3>4. ASSUME op.state \in {"cancelled", "failed"}
          PROVE  \A i \in DOMAIN op.steps : ~IsMutation(op.steps[i])
      <4>1. g.state \in {"cancelled", "failed"}
        BY <3>1, <3>4
      <4>2. ~g.mutationStarted
        BY <3>1, <3>2, <4>1 DEF StateInv
      <4>3. QED
        BY <3>1, <3>2, <4>2 DEF FlagInv, IsMutation
    <3>5. QED
      BY <3>3, <3>4 DEF op
  <2>2. QED
    BY <2>1 DEF UndoneOrUntouched
<1>2. QED
  BY <1>1, JournalInvariant, PTL

\* What callers were told is recorded is kept by every call, restart, failed append
\* and loss of power, in the log and in every journal opened on it; and all that a
\* journal showed is kept until power is lost.
THEOREM ResultsTheorem == Spec => ResultsAreKept
<1>1. ASSUME JournalInv, [Next]_vars
      PROVE  /\ Keeps(durable, durable')
             /\ handle' = "open" => Keeps(durable', live')
             /\ PowerLoss \/ Keeps(live, live')
  <2>1. JournalInv' /\ Keeps(durable, durable') /\ (Kept(live, live') \/ PowerLoss)
    BY <1>1, NextKeeps
  <2>2. PICK m : m = live'
    OBVIOUS
  <2>3. PICK v : v = workload'
    OBVIOUS
  <2>4. PICK s : s = stored'
    OBVIOUS
  <2>5. PICK d : d = durable'
    OBVIOUS
  <2>6. LiveInv(v, m) /\ LiveInv(workload, live) /\ ProjInv(v, s) /\ Keeps(d, s)
        /\ (handle' = "open" => Matches(m, s))
    BY <1>1, <2>1, <2>2, <2>3, <2>4, <2>5 DEF JournalInv
  <2>7. handle' = "open" => Keeps(d, m)
    BY <2>6, KeepsThenMatches
  <2>8. ASSUME Kept(live, m)
        PROVE  Keeps(live, m)
    <3>1. \A o \in DOMAIN live.operations : live.operations[o] \in OperationsOf(workload)
      BY <2>6, LiveTypes
    <3>2. \A o \in DOMAIN m.operations : m.operations[o] \in OperationsOf(v)
      BY <2>6, LiveTypes
    <3>3. QED
      BY <2>8, <3>1, <3>2, KeptIsKeeps
  <2>9. QED
    BY <2>1, <2>2, <2>5, <2>7, <2>8
<1>2. QED
  BY <1>1, JournalInvariant, PTL DEF Spec, ResultsAreKept

\* A running attempt is given up only after a restart.
THEOREM RetryTheorem == Spec => OnlyInterruptedIsRetried
<1>1. ASSUME JournalInv, [Next]_vars
      PROVE  \A o \in Ops \cap DOMAIN live'.operations :
               \A i \in DOMAIN live.operations[o].steps :
                 LET before == live.operations[o].steps[i]
                     after == live'.operations[o].steps[i]
                 IN  /\ before.status = "running"
                     /\ Len(live'.operations[o].steps) > Len(live.operations[o].steps)
                     => before.recovered
  <2>1. Kept(live, live') \/ DOMAIN live'.operations = {}
    BY <1>1, NextKeeps
  <2>2. PICK m : m = live'
    OBVIOUS
  <2>4. LiveInv(workload, live) /\ (Kept(live, m) \/ DOMAIN m.operations = {})
    BY <1>1, <2>1, <2>2 DEF JournalInv
  <2>5. ASSUME NEW o \in Ops, o \in DOMAIN m.operations, NEW i \in DOMAIN live.operations[o].steps,
               live.operations[o].steps[i].status = "running",
               Len(m.operations[o].steps) > Len(live.operations[o].steps)
        PROVE  live.operations[o].steps[i].recovered
    <3>1. o \in DOMAIN live.operations /\ KeptOp(live.operations[o], m.operations[o])
      BY <2>4, <2>5 DEF Kept, Ops
    <3>2. live.operations[o] \in OperationsOf(workload)
      BY <2>4, <3>1, LiveTypes
    <3>3. i \in Indices(live.operations[o])
      BY <3>2, StepsDomain DEF Indices
    <3>4. QED
      BY <2>5, <3>1, <3>3 DEF KeptOp, Running
  <2>6. QED
    BY <2>2, <2>5
<1>2. QED
  BY <1>1, JournalInvariant, PTL DEF Spec, OnlyInterruptedIsRetried

-----------------------------------------------------------------------------
(* No operation gets stuck: what an open journal admits. *)

LEMMA FreshId ==
  ASSUME NEW w \in Workloads, NEW op \in OperationsOf(w)
  PROVE  /\ \A attempt : FindStep(op, AnotherId, attempt) = {}
         /\ LatestStepByID(op, AnotherId) = {}
<1>1. \A i \in DOMAIN op.steps : op.steps[i].in.id # AnotherId
  BY StepsDomain, JournalAssumption DEF StepsOf, ValidWorkload
<1>2. QED
  BY <1>1 DEF FindStep, LatestStepByID

LEMMA NewStepIs ==
  ASSUME NEW op, NEW in, NEW attempt
  PROVE  LET step == NewStep(op, in, attempt) IN
         /\ step.in = in /\ step.attempt = attempt /\ step.status = "running"
         /\ step.retry <=> \E i \in InFlight(op) :
              /\ op.steps[i].recovered /\ ~IsMutation(op.steps[i])
              /\ op.steps[i].in.id = in.id
              /\ op.steps[i].in.component = in.component
              /\ op.steps[i].in.phase = in.phase
              /\ attempt = op.steps[i].attempt + 1
<1> DEFINE R == \E i \in InFlight(op) :
                  /\ op.steps[i].recovered /\ ~IsMutation(op.steps[i])
                  /\ op.steps[i].in.id = in.id
                  /\ op.steps[i].in.component = in.component
                  /\ op.steps[i].in.phase = in.phase
                  /\ attempt = op.steps[i].attempt + 1
           step == NewStep(op, in, attempt)
<1>1. step = [in |-> in, attempt |-> attempt, status |-> "running", reason |-> Empty, recovered |-> FALSE, retry |-> R]
  BY Zenon DEF NewStep
<1> HIDE DEF R, step
<1>2. step.in = in /\ step.attempt = attempt /\ step.status = "running" /\ (step.retry <=> R)
  BY <1>1
<1>3. QED
  BY <1>2, Zenon DEF R, step

\* What is left to show of a read-only step that begins.
LEMMA StartAdmitted ==
  ASSUME NEW p, NEW o \in DOMAIN p.operations, NEW l, l = p.operations[o], NEW step,
         step.retry => step.attempt >= 2,
         FindStep(l, step.in.id, step.attempt) = {}, RetriesInFlight(l, step),
         Abandon(l).state \notin {"complete", "rolled_back", "cancelled"}, ~Abandon(l).finished,
         step.in.component \in ApprovedComponents(p, Abandon(l)), AttemptOK(Abandon(l), step),
         \/ step.in.phase = "preflight" /\ PreflightOK(Abandon(l))
         \/ step.in.phase = "verify" /\ VerifyOK(p, Abandon(l))
  PROVE  AdmitsStepStart(p, [op |-> o, step |-> step])
<1>1. DigestUnused(Abandon(l), step)
  BY DEF DigestUnused, IsMutation, Mode
<1>2. StepTransitionOK(p, Abandon(l), step)
  <2>1. CASE step.in.phase = "preflight" /\ PreflightOK(Abandon(l))
    BY <1>1, <2>1 DEF StepTransitionOK
  <2>2. CASE step.in.phase = "verify" /\ VerifyOK(p, Abandon(l))
    BY <1>1, <2>2 DEF StepTransitionOK
  <2>3. QED
    BY <2>1, <2>2
<1>3. QED
  BY <1>2 DEF AdmitsStepStart

\* Once a verification began every approved component has passed preflight, and
\* no other component has a step.
LEMMA PreflightDone ==
  ASSUME NEW w, NEW g \in OperationsOf(w), NEW C, RunningInv(g), OrderInv(C, g), UntouchedInv(C, g),
         NEW j \in Indices(g), g.steps[j].in.phase = "verify"
  PROVE  Succeeded(Abandon(g), "preflight") = C
<1> DEFINE a == Abandon(g)
<1>1. DOMAIN a.steps = Indices(g)
  BY AbandonEffect, StepsDomain DEF Indices
<1>2. \A i \in Indices(g) : a.steps[i].in = g.steps[i].in /\ (~Running(g, i) => a.steps[i] = g.steps[i])
  BY AbandonSteps
<1>3. ASSUME NEW c \in C
      PROVE  \E i \in Indices(g) : a.steps[i].in.component = c /\ Done(a.steps[i], "preflight", "succeeded")
  <2>1. PICK i \in 1 .. j - 1 : g.steps[i].in.component = c /\ Done(g.steps[i], "preflight", "succeeded")
    BY DEF OrderInv
  <2>2. i \in Indices(g)
    BY StepsDomain DEF Indices
  <2>3. ~Running(g, i)
    BY <2>1 DEF Done, Running
  <2>4. QED
    BY <1>2, <2>1, <2>2, <2>3
<1>4. \A i \in Indices(g) : a.steps[i].in.component \in C
  BY <1>2 DEF UntouchedInv
<1> HIDE DEF a
<1>5. Succeeded(a, "preflight") = C
  BY <1>1, <1>3, <1>4 DEF Succeeded
<1>6. QED
  BY <1>5 DEF a

\* What an unfinished operation that changed nothing looks like, in memory (l)
\* and in its log (g).
Quiet(w, C, p, l, g) ==
  /\ g \in OperationsOf(w) /\ OpInv(C, g) /\ Sees(l, g)
  /\ ~l.mutationStarted /\ ~l.finished
  /\ ApprovedComponents(p, Abandon(l)) = C

LEMMA QuietFacts ==
  ASSUME NEW w, NEW C, NEW p, NEW l, NEW g, Quiet(w, C, p, l, g)
  PROVE  /\ l \in OperationsOf(w) /\ SameButSteps(l, g) /\ RunningInv(g)
         /\ Abandon(l).steps = Abandon(g).steps /\ Abandon(l).state = l.state
         /\ ~Abandon(l).mutationStarted /\ ~Abandon(l).rollbackStarted /\ ~Abandon(l).finished
         /\ Abandon(l).failure = g.failure
         /\ g.state \in {"approved", "preflighting", "verifying", "failed"}
         /\ g.failure # NoFailure => g.state = "failed"
         /\ \A i \in Indices(g) : ~IsMutation(g.steps[i]) /\ g.steps[i].in.component \in C
<1>1. l \in OperationsOf(w) /\ SameButSteps(l, g)
  BY SeesEffect DEF Quiet
<1>2. /\ Abandon(l).steps = Abandon(g).steps /\ Abandon(l).state = l.state
      /\ SameButSteps(Abandon(l), Abandon(g)) /\ SameButSteps(Abandon(g), g)
  BY AbandonSame, AbandonEffect DEF Quiet
<1>3. ~g.mutationStarted /\ ~g.finished
  BY <1>1 DEF Quiet, SameButSteps
<1>4. /\ ~g.rollbackStarted /\ g.state \in {"approved", "preflighting", "verifying", "failed"}
      /\ g.failure # NoFailure => g.state = "failed"
      /\ \A i \in Indices(g) : g.steps[i].in.component \in C
  BY <1>3 DEF Quiet, OpInv, UntouchedInv
<1>5. \A i \in Indices(g) : ~IsMutation(g.steps[i])
  BY <1>3 DEF Quiet, OpInv, FlagInv
<1>6. RunningInv(g)
  BY DEF Quiet, OpInv
<1>7. QED
  BY <1>1, <1>2, <1>3, <1>4, <1>5, <1>6 DEF SameButSteps

LEMMA Attempts ==
  ASSUME NEW w, InputsOK(w), NEW step \in StepsOf(w)
  PROVE  step.attempt \in Nat /\ step.attempt >= 1
  BY DEF StepsOf, InputsOK

\* An interrupted read-only step may be attempted again.
LEMMA RetryAdmitted ==
  ASSUME NEW w, InputsOK(w), NEW C, NEW p, NEW o \in DOMAIN p.operations, NEW l, l = p.operations[o],
         NEW g, Quiet(w, C, p, l, g), NEW i \in InFlight(l), l.steps[i].recovered
  PROVE  AdmitsStepStart(p, [op |-> o, step |-> NewStep(l, l.steps[i].in, l.steps[i].attempt + 1)])
<1> DEFINE in == l.steps[i].in
           attempt == l.steps[i].attempt + 1
           step == NewStep(l, in, attempt)
           a == Abandon(l)
<1>q. /\ g \in OperationsOf(w) /\ Sees(l, g) /\ OnceInv(g) /\ OrderInv(C, g) /\ UntouchedInv(C, g)
      /\ ApprovedComponents(p, a) = C
  BY DEF Quiet, OpInv
<1>f. /\ l \in OperationsOf(w) /\ RunningInv(g) /\ a.steps = Abandon(g).steps /\ a.state = l.state
      /\ ~a.mutationStarted /\ ~a.rollbackStarted /\ ~a.finished /\ a.failure = g.failure
      /\ g.failure # NoFailure => g.state = "failed"
      /\ \A k \in Indices(g) : ~IsMutation(g.steps[k]) /\ g.steps[k].in.component \in C
      /\ SameButSteps(l, g)
  BY QuietFacts
<1>1. InFlight(l) = InFlight(g) /\ InFlight(g) = {k \in Indices(g) : Running(g, k)}
      /\ i \in Indices(g) /\ Running(g, i) /\ i = Len(g.steps) /\ \A k \in InFlight(l) : k = i
  BY <1>q, <1>f, SeesLookups, InFlightIs
<1>2. /\ Len(l.steps) = Len(g.steps) /\ \A k \in Indices(g) : SameStep(l.steps[k], g.steps[k])
      /\ l.state = g.state \/ l.state = MarkState(g)
  BY <1>q, SeesEffect
<1>3. /\ in = g.steps[i].in /\ attempt = g.steps[i].attempt + 1 /\ g.steps[i] \in StepsOf(w)
      /\ \A k \in Indices(g) : g.steps[k].attempt \in Nat /\ g.steps[k].attempt >= 1
  <2>1. \A k \in Indices(g) : g.steps[k] \in StepsOf(w)
    BY <1>q, StepsDomain DEF Indices
  <2>2. QED
    BY <1>1, <1>2, <2>1, Attempts DEF SameStep
<1>4. ~IsMutation(l.steps[i])
  BY <1>1, <1>2, <1>f DEF SameStep, IsMutation
<1>5. step.in = in /\ step.attempt = attempt /\ step.retry
  <2>1. \E k \in InFlight(l) :
          /\ l.steps[k].recovered /\ ~IsMutation(l.steps[k]) /\ l.steps[k].in.id = in.id
          /\ l.steps[k].in.component = in.component /\ l.steps[k].in.phase = in.phase
          /\ attempt = l.steps[k].attempt + 1
    BY <1>4
  <2> HIDE DEF in, attempt
  <2>2. QED
    BY <2>1, NewStepIs
<1>6. RetriesInFlight(l, step)
  BY <1>1, <1>4, <1>5 DEF RetriesInFlight
<1>7. step.attempt >= 2
  BY <1>1, <1>3, <1>5
<1> HIDE DEF step, in, attempt
<1>8. \A k \in Indices(g) : g.steps[k].in.id = in.id => k = i \/ g.steps[k].attempt < g.steps[i].attempt
  BY <1>1, <1>3, <1>q, StepsDomain DEF OnceInv, Indices
<1>9. FindStep(l, step.in.id, step.attempt) = {}
  <2>1. \A k \in Indices(g) : g.steps[k].in.id = in.id => g.steps[k].attempt # attempt
    BY <1>1, <1>3, <1>8
  <2>2. FindStep(g, in.id, attempt) = {}
    BY <2>1, <1>q, StepsDomain DEF FindStep, Indices
  <2>3. QED
    BY <2>2, <1>q, <1>5, SeesLookups
<1>10. AttemptOK(a, step)
  <2>1. /\ DOMAIN a.steps = Indices(g)
        /\ \A k \in Indices(g) : a.steps[k].in = g.steps[k].in /\ a.steps[k].attempt = g.steps[k].attempt
        /\ a.steps[i].reason = "interrupted_retry"
    BY <1>1, <1>q, <1>f, AbandonEffect, AbandonSteps, StepsDomain DEF Indices
  <2>2. ~IsMutation(a.steps[i])
    BY <1>1, <1>f, <2>1 DEF IsMutation
  <2>3. LatestStepByID(a, in.id) = {i}
    BY <1>1, <1>3, <2>1, <1>q, StepsDomain DEF LatestStepByID, Indices
  <2>4. step.attempt = a.steps[i].attempt + 1
    BY <1>1, <1>3, <1>5, <2>1
  <2> HIDE DEF a
  <2>5. QED
    BY <1>5, <2>1, <2>2, <2>3, <2>4 DEF AttemptOK
<1>11. g.state = PhaseState(in.phase) /\ in.phase \in {"preflight", "verify"} /\ in.component \in C
  <2>1. ~g.finished
    BY <1>q, <1>f DEF Quiet, SameButSteps
  <2>2. in.phase \in {"preflight", "verify"}
    BY <1>1, <1>3, <1>f, StepPhases DEF IsMutation, Mode, Phases
  <2>3. QED
    BY <1>1, <1>3, <1>f, <2>1, <2>2 DEF RunningInv
<1>12. /\ in.phase = "preflight" => a.state \in {"preflighting", "retry_required"}
       /\ in.phase = "verify" => a.state \in {"verifying", "retry_required"}
       /\ a.failure = NoFailure
  <2>1. MarkState(g) = "retry_required"
    BY <1>1, <1>f DEF MarkState
  <2>2. QED
    BY <1>2, <1>11, <1>f, <2>1, PhaseStates
<1>13. \/ step.in.phase = "preflight" /\ PreflightOK(a)
       \/ step.in.phase = "verify" /\ VerifyOK(p, a)
  <2>1. CASE in.phase = "preflight"
    BY <2>1, <1>5, <1>12, <1>f DEF PreflightOK
  <2>2. CASE in.phase = "verify"
    <3>1. Succeeded(Abandon(g), "preflight") = C
      BY <1>1, <1>3, <1>q, <1>f, <2>2, PreflightDone
    <3>2. AllComponentsSucceededPhase(p, a, "preflight")
      BY <3>1, <1>q, <1>f DEF AllComponentsSucceededPhase, Succeeded
    <3>3. QED
      BY <2>2, <3>2, <1>5, <1>12, <1>f DEF VerifyOK
  <2>3. QED
    BY <1>11, <2>1, <2>2
<1>14. a.state \notin {"complete", "rolled_back", "cancelled"} /\ step.in.component \in ApprovedComponents(p, a)
  BY <1>5, <1>11, <1>12, <1>q
<1>15. AdmitsStepStart(p, [op |-> o, step |-> step])
  BY <1>5, <1>6, <1>7, <1>9, <1>10, <1>13, <1>14, <1>f, StartAdmitted DEF a
<1>16. QED
  BY <1>15 DEF step, in, attempt

\* A running step that was not interrupted may be given its result.
LEMMA ResultAdmitted ==
  ASSUME NEW w, InputsOK(w), NEW C, NEW p, NEW o \in DOMAIN p.operations, NEW l, l = p.operations[o],
         NEW g, Quiet(w, C, p, l, g), NEW i \in InFlight(l)
  PROVE  AdmitsStepFinish(p, [op |-> o, id |-> l.steps[i].in.id, attempt |-> l.steps[i].attempt,
                              status |-> "succeeded", reason |-> Empty, reconciles |-> FALSE])
<1>q. g \in OperationsOf(w) /\ Sees(l, g) /\ OnceInv(g) /\ ~l.finished
  BY DEF Quiet, OpInv
<1>f. l \in OperationsOf(w) /\ RunningInv(g)
  BY QuietFacts
<1>1. i \in Indices(g) /\ Running(g, i)
  BY <1>q, <1>f, SeesLookups, InFlightIs
<1>2. \A k \in Indices(g) : SameStep(l.steps[k], g.steps[k])
  BY <1>q, SeesEffect
<1>3. i \in FindStep(g, g.steps[i].in.id, g.steps[i].attempt)
  <2>1. \A k \in Indices(g) : g.steps[k].attempt \in Int
    BY <1>q, StepsDomain, Attempts DEF Indices
  <2>2. \A k \in Indices(g) : k < i => ~(g.steps[k].in.id = g.steps[i].in.id /\ g.steps[k].attempt = g.steps[i].attempt)
    BY <1>1, <1>q, <2>1 DEF OnceInv
  <2>3. QED
    BY <1>1, <1>q, <2>2, StepsDomain DEF FindStep, Indices
<1>4. i \in FindStep(l, l.steps[i].in.id, l.steps[i].attempt) /\ l.steps[i].status = "running"
  BY <1>1, <1>2, <1>3, <1>q, SeesLookups DEF SameStep, Running
<1>5. QED
  BY <1>4, <1>q DEF AdmitsStepFinish

\* Once a verification began another one may begin, under a new ID.
LEMMA VerificationAdmitted ==
  ASSUME NEW w \in Workloads, NEW C, NEW p, NEW o \in DOMAIN p.operations, NEW l, l = p.operations[o],
         NEW g, Quiet(w, C, p, l, g), InFlight(l) = {}, l.state = "verifying", NEW c \in C
  PROVE  AdmitsStepStart(p, [op |-> o, step |-> NewStep(l, VerifyInput(c), 1)])
<1> DEFINE step == NewStep(l, VerifyInput(c), 1)
           a == Abandon(l)
<1>q. /\ g \in OperationsOf(w) /\ Sees(l, g) /\ OrderInv(C, g) /\ UntouchedInv(C, g)
      /\ ApprovedComponents(p, a) = C
  BY DEF Quiet, OpInv
<1>f. /\ l \in OperationsOf(w) /\ RunningInv(g) /\ a.steps = Abandon(g).steps /\ a.state = l.state
      /\ ~a.mutationStarted /\ ~a.rollbackStarted /\ ~a.finished /\ a.failure = g.failure
      /\ g.failure # NoFailure => g.state = "failed"
  BY QuietFacts
<1>1. l = g
  BY <1>q, SeesEffect, SeesLookups
<1>2. VerifyInput(c).id = AnotherId /\ VerifyInput(c).component = c /\ VerifyInput(c).phase = "verify"
  BY DEF VerifyInput
<1>3. step.in = VerifyInput(c) /\ step.attempt = 1 /\ ~step.retry
  BY NewStepIs
<1> HIDE DEF step
<1>4. FindStep(l, step.in.id, step.attempt) = {}
  BY <1>2, <1>3, <1>f, FreshId
<1>5. RetriesInFlight(l, step)
  BY DEF RetriesInFlight
<1>6. AttemptOK(a, step)
  <2>1. a \in OperationsOf(w)
    BY <1>f, AbandonEffect
  <2>2. LatestStepByID(a, step.in.id) = {}
    BY <1>2, <1>3, <2>1, FreshId
  <2>3. QED
    BY <1>3, <2>2 DEF AttemptOK
<1>7. Succeeded(a, "preflight") = C
  <2>1. PICK j \in Indices(g) : g.steps[j].in.phase = "verify"
    BY <1>1, <1>q DEF UntouchedInv
  <2>2. QED
    BY <1>1, <1>q, <1>f, <2>1, PreflightDone
<1>8. VerifyOK(p, a)
  BY <1>1, <1>7, <1>q, <1>f DEF VerifyOK, AllComponentsSucceededPhase
<1>9. AdmitsStepStart(p, [op |-> o, step |-> step])
  BY <1>2, <1>3, <1>4, <1>5, <1>6, <1>8, <1>q, <1>f, StartAdmitted
<1>10. QED
  BY <1>9 DEF step

\* No operation gets stuck: an open journal admits a way on for every
\* unfinished operation, in whatever state interruptions left it.
THEOREM NoDeadEndTheorem == Spec => []NoDeadEnd
<1>1. ASSUME JournalInv
      PROVE  NoDeadEnd
  <2>1. SUFFICES ASSUME handle = "open", NEW o \in Ops, NEW l, l = live.operations[o], ~l.finished
                 PROVE  \/ \E outcome \in Outcomes : AdmitsTerminal(live, [op |-> o, outcome |-> outcome])
                        \/ AdmitsCancel(live, [op |-> o])
                        \/ \E i \in InFlight(l) :
                             IF l.steps[i].recovered
                             THEN AdmitsStepStart(live, [op |-> o, step |->
                                    NewStep(l, l.steps[i].in, l.steps[i].attempt + 1)])
                             ELSE AdmitsStepFinish(live, [op |-> o, id |-> l.steps[i].in.id,
                                    attempt |-> l.steps[i].attempt, status |-> "succeeded",
                                    reason |-> Empty, reconciles |-> FALSE])
                        \/ \E c \in ApprovedComponents(live, l) :
                             AdmitsStepStart(live, [op |-> o, step |-> NewStep(l, VerifyInput(c), 1)])
    BY DEF NoDeadEnd
  <2>2. o \in DOMAIN live.operations /\ workload \in Workloads
    BY <1>1 DEF Ops, JournalInv
  <2>3. InputsOK(workload) /\ Shape(workload, live) /\ ProjInv(workload, stored) /\ Matches(live, stored)
    BY <1>1, <2>1, OpenFacts
  <2> DEFINE g == stored.operations[o]
             C == ApprovedComponents(stored, g)
  <2>4. /\ o \in DOMAIN stored.operations /\ Sees(l, g) /\ Good(workload, C, g) /\ g \in OperationsOf(workload)
        /\ ApprovedComponents(live, l) = C /\ ApprovedComponents(live, Abandon(l)) = C
    BY <2>1, <2>2, <2>3, MatchedOp
  <2>5. C # {}
    BY <2>3, <2>4, Approved
  <2> HIDE DEF g, C
  <2>6. CASE l.mutationStarted
    <3>1. RecoveryRequiredOK(l)
      BY <2>1, <2>6 DEF RecoveryRequiredOK
    <3>2. AdmitsTerminal(live, [op |-> o, outcome |-> "recovery_required"])
      BY <2>1, <2>2, <3>1 DEF AdmitsTerminal
    <3>3. "recovery_required" \in Outcomes
      BY DEF Outcomes
    <3>4. QED
      BY <3>2, <3>3
  <2>7. CASE ~l.mutationStarted
    <3>1. Quiet(workload, C, live, l, g)
      BY <2>1, <2>4, <2>7 DEF Quiet, Good
    <3>2. CASE InFlight(l) = {}
      <4>1. l = g
        BY <3>2, <2>4, SeesEffect, SeesLookups
      <4>2. l.state \in {"approved", "preflighting", "verifying", "failed"}
        BY <3>1, <4>1, QuietFacts
      <4>3. CASE l.state \in {"approved", "preflighting"}
        BY <2>1, <2>2, <2>7, <3>2, <4>3 DEF AdmitsCancel
      <4>4. CASE l.state = "failed"
        <5>1. AdmitsTerminal(live, [op |-> o, outcome |-> "failed"])
          BY <2>1, <2>2, <2>7, <3>2, <4>4 DEF AdmitsTerminal
        <5>2. QED
          BY <5>1 DEF Outcomes
      <4>5. CASE l.state = "verifying"
        <5>1. PICK c \in C : TRUE
          BY <2>5
        <5>2. AdmitsStepStart(live, [op |-> o, step |-> NewStep(l, VerifyInput(c), 1)])
          BY <2>1, <2>2, <3>1, <3>2, <4>5, VerificationAdmitted
        <5>3. QED
          BY <2>4, <5>2
      <4>6. QED
        BY <4>2, <4>3, <4>4, <4>5
    <3>3. CASE InFlight(l) # {}
      <4>1. PICK i \in InFlight(l) : TRUE
        BY <3>3
      <4>2. CASE l.steps[i].recovered
        BY <2>1, <2>2, <2>3, <3>1, <4>2, RetryAdmitted
      <4>3. CASE ~l.steps[i].recovered
        BY <2>1, <2>2, <2>3, <3>1, <4>3, ResultAdmitted
      <4>4. QED
        BY <4>2, <4>3
    <3>4. QED
      BY <3>2, <3>3
  <2>8. QED
    BY <2>6, <2>7
<1>2. QED
  BY <1>1, JournalInvariant, PTL
=============================================================================
