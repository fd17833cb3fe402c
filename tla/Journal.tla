------------------------------- MODULE Journal -------------------------------
(***************************************************************************)
(* The approval and operation state machine of pkg/journal.                *)
(*                                                                         *)
(* A projection holds what the journal knows: approvals, and operations    *)
(* with their steps.  Every change is a record that is first previewed on  *)
(* the projection, then made durable, then applied.  `live' is the         *)
(* projection in the memory of the process; `stored' is what replaying the *)
(* log from the beginning builds.  Both are moved by the same applyRecord, *)
(* but from different states: replay does not know about restarts, while   *)
(* Open marks in `live' every step it finds interrupted.                   *)
(*                                                                         *)
(* Storage is used as DurableLog promises it: an append either returns     *)
(* with its record durable, or poisons the handle with the record in the   *)
(* log or not.  A record that is in the log without having been            *)
(* acknowledged is found by replay, and may still be lost with the power.  *)
(***************************************************************************)
EXTENDS Naturals, Sequences, FiniteSets

CONSTANTS
  ApprovalId, OperationId,
  PlanDigest,     \* digests of the plans an approval may name
  Component,
  PlanSteps,      \* the components of a plan: one stack.Plan step each
  Time,           \* readings of the controller's clock: it may be set back
  Workloads,      \* what callers ask for, see ValidWorkload
  AnotherId       \* a step ID that no workload uses: there are always more

Phases   == {"preflight", "apply", "verify", "rollback"}
Outcomes == {"complete", "failed", "recovery_required", "rolled_back"}
States   == {"approved", "preflighting", "applying", "verifying", "failed",
             "retry_required", "rolling_back", "recovery_required",
             "complete", "rolled_back", "cancelled"}
Reasons  == {"reported", "interrupted_retry"}

Mode(phase) == IF phase \in {"apply", "rollback"} THEN "mutation" ELSE "read_only"

\* Fields that a StepInput may leave empty.
Empty == "empty"

\* validateStepInput: which combinations of fields are well formed.
ValidStepInput(in) ==
  /\ in.component \in Component /\ in.phase \in Phases
  /\ IF Mode(in.phase) = "mutation"
     THEN /\ in.idempotency # Empty
          /\ (in.reference = Empty) # (in.recoveryOnly = Empty)
     ELSE in.idempotency = Empty /\ in.reference = Empty /\ in.recoveryOnly = Empty
  /\ (in.phase = "rollback") = (in.compensates # Empty)
  /\ in.phase = "rollback" => in.recoveryOnly = Empty

\* The plans and the StepInput values (attempt aside) that callers pass, and the
\* bounds: the readings of the clock, approvals and so operations, steps of one
\* operation, and StepInput.Attempt, a uint32 in the code.
ValidWorkload(w) ==
  /\ w.plans \subseteq PlanDigest /\ w.times \subseteq Time
  /\ \A in \in w.inputs : ValidStepInput(in) /\ in.id # AnotherId
  /\ {w.maxOperations, w.maxSteps, w.maxAttempt} \subseteq Nat

ASSUME JournalAssumption ==
  /\ PlanSteps \in [PlanDigest -> (SUBSET Component) \ {{}}]
  /\ Time \subseteq Nat
  /\ \A w \in Workloads : ValidWorkload(w)

VARIABLES
  workload,     \* what callers ask for in this behaviour
  live,         \* the projection in memory: approvals and operations
  stored,       \* the projection that replay of the log yields
  replayable,   \* replay accepts every record of the log
  durable,      \* the part of stored that is on stable storage: what appends
                \* returned success for, and what a loss of power left
  cuts,         \* what a loss of power may leave of stored: durable or more
  handle        \* "open", "poisoned", or "down" when no process holds it

vars == <<workload, live, stored, replayable, durable, cuts, handle>>

NoFailure == 0

\* f with the value v at x, whether or not f was defined there.
Put(f, x, v) == [y \in DOMAIN f \cup {x} |-> IF y = x THEN v ELSE f[y]]

Nothing == [approvals |-> << >>, operations |-> << >>]

Init ==
  /\ workload \in Workloads
  /\ live = Nothing /\ stored = Nothing
  /\ replayable = TRUE
  /\ durable = Nothing /\ cuts = {Nothing}
  /\ handle = "down"

-----------------------------------------------------------------------------
(* Lookups on an operation; each is the set of indices the code's loop     *)
(* would stop at, empty for nil.                                           *)

\* Faulty variant: the last step, whether it is running or not.
InFlightLastStep(op) == {i \in DOMAIN op.steps : i = Len(op.steps)}

\* inFlight: the last running step.
InFlight(op) ==
  LET running == {i \in DOMAIN op.steps : op.steps[i].status = "running"}
  IN  {i \in running : \A j \in running : j <= i}

\* findStep: the first step with this ID and attempt.
FindStep(op, id, attempt) ==
  LET same == {i \in DOMAIN op.steps : /\ op.steps[i].in.id = id
                                       /\ op.steps[i].attempt = attempt}
  IN  {i \in same : \A j \in same : i <= j}

\* latestStepByID
LatestStepByID(op, id) ==
  LET same == {i \in DOMAIN op.steps : op.steps[i].in.id = id}
  IN  {i \in same : \A j \in same : j <= i}

IsMutation(step) == Mode(step.in.phase) = "mutation"
Done(step, phase, status) == step.in.phase = phase /\ step.status = status

\* The components with a succeeded step of this phase.
Succeeded(op, phase) ==
  {op.steps[i].in.component : i \in {j \in DOMAIN op.steps : Done(op.steps[j], phase, "succeeded")}}

ApprovedComponents(p, op) == PlanSteps[p.approvals[op.approval].plan]

AllComponentsSucceededPhase(p, op, phase) ==
  Succeeded(op, phase) = ApprovedComponents(p, op)

Compensated(op, id) ==
  \E i \in DOMAIN op.steps : /\ Done(op.steps[i], "rollback", "succeeded")
                             /\ op.steps[i].in.compensates = id

\* Faulty variant: a failed change is taken to have changed nothing.
SucceededMutations(op) ==
  {i \in DOMAIN op.steps : Done(op.steps[i], "apply", "succeeded")}

\* Apply steps with a result: a failed one may have changed the outside too.
FinishedMutations(op) ==
  {i \in DOMAIN op.steps : op.steps[i].in.phase = "apply" /\ op.steps[i].status # "running"}

\* latestRollbackEligibleMutation
LatestRollbackEligible(op, id) ==
  LET same == {i \in FinishedMutations(op) : op.steps[i].in.id = id}
  IN  {i \in same : \A j \in same : j <= i}

HasRollbackCandidate(op) ==
  \E i \in FinishedMutations(op) : /\ op.steps[i].in.reference # Empty
                                   /\ ~Compensated(op, op.steps[i].in.id)

\* Faulty variant: one verified component is enough.
CanCompleteAnyVerified(p, op) ==
  /\ op.failure = NoFailure
  /\ ~op.rollbackStarted
  /\ InFlight(op) = {}
  /\ \A i \in DOMAIN op.steps : IsMutation(op.steps[i]) => op.steps[i].status = "succeeded"
  /\ Succeeded(op, "verify") # {}

CanComplete(p, op) ==
  /\ op.failure = NoFailure
  /\ ~op.rollbackStarted
  /\ InFlight(op) = {}
  /\ \A i \in DOMAIN op.steps : IsMutation(op.steps[i]) => op.steps[i].status = "succeeded"
  /\ AllComponentsSucceededPhase(p, op, "verify")

CanReportRolledBack(op) ==
  /\ op.rollbackStarted /\ op.state = "rolling_back"
  /\ InFlight(op) = {}
  /\ \A i \in DOMAIN op.steps :
       /\ op.steps[i].in.phase = "apply" => op.steps[i].in.recoveryOnly = Empty
       /\ ~Done(op.steps[i], "rollback", "failed")
  /\ \A i \in FinishedMutations(op) : Compensated(op, op.steps[i].in.id)

-----------------------------------------------------------------------------
(* applyRecord, one pair of operators per kind of record: whether the      *)
(* projection p admits the record, and the projection it leads to.  An     *)
(* exact repetition is admitted and changes nothing.                       *)

PhaseState(phase) ==
  CASE phase = "preflight" -> "preflighting"
    [] phase = "apply"     -> "applying"
    [] phase = "verify"    -> "verifying"
    [] phase = "rollback"  -> "rolling_back"

AdmitsApproval(p, r) ==
  /\ r.approval.issued < r.approval.expires
  /\ r.id \in DOMAIN p.approvals => p.approvals[r.id] = r.approval

ApplyApproval(p, r) == [p EXCEPT !.approvals = Put(@, r.id, r.approval)]

\* Faulty variant: an unfinished operation does not block the next one.
AdmitsOperationConcurrent(p, r) ==
  /\ r.approval \in DOMAIN p.approvals
  /\ p.approvals[r.approval].plan = r.plan
  /\ r.at < p.approvals[r.approval].expires
  /\ \A o \in DOMAIN p.operations : p.operations[o].approval # r.approval

AdmitsOperation(p, r) ==
  /\ r.approval \in DOMAIN p.approvals
  /\ p.approvals[r.approval].plan = r.plan
  /\ r.at < p.approvals[r.approval].expires
  /\ IF r.op \in DOMAIN p.operations
     THEN /\ p.operations[r.op].approval = r.approval
          /\ p.operations[r.op].plan = r.plan
     ELSE \A o \in DOMAIN p.operations :
            p.operations[o].approval # r.approval /\ p.operations[o].finished

NewOperation(r) ==
  [approval |-> r.approval, plan |-> r.plan, startedAt |-> r.at,
   state |-> "approved", steps |-> << >>, mutationStarted |-> FALSE,
   rollbackStarted |-> FALSE, failure |-> NoFailure, finished |-> FALSE]

ApplyOperation(p, r) ==
  IF r.op \in DOMAIN p.operations THEN p
  ELSE [p EXCEPT !.operations = Put(@, r.op, NewOperation(r))]

\* Faulty variant: the abandoned attempt gets a status of its own.
AbandonAsInterrupted(op) ==
  [op EXCEPT !.steps = [i \in DOMAIN @ |->
     IF i \in InFlight(op)
     THEN [@[i] EXCEPT !.status = "interrupted", !.reason = "interrupted_retry"]
     ELSE @[i]]]

\* A retry resolves the interrupted attempt it replaces.
Abandon(op) ==
  [op EXCEPT !.steps = [i \in DOMAIN @ |->
     IF i \in InFlight(op)
     THEN [@[i] EXCEPT !.status = "failed", !.reason = "interrupted_retry", !.recovered = FALSE]
     ELSE @[i]]]

(* validateStepTransition, with op as it is once the attempt is abandoned. *)

\* A new step ID starts at attempt 1; a used one is only ever retried.
AttemptOK(op, step) ==
  /\ LatestStepByID(op, step.in.id) = {} => step.attempt = 1 /\ ~step.retry
  /\ \A i \in LatestStepByID(op, step.in.id) :
       /\ step.retry /\ step.attempt = op.steps[i].attempt + 1
       /\ ~IsMutation(op.steps[i]) /\ op.steps[i].reason = "interrupted_retry"

\* Faulty variant: idempotency digests may be reused.
DigestAlwaysUnused(op, step) == TRUE

DigestUnused(op, step) ==
  IsMutation(step) => \A i \in DOMAIN op.steps :
    IsMutation(op.steps[i]) => op.steps[i].in.idempotency # step.in.idempotency

PreflightOK(op) ==
  /\ ~op.mutationStarted /\ ~op.rollbackStarted /\ op.failure = NoFailure
  /\ op.state \in {"approved", "preflighting", "retry_required"}

\* Faulty variant: a change may follow a verification.
ApplyOKWhileVerifying(p, op) ==
  /\ ~op.rollbackStarted /\ op.failure = NoFailure
  /\ op.state \in {"preflighting", "applying", "verifying"}
  /\ AllComponentsSucceededPhase(p, op, "preflight")

ApplyOK(p, op) ==
  /\ ~op.rollbackStarted /\ op.failure = NoFailure
  /\ op.state \in {"preflighting", "applying"}
  /\ AllComponentsSucceededPhase(p, op, "preflight")

VerifyOK(p, op) ==
  /\ ~op.rollbackStarted /\ op.failure = NoFailure
  /\ op.state \in {"preflighting", "applying", "verifying", "retry_required"}
  /\ AllComponentsSucceededPhase(p, op, "preflight")

RollbackOK(op, in) ==
  /\ op.rollbackStarted /\ op.state = "rolling_back"
  /\ ~Compensated(op, in.compensates)
  /\ \E i \in LatestRollbackEligible(op, in.compensates) :
       /\ op.steps[i].in.component = in.component
       /\ op.steps[i].in.reference = in.reference

StepTransitionOK(p, op, step) ==
  /\ op.state \notin {"complete", "rolled_back", "cancelled"} /\ ~op.finished
  /\ step.in.component \in ApprovedComponents(p, op)
  /\ AttemptOK(op, step)
  /\ DigestUnused(op, step)
  /\ CASE step.in.phase = "preflight" -> PreflightOK(op)
       [] step.in.phase = "apply"     -> ApplyOK(p, op)
       [] step.in.phase = "verify"    -> VerifyOK(p, op)
       [] step.in.phase = "rollback"  -> RollbackOK(op, step.in)

\* Faulty variant: replay asks for a mark that only a running process has.
RetriesInFlightMarked(op, step) ==
  \A i \in InFlight(op) :
    /\ op.steps[i].in.id = step.in.id /\ op.steps[i].recovered
    /\ ~IsMutation(op.steps[i])
    /\ step.retry /\ step.attempt = op.steps[i].attempt + 1

\* The one case in which a step may begin while another is in flight.
RetriesInFlight(op, step) ==
  \A i \in InFlight(op) :
    /\ op.steps[i].in.id = step.in.id
    /\ op.steps[i].in.component = step.in.component
    /\ op.steps[i].in.phase = step.in.phase
    /\ ~IsMutation(op.steps[i])
    /\ step.retry /\ step.attempt = op.steps[i].attempt + 1

AdmitsStepStart(p, r) ==
  /\ r.op \in DOMAIN p.operations
  /\ r.step.retry => r.step.attempt >= 2
  /\ LET op == p.operations[r.op]
         existing == FindStep(op, r.step.in.id, r.step.attempt)
     IN  \/ \E i \in existing : [op.steps[i] EXCEPT !.recovered = FALSE] = r.step
         \/ /\ existing = {}
            /\ RetriesInFlight(op, r.step)
            /\ StepTransitionOK(p, Abandon(op), r.step)

ApplyStepStart(p, r) ==
  LET op == p.operations[r.op] IN
  IF FindStep(op, r.step.in.id, r.step.attempt) # {} THEN p
  ELSE [p EXCEPT !.operations[r.op] =
         [Abandon(op) EXCEPT !.steps = Append(@, r.step),
                             !.mutationStarted = @ \/ IsMutation(r.step),
                             !.state = PhaseState(r.step.in.phase)]]

AdmitsStepFinish(p, r) ==
  /\ r.op \in DOMAIN p.operations
  /\ ~p.operations[r.op].finished
  /\ LET op == p.operations[r.op]
     IN  \E i \in FindStep(op, r.id, r.attempt) :
           \/ op.steps[i].status = r.status /\ op.steps[i].reason = r.reason
           \/ /\ op.steps[i].status = "running" /\ i \in InFlight(op)
              /\ r.reconciles => IsMutation(op.steps[i])

\* Faulty variant: the interruption mark outlives the result.
ApplyStepFinishKeepsMark(p, r) ==
  LET op == p.operations[r.op]
      i == CHOOSE j \in FindStep(op, r.id, r.attempt) : TRUE
      phase == op.steps[i].in.phase
  IN  IF op.steps[i].status # "running" THEN p
      ELSE [p EXCEPT !.operations[r.op] =
             [op EXCEPT
                !.steps[i] = [@ EXCEPT !.status = r.status, !.reason = r.reason],
                !.failure = IF r.status = "failed" THEN i ELSE @,
                !.state = IF r.status = "succeeded" THEN PhaseState(phase)
                          ELSE IF phase = "rollback" THEN "recovery_required"
                          ELSE "failed"]]

ApplyStepFinish(p, r) ==
  LET op == p.operations[r.op]
      i == CHOOSE j \in FindStep(op, r.id, r.attempt) : TRUE
      phase == op.steps[i].in.phase
  IN  IF op.steps[i].status # "running" THEN p
      ELSE [p EXCEPT !.operations[r.op] =
             [op EXCEPT
                !.steps[i] = [@ EXCEPT !.status = r.status, !.reason = r.reason, !.recovered = FALSE],
                !.failure = IF r.status = "failed" THEN i ELSE @,
                !.state = IF r.status = "succeeded" THEN PhaseState(phase)
                          ELSE IF phase = "rollback" THEN "recovery_required"
                          ELSE "failed"]]

AdmitsCancel(p, r) ==
  /\ r.op \in DOMAIN p.operations
  /\ LET op == p.operations[r.op]
     IN  \/ op.state = "cancelled"
         \/ /\ ~op.mutationStarted /\ InFlight(op) = {}
            /\ op.state \in {"approved", "preflighting"}

ApplyCancel(p, r) ==
  [p EXCEPT !.operations[r.op] = [@ EXCEPT !.state = "cancelled", !.finished = TRUE]]

AdmitsRollback(p, r) ==
  /\ r.op \in DOMAIN p.operations
  /\ LET op == p.operations[r.op]
     IN  \/ op.rollbackStarted
         \/ /\ op.state \in {"applying", "verifying", "failed"}
            /\ op.mutationStarted /\ InFlight(op) = {} /\ ~op.finished
            /\ HasRollbackCandidate(op)

ApplyRollback(p, r) ==
  IF p.operations[r.op].rollbackStarted THEN p
  ELSE [p EXCEPT !.operations[r.op] =
          [@ EXCEPT !.rollbackStarted = TRUE, !.state = "rolling_back"]]

\* Faulty variant: only a change known to be unresolved needs recovery.
RecoveryRequiredOKInFlight(op) ==
  \/ op.state = "recovery_required"
  \/ \E i \in InFlight(op) : IsMutation(op.steps[i])

RecoveryRequiredOK(op) ==
  \/ op.state = "recovery_required"
  \/ /\ \E i \in InFlight(op) : IsMutation(op.steps[i])
     /\ op.state \in {"applying", "rolling_back"}
  \/ op.mutationStarted /\ ~op.finished

\* terminalState is the identity on the names of outcomes and states.
AdmitsTerminal(p, r) ==
  /\ r.op \in DOMAIN p.operations
  /\ LET op == p.operations[r.op]
     IN  \/ op.state = r.outcome /\ op.finished
         \/ /\ InFlight(op) = {}
            /\ \/ r.outcome = "complete" /\ CanComplete(p, op)
               \/ r.outcome = "failed" /\ op.state = "failed" /\ ~op.mutationStarted
               \/ r.outcome = "rolled_back" /\ CanReportRolledBack(op)
         \/ r.outcome = "recovery_required" /\ RecoveryRequiredOK(op)

ApplyTerminal(p, r) ==
  [p EXCEPT !.operations[r.op] = [@ EXCEPT !.state = r.outcome, !.finished = TRUE]]

Admits(p, r) ==
  CASE r.kind = "approval"        -> AdmitsApproval(p, r)
    [] r.kind = "operation"       -> AdmitsOperation(p, r)
    [] r.kind = "stepStart"       -> AdmitsStepStart(p, r)
    [] r.kind = "stepFinish"      -> AdmitsStepFinish(p, r)
    [] r.kind = "cancel"          -> AdmitsCancel(p, r)
    [] r.kind = "rollback"        -> AdmitsRollback(p, r)
    [] r.kind = "operationFinish" -> AdmitsTerminal(p, r)

Apply(p, r) ==
  CASE r.kind = "approval"        -> ApplyApproval(p, r)
    [] r.kind = "operation"       -> ApplyOperation(p, r)
    [] r.kind = "stepStart"       -> ApplyStepStart(p, r)
    [] r.kind = "stepFinish"      -> ApplyStepFinish(p, r)
    [] r.kind = "cancel"          -> ApplyCancel(p, r)
    [] r.kind = "rollback"        -> ApplyRollback(p, r)
    [] r.kind = "operationFinish" -> ApplyTerminal(p, r)

-----------------------------------------------------------------------------
(* appendRecord and the public calls.  A call that is refused, or that     *)
(* repeats a recorded request exactly, changes nothing and is left out.    *)

\* The log gains the record; replay will or will not accept it there.
Persist(r) ==
  /\ replayable' = (replayable /\ Admits(stored, r))
  /\ stored' = IF Admits(stored, r) THEN Apply(stored, r) ELSE stored

\* Faulty variant: success is returned before the log is synced.
AppendRecordUnsynced(r) ==
  /\ handle = "open"
  /\ Admits(live, r)
  /\ UNCHANGED workload
  /\ \/ /\ Persist(r)
        /\ live' = Apply(live, r)
        /\ durable' = stored' /\ cuts' = cuts \cup {stored'}
        /\ UNCHANGED handle
     \/ /\ handle' = "poisoned"
        /\ \/ Persist(r) /\ cuts' = cuts \cup {stored'}
           \/ UNCHANGED <<stored, replayable, cuts>>
        /\ UNCHANGED <<live, durable>>

\* Preview on a copy, append durably, apply: the record is synced, and so is all
\* of the log before it.  A storage failure poisons the handle and leaves open
\* whether the record is in the log, and whether it is on stable storage.
AppendRecord(r) ==
  /\ handle = "open"
  /\ Admits(live, r)
  /\ UNCHANGED workload
  /\ \/ /\ Persist(r)
        /\ live' = Apply(live, r)
        /\ durable' = stored' /\ cuts' = {stored'}
        /\ UNCHANGED handle
     \/ /\ handle' = "poisoned"
        /\ \/ Persist(r) /\ cuts' = cuts \cup {stored'}
           \/ UNCHANGED <<stored, replayable, cuts>>
        /\ UNCHANGED <<live, durable>>

RecordApproval(id, plan, expires, now) ==
  /\ id \notin DOMAIN live.approvals
  /\ now < expires
  /\ AppendRecord([kind |-> "approval", id |-> id,
                   approval |-> [plan |-> plan, issued |-> now, expires |-> expires]])

StartOperation(o, approval, plan, now) ==
  /\ o \notin DOMAIN live.operations
  /\ approval \in DOMAIN live.approvals
  /\ now < live.approvals[approval].expires
  /\ plan = live.approvals[approval].plan
  /\ AppendRecord([kind |-> "operation", op |-> o, approval |-> approval,
                   plan |-> plan, at |-> now])

\* Faulty variant: any running read-only step may be retried.
NewStepUnmarked(op, in, attempt) ==
  [in |-> in, attempt |-> attempt, status |-> "running", reason |-> Empty,
   recovered |-> FALSE,
   retry |-> \E i \in InFlight(op) :
               /\ ~IsMutation(op.steps[i]) /\ op.steps[i].in.id = in.id
               /\ attempt = op.steps[i].attempt + 1]

\* A step that begins: whether it retries an interrupted one is decided from
\* the in-memory mark and written into the record.
NewStep(op, in, attempt) ==
  [in |-> in, attempt |-> attempt, status |-> "running", reason |-> Empty,
   recovered |-> FALSE,
   retry |-> \E i \in InFlight(op) :
               /\ op.steps[i].recovered /\ ~IsMutation(op.steps[i])
               /\ op.steps[i].in.id = in.id
               /\ op.steps[i].in.component = in.component
               /\ op.steps[i].in.phase = in.phase
               /\ attempt = op.steps[i].attempt + 1]

BeginStep(o, in, attempt) ==
  /\ o \in DOMAIN live.operations
  /\ Len(live.operations[o].steps) < workload.maxSteps
  /\ FindStep(live.operations[o], in.id, attempt) = {}
  /\ AppendRecord([kind |-> "stepStart", op |-> o,
                   step |-> NewStep(live.operations[o], in, attempt)])

\* The result of step i; reason is Empty exactly for a success.
FinishStep(o, i, status, reason) ==
  /\ o \in DOMAIN live.operations
  /\ i \in DOMAIN live.operations[o].steps
  /\ LET step == live.operations[o].steps[i]
     IN  /\ i \in FindStep(live.operations[o], step.in.id, step.attempt)
         /\ step.status = "running"
         /\ ~(step.recovered /\ ~IsMutation(step))
         /\ AppendRecord([kind |-> "stepFinish", op |-> o, id |-> step.in.id,
                          attempt |-> step.attempt, status |-> status, reason |-> reason,
                          reconciles |-> step.recovered /\ IsMutation(step)])

Cancel(o) ==
  /\ o \in DOMAIN live.operations
  /\ live.operations[o].state # "cancelled"
  /\ AppendRecord([kind |-> "cancel", op |-> o])

BeginRollback(o) ==
  /\ o \in DOMAIN live.operations
  /\ ~live.operations[o].rollbackStarted
  /\ AppendRecord([kind |-> "rollback", op |-> o])

FinishOperation(o, outcome) ==
  /\ o \in DOMAIN live.operations
  /\ ~(live.operations[o].state = outcome /\ live.operations[o].finished)
  /\ AppendRecord([kind |-> "operationFinish", op |-> o, outcome |-> outcome])

\* markInterruptedSteps
MarkInterrupted(op) ==
  IF InFlight(op) = {} THEN op
  ELSE [op EXCEPT
          !.steps = [i \in DOMAIN @ |-> IF i \in InFlight(op)
                                        THEN [@[i] EXCEPT !.recovered = TRUE] ELSE @[i]],
          !.state = IF \E i \in InFlight(op) : IsMutation(op.steps[i])
                    THEN "recovery_required" ELSE "retry_required"]

Marked(p) == [p EXCEPT !.operations = [o \in DOMAIN @ |-> MarkInterrupted(@[o])]]

\* Open replays the log; a record replay rejects makes it ErrCorrupt for good.
\* It does not sync the log: what was not acknowledged may still be lost.
Open ==
  /\ handle = "down" /\ replayable
  /\ live' = Marked(stored)
  /\ handle' = "open"
  /\ UNCHANGED <<workload, stored, replayable, durable, cuts>>

\* Close, or the end of the process at any point between two calls.
Stop ==
  /\ handle # "down"
  /\ handle' = "down"
  /\ UNCHANGED <<workload, live, stored, replayable, durable, cuts>>

\* The machine loses power: of the records after the last acknowledged one, any
\* number remains, and those are on stable storage.  (A head that is then ahead
\* of the log makes Open refuse the journal, which is to say that it stays down.)
PowerLoss ==
  /\ stored' \in cuts
  /\ durable' = stored' /\ cuts' = {stored'}
  /\ live' = Nothing /\ handle' = "down"
  /\ UNCHANGED <<workload, replayable>>

Next ==
  \/ \E id \in ApprovalId, plan \in workload.plans, expires, now \in workload.times :
       /\ Cardinality(DOMAIN live.approvals) < workload.maxOperations
       /\ RecordApproval(id, plan, expires, now)
  \/ \E o \in OperationId, id \in ApprovalId, plan \in workload.plans, now \in workload.times :
       StartOperation(o, id, plan, now)
  \/ \E o \in OperationId, in \in workload.inputs, attempt \in 1 .. workload.maxAttempt :
       BeginStep(o, in, attempt)
  \/ \E o \in OperationId, i \in 1 .. workload.maxSteps :
       \/ FinishStep(o, i, "succeeded", Empty)
       \/ \E reason \in Reasons : FinishStep(o, i, "failed", reason)
  \/ \E o \in OperationId : Cancel(o) \/ BeginRollback(o)
  \/ \E o \in OperationId, outcome \in Outcomes : FinishOperation(o, outcome)
  \/ Open
  \/ Stop
  \/ PowerLoss

Spec == Init /\ [][Next]_vars

-----------------------------------------------------------------------------
(* Properties. *)

Ops == DOMAIN live.operations

Approval == [plan : PlanDigest, issued : Time, expires : Time]

Step == [in : workload.inputs, attempt : 1 .. workload.maxAttempt,
         status : {"running", "succeeded", "failed"},
         reason : Reasons \cup {Empty}, recovered : BOOLEAN, retry : BOOLEAN]

Operation == [approval : ApprovalId, plan : PlanDigest, startedAt : Time,
              state : States, steps : Seq(Step), mutationStarted : BOOLEAN,
              rollbackStarted : BOOLEAN, failure : 0 .. workload.maxSteps, finished : BOOLEAN]

ProjectionOK(p) ==
  /\ DOMAIN p = {"approvals", "operations"}
  /\ DOMAIN p.approvals \subseteq ApprovalId
  /\ DOMAIN p.operations \subseteq OperationId
  /\ \A a \in DOMAIN p.approvals : p.approvals[a] \in Approval
  /\ \A o \in DOMAIN p.operations :
       /\ p.operations[o] \in Operation
       /\ Len(p.operations[o].steps) <= workload.maxSteps
       /\ p.operations[o].approval \in DOMAIN p.approvals

\* All projections are well formed.
TypeOK ==
  /\ workload \in Workloads
  /\ ProjectionOK(live) /\ ProjectionOK(stored) /\ ProjectionOK(durable)
  /\ \A p \in cuts : ProjectionOK(p)
  /\ replayable \in BOOLEAN
  /\ handle \in {"open", "poisoned", "down"}

\* Every record that a running journal previewed and appended, in whatever
\* state of interruption it was, is accepted at its place by a later replay:
\* the journal never writes itself into ErrCorrupt.
ReplayAccepts == replayable

\* An open journal knows exactly what its log says, except that a step that
\* was running when the process died carries its interruption mark, and that
\* its operation shows the state that mark implies until a record is written.
LiveMatchesLog ==
  handle = "open" =>
    /\ live.approvals = stored.approvals
    /\ Ops = DOMAIN stored.operations
    /\ \A o \in Ops :
         LET logged == stored.operations[o]
             marked == MarkInterrupted(logged)
         IN  live.operations[o] \in
               {logged, marked, [marked EXCEPT !.state = logged.state]}

\* Two approved plans never race: at most one operation is unfinished, no
\* approval starts two operations, and an operation has one running step.
OneOperationAtATime ==
  /\ \A o1, o2 \in Ops : o1 # o2 =>
       /\ live.operations[o1].approval # live.operations[o2].approval
       /\ live.operations[o1].finished \/ live.operations[o2].finished
  /\ \A o \in Ops : \A i, j \in DOMAIN live.operations[o].steps :
       /\ live.operations[o].steps[i].status = "running"
       /\ live.operations[o].steps[j].status = "running"
       => i = j

\* The steps of an operation come in the documented order, across restarts,
\* retries and reconciliations: no change before every approved component
\* passed preflight, none after a verification began, nothing but rollback
\* after a failure.
PhaseOrder ==
  \A o \in Ops :
    LET op == live.operations[o] steps == op.steps IN
    \A j \in DOMAIN steps :
      /\ steps[j].in.phase \in {"apply", "verify"} =>
           \A c \in ApprovedComponents(live, op) : \E i \in 1 .. j - 1 :
             steps[i].in.component = c /\ Done(steps[i], "preflight", "succeeded")
      /\ steps[j].in.phase \in {"preflight", "apply"} =>
           \A i \in 1 .. j - 1 : steps[i].in.phase # "verify"
      /\ op.failure # NoFailure /\ j > op.failure => steps[j].in.phase = "rollback"

\* `complete' says that every approved component was verified after the last
\* change to any of them, and that no change failed or is unaccounted for.
CompleteIsVerified ==
  \A o \in Ops :
    LET op == live.operations[o] steps == op.steps IN
    op.state = "complete" =>
      /\ \A i \in DOMAIN steps : steps[i].status # "running"
      /\ \A i \in DOMAIN steps : IsMutation(steps[i]) => steps[i].status = "succeeded"
      /\ \A c \in ApprovedComponents(live, op) : \E i \in DOMAIN steps :
           /\ Done(steps[i], "verify", "succeeded") /\ steps[i].in.component = c
           /\ \A j \in DOMAIN steps : IsMutation(steps[j]) => j < i

\* `rolled_back' says that every change, also one whose result was a failure
\* or that was interrupted, was undone by a later rollback step of its own
\* component and reference; `cancelled' and `failed' say nothing was changed.
UndoneOrUntouched ==
  \A o \in Ops :
    LET op == live.operations[o] steps == op.steps IN
    op.finished =>
      /\ op.state = "rolled_back" =>
           \A i \in DOMAIN steps : steps[i].in.phase = "apply" =>
             \E j \in DOMAIN steps :
               /\ j > i /\ Done(steps[j], "rollback", "succeeded")
               /\ steps[j].in.compensates = steps[i].in.id
               /\ steps[j].in.component = steps[i].in.component
               /\ steps[j].in.reference = steps[i].in.reference
      /\ op.state \in {"cancelled", "failed"} =>
           \A i \in DOMAIN steps : ~IsMutation(steps[i])

\* A change is attempted once: a second step never reuses its ID or its
\* idempotency digest.  Only a read-only step is attempted again, and only
\* after its previous attempt was given up as interrupted.
MutationsAreNeverRetried ==
  \A o \in Ops :
    LET steps == live.operations[o].steps IN
    \A i, j \in DOMAIN steps : i < j =>
      /\ IsMutation(steps[i]) /\ IsMutation(steps[j]) =>
           steps[i].in.idempotency # steps[j].in.idempotency
      /\ steps[i].in.id = steps[j].in.id =>
           /\ ~IsMutation(steps[i]) /\ ~IsMutation(steps[j])
           /\ steps[i].reason = "interrupted_retry"
           /\ steps[i].attempt < steps[j].attempt

\* A running attempt is given up only after a restart: the process that
\* started it can no longer be executing it.
OnlyInterruptedIsRetried ==
  [][\A o \in Ops \cap DOMAIN live'.operations :
       \A i \in DOMAIN live.operations[o].steps :
         LET before == live.operations[o].steps[i]
             after == live'.operations[o].steps[i]
         IN  /\ before.status = "running"
             /\ Len(live'.operations[o].steps) > Len(live.operations[o].steps)
             => before.recovered]_vars

\* Outcomes, and a cancellation, that no later call may take back.
FinalStates == {"complete", "failed", "rolled_back", "cancelled"}

\* Every operation of p is in q with every result it had: a finished step is not
\* rewritten, a finished operation stays finished and, unless it was left in
\* recovery, is the same in every respect.
Keeps(p, q) ==
  \A o \in DOMAIN p.operations :
    LET op == p.operations[o] IN
    /\ o \in DOMAIN q.operations
    /\ \A i \in DOMAIN op.steps :
         /\ i \in DOMAIN q.operations[o].steps
         /\ op.steps[i].status # "running" => q.operations[o].steps[i] = op.steps[i]
    /\ op.finished => q.operations[o].finished
    /\ op.finished /\ op.state \in FinalStates => q.operations[o] = op

\* What a call returned success for is kept by everything that follows it: an open
\* journal shows it after any number of restarts, failed appends and losses of
\* power.  What a journal showed without it having been acknowledged, to a caller
\* whose append failed, is kept as well, by restarts too, until power is lost.
ResultsAreKept ==
  [][/\ Keeps(durable, durable')
     /\ handle' = "open" => Keeps(durable', live')
     /\ PowerLoss \/ Keeps(live, live')]_vars

\* A verification under an ID that was not used yet.
VerifyInput(c) ==
  [id |-> AnotherId, component |-> c, phase |-> "verify", idempotency |-> Empty,
   reference |-> Empty, recoveryOnly |-> Empty, compensates |-> Empty]

\* No operation gets stuck and blocks the installation: in every state of an
\* open journal an unfinished operation admits an outcome, a cancellation, a
\* result for its running step, or a retry of it if it was interrupted, or
\* another verification.
NoDeadEnd ==
  handle = "open" =>
    \A o \in Ops : ~live.operations[o].finished =>
      LET op == live.operations[o] IN
      \/ \E outcome \in Outcomes : AdmitsTerminal(live, [op |-> o, outcome |-> outcome])
      \/ AdmitsCancel(live, [op |-> o])
      \/ \E i \in InFlight(op) :
           IF op.steps[i].recovered
           THEN AdmitsStepStart(live, [op |-> o, step |->
                  NewStep(op, op.steps[i].in, op.steps[i].attempt + 1)])
           ELSE AdmitsStepFinish(live, [op |-> o, id |-> op.steps[i].in.id,
                  attempt |-> op.steps[i].attempt, status |-> "succeeded",
                  reason |-> Empty, reconciles |-> FALSE])
      \/ \E c \in ApprovedComponents(live, op) :
           AdmitsStepStart(live, [op |-> o, step |-> NewStep(op, VerifyInput(c), 1)])

\* Repeating FinishOperation with the recorded outcome is answered as the
\* duplicate it is, also after a restart.
DuplicateFinishIsStable ==
  handle = "open" => \A o \in Ops :
    stored.operations[o].finished => live.operations[o].state = stored.operations[o].state
=============================================================================
