------------------------------ MODULE MCJournal ------------------------------
(* Small instances of Journal for TLC. *)
EXTENDS Journal, TLC

Input(id, c, phase, idem, ref, only, comp) ==
  [id |-> id, component |-> c, phase |-> phase, idempotency |-> idem,
   reference |-> ref, recoveryOnly |-> only, compensates |-> comp]

Preflight(id, c) == Input(id, c, "preflight", Empty, Empty, Empty, Empty)
Verify(id, c) == Input(id, c, "verify", Empty, Empty, Empty, Empty)
ApplyStep(id, c, idem, ref) == Input(id, c, "apply", idem, ref, Empty, Empty)
ApplyOnly(id, c, idem) == Input(id, c, "apply", idem, Empty, "no_rollback", Empty)
Rollback(id, c, idem, ref, comp) == Input(id, c, "rollback", idem, ref, Empty, comp)

\* One component: a reversible and an irreversible change, the compensation,
\* a compensation naming the wrong reference, and IDs and digests reused.
OneComponentInputs ==
  { Preflight("p", "db"), Verify("v", "db"),
    ApplyStep("a", "db", "i1", "r1"), ApplyOnly("b", "db", "i2"),
    ApplyStep("c", "db", "i1", "r1"),
    Rollback("ra", "db", "i3", "r1", "a"), Rollback("rx", "db", "i4", "r2", "a"),
    Verify("a", "db") }

\* Two components, one reversible change each.
TwoComponentInputs ==
  { Preflight("p1", "db"), Preflight("p2", "web"),
    ApplyStep("a1", "db", "i1", "r1"), ApplyStep("a2", "web", "i2", "r2"),
    Verify("v1", "db"), Verify("v2", "web"),
    Rollback("b1", "db", "i3", "r1", "a1"), Rollback("b2", "web", "i4", "r2", "a2") }

\* One change and its compensation, in each of two successive operations.
ShortInputs ==
  { Preflight("p", "db"), ApplyStep("a", "db", "i1", "r1"), Verify("v", "db"),
    Rollback("ra", "db", "i3", "r1", "a") }

TwoPlans == [p1 |-> {"db"}, p2 |-> {"db", "web"}]

Workload(plans, inputs, times, operations, steps, attempt) ==
  [plans |-> plans, inputs |-> inputs, times |-> times, maxOperations |-> operations,
   maxSteps |-> steps, maxAttempt |-> attempt]

Retries == Workload({"p1"}, OneComponentInputs, {1, 2}, 1, 6, 3)
Pair == Workload({"p2"}, TwoComponentInputs, {1, 2}, 1, 7, 2)
Successive == Workload({"p1", "p2"}, ShortInputs, {1, 2}, 2, 4, 1)

\* The clock is set back between an approval and the start it is used for.
ClockSetBack == Workload({"p1"}, {Preflight("p", "db")}, {1, 2, 3}, 2, 1, 1)

AllWorkloads == {Retries, Pair, Successive, ClockSetBack}
FewRetries == {Workload({"p1"}, OneComponentInputs, {1, 2}, 1, 4, 2)}

Symmetry == Permutations(ApprovalId) \cup Permutations(OperationId)
=============================================================================
