CONSTANTS
  ApprovalId = {ap1, ap2}
  OperationId = {op1, op2}
  PlanDigest = {"p1", "p2"}
  Component = {"db", "web"}
  PlanSteps <- TwoPlans
  Time = {1, 2}
  AnotherId = "another"
  Workloads <- FewRetries
SYMMETRY Symmetry
SPECIFICATION Spec
INVARIANTS DuplicateFinishIsStable
