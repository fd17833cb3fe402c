CONSTANTS
  ApprovalId = {ap1, ap2}
  OperationId = {op1, op2}
  PlanDigest = {"p1", "p2"}
  Component = {"db", "web"}
  PlanSteps <- TwoPlans
  Time = {1, 2, 3}
  AnotherId = "another"
  Workloads <- AllWorkloads
SYMMETRY Symmetry
SPECIFICATION Spec
INVARIANTS
  TypeOK ReplayAccepts LiveMatchesLog MutationsAreNeverRetried NoDeadEnd
  PhaseOrder CompleteIsVerified UndoneOrUntouched OneOperationAtATime
PROPERTIES OnlyInterruptedIsRetried ResultsAreKept
