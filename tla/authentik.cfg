CONSTANTS
  a = a
  b = b
  None = None
  Partial = Partial
  Initial = Initial
  Op = {a, b}
  Role = {"server", "worker"}
  Environments <- OneOrTwo
SPECIFICATION Spec
INVARIANTS WorkerNeedsServer OneGenerationRuns PairDecides
PROPERTIES PairRollbackEnds
