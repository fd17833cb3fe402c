CONSTANTS
  a = a
  b = b
  c0 = c0
  c1 = c1
  c2 = c2
  None = None
  Partial = Partial
  Op = {a, b}
  Config = {c0, c1, c2}
  Initial = c0
  Environments <- Mixed
  Adapt <- Distinct
SPECIFICATION Spec
INVARIANTS TargetNeverTorn Covered StagedIsDurable ActivatedIsPersistent
PROPERTIES ReplacesOnlyItsOwn RollbackEnds
