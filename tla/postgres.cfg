CONSTANTS
  a = a
  b = b
  None = None
  Partial = Partial
  Initial = Initial
  Op = {a, b}
  Role = {"postgresql"}
  Environments <- OneOrTwo
SPECIFICATION Spec
INVARIANTS OneServerOnData Covered ObservationDecides
PROPERTIES RemovesOnlyItsCandidate RollbackEnds
