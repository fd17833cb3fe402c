CONSTANTS
  None = None
  Proc = {p, q, r}
  MaxDirs = 3
  Environments <- Mixed
SYMMETRY Symmetry
SPECIFICATION Spec
INVARIANTS OneOwnerPerDirectory OwnedIsWhole ConfirmedIsDurable FailureLeavesNothing
CHECK_DEADLOCK FALSE
