CONSTANTS
  None = None
  Proc = {p, q}
  MaxDirs = 2
  Environments <- Impatient
SPECIFICATION Spec
INVARIANT OneOwner
CHECK_DEADLOCK FALSE
