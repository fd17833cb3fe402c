CONSTANTS
  Id = {1, 2, 3, 4}
  MaxComponents = 4
  Manifests <- EveryManifest
SPECIFICATION FairSpec
INVARIANTS PlanIsTheOrder RefusedOnlyForCycles
PROPERTIES Terminates
CHECK_DEADLOCK FALSE
