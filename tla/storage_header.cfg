CONSTANTS
  r1 = r1
  r2 = r2
  Record <- TwoRecords
  MaxRecords = 2
  Faults = {"kill", "io", "header"}
  MaxFaults = 1
SPECIFICATION Spec
INVARIANTS PartialFrameIsDiscarded
