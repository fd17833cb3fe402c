CONSTANTS
  r1 = r1
  r2 = r2
  Record <- TwoRecords
  MaxRecords = 2
  Faults = {"kill", "power"}
  MaxFaults = 3
SPECIFICATION Spec
INVARIANTS ConfirmedSurvives
