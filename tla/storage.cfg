CONSTANTS
  r1 = r1
  r2 = r2
  Record <- TwoRecords
  MaxRecords = 3
  Faults = {"kill", "io", "power", "header"}
  MaxFaults = 4
SPECIFICATION FairSpec
INVARIANTS TypeOK AckedDurable AppendsContinueLog RefusedOnlyAfterMixedFaults
PROPERTIES AckedOnlyGrows ImplementsDurableLog AlwaysReopens
