SPECIFICATION FairSpec
CONSTANTS
  Coordinators = {c1}
  Payments = {1, 2}
  Scenarios <- AllInPairs
  MaxFaults = 2
  MaxLosses = 0
  None = None
INVARIANTS
  TypeOK
  ReportReproduced
PROPERTIES
  ImplementsAttempts
  Completes
