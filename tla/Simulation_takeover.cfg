SPECIFICATION Spec
CONSTANTS
  Coordinators = {c1, c2}
  Payments = {1}
  Scenarios <- ContestedAlone
  MaxFaults = 0
  MaxLosses = 1
  None = None
SYMMETRY CoordinatorSymmetry
INVARIANTS
  StageFrozen
  ReportReproduced
  ProjectionMatchesSteps
PROPERTIES
  NoAttemptAfterSuccess
  ReportsFinal
