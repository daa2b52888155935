SPECIFICATION Spec
CONSTANTS
  Planners = {p1, p2}
  None = None
  Events <- EventsOnePayment
  Observations <- TwoObservations
SYMMETRY PlannerSymmetry
INVARIANTS
  TypeOK
  InsertsNeverCollide
  PlanPerPayment
PROPERTIES
  EvidenceCurrent
  ImplementsBook
