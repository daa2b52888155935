SPECIFICATION Spec
CONSTANTS
  Merchants = {m1, m2}
  Scanners = {s1, s2}
  Readers = {r1}
  Limits = {1, 2}
  FeedKeys = {1, 2}
  MaxIncidents = 2
  MaxObservations = 3
  None = None
SYMMETRY ScannerSymmetry
INVARIANTS
  DetailCoherent
PROPERTIES
  ImplementsContract
