SPECIFICATION Spec
CONSTANTS
  Scanners = {s1, s2}
  NoScanner = NoScanner
  Cohorts = {1, 2}
  Findings <- FindingsTwo
  WindowTicks = 1
  DelayTicks = 0
  MaxClock = 3
SYMMETRY ScannerSymmetry
INVARIANTS
  ObservationsComplete
PROPERTIES
  ImplementsLedger
