SPECIFICATION Spec
CONSTANTS
  Scanners = {s1, s2}
  NoScanner = NoScanner
  Cohorts = {1}
  Findings <- FindingsTwo
  WindowTicks = 1
  DelayTicks = 0
  MaxClock = 4
SYMMETRY ScannerSymmetry
INVARIANTS
  TypeOK
  IncidentsDisjoint
  RowsWellFormed
