SPECIFICATION FairSpec
CONSTANTS
  Scanners = {s1, s2}
  NoScanner = NoScanner
  Cohorts = {1}
  Findings <- FindingsAll
  WindowTicks = 1
  DelayTicks = 0
  MaxClock = 3
INVARIANTS
  RowMatchesEvidence
  AuditMatchesHistory
PROPERTIES
  ScansAdvance
  ScanEnds
