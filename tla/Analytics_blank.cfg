SPECIFICATION Spec
CONSTANTS
  MaxAmount = 1000000
  None = None
  MINIMUM_BASELINE_SAMPLE = 10
  MINIMUM_OBSERVATION_SAMPLE = 3
  Precision = 100000
  Deliveries <- Tabbed
  CodeOrder <- Collated
  Webhooks <- NoWebhooks
  OBSERVATION_DURATION = 3
  BASELINE_DURATION = 6
  COMPLETION_DELAY = 1
  Day = 6
  MAX_ERROR_CODES_PER_COHORT = 2
  MaxTime = 7
  MaxStored = 3
  MaxReports = 2
INVARIANTS
  StoredEventsAnalysable
CHECK_DEADLOCK FALSE
