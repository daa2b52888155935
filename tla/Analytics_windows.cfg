SPECIFICATION Spec
CONSTANTS
  MaxAmount = 1000000
  None = None
  MINIMUM_BASELINE_SAMPLE = 10
  MINIMUM_OBSERVATION_SAMPLE = 3
  Precision = 100000
  Deliveries <- Mixed
  CodeOrder <- Collated
  Webhooks <- AllWebhooks
  OBSERVATION_DURATION = 3
  BASELINE_DURATION = 6
  COMPLETION_DELAY = 1
  Day = 6
  MAX_ERROR_CODES_PER_COHORT = 2
  MaxTime = 10
  MaxStored = 3
  MaxReports = 2
INVARIANTS
  PunctualEventsCounted
  EventsCountedOnce
  CodesKept
  VerdictMonotone
  NormalizedUsable
CHECK_DEADLOCK FALSE
