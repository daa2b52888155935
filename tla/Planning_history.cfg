SPECIFICATION FairSpec
CONSTANTS
  Planners = {p1, p2}
  None = None
  Events <- EventsAmounts
  Observations <- OneObservation
INVARIANTS
  AnswersDurable
  RetryJustified
PROPERTIES
  AdviceHardens
  RequestsEnd
