SPECIFICATION FairSpec
CONSTANTS
  Handlers = {h1, h2, h3}
  Messages <- WebhookMessages
  NoKey = NoKey
  None = None
  k = k
  d1 = d1
  d2 = d2
  m1 = m1
  m2 = m2
  PoolSize = 2
  MaxFaults = 1
  MaxFresh = 0
  MaxTrail = 3
INVARIANTS
  AnswersBacked
  AuditExplains
PROPERTIES
  ImplementsStore
  EveryoneAnswered
