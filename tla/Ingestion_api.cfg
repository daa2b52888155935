SPECIFICATION Spec
CONSTANTS
  Handlers = {h1, h2}
  Messages <- ApiMessages
  NoKey = NoKey
  None = None
  k = k
  d1 = d1
  d2 = d2
  m1 = m1
  m2 = m2
  PoolSize = 2
  MaxFaults = 2
  MaxFresh = 1
  MaxTrail = 4
SYMMETRY HandlerSymmetry
INVARIANTS
  TypeOK
  LookupFindsOne
