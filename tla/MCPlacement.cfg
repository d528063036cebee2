SPECIFICATION PlacementSpec
CONSTANTS
  o1 = o1
  o2 = o2
  o3 = o3
  p1 = p1
  p2 = p2
  i1 = i1
  i2 = i2
  k1 = k1
  k2 = k2
  m1 = m1
  m2 = m2
  r1 = r1
  Orders = {o1, o2, o3}
  Items = {i1, i2}
  Demand <- Lines
  InitialStock <- InStock
  MaxStock = 2
  Requests = {r1}
  Deltas = {1}
  NoOrder = NoOrder
  Products = {p1, p2}
  ProductOf <- Belongs
  Rank <- Ids
  Keys = {k1, k2}
  MayCarry <- Carried
  NoKey = NoKey
  Fingerprints = {m1, m2}
  Fingerprint <- Asked
  Callers = {c1, c2}
  Adjustments <- Repeated
  Withdrawable = {p1}
  NoOne = NoOne
  MaxRetries = 1
  MaxFaults = 1
SYMMETRY Alike
INVARIANTS
  AnswersNameTheOrder
  NobodyStuck
PROPERTIES
  AtomicAfterAll
  LockSparesRetries
CHECK_DEADLOCK FALSE
