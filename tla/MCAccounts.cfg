SPECIFICATION Spec
CONSTANTS
  m1 = m1
  n1 = n1
  c1 = c1
  c2 = c2
  p1 = p1
  Members = {m1}
  Clients = {n1}
  Calls = {c1, c2}
  Home <- OneProcess
  Known = {m1}
  Capacity = 1
  AccountLimit = 1
  ClientLimit = 1
  MaxTokens = 3
  MaxFaults = 1
  NoSession = NoSession
  NoHash = NoHash
SYMMETRY Connections
INVARIANTS
  FirstLoginOnce
  PlacesComeBack
PROPERTIES
  TokensRotateOnce
  SessionsEndForCause
CHECK_DEADLOCK FALSE
