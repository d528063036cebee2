SPECIFICATION Spec
CONSTANTS
  o1 = o1
  o2 = o2
  i1 = i1
  i2 = i2
  a1 = a1
  a2 = a2
  f1 = f1
  f2 = f2
  f3 = f3
  Orders = {o1}
  Items = {i1, i2}
  Demand <- SplitDemand
  InitialStock <- SplitInitial
  MaxStock = 3
  Requests = {r1, r2}
  Deltas = {}
  NoOrder = NoOrder
  Attempts = {a1, a2}
  Price <- SplitPrice
  RefundAmounts = {1, 2, 3}
  PaymentKeys = {k1, k2, k3, k4}
  ProviderIds = {p1, p2, p3}
  NoProviderId = NoProviderId
  Shipments = {f1, f2, f3}
  Goods = {i1, i2}
  Quantities <- SplitQuantities
  AttemptOrder <- SplitAttemptOrder
  ShipmentOrder <- SplitShipmentOrder
  NoClosing = NoClosing
  LateHandlers = FALSE
SYMMETRY Alike
INVARIANTS
  AttemptMatchesTransactions
  MoneyFollowsOrder
  ShipmentsFunded
  CompletedMeansDelivered
PROPERTIES
  EndedStaysEnded
  ImplementsContract
CHECK_DEADLOCK FALSE
