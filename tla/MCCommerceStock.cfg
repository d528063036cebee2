SPECIFICATION FairSpec
CONSTANTS
  o1 = o1
  o2 = o2
  i1 = i1
  i2 = i2
  a1 = a1
  a2 = a2
  f1 = f1
  f2 = f2
  f3 = f3
  Orders = {o1, o2}
  Items = {i1, i2}
  Demand <- StockDemand
  InitialStock <- StockInitial
  MaxStock = 3
  Requests = {r1, r2}
  Deltas <- StockDeltas
  NoOrder = NoOrder
  Attempts = {a1, a2}
  Price <- UnitPrice
  RefundAmounts = {1}
  PaymentKeys = {k1, k2}
  ProviderIds = {p1, p2}
  NoProviderId = NoProviderId
  Shipments = {}
  Goods = {i1, i2}
  Quantities = {}
  AttemptOrder <- StockAttemptOrder
  ShipmentOrder <- NoShipments
  NoClosing = NoClosing
  LateHandlers = TRUE
INVARIANTS
  TypeOK
  StockConservation
  ReservationsFollowOrder
  RestoredOnce
PROPERTIES
  LapsedOrdersClose
CHECK_DEADLOCK FALSE
