SPECIFICATION ReadsSpec
CONSTANTS
  o1 = o1
  i1 = i1
  a1 = a1
  a2 = a2
  f1 = f1
  f2 = f2
  Orders = {o1}
  Items = {i1}
  Demand <- TwoUnits
  InitialStock <- TwoInStock
  MaxStock = 2
  Requests = {r1}
  Deltas = {}
  NoOrder = NoOrder
  Attempts = {a1, a2}
  Price <- TwoPrice
  RefundAmounts = {1, 2}
  PaymentKeys = {k1, k2, k3}
  ProviderIds = {p1, p2, p3}
  NoProviderId = NoProviderId
  Shipments = {f1, f2}
  Goods = {i1}
  Quantities <- OneOrBoth
  AttemptOrder <- ForOrder
  ShipmentOrder <- OfOrder
  NoClosing = NoClosing
  LateHandlers = FALSE
  Handlers = {h1, h2}
  NoView = NoView
SYMMETRY Alike
INVARIANTS
  ViewsHold
PROPERTIES
  StaleReadsHarmless
CHECK_DEADLOCK FALSE
