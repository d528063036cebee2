SPECIFICATION WebhookSpec
CONSTANTS
  o1 = o1
  i1 = i1
  a1 = a1
  f1 = f1
  e1 = e1
  e2 = e2
  p1 = p1
  p2 = p2
  k1 = k1
  k2 = k2
  w1 = w1
  w2 = w2
  Orders = {o1}
  Items = {i1}
  Demand <- OneDemand
  InitialStock <- OneInitial
  MaxStock = 1
  Requests = {}
  Deltas = {}
  NoOrder = NoOrder
  Attempts = {a1}
  Price <- OnePrice
  RefundAmounts = {1}
  PaymentKeys = {k0, k1, k2}
  ProviderIds = {p1, p2}
  NoProviderId = NoProviderId
  Shipments = {f1}
  Goods = {i1}
  Quantities <- OneQuantity
  AttemptOrder <- OneAttemptOrder
  ShipmentOrder <- OneShipmentOrder
  NoClosing = NoClosing
  LateHandlers = FALSE
  Events = {e1, e2}
  Command <- CaptureThenRefund
  WebhookKey <- EventKeys
  Deliveries = {d1}
  Workers = {w1}
  NoWorker = NoWorker
  NoEvent = NoEvent
  MaxRetries = 1
  MaxFaults = 1
INVARIANTS
  EventAppliedOnce
PROPERTIES
  EarlyEventsKept
  ImplementsCommerce
CHECK_DEADLOCK FALSE
