SPECIFICATION DeliverySpec
CONSTANTS
  p1 = p1
  Products = {p1}
  NewStatuses = {"ACTIVE", "PAUSED"}
  MaxRevision = 4
  Editors = {c1}
  Workers = {w1}
  Repairs = {m1}
  NoWorker = NoWorker
  NoEvent = NoEvent
  Rebuilds = {}
  NoRebuild = NoRebuild
  FirstIndex = FirstIndex
  Past <- OneOnSale
  InService = {TRUE}
  MaxAttempts = 2
  MaxRequeues = 1
  MaxFaults = 2
  DeletesForgotten = TRUE
INVARIANTS
  AttemptsWithinBudget
PROPERTIES
  EventsDelivered
  RepairConverges
CHECK_DEADLOCK FALSE
