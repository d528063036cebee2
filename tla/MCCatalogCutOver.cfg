SPECIFICATION SearchSpec
CONSTANTS
  p1 = p1
  p2 = p2
  w1 = w1
  w2 = w2
  r1 = r1
  r2 = r2
  Products = {p1, p2}
  NewStatuses = {"ACTIVE", "PAUSED"}
  MaxRevision = 4
  Editors = {c1}
  Workers = {}
  Repairs = {}
  NoWorker = NoWorker
  NoEvent = NoEvent
  Rebuilds = {r1, r2}
  NoRebuild = NoRebuild
  FirstIndex = FirstIndex
  Past <- TwoProducts
  InService = {TRUE}
  MaxAttempts = 2
  MaxRequeues = 0
  MaxFaults = 2
  DeletesForgotten = TRUE
PROPERTIES
  CatalogStillWhileOwned
  CutOverIsExact
  ReopensOntoOwnIndex
CHECK_DEADLOCK FALSE
