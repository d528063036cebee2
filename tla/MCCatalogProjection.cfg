SPECIFICATION SearchSpec
CONSTANTS
  p1 = p1
  p2 = p2
  w1 = w1
  w2 = w2
  r1 = r1
  r2 = r2
  Products = {p1}
  NewStatuses = {"ACTIVE", "PAUSED"}
  MaxRevision = 4
  Editors = {c1}
  Workers = {w1, w2}
  Repairs = {}
  NoWorker = NoWorker
  NoEvent = NoEvent
  Rebuilds = {r1}
  NoRebuild = NoRebuild
  FirstIndex = FirstIndex
  Past <- OneFilled
  InService = {TRUE}
  MaxAttempts = 1
  MaxRequeues = 1
  MaxFaults = 1
  DeletesForgotten = FALSE
SYMMETRY Replicas
INVARIANTS
  ProcessedIsVisible
PROPERTIES
  OutcomesStay
  DocumentsNeverRegress
CHECK_DEADLOCK FALSE
