SPECIFICATION SearchSpec
CONSTANTS
  p1 = p1
  p2 = p2
  w1 = w1
  w2 = w2
  r1 = r1
  r2 = r2
  Products = {p1}
  NewStatuses = {"ACTIVE", "PAUSED"}
  MaxRevision = 0
  Editors = {}
  Workers = {}
  Repairs = {}
  NoWorker = NoWorker
  NoEvent = NoEvent
  Rebuilds = {r1, r2}
  NoRebuild = NoRebuild
  FirstIndex = FirstIndex
  Past <- NothingYet
  InService = {FALSE}
  MaxAttempts = 2
  MaxRequeues = 0
  MaxFaults = 1
  DeletesForgotten = FALSE
INVARIANTS
  AliasesTogether
CHECK_DEADLOCK FALSE
