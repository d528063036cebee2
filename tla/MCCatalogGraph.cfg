SPECIFICATION Spec
CONSTANTS
  color = color
  size = size
  red = red
  blue = blue
  tint = tint
  fit = fit
  wide0 = wide0
  dark = dark
  Dark = Dark
  skuA = skuA
  home = home
  sale = sale
  Sale = Sale
  here = here
  there = there
  Drafts <- DraftsDef
  ItemDrafts <- ItemDraftsDef
  Collation <- CollationDef
  Codes <- CodesDef
  Limits <- LimitsDef
  Slugs = {here, there}
  Changes <- ChangesDef
  Top = 32
  MaxRevision = 5
  NoProduct = NoProduct
  NoSku = NoSku
  NoSignature = NoSignature
INVARIANTS
  GraphApplied
PROPERTIES
  RestoreIsExact
  ConflictsAreReal
  ItemsKept
  ImplementsCatalog
CHECK_DEADLOCK FALSE
