CONSTANTS
  PageSize = 4
  Limit = 28
  MaxSize = 1
  Alignments <- OnlyOne
  SpawnMayFail = TRUE
  Layouts <- SomeLayouts
  Images <- SomeImages
  Example = 9
  Name <- Letter
  Magic = 24
  Lookalikes <- OneLookalike
  AllocMayFail = TRUE
SPECIFICATION ScanSpec
INVARIANTS
  ReadsSafe
  TableExact
