CONSTANTS
  PageSize = 2
  Limit = 6
  MaxSize = 4
  Alignments <- OneAndTwo
  SpawnMayFail = FALSE
SPECIFICATION Spec
INVARIANTS
  WritesSafe
