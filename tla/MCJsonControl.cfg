\* Every character below 7F as a string of its own.
CONSTANTS
  Strings <- OneControl
  Texts = {}
  Numerals = {}
  MaxNested = 0
  EscapeUnicode = FALSE
SPECIFICATION Spec
INVARIANT EmittedIsRead
CHECK_DEADLOCK FALSE
