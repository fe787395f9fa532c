\* Four nodes for a caller, seven for a message.  A run ends with its message, or
\* with a text that is refused.
CONSTANTS
  PoolSize = 7
  MaxNodes = 4
  Command = Command
  MapId = MapId
  X = X
  Y = Y
  Join_map = Join_map
  Other = Other
  Zero = Zero
  One = One
  Third = Third
  Sum = Sum
  Inf = Inf
  Nan = Nan
  Junk = Junk
  CommandKey = Command
  MapIdKey = MapId
  XKey = X
  YKey = Y
  JoinMap = Join_map
  Names <- AllNames
  Doubles <- AllDoubles
  Numerals <- AllNumerals
  Strtod <- Nearest
  Numeral <- SixteenDigits
  KnownMaps <- OneMap
  CallerScalars <- SomeScalars
  CallerKeys <- OneKey
  CallerTexts <- ManyTexts
  MessageTexts <- ManyMessages
SPECIFICATION Spec
INVARIANTS
  TreesChecked
  NothingLost
  PrintedIsRead
  ReadIsExact
PROPERTIES
  ImplementsForests
CHECK_DEADLOCK FALSE
