\* Strings, texts and numerals at the ends of every range the code tells apart.
\* A run ends when its text is read.
CONSTANTS
  Strings <- ManyStrings
  Texts <- ManyTexts
  Numerals <- ManyNumerals
  MaxNested = 10
  EscapeUnicode = FALSE
SPECIFICATION Spec
INVARIANTS
  BufferFits
  RoundTrip
  Utf8Exact
  NumbersExact
CHECK_DEADLOCK FALSE
