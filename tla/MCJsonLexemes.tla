--------------------------- MODULE MCJsonLexemes ---------------------------
(* Small instances of the lexemes.  A string is up to two characters at the  *)
(* ends of the ranges that the code tells apart, or three of the longest; a  *)
(* text is a quote, up to three pieces and what closes it or does not.       *)
EXTENDS JsonLexemes, FiniteSets

Upto(n, S) == UNION { [1 .. k -> S] : k \in 0 .. n }

\* The concatenation of the pieces in order.
Concat(pieces) ==
  LET c[i \in 0 .. Len(pieces)] == IF i = 0 THEN << >> ELSE c[i - 1] \o pieces[i]
  IN  c[Len(pieces)]

CodePoints ==
  { 1, 8, 9, 10, 12, 13, 30, 31, 32, 34, 47, 92, 117, 127, 128, 2047, 2048,
    55295, 57344, 65535, 65536, 1114111 }
ManyStrings ==
  { Concat(t) : t \in Upto(2, { WriteChar(u) : u \in CodePoints })
                     \cup Upto(3, { WriteChar(u) : u \in {1, 65536} }) }
OneControl == { WriteChar(u) : u \in 1 .. 126 }

\* Escapes, halves of pairs, clipped, overlong and foreign bytes.
Pieces ==
  { << 97 >>, << 31 >>, << 92 >>, << 92, 110 >>, << 92, 120 >>,
    << 92, 117, 48, 48, 48, 48 >>,                    \* \u0000
    << 92, 117, 48, 48, 49, 102 >>,                   \* \u001f
    << 92, 117, 68, 56, 48, 48 >>,                    \* \uD800
    << 92, 117, 68, 67, 48, 48 >>,                    \* \uDC00
    << 92, 117, 48 >>,                                \* \u0
    << 192 >>, << 194 >>, << 224 >>, << 237 >>, << 239 >>, << 240 >>, << 244 >>, << 245 >>,
    << 128 >>, << 143 >>, << 144 >>, << 159 >>, << 160 >>, << 191 >> }
ManyTexts ==
  { << 34 >> \o Concat(t) \o << 34 >> : t \in Upto(3, Pieces) }
    \cup { << 34 >> \o Concat(t) : t \in Upto(1, Pieces) }
    \cup { << 34, 240, 144, 128, 128, 34 >>, << 34, 240, 128, 128, 128, 34 >>,
           << 34, 244, 143, 191, 191, 34 >>, << 34, 244, 144, 128, 128, 34 >>, << 97 >> }

\* - 0 1 . e +
ManyNumerals == Upto(6, {45, 48, 49, 46, 101, 43})
=============================================================================
