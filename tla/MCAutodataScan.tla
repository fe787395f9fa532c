--------------------------- MODULE MCAutodataScan ---------------------------
(* Seven pages of four words: the data in one or two of the second to fourth, *)
(* the strings in the fifth, which may adjoin.  The data is up to three      *)
(* pieces, and a record may begin at any word and reach over a page's end.   *)
EXTENDS AutodataScan, SequencesExt, TLC

\* "m" at 16, "mo" without an end at 18, the empty string at 17.
Strings == 16 :> 1 @@ 17 :> 0 @@ 18 :> 1 @@ 19 :> 2
Letter == << 1 >>
OnlyOne == {1}
OneLookalike == {25}

Mapped(a, b, w) == [start |-> a, end |-> b, write |-> w]
SomeLayouts ==
  { {Mapped(8, 12, TRUE), Mapped(16, 20, FALSE)},
    {Mapped(4, 8, FALSE), Mapped(8, 12, TRUE), Mapped(16, 20, FALSE)},
    {Mapped(4, 16, TRUE), Mapped(16, 20, FALSE)} }

\* Pieces of data at address a: a record with its module and name, good or bad; a
\* copy of one; the magic number by itself; a word that begins like it; a zero.
Piece(kind, a) ==
  CASE kind = "record"  -> << Magic, a, 17, 16 >>
    [] kind = "other"   -> << Magic, a, 16, 17 >>
    [] kind = "endless" -> << Magic, a, 16, 18 >>
    [] kind = "nowhere" -> << Magic, a, 16, 0 >>
    [] kind = "null"    -> << Magic, a, 0, 16 >>
    [] kind = "copy"    -> << Magic, a - 4, 16, 16 >>
    [] kind = "magic"   -> << Magic >>
    [] kind = "like"    -> << 25 >>
    [] kind = "zero"    -> << 0 >>

Kinds == {"record", "other", "endless", "nowhere", "null", "copy", "magic", "like", "zero"}

Lay(data, kind) == data \o Piece(kind, 4 + Len(data))
Laid(kinds) == FoldLeft(Lay, << >>, kinds)
ImageOf(kinds) ==
  LET data == Laid(kinds)
  IN  [a \in Addresses |->
         IF a \in 4 .. 15 /\ a - 3 <= Len(data) THEN data[a - 3]
         ELSE IF a \in DOMAIN Strings THEN Strings[a] ELSE 0]
SomeImages == { ImageOf(kinds) : kinds \in [1 .. 4 -> Kinds] }
=============================================================================
