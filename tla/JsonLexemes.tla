---------------------------- MODULE JsonLexemes ----------------------------
(***************************************************************************)
(* The strings and numbers of json.c, byte by byte: emit_string,           *)
(* parse_string and parse_number, and the growing buffer (SB) that the     *)
(* first two write to without looking, once sb_need has made room.         *)
(*                                                                         *)
(* A run emits a string behind some '[' of the arrays around it and reads  *)
(* it back, or reads a text and, if it is a string, emits what was read.   *)
(* alloc is end - start; the block has one byte more, for the terminator.  *)
(***************************************************************************)
EXTENDS Utf8

CONSTANTS
  Strings,          \* C strings to emit: valid UTF-8, as emit_string asserts
  Texts,            \* texts to read as string literals
  Numerals,         \* texts to read as numbers
  MaxNested,        \* model bound on the '[' before the literal
  EscapeUnicode     \* escape_unicode of emit_string: FALSE in the code

ASSUME LexemesAssumption ==
  /\ Strings \cup Texts \cup Numerals \subseteq Seq(1 .. 255)
  /\ \A s \in Strings : Validate(s)
  /\ MaxNested \in Nat
  /\ EscapeUnicode \in BOOLEAN

VARIABLES
  pc,
  str,              \* the string that was emitted last; NoString before
  text,             \* what is being emitted or read
  at,               \* s: the position in text
  out,              \* the bytes from sb.start to b
  alloc,            \* how many bytes out may hold
  keep              \* parse_string's out != NULL

vars == << pc, str, text, at, out, alloc, keep >>

NoString == << 0 >>
Quote == 34
Backslash == 92
LowerU == 117
Bracket == 91

Bad == [next |-> 0, bytes |-> << >>]

-----------------------------------------------------------------------------
(* Hexadecimal and escapes.                                                *)

HexDigit(c) ==
  IF 48 <= c /\ c <= 57 THEN c - 48
  ELSE IF 65 <= c /\ c <= 70 THEN c - 55
  ELSE IF 97 <= c /\ c <= 102 THEN c - 87
  ELSE -1

Hex16(s, i) ==
  LET d == [k \in 0 .. 3 |-> HexDigit(At(s, i + k))]
  IN  IF \E k \in 0 .. 3 : d[k] = -1 THEN -1 ELSE d[0] * 4096 + d[1] * 256 + d[2] * 16 + d[3]

\* write_hex16 with the \u before it.
UnicodeEscape(n) ==
  LET Digit(d) == IF d < 10 THEN 48 + d ELSE 55 + d
  IN  << Backslash, LowerU, Digit(n \div 4096), Digit((n \div 256) % 16),
         Digit((n \div 16) % 16), Digit(n % 16) >>

\* The letter behind \ and the byte it stands for.
Letters == { << 34, 34 >>, << 92, 92 >>, << 98, 8 >>, << 102, 12 >>,
             << 110, 10 >>, << 114, 13 >>, << 116, 9 >> }

\* Without the escapes of one letter: quotes and backslashes go out as they are.
EncodeBare(s, i) ==
  [next |-> i + ValidateCz(s, i), bytes |-> SubSeq(s, i, i + ValidateCz(s, i) - 1)]

\* What emit_string writes for the character at s[i].
Encode(s, i) ==
  LET c == At(s, i)
      u == ReadChar(s, i)
      n == ValidateCz(s, i)
      bytes ==
        IF \E l \in Letters : l[2] = c
        THEN << Backslash, (CHOOSE l \in Letters : l[2] = c)[1] >>
        ELSE IF ~(c < 31 \/ (c >= 128 /\ EscapeUnicode)) THEN SubSeq(s, i, i + n - 1)
        ELSE IF u <= 65535 THEN UnicodeEscape(u)
        ELSE UnicodeEscape(ToSurrogatePair(u)[1]) \o UnicodeEscape(ToSurrogatePair(u)[2])
  IN  [next |-> i + n, bytes |-> bytes]

\* \uXXXX, with the second half of a pair when the first announces one.
DecodeUnicode(s, i) ==
  LET uc == Hex16(s, i)
      lc == Hex16(s, i + 6)
  IN  IF uc \in {-1, 0} THEN Bad
      ELSE IF ~IsSurrogate(uc) THEN [next |-> i + 4, bytes |-> WriteChar(uc)]
      ELSE IF At(s, i + 4) = Backslash /\ At(s, i + 5) = LowerU /\ IsPair(uc, lc)
      THEN [next |-> i + 10, bytes |-> WriteChar(FromSurrogatePair(uc, lc))]
      ELSE Bad

DecodeEscape(s, i) ==
  LET c == At(s, i)
  IN  IF c = LowerU THEN DecodeUnicode(s, i + 1)
      ELSE IF c = 47 THEN [next |-> i + 1, bytes |-> << c >>]
      ELSE IF \E l \in Letters : l[1] = c
      THEN [next |-> i + 1, bytes |-> << (CHOOSE l \in Letters : l[1] = c)[2] >>]
      ELSE Bad

\* What parse_string writes for the character at s[i], and where the next is.
Decode(s, i) ==
  LET c == At(s, i)
      n == ValidateCz(s, i)
  IN  IF c = Backslash THEN DecodeEscape(s, i + 1)
      ELSE IF c <= 31 \/ n = 0 THEN Bad
      ELSE [next |-> i + n, bytes |-> SubSeq(s, i, i + n - 1)]

-----------------------------------------------------------------------------
(* Numbers: the position behind the part that starts at s[i], 0 if it does *)
(* not parse.                                                              *)

IsDigit(c) == c \in 48 .. 57

Digits(s, i) ==
  IF IsDigit(At(s, i))
  THEN CHOOSE j \in i + 1 .. Len(s) + 1 :
         ~IsDigit(At(s, j)) /\ \A k \in i .. j - 1 : IsDigit(At(s, k))
  ELSE 0

\* Leading zeros admitted.
WholeWithZeros(s, i) == Digits(s, i)

Whole(s, i) == IF At(s, i) = 48 THEN i + 1 ELSE Digits(s, i)

Fraction(s, i) == IF i # 0 /\ At(s, i) = 46 THEN Digits(s, i + 1) ELSE i

Exponent(s, i) ==
  IF i # 0 /\ At(s, i) \in {69, 101}
  THEN Digits(s, IF At(s, i + 1) \in {43, 45} THEN i + 2 ELSE i + 1)
  ELSE i

ParseNumber(s, i) ==
  Exponent(s, Fraction(s, Whole(s, IF At(s, i) = 45 THEN i + 1 ELSE i)))

NumberIsValid(s) == ParseNumber(s, 1) = Len(s) + 1

-----------------------------------------------------------------------------
(* The buffer.                                                             *)

\* Room for one escape, without the opening quote.
NeedOneEscape ==
  IF pc = "nest" THEN 1
  ELSE IF pc \in {"open", "emit"} THEN 6
  ELSE IF pc = "parse" /\ keep THEN 4
  ELSE 0

\* The room the code asks sb_need or sb_putc for before it goes on at pc.
Need ==
  IF pc = "nest" THEN 1
  ELSE IF pc \in {"open", "emit"} THEN 14
  ELSE IF pc = "parse" /\ keep THEN 4
  ELSE 0

HasRoom == alloc - Len(out) >= Need

\* One turn of the loop of sb_grow: its condition is the one it was called on.
Grow ==
  /\ ~HasRoom
  /\ alloc' = 2 * alloc
  /\ UNCHANGED << pc, str, text, at, out, keep >>

-----------------------------------------------------------------------------
(* Emitting.                                                               *)

\* emit_array: sb_putc(out, '[').
Nest ==
  /\ pc = "nest" /\ HasRoom
  /\ Len(out) < MaxNested
  /\ out' = Append(out, Bracket)
  /\ UNCHANGED << pc, str, text, at, alloc, keep >>

EmitStart ==
  /\ pc = "nest"
  /\ pc' = "open"
  /\ UNCHANGED << str, text, at, out, alloc, keep >>

EmitOpen ==
  /\ pc = "open" /\ HasRoom
  /\ out' = Append(out, Quote)
  /\ pc' = "first"
  /\ UNCHANGED << str, text, at, alloc, keep >>

EmitChar ==
  /\ pc \in {"first", "emit"} /\ HasRoom
  /\ at <= Len(text)
  /\ out' = out \o Encode(text, at).bytes
  /\ at' = Encode(text, at).next
  /\ pc' = "emit"
  /\ UNCHANGED << str, text, alloc, keep >>

EmitClose ==
  /\ pc \in {"first", "emit"} /\ HasRoom
  /\ at > Len(text)
  /\ out' = Append(out, Quote)
  /\ pc' = "emitted"
  /\ UNCHANGED << str, text, at, alloc, keep >>

-----------------------------------------------------------------------------
(* Reading.                                                                *)

\* The caller hands the literal it emitted to parse_string.
ReadBack ==
  /\ pc = "emitted"
  /\ text' = out
  /\ \E i \in 1 .. Len(out) :
       /\ out[i] = Quote /\ \A j \in 1 .. i - 1 : out[j] # Quote
       /\ at' = i
  /\ pc' = "read"
  /\ UNCHANGED << str, out, alloc, keep >>

\* json_decode keeps the string, json_validate reads it into four bytes.
ParseOpen ==
  /\ pc = "read"
  /\ \E k \in BOOLEAN :
       /\ keep' = k
       /\ out' = << >>
       /\ alloc' = IF k THEN 16 ELSE 4
  /\ at' = at + 1
  /\ pc' = IF At(text, at) = Quote THEN "parse" ELSE "failed"
  /\ UNCHANGED << str, text >>

ParseChar ==
  /\ pc = "parse" /\ HasRoom
  /\ At(text, at) # Quote
  /\ Decode(text, at) # Bad
  /\ at' = Decode(text, at).next
  /\ out' = IF keep THEN out \o Decode(text, at).bytes ELSE Decode(text, at).bytes
  /\ UNCHANGED << pc, str, text, alloc, keep >>

ParseFail ==
  /\ pc = "parse" /\ HasRoom
  /\ At(text, at) # Quote
  /\ Decode(text, at) = Bad
  /\ pc' = "failed"
  /\ UNCHANGED << str, text, at, out, alloc, keep >>

ParseClose ==
  /\ pc = "parse" /\ HasRoom
  /\ At(text, at) = Quote
  /\ at' = at + 1
  /\ pc' = "parsed"
  /\ UNCHANGED << str, text, out, alloc, keep >>

\* A string read from a text is emitted in its turn.
Reencode ==
  /\ pc = "parsed" /\ keep
  /\ str = NoString
  /\ str' = out
  /\ text' = out
  /\ at' = 1
  /\ out' = << >>
  /\ alloc' = 16
  /\ pc' = "nest"
  /\ UNCHANGED keep

ReadNumber ==
  /\ pc = "number"
  /\ at' = ParseNumber(text, 1)
  /\ pc' = IF at' = 0 THEN "failed" ELSE "number_read"
  /\ UNCHANGED << str, text, out, alloc, keep >>

-----------------------------------------------------------------------------
Init ==
  /\ \/ pc = "nest" /\ text \in Strings /\ str = text
     \/ pc = "read" /\ text \in Texts /\ str = NoString
     \/ pc = "number" /\ text \in Numerals /\ str = NoString
  /\ at = 1
  /\ out = << >>
  /\ alloc = 16
  /\ keep = TRUE

Next ==
  \/ Grow
  \/ Nest \/ EmitStart \/ EmitOpen \/ EmitChar \/ EmitClose
  \/ ReadBack \/ ParseOpen \/ ParseChar \/ ParseFail \/ ParseClose
  \/ Reencode \/ ReadNumber

Spec == Init /\ [][Next]_vars

-----------------------------------------------------------------------------
(* Properties.                                                             *)

\* What is written stays within the buffer, terminator apart: after each
\* sb_need there is room for all that is written before the next one, be the
\* buffer on the heap or the four bytes that json_validate reads into.
BufferFits == Len(out) <= alloc

\* The assertion of sb_finish (no byte of the string is 0), and what json_check
\* asks of a string: whatever text was accepted, it is valid UTF-8.
FinishedSound ==
  pc \in {"emitted", "parsed"} /\ keep => (\A i \in 1 .. Len(out) : out[i] # 0) /\ Validate(out)

\* A string comes back from its literal as it was, and nothing of the literal is
\* left over; whatever is finished is sound, were it read from a foreign text.
\* Only the strings that hold 1F are refused: emit_string puts that one control
\* character in the literal as it is.
RoundTrip ==
  /\ FinishedSound
  /\ str # NoString =>
       /\ pc = "parsed" => (keep => out = str) /\ at = Len(text) + 1
       /\ pc = "failed" => 31 \in { str[i] : i \in 1 .. Len(str) }

\* The decoder of UTF-8 is exact at every position of every text: it takes as many
\* bytes as some code point is written with, and those bytes are that code
\* point's.  No overlong form, surrogate or clipped character passes.
Utf8Exact ==
  pc = "parse" /\ at <= Len(text) /\ ValidateCz(text, at) > 0 =>
    LET u == ReadChar(text, at)
    IN  IsScalar(u) /\ WriteChar(u) = SubSeq(text, at, at + ValidateCz(text, at) - 1)

\* The pattern above parse_number:
\*   '-'? (0 | [1-9][0-9]*) ('.' [0-9]+)? ([Ee] [+-]? [0-9]+)?
IsNumber(s) ==
  LET DigitsIn(i, j) == i <= j /\ \A k \in i .. j : IsDigit(s[k])
  IN  \E w, f, e \in 0 .. Len(s) :
        LET first == IF At(s, 1) = 45 THEN 2 ELSE 1
            sign  == IF At(s, f + 2) \in {43, 45} THEN f + 3 ELSE f + 2
        IN  /\ DigitsIn(first, w) /\ (s[first] = 48 => w = first)
            /\ \/ f = w
               \/ f > w + 1 /\ s[w + 1] = 46 /\ DigitsIn(w + 2, f)
            /\ e = Len(s)
            /\ \/ e = f
               \/ e > f + 1 /\ s[f + 1] \in {69, 101} /\ DigitsIn(sign, e)

\* number_is_valid is that pattern, and what parse_number takes from the front of a
\* longer text is a number too.
NumbersExact ==
  /\ pc = "number" => (NumberIsValid(text) <=> IsNumber(text))
  /\ pc = "number_read" => IsNumber(SubSeq(text, 1, at - 1))

\* "Control characters are not allowed in string literals", says parse_string: no
\* literal that emit_string writes is refused.
EmittedIsRead == ~(pc = "failed" /\ str # NoString)
=============================================================================
