----------------------------- MODULE JsonProofs -----------------------------
(***************************************************************************)
(* json.c: its texts, then its nodes.                                      *)
(*                                                                         *)
(* The Unicode helpers are exact for every code point and every text: what *)
(* utf8_write_char writes utf8_read_char reads, and utf8_validate_cz takes *)
(* nothing else for a character.  On that rest the proofs that the buffer  *)
(* of json.c is never overrun, the decoder of UTF-8 exact wherever it      *)
(* stands, numbers told from everything else, and every string read back   *)
(* from its literal as it was, for all strings, texts and buffer sizes.    *)
(*                                                                         *)
(* The operations on nodes keep every list of children, every tree and     *)
(* every string in order, in a pool of any size and for trees of any       *)
(* shape.                                                                  *)
(***************************************************************************)
EXTENDS JsonLexemes, JsonNodes, Iteration, SequenceTheorems, FiniteSetTheorems, TLAPS

-----------------------------------------------------------------------------
(* Code points and their bytes.                                            *)

\* A byte is a number up to 255.
LEMMA ByteBounds == \A b : b \in Byte <=> b \in Nat /\ b <= 255
BY SMT DEF Byte

\* utf8_write_char writes one to four bytes.
LEMMA BytesWritten ==
  ASSUME NEW u \in Nat, u <= 2097151
  PROVE  WriteChar(u) \in Seq(Byte) /\ Len(WriteChar(u)) \in 1 .. 4
<1>1. Trail(u) \in Byte /\ Trail(u \div 64) \in Byte /\ Trail(u \div 4096) \in Byte
  BY ByteBounds, SMT DEF Trail
<1>2. /\ u <= 127 => u \in Byte
      /\ u <= 2047 => 192 + (u \div 64) \in Byte
      /\ u <= 65535 => 224 + (u \div 4096) \in Byte
      /\ 240 + (u \div 262144) \in Byte
  BY ByteBounds, SMT
<1> QED
  BY <1>1, <1>2, SMT DEF WriteChar

LEMMA ScalarWritten ==
  \A u : IsScalar(u) => /\ WriteChar(u) \in Seq(Byte)
                        /\ Len(WriteChar(u)) \in Nat /\ Len(WriteChar(u)) <= 4
<1> SUFFICES ASSUME NEW u, IsScalar(u)
             PROVE  /\ WriteChar(u) \in Seq(Byte)
                    /\ Len(WriteChar(u)) \in Nat /\ Len(WriteChar(u)) <= 4
  OBVIOUS
<1>1. u \in Nat /\ u <= 2097151
  BY SMT DEF IsScalar
<1> DEFINE t == WriteChar(u)
<1>2. t \in Seq(Byte) /\ Len(t) \in 1 .. 4
  BY <1>1, BytesWritten, SMT
<1> HIDE DEF t
<1>3. \A n \in 1 .. 4 : n \in Nat /\ n <= 4
  BY SMT
<1>4. Len(t) \in Nat /\ Len(t) <= 4
  BY <1>2, <1>3, Zenon
<1> QED
  BY <1>2, <1>4 DEF t

\* What utf8_write_char writes for a code point is one valid character, and
\* utf8_read_char gives the code point back.
THEOREM WrittenIsRead ==
  ASSUME NEW u \in Nat, u <= 1114111, ~IsSurrogate(u)
  PROVE  /\ ValidateCz(WriteChar(u), 1) = Len(WriteChar(u))
         /\ ReadChar(WriteChar(u), 1) = u
<1>1. CASE u <= 127
  BY <1>1, SMT DEF WriteChar, ValidateCz, Announced, ReadChar, At
<1>2. CASE 127 < u /\ u <= 2047
  <2>1. WriteChar(u) = << 192 + (u \div 64), 128 + (u % 64) >>
    BY <1>2, SMT DEF WriteChar, Trail
  <2>2. 192 + (u \div 64) \in 194 .. 223 /\ u % 64 \in 0 .. 63
    BY <1>2, SMT
  <2>3. ((192 + (u \div 64)) % 32) * 64 + ((128 + (u % 64)) % 64) = u
    BY <1>2, SMT
  <2> QED
    BY <2>1, <2>2, <2>3, SMT DEF ValidateCz, Announced, IsTrail, SecondByte, Byte, ReadChar, Six, At
<1>3. CASE 2047 < u /\ u <= 65535
  <2> DEFINE a == u \div 4096   b == (u \div 64) % 64   c == u % 64
  <2>1. WriteChar(u) = << 224 + a, 128 + b, 128 + c >>
    BY <1>3, SMT DEF WriteChar, Trail
  <2>2. /\ a \in 0 .. 15 /\ b \in 0 .. 63 /\ c \in 0 .. 63
        /\ u = a * 4096 + b * 64 + c
    BY <1>3, SMT
  <2>3. a = 0 => b >= 32
    BY <2>2, <1>3, SMT
  <2>4. a = 13 => b < 32
    BY <2>2, <1>3, SMT DEF IsSurrogate
  <2> HIDE DEF a, b, c
  <2>5. (224 + a) % 16 = a /\ (128 + b) % 64 = b /\ (128 + c) % 64 = c
    BY <2>2, SMT
  <2> QED
    BY <2>1, <2>2, <2>3, <2>4, <2>5, SMT
       DEF ValidateCz, Announced, IsTrail, SecondByte, Byte, ReadChar, Six, At
<1>4. CASE u > 65535
  <2> DEFINE a == u \div 262144   b == (u \div 4096) % 64
             c == (u \div 64) % 64   d == u % 64
  <2>1. WriteChar(u) = << 240 + a, 128 + b, 128 + c, 128 + d >>
    BY <1>4, SMT DEF WriteChar, Trail
  <2>2. /\ a \in 0 .. 4 /\ b \in 0 .. 63 /\ c \in 0 .. 63 /\ d \in 0 .. 63
        /\ u = a * 262144 + b * 4096 + c * 64 + d
    BY <1>4, SMT
  <2>3. a = 0 => b >= 16
    BY <2>2, <1>4, SMT
  <2>4. a = 4 => b < 16
    BY <2>2, <1>4, SMT
  <2> HIDE DEF a, b, c, d
  <2>5. (240 + a) % 8 = a /\ (128 + b) % 64 = b /\ (128 + c) % 64 = c /\ (128 + d) % 64 = d
    BY <2>2, SMT
  <2> QED
    BY <2>1, <2>2, <2>3, <2>4, <2>5, SMT
       DEF ValidateCz, Announced, IsTrail, SecondByte, Byte, ReadChar, Six, At
<1> QED
  BY <1>1, <1>2, <1>3, <1>4, SMT

\* A piece of a text, spelled out.
LEMMA Piece ==
  ASSUME NEW s \in Seq(Byte), NEW i \in Nat, i > 0, NEW n \in Nat, n > 0, i + n - 1 <= Len(s),
         NEW t \in Seq(Byte), Len(t) = n, \A k \in 1 .. n : t[k] = s[i + k - 1]
  PROVE  SubSeq(s, i, i + n - 1) = t
<1> DEFINE j == i + n - 1
<1>1. \A k \in i .. j : s[k] \in Byte
  BY SMT
<1>2. /\ SubSeq(s, i, j) \in Seq(Byte)
      /\ Len(SubSeq(s, i, j)) = n
      /\ \A k \in 1 .. n : SubSeq(s, i, j)[k] = s[i + k - 1]
  <2>1. i \in Int /\ j \in Int /\ i <= j /\ j - i + 1 = n
    BY SMT
  <2> HIDE DEF j
  <2> QED
    BY <1>1, <2>1, SubSeqProperties
<1> HIDE DEF j
<1>3. SubSeq(s, i, j) = t
  BY <1>2, SeqEqual
<1> QED
  BY <1>3 DEF j

LEMMA AtByte ==
  ASSUME NEW s \in Seq(Byte), NEW i \in Nat, i > 0
  PROVE  /\ At(s, i) \in Nat /\ At(s, i) <= 255
         /\ At(s, i) # 0 => i <= Len(s) /\ At(s, i) = s[i]
<1>1. i <= Len(s) => s[i] \in Byte
  OBVIOUS
<1> QED
  BY <1>1, ByteBounds, SMT DEF At

\* What utf8_validate_cz takes for a character lies within the text, is a code
\* point, and is written as utf8_write_char would write it: the decoder admits
\* no overlong form, no surrogate and no clipped character.
THEOREM DecoderExact ==
  ASSUME NEW s \in Seq(Byte), NEW i \in Nat, i > 0, i <= Len(s),
         ValidateCz(s, i) > 0
  PROVE  /\ i + ValidateCz(s, i) - 1 <= Len(s)
         /\ IsScalar(ReadChar(s, i))
         /\ WriteChar(ReadChar(s, i)) = SubSeq(s, i, i + ValidateCz(s, i) - 1)
<1> DEFINE a == At(s, i)   b == At(s, i + 1)   c == At(s, i + 2)   d == At(s, i + 3)
           n == ValidateCz(s, i)   u == ReadChar(s, i)
<1>1. /\ a \in Nat /\ b \in Nat /\ c \in Nat /\ d \in Nat /\ a <= 255
      /\ a = s[i]
      /\ b # 0 => i + 1 <= Len(s) /\ b = s[i + 1]
      /\ c # 0 => i + 2 <= Len(s) /\ c = s[i + 2]
      /\ d # 0 => i + 3 <= Len(s) /\ d = s[i + 3]
  <2>1. i + 1 \in Nat /\ i + 2 \in Nat /\ i + 3 \in Nat /\ i + 1 > 0 /\ i + 2 > 0 /\ i + 3 > 0
    OBVIOUS
  <2> QED
    BY <2>1, AtByte DEF At
<1>2. /\ n = Announced(a)
      /\ n >= 2 => /\ 128 <= b /\ b <= 191
                   /\ (a = 224 => b >= 160) /\ (a = 237 => b <= 159)
                   /\ (a = 240 => b >= 144) /\ (a = 244 => b <= 143)
      /\ n >= 3 => 128 <= c /\ c <= 191
      /\ n = 4  => 128 <= d /\ d <= 191
  BY SMT DEF ValidateCz, IsTrail, SecondByte
<1>3. u = IF a <= 127 THEN a
          ELSE IF a <= 223 THEN (a % 32) * 64 + (b % 64)
          ELSE IF a <= 239 THEN (a % 16) * 4096 + (b % 64) * 64 + (c % 64)
          ELSE (a % 8) * 262144 + (b % 64) * 4096 + (c % 64) * 64 + (d % 64)
  BY DEF ReadChar, Six
<1>4. Announced(a) = n /\ n > 0
  BY <1>2
<1>5. a \in Nat /\ b \in Nat /\ c \in Nat /\ d \in Nat /\ a <= 255
  BY <1>1
<1> HIDE DEF a, b, c, d, n, u
<1>6. SUFFICES /\ n \in 1 .. 4
               /\ n >= 2 => b # 0
               /\ n >= 3 => c # 0
               /\ n = 4  => d # 0
               /\ IsScalar(u)
               /\ WriteChar(u) = IF n = 1 THEN << a >>
                                 ELSE IF n = 2 THEN << a, b >>
                                 ELSE IF n = 3 THEN << a, b, c >>
                                 ELSE << a, b, c, d >>
  <2>1. n \in 1 .. 4 /\ i + n - 1 <= Len(s)
    BY <1>1, <1>6, SMT
  <2>2. WriteChar(u) \in Seq(Byte)
    BY <1>6, ScalarWritten
  <2>3. Len(WriteChar(u)) = n
    BY <1>6, SMT
  <2>4. \A k \in 1 .. n : WriteChar(u)[k] = s[i + k - 1]
    <3>1. CASE n = 1
      BY <3>1, <1>1, <1>6, SMT
    <3>2. CASE n = 2
      BY <3>2, <1>1, <1>6, SMT
    <3>3. CASE n = 3
      BY <3>3, <1>1, <1>6, SMT
    <3>4. CASE n = 4
      <4>1. WriteChar(u) = << a, b, c, d >> /\ b # 0 /\ c # 0 /\ d # 0
        BY <1>6, <3>4
      <4>2. a = s[i] /\ b = s[i + 1] /\ c = s[i + 2] /\ d = s[i + 3]
        BY <1>1, <4>1, Zenon
      <4>3. i + 1 - 1 = i /\ i + 2 - 1 = i + 1 /\ i + 3 - 1 = i + 2 /\ i + 4 - 1 = i + 3
        OBVIOUS
      <4>4. \A k \in 1 .. 4 : k = 1 \/ k = 2 \/ k = 3 \/ k = 4
        OBVIOUS
      <4>5. \A k \in 1 .. 4 : << a, b, c, d >>[k] = s[i + k - 1]
        BY <4>2, <4>3, <4>4
      <4> QED
        BY <3>4, <4>1, <4>5, Zenon
    <3> QED
      BY <2>1, <3>1, <3>2, <3>3, <3>4, SMT
  <2>5. SubSeq(s, i, i + n - 1) = WriteChar(u)
    <3>1. n \in Nat /\ n > 0
      BY <2>1, SMT
    <3> QED
      BY <3>1, <2>1, <2>2, <2>3, <2>4, Piece
  <2> QED
    BY <2>1, <2>5, <1>6 DEF n, u
<1>7. CASE a <= 127
  <2>1. n = 1 /\ u = a
    BY <1>7, <1>4, <1>3, <1>5, SMT DEF Announced
  <2> QED
    BY <2>1, <1>5, <1>7, SMT DEF WriteChar, IsScalar, IsSurrogate
<1>8. CASE 194 <= a /\ a <= 223
  <2>1. n = 2
    BY <1>8, <1>4, <1>5, SMT DEF Announced
  <2>2. 128 <= b /\ b <= 191
    BY <2>1, <1>2, SMT
  <2>3. a % 32 = a - 192 /\ b % 64 = b - 128
    BY <1>5, <1>8, <2>2, SMT
  <2>4. u = (a - 192) * 64 + (b - 128)
    BY <1>8, <1>3, <2>3, <1>5, SMT
  <2>5. u \in Nat /\ 128 <= u /\ u <= 2047 /\ 192 + (u \div 64) = a /\ 128 + (u % 64) = b
    BY <1>8, <1>5, <2>2, <2>4, SMT
  <2>6. WriteChar(u) = << a, b >> /\ IsScalar(u)
    BY <2>5, SMT DEF WriteChar, Trail, IsScalar, IsSurrogate
  <2> QED
    BY <2>1, <2>2, <2>6, SMT
<1>9. CASE 224 <= a /\ a <= 239
  <2>1. n = 3
    BY <1>9, <1>4, <1>5, SMT DEF Announced
  <2>2. /\ 128 <= b /\ b <= 191 /\ 128 <= c /\ c <= 191
        /\ (a = 224 => b >= 160) /\ (a = 237 => b <= 159)
    BY <2>1, <1>2, SMT
  <2>3. a % 16 = a - 224 /\ b % 64 = b - 128 /\ c % 64 = c - 128
    BY <1>5, <1>9, <2>2, SMT
  <2>4. u = (a - 224) * 4096 + (b - 128) * 64 + (c - 128)
    BY <1>9, <1>3, <2>3, <1>5, SMT
  <2>5. u \in Nat /\ 2048 <= u /\ u <= 65535 /\ ~(55296 <= u /\ u <= 57343)
    BY <1>9, <1>5, <2>2, <2>4, SMT
  <2>6. 224 + (u \div 4096) = a /\ 128 + ((u \div 64) % 64) = b /\ 128 + (u % 64) = c
    BY <1>9, <1>5, <2>2, <2>4, SMT
  <2>7. WriteChar(u) = << a, b, c >> /\ IsScalar(u)
    BY <2>5, <2>6, SMT DEF WriteChar, Trail, IsScalar, IsSurrogate
  <2> QED
    BY <2>1, <2>2, <2>7, SMT
<1>10. CASE 240 <= a /\ a <= 244
  <2>1. n = 4
    BY <1>10, <1>4, <1>5, SMT DEF Announced
  <2>2. /\ 128 <= b /\ b <= 191 /\ 128 <= c /\ c <= 191 /\ 128 <= d /\ d <= 191
        /\ (a = 240 => b >= 144) /\ (a = 244 => b <= 143)
    BY <2>1, <1>2, SMT
  <2>3. a % 8 = a - 240 /\ b % 64 = b - 128 /\ c % 64 = c - 128 /\ d % 64 = d - 128
    BY <1>5, <1>10, <2>2, SMT
  <2>4. u = (a - 240) * 262144 + (b - 128) * 4096 + (c - 128) * 64 + (d - 128)
    BY <1>10, <1>3, <2>3, <1>5, SMT
  <2>5. u \in Nat /\ 65536 <= u /\ u <= 1114111
    BY <1>10, <1>5, <2>2, <2>4, SMT
  <2>6. /\ 240 + (u \div 262144) = a /\ 128 + ((u \div 4096) % 64) = b
        /\ 128 + ((u \div 64) % 64) = c /\ 128 + (u % 64) = d
    BY <1>10, <1>5, <2>2, <2>4, SMT
  <2>7. WriteChar(u) = << a, b, c, d >> /\ IsScalar(u)
    BY <2>5, <2>6, SMT DEF WriteChar, Trail, IsScalar, IsSurrogate
  <2> QED
    BY <2>1, <2>2, <2>7, SMT
<1> QED
  <2>1. a <= 127 \/ (194 <= a /\ a <= 223) \/ (224 <= a /\ a <= 239) \/ (240 <= a /\ a <= 244)
    BY <1>4, <1>5, SMT DEF Announced
  <2> QED
    BY <2>1, <1>7, <1>8, <1>9, <1>10

\* Beyond FFFF a code point has exactly one pair of surrogates: to_surrogate_pair and
\* from_surrogate_pair are inverse to one another.
THEOREM PairsExact ==
  /\ \A u \in Nat : 65536 <= u /\ u <= 1114111 =>
       LET p == ToSurrogatePair(u)
       IN  IsPair(p[1], p[2]) /\ FromSurrogatePair(p[1], p[2]) = u
  /\ \A uc, lc \in Nat :
       IsPair(uc, lc) => /\ IsScalar(FromSurrogatePair(uc, lc))
                         /\ ToSurrogatePair(FromSurrogatePair(uc, lc)) = << uc, lc >>
<1>1. ASSUME NEW u \in Nat, 65536 <= u, u <= 1114111
      PROVE  LET p == ToSurrogatePair(u)
             IN  IsPair(p[1], p[2]) /\ FromSurrogatePair(p[1], p[2]) = u
  <2> DEFINE h == (u - 65536) \div 1024   l == (u - 65536) % 1024
  <2>1. h \in Nat /\ h <= 1023 /\ l \in Nat /\ l <= 1023 /\ u = 65536 + h * 1024 + l
    BY <1>1, SMT
  <2>2. ToSurrogatePair(u) = << 55296 + h, 56320 + l >>
    BY DEF ToSurrogatePair
  <2> HIDE DEF h, l
  <2>3. (55296 + h) % 1024 = h /\ (56320 + l) % 1024 = l
    BY <2>1, SMT
  <2>4. IsPair(55296 + h, 56320 + l)
    BY <2>1, SMT DEF IsPair
  <2>5. FromSurrogatePair(55296 + h, 56320 + l) = u
    BY <2>1, <2>3, SMT DEF FromSurrogatePair
  <2> QED
    BY <2>2, <2>4, <2>5
<1>2. ASSUME NEW uc \in Nat, NEW lc \in Nat, IsPair(uc, lc)
      PROVE  /\ IsScalar(FromSurrogatePair(uc, lc))
             /\ ToSurrogatePair(FromSurrogatePair(uc, lc)) = << uc, lc >>
  <2>1. 55296 <= uc /\ uc <= 56319 /\ 56320 <= lc /\ lc <= 57343
    BY <1>2, SMT DEF IsPair
  <2>2. uc % 1024 = uc - 55296 /\ lc % 1024 = lc - 56320
    BY <2>1, SMT
  <2> DEFINE u == 65536 + (uc - 55296) * 1024 + (lc - 56320)
  <2>3. FromSurrogatePair(uc, lc) = u
    BY <2>2 DEF FromSurrogatePair
  <2>4. IsScalar(u)
    BY <2>1, SMT DEF IsScalar, IsSurrogate
  <2>5. 55296 + ((u - 65536) \div 1024) = uc /\ 56320 + ((u - 65536) % 1024) = lc
    BY <2>1, SMT
  <2>6. ToSurrogatePair(u) = << uc, lc >>
    BY <2>5 DEF ToSurrogatePair
  <2> HIDE DEF u
  <2> QED
    BY <2>3, <2>4, <2>6
<1> QED
  BY <1>1, <1>2

-----------------------------------------------------------------------------
(* What is written for one character.                                      *)

LEMMA AtInByte ==
  ASSUME NEW s \in Seq(Byte), NEW i \in Nat, i > 0
  PROVE  At(s, i) \in Byte
<1>1. At(s, i) \in Nat /\ At(s, i) <= 255
  BY AtByte
<1> QED
  BY <1>1, ByteBounds

LEMMA CodePointRead ==
  ASSUME NEW s \in Seq(Byte), NEW i \in Nat, i > 0
  PROVE  ReadChar(s, i) \in Nat /\ ReadChar(s, i) <= 2097151
<1> DEFINE a == At(s, i)   b == At(s, i + 1)   c == At(s, i + 2)   d == At(s, i + 3)
<1>1. a \in Nat /\ b \in Nat /\ c \in Nat /\ d \in Nat
  <2>1. i + 1 \in Nat /\ i + 2 \in Nat /\ i + 3 \in Nat /\ i + 1 > 0 /\ i + 2 > 0 /\ i + 3 > 0
    OBVIOUS
  <2> QED
    BY <2>1, AtByte
<1>2. ReadChar(s, i) = IF a <= 127 THEN a
        ELSE IF a <= 223 THEN (a % 32) * 64 + (b % 64)
        ELSE IF a <= 239 THEN (a % 16) * 4096 + (b % 64) * 64 + (c % 64)
        ELSE (a % 8) * 262144 + (b % 64) * 4096 + (c % 64) * 64 + (d % 64)
  BY SMT DEF ReadChar, Six
<1> HIDE DEF a, b, c, d
<1> QED
  BY <1>1, <1>2, SMT

\* A \uXXXX is six bytes.
LEMMA EscapeWritten ==
  ASSUME NEW n \in Nat, n <= 65535
  PROVE  UnicodeEscape(n) \in Seq(Byte) /\ Len(UnicodeEscape(n)) = 6
<1> DEFINE Digit(d) == IF d < 10 THEN 48 + d ELSE 55 + d
<1>1. \A d \in Nat : d <= 15 => Digit(d) \in Byte
  BY ByteBounds, SMT
<1>2. /\ n \div 4096 \in Nat /\ n \div 4096 <= 15
      /\ (n \div 256) % 16 \in Nat /\ (n \div 256) % 16 <= 15
      /\ (n \div 16) % 16 \in Nat /\ (n \div 16) % 16 <= 15
      /\ n % 16 \in Nat /\ n % 16 <= 15
  BY SMT
<1>3. UnicodeEscape(n) = << Backslash, LowerU, Digit(n \div 4096), Digit((n \div 256) % 16),
                            Digit((n \div 16) % 16), Digit(n % 16) >>
  BY SMT DEF UnicodeEscape
<1>4. Backslash \in Byte /\ LowerU \in Byte
  BY ByteBounds, SMT DEF Backslash, LowerU
<1> HIDE DEF Digit
<1> QED
  BY <1>1, <1>2, <1>3, <1>4, SMT

\* A character is at most four bytes of the text.
LEMMA CharacterLength ==
  ASSUME NEW s \in Seq(Byte), NEW i \in Nat, i > 0
  PROVE  ValidateCz(s, i) \in Nat /\ ValidateCz(s, i) <= 4
BY SMT DEF ValidateCz, Announced

LEMMA CharacterCopied ==
  ASSUME NEW s \in Seq(Byte), NEW i \in Nat, i > 0, i <= Len(s)
  PROVE  LET t == SubSeq(s, i, i + ValidateCz(s, i) - 1)
         IN  t \in Seq(Byte) /\ Len(t) <= 4
<1>1. CASE ValidateCz(s, i) = 0
  <2>1. i + ValidateCz(s, i) - 1 = i - 1
    BY <1>1, SMT
  <2>2. SubSeq(s, i, i - 1) = << >>
    <3>1. i \in Int /\ i - 1 \in Int /\ i - 1 < i
      OBVIOUS
    <3> QED
      BY <3>1, SubSeqEmpty
  <2> QED
    BY <2>1, <2>2, SMT
<1>2. CASE ValidateCz(s, i) > 0
  <2>1. IsScalar(ReadChar(s, i))
        /\ WriteChar(ReadChar(s, i)) = SubSeq(s, i, i + ValidateCz(s, i) - 1)
    BY <1>2, DecoderExact
  <2> QED
    BY <2>1, ScalarWritten
<1> QED
  BY <1>1, <1>2, CharacterLength, SMT

LEMMA LettersAreBytes == \A l \in Letters : l[1] \in Byte /\ l[2] \in Byte
BY ByteBounds, SMT DEF Letters

\* emit_string writes at most two \uXXXX for a character: of the fourteen bytes it asks
\* for, two are left for the quotes.
THEOREM EncodeBounded ==
  ASSUME NEW s \in Seq(Byte), NEW i \in Nat, i > 0, i <= Len(s)
  PROVE  /\ Encode(s, i).bytes \in Seq(Byte)
         /\ Len(Encode(s, i).bytes) <= 12
         /\ Encode(s, i).next \in Nat /\ Encode(s, i).next > 0
<1> DEFINE c == At(s, i)   u == ReadChar(s, i)   n == ValidateCz(s, i)
           letter == CHOOSE l \in Letters : l[2] = c
           copy == SubSeq(s, i, i + n - 1)
           pair == ToSurrogatePair(u)
           bytes ==
             IF \E l \in Letters : l[2] = c THEN << Backslash, letter[1] >>
             ELSE IF ~(c < 31 \/ (c >= 128 /\ EscapeUnicode)) THEN copy
             ELSE IF u <= 65535 THEN UnicodeEscape(u)
             ELSE UnicodeEscape(pair[1]) \o UnicodeEscape(pair[2])
<1>1. Encode(s, i) = [next |-> i + n, bytes |-> bytes]
  BY DEF Encode
<1>2. n \in Nat
  BY CharacterLength
<1>3. Backslash \in Byte
  BY ByteBounds, SMT DEF Backslash
<1>4. (\E l \in Letters : l[2] = c) => letter[1] \in Byte
  BY LettersAreBytes
<1>5. copy \in Seq(Byte) /\ Len(copy) <= 4
  BY CharacterCopied
<1>6. u \in Nat /\ u <= 2097151
  BY CodePointRead
<1>7. u <= 65535 => UnicodeEscape(u) \in Seq(Byte) /\ Len(UnicodeEscape(u)) = 6
  BY <1>6, EscapeWritten
<1>8. u > 65535 => /\ UnicodeEscape(pair[1]) \in Seq(Byte) /\ Len(UnicodeEscape(pair[1])) = 6
                   /\ UnicodeEscape(pair[2]) \in Seq(Byte) /\ Len(UnicodeEscape(pair[2])) = 6
  <2> HIDE DEF u
  <2>1. u > 65535 => /\ pair[1] \in Nat /\ pair[1] <= 65535
                     /\ pair[2] \in Nat /\ pair[2] <= 65535
    BY <1>6, SMT DEF ToSurrogatePair
  <2> HIDE DEF pair
  <2> QED
    BY <2>1, EscapeWritten
<1> HIDE DEF c, u, n, letter, copy, pair
<1>9. bytes \in Seq(Byte) /\ Len(bytes) <= 12
  <2>1. CASE \E l \in Letters : l[2] = c
    <3>1. bytes = << Backslash, letter[1] >>
      BY <2>1
    <3> HIDE DEF bytes
    <3> QED
      BY <2>1, <3>1, <1>3, <1>4, SMT
  <2>2. CASE ~(\E l \in Letters : l[2] = c)
    <3>1. \/ bytes = copy
          \/ u <= 65535 /\ bytes = UnicodeEscape(u)
          \/ u > 65535 /\ bytes = UnicodeEscape(pair[1]) \o UnicodeEscape(pair[2])
      BY <2>2, <1>6, SMT
    <3> HIDE DEF bytes
    <3>2. CASE bytes = copy
      BY <3>2, <1>5, SMT
    <3>3. CASE u <= 65535 /\ bytes = UnicodeEscape(u)
      <4>1. bytes \in Seq(Byte) /\ Len(bytes) = 6
        BY <3>3, <1>6, <1>7, SMT
      <4> QED
        BY <4>1, SMT
    <3>4. CASE u > 65535 /\ bytes = UnicodeEscape(pair[1]) \o UnicodeEscape(pair[2])
      <4> DEFINE e == UnicodeEscape(pair[1])   f == UnicodeEscape(pair[2])
      <4>1. e \in Seq(Byte) /\ f \in Seq(Byte) /\ Len(e) = 6 /\ Len(f) = 6 /\ bytes = e \o f
        BY <3>4, <1>8, SMT
      <4> HIDE DEF e, f
      <4>2. e \o f \in Seq(Byte) /\ Len(e \o f) = Len(e) + Len(f)
        BY <4>1, ConcatProperties
      <4> QED
        BY <4>1, <4>2, SMT
    <3> QED
      BY <3>1, <3>2, <3>3, <3>4
  <2> QED
    BY <2>1, <2>2
<1> HIDE DEF bytes
<1> QED
  BY <1>1, <1>2, <1>9, SMT

\* Four hexadecimal digits are a number below 65536, or they are refused.
LEMMA HexRead ==
  ASSUME NEW s \in Seq(Byte), NEW i \in Nat, i > 0
  PROVE  Hex16(s, i) = -1 \/ (Hex16(s, i) \in Nat /\ Hex16(s, i) <= 65535)
<1>1. \A c \in Nat : HexDigit(c) = -1 \/ (HexDigit(c) \in Nat /\ HexDigit(c) <= 15)
  BY SMT DEF HexDigit
<1> DEFINE d == [k \in 0 .. 3 |-> HexDigit(At(s, i + k))]
<1>2. \A k \in 0 .. 3 : i + k \in Nat /\ i + k > 0
  OBVIOUS
<1>3. \A k \in 0 .. 3 : d[k] = -1 \/ (d[k] \in Nat /\ d[k] <= 15)
  BY <1>1, <1>2, AtByte
<1>4. Hex16(s, i) = IF \E k \in 0 .. 3 : d[k] = -1 THEN -1
                    ELSE d[0] * 4096 + d[1] * 256 + d[2] * 16 + d[3]
  BY DEF Hex16
<1> HIDE DEF d
<1>5. CASE \E k \in 0 .. 3 : d[k] = -1
  BY <1>4, <1>5, SMT
<1>6. CASE ~(\E k \in 0 .. 3 : d[k] = -1)
  <2>1. /\ d[0] \in Nat /\ d[0] <= 15 /\ d[1] \in Nat /\ d[1] <= 15
        /\ d[2] \in Nat /\ d[2] <= 15 /\ d[3] \in Nat /\ d[3] <= 15
    BY <1>3, <1>6, SMT
  <2>2. Hex16(s, i) = d[0] * 4096 + d[1] * 256 + d[2] * 16 + d[3]
    BY <1>4, <1>6
  <2> DEFINE d0 == d[0]   d1 == d[1]   d2 == d[2]   d3 == d[3]
  <2>3. Hex16(s, i) = d0 * 4096 + d1 * 256 + d2 * 16 + d3
    BY <2>2
  <2> HIDE DEF d0, d1, d2, d3
  <2>4. /\ d0 \in Nat /\ d0 <= 15 /\ d1 \in Nat /\ d1 <= 15
        /\ d2 \in Nat /\ d2 <= 15 /\ d3 \in Nat /\ d3 <= 15
    BY <2>1, SMT DEF d0, d1, d2, d3
  <2>5. LET n == d0 * 4096 + d1 * 256 + d2 * 16 + d3 IN n \in Nat /\ n <= 65535
    BY <2>4, SMT
  <2> QED
    BY <2>3, <2>5, SMT
<1> QED
  BY <1>5, <1>6, SMT

\* What an escape says of the text behind it: at most one character, four bytes.
Taken(r) == /\ r.bytes \in Seq(Byte) /\ Len(r.bytes) <= 4
            /\ r.next \in Nat /\ r.next > 0

LEMMA LongestChar == \A u : IsScalar(u) => \A j \in Nat : j > 0 =>
                        Taken([next |-> j, bytes |-> WriteChar(u)])
BY ScalarWritten DEF Taken

LEMMA UnicodeTaken ==
  ASSUME NEW s \in Seq(Byte), NEW i \in Nat, i > 0, DecodeUnicode(s, i) # Bad
  PROVE  Taken(DecodeUnicode(s, i))
<1> DEFINE uc == Hex16(s, i)   lc == Hex16(s, i + 6)
           single == [next |-> i + 4, bytes |-> WriteChar(uc)]
           double == [next |-> i + 10, bytes |-> WriteChar(FromSurrogatePair(uc, lc))]
<1>1. \/ uc # -1 /\ ~IsSurrogate(uc) /\ DecodeUnicode(s, i) = single
      \/ uc # -1 /\ IsPair(uc, lc) /\ DecodeUnicode(s, i) = double
  BY Zenon DEF DecodeUnicode
<1>2. uc = -1 \/ (uc \in Nat /\ uc <= 65535)
  BY HexRead
<1>3. lc = -1 \/ (lc \in Nat /\ lc <= 65535)
  <2>1. i + 6 \in Nat /\ i + 6 > 0
    OBVIOUS
  <2> QED
    BY <2>1, HexRead
<1>4. i + 4 \in Nat /\ i + 4 > 0 /\ i + 10 \in Nat /\ i + 10 > 0
  OBVIOUS
<1> HIDE DEF uc, lc
<1>5. CASE uc # -1 /\ ~IsSurrogate(uc) /\ DecodeUnicode(s, i) = single
  <2>1. IsScalar(uc)
    BY <1>2, <1>5, SMT DEF IsScalar
  <2> QED
    BY <2>1, <1>4, <1>5, LongestChar, Zenon
<1>6. CASE uc # -1 /\ IsPair(uc, lc) /\ DecodeUnicode(s, i) = double
  <2>1. lc # -1
    BY <1>6, SMT DEF IsPair
  <2>2. uc \in Nat /\ lc \in Nat
    BY <1>2, <1>3, <1>6, <2>1
  <2>3. IsScalar(FromSurrogatePair(uc, lc))
    BY <1>6, <2>2, PairsExact, SMT
  <2> QED
    BY <2>3, <1>4, <1>6, LongestChar, Zenon
<1> QED
  BY <1>1, <1>5, <1>6

LEMMA EscapeTaken ==
  ASSUME NEW s \in Seq(Byte), NEW i \in Nat, i > 0, DecodeEscape(s, i) # Bad
  PROVE  Taken(DecodeEscape(s, i))
<1> DEFINE c == At(s, i)
           letter == CHOOSE l \in Letters : l[1] = c
<1>1. \/ DecodeEscape(s, i) = DecodeUnicode(s, i + 1)
      \/ DecodeEscape(s, i) = [next |-> i + 1, bytes |-> << c >>]
      \/ /\ \E l \in Letters : l[1] = c
         /\ DecodeEscape(s, i) = [next |-> i + 1, bytes |-> << letter[2] >>]
  BY Zenon DEF DecodeEscape
<1>2. i + 1 \in Nat /\ i + 1 > 0
  OBVIOUS
<1>3. \A b \in Byte : Taken([next |-> i + 1, bytes |-> << b >>])
  BY <1>2, SMT DEF Taken
<1>4. c \in Byte
  BY AtInByte
<1>5. (\E l \in Letters : l[1] = c) => letter[2] \in Byte
  BY LettersAreBytes, Zenon
<1> HIDE DEF c, letter
<1> QED
  BY <1>1, <1>2, <1>3, <1>4, <1>5, UnicodeTaken, Zenon

\* parse_string writes at most the four bytes it asked for, and goes on behind
\* what it read.
THEOREM DecodeBounded ==
  ASSUME NEW s \in Seq(Byte), NEW i \in Nat, i > 0, Decode(s, i) # Bad
  PROVE  /\ Decode(s, i).bytes \in Seq(Byte) /\ Len(Decode(s, i).bytes) <= 4
         /\ Decode(s, i).next \in Nat /\ Decode(s, i).next > 0
<1> DEFINE n == ValidateCz(s, i)
           copy == SubSeq(s, i, i + n - 1)
<1>1. \/ Decode(s, i) = DecodeEscape(s, i + 1)
      \/ /\ ~(At(s, i) <= 31)
         /\ Decode(s, i) = [next |-> i + n, bytes |-> copy]
  BY Zenon DEF Decode
<1>2. CASE Decode(s, i) = DecodeEscape(s, i + 1)
  <2>1. i + 1 \in Nat /\ i + 1 > 0
    OBVIOUS
  <2> QED
    BY <1>2, <2>1, EscapeTaken, Zenon DEF Taken
<1>3. CASE ~(At(s, i) <= 31) /\ Decode(s, i) = [next |-> i + n, bytes |-> copy]
  <2>1. At(s, i) # 0
    BY <1>3, SMT
  <2>2. i <= Len(s)
    BY <2>1, AtByte
  <2>3. copy \in Seq(Byte) /\ Len(copy) <= 4
    BY <2>2, CharacterCopied, Zenon
  <2>4. n \in Nat
    BY CharacterLength
  <2> HIDE DEF n, copy
  <2>5. i + n \in Nat /\ i + n > 0
    BY <2>4, SMT
  <2>6. Decode(s, i).bytes = copy /\ Decode(s, i).next = i + n
    BY <1>3, SMT
  <2> QED
    BY <2>3, <2>5, <2>6
<1> QED
  BY <1>1, <1>2, <1>3

-----------------------------------------------------------------------------
(* The buffer and the position, along a run.                               *)

\* Both texts are bytes, and the position is one of C's, counted from 1, wherever
\* the next step still looks at it.
Typed == /\ text \in Seq(Byte)
         /\ out \in Seq(Byte)
         /\ alloc \in Nat /\ alloc >= 4
         /\ keep \in BOOLEAN
         /\ pc \in {"nest", "open", "first", "emit", "read", "parse"} => at \in Nat /\ at > 0

\* The first character is written into the fourteen bytes that were asked for
\* with the opening quote: thirteen of them are left.
Room == /\ Len(out) <= alloc
        /\ pc = "first" => Len(out) + 13 <= alloc

Fitting == Typed /\ Room

LEMMA InitFits == ASSUME Init PROVE Fitting
<1>1. text \in Seq(1 .. 255)
  BY LexemesAssumption DEF Init
<1>2. text \in Seq(Byte)
  <2>1. \A b \in 1 .. 255 : b \in Byte
    BY ByteBounds, SMT
  <2>2. Len(text) \in Nat /\ text \in [1 .. Len(text) -> 1 .. 255]
    BY <1>1, LenProperties, ZenonT(60)
  <2>3. text \in [1 .. Len(text) -> Byte]
    BY <2>1, <2>2, Zenon
  <2> QED
    BY <2>2, <2>3, SeqDef
<1> QED
  BY <1>2, SMT DEF Init, Fitting, Typed, Room

\* What the next write asks for is there, or the buffer is grown first.
LEMMA StepFits == ASSUME Fitting, [Next]_vars PROVE Fitting'
<1> USE DEF Fitting, Typed, Room
<1>1. CASE Grow
  BY <1>1, SMT DEF Grow
<1>2. CASE Nest
  BY <1>2, SMT DEF Nest, HasRoom, Need, Bracket, Byte
<1>3. CASE EmitStart
  BY <1>3, SMT DEF EmitStart
<1>4. CASE EmitOpen
  BY <1>4, SMT DEF EmitOpen, HasRoom, Need, Quote, Byte
<1>5. CASE EmitChar
  <2> DEFINE bytes == Encode(text, at).bytes   next == Encode(text, at).next
  <2>1. at \in Nat /\ at > 0 /\ at <= Len(text)
    BY <1>5 DEF EmitChar
  <2>2. bytes \in Seq(Byte) /\ Len(bytes) <= 12 /\ next \in Nat /\ next > 0
    BY <2>1, EncodeBounded
  <2> HIDE DEF bytes, next
  <2>3. out \o bytes \in Seq(Byte) /\ Len(out \o bytes) = Len(out) + Len(bytes)
    BY <2>2, ConcatProperties
  <2>4. out' = out \o bytes /\ at' = next /\ pc' = "emit" /\ UNCHANGED << text, alloc, keep >>
    BY <1>5 DEF EmitChar, bytes, next
  <2>5. Len(out) + 12 <= alloc
    BY <1>5, SMT DEF EmitChar, HasRoom, Need
  <2>6. Len(out) + Len(bytes) <= alloc
    BY <2>2, <2>5, SMT
  <2> QED
    BY <2>2, <2>3, <2>4, <2>6
<1>6. CASE EmitClose
  BY <1>6, SMT DEF EmitClose, HasRoom, Need, Quote, Byte
<1>7. CASE ReadBack
  BY <1>7, SMT DEF ReadBack
<1>8. CASE ParseOpen
  BY <1>8, SMT DEF ParseOpen
<1>9. CASE ParseChar
  <2> DEFINE bytes == Decode(text, at).bytes   next == Decode(text, at).next
  <2>1. at \in Nat /\ at > 0 /\ Decode(text, at) # Bad
    BY <1>9 DEF ParseChar
  <2>2. bytes \in Seq(Byte) /\ Len(bytes) <= 4 /\ next \in Nat /\ next > 0
    BY <2>1, DecodeBounded
  <2> HIDE DEF bytes, next
  <2>3. out \o bytes \in Seq(Byte) /\ Len(out \o bytes) = Len(out) + Len(bytes)
    BY <2>2, ConcatProperties
  <2>4. /\ out' = IF keep THEN out \o bytes ELSE bytes
        /\ at' = next /\ pc' = "parse" /\ UNCHANGED << text, alloc, keep >>
    BY <1>9 DEF ParseChar, bytes, next
  <2>5. keep => Len(out) + 4 <= alloc
    BY <1>9, SMT DEF ParseChar, HasRoom, Need
  <2>6. CASE keep
    <3>1. Len(out) + Len(bytes) <= alloc
      BY <2>2, <2>5, <2>6, SMT
    <3> QED
      BY <2>2, <2>3, <2>4, <2>6, <3>1
  <2>7. CASE ~keep
    <3>1. Len(bytes) <= alloc
      BY <2>2, SMT
    <3> QED
      BY <2>2, <2>4, <2>7, <3>1
  <2> QED
    BY <2>6, <2>7
<1>10. CASE ParseFail
  BY <1>10, SMT DEF ParseFail
<1>11. CASE ParseClose
  BY <1>11, SMT DEF ParseClose
<1>12. CASE Reencode
  BY <1>12, SMT DEF Reencode
<1>13. CASE ReadNumber
  BY <1>13, SMT DEF ReadNumber
<1>14. CASE UNCHANGED vars
  BY <1>14, SMT DEF vars
<1> QED
  BY <1>1, <1>2, <1>3, <1>4, <1>5, <1>6, <1>7, <1>8, <1>9, <1>10, <1>11, <1>12, <1>13, <1>14
     DEF Next

\* emit_string and parse_string never write past the end of their buffer, be it the
\* string that sb_need grows or the four bytes json_validate reads into.
THEOREM BufferKept == Spec => []BufferFits
<1>1. Init => Fitting
  BY InitFits
<1>2. Fitting /\ [Next]_vars => Fitting'
  BY StepFits
<1>3. Fitting => BufferFits
  BY DEF Fitting, Room, BufferFits
<1> QED
  BY <1>1, <1>2, <1>3, PTL DEF Spec

\* Wherever parse_string stands, what utf8_validate_cz takes there for a
\* character is one: a code point, written the one way it can be.
THEOREM DecoderKept == Spec => []Utf8Exact
<1>1. Init => Fitting
  BY InitFits
<1>2. Fitting /\ [Next]_vars => Fitting'
  BY StepFits
<1>3. Fitting => Utf8Exact
  <2> SUFFICES ASSUME Fitting, pc = "parse", at <= Len(text), ValidateCz(text, at) > 0
               PROVE  LET u == ReadChar(text, at)
                      IN  /\ IsScalar(u)
                          /\ WriteChar(u) = SubSeq(text, at, at + ValidateCz(text, at) - 1)
    BY DEF Utf8Exact
  <2>1. text \in Seq(Byte) /\ at \in Nat /\ at > 0
    BY DEF Fitting, Typed
  <2> QED
    BY <2>1, DecoderExact
<1> QED
  BY <1>1, <1>2, <1>3, PTL DEF Spec

-----------------------------------------------------------------------------
(* Numbers.                                                                *)

\* What digits are.
LEMMA NoDigitBeyond ==
  ASSUME NEW s \in Seq(Byte), NEW i \in Nat, i > 0
  PROVE  At(s, i) \in Nat /\ (IsDigit(At(s, i)) => i <= Len(s)) /\ (i <= Len(s) => At(s, i) = s[i])
<1>1. At(s, i) \in Nat
  BY AtByte
<1>2. i > Len(s) => At(s, i) = 0
  BY SMT DEF At
<1>3. IsDigit(At(s, i)) => At(s, i) # 0
  BY <1>1, SMT DEF IsDigit
<1> QED
  BY <1>1, <1>2, <1>3, SMT DEF At

\* The run of digits from i on ends before j.
Run(s, i, j) ==
  /\ j \in i + 1 .. Len(s) + 1
  /\ ~IsDigit(At(s, j))
  /\ \A k \in i .. j - 1 : IsDigit(At(s, k))

\* There is one such j.
LEMMA RunUnique ==
  ASSUME NEW s \in Seq(Byte), NEW i \in Nat, i > 0,
         NEW j, Run(s, i, j), NEW m, Run(s, i, m)
  PROVE  j = m
<1>1. i \in Int /\ j \in Int /\ m \in Int /\ i < j /\ i < m
  BY SMT DEF Run
<1>2. ASSUME j < m
      PROVE  FALSE
  BY <1>1, <1>2, SMT DEF Run
<1>3. ASSUME m < j
      PROVE  FALSE
  BY <1>1, <1>3, SMT DEF Run
<1> QED
  BY <1>1, <1>2, <1>3, SMT

LEMMA RunExists ==
  ASSUME NEW s \in Seq(Byte), NEW i \in Nat, i > 0, IsDigit(At(s, i))
  PROVE  \E j : Run(s, i, j)
<1> DEFINE T == { k \in Nat : i <= k /\ ~IsDigit(At(s, k)) }
<1>1. i <= Len(s) /\ Len(s) \in Nat
  BY NoDigitBeyond, LenProperties
<1>2. Len(s) + 1 \in T
  <2>1. Len(s) + 1 \in Nat /\ Len(s) + 1 > 0
    BY <1>1
  <2>2. ~IsDigit(At(s, Len(s) + 1))
    BY <1>1, <2>1, NoDigitBeyond, SMT
  <2> QED
    BY <1>1, <2>1, <2>2
<1>3. PICK j \in T : \A k \in T : j <= k
  <2>1. T \subseteq Nat /\ T # {}
    BY <1>2
  <2> HIDE DEF T
  <2> QED
    BY <2>1, LeastNumber
<1>4. j \in Nat /\ i <= j /\ ~IsDigit(At(s, j)) /\ j <= Len(s) + 1
  BY <1>2, <1>3
<1>5. j # i
  BY <1>4
<1>6. \A k \in i .. j - 1 : IsDigit(At(s, k))
  <2> SUFFICES ASSUME NEW k \in i .. j - 1, ~IsDigit(At(s, k))
               PROVE  FALSE
    OBVIOUS
  <2>1. k \in T /\ k < j
    BY <1>4
  <2> QED
    BY <1>3, <1>4, <2>1
<1>7. j \in i + 1 .. Len(s) + 1
  BY <1>1, <1>4, <1>5
<1>8. Run(s, i, j)
  BY <1>4, <1>6, <1>7 DEF Run
<1> QED
  BY <1>8

\* Digits finds it.
LEMMA DigitsRun ==
  ASSUME NEW s \in Seq(Byte), NEW i \in Nat, i > 0
  PROVE  /\ ~IsDigit(At(s, i)) => Digits(s, i) = 0
         /\ IsDigit(At(s, i)) => Run(s, i, Digits(s, i))
         /\ \A j : Run(s, i, j) => Digits(s, i) = j
<1>1. ~IsDigit(At(s, i)) => Digits(s, i) = 0
  BY DEF Digits
<1>2. IsDigit(At(s, i)) => Run(s, i, Digits(s, i))
  <2> SUFFICES ASSUME IsDigit(At(s, i))
               PROVE  Run(s, i, Digits(s, i))
    OBVIOUS
  <2>1. \E j \in i + 1 .. Len(s) + 1 :
          ~IsDigit(At(s, j)) /\ \A k \in i .. j - 1 : IsDigit(At(s, k))
    BY RunExists DEF Run
  <2> QED
    BY <2>1 DEF Digits, Run
<1>3. ASSUME NEW j, Run(s, i, j)
      PROVE  Digits(s, i) = j
  <2>1. IsDigit(At(s, i))
    BY <1>3, SMT DEF Run
  <2> QED
    BY <1>2, <1>3, <2>1, RunUnique
<1> QED
  BY <1>1, <1>2, <1>3

\* What each of the three parts takes, when it parses.
LEMMA WholeRead ==
  ASSUME NEW s \in Seq(Byte), NEW i \in Nat, i > 0, NEW j, j = Whole(s, i), j # 0
  PROVE  /\ j \in i + 1 .. Len(s) + 1
         /\ \A k \in i .. j - 1 : IsDigit(At(s, k))
         /\ At(s, i) = 48 => j = i + 1
<1>1. CASE At(s, i) = 48
  <2>1. j = i + 1 /\ IsDigit(At(s, i))
    BY <1>1, SMT DEF Whole, IsDigit
  <2>2. i <= Len(s) /\ Len(s) \in Nat
    BY <2>1, NoDigitBeyond, LenProperties
  <2> QED
    BY <2>1, <2>2, SMT
<1>2. CASE At(s, i) # 48
  <2>1. j = Digits(s, i)
    BY <1>2 DEF Whole
  <2>2. Run(s, i, j)
    BY <2>1, DigitsRun
  <2> QED
    BY <1>2, <2>2 DEF Run
<1> QED
  BY <1>1, <1>2

LEMMA FractionRead ==
  ASSUME NEW s \in Seq(Byte), NEW i \in Nat, i > 0, NEW j, j = Fraction(s, i), j # 0
  PROVE  j = i \/ (At(s, i) = 46 /\ Run(s, i + 1, j))
<1>1. CASE At(s, i) = 46
  <2>1. j = Digits(s, i + 1) /\ i + 1 \in Nat /\ i + 1 > 0
    BY <1>1, SMT DEF Fraction
  <2> QED
    BY <1>1, <2>1, DigitsRun
<1>2. CASE At(s, i) # 46
  BY <1>2 DEF Fraction
<1> QED
  BY <1>1, <1>2

\* Where the digits of an exponent begin whose letter is at s[i].
AfterSign(s, i) == IF At(s, i + 1) \in {43, 45} THEN i + 2 ELSE i + 1

LEMMA ExponentRead ==
  ASSUME NEW s \in Seq(Byte), NEW i \in Nat, i > 0, NEW j, j = Exponent(s, i), j # 0
  PROVE  j = i \/ (At(s, i) \in {69, 101} /\ Run(s, AfterSign(s, i), j))
<1>1. CASE At(s, i) \in {69, 101}
  <2>1. j = Digits(s, AfterSign(s, i))
    BY <1>1 DEF Exponent, AfterSign
  <2>2. AfterSign(s, i) \in Nat /\ AfterSign(s, i) > 0
    BY DEF AfterSign
  <2> QED
    BY <1>1, <2>1, <2>2, DigitsRun
<1>2. CASE ~(At(s, i) \in {69, 101})
  BY <1>2 DEF Exponent
<1> QED
  BY <1>1, <1>2

\* What parse_number takes from the front of a text is a number.
LEMMA ParsedIsNumber ==
  ASSUME NEW s \in Seq(Byte), ParseNumber(s, 1) # 0
  PROVE  /\ ParseNumber(s, 1) - 1 \in 1 .. Len(s)
         /\ IsNumber(SubSeq(s, 1, ParseNumber(s, 1) - 1))
<1> DEFINE first == IF At(s, 1) = 45 THEN 2 ELSE 1
           W == Whole(s, first)
           F == Fraction(s, W)
           E == Exponent(s, F)
           t == SubSeq(s, 1, E - 1)
<1>1. E = ParseNumber(s, 1) /\ E # 0
  BY DEF ParseNumber
<1>2. F # 0
  BY <1>1 DEF Exponent
<1>3. W # 0
  BY <1>2 DEF Fraction
<1>4. first \in 1 .. 2 /\ Len(s) \in Nat
  BY LenProperties
<1>5. /\ W \in first + 1 .. Len(s) + 1
      /\ \A k \in first .. W - 1 : IsDigit(At(s, k))
      /\ At(s, first) = 48 => W = first + 1
  <2>1. first \in Nat /\ first > 0
    BY <1>4
  <2> HIDE DEF first
  <2> QED
    BY <1>3, <2>1, WholeRead
<1>6. F = W \/ (At(s, W) = 46 /\ Run(s, W + 1, F))
  <2>1. W \in Nat /\ W > 0
    BY <1>4, <1>5
  <2> HIDE DEF W
  <2> QED
    BY <1>2, <2>1, FractionRead
<1>7. F \in W .. Len(s) + 1
  <2> HIDE DEF W, F, first
  <2> QED
    BY <1>4, <1>5, <1>6 DEF Run
<1>8. E = F \/ (At(s, F) \in {69, 101} /\ Run(s, AfterSign(s, F), E))
  <2>1. F \in Nat /\ F > 0
    BY <1>4, <1>5, <1>7
  <2> HIDE DEF F
  <2> QED
    BY <1>1, <2>1, ExponentRead
<1> DEFINE sign == AfterSign(s, F)
<1>9. sign = (IF At(s, F + 1) \in {43, 45} THEN F + 2 ELSE F + 1)
  BY DEF AfterSign
<1> HIDE DEF sign, first, W, F, E
<1>10. E \in F .. Len(s) + 1
  BY <1>4, <1>5, <1>7, <1>8, <1>9 DEF Run, sign
<1>11. E - 1 \in 1 .. Len(s)
  BY <1>4, <1>5, <1>7, <1>10
<1>12. t \in Seq(Byte) /\ Len(t) = E - 1 /\ \A k \in 1 .. E - 1 : t[k] = At(s, k) /\ At(t, k) = t[k]
  <2> DEFINE n == E - 1
  <2>1. n \in Nat /\ n <= Len(s) /\ 1 <= n /\ n - 1 + 1 = n
    BY <1>4, <1>11
  <2>2. \A k \in 1 .. n : s[k] \in Byte
    BY <2>1
  <2> HIDE DEF n
  <2>3. /\ SubSeq(s, 1, n) \in Seq(Byte)
        /\ Len(SubSeq(s, 1, n)) = n
        /\ \A k \in 1 .. n : SubSeq(s, 1, n)[k] = s[k]
    <3>1. /\ SubSeq(s, 1, n) \in Seq(Byte)
          /\ Len(SubSeq(s, 1, n)) = n - 1 + 1
          /\ \A k \in 1 .. n - 1 + 1 : SubSeq(s, 1, n)[k] = s[1 + k - 1]
      BY <2>1, <2>2, SubSeqProperties
    <3>2. \A k \in 1 .. n : 1 + k - 1 = k
      BY <2>1
    <3> QED
      BY <2>1, <3>1, <3>2
  <2>4. t = SubSeq(s, 1, n)
    BY DEF n
  <2> HIDE DEF t
  <2>5. \A k \in 1 .. n : k <= Len(s) /\ k <= Len(t)
    BY <2>1, <2>3, <2>4
  <2>6. \A k \in 1 .. n : At(s, k) = s[k] /\ At(t, k) = t[k]
    BY <2>5 DEF At
  <2>7. Len(t) = E - 1
    BY <2>3, <2>4 DEF n
  <2> QED
    BY <2>3, <2>4, <2>6, <2>7 DEF n
<1> HIDE DEF t
<1> DEFINE w == W - 1   f == F - 1   e == E - 1
<1>13. w \in 0 .. Len(t) /\ f \in 0 .. Len(t) /\ e \in 0 .. Len(t) /\ e = Len(t)
  BY <1>4, <1>5, <1>7, <1>10, <1>12
<1>14. first = IF At(t, 1) = 45 THEN 2 ELSE 1
  BY <1>11, <1>12 DEF first
<1>15. /\ first <= w /\ \A k \in first .. w : IsDigit(t[k])
       /\ t[first] = 48 => w = first
  <2>1. first \in 1 .. E - 1 /\ w <= E - 1 /\ first <= w
    BY <1>4, <1>5, <1>7, <1>10
  <2>2. \A k \in first .. w : k \in 1 .. E - 1 /\ k \in first .. W - 1
    BY <1>4, <1>5, <1>7, <1>10
  <2> QED
    BY <1>4, <1>5, <1>12, <2>1, <2>2
<1>16. \/ f = w
       \/ f > w + 1 /\ t[w + 1] = 46 /\ w + 2 <= f /\ \A k \in w + 2 .. f : IsDigit(t[k])
  <2>1. CASE F = W
    BY <2>1
  <2>2. CASE At(s, W) = 46 /\ Run(s, W + 1, F)
    <3>1. F >= W + 2 /\ \A k \in W + 1 .. F - 1 : IsDigit(At(s, k))
      BY <1>4, <1>5, <2>2 DEF Run
    <3>2. \A k \in w + 2 .. f : k \in 1 .. E - 1 /\ k \in W + 1 .. F - 1
      BY <1>4, <1>5, <1>7, <1>10
    <3>3. f > w + 1 /\ w + 2 <= f /\ w + 1 = W /\ W \in 1 .. E - 1
      BY <1>4, <1>5, <1>7, <1>10, <3>1
    <3> QED
      BY <1>12, <2>2, <3>1, <3>2, <3>3
  <2> QED
    BY <1>6, <2>1, <2>2
<1>17. \/ e = f
       \/ LET sg == IF At(t, f + 2) \in {43, 45} THEN f + 3 ELSE f + 2
          IN  e > f + 1 /\ t[f + 1] \in {69, 101} /\ sg <= e /\ \A k \in sg .. e : IsDigit(t[k])
  <2>1. CASE E = F
    BY <2>1
  <2>2. CASE At(s, F) \in {69, 101} /\ Run(s, sign, E)
    <3>1. sign \in Nat /\ sign >= F + 1
      BY <1>4, <1>5, <1>7, <1>9
    <3>2. E >= sign + 1 /\ \A k \in sign .. E - 1 : IsDigit(At(s, k))
      BY <1>4, <1>10, <3>1, <2>2 DEF Run
    <3>3. F \in 1 .. E - 1 /\ F + 1 \in 1 .. E - 1 /\ f + 1 = F /\ f + 2 = F + 1 /\ e > f + 1
          /\ f + 3 = F + 2
      BY <1>4, <1>5, <1>7, <1>10, <3>1, <3>2
    <3>4. sign = IF At(t, f + 2) \in {43, 45} THEN f + 3 ELSE f + 2
      BY <1>9, <1>12, <3>3
    <3>5. t[f + 1] \in {69, 101}
      BY <1>12, <2>2, <3>3
    <3>6. \A k \in sign .. e : k \in 1 .. E - 1
      BY <1>4, <1>5, <1>7, <1>10, <3>1
    <3>7. sign <= e /\ \A k \in sign .. e : IsDigit(t[k])
      BY <1>10, <1>12, <3>1, <3>2, <3>6
    <3> HIDE DEF e, f, w
    <3> QED
      BY <3>3, <3>4, <3>5, <3>7
  <2> QED
    BY <1>8, <2>1, <2>2 DEF sign
<1> HIDE DEF w, f, e
<1>18. IsNumber(t)
  BY <1>13, <1>14, <1>15, <1>16, <1>17 DEF IsNumber
<1> QED
  BY <1>1, <1>11, <1>18 DEF t

\* A number is read to its end.
LEMMA NumberIsParsed ==
  ASSUME NEW s \in Seq(Byte), IsNumber(s)
  PROVE  ParseNumber(s, 1) = Len(s) + 1
<1> DEFINE first == IF At(s, 1) = 45 THEN 2 ELSE 1
           In(i, j) == i <= j /\ \A k \in i .. j : IsDigit(s[k])
           sign(f) == IF At(s, f + 2) \in {43, 45} THEN f + 3 ELSE f + 2
<1>1. PICK w \in 0 .. Len(s), f \in 0 .. Len(s), e \in 0 .. Len(s) :
        /\ In(first, w) /\ (s[first] = 48 => w = first)
        /\ f = w \/ (f > w + 1 /\ s[w + 1] = 46 /\ In(w + 2, f))
        /\ e = Len(s)
        /\ e = f \/ (e > f + 1 /\ s[f + 1] \in {69, 101} /\ In(sign(f), e))
  BY DEF IsNumber
<1>2. Len(s) \in Nat /\ first \in 1 .. 2
  BY LenProperties
<1>3. /\ At(s, f + 1) \notin {46} \cup 48 .. 57
      /\ e = f => At(s, f + 1) \notin {69, 101}
  <2>1. CASE e = f
    <3>1. At(s, f + 1) = 0
      BY <1>1, <1>2, <2>1 DEF At
    <3>2. 0 \notin {46} \cup 48 .. 57 /\ 0 \notin {69, 101}
      OBVIOUS
    <3> QED
      BY <3>1, <3>2, Zenon
  <2>2. CASE e # f
    <3>1. f + 1 <= Len(s)
      BY <1>1, <1>2, <2>2
    <3>2. At(s, f + 1) = s[f + 1] /\ s[f + 1] \in {69, 101}
      BY <1>1, <2>2, <3>1 DEF At
    <3>4. At(s, f + 1) \notin {46} \cup 48 .. 57
      <4> DEFINE c == At(s, f + 1)
      <4>1. c = 69 \/ c = 101
        BY <3>2
      <4> HIDE DEF c
      <4>2. c \notin {46} \cup 48 .. 57
        BY <4>1, SMTT(60)
      <4> QED
        BY <4>2 DEF c
    <3> QED
      BY <2>2, <3>4, Zenon
  <2> QED
    BY <2>1, <2>2
<1>4. ~IsDigit(At(s, w + 1))
  <2>1. CASE f = w
    BY <1>3, <2>1 DEF IsDigit
  <2>2. CASE f # w
    BY <1>1, <1>2, <2>2, SMTT(60) DEF At, IsDigit
  <2> QED
    BY <2>1, <2>2
<1>5. ASSUME NEW i \in Nat, NEW j \in Nat, i > 0, j <= Len(s), In(i, j), ~IsDigit(At(s, j + 1))
      PROVE  Digits(s, i) = j + 1
  <2>1. \A k \in i .. j : At(s, k) = s[k]
    BY <1>2, <1>5 DEF At
  <2>2. j + 1 \in i + 1 .. Len(s) + 1 /\ j + 1 - 1 = j
    BY <1>2, <1>5
  <2>3. Run(s, i, j + 1)
    BY <1>5, <2>1, <2>2 DEF Run
  <2> QED
    BY <1>5, <2>3, DigitsRun
<1> HIDE DEF In
<1>6. Whole(s, first) = w + 1
  <2>1. At(s, first) = s[first]
    BY <1>1, <1>2 DEF At, In
  <2>2. CASE At(s, first) = 48
    BY <1>1, <2>1, <2>2 DEF Whole
  <2>3. CASE At(s, first) # 48
    BY <1>1, <1>2, <1>4, <1>5, <2>3 DEF Whole
  <2> QED
    BY <2>2, <2>3
<1>7. Fraction(s, w + 1) = f + 1
  <2>1. CASE f = w
    BY <1>2, <1>3, <2>1 DEF Fraction
  <2>2. CASE f # w
    <3>1. At(s, w + 1) = 46 /\ w + 1 # 0 /\ w + 1 + 1 = w + 2 /\ w + 2 \in Nat /\ w + 2 > 0
      BY <1>1, <1>2, <2>2, SMT DEF At
    <3>2. ~IsDigit(At(s, f + 1)) /\ f \in Nat /\ f <= Len(s) /\ In(w + 2, f)
      BY <1>1, <1>2, <1>3, <2>2 DEF IsDigit
    <3>3. Digits(s, w + 2) = f + 1
      BY <1>5, <3>1, <3>2
    <3> QED
      BY <3>1, <3>3 DEF Fraction
  <2> QED
    BY <2>1, <2>2
<1>8. Exponent(s, f + 1) = e + 1
  <2>1. CASE e = f
    BY <1>2, <1>3, <2>1 DEF Exponent
  <2>2. CASE e # f
    <3>1. At(s, f + 1) \in {69, 101} /\ f + 1 # 0 /\ f + 1 + 1 = f + 2 /\ f + 1 + 2 = f + 3
      BY <1>1, <1>2, <2>2, SMT DEF At
    <3>2. ~IsDigit(At(s, e + 1)) /\ e \in Nat /\ e <= Len(s) /\ In(sign(f), e)
      BY <1>1, <1>2, <2>2, SMT DEF At, IsDigit
    <3>3. sign(f) \in Nat /\ sign(f) > 0
      BY <1>2
    <3>4. Digits(s, sign(f)) = e + 1
      <4> HIDE DEF sign
      <4> QED
        BY <1>5, <3>2, <3>3
    <3> QED
      BY <3>1, <3>4 DEF Exponent
  <2> QED
    BY <2>1, <2>2
<1> QED
  BY <1>1, <1>6, <1>7, <1>8 DEF ParseNumber

\* number_is_valid is the pattern in the comment above parse_number.
LEMMA ValidIsPattern ==
  ASSUME NEW s \in Seq(Byte)
  PROVE  NumberIsValid(s) <=> IsNumber(s)
<1>1. ASSUME NumberIsValid(s)
      PROVE  IsNumber(s)
  <2>1. Len(s) \in Nat /\ ParseNumber(s, 1) = Len(s) + 1
    BY <1>1, LenProperties DEF NumberIsValid
  <2>2. ParseNumber(s, 1) # 0 /\ ParseNumber(s, 1) - 1 = Len(s)
    BY <2>1
  <2>3. Len(s) \in 1 .. Len(s) /\ IsNumber(SubSeq(s, 1, Len(s)))
    BY <2>2, ParsedIsNumber
  <2>4. SubSeq(s, 1, Len(s)) = s
    <3>1. Len(s) > 0 /\ 1 + Len(s) - 1 = Len(s) /\ \A k \in 1 .. Len(s) : 1 + k - 1 = k
      BY <2>1, <2>3
    <3>2. 1 \in Nat /\ 1 > 0 /\ Len(s) <= Len(s) /\ \A k \in 1 .. Len(s) : s[k] = s[1 + k - 1]
      BY <2>1, <3>1
    <3>3. SubSeq(s, 1, 1 + Len(s) - 1) = s
      BY <2>1, <3>1, <3>2, Piece
    <3> QED
      BY <3>1, <3>3
  <2> QED
    BY <2>3, <2>4
<1> QED
  BY <1>1, NumberIsParsed DEF NumberIsValid

\* Where parse_number stopped.
Numbered == pc = "number_read" => at # 0 /\ at = ParseNumber(text, 1)

LEMMA StepNumbered == Numbered /\ [Next]_vars => Numbered'
BY SMT DEF Numbered, Next, vars, Grow, Nest, EmitStart, EmitOpen, EmitChar, EmitClose, ReadBack,
   ParseOpen, ParseChar, ParseFail, ParseClose, Reencode, ReadNumber

\* For every text, number_is_valid accepts exactly the numbers of JSON, and what
\* parse_number takes from the front of a text is one.
THEOREM NumbersRead == Spec => []NumbersExact
<1>1. Init => Fitting /\ Numbered
  BY InitFits DEF Init, Numbered
<1>2. Fitting /\ Numbered /\ [Next]_vars => (Fitting /\ Numbered)'
  BY StepFits, StepNumbered
<1>3. Fitting /\ Numbered => NumbersExact
  <2> SUFFICES ASSUME Fitting, Numbered
               PROVE  NumbersExact
    OBVIOUS
  <2>1. text \in Seq(Byte)
    BY DEF Fitting, Typed
  <2>2. NumberIsValid(text) <=> IsNumber(text)
    BY <2>1, ValidIsPattern
  <2>3. pc = "number_read" => IsNumber(SubSeq(text, 1, at - 1))
    BY <2>1, ParsedIsNumber DEF Numbered
  <2> QED
    BY <2>2, <2>3 DEF NumbersExact
<1> QED
  BY <1>1, <1>2, <1>3, PTL DEF Spec

-----------------------------------------------------------------------------
(* Valid strings.                                                          *)

\* The places where the characters of s begin, and the end.
Cuts(s, C) ==
  /\ C \subseteq 1 .. Len(s) + 1
  /\ 1 \in C
  /\ \A c \in C : c = Len(s) + 1 \/ (ValidateCz(s, c) > 0 /\ c + ValidateCz(s, c) \in C)

LEMMA CharacterWithin ==
  ASSUME NEW s \in Seq(Byte), NEW i \in 1 .. Len(s), ValidateCz(s, i) > 0
  PROVE  /\ ValidateCz(s, i) \in 1 .. 4 /\ i + ValidateCz(s, i) \in 2 .. Len(s) + 1
         /\ i + ValidateCz(s, i) - 1 <= Len(s)
<1>1. i \in Nat /\ i > 0 /\ i <= Len(s) /\ Len(s) \in Nat
  BY LenProperties
<1>2. i + ValidateCz(s, i) - 1 <= Len(s)
  BY <1>1, DecoderExact
<1>3. ValidateCz(s, i) \in Nat /\ ValidateCz(s, i) <= 4
  BY <1>1, CharacterLength
<1> QED
  BY <1>1, <1>2, <1>3

\* utf8_validate goes from one to the next.
LEMMA ValidIsCut ==
  ASSUME NEW s \in Seq(Byte)
  PROVE  Validate(s) <=> \E C : Cuts(s, C)
<1> DEFINE D == 1 .. Len(s) + 4
           V(i) == ValidateCz(s, i)
           f == CHOOSE valid : valid = [i \in 1 .. Len(s) + 4 |->
                   \/ i > Len(s)
                   \/ ValidateCz(s, i) > 0 /\ valid[i + ValidateCz(s, i)]]
           Closed(C) == \A c \in C : c > Len(s) \/ (V(c) > 0 /\ c + V(c) \in C)
           g == [i \in D |-> \E C \in SUBSET D : i \in C /\ Closed(C)]
<1>1. Validate(s) = f[1]
  BY DEF Validate
<1>2. Len(s) \in Nat
  BY LenProperties
<1>3. \A i \in D : V(i) \in Nat /\ V(i) <= 4
  <2>1. \A i \in D : i \in Nat /\ i > 0
    BY <1>2
  <2> QED
    BY <2>1, CharacterLength
<1>4. ASSUME NEW i \in D
      PROVE  g[i] <=> (i > Len(s) \/ (V(i) > 0 /\ g[i + V(i)]))
  <2> HIDE DEF V
  <2>1. ASSUME g[i], ~(i > Len(s))
        PROVE  V(i) > 0 /\ g[i + V(i)]
    <3>1. PICK C \in SUBSET D : i \in C /\ Closed(C)
      BY <2>1
    <3>2. V(i) > 0 /\ i + V(i) \in C
      BY <2>1, <3>1
    <3>3. i + V(i) \in D
      BY <3>2
    <3> QED
      BY <3>1, <3>2, <3>3
  <2>2. ASSUME i > Len(s)
        PROVE  g[i]
    <3>1. {i} \in SUBSET D /\ i \in {i} /\ Closed({i})
      BY <2>2
    <3> QED
      BY <3>1
  <2>3. ASSUME ~(i > Len(s)), V(i) > 0, g[i + V(i)]
        PROVE  g[i]
    <3>1. i + V(i) \in D
      BY <1>2, <1>3, <2>3
    <3>2. PICK C \in SUBSET D : i + V(i) \in C /\ Closed(C)
      BY <2>3, <3>1
    <3>3. C \cup {i} \in SUBSET D /\ i \in C \cup {i} /\ Closed(C \cup {i})
      BY <2>3, <3>2
    <3> QED
      BY <3>3
  <2> HIDE DEF g
  <2> QED
    BY <2>1, <2>2, <2>3
<1>5. g = [i \in 1 .. Len(s) + 4 |->
             \/ i > Len(s)
             \/ ValidateCz(s, i) > 0 /\ g[i + ValidateCz(s, i)]]
  <2>1. \A i \in D : g[i] \in BOOLEAN
    OBVIOUS
  <2>2. \A i \in D : g[i] = (i > Len(s) \/ (V(i) > 0 /\ g[i + V(i)]))
    BY <1>4, <2>1
  <2>3. g = [i \in D |-> g[i]]
    OBVIOUS
  <2> HIDE DEF g
  <2> QED
    BY <2>2, <2>3
<1>6. f = [i \in 1 .. Len(s) + 4 |->
             \/ i > Len(s)
             \/ ValidateCz(s, i) > 0 /\ f[i + ValidateCz(s, i)]]
  <2> HIDE DEF g
  <2> QED
    BY <1>5
<1> HIDE DEF f, g
<1>7. \A i \in D : f[i] = (i > Len(s) \/ (V(i) > 0 /\ f[i + V(i)]))
  BY <1>6
<1>8. ASSUME f[1]
      PROVE  \E C : Cuts(s, C)
  <2> DEFINE C == { i \in 1 .. Len(s) + 1 : f[i] }
  <2>1. 1 \in C
    BY <1>2, <1>8
  <2>2. ASSUME NEW c \in C, c # Len(s) + 1
        PROVE  V(c) > 0 /\ c + V(c) \in C
    <3>1. c \in 1 .. Len(s) /\ c \in D /\ ~(c > Len(s)) /\ f[c]
      BY <1>2, <2>2
    <3>2. V(c) > 0 /\ f[c + V(c)]
      BY <1>7, <3>1
    <3>3. c + V(c) \in 1 .. Len(s) + 1
      BY <1>2, <3>1, <3>2, CharacterWithin
    <3> QED
      BY <3>2, <3>3
  <2>3. Cuts(s, C)
    <3> HIDE DEF C
    <3>1. C \subseteq 1 .. Len(s) + 1
      BY DEF C
    <3> QED
      BY <2>1, <2>2, <3>1 DEF Cuts
  <2> QED
    BY <2>3
<1>9. ASSUME NEW C, Cuts(s, C)
      PROVE  f[1]
  <2> DEFINE T == { n \in Nat : \E c \in C : ~f[c] /\ n = Len(s) + 1 - c }
  <2> SUFFICES ASSUME ~f[1]
               PROVE  FALSE
    OBVIOUS
  <2>1. C \subseteq 1 .. Len(s) + 1 /\ 1 \in C
    BY <1>9 DEF Cuts
  <2>2. \A c \in C : Len(s) + 1 - c \in Nat
    BY <1>2, <2>1
  <2>3. T \subseteq Nat /\ T # {}
    BY <2>1, <2>2
  <2>4. PICK n \in T : \A k \in T : n <= k
    <3> HIDE DEF T
    <3> QED
      BY <2>3, LeastNumber
  <2>5. PICK c \in C : ~f[c] /\ n = Len(s) + 1 - c
    OBVIOUS
  <2>6. c \in D /\ c \in 1 .. Len(s) + 1
    BY <1>2, <2>1
  <2>7. c \in 1 .. Len(s)
    <3>1. f[c] = (c > Len(s) \/ (V(c) > 0 /\ f[c + V(c)]))
      BY <1>7, <2>6
    <3>2. ~(c > Len(s))
      BY <2>5, <3>1
    <3> QED
      BY <1>2, <2>6, <3>2
  <2>8. V(c) > 0 /\ c + V(c) \in C
    BY <1>2, <1>9, <2>7 DEF Cuts
  <2>9. ~f[c + V(c)]
    BY <1>7, <2>5, <2>6, <2>8
  <2>10. Len(s) + 1 - (c + V(c)) \in T
    BY <2>2, <2>8, <2>9
  <2>11. V(c) \in Nat
    BY <1>3, <2>6
  <2> HIDE DEF V, T
  <2> QED
    BY <1>2, <2>4, <2>5, <2>7, <2>8, <2>10, <2>11
<1> QED
  BY <1>1, <1>8, <1>9

\* A character is its bytes, wherever they stand.
LEMMA SameCharacter ==
  ASSUME NEW s, NEW i \in Nat, NEW t, NEW j \in Nat,
         ValidateCz(s, i) > 0,
         \A k \in 0 .. ValidateCz(s, i) - 1 : At(t, j + k) = At(s, i + k)
  PROVE  ValidateCz(t, j) = ValidateCz(s, i)
<1> DEFINE n == ValidateCz(s, i)
<1>1. n = Announced(At(s, i)) /\ n \in 1 .. 4
  BY DEF ValidateCz, Announced
<1>2. At(t, j) = At(s, i)
  <2>1. 0 \in 0 .. n - 1 /\ i + 0 = i /\ j + 0 = j
    BY <1>1
  <2> HIDE DEF n
  <2>2. \A k \in 0 .. n - 1 : At(t, j + k) = At(s, i + k)
    BY DEF n
  <2>3. At(t, j + 0) = At(s, i + 0)
    BY <2>1, <2>2
  <2> QED
    BY <2>1, <2>3
<1>3. /\ n >= 2 => At(t, j + 1) = At(s, i + 1)
      /\ n >= 3 => At(t, j + 2) = At(s, i + 2)
      /\ n >= 4 => At(t, j + 3) = At(s, i + 3)
  <2>1. /\ n >= 2 => 1 \in 0 .. n - 1
        /\ n >= 3 => 2 \in 0 .. n - 1
        /\ n >= 4 => 3 \in 0 .. n - 1
    BY <1>1
  <2> HIDE DEF n
  <2>2. \A k \in 0 .. n - 1 : At(t, j + k) = At(s, i + k)
    BY DEF n
  <2> QED
    BY <2>1, <2>2
<1>6. /\ n >= 2 => IsTrail(At(s, i + 1)) /\ At(s, i + 1) \in SecondByte(At(s, i))
      /\ n >= 3 => IsTrail(At(s, i + 2))
      /\ n = 4  => IsTrail(At(s, i + 3))
  BY <1>1 DEF ValidateCz
<1>7. ValidateCz(t, j) = Announced(At(t, j))
  <2> HIDE DEF n
  <2>1. Announced(At(t, j)) = n
    BY <1>1, <1>2
  <2>2. /\ n >= 2 => IsTrail(At(t, j + 1)) /\ At(t, j + 1) \in SecondByte(At(t, j))
        /\ n >= 3 => IsTrail(At(t, j + 2))
        /\ n = 4  => IsTrail(At(t, j + 3))
    BY <1>1, <1>2, <1>3, <1>6
  <2> QED
    BY <2>1, <2>2 DEF ValidateCz
<1> QED
  BY <1>1, <1>2, <1>7

LEMMA AtConcat ==
  ASSUME NEW s \in Seq(Byte), NEW t \in Seq(Byte), NEW i \in Nat, i > 0
  PROVE  /\ s \o t \in Seq(Byte) /\ Len(s \o t) = Len(s) + Len(t)
         /\ i <= Len(s) => At(s \o t, i) = At(s, i)
         /\ At(s \o t, Len(s) + i) = At(t, i)
<1>1. Len(s) \in Nat /\ Len(t) \in Nat
  BY LenProperties
<1>2. /\ s \o t \in Seq(Byte) /\ Len(s \o t) = Len(s) + Len(t)
      /\ \A k \in 1 .. Len(s) + Len(t) :
           (s \o t)[k] = IF k <= Len(s) THEN s[k] ELSE t[k - Len(s)]
  BY ConcatProperties
<1> DEFINE r == s \o t
<1> HIDE DEF r
<1>3. ASSUME i <= Len(s)
      PROVE  At(r, i) = At(s, i)
  <2>1. i \in 1 .. Len(s) + Len(t) /\ i <= Len(s) + Len(t)
    BY <1>1, <1>3
  <2> QED
    BY <1>2, <1>3, <2>1 DEF At, r
<1>4. At(r, Len(s) + i) = At(t, i)
  <2>1. CASE i <= Len(t)
    <3>1. /\ Len(s) + i \in 1 .. Len(s) + Len(t) /\ ~(Len(s) + i <= Len(s))
          /\ Len(s) + i - Len(s) = i /\ Len(s) + i <= Len(s) + Len(t)
      BY <1>1, <2>1
    <3>2. r[Len(s) + i] = t[i]
      BY <1>2, <3>1 DEF r
    <3> QED
      BY <1>2, <2>1, <3>1, <3>2 DEF At, r
  <2>2. CASE ~(i <= Len(t))
    <3>1. ~(Len(s) + i <= Len(s) + Len(t))
      BY <1>1, <2>2
    <3> QED
      BY <1>2, <2>2, <3>1 DEF At, r
  <2> QED
    BY <2>1, <2>2
<1> QED
  BY <1>2, <1>3, <1>4 DEF r

\* A C string that is valid UTF-8.
NoZero(s) == \A i \in 1 .. Len(s) : s[i] # 0

Sound(s) == s \in Seq(Byte) /\ NoZero(s) /\ \E C : Cuts(s, C)

\* Strings of characters may be joined.
LEMMA CutsConcat ==
  ASSUME NEW s \in Seq(Byte), NEW t \in Seq(Byte), NEW C, Cuts(s, C), NEW D, Cuts(t, D)
  PROVE  \E E : Cuts(s \o t, E)
<1> DEFINE r == s \o t
           E == { c \in C : c <= Len(s) } \cup { d + Len(s) : d \in D }
<1>1. Len(s) \in Nat /\ Len(t) \in Nat /\ Len(r) = Len(s) + Len(t)
  BY LenProperties, ConcatProperties
<1>2. C \subseteq 1 .. Len(s) + 1 /\ 1 \in C /\ D \subseteq 1 .. Len(t) + 1 /\ 1 \in D
  BY DEF Cuts
<1>3. E \subseteq 1 .. Len(r) + 1
  <2> HIDE DEF r
  <2>1. \A c \in C : c <= Len(s) => c \in 1 .. Len(r) + 1
    BY <1>1, <1>2
  <2>2. \A d \in D : d + Len(s) \in 1 .. Len(r) + 1
    BY <1>1, <1>2
  <2> QED
    BY <2>1, <2>2
<1>4. 1 \in E
  <2>1. CASE Len(s) = 0
    <3>1. 1 + Len(s) = 1
      BY <2>1
    <3> QED
      BY <1>2, <3>1
  <2>2. CASE Len(s) # 0
    BY <1>1, <1>2, <2>2
  <2> QED
    BY <2>1, <2>2
<1>5. ASSUME NEW c \in C, c <= Len(s)
      PROVE  ValidateCz(r, c) > 0 /\ c + ValidateCz(r, c) \in E
  <2>1. c \in 1 .. Len(s) /\ c # Len(s) + 1
    BY <1>1, <1>2, <1>5
  <2>2. ValidateCz(s, c) > 0 /\ c + ValidateCz(s, c) \in C
    BY <2>1 DEF Cuts
  <2> DEFINE n == ValidateCz(s, c)
  <2>3. n \in 1 .. 4 /\ c + n - 1 <= Len(s)
    BY <2>1, <2>2, CharacterWithin
  <2> HIDE DEF n
  <2>4. \A k \in 0 .. n - 1 : At(r, c + k) = At(s, c + k)
    <3>1. \A k \in 0 .. n - 1 : c + k \in Nat /\ c + k > 0 /\ c + k <= Len(s)
      BY <1>1, <2>1, <2>3
    <3> QED
      BY <3>1, AtConcat
  <2>5. ValidateCz(r, c) = n
    <3>1. c \in Nat
      BY <2>1
    <3> HIDE DEF r
    <3> QED
      BY <2>2, <2>4, <3>1, SameCharacter DEF n
  <2>6. c + n \in E
    <3>1. CASE c + n <= Len(s)
      BY <2>2, <3>1 DEF n
    <3>2. CASE ~(c + n <= Len(s))
      <4>1. c + n = 1 + Len(s)
        BY <1>1, <2>1, <2>3, <3>2
      <4> QED
        BY <1>2, <4>1
    <3> QED
      BY <3>1, <3>2
  <2> QED
    BY <2>3, <2>5, <2>6
<1>6. ASSUME NEW d \in D, d # Len(t) + 1
      PROVE  ValidateCz(r, d + Len(s)) > 0 /\ d + Len(s) + ValidateCz(r, d + Len(s)) \in E
  <2>1. d \in 1 .. Len(t)
    BY <1>1, <1>2, <1>6
  <2>2. ValidateCz(t, d) > 0 /\ d + ValidateCz(t, d) \in D
    BY <1>6 DEF Cuts
  <2> DEFINE n == ValidateCz(t, d)
  <2>3. n \in 1 .. 4
    BY <2>1, <2>2, CharacterWithin
  <2> HIDE DEF n
  <2>4. \A k \in 0 .. n - 1 : At(r, (d + Len(s)) + k) = At(t, d + k)
    <3> SUFFICES ASSUME NEW k \in 0 .. n - 1
                 PROVE  At(r, (d + Len(s)) + k) = At(t, d + k)
      OBVIOUS
    <3>1. d + k \in Nat /\ d + k > 0 /\ (d + Len(s)) + k = Len(s) + (d + k)
      BY <1>1, <2>1, <2>3
    <3> QED
      BY <3>1, AtConcat
  <2>5. ValidateCz(r, d + Len(s)) = n
    <3>1. d \in Nat /\ d + Len(s) \in Nat
      BY <1>1, <2>1
    <3> HIDE DEF r
    <3> QED
      BY <2>2, <2>4, <3>1, SameCharacter DEF n
  <2>6. d + Len(s) + n \in E
    <3>1. d + Len(s) + n = (d + n) + Len(s)
      BY <1>1, <2>1, <2>3
    <3> QED
      BY <2>2, <3>1 DEF n
  <2> QED
    BY <2>3, <2>5, <2>6
<1>7. \A e \in E : e = Len(r) + 1 \/ (ValidateCz(r, e) > 0 /\ e + ValidateCz(r, e) \in E)
  <2> SUFFICES ASSUME NEW e \in E, e # Len(r) + 1
               PROVE  ValidateCz(r, e) > 0 /\ e + ValidateCz(r, e) \in E
    OBVIOUS
  <2>1. CASE \E c \in C : c <= Len(s) /\ e = c
    BY <1>5, <2>1
  <2>2. ASSUME NEW d \in D, e = d + Len(s)
        PROVE  ValidateCz(r, e) > 0 /\ e + ValidateCz(r, e) \in E
    <3>1. d # Len(t) + 1
      BY <1>1, <1>2, <2>2
    <3> HIDE DEF E, r
    <3> QED
      BY <1>6, <2>2, <3>1
  <2> HIDE DEF r
  <2> QED
    BY <2>1, <2>2
<1>8. Cuts(r, E)
  <2> HIDE DEF r, E
  <2> QED
    BY <1>3, <1>4, <1>7 DEF Cuts
<1> QED
  BY <1>8

LEMMA SoundConcat ==
  ASSUME NEW s, Sound(s), NEW t, Sound(t)
  PROVE  Sound(s \o t)
<1>1. s \in Seq(Byte) /\ t \in Seq(Byte) /\ NoZero(s) /\ NoZero(t)
  BY DEF Sound
<1>2. \E E : Cuts(s \o t, E)
  BY <1>1, CutsConcat DEF Sound
<1>3. /\ s \o t \in Seq(Byte) /\ Len(s \o t) = Len(s) + Len(t) /\ Len(s) \in Nat /\ Len(t) \in Nat
      /\ \A k \in 1 .. Len(s) + Len(t) :
           (s \o t)[k] = IF k <= Len(s) THEN s[k] ELSE t[k - Len(s)]
  BY <1>1, ConcatProperties, LenProperties
<1>4. NoZero(s \o t)
  <2> SUFFICES ASSUME NEW k \in 1 .. Len(s) + Len(t)
               PROVE  (s \o t)[k] # 0
    BY <1>3 DEF NoZero
  <2>1. CASE k <= Len(s)
    <3>1. k \in 1 .. Len(s) /\ (s \o t)[k] = s[k]
      BY <1>3, <2>1
    <3> QED
      BY <1>1, <3>1 DEF NoZero
  <2>2. CASE ~(k <= Len(s))
    <3>1. k - Len(s) \in 1 .. Len(t) /\ (s \o t)[k] = t[k - Len(s)]
      BY <1>3, <2>2
    <3> QED
      BY <1>1, <3>1 DEF NoZero
  <2> QED
    BY <2>1, <2>2
<1> QED
  BY <1>2, <1>3, <1>4 DEF Sound

\* ASCII is sound, and so is what utf8_write_char writes, but for 0.
LEMMA AsciiSound ==
  ASSUME NEW s \in Seq(Byte), \A i \in 1 .. Len(s) : 1 <= s[i] /\ s[i] <= 127
  PROVE  Sound(s)
<1>1. Len(s) \in Nat
  BY LenProperties
<1>2. ASSUME NEW i \in 1 .. Len(s)
      PROVE  ValidateCz(s, i) = 1 /\ s[i] # 0
  <2>1. At(s, i) = s[i] /\ s[i] \in Nat /\ 1 <= s[i] /\ s[i] <= 127
    BY <1>1, ByteBounds DEF At
  <2> QED
    BY <2>1, SMT DEF ValidateCz, Announced
<1>3. Cuts(s, 1 .. Len(s) + 1)
  <2> SUFFICES ASSUME NEW c \in 1 .. Len(s) + 1, c # Len(s) + 1
               PROVE  ValidateCz(s, c) > 0 /\ c + ValidateCz(s, c) \in 1 .. Len(s) + 1
    BY <1>1 DEF Cuts
  <2>1. c \in 1 .. Len(s)
    BY <1>1
  <2> QED
    BY <1>1, <1>2, <2>1
<1> QED
  BY <1>2, <1>3 DEF Sound, NoZero

LEMMA ScalarSound ==
  ASSUME NEW u, IsScalar(u), u # 0
  PROVE  Sound(WriteChar(u)) /\ Len(WriteChar(u)) \in 1 .. 4
<1>1. u \in Nat /\ u <= 1114111 /\ ~IsSurrogate(u) /\ u <= 2097151
  BY SMT DEF IsScalar
<1> DEFINE t == WriteChar(u)
<1>2. t \in Seq(Byte) /\ Len(t) \in 1 .. 4
  BY <1>1, BytesWritten
<1>3. ValidateCz(t, 1) = Len(t)
  BY <1>1, WrittenIsRead
<1>4. NoZero(t)
  BY <1>1, SMT DEF NoZero, WriteChar, Trail
<1> HIDE DEF t
<1>5. Cuts(t, {1, Len(t) + 1})
  BY <1>2, <1>3 DEF Cuts
<1> QED
  BY <1>2, <1>4, <1>5 DEF Sound, t

-----------------------------------------------------------------------------
(* What a character is written as, and what it is read as.                 *)

\* The character at s[i], copied.
LEMMA CharacterSound ==
  ASSUME NEW s \in Seq(Byte), NoZero(s), NEW i \in 1 .. Len(s), ValidateCz(s, i) > 0
  PROVE  LET u == ReadChar(s, i)
             t == SubSeq(s, i, i + ValidateCz(s, i) - 1)
         IN  /\ IsScalar(u) /\ u # 0
             /\ WriteChar(u) = t /\ t \in Seq(Byte) /\ Len(t) = ValidateCz(s, i)
             /\ \A k \in 1 .. ValidateCz(s, i) : t[k] = s[i + k - 1]
             /\ Sound(t)
<1> DEFINE u == ReadChar(s, i)   n == ValidateCz(s, i)   t == SubSeq(s, i, i + n - 1)
<1>1. i \in Nat /\ i > 0 /\ i <= Len(s) /\ Len(s) \in Nat
  BY LenProperties
<1>2. IsScalar(u) /\ WriteChar(u) = t
  BY <1>1, DecoderExact
<1>3. n \in 1 .. 4 /\ i + n - 1 <= Len(s)
  BY CharacterWithin
<1> HIDE DEF n, u
<1>4. t \in Seq(Byte) /\ Len(t) = n /\ \A k \in 1 .. n : t[k] = s[i + k - 1]
  <2>1. i \in Int /\ i + n - 1 \in Int /\ i <= i + n - 1 /\ i + n - 1 - i + 1 = n
    BY <1>1, <1>3
  <2>2. \A k \in i .. i + n - 1 : s[k] \in Byte
    BY <1>1, <1>3
  <2> DEFINE j == i + n - 1
  <2> HIDE DEF j
  <2>3. j \in Int /\ i <= j /\ j - i + 1 = n
    <3>1. j = i + n - 1
      BY DEF j
    <3> QED
      BY <1>1, <1>3, <3>1
  <2>5. \A k \in i .. j : s[k] \in Byte
    BY <2>2 DEF j
  <2>4. /\ SubSeq(s, i, j) \in Seq(Byte)
        /\ Len(SubSeq(s, i, j)) = n
        /\ \A k \in 1 .. n : SubSeq(s, i, j)[k] = s[i + k - 1]
    BY <2>1, <2>3, <2>5, SubSeqProperties
  <2> QED
    BY <2>4 DEF j
<1>5. u # 0
  <2> SUFFICES ASSUME u = 0
               PROVE  FALSE
    OBVIOUS
  <2>1. WriteChar(u)[1] = 0
    BY SMT DEF WriteChar
  <2>2. t[1] = s[i]
    <3>1. 1 \in 1 .. n /\ i + 1 - 1 = i
      BY <1>1, <1>3
    <3> HIDE DEF t
    <3> QED
      BY <1>4, <3>1
  <2>3. s[i] # 0
    BY DEF NoZero
  <2> QED
    BY <1>2, <2>1, <2>2, <2>3
<1>6. Sound(t)
  BY <1>2, <1>5, ScalarSound
<1> QED
  BY <1>2, <1>4, <1>5, <1>6 DEF n, u

\* Each letter stands for one byte, each byte for one letter.
LEMMA LettersExact ==
  ASSUME NEW l \in Letters
  PROVE  /\ l[1] \in 1 .. 127 /\ l[2] \in 1 .. 127
         /\ l[1] # LowerU /\ l[1] # 47 /\ l[2] # 31 /\ l = << l[1], l[2] >>
         /\ \A m \in Letters : (m[1] = l[1] => m = l) /\ (m[2] = l[2] => m = l)
BY SMT DEF Letters, LowerU

\* Hexadecimal digits are those of the number.
HexOf(d) == IF d < 10 THEN 48 + d ELSE 55 + d

HexAt(t, j, n) == /\ At(t, j) = HexOf(n \div 4096) /\ At(t, j + 1) = HexOf((n \div 256) % 16)
                  /\ At(t, j + 2) = HexOf((n \div 16) % 16) /\ At(t, j + 3) = HexOf(n % 16)

LEMMA HexBack ==
  ASSUME NEW n \in Nat, n <= 65535
  PROVE  /\ UnicodeEscape(n) = << Backslash, LowerU, HexOf(n \div 4096), HexOf((n \div 256) % 16),
                                  HexOf((n \div 16) % 16), HexOf(n % 16) >>
         /\ \A t : \A j \in Nat : HexAt(t, j, n) => Hex16(t, j) = n
         /\ Sound(UnicodeEscape(n))
<1> DEFINE a == n \div 4096   b == (n \div 256) % 16   c == (n \div 16) % 16   d == n % 16
<1>1. a \in 0 .. 15 /\ b \in 0 .. 15 /\ c \in 0 .. 15 /\ d \in 0 .. 15
  BY SMT
<1>2. a * 4096 + b * 256 + c * 16 + d = n
  <2>1. n \div 16 = 16 * (n \div 256) + c
    BY SMT
  <2>2. n = 16 * (n \div 16) + d
    BY SMT
  <2>3. n \div 256 = 16 * a + b
    BY SMT
  <2> DEFINE x == n \div 16   y == n \div 256
  <2>4. x \in Nat /\ y \in Nat
    BY SMT
  <2> HIDE DEF a, b, c, d, x, y
  <2>5. x = 16 * y + c /\ n = 16 * x + d /\ y = 16 * a + b
    BY <2>1, <2>2, <2>3 DEF x, y
  <2> QED
    BY <1>1, <2>4, <2>5
<1>3. \A e \in 0 .. 15 : HexDigit(HexOf(e)) = e /\ HexOf(e) \in 48 .. 70
  BY SMT DEF HexDigit, HexOf
<1>4. UnicodeEscape(n) = << Backslash, LowerU, HexOf(a), HexOf(b), HexOf(c), HexOf(d) >>
  BY DEF UnicodeEscape, HexOf
<1> HIDE DEF a, b, c, d
<1>5. ASSUME NEW t, NEW j \in Nat,
             At(t, j) = HexOf(a), At(t, j + 1) = HexOf(b),
             At(t, j + 2) = HexOf(c), At(t, j + 3) = HexOf(d)
      PROVE  Hex16(t, j) = n
  <2> DEFINE h == [k \in 0 .. 3 |-> HexDigit(At(t, j + k))]
  <2>1. Hex16(t, j) = IF \E k \in 0 .. 3 : h[k] = -1 THEN -1
                      ELSE h[0] * 4096 + h[1] * 256 + h[2] * 16 + h[3]
    BY DEF Hex16
  <2>2. h[0] = a /\ h[1] = b /\ h[2] = c /\ h[3] = d
    <3>1. j + 0 = j
      OBVIOUS
    <3>2. 0 \in 0 .. 3 /\ 1 \in 0 .. 3 /\ 2 \in 0 .. 3 /\ 3 \in 0 .. 3
      OBVIOUS
    <3>3. /\ h[0] = HexDigit(At(t, j + 0)) /\ h[1] = HexDigit(At(t, j + 1))
          /\ h[2] = HexDigit(At(t, j + 2)) /\ h[3] = HexDigit(At(t, j + 3))
      BY <3>2
    <3> HIDE DEF h
    <3> QED
      BY <1>1, <1>3, <1>5, <3>1, <3>3
  <2> HIDE DEF h
  <2>3. ~\E k \in 0 .. 3 : h[k] = -1
    <3>1. \A k \in 0 .. 3 : k = 0 \/ k = 1 \/ k = 2 \/ k = 3
      OBVIOUS
    <3>2. a # -1 /\ b # -1 /\ c # -1 /\ d # -1
      BY <1>1
    <3> QED
      BY <2>2, <3>1, <3>2
  <2>4. Hex16(t, j) = a * 4096 + b * 256 + c * 16 + d
    BY <2>1, <2>2, <2>3
  <2> QED
    BY <1>2, <2>4
<1>6. Sound(UnicodeEscape(n))
  <2> DEFINE p == HexOf(a)   q == HexOf(b)   r == HexOf(c)   v == HexOf(d)
  <2>1. p \in 48 .. 70 /\ q \in 48 .. 70 /\ r \in 48 .. 70 /\ v \in 48 .. 70
    BY <1>1, <1>3
  <2> HIDE DEF p, q, r, v
  <2> DEFINE e == << Backslash, LowerU, p, q, r, v >>
  <2>2. Len(e) = 6 /\ e[1] = 92 /\ e[2] = 117 /\ e[3] = p /\ e[4] = q /\ e[5] = r /\ e[6] = v
    BY DEF Backslash, LowerU
  <2>3. UnicodeEscape(n) = e
    BY <1>4 DEF p, q, r, v
  <2> HIDE DEF e
  <2>4. e \in Seq(Byte)
    BY <2>3, EscapeWritten
  <2>5. \A i \in 1 .. 6 : 1 <= e[i] /\ e[i] <= 127
    BY <2>1, <2>2
  <2> QED
    BY <2>2, <2>3, <2>4, <2>5, AsciiSound
<1> QED
  BY <1>4, <1>5, <1>6 DEF a, b, c, d, HexAt

\* The four ways emit_string has of writing a character.
LEMMA EncodeForms ==
  ASSUME NEW s \in Seq(Byte), NoZero(s), NEW i \in 1 .. Len(s), ValidateCz(s, i) > 0
  PROVE  LET c == At(s, i)
             u == ReadChar(s, i)
             b == Encode(s, i).bytes
         IN  /\ Encode(s, i).next = i + ValidateCz(s, i)
             /\ c \in 1 .. 255 /\ c = s[i]
             /\ \/ \E l \in Letters : /\ l[2] = c /\ b = << Backslash, l[1] >>
                \/ /\ c # Quote /\ c # Backslash /\ c >= 31
                   /\ b = SubSeq(s, i, i + ValidateCz(s, i) - 1)
                \/ c # 31 /\ u <= 65535 /\ b = UnicodeEscape(u)
                \/ /\ c # 31 /\ u > 65535
                   /\ b = UnicodeEscape(ToSurrogatePair(u)[1]) \o UnicodeEscape(ToSurrogatePair(u)[2])
<1> DEFINE c == At(s, i)   u == ReadChar(s, i)   n == ValidateCz(s, i)
           letter == CHOOSE l \in Letters : l[2] = c
           copy == SubSeq(s, i, i + n - 1)
           pair == UnicodeEscape(ToSurrogatePair(u)[1]) \o UnicodeEscape(ToSurrogatePair(u)[2])
           bytes ==
             IF \E l \in Letters : l[2] = c THEN << Backslash, letter[1] >>
             ELSE IF ~(c < 31 \/ (c >= 128 /\ EscapeUnicode)) THEN copy
             ELSE IF u <= 65535 THEN UnicodeEscape(u)
             ELSE pair
<1>1. Encode(s, i) = [next |-> i + n, bytes |-> bytes]
  BY DEF Encode
<1>2. c = s[i] /\ c \in 1 .. 255
  <2>1. c = s[i] /\ c # 0
    BY DEF At, NoZero
  <2>2. c \in Byte
    BY <2>1
  <2> QED
    BY <2>1, <2>2 DEF Byte
<1>3. u \in Nat
  BY CodePointRead
<1>4. (\E l \in Letters : l[2] = c) => letter \in Letters /\ letter[2] = c
  OBVIOUS
<1>5. << 34, 34 >> \in Letters /\ << 92, 92 >> \in Letters
  BY DEF Letters
<1> HIDE DEF u, n, letter, copy, pair, c
<1>6. ~(\E l \in Letters : l[2] = c) => c # 34 /\ c # 92
  BY <1>5
<1>7. \/ \E l \in Letters : l[2] = c /\ bytes = << Backslash, l[1] >>
      \/ c # 34 /\ c # 92 /\ c >= 31 /\ bytes = copy
      \/ c # 31 /\ u <= 65535 /\ bytes = UnicodeEscape(u)
      \/ c # 31 /\ u > 65535 /\ bytes = pair
  <2>1. CASE \E l \in Letters : l[2] = c
    BY <1>4, <2>1
  <2>2. CASE ~(\E l \in Letters : l[2] = c)
    <3>1. bytes = IF ~(c < 31 \/ (c >= 128 /\ EscapeUnicode)) THEN copy
                  ELSE IF u <= 65535 THEN UnicodeEscape(u)
                  ELSE pair
      BY <2>2
    <3> HIDE DEF bytes
    <3>2. CASE ~(c < 31 \/ (c >= 128 /\ EscapeUnicode))
      BY <1>2, <1>6, <2>2, <3>1, <3>2
    <3>3. CASE c < 31 \/ (c >= 128 /\ EscapeUnicode)
      <4>1. c # 31
        BY <1>2, <3>3
      <4> QED
        BY <1>3, <3>1, <3>3, <4>1
    <3> QED
      BY <3>2, <3>3
  <2> QED
    BY <2>1, <2>2
<1> HIDE DEF bytes
<1>8. Encode(s, i).next = i + n /\ Encode(s, i).bytes = bytes
  BY <1>1
<1> QED
  BY <1>2, <1>7, <1>8 DEF u, n, copy, pair, c, Quote, Backslash

\* The two halves of a pair.
LEMMA PairWritten ==
  ASSUME NEW u, IsScalar(u), u > 65535
  PROVE  LET p == ToSurrogatePair(u)
         IN  /\ p[1] \in Nat /\ p[1] <= 65535 /\ p[2] \in Nat /\ p[2] <= 65535
             /\ IsSurrogate(p[1]) /\ p[1] # 0 /\ p[1] # -1
             /\ IsPair(p[1], p[2]) /\ FromSurrogatePair(p[1], p[2]) = u
<1>1. u \in Nat /\ 65536 <= u /\ u <= 1114111
  BY SMT DEF IsScalar
<1>2. LET p == ToSurrogatePair(u)
      IN  IsPair(p[1], p[2]) /\ FromSurrogatePair(p[1], p[2]) = u
  BY <1>1, PairsExact
<1>3. LET p == ToSurrogatePair(u)
      IN  p[1] \in Nat /\ p[2] \in Nat
  BY <1>1, SMT DEF ToSurrogatePair
<1> QED
  BY <1>2, <1>3, SMT DEF IsPair, IsSurrogate

\* Whatever emit_string writes for a character is valid UTF-8 in its turn.
LEMMA EncodeSound ==
  ASSUME NEW s \in Seq(Byte), NoZero(s), NEW i \in 1 .. Len(s), ValidateCz(s, i) > 0
  PROVE  Sound(Encode(s, i).bytes) /\ Len(Encode(s, i).bytes) >= 1
<1> DEFINE c == At(s, i)   u == ReadChar(s, i)   b == Encode(s, i).bytes
           p == ToSurrogatePair(u)
<1>1. IsScalar(u) /\ Sound(SubSeq(s, i, i + ValidateCz(s, i) - 1))
      /\ Len(SubSeq(s, i, i + ValidateCz(s, i) - 1)) = ValidateCz(s, i)
  BY CharacterSound
<1>2. \/ \E l \in Letters : l[2] = c /\ b = << Backslash, l[1] >>
      \/ b = SubSeq(s, i, i + ValidateCz(s, i) - 1)
      \/ u <= 65535 /\ b = UnicodeEscape(u)
      \/ u > 65535 /\ b = UnicodeEscape(p[1]) \o UnicodeEscape(p[2])
  BY EncodeForms
<1>3. \A l \in Letters : l[1] \in 1 .. 127
  BY LettersExact
<1> HIDE DEF b, c, u
<1>4. ASSUME NEW l \in Letters, b = << Backslash, l[1] >>
      PROVE  Sound(b) /\ Len(b) >= 1
  <2> DEFINE x == l[1]
  <2>5. x \in 1 .. 127
    BY <1>3
  <2> HIDE DEF x
  <2>1. x \in 1 .. 127 /\ x \in Byte
    BY <2>5, SMT DEF Byte
  <2>2. b = << 92, x >> /\ 92 \in Byte
    BY <1>4, ByteBounds DEF Backslash, x
  <2>3. b \in Seq(Byte) /\ Len(b) = 2 /\ b[1] = 92 /\ b[2] = x
    BY <2>1, <2>2
  <2>4. \A k \in 1 .. 2 : 1 <= b[k] /\ b[k] <= 127
    BY <2>1, <2>3
  <2> QED
    BY <2>3, <2>4, AsciiSound
<1>5. ASSUME b = SubSeq(s, i, i + ValidateCz(s, i) - 1)
      PROVE  Sound(b) /\ Len(b) >= 1
  BY <1>1, <1>5, CharacterWithin
<1>6. ASSUME u <= 65535, b = UnicodeEscape(u)
      PROVE  Sound(b) /\ Len(b) >= 1
  <2>1. u \in Nat
    BY <1>1 DEF IsScalar
  <2>2. Len(UnicodeEscape(u)) = 6 /\ Sound(UnicodeEscape(u))
    BY <1>6, <2>1, HexBack, EscapeWritten
  <2> QED
    BY <1>6, <2>2
<1>7. ASSUME u > 65535, b = UnicodeEscape(p[1]) \o UnicodeEscape(p[2])
      PROVE  Sound(b) /\ Len(b) >= 1
  <2>1. p[1] \in Nat /\ p[1] <= 65535 /\ p[2] \in Nat /\ p[2] <= 65535
    BY <1>1, <1>7, PairWritten
  <2> HIDE DEF p
  <2> DEFINE x == UnicodeEscape(p[1])   y == UnicodeEscape(p[2])
  <2>2. Sound(x) /\ Sound(y) /\ Len(x) = 6 /\ Len(y) = 6 /\ x \in Seq(Byte) /\ y \in Seq(Byte)
    <3>1. \A n \in Nat : n <= 65535 => /\ Sound(UnicodeEscape(n)) /\ Len(UnicodeEscape(n)) = 6
                                      /\ UnicodeEscape(n) \in Seq(Byte)
      BY HexBack, EscapeWritten
    <3> QED
      BY <2>1, <3>1
  <2> HIDE DEF x, y
  <2>3. Sound(x \o y) /\ Len(x \o y) = Len(x) + Len(y)
    BY <2>2, SoundConcat, ConcatProperties, Zenon
  <2> QED
    BY <1>7, <2>2, <2>3 DEF x, y
<1> QED
  BY <1>2, <1>4, <1>5, <1>6, <1>7 DEF b

\* Whatever parse_string takes from a text is valid UTF-8 and holds no 0.
LEMMA DecodeSound ==
  ASSUME NEW s \in Seq(Byte), NEW i \in Nat, i > 0, Decode(s, i) # Bad
  PROVE  Sound(Decode(s, i).bytes)
<1> DEFINE n == ValidateCz(s, i)   copy == SubSeq(s, i, i + n - 1)
           c == At(s, i + 1)       uc == Hex16(s, i + 2)   lc == Hex16(s, i + 2 + 6)
           letter == CHOOSE l \in Letters : l[1] = c
<1>1. ASSUME NEW b \in 1 .. 127
      PROVE  Sound(<< b >>)
  <2>1. b \in Byte
    BY SMT DEF Byte
  <2>2. << b >> \in Seq(Byte) /\ Len(<< b >>) = 1 /\ << b >>[1] = b
    BY <2>1
  <2>3. \A k \in 1 .. 1 : 1 <= << b >>[k] /\ << b >>[k] <= 127
    BY <2>2
  <2> QED
    BY <2>2, <2>3, AsciiSound
<1>2. \/ At(s, i) = Backslash /\ Decode(s, i) = DecodeEscape(s, i + 1)
      \/ ~(At(s, i) <= 31) /\ n # 0 /\ Decode(s, i) = [next |-> i + n, bytes |-> copy]
  BY Zenon DEF Decode
<1>3. DecodeEscape(s, i + 1) # Bad =>
        \/ /\ DecodeUnicode(s, i + 1 + 1) # Bad
           /\ DecodeEscape(s, i + 1) = DecodeUnicode(s, i + 1 + 1)
        \/ c = 47 /\ DecodeEscape(s, i + 1) = [next |-> i + 1 + 1, bytes |-> << c >>]
        \/ /\ \E l \in Letters : l[1] = c
           /\ DecodeEscape(s, i + 1) = [next |-> i + 1 + 1, bytes |-> << letter[2] >>]
  BY Zenon DEF DecodeEscape
<1>4. CASE ~(At(s, i) <= 31) /\ n # 0 /\ Decode(s, i) = [next |-> i + n, bytes |-> copy]
  <2>1. At(s, i) # 0 /\ n > 0
    <3>1. n \in Nat
      BY CharacterLength
    <3> HIDE DEF n, copy
    <3> QED
      BY <1>4, <3>1
  <2>2. i \in 1 .. Len(s)
    BY <2>1, AtByte, LenProperties
  <2>3. IsScalar(ReadChar(s, i)) /\ WriteChar(ReadChar(s, i)) = copy
    BY <2>1, <2>2, DecoderExact
  <2>4. ReadChar(s, i) # 0
    <3>1. At(s, i) \in Nat /\ At(s, i) <= 255
      BY AtByte
    <3> DEFINE u == ReadChar(s, i)
    <3> SUFFICES ASSUME u = 0
                 PROVE  FALSE
      OBVIOUS
    <3>2. WriteChar(u)[1] = 0 /\ WriteChar(u) = << 0 >>
      BY SMT DEF WriteChar
    <3>3. copy = << 0 >> /\ Len(<< 0 >>) = 1
      BY <2>3, <3>2
    <3>4. i + n - 1 <= Len(s) /\ n \in 1 .. 4
      BY <2>1, <2>2, CharacterWithin
    <3> HIDE DEF n
    <3> DEFINE j == i + n - 1
    <3>5. i \in Int /\ j \in Int /\ i <= j /\ j <= Len(s) /\ j - i + 1 = n /\ 1 \in 1 .. n
      BY <3>4
    <3> HIDE DEF j
    <3>6. \A k \in i .. j : s[k] \in Byte
      BY <2>2, <3>5
    <3>7. \A k \in 1 .. n : SubSeq(s, i, j)[k] = s[i + k - 1]
      BY <3>5, <3>6, SubSeqProperties
    <3>8. SubSeq(s, i, j)[1] = s[i] /\ SubSeq(s, i, j) = << 0 >>
      <4>1. i + 1 - 1 = i
        OBVIOUS
      <4>2. SubSeq(s, i, j) = << 0 >>
        BY <3>3 DEF j
      <4> QED
        BY <3>5, <3>7, <4>1, <4>2
    <3>9. At(s, i) = s[i]
      BY <2>2 DEF At
    <3> QED
      BY <2>1, <3>8, <3>9
  <2>5. Decode(s, i).bytes = copy
    <3> HIDE DEF n, copy
    <3> QED
      BY <1>4
  <2> QED
    BY <2>3, <2>4, <2>5, ScalarSound
<1>5. CASE Decode(s, i) = DecodeEscape(s, i + 1)
  <2>1. i + 1 \in Nat /\ i + 1 > 0 /\ i + 1 + 1 = i + 2 /\ i + 2 \in Nat /\ i + 2 > 0
        /\ i + 2 + 6 \in Nat /\ i + 2 + 6 > 0
    OBVIOUS
  <2>2. ASSUME DecodeUnicode(s, i + 2) # Bad
        PROVE  Sound(DecodeUnicode(s, i + 2).bytes)
    <3> DEFINE single == [next |-> i + 2 + 4, bytes |-> WriteChar(uc)]
               double == [next |-> i + 2 + 10, bytes |-> WriteChar(FromSurrogatePair(uc, lc))]
    <3>1. \/ uc \notin {-1, 0} /\ ~IsSurrogate(uc) /\ DecodeUnicode(s, i + 2) = single
          \/ uc \notin {-1, 0} /\ IsPair(uc, lc) /\ DecodeUnicode(s, i + 2) = double
      BY <2>2, Zenon DEF DecodeUnicode
    <3>2. uc = -1 \/ (uc \in Nat /\ uc <= 65535)
      BY <2>1, HexRead
    <3>3. lc = -1 \/ (lc \in Nat /\ lc <= 65535)
      BY <2>1, HexRead
    <3> HIDE DEF uc, lc
    <3>4. CASE uc \notin {-1, 0} /\ ~IsSurrogate(uc) /\ DecodeUnicode(s, i + 2) = single
      <4>1. IsScalar(uc) /\ uc # 0
        BY <3>2, <3>4, SMT DEF IsScalar
      <4>2. DecodeUnicode(s, i + 2).bytes = WriteChar(uc)
        BY <3>4
      <4> QED
        BY <4>1, <4>2, ScalarSound
    <3>5. CASE uc \notin {-1, 0} /\ IsPair(uc, lc) /\ DecodeUnicode(s, i + 2) = double
      <4>1. uc \in Nat /\ lc \in Nat
        BY <3>2, <3>3, <3>5, SMT DEF IsPair
      <4>2. IsScalar(FromSurrogatePair(uc, lc))
        BY <3>5, <4>1, PairsExact, SMT
      <4>3. FromSurrogatePair(uc, lc) # 0
        BY <4>1, SMT DEF FromSurrogatePair
      <4>4. DecodeUnicode(s, i + 2).bytes = WriteChar(FromSurrogatePair(uc, lc))
        BY <3>5
      <4> QED
        BY <4>2, <4>3, <4>4, ScalarSound
    <3> QED
      BY <3>1, <3>4, <3>5
  <2>3. CASE c = 47 /\ DecodeEscape(s, i + 1) = [next |-> i + 1 + 1, bytes |-> << c >>]
    <3>1. c \in 1 .. 127 /\ Decode(s, i).bytes = << c >>
      BY <1>5, <2>3
    <3> QED
      BY <1>1, <3>1
  <2>4. CASE /\ \E l \in Letters : l[1] = c
             /\ DecodeEscape(s, i + 1) = [next |-> i + 1 + 1, bytes |-> << letter[2] >>]
    <3>1. letter \in Letters
      BY <2>4
    <3> HIDE DEF letter
    <3>2. letter[2] \in 1 .. 127 /\ Decode(s, i).bytes = << letter[2] >>
      BY <1>5, <2>4, <3>1, LettersExact
    <3> QED
      BY <1>1, <3>2
  <2> QED
    BY <1>3, <1>5, <2>1, <2>2, <2>3, <2>4
<1> QED
  BY <1>2, <1>4, <1>5

\* The bytes b stand in t from j on.
Stands(b, t, j) == \A k \in 1 .. Len(b) : At(t, j + k - 1) = b[k]

\* What emit_string writes for a character parse_string reads as that character,
\* all but 1F.
LEMMA EncodeDecode ==
  ASSUME NEW s \in Seq(Byte), NoZero(s), NEW i \in 1 .. Len(s), ValidateCz(s, i) > 0,
         NEW t \in Seq(Byte), NEW j \in Nat, j > 0,
         Stands(Encode(s, i).bytes, t, j)
  PROVE  /\ At(t, j) # Quote
         /\ s[i] # 31 => Decode(t, j) = [next  |-> j + Len(Encode(s, i).bytes),
                                         bytes |-> SubSeq(s, i, i + ValidateCz(s, i) - 1)]
         /\ s[i] = 31 => Decode(t, j) = Bad
<1> DEFINE c == At(s, i)   u == ReadChar(s, i)   b == Encode(s, i).bytes
           n == ValidateCz(s, i)   copy == SubSeq(s, i, i + n - 1)
           Goal == /\ At(t, j) # Quote
                   /\ c # 31 => Decode(t, j) = [next |-> j + Len(b), bytes |-> copy]
                   /\ c = 31 => Decode(t, j) = Bad
<1>1. /\ c \in 1 .. 255 /\ c = s[i]
      /\ \/ \E l \in Letters : l[2] = c /\ b = << Backslash, l[1] >>
         \/ c # Quote /\ c # Backslash /\ c >= 31 /\ b = copy
         \/ c # 31 /\ u <= 65535 /\ b = UnicodeEscape(u)
         \/ /\ c # 31 /\ u > 65535
            /\ b = UnicodeEscape(ToSurrogatePair(u)[1]) \o UnicodeEscape(ToSurrogatePair(u)[2])
  BY EncodeForms, SMTT(60)
<1>2. /\ IsScalar(u) /\ u # 0
      /\ WriteChar(u) = copy /\ copy \in Seq(Byte) /\ Len(copy) = n
      /\ \A k \in 1 .. n : copy[k] = s[i + k - 1]
  BY CharacterSound
<1>3. n \in 1 .. 4 /\ i + n - 1 <= Len(s) /\ n = ValidateCz(s, i)
  BY CharacterWithin
<1>4. i \in Nat /\ i > 0 /\ i <= Len(s) /\ Len(s) \in Nat
  BY LenProperties
<1>5. \A k \in 1 .. Len(b) : At(t, j + k - 1) = b[k]
  BY DEF Stands
<1> HIDE DEF b, u, n, copy
<1>6. ASSUME NEW l \in Letters, l[2] = c, b = << Backslash, l[1] >>
      PROVE  Goal
  <2>1. At(t, j) = Backslash /\ At(t, j + 1) = l[1] /\ Len(b) = 2
    <3>1. Len(b) = 2 /\ b[1] = Backslash /\ b[2] = l[1]
      BY <1>6
    <3>2. j + 1 - 1 = j /\ j + 2 - 1 = j + 1 /\ 1 \in 1 .. 2 /\ 2 \in 1 .. 2
      OBVIOUS
    <3> QED
      BY <1>5, <3>1, <3>2
  <2>2. l[1] # LowerU /\ l[1] # 47 /\ l[2] # 31 /\ l[2] \in 1 .. 127
        /\ \A m \in Letters : m[1] = l[1] => m = l
    BY LettersExact
  <2>3. (CHOOSE m \in Letters : m[1] = l[1]) = l
    BY <2>2
  <2>4. DecodeEscape(t, j + 1) = [next |-> j + 1 + 1, bytes |-> << l[2] >>]
    BY <2>1, <2>2, <2>3, Zenon DEF DecodeEscape
  <2>5. Decode(t, j) = [next |-> j + 1 + 1, bytes |-> << c >>]
    BY <1>6, <2>1, <2>4, Zenon DEF Decode
  <2>6. copy = << c >>
    <3>1. ValidateCz(s, i) = 1
      <4>1. At(s, i) \in 1 .. 127
        BY <1>6, <2>2
      <4>2. \A a \in 1 .. 127 : Announced(a) = 1
        BY DEF Announced
      <4>3. Announced(At(s, i)) = 1
        BY <4>1, <4>2
      <4>4. ~(1 >= 2) /\ ~(1 >= 3) /\ 1 # 4
        OBVIOUS
      <4> QED
        BY <4>3, <4>4, Zenon DEF ValidateCz
    <3>2. n = 1
      BY <3>1 DEF n
    <3>3. copy[1] = s[i]
      <4>1. 1 \in 1 .. n /\ i + 1 - 1 = i
        BY <1>4, <3>2
      <4> QED
        BY <1>2, <4>1
    <3>4. << c >> \in Seq(Byte) /\ Len(<< c >>) = 1 /\ << c >>[1] = c
      <4>1. c \in Byte
        BY <1>1, SMT DEF Byte
      <4> HIDE DEF c
      <4> QED
        BY <4>1
    <3>5. copy = << copy[1] >>
      BY <1>2, <3>2
    <3> QED
      BY <1>1, <3>3, <3>5
  <2>7. j + 1 + 1 = j + Len(b) /\ c # 31 /\ Backslash # Quote
    BY <1>6, <2>1, <2>2 DEF Backslash, Quote
  <2> QED
    BY <2>1, <2>5, <2>6, <2>7
<1>7. ASSUME c # Quote, c # Backslash, c >= 31, b = copy
      PROVE  Goal
  <2>1. \A k \in 0 .. n - 1 : At(t, j + k) = At(s, i + k)
    <3> SUFFICES ASSUME NEW k \in 0 .. n - 1
                 PROVE  At(t, j + k) = At(s, i + k)
      OBVIOUS
    <3>1. k + 1 \in 1 .. Len(b) /\ k + 1 \in 1 .. n
          /\ j + (k + 1) - 1 = j + k /\ i + (k + 1) - 1 = i + k /\ i + k <= Len(s)
      BY <1>2, <1>3, <1>4, <1>7
    <3>2. At(t, j + k) = b[k + 1] /\ b[k + 1] = s[i + k]
      BY <1>2, <1>5, <1>7, <3>1
    <3>3. At(s, i + k) = s[i + k]
      BY <3>1 DEF At
    <3> QED
      BY <3>2, <3>3
  <2>2. At(t, j) = c
    <3>1. 0 \in 0 .. n - 1 /\ j + 0 = j /\ i + 0 = i
      BY <1>3, <1>4
    <3>2. At(t, j + 0) = At(s, i + 0)
      BY <2>1, <3>1
    <3> QED
      BY <3>1, <3>2
  <2>3. ValidateCz(t, j) = n
    BY <1>3, <1>4, <2>1, SameCharacter
  <2>4. CASE c = 31
    <3>1. At(t, j) <= 31
      BY <2>2, <2>4
    <3>2. Decode(t, j) = Bad
      BY <1>7, <2>2, <3>1 DEF Decode
    <3> QED
      BY <1>7, <2>2, <2>4, <3>2
  <2>5. CASE c # 31
    <3>1. ~(At(t, j) <= 31) /\ At(t, j) # Backslash /\ n # 0 /\ At(t, j) # 0
      <4>1. c \in 1 .. 255
        BY <1>1
      <4> HIDE DEF c
      <4> QED
        BY <1>3, <1>7, <2>2, <2>5, <4>1
    <3>2. Decode(t, j) = [next |-> j + n, bytes |-> SubSeq(t, j, j + n - 1)]
      BY <2>3, <3>1, Zenon DEF Decode
    <3>3. j \in 1 .. Len(t) /\ ValidateCz(t, j) > 0
      BY <1>3, <2>3, <3>1, AtByte, LenProperties
    <3>4. j + n - 1 <= Len(t)
      BY <2>3, <3>3, CharacterWithin
    <3>5. \A k \in 1 .. n : copy[k] = t[j + k - 1]
      <4> SUFFICES ASSUME NEW k \in 1 .. n
                   PROVE  copy[k] = t[j + k - 1]
        OBVIOUS
      <4>1. k \in 1 .. Len(b) /\ j + k - 1 <= Len(t)
        BY <1>2, <1>3, <1>7, <3>3, <3>4
      <4>2. At(t, j + k - 1) = t[j + k - 1]
        BY <4>1 DEF At
      <4> QED
        BY <1>5, <1>7, <4>1, <4>2
    <3>6. SubSeq(t, j, j + n - 1) = copy
      <4>1. n \in Nat /\ n > 0
        BY <1>3
      <4> QED
        BY <1>2, <3>4, <3>5, <4>1, Piece, ZenonT(60)
    <3> QED
      BY <1>2, <1>7, <2>2, <2>5, <3>2, <3>6
  <2> QED
    BY <2>4, <2>5
<1>8. ASSUME c # 31, u <= 65535, b = UnicodeEscape(u)
      PROVE  Goal
  <2>1. u \in Nat /\ ~IsSurrogate(u) /\ u # 0 /\ u # -1
    BY <1>2, SMT DEF IsScalar
  <2>2. Len(b) = 6
    BY <1>8, <2>1, EscapeWritten
  <2>3. At(t, j) = Backslash /\ At(t, j + 1) = LowerU /\ Hex16(t, j + 2) = u
    <3>1. /\ b[1] = Backslash /\ b[2] = LowerU /\ b[3] = HexOf(u \div 4096)
          /\ b[4] = HexOf((u \div 256) % 16)
          /\ b[5] = HexOf((u \div 16) % 16) /\ b[6] = HexOf(u % 16)
      <4>1. b = << Backslash, LowerU, HexOf(u \div 4096), HexOf((u \div 256) % 16),
                   HexOf((u \div 16) % 16), HexOf(u % 16) >>
        BY <1>8, <2>1, HexBack
      <4> QED
        BY <4>1
    <3>2. /\ At(t, j + 1 - 1) = b[1] /\ At(t, j + 2 - 1) = b[2] /\ At(t, j + 3 - 1) = b[3]
          /\ At(t, j + 4 - 1) = b[4] /\ At(t, j + 5 - 1) = b[5] /\ At(t, j + 6 - 1) = b[6]
      BY <1>5, <2>2
    <3>3. /\ j + 1 - 1 = j /\ j + 2 - 1 = j + 1 /\ j + 3 - 1 = j + 2
          /\ j + 4 - 1 = j + 2 + 1 /\ j + 5 - 1 = j + 2 + 2 /\ j + 6 - 1 = j + 2 + 3
          /\ j + 2 \in Nat
      OBVIOUS
    <3>4. /\ At(t, j + 2) = HexOf(u \div 4096) /\ At(t, j + 2 + 1) = HexOf((u \div 256) % 16)
          /\ At(t, j + 2 + 2) = HexOf((u \div 16) % 16) /\ At(t, j + 2 + 3) = HexOf(u % 16)
      BY <3>1, <3>2, <3>3
    <3>5. Hex16(t, j + 2) = u
      <4>1. HexAt(t, j + 2, u)
        BY <3>4 DEF HexAt
      <4> QED
        BY <1>8, <2>1, <3>3, <4>1, HexBack
    <3> QED
      BY <3>1, <3>2, <3>3, <3>5
  <2>4. DecodeUnicode(t, j + 2) = [next |-> j + 2 + 4, bytes |-> copy]
    <3>1. u \notin {-1, 0}
      BY <2>1
    <3> QED
      BY <1>2, <2>1, <2>3, <3>1, Zenon DEF DecodeUnicode
  <2>5. Decode(t, j) = [next |-> j + 2 + 4, bytes |-> copy]
    <3>1. j + 1 + 1 = j + 2
      OBVIOUS
    <3>2. DecodeEscape(t, j + 1) = [next |-> j + 2 + 4, bytes |-> copy]
      BY <2>3, <2>4, <3>1, Zenon DEF DecodeEscape
    <3> QED
      BY <2>3, <3>2, Zenon DEF Decode
  <2>6. j + 2 + 4 = j + Len(b) /\ Backslash # Quote
    BY <2>2 DEF Backslash, Quote
  <2> QED
    BY <1>8, <2>3, <2>5, <2>6
<1>9. ASSUME c # 31, u > 65535,
             b = UnicodeEscape(ToSurrogatePair(u)[1]) \o UnicodeEscape(ToSurrogatePair(u)[2])
      PROVE  Goal
  <2> DEFINE h == ToSurrogatePair(u)[1]   l == ToSurrogatePair(u)[2]
             x == UnicodeEscape(h)        y == UnicodeEscape(l)
  <2>1. /\ h \in Nat /\ h <= 65535 /\ l \in Nat /\ l <= 65535
        /\ IsSurrogate(h) /\ h # 0 /\ h # -1
        /\ IsPair(h, l) /\ FromSurrogatePair(h, l) = u
    BY <1>2, <1>9, PairWritten
  <2> HIDE DEF h, l
  <2>2. x \in Seq(Byte) /\ Len(x) = 6 /\ y \in Seq(Byte) /\ Len(y) = 6
    BY <2>1, EscapeWritten
  <2>3. /\ x = << Backslash, LowerU, HexOf(h \div 4096), HexOf((h \div 256) % 16),
                  HexOf((h \div 16) % 16), HexOf(h % 16) >>
        /\ y = << Backslash, LowerU, HexOf(l \div 4096), HexOf((l \div 256) % 16),
                  HexOf((l \div 16) % 16), HexOf(l % 16) >>
    BY <2>1, HexBack
  <2>4. b = x \o y
    BY <1>9 DEF h, l
  <2> DEFINE h1 == HexOf(h \div 4096)   h2 == HexOf((h \div 256) % 16)
             h3 == HexOf((h \div 16) % 16)   h4 == HexOf(h % 16)
             l1 == HexOf(l \div 4096)   l2 == HexOf((l \div 256) % 16)
             l3 == HexOf((l \div 16) % 16)   l4 == HexOf(l % 16)
  <2>5. /\ x[1] = Backslash /\ x[2] = LowerU /\ x[3] = h1 /\ x[4] = h2 /\ x[5] = h3 /\ x[6] = h4
        /\ y[1] = Backslash /\ y[2] = LowerU /\ y[3] = l1 /\ y[4] = l2 /\ y[5] = l3 /\ y[6] = l4
    <3> HIDE DEF x, y, h1, h2, h3, h4, l1, l2, l3, l4
    <3>1. x = << Backslash, LowerU, h1, h2, h3, h4 >> /\ y = << Backslash, LowerU, l1, l2, l3, l4 >>
      BY <2>3 DEF h1, h2, h3, h4, l1, l2, l3, l4
    <3> QED
      BY <3>1
  <2> HIDE DEF x, y
  <2>6. /\ Len(b) = 12
        /\ b[1] = x[1] /\ b[2] = x[2] /\ b[3] = x[3] /\ b[4] = x[4] /\ b[5] = x[5] /\ b[6] = x[6]
        /\ b[7] = y[1] /\ b[8] = y[2] /\ b[9] = y[3] /\ b[10] = y[4] /\ b[11] = y[5] /\ b[12] = y[6]
    <3>1. /\ Len(x \o y) = Len(x) + Len(y)
          /\ \A k \in 1 .. Len(x) + Len(y) :
               (x \o y)[k] = IF k <= Len(x) THEN x[k] ELSE y[k - Len(x)]
      BY <2>2, ConcatProperties
    <3>2. Len(b) = 12 /\ \A k \in 1 .. 12 : b[k] = IF k <= 6 THEN x[k] ELSE y[k - 6]
      BY <2>2, <2>4, <3>1, SMTT(60)
    <3> QED
      BY <3>2
  <2>7. /\ At(t, j) = b[1] /\ At(t, j + 1) = b[2]
        /\ At(t, j + 2) = b[3] /\ At(t, j + 2 + 1) = b[4]
        /\ At(t, j + 2 + 2) = b[5] /\ At(t, j + 2 + 3) = b[6]
        /\ At(t, j + 2 + 4) = b[7] /\ At(t, j + 2 + 5) = b[8]
        /\ At(t, j + 2 + 6) = b[9] /\ At(t, j + 2 + 6 + 1) = b[10]
        /\ At(t, j + 2 + 6 + 2) = b[11] /\ At(t, j + 2 + 6 + 3) = b[12]
    <3>0. \A k \in 1 .. 12 : At(t, j + k - 1) = b[k]
      BY <1>5, <2>6
    <3>1. /\ At(t, j + 1 - 1) = b[1] /\ At(t, j + 2 - 1) = b[2] /\ At(t, j + 3 - 1) = b[3]
          /\ At(t, j + 4 - 1) = b[4] /\ At(t, j + 5 - 1) = b[5] /\ At(t, j + 6 - 1) = b[6]
      BY <3>0
    <3>3. /\ At(t, j + 7 - 1) = b[7] /\ At(t, j + 8 - 1) = b[8] /\ At(t, j + 9 - 1) = b[9]
          /\ At(t, j + 10 - 1) = b[10] /\ At(t, j + 11 - 1) = b[11] /\ At(t, j + 12 - 1) = b[12]
      BY <3>0
    <3>2. /\ j + 1 - 1 = j /\ j + 2 - 1 = j + 1 /\ j + 3 - 1 = j + 2
          /\ j + 4 - 1 = j + 2 + 1 /\ j + 5 - 1 = j + 2 + 2 /\ j + 6 - 1 = j + 2 + 3
          /\ j + 7 - 1 = j + 2 + 4 /\ j + 8 - 1 = j + 2 + 5 /\ j + 9 - 1 = j + 2 + 6
          /\ j + 10 - 1 = j + 2 + 6 + 1 /\ j + 11 - 1 = j + 2 + 6 + 2 /\ j + 12 - 1 = j + 2 + 6 + 3
      OBVIOUS
    <3> QED
      BY <3>1, <3>2, <3>3
  <2>8. Hex16(t, j + 2) = h /\ Hex16(t, j + 2 + 6) = l
    <3>1. j + 2 \in Nat /\ j + 2 + 6 \in Nat
      OBVIOUS
    <3>2. /\ At(t, j + 2) = h1 /\ At(t, j + 2 + 1) = h2
          /\ At(t, j + 2 + 2) = h3 /\ At(t, j + 2 + 3) = h4
          /\ At(t, j + 2 + 6) = l1 /\ At(t, j + 2 + 6 + 1) = l2
          /\ At(t, j + 2 + 6 + 2) = l3 /\ At(t, j + 2 + 6 + 3) = l4
      <4> HIDE DEF h1, h2, h3, h4, l1, l2, l3, l4
      <4> QED
        BY <2>5, <2>6, <2>7
    <3>3. HexAt(t, j + 2, h) /\ HexAt(t, j + 2 + 6, l)
      BY <3>2 DEF HexAt
    <3>4. Hex16(t, j + 2) = h /\ Hex16(t, j + 2 + 6) = l
      BY <2>1, <3>1, <3>3, HexBack
    <3> QED
      BY <3>4
  <2>9. /\ At(t, j) = Backslash /\ At(t, j + 1) = LowerU
        /\ At(t, j + 2 + 4) = Backslash /\ At(t, j + 2 + 5) = LowerU
    <3> HIDE DEF h1, h2, h3, h4, l1, l2, l3, l4
    <3> QED
      BY <2>5, <2>6, <2>7
  <2>10. DecodeUnicode(t, j + 2) = [next |-> j + 2 + 10, bytes |-> copy]
    <3>1. h \notin {-1, 0}
      BY <2>1
    <3> DEFINE p == Hex16(t, j + 2)   q == Hex16(t, j + 2 + 6)
    <3>2. p \notin {-1, 0} /\ IsSurrogate(p) /\ IsPair(p, q) /\ FromSurrogatePair(p, q) = u
      BY <2>1, <2>8, <3>1
    <3>3. DecodeUnicode(t, j + 2) = [next |-> j + 2 + 10, bytes |-> WriteChar(FromSurrogatePair(p, q))]
      BY <2>9, <3>2, Zenon DEF DecodeUnicode
    <3> QED
      BY <1>2, <3>2, <3>3
  <2>11. Decode(t, j) = [next |-> j + 2 + 10, bytes |-> copy]
    <3>1. j + 1 + 1 = j + 2
      OBVIOUS
    <3>2. DecodeEscape(t, j + 1) = [next |-> j + 2 + 10, bytes |-> copy]
      BY <2>9, <2>10, <3>1, Zenon DEF DecodeEscape
    <3> QED
      BY <2>9, <3>2, Zenon DEF Decode
  <2>12. j + 2 + 10 = j + Len(b) /\ Backslash # Quote
    BY <2>6 DEF Backslash, Quote
  <2> QED
    BY <1>9, <2>9, <2>11, <2>12
<1>10. Goal
  <2> HIDE DEF Goal, c
  <2> QED
    BY <1>1, <1>6, <1>7, <1>8, <1>9, SMTT(60)
<1> QED
  BY <1>1, <1>10 DEF b, n, copy

-----------------------------------------------------------------------------
(* A literal and the string it was written for.                            *)

\* The quote at t[q] opens the literal in t: only brackets stand before it.
Opening(t, q) ==
  /\ q \in 1 .. Len(t) /\ t[q] = Quote
  /\ \A k \in 1 .. q - 1 : t[k] = Bracket

\* P pairs the places of s with the places of t where their characters are
\* written, from behind the quote at q up to the pair front.
Coded(s, t, P, q, front) ==
  /\ P \subseteq (1 .. Len(s) + 1) \X (1 .. Len(t) + 1)
  /\ << 1, q + 1 >> \in P /\ front \in P
  /\ \A p \in P : p # front =>
       /\ p[1] <= Len(s) /\ ValidateCz(s, p[1]) > 0
       /\ Stands(Encode(s, p[1]).bytes, t, p[2])
       /\ << p[1] + ValidateCz(s, p[1]), p[2] + Len(Encode(s, p[1]).bytes) >> \in P

\* The literal is whole: it ends with the quote behind the last character.
Literal(s, t, P, q) ==
  /\ Opening(t, q)
  /\ Coded(s, t, P, q, << Len(s) + 1, Len(t) >>)
  /\ Len(t) > 0 /\ t[Len(t)] = Quote

\* There is one opening quote.
LEMMA OpeningUnique ==
  ASSUME NEW t \in Seq(Byte), NEW q, Opening(t, q), NEW i \in 1 .. Len(t),
         t[i] = Quote, \A j \in 1 .. i - 1 : t[j] # Quote
  PROVE  i = q
<1>1. Len(t) \in Nat /\ q \in 1 .. Len(t) /\ t[q] = Quote /\ Quote # Bracket
      /\ \A k \in 1 .. q - 1 : t[k] = Bracket
  BY LenProperties DEF Opening, Quote, Bracket
<1>2. CASE i < q
  BY <1>1, <1>2
<1>3. CASE q < i
  BY <1>1, <1>3
<1> QED
  BY <1>1, <1>2, <1>3

\* What is behind the front is of no account.
LEMMA StandsExtended ==
  ASSUME NEW b \in Seq(Byte), NEW t \in Seq(Byte), NEW e \in Seq(Byte), NEW j \in Nat, j > 0,
         Stands(b, t, j), \A k \in 1 .. Len(b) : b[k] # 0
  PROVE  Stands(b, t \o e, j)
<1>1. Len(t) \in Nat /\ Len(b) \in Nat
  BY LenProperties
<1> SUFFICES ASSUME NEW k \in 1 .. Len(b)
             PROVE  At(t \o e, j + k - 1) = b[k]
  BY DEF Stands
<1>2. At(t, j + k - 1) = b[k] /\ b[k] # 0 /\ j + k - 1 \in Nat /\ j + k - 1 > 0
  BY <1>1 DEF Stands
<1>3. j + k - 1 <= Len(t)
  BY <1>2, AtByte
<1> QED
  BY <1>2, <1>3, AtConcat

LEMMA OpeningExtended ==
  ASSUME NEW t \in Seq(Byte), NEW e \in Seq(Byte), NEW q, Opening(t, q)
  PROVE  Opening(t \o e, q)
<1>1. Len(t) \in Nat /\ Len(e) \in Nat /\ q \in 1 .. Len(t) /\ t[q] = Quote
      /\ \A k \in 1 .. q - 1 : t[k] = Bracket
  BY LenProperties DEF Opening
<1>2. /\ Len(t \o e) = Len(t) + Len(e)
      /\ \A k \in 1 .. Len(t) + Len(e) : (t \o e)[k] = IF k <= Len(t) THEN t[k] ELSE e[k - Len(t)]
  BY ConcatProperties
<1> DEFINE r == t \o e
<1> HIDE DEF r
<1>3. \A k \in 1 .. Len(t) : r[k] = t[k]
  BY <1>1, <1>2 DEF r
<1>4. q \in 1 .. Len(r) /\ r[q] = Quote
  <2>1. Len(r) = Len(t) + Len(e)
    BY <1>2 DEF r
  <2> QED
    BY <1>1, <1>3, <2>1
<1>5. \A k \in 1 .. q - 1 : r[k] = Bracket
  BY <1>1, <1>3
<1>6. Opening(r, q)
  BY <1>4, <1>5 DEF Opening
<1> QED
  BY <1>6 DEF r

LEMMA CodedExtended ==
  ASSUME NEW s, Sound(s), NEW t \in Seq(Byte), NEW e \in Seq(Byte), NEW P, NEW q, NEW front,
         Coded(s, t, P, q, front)
  PROVE  Coded(s, t \o e, P, q, front)
<1>1. s \in Seq(Byte) /\ NoZero(s) /\ Len(s) \in Nat
  BY LenProperties DEF Sound
<1>2. Len(t \o e) = Len(t) + Len(e) /\ Len(t) \in Nat /\ Len(e) \in Nat
  BY ConcatProperties, LenProperties
<1>3. P \subseteq (1 .. Len(s) + 1) \X (1 .. Len(t) + 1)
  BY DEF Coded
<1>4. 1 .. Len(t) + 1 \subseteq 1 .. Len(t \o e) + 1
  <2> DEFINE r == t \o e
  <2> HIDE DEF r
  <2>1. Len(r) = Len(t) + Len(e)
    BY <1>2 DEF r
  <2>2. 1 .. Len(t) + 1 \subseteq 1 .. Len(r) + 1
    BY <1>2, <2>1
  <2> QED
    BY <2>2 DEF r
<1>5. P \subseteq (1 .. Len(s) + 1) \X (1 .. Len(t \o e) + 1)
  BY <1>3, <1>4
<1>6. ASSUME NEW p \in P, p # front
      PROVE  Stands(Encode(s, p[1]).bytes, t \o e, p[2])
  <2>1. p[1] <= Len(s) /\ ValidateCz(s, p[1]) > 0 /\ Stands(Encode(s, p[1]).bytes, t, p[2])
    BY <1>6 DEF Coded
  <2>2. p[1] \in 1 .. Len(s) + 1 /\ p[2] \in 1 .. Len(t) + 1
    BY <1>3
  <2>3. p[1] \in 1 .. Len(s) /\ p[2] \in Nat /\ p[2] > 0
    BY <1>1, <1>2, <2>1, <2>2
  <2>4. Sound(Encode(s, p[1]).bytes)
    BY <1>1, <2>1, <2>3, EncodeSound
  <2> DEFINE b == Encode(s, p[1]).bytes
  <2>5. b \in Seq(Byte) /\ \A k \in 1 .. Len(b) : b[k] # 0
    BY <2>4 DEF Sound, NoZero
  <2> HIDE DEF b
  <2>6. Stands(b, t, p[2])
    BY <2>1 DEF b
  <2>7. Stands(b, t \o e, p[2])
    BY <2>3, <2>5, <2>6, StandsExtended
  <2> QED
    BY <2>7 DEF b
<1> QED
  BY <1>5, <1>6 DEF Coded

\* The quote is written: nothing of the string is, yet.
LEMMA CodedOpened ==
  ASSUME NEW s \in Seq(Byte), NEW t \in Seq(Byte), \A k \in 1 .. Len(t) : t[k] = Bracket,
         NEW r, r = Append(t, Quote)
  PROVE  /\ r \in Seq(Byte) /\ Sound(r)
         /\ \E P, q : Opening(r, q) /\ Coded(s, r, P, q, << 1, Len(r) + 1 >>)
<1>1. Len(s) \in Nat /\ Len(t) \in Nat /\ Quote \in Byte
  <2>1. Quote \in Byte
    BY SMT DEF Quote, Byte
  <2> QED
    BY <2>1, LenProperties
<1>2. /\ r \in Seq(Byte) /\ Len(r) = Len(t) + 1 /\ r[Len(t) + 1] = Quote
      /\ \A k \in 1 .. Len(t) : r[k] = t[k]
  BY <1>1, AppendProperties
<1>3. \A k \in 1 .. Len(r) : 1 <= r[k] /\ r[k] <= 127
  <2> SUFFICES ASSUME NEW k \in 1 .. Len(r)
               PROVE  r[k] = Quote \/ r[k] = Bracket
    BY DEF Quote, Bracket
  <2>1. k = Len(t) + 1 \/ k \in 1 .. Len(t)
    BY <1>1, <1>2
  <2> QED
    BY <1>2, <2>1
<1>4. Opening(r, Len(r))
  BY <1>1, <1>2 DEF Opening
<1>5. Coded(s, r, {<< 1, Len(r) + 1 >>}, Len(r), << 1, Len(r) + 1 >>)
  <2>1. 1 \in 1 .. Len(s) + 1 /\ Len(r) + 1 \in 1 .. Len(r) + 1
    BY <1>1, <1>2
  <2> QED
    BY <2>1 DEF Coded
<1> QED
  BY <1>2, <1>3, <1>4, <1>5, AsciiSound

\* One character more.
LEMMA CodedStep ==
  ASSUME NEW s, Sound(s), NEW t \in Seq(Byte), NEW P, NEW q, NEW i \in 1 .. Len(s),
         ValidateCz(s, i) > 0, Coded(s, t, P, q, << i, Len(t) + 1 >>)
  PROVE  LET b == Encode(s, i).bytes
         IN  \E R : Coded(s, t \o b, R, q, << i + ValidateCz(s, i), Len(t \o b) + 1 >>)
<1> DEFINE b == Encode(s, i).bytes   n == ValidateCz(s, i)   r == t \o b
           old == << i, Len(t) + 1 >>
           new == << i + n, Len(r) + 1 >>
           R == P \cup {new}
<1>1. s \in Seq(Byte) /\ NoZero(s) /\ Len(s) \in Nat
  BY LenProperties DEF Sound
<1>2. b \in Seq(Byte) /\ Len(b) \in Nat /\ Len(b) >= 1
  <2>1. Sound(b) /\ Len(b) >= 1
    BY <1>1, EncodeSound
  <2> QED
    BY <2>1, LenProperties DEF Sound
<1>3. Coded(s, r, P, q, old)
  BY <1>2, CodedExtended
<1>4. n \in 1 .. 4 /\ i + n \in 1 .. Len(s) + 1 /\ i <= Len(s) /\ i \in Nat
  BY <1>1, CharacterWithin
<1>5. Stands(b, r, Len(t) + 1)
  <2> SUFFICES ASSUME NEW k \in 1 .. Len(b)
               PROVE  At(r, Len(t) + 1 + k - 1) = b[k]
    BY DEF Stands
  <2>1. k \in Nat /\ k > 0 /\ k <= Len(b) /\ Len(t) + 1 + k - 1 = Len(t) + k
    BY <1>2, LenProperties
  <2>2. At(r, Len(t) + k) = At(b, k)
    BY <1>2, <2>1, AtConcat
  <2> QED
    BY <2>1, <2>2 DEF At
<1>6. Len(r) = Len(t) + Len(b) /\ Len(t) \in Nat
  BY <1>2, ConcatProperties, LenProperties
<1> HIDE DEF b, n, r
<1>7. new = << i + n, Len(t) + 1 + Len(b) >>
  <2>1. Len(r) + 1 = Len(t) + 1 + Len(b)
    BY <1>2, <1>6
  <2> QED
    BY <2>1
<1>8. new \in (1 .. Len(s) + 1) \X (1 .. Len(r) + 1)
  BY <1>2, <1>4, <1>6
<1> HIDE DEF new, R
<1>9. ASSUME NEW p \in R, p # new
      PROVE  /\ p[1] <= Len(s) /\ ValidateCz(s, p[1]) > 0
             /\ Stands(Encode(s, p[1]).bytes, r, p[2])
             /\ << p[1] + ValidateCz(s, p[1]), p[2] + Len(Encode(s, p[1]).bytes) >> \in R
  <2>1. p \in P
    BY <1>9 DEF R
  <2>2. CASE p # old
    <3>1. /\ p[1] <= Len(s) /\ ValidateCz(s, p[1]) > 0
          /\ Stands(Encode(s, p[1]).bytes, r, p[2])
          /\ << p[1] + ValidateCz(s, p[1]), p[2] + Len(Encode(s, p[1]).bytes) >> \in P
      BY <1>3, <2>1, <2>2 DEF Coded
    <3> QED
      BY <3>1 DEF R
  <2>3. CASE p = old
    <3>1. p[1] = i /\ p[2] = Len(t) + 1
      BY <2>3
    <3>2. << i + n, Len(t) + 1 + Len(b) >> \in R
      BY <1>7 DEF R
    <3> QED
      BY <1>4, <1>5, <3>1, <3>2 DEF b, n
  <2> QED
    BY <2>2, <2>3
<1>10. Coded(s, r, R, q, new)
  <2>1. R \subseteq (1 .. Len(s) + 1) \X (1 .. Len(r) + 1)
    BY <1>3, <1>8 DEF Coded, R
  <2>2. << 1, q + 1 >> \in R /\ new \in R
    BY <1>3 DEF Coded, R
  <2> QED
    BY <1>9, <2>1, <2>2 DEF Coded
<1> QED
  BY <1>10 DEF b, n, r, new

\* The closing quote makes it a literal.
LEMMA LiteralClosed ==
  ASSUME NEW s, Sound(s), NEW t \in Seq(Byte), NEW P, NEW q,
         Opening(t, q), Coded(s, t, P, q, << Len(s) + 1, Len(t) + 1 >>),
         NEW r, r = Append(t, Quote)
  PROVE  Literal(s, r, P, q)
<1>1. Quote \in Byte /\ Len(t) \in Nat
  BY ByteBounds, LenProperties, SMT DEF Quote
<1>2. r = t \o << Quote >> /\ << Quote >> \in Seq(Byte)
  BY <1>1
<1>3. Len(r) = Len(t) + 1 /\ r[Len(r)] = Quote
  BY <1>1, AppendProperties
<1>4. Opening(r, q) /\ Coded(s, r, P, q, << Len(s) + 1, Len(t) + 1 >>)
  BY <1>2, OpeningExtended, CodedExtended
<1> QED
  BY <1>1, <1>3, <1>4 DEF Literal

\* What parse_string finds at a place of a literal: the character that is written
\* there, or the quote at the end.
LEMMA LiteralRead ==
  ASSUME NEW s, Sound(s), NEW t \in Seq(Byte), NEW P, NEW q, Literal(s, t, P, q),
         NEW i, NEW j, << i, j >> \in P
  PROVE  /\ i \in 1 .. Len(s) + 1 /\ j \in Nat /\ j > 0
         /\ At(t, j) = Quote => i = Len(s) + 1 /\ j = Len(t)
         /\ At(t, j) # Quote =>
              /\ i \in 1 .. Len(s) /\ ValidateCz(s, i) > 0
              /\ s[i] = 31 => Decode(t, j) = Bad
              /\ s[i] # 31 =>
                   /\ << i + ValidateCz(s, i), Decode(t, j).next >> \in P
                   /\ Decode(t, j).bytes = SubSeq(s, i, i + ValidateCz(s, i) - 1)
                   /\ Decode(t, j) # Bad
<1> DEFINE p == << i, j >>   front == << Len(s) + 1, Len(t) >>
           b == Encode(s, i).bytes   n == ValidateCz(s, i)
<1>1. s \in Seq(Byte) /\ NoZero(s) /\ Len(s) \in Nat /\ Len(t) \in Nat
  BY LenProperties DEF Sound
<1>2. Coded(s, t, P, q, front) /\ Len(t) > 0 /\ t[Len(t)] = Quote
  BY DEF Literal
<1>3. i \in 1 .. Len(s) + 1 /\ j \in 1 .. Len(t) + 1
  BY <1>2 DEF Coded
<1>4. CASE p = front
  <2>1. i = Len(s) + 1 /\ j = Len(t)
    BY <1>4
  <2>2. At(t, j) = Quote
    BY <1>1, <1>2, <2>1 DEF At
  <2> QED
    BY <1>1, <1>3, <2>1, <2>2
<1>5. CASE p # front
  <2>1. i <= Len(s) /\ n > 0 /\ Stands(b, t, j) /\ << i + n, j + Len(b) >> \in P
    <3>1. p[1] = i /\ p[2] = j /\ p \in P
      OBVIOUS
    <3> HIDE DEF p, front
    <3> QED
      BY <1>2, <1>5, <3>1 DEF Coded
  <2>2. i \in 1 .. Len(s) /\ j \in Nat /\ j > 0
    BY <1>1, <1>3, <2>1
  <2>3. /\ At(t, j) # Quote
        /\ s[i] # 31 => Decode(t, j) = [next  |-> j + Len(b), bytes |-> SubSeq(s, i, i + n - 1)]
        /\ s[i] = 31 => Decode(t, j) = Bad
    BY <1>1, <2>1, <2>2, EncodeDecode
  <2> HIDE DEF b, n
  <2>4. ASSUME s[i] # 31
        PROVE  /\ << i + n, Decode(t, j).next >> \in P
               /\ Decode(t, j).bytes = SubSeq(s, i, i + n - 1)
               /\ Decode(t, j) # Bad
    <3>1. Decode(t, j).next = j + Len(b) /\ Decode(t, j).bytes = SubSeq(s, i, i + n - 1)
      BY <2>3, <2>4
    <3>2. Decode(t, j) # Bad
      <4>1. j + Len(b) # 0
        <5>1. b \in Seq(Byte)
          BY <1>1, <2>1, <2>2, EncodeSound DEF Sound, b, n
        <5> QED
          BY <2>2, <5>1, LenProperties
      <4> QED
        BY <3>1, <4>1 DEF Bad
    <3> QED
      BY <2>1, <3>1, <3>2
  <2> QED
    BY <1>3, <2>1, <2>2, <2>3, <2>4 DEF n
<1> QED
  BY <1>4, <1>5

\* A string grows by its next character.
LEMMA PieceGrows ==
  ASSUME NEW s \in Seq(Byte), NEW i \in 1 .. Len(s), NEW n \in Nat, n > 0, i + n - 1 <= Len(s)
  PROVE  SubSeq(s, 1, i - 1) \o SubSeq(s, i, i + n - 1) = SubSeq(s, 1, i + n - 1)
<1>1. Len(s) \in Nat /\ i \in Nat /\ i > 0
  BY LenProperties
<1>2. ASSUME NEW a \in Nat, a > 0, NEW m \in Nat, a + m - 1 <= Len(s)
      PROVE  /\ SubSeq(s, a, a + m - 1) \in Seq(Byte) /\ Len(SubSeq(s, a, a + m - 1)) = m
             /\ \A k \in 1 .. m : SubSeq(s, a, a + m - 1)[k] = s[a + k - 1]
  <2> DEFINE z == a + m - 1
  <2>1. z \in Int /\ a \in Int /\ (a <= z + 1) /\ z <= Len(s) /\ z = a + m - 1
    BY <1>1, <1>2
  <2>2. \A k \in a .. z : s[k] \in Byte
    BY <1>1, <1>2
  <2> HIDE DEF z
  <2>3. /\ SubSeq(s, a, z) \in Seq(Byte)
        /\ Len(SubSeq(s, a, z)) = IF a <= z THEN z - a + 1 ELSE 0
        /\ \A k \in 1 .. z - a + 1 : SubSeq(s, a, z)[k] = s[a + k - 1]
    BY <2>1, <2>2, SubSeqProperties
  <2>4. (IF a <= z THEN z - a + 1 ELSE 0) = m /\ z - a + 1 = m
    BY <1>2, <2>1
  <2> QED
    BY <2>3, <2>4 DEF z
<1> DEFINE a == SubSeq(s, 1, i - 1)   b == SubSeq(s, i, i + n - 1)   d == SubSeq(s, 1, i + n - 1)
<1>3. a \in Seq(Byte) /\ Len(a) = i - 1 /\ \A k \in 1 .. i - 1 : a[k] = s[k]
  <2>1. i - 1 \in Nat /\ 1 + (i - 1) - 1 = i - 1 /\ 1 + (i - 1) - 1 <= Len(s) /\ 1 \in Nat /\ 1 > 0
    BY <1>1
  <2>2. /\ SubSeq(s, 1, 1 + (i - 1) - 1) \in Seq(Byte) /\ Len(SubSeq(s, 1, 1 + (i - 1) - 1)) = i - 1
        /\ \A k \in 1 .. i - 1 : SubSeq(s, 1, 1 + (i - 1) - 1)[k] = s[1 + k - 1]
    BY <1>2, <2>1
  <2>3. \A k \in 1 .. i - 1 : 1 + k - 1 = k
    BY <1>1
  <2> QED
    BY <2>1, <2>2, <2>3
<1>4. b \in Seq(Byte) /\ Len(b) = n /\ \A k \in 1 .. n : b[k] = s[i + k - 1]
  BY <1>1, <1>2
<1>5. d \in Seq(Byte) /\ Len(d) = i + n - 1 /\ \A k \in 1 .. i + n - 1 : d[k] = s[k]
  <2> DEFINE m == i + n - 1
  <2>1. m \in Nat /\ 1 + m - 1 = m /\ 1 + m - 1 <= Len(s) /\ 1 \in Nat /\ 1 > 0
    BY <1>1
  <2> HIDE DEF m
  <2>2. /\ SubSeq(s, 1, 1 + m - 1) \in Seq(Byte) /\ Len(SubSeq(s, 1, 1 + m - 1)) = m
        /\ \A k \in 1 .. m : SubSeq(s, 1, 1 + m - 1)[k] = s[1 + k - 1]
    BY <1>2, <2>1
  <2>3. \A k \in 1 .. m : 1 + k - 1 = k
    BY <2>1
  <2>4. /\ SubSeq(s, 1, m) \in Seq(Byte) /\ Len(SubSeq(s, 1, m)) = m
        /\ \A k \in 1 .. m : SubSeq(s, 1, m)[k] = s[k]
    BY <2>1, <2>2, <2>3
  <2> QED
    BY <2>4 DEF m
<1> HIDE DEF a, b, d
<1>6. /\ a \o b \in Seq(Byte) /\ Len(a \o b) = Len(a) + Len(b)
      /\ \A k \in 1 .. Len(a) + Len(b) : (a \o b)[k] = IF k <= Len(a) THEN a[k] ELSE b[k - Len(a)]
  BY <1>3, <1>4, ConcatProperties
<1> DEFINE r == a \o b
<1> HIDE DEF r
<1>7. Len(r) = Len(d)
  BY <1>1, <1>3, <1>4, <1>5, <1>6 DEF r
<1>8. \A k \in 1 .. Len(d) : r[k] = d[k]
  <2> SUFFICES ASSUME NEW k \in 1 .. i + n - 1
               PROVE  r[k] = s[k]
    BY <1>5
  <2>1. k \in 1 .. Len(a) + Len(b)
    BY <1>1, <1>3, <1>4
  <2>2. CASE k <= i - 1
    BY <1>1, <1>3, <1>6, <2>1, <2>2 DEF r
  <2>3. CASE ~(k <= i - 1)
    <3>1. k - (i - 1) \in 1 .. n /\ i + (k - (i - 1)) - 1 = k
      BY <1>1, <2>3
    <3>2. r[k] = b[k - (i - 1)]
      BY <1>3, <1>6, <2>1, <2>3 DEF r
    <3>3. b[k - (i - 1)] = s[i + (k - (i - 1)) - 1]
      BY <1>4, <3>1
    <3> QED
      BY <3>1, <3>2, <3>3
  <2> QED
    BY <2>2, <2>3
<1>9. r = d
  <2>1. r \in Seq(Byte)
    BY <1>6 DEF r
  <2> QED
    BY <1>5, <1>7, <1>8, <2>1, SeqEqual
<1> QED
  BY <1>9 DEF r, a, b, d

-----------------------------------------------------------------------------
(* A string and its literal, along a run.                                  *)

\* What was emitted last was a C string of valid UTF-8.
Origin == str = NoString \/ Sound(str)

\* Emitting: the text is that string, behind brackets and a quote stands what its
\* characters up to at were written as.
Emitting ==
  /\ pc \in {"nest", "open", "first", "emit", "emitted"} => Sound(text) /\ str = text
  /\ pc \in {"nest", "open"} => at = 1 /\ \A k \in 1 .. Len(out) : out[k] = Bracket
  /\ pc \in {"first", "emit"} =>
       /\ Sound(out)
       /\ \E C : Cuts(text, C) /\ at \in C
       /\ \E P, q : Opening(out, q) /\ Coded(text, out, P, q, << at, Len(out) + 1 >>)
  /\ pc = "emitted" => Sound(out) /\ \E P, q : Literal(text, out, P, q)

\* Reading: if the text is a literal, at is the place of a character of its string,
\* and the characters before it are read.
Reading ==
  /\ pc \in {"number", "number_read"} => str = NoString
  /\ pc = "read" =>
       str = NoString \/ (\E P, q : Literal(str, text, P, q) /\ at = q)
  /\ pc \in {"parse", "parsed"} /\ keep => Sound(out)
  /\ pc = "parse" =>
       \/ str = NoString
       \/ \E P, q, i : /\ Literal(str, text, P, q) /\ << i, at >> \in P
                       /\ keep => out = SubSeq(str, 1, i - 1)
  /\ pc = "parsed" => str = NoString \/ ((keep => out = str) /\ at = Len(text) + 1)
  /\ pc = "failed" => str = NoString \/ (\E k \in 1 .. Len(str) : str[k] = 31)

Tracked == Fitting /\ Origin /\ Emitting /\ Reading

LEMMA NothingIsSound == Sound(<< >>)
<1>1. << >> \in Seq(Byte) /\ Len(<< >>) = 0
  OBVIOUS
<1>2. \A k \in 1 .. Len(<< >>) : 1 <= << >>[k] /\ << >>[k] <= 127
  BY <1>1
<1> QED
  BY <1>1, <1>2, AsciiSound

LEMMA InitTracked == Init => Tracked
<1> SUFFICES ASSUME Init
             PROVE  Tracked
  OBVIOUS
<1>1. Fitting
  BY InitFits
<1>2. ASSUME pc = "nest", text \in Strings, str = text
      PROVE  Sound(text)
  <2>1. text \in Seq(1 .. 255) /\ Validate(text) /\ text \in Seq(Byte)
    BY <1>1, <1>2, LexemesAssumption DEF Fitting, Typed
  <2>2. \E C : Cuts(text, C)
    BY <2>1, ValidIsCut
  <2>3. NoZero(text)
    <3>1. \A k \in 1 .. Len(text) : text[k] \in 1 .. 255
      <4>1. text \in [1 .. Len(text) -> 1 .. 255]
        BY <2>1, LenProperties
      <4> QED
        BY <4>1
    <3>2. 0 \notin 1 .. 255
      OBVIOUS
    <3> QED
      BY <3>1, <3>2, Zenon DEF NoZero
  <2> QED
    BY <2>1, <2>2, <2>3 DEF Sound
<1>3. at = 1 /\ out = << >> /\ keep = TRUE
  BY DEF Init
<1>4. CASE pc = "nest" /\ text \in Strings /\ str = text
  BY <1>1, <1>2, <1>3, <1>4 DEF Tracked, Origin, Emitting, Reading
<1>5. CASE pc = "read" /\ str = NoString
  BY <1>1, <1>5 DEF Tracked, Origin, Emitting, Reading
<1>6. CASE pc = "number" /\ str = NoString
  BY <1>1, <1>6 DEF Tracked, Origin, Emitting, Reading
<1> QED
  BY <1>4, <1>5, <1>6 DEF Init

LEMMA StepTracked == ASSUME Tracked, [Next]_vars PROVE Tracked'
<1>1. Fitting /\ Fitting'
  BY StepFits DEF Tracked
<1>2. text \in Seq(Byte) /\ out \in Seq(Byte) /\ keep \in BOOLEAN /\ Len(text) \in Nat /\ Len(out) \in Nat
  BY <1>1, LenProperties DEF Fitting, Typed
<1>3. SUFFICES (Origin /\ Emitting /\ Reading)'
  BY <1>1 DEF Tracked
<1>4. Origin /\ Emitting /\ Reading
  BY DEF Tracked
<1>5. CASE Grow
  BY <1>4, <1>5, ZenonT(60) DEF Grow, Origin, Emitting, Reading
<1>6. CASE Nest
  <2>1. \A k \in 1 .. Len(out') : out'[k] = Bracket
    <3>1. Bracket \in Byte /\ out' = Append(out, Bracket)
      BY <1>6, SMT DEF Nest, Bracket, Byte
    <3>2. /\ Len(out') = Len(out) + 1 /\ \A k \in 1 .. Len(out) : out'[k] = out[k]
          /\ out'[Len(out) + 1] = Bracket
      BY <1>2, <3>1, AppendProperties
    <3>3. \A k \in 1 .. Len(out) : out[k] = Bracket
      BY <1>4, <1>6 DEF Nest, Emitting
    <3>4. \A k \in 1 .. Len(out') : k \in 1 .. Len(out) \/ k = Len(out) + 1
      BY <1>2, <3>2
    <3> QED
      BY <3>2, <3>3, <3>4
  <2> QED
    BY <1>4, <1>6, <2>1 DEF Nest, Origin, Emitting, Reading
<1>7. CASE EmitStart
  BY <1>4, <1>7 DEF EmitStart, Origin, Emitting, Reading
<1>8. CASE EmitOpen
  <2>1. /\ pc = "open" /\ pc' = "first" /\ out' = Append(out, Quote)
        /\ UNCHANGED << str, text, at, keep >>
    BY <1>8 DEF EmitOpen
  <2>2. Sound(text) /\ str = text /\ at = 1 /\ \A k \in 1 .. Len(out) : out[k] = Bracket
    BY <1>4, <2>1 DEF Emitting
  <2>3. /\ Sound(out')
        /\ \E P, q : Opening(out', q) /\ Coded(text, out', P, q, << 1, Len(out') + 1 >>)
    BY <1>2, <2>1, <2>2, CodedOpened
  <2>4. \E C : Cuts(text, C) /\ at \in C
    BY <2>2 DEF Sound, Cuts
  <2> QED
    BY <1>4, <2>1, <2>2, <2>3, <2>4 DEF Origin, Emitting, Reading
<1>9. CASE EmitChar
  <2> DEFINE b == Encode(text, at).bytes   n == ValidateCz(text, at)
  <2>1. /\ pc \in {"first", "emit"} /\ at <= Len(text) /\ out' = out \o b
        /\ at' = Encode(text, at).next /\ pc' = "emit"
        /\ UNCHANGED << str, text, keep >>
    BY <1>9 DEF EmitChar
  <2>2. PICK C : Cuts(text, C) /\ at \in C
    BY <1>4, <2>1 DEF Emitting
  <2>3. PICK P, q : Opening(out, q) /\ Coded(text, out, P, q, << at, Len(out) + 1 >>)
    BY <1>4, <2>1 DEF Emitting
  <2>4. Sound(text) /\ str = text /\ Sound(out) /\ NoZero(text)
    BY <1>4, <2>1 DEF Emitting, Sound
  <2>5. at \in 1 .. Len(text)
    <3>1. C \subseteq 1 .. Len(text) + 1
      BY <2>2 DEF Cuts
    <3> QED
      BY <1>2, <2>1, <2>2, <3>1
  <2>6. n > 0 /\ at + n \in C
    <3>1. at # Len(text) + 1
      BY <1>2, <2>1, <2>5
    <3> QED
      BY <2>2, <3>1 DEF Cuts
  <2>7. at' = at + n
    BY <1>2, <2>1, <2>4, <2>5, <2>6, EncodeForms
  <2>8. Sound(b)
    BY <1>2, <2>4, <2>5, <2>6, EncodeSound
  <2>9. Sound(out') /\ Opening(out', q)
    <3>1. b \in Seq(Byte)
      BY <2>8 DEF Sound
    <3> HIDE DEF b
    <3> QED
      BY <1>2, <2>1, <2>3, <2>4, <2>8, <3>1, SoundConcat, OpeningExtended
  <2>10. \E R : Coded(text, out', R, q, << at', Len(out') + 1 >>)
    <3>1. \E R : Coded(text, out \o b, R, q, << at + n, Len(out \o b) + 1 >>)
      BY <1>2, <2>3, <2>4, <2>5, <2>6, CodedStep
    <3> HIDE DEF b, n
    <3> QED
      BY <2>1, <2>7, <3>1
  <2> HIDE DEF b, n
  <2>11. Emitting'
    <3>1. \E D : Cuts(text', D) /\ at' \in D
      BY <2>1, <2>2, <2>6, <2>7
    <3>2. \E R, r : Opening(out', r) /\ Coded(text', out', R, r, << at', Len(out') + 1 >>)
      BY <2>1, <2>9, <2>10
    <3> QED
      BY <2>1, <2>4, <2>9, <3>1, <3>2 DEF Emitting
  <2>12. Origin' /\ Reading'
    BY <1>4, <2>1 DEF Origin, Reading
  <2> QED
    BY <2>11, <2>12
<1>10. CASE EmitClose
  <2>1. /\ pc \in {"first", "emit"} /\ at > Len(text) /\ out' = Append(out, Quote)
        /\ pc' = "emitted" /\ UNCHANGED << str, text, at, keep >>
    BY <1>10 DEF EmitClose
  <2>2. PICK C : Cuts(text, C) /\ at \in C
    BY <1>4, <2>1 DEF Emitting
  <2>3. PICK P, q : Opening(out, q) /\ Coded(text, out, P, q, << at, Len(out) + 1 >>)
    BY <1>4, <2>1 DEF Emitting
  <2>4. Sound(text) /\ str = text /\ Sound(out)
    BY <1>4, <2>1 DEF Emitting
  <2>5. at = Len(text) + 1
    BY <1>2, <2>1, <2>2 DEF Cuts
  <2>6. Literal(text, out', P, q)
    BY <1>2, <2>1, <2>3, <2>4, <2>5, LiteralClosed
  <2>7. Sound(out')
    <3>1. Quote \in Byte /\ Quote \in 1 .. 127
      BY SMT DEF Quote, Byte
    <3>2. << Quote >> \in Seq(Byte) /\ Len(<< Quote >>) = 1 /\ << Quote >>[1] = Quote
      BY <3>1
    <3>3. \A k \in 1 .. 1 : 1 <= << Quote >>[k] /\ << Quote >>[k] <= 127
      BY <3>1, <3>2
    <3>4. Sound(<< Quote >>)
      BY <3>2, <3>3, AsciiSound
    <3>5. out' = out \o << Quote >>
      BY <1>2, <2>1, <3>1, AppendIsConcat
    <3> QED
      BY <2>4, <3>4, <3>5, SoundConcat
  <2> QED
    BY <1>4, <2>1, <2>4, <2>6, <2>7 DEF Origin, Emitting, Reading
<1>11. CASE ReadBack
  <2>1. pc = "emitted" /\ pc' = "read" /\ text' = out /\ UNCHANGED << str, out, keep >>
    BY <1>11 DEF ReadBack
  <2>2. PICK P, q : Literal(str, out, P, q)
    BY <1>4, <2>1 DEF Emitting
  <2>3. PICK i \in 1 .. Len(out) : out[i] = Quote /\ (\A j \in 1 .. i - 1 : out[j] # Quote) /\ at' = i
    BY <1>11 DEF ReadBack
  <2>4. at' = q
    BY <1>2, <2>2, <2>3, OpeningUnique DEF Literal
  <2>5. \E R, r : Literal(str', text', R, r) /\ at' = r
    BY <2>1, <2>2, <2>4
  <2> QED
    BY <1>4, <2>1, <2>5 DEF Origin, Emitting, Reading
<1>12. CASE ParseOpen
  <2>1. /\ pc = "read" /\ out' = << >> /\ at' = at + 1
        /\ pc' = IF At(text, at) = Quote THEN "parse" ELSE "failed"
        /\ UNCHANGED << str, text >>
    BY <1>12 DEF ParseOpen
  <2>2. Sound(out')
    BY <2>1, NothingIsSound
  <2>3. CASE str = NoString
    BY <1>4, <2>1, <2>2, <2>3 DEF Origin, Emitting, Reading
  <2>4. CASE str # NoString
    <3>1. PICK P, q : Literal(str, text, P, q) /\ at = q
      BY <1>4, <2>1, <2>4 DEF Reading
    <3>2. q \in 1 .. Len(text) /\ text[q] = Quote /\ << 1, q + 1 >> \in P
      BY <3>1 DEF Literal, Opening, Coded
    <3>3. pc' = "parse"
      BY <1>2, <2>1, <3>1, <3>2 DEF At
    <3>4. SubSeq(str, 1, 1 - 1) = << >>
      BY SubSeqEmpty
    <3>5. \E R, r, i : /\ Literal(str', text', R, r) /\ << i, at' >> \in R
                       /\ keep' => out' = SubSeq(str', 1, i - 1)
      BY <2>1, <3>1, <3>2, <3>4
    <3> QED
      BY <1>4, <2>1, <2>2, <3>3, <3>5 DEF Origin, Emitting, Reading
  <2> QED
    BY <2>3, <2>4
<1>13. CASE ParseChar
  <2> DEFINE d == Decode(text, at)
  <2>1. /\ pc = "parse" /\ pc' = "parse" /\ At(text, at) # Quote /\ d # Bad /\ at' = d.next
        /\ out' = (IF keep THEN out \o d.bytes ELSE d.bytes)
        /\ UNCHANGED << str, text, keep >>
    BY <1>13 DEF ParseChar
  <2>2. at \in Nat /\ at > 0
    BY <1>1, <2>1 DEF Fitting, Typed
  <2>3. Sound(d.bytes)
    BY <1>2, <2>1, <2>2, DecodeSound
  <2> HIDE DEF d
  <2>4. keep => Sound(out')
    <3> SUFFICES ASSUME keep
                 PROVE  Sound(out')
      OBVIOUS
    <3>1. Sound(out) /\ out' = out \o d.bytes
      BY <1>4, <2>1 DEF Reading
    <3> QED
      BY <2>3, <3>1, SoundConcat
  <2>5. CASE str = NoString
    BY <1>4, <2>1, <2>4, <2>5 DEF Origin, Emitting, Reading
  <2>6. CASE str # NoString
    <3>1. PICK P, q, i : /\ Literal(str, text, P, q) /\ << i, at >> \in P
                         /\ keep => out = SubSeq(str, 1, i - 1)
      BY <1>4, <2>1, <2>6 DEF Reading
    <3>2. Sound(str)
      BY <1>4, <2>6 DEF Origin
    <3> DEFINE n == ValidateCz(str, i)
    <3>3. /\ i \in 1 .. Len(str) /\ n > 0
          /\ str[i] = 31 => d = Bad
          /\ str[i] # 31 => /\ << i + n, d.next >> \in P
                            /\ d.bytes = SubSeq(str, i, i + n - 1)
      BY <1>2, <2>1, <3>1, <3>2, LiteralRead, SMTT(60) DEF d
    <3>4. str \in Seq(Byte) /\ n \in 1 .. 4 /\ i + n - 1 <= Len(str)
      BY <3>2, <3>3, CharacterWithin DEF Sound
    <3> HIDE DEF n
    <3>5. << i + n, at' >> \in P /\ d.bytes = SubSeq(str, i, i + n - 1)
      BY <2>1, <3>3
    <3>6. keep => out' = SubSeq(str, 1, i + n - 1)
      <4> SUFFICES ASSUME keep
                   PROVE  out' = SubSeq(str, 1, i + n - 1)
        OBVIOUS
      <4>1. out' = SubSeq(str, 1, i - 1) \o SubSeq(str, i, i + n - 1)
        BY <2>1, <3>1, <3>5
      <4>2. n \in Nat /\ n > 0
        BY <3>4
      <4> QED
        BY <3>3, <3>4, <4>1, <4>2, PieceGrows
    <3>7. \E R, r, m : /\ Literal(str', text', R, r) /\ << m, at' >> \in R
                       /\ keep' => out' = SubSeq(str', 1, m - 1)
      <4> DEFINE m == i + n
      <4>1. << m, at' >> \in P
        BY <3>5
      <4>3. keep => out' = SubSeq(str, 1, m - 1)
        <5>1. m - 1 = i + n - 1
          BY <3>3, <3>4
        <5> HIDE DEF m
        <5> QED
          BY <3>6, <5>1, Zenon
      <4> HIDE DEF m
      <4>2. /\ Literal(str', text', P, q) /\ << m, at' >> \in P
            /\ keep' => out' = SubSeq(str', 1, m - 1)
        BY <2>1, <3>1, <4>1, <4>3
      <4> QED
        BY <4>2
    <3> QED
      BY <1>4, <2>1, <2>4, <3>7 DEF Origin, Emitting, Reading
  <2> QED
    BY <2>5, <2>6
<1>14. CASE ParseFail
  <2>1. /\ pc = "parse" /\ pc' = "failed" /\ At(text, at) # Quote /\ Decode(text, at) = Bad
        /\ UNCHANGED << str, text, at, out, keep >>
    BY <1>14 DEF ParseFail
  <2>2. ASSUME str # NoString
        PROVE  \E k \in 1 .. Len(str) : str[k] = 31
    <3>1. PICK P, q, i : Literal(str, text, P, q) /\ << i, at >> \in P
      BY <1>4, <2>1, <2>2 DEF Reading
    <3>2. Sound(str)
      BY <1>4, <2>2 DEF Origin
    <3>3. i \in 1 .. Len(str) /\ (str[i] # 31 => Decode(text, at) # Bad)
      <4> DEFINE d == Decode(text, at)   n == ValidateCz(str, i)
      <4> HIDE DEF d, n
      <4>1. /\ At(text, at) = Quote => i = Len(str) + 1 /\ at = Len(text)
            /\ At(text, at) # Quote =>
                 /\ i \in 1 .. Len(str) /\ n > 0
                 /\ str[i] = 31 => d = Bad
                 /\ str[i] # 31 => /\ << i + n, d.next >> \in P
                                   /\ d.bytes = SubSeq(str, i, i + n - 1)
                                   /\ d # Bad
        BY <1>2, <3>1, <3>2, LiteralRead DEF d, n
      <4> QED
        BY <2>1, <4>1 DEF d
    <3> QED
      BY <2>1, <3>3
  <2> QED
    BY <1>4, <2>1, <2>2 DEF Origin, Emitting, Reading
<1>15. CASE ParseClose
  <2>1. /\ pc = "parse" /\ pc' = "parsed" /\ At(text, at) = Quote /\ at' = at + 1
        /\ UNCHANGED << str, text, out, keep >>
    BY <1>15 DEF ParseClose
  <2>2. ASSUME str # NoString
        PROVE  (keep => out = str) /\ at = Len(text)
    <3>1. PICK P, q, i : /\ Literal(str, text, P, q) /\ << i, at >> \in P
                         /\ keep => out = SubSeq(str, 1, i - 1)
      BY <1>4, <2>1, <2>2 DEF Reading
    <3>2. Sound(str) /\ str \in Seq(Byte) /\ Len(str) \in Nat
      BY <1>4, <2>2, LenProperties DEF Origin, Sound
    <3>3. i = Len(str) + 1 /\ at = Len(text)
      BY <1>2, <2>1, <3>1, <3>2, LiteralRead
    <3>4. SubSeq(str, 1, i - 1) = str
      <4>1. i - 1 = Len(str)
        BY <3>2, <3>3
      <4>2. SubSeq(str, 1, Len(str)) = str
        BY <3>2
      <4> QED
        BY <4>1, <4>2
    <3> QED
      BY <3>1, <3>3, <3>4
  <2> QED
    BY <1>4, <2>1, <2>2 DEF Origin, Emitting, Reading
<1>16. CASE Reencode
  <2>1. /\ pc = "parsed" /\ pc' = "nest" /\ keep /\ str' = out /\ text' = out /\ at' = 1
        /\ out' = << >> /\ keep' = keep
    BY <1>16 DEF Reencode
  <2>2. Sound(out)
    BY <1>4, <2>1 DEF Reading
  <2>3. \A k \in 1 .. Len(out') : out'[k] = Bracket
    BY <2>1
  <2> QED
    BY <2>1, <2>2, <2>3 DEF Origin, Emitting, Reading
<1>17. CASE ReadNumber
  BY <1>4, <1>17 DEF ReadNumber, Origin, Emitting, Reading
<1>18. CASE UNCHANGED vars
  <2>1. UNCHANGED << pc, str, text, at, out, alloc, keep >>
    BY <1>18 DEF vars
  <2>2. Origin'
    BY <1>4, <2>1 DEF Origin
  <2>3. Emitting'
    BY <1>4, <2>1 DEF Emitting
  <2>4. Reading'
    BY <1>4, <2>1 DEF Reading
  <2> QED
    BY <2>2, <2>3, <2>4
<1> QED
  BY <1>5, <1>6, <1>7, <1>8, <1>9, <1>10, <1>11, <1>12, <1>13, <1>14, <1>15, <1>16, <1>17, <1>18
     DEF Next

\* A string comes back from its literal as it was, and nothing of the literal is
\* left over, whatever the string, the brackets before it and the setting of
\* escape_unicode; and whatever is finished, emitted or read from a foreign text,
\* is valid UTF-8 and holds no 0.  Only the strings with a 1F are refused.
THEOREM RoundTripKept == Spec => []RoundTrip
<1>1. Init => Tracked
  BY InitTracked
<1>2. Tracked /\ [Next]_vars => Tracked'
  BY StepTracked
<1>3. Tracked => RoundTrip
  <2> SUFFICES ASSUME Tracked
               PROVE  RoundTrip
    OBVIOUS
  <2>1. ASSUME Sound(out)
        PROVE  (\A i \in 1 .. Len(out) : out[i] # 0) /\ Validate(out)
    BY <2>1, ValidIsCut DEF Sound, NoZero
  <2>2. FinishedSound
    BY <2>1 DEF Tracked, Emitting, Reading, FinishedSound
  <2>3. pc = "failed" /\ str # NoString => 31 \in { str[i] : i \in 1 .. Len(str) }
    BY DEF Tracked, Reading
  <2> QED
    BY <2>2, <2>3 DEF Tracked, Reading, RoundTrip
<1> QED
  BY <1>1, <1>2, <1>3, PTL DEF Spec

-----------------------------------------------------------------------------
(***************************************************************************)
(* Nodes.                                                                  *)
(***************************************************************************)
Pointers == Pool \cup {NULL, Junk}

Node(V) ==
  [tag : Tags \cup {Junk}, val : V, parent : Pointers, prev : Pointers, next : Pointers,
   key : Names \cup {NULL, Junk}, head : Pointers, tail : Pointers]

\* A heap, whatever values its nodes hold.
Heap(h) == \E V : h \in [node : [Pool -> Node(V)], strings : Int]

LEMMA PoolFacts ==
  /\ NULL \notin Pool /\ NULL \notin Names /\ Junk \notin Tags
  /\ \A h : Live(h) \in SUBSET Pool /\ IsFiniteSet(Live(h))
<1>1. IsFiniteSet(Pool)
  BY NodesAssumption, FS_Interval DEF Pool
<1>2. \A h : Live(h) \in SUBSET Pool
  BY DEF Live
<1>3. \A h : IsFiniteSet(Live(h))
  BY <1>1, <1>2, FS_Subset
<1>4. NULL \notin Pool /\ NULL \notin Names /\ Junk \notin Tags
  BY NodesAssumption DEF Pool, NULL
<1> QED
  BY <1>2, <1>3, <1>4

\* What append_node and prepend_node do to a root c with the key k but for the order
\* of the children.
Attached(h, after, p, c, k) ==
  /\ Heap(after)
  /\ after.strings = h.strings
  /\ \A n \in Pool :
       LET x == h.node[n]
           y == after.node[n]
       IN  /\ y.tag = x.tag /\ y.val = x.val
           /\ y.parent = IF n = c THEN p ELSE x.parent
           /\ y.key = IF n = c THEN k ELSE x.key

\* Stores into one node of typed nodes give typed nodes.
LEMMA StoreTyped ==
  ASSUME NEW V, NEW N \in [Pool -> Node(V)], NEW a \in Pool, NEW r \in Node(V)
  PROVE  /\ [N EXCEPT ![a] = r] \in [Pool -> Node(V)]
         /\ \A n \in Pool : [N EXCEPT ![a] = r][n] = IF n = a THEN r ELSE N[n]
OBVIOUS

LEMMA FieldsTyped ==
  ASSUME NEW V, NEW r \in Node(V), NEW v \in Pointers, NEW w \in Pointers, NEW u \in Pointers,
         NEW k \in Names \cup {NULL, Junk}
  PROVE  /\ [r EXCEPT !.next = v] \in Node(V)
         /\ [r EXCEPT !.prev = v] \in Node(V)
         /\ [r EXCEPT !.head = v] \in Node(V)
         /\ [r EXCEPT !.tail = v] \in Node(V)
         /\ [r EXCEPT !.key = k] \in Node(V)
         /\ [r EXCEPT !.parent = v, !.prev = w, !.next = u] \in Node(V)
         /\ [r EXCEPT !.parent = v, !.prev = w, !.next = u, !.key = k] \in Node(V)
BY DEF Node

\* The stores of append_node.
LEMMA AppendStores ==
  ASSUME NEW h, Heap(h), NEW p \in Pool, NEW c \in Pool, p # c, NEW k \in Names \cup {NULL},
         h.node[p].tail \in Pool \cup {NULL}, h.node[p].tail # c
  PROVE  LET after == AppendNode(SetKey(h, c, k), p, c)
             last == h.node[p].tail
         IN  /\ Attached(h, after, p, c, k)
             /\ \A n \in Pool :
                  /\ after.node[n].prev = IF n = c THEN last ELSE h.node[n].prev
                  /\ after.node[n].next = IF n = c THEN NULL
                                          ELSE IF n = last THEN c ELSE h.node[n].next
                  /\ after.node[n].head = IF n = p /\ last = NULL THEN c ELSE h.node[n].head
                  /\ after.node[n].tail = IF n = p THEN c ELSE h.node[n].tail
<1>1. PICK V : h \in [node : [Pool -> Node(V)], strings : Int]
  BY DEF Heap
<1> DEFINE g == SetKey(h, c, k)
           keyed == g.node
           last == g.node[p].tail
           child == [g.node EXCEPT ![c] = [g.node[c] EXCEPT !.parent = p, !.prev = last, !.next = NULL]]
           bound == IF last = NULL THEN [child EXCEPT ![p].head = c]
                                   ELSE [child EXCEPT ![last].next = c]
           done == [bound EXCEPT ![p].tail = c]
           after == AppendNode(g, p, c)
<1>2. /\ h.node \in [Pool -> Node(V)] /\ NULL \in Pointers /\ Pool \subseteq Pointers
      /\ h.node[p].tail \in Pointers /\ NULL \notin Pool
  BY <1>1, PoolFacts DEF Pointers
<1>3. /\ g = [h EXCEPT !.node = keyed] /\ last = h.node[p].tail
      /\ keyed = [h.node EXCEPT ![c] = [h.node[c] EXCEPT !.key = k]]
  BY <1>1 DEF SetKey
<1>4. after = [g EXCEPT !.node = done]
  BY Zenon DEF AppendNode
<1> HIDE DEF g, keyed, last
<1>5. keyed \in [Pool -> Node(V)]
  <2>1. [h.node[c] EXCEPT !.key = k] \in Node(V)
    BY <1>2, FieldsTyped, ZenonT(60)
  <2> QED
    BY <1>2, <1>3, <2>1, StoreTyped
<1>6. child \in [Pool -> Node(V)]
  <2>1. [keyed[c] EXCEPT !.parent = p, !.prev = last, !.next = NULL] \in Node(V)
    BY <1>2, <1>3, <1>5, FieldsTyped, ZenonT(60)
  <2> QED
    BY <1>5, <2>1, StoreTyped DEF keyed
<1>7. bound \in [Pool -> Node(V)]
  <2> HIDE DEF child
  <2>1. CASE last = NULL
    BY <1>2, <1>6, <2>1, FieldsTyped, StoreTyped, ZenonT(60)
  <2>2. CASE last # NULL
    <3>1. last \in Pool
      BY <1>3, <2>2
    <3>2. [child[last] EXCEPT !.next = c] \in Node(V)
      BY <1>2, <1>6, <3>1, FieldsTyped, ZenonT(60)
    <3> QED
      BY <1>6, <2>2, <3>1, <3>2, StoreTyped
  <2> QED
    BY <2>1, <2>2
<1>8. done \in [Pool -> Node(V)]
  <2> HIDE DEF bound
  <2> QED
    BY <1>2, <1>7, FieldsTyped, StoreTyped, ZenonT(60)
<1>9. after.node = done /\ after.strings = h.strings /\ Heap(after)
  <2> HIDE DEF done, after
  <2> QED
    BY <1>1, <1>3, <1>4, <1>5, <1>8 DEF Heap
<1> HIDE DEF after, done
<1>10. ASSUME NEW n \in Pool
       PROVE  LET x == h.node[n]
                  y == done[n]
              IN  /\ y.tag = x.tag /\ y.val = x.val
                  /\ y.parent = IF n = c THEN p ELSE x.parent
                  /\ y.key = IF n = c THEN k ELSE x.key
                  /\ y.prev = IF n = c THEN last ELSE x.prev
                  /\ y.next = IF n = c THEN NULL ELSE IF n = last THEN c ELSE x.next
                  /\ y.head = IF n = p /\ last = NULL THEN c ELSE x.head
                  /\ y.tail = IF n = p THEN c ELSE x.tail
  <2>1. h.node[n] \in Node(V) /\ last # c
    BY <1>2, <1>3, SMTT(60)
  <2>2. done[n] = IF n = p THEN [bound[n] EXCEPT !.tail = c] ELSE bound[n]
    BY <1>7 DEF done
  <2>3. bound[n] = IF n = last THEN [child[n] EXCEPT !.next = c]
                   ELSE IF n = p /\ last = NULL THEN [child[n] EXCEPT !.head = c]
                   ELSE child[n]
    <3> HIDE DEF child
    <3>1. last = NULL => last # n
      BY <1>2
    <3>2. CASE last = NULL
      BY <1>6, <3>1, <3>2
    <3>3. CASE last # NULL
      BY <1>3, <1>6, <3>3
    <3> QED
      BY <3>2, <3>3
  <2>4. child[n] = IF n = c THEN [keyed[n] EXCEPT !.parent = p, !.prev = last, !.next = NULL]
                   ELSE keyed[n]
    BY <1>5 DEF keyed
  <2>5. keyed[n] = IF n = c THEN [h.node[n] EXCEPT !.key = k] ELSE h.node[n]
    BY <1>2, <1>3
  <2>6. keyed[n] \in Node(V) /\ child[n] \in Node(V) /\ bound[n] \in Node(V)
    BY <1>5, <1>6, <1>7
  <2> HIDE DEF bound, child
  <2> QED
    BY <1>2, <2>1, <2>2, <2>3, <2>4, <2>5, <2>6 DEF Node
<1>11. Attached(h, after, p, c, k)
  BY <1>9, <1>10 DEF Attached
<1> QED
  BY <1>3, <1>9, <1>10, <1>11 DEF after, g

\* The stores of prepend_node.
LEMMA PrependStores ==
  ASSUME NEW h, Heap(h), NEW p \in Pool, NEW c \in Pool, p # c, NEW k \in Names \cup {NULL},
         h.node[p].head \in Pool \cup {NULL}, h.node[p].head # c
  PROVE  LET after == PrependNode(SetKey(h, c, k), p, c)
             first == h.node[p].head
         IN  /\ Attached(h, after, p, c, k)
             /\ \A n \in Pool :
                  /\ after.node[n].prev = IF n = c THEN NULL
                                          ELSE IF n = first THEN c ELSE h.node[n].prev
                  /\ after.node[n].next = IF n = c THEN first ELSE h.node[n].next
                  /\ after.node[n].tail = IF n = p /\ first = NULL THEN c ELSE h.node[n].tail
                  /\ after.node[n].head = IF n = p THEN c ELSE h.node[n].head
<1>1. PICK V : h \in [node : [Pool -> Node(V)], strings : Int]
  BY DEF Heap
<1> DEFINE g == SetKey(h, c, k)
           keyed == g.node
           first == g.node[p].head
           child == [g.node EXCEPT ![c] = [g.node[c] EXCEPT !.parent = p, !.prev = NULL, !.next = first]]
           bound == IF first = NULL THEN [child EXCEPT ![p].tail = c]
                                   ELSE [child EXCEPT ![first].prev = c]
           done == [bound EXCEPT ![p].head = c]
           after == PrependNode(g, p, c)
<1>2. /\ h.node \in [Pool -> Node(V)] /\ NULL \in Pointers /\ Pool \subseteq Pointers
      /\ h.node[p].head \in Pointers /\ NULL \notin Pool
  BY <1>1, PoolFacts DEF Pointers
<1>3. /\ g = [h EXCEPT !.node = keyed] /\ first = h.node[p].head
      /\ keyed = [h.node EXCEPT ![c] = [h.node[c] EXCEPT !.key = k]]
  BY <1>1 DEF SetKey
<1>4. after = [g EXCEPT !.node = done]
  BY Zenon DEF PrependNode
<1> HIDE DEF g, keyed, first
<1>5. keyed \in [Pool -> Node(V)]
  <2>1. [h.node[c] EXCEPT !.key = k] \in Node(V)
    BY <1>2, FieldsTyped, ZenonT(60)
  <2> QED
    BY <1>2, <1>3, <2>1, StoreTyped, SMTT(60)
<1>6. child \in [Pool -> Node(V)]
  <2>1. [keyed[c] EXCEPT !.parent = p, !.prev = NULL, !.next = first] \in Node(V)
    BY <1>2, <1>3, <1>5, FieldsTyped, ZenonT(60)
  <2> QED
    BY <1>5, <2>1, StoreTyped DEF keyed
<1>7. bound \in [Pool -> Node(V)]
  <2> HIDE DEF child
  <2>1. CASE first = NULL
    BY <1>2, <1>6, <2>1, FieldsTyped, StoreTyped, ZenonT(60)
  <2>2. CASE first # NULL
    <3>1. first \in Pool
      BY <1>3, <2>2
    <3>2. [child[first] EXCEPT !.prev = c] \in Node(V)
      BY <1>2, <1>6, <3>1, FieldsTyped, ZenonT(60)
    <3> QED
      BY <1>6, <2>2, <3>1, <3>2, StoreTyped
  <2> QED
    BY <2>1, <2>2
<1>8. done \in [Pool -> Node(V)]
  <2> HIDE DEF bound
  <2> QED
    BY <1>2, <1>7, FieldsTyped, StoreTyped, ZenonT(60)
<1>9. after.node = done /\ after.strings = h.strings /\ Heap(after)
  <2> HIDE DEF done, after
  <2> QED
    BY <1>1, <1>3, <1>4, <1>5, <1>8 DEF Heap
<1> HIDE DEF after, done
<1>10. ASSUME NEW n \in Pool
       PROVE  LET x == h.node[n]
                  y == done[n]
              IN  /\ y.tag = x.tag /\ y.val = x.val
                  /\ y.parent = IF n = c THEN p ELSE x.parent
                  /\ y.key = IF n = c THEN k ELSE x.key
                  /\ y.prev = IF n = c THEN NULL ELSE IF n = first THEN c ELSE x.prev
                  /\ y.next = IF n = c THEN first ELSE x.next
                  /\ y.tail = IF n = p /\ first = NULL THEN c ELSE x.tail
                  /\ y.head = IF n = p THEN c ELSE x.head
  <2>1. h.node[n] \in Node(V) /\ first # c
    BY <1>2, <1>3, SMTT(60)
  <2>2. done[n] = IF n = p THEN [bound[n] EXCEPT !.head = c] ELSE bound[n]
    BY <1>7 DEF done
  <2>3. bound[n] = IF n = first THEN [child[n] EXCEPT !.prev = c]
                   ELSE IF n = p /\ first = NULL THEN [child[n] EXCEPT !.tail = c]
                   ELSE child[n]
    <3> HIDE DEF child
    <3>1. first = NULL => first # n
      BY <1>2
    <3>2. CASE first = NULL
      BY <1>6, <3>1, <3>2
    <3>3. CASE first # NULL
      BY <1>3, <1>6, <3>3
    <3> QED
      BY <3>2, <3>3
  <2>4. child[n] = IF n = c THEN [keyed[n] EXCEPT !.parent = p, !.prev = NULL, !.next = first]
                   ELSE keyed[n]
    BY <1>5 DEF keyed
  <2>5. keyed[n] = IF n = c THEN [h.node[n] EXCEPT !.key = k] ELSE h.node[n]
    BY <1>2, <1>3
  <2>6. keyed[n] \in Node(V) /\ child[n] \in Node(V) /\ bound[n] \in Node(V)
    BY <1>5, <1>6, <1>7
  <2> HIDE DEF bound, child
  <2> QED
    BY <1>2, <2>1, <2>2, <2>3, <2>4, <2>5, <2>6 DEF Node
<1>11. Attached(h, after, p, c, k)
  BY <1>9, <1>10 DEF Attached
<1> QED
  BY <1>3, <1>9, <1>10, <1>11 DEF after, g

\* The stores of json_remove_from_parent.
LEMMA RemoveStores ==
  ASSUME NEW h, Heap(h), NEW c \in Pool, NEW p \in Pool, h.node[c].parent = p, p # c,
         h.node[c].prev \in Pool \cup {NULL}, h.node[c].prev # c,
         h.node[c].next \in Pool \cup {NULL}, h.node[c].next # c
  PROVE  LET after == RemoveFromParent(h, c)
             before == h.node[c].prev
             behind == h.node[c].next
         IN  /\ Heap(after)
             /\ after.strings = IF h.node[c].key = NULL THEN h.strings ELSE h.strings - 1
             /\ \A n \in Pool :
                  LET x == h.node[n]
                      y == after.node[n]
                  IN  /\ y.tag = x.tag /\ y.val = x.val
                      /\ y.parent = IF n = c THEN NULL ELSE x.parent
                      /\ y.key = IF n = c THEN NULL ELSE x.key
                      /\ y.prev = IF n = c THEN NULL ELSE IF n = behind THEN before ELSE x.prev
                      /\ y.next = IF n = c THEN NULL ELSE IF n = before THEN behind ELSE x.next
                      /\ y.head = IF n = p /\ before = NULL THEN behind ELSE x.head
                      /\ y.tail = IF n = p /\ behind = NULL THEN before ELSE x.tail
<1>1. PICK V : h \in [node : [Pool -> Node(V)], strings : Int]
  BY DEF Heap
<1> DEFINE x == h.node[c]
           before == x.prev
           behind == x.next
           ahead == IF x.prev # NULL THEN [h.node EXCEPT ![x.prev].next = x.next]
                                     ELSE [h.node EXCEPT ![x.parent].head = x.next]
           back == IF x.next # NULL THEN [ahead EXCEPT ![x.next].prev = x.prev]
                                    ELSE [ahead EXCEPT ![x.parent].tail = x.prev]
           alone == [back[c] EXCEPT !.parent = NULL, !.prev = NULL, !.next = NULL, !.key = NULL]
           done == [back EXCEPT ![c] = alone]
           after == RemoveFromParent(h, c)
<1>2. /\ h.node \in [Pool -> Node(V)] /\ NULL \in Pointers /\ Pool \subseteq Pointers
      /\ NULL \notin Pool /\ x.parent = p /\ p # NULL
      /\ before \in Pointers /\ behind \in Pointers
  BY <1>1, PoolFacts DEF Pointers
<1>3. /\ after.node = done
      /\ after.strings = IF x.key = NULL THEN h.strings ELSE h.strings - 1
      /\ after = [node |-> done, strings |-> after.strings]
  <2>1. x.parent # NULL
    BY <1>2
  <2>2. after = [node |-> done,
                 strings |-> IF x.key = NULL THEN h.strings ELSE h.strings - 1]
    BY <2>1, ZenonT(60) DEF RemoveFromParent
  <2> HIDE DEF done, after
  <2> QED
    BY <2>2
<1>4. /\ ahead \in [Pool -> Node(V)]
      /\ \A n \in Pool : ahead[n] = IF n = before THEN [h.node[n] EXCEPT !.next = behind]
                                    ELSE IF n = p /\ before = NULL
                                    THEN [h.node[n] EXCEPT !.head = behind]
                                    ELSE h.node[n]
  <2>1. CASE before # NULL
    <3>1. before \in Pool /\ [h.node[before] EXCEPT !.next = behind] \in Node(V)
      BY <1>2, <2>1, FieldsTyped, ZenonT(60)
    <3> QED
      BY <1>2, <2>1, <3>1, StoreTyped, SMTT(60)
  <2>2. CASE before = NULL
    <3>1. [h.node[p] EXCEPT !.head = behind] \in Node(V)
      BY <1>2, FieldsTyped, ZenonT(60)
    <3> QED
      BY <1>2, <2>2, <3>1, StoreTyped, SMTT(60)
  <2> QED
    BY <2>1, <2>2
<1>5. /\ back \in [Pool -> Node(V)]
      /\ \A n \in Pool : back[n] = IF n = behind THEN [ahead[n] EXCEPT !.prev = before]
                                   ELSE IF n = p /\ behind = NULL
                                   THEN [ahead[n] EXCEPT !.tail = before]
                                   ELSE ahead[n]
  <2> HIDE DEF ahead
  <2>1. CASE behind # NULL
    <3>1. behind \in Pool /\ [ahead[behind] EXCEPT !.prev = before] \in Node(V)
      BY <1>2, <1>4, <2>1, FieldsTyped, ZenonT(60)
    <3> QED
      BY <1>2, <1>4, <2>1, <3>1, StoreTyped, SMTT(60)
  <2>2. CASE behind = NULL
    <3>1. [ahead[p] EXCEPT !.tail = before] \in Node(V)
      BY <1>2, <1>4, FieldsTyped, ZenonT(60)
    <3> QED
      BY <1>2, <1>4, <2>2, <3>1, StoreTyped
  <2> QED
    BY <2>1, <2>2
<1>6. /\ done \in [Pool -> Node(V)]
      /\ \A n \in Pool : done[n] = IF n = c THEN alone ELSE back[n]
  <2> HIDE DEF back
  <2>1. alone \in Node(V)
    BY <1>2, <1>5, FieldsTyped, ZenonT(60)
  <2> HIDE DEF alone
  <2> QED
    BY <1>5, <2>1, StoreTyped, SMTT(60)
<1>7. Heap(after)
  <2> HIDE DEF done, after
  <2>1. after.strings \in Int
    BY <1>1, <1>3
  <2> QED
    BY <1>3, <1>6, <2>1 DEF Heap
<1>8. ASSUME NEW n \in Pool
      PROVE  LET y == done[n]
                 o == h.node[n]
             IN  /\ y.tag = o.tag /\ y.val = o.val
                 /\ y.parent = IF n = c THEN NULL ELSE o.parent
                 /\ y.key = IF n = c THEN NULL ELSE o.key
                 /\ y.prev = IF n = c THEN NULL ELSE IF n = behind THEN before ELSE o.prev
                 /\ y.next = IF n = c THEN NULL ELSE IF n = before THEN behind ELSE o.next
                 /\ y.head = IF n = p /\ before = NULL THEN behind ELSE o.head
                 /\ y.tail = IF n = p /\ behind = NULL THEN before ELSE o.tail
  <2>1. /\ h.node[n] \in Node(V) /\ ahead[n] \in Node(V) /\ back[n] \in Node(V)
        /\ back[c] \in Node(V) /\ before # c /\ behind # c
    BY <1>2, <1>4, <1>5, ZenonT(60)
  <2>2. ahead[n] = IF n = before THEN [h.node[n] EXCEPT !.next = behind]
                   ELSE IF n = p /\ before = NULL THEN [h.node[n] EXCEPT !.head = behind]
                   ELSE h.node[n]
    BY <1>4, SMTT(60)
  <2>3. back[n] = IF n = behind THEN [ahead[n] EXCEPT !.prev = before]
                  ELSE IF n = p /\ behind = NULL THEN [ahead[n] EXCEPT !.tail = before]
                  ELSE ahead[n]
    BY <1>5, ZenonT(60)
  <2>4. done[n] = IF n = c THEN alone ELSE back[n]
    BY <1>6, ZenonT(60)
  <2> HIDE DEF done, back, ahead, before, behind
  <2> QED
    BY <1>2, <2>1, <2>2, <2>3, <2>4, SMTT(60) DEF Node
<1> HIDE DEF after, done
<1> QED
  BY <1>3, <1>7, <1>8 DEF after
-----------------------------------------------------------------------------
(***************************************************************************)
(* The lists of children.                                                  *)
(***************************************************************************)
\* A child is a node, and its parent is none of the roots.
LEMMA ChildFacts ==
  ASSUME NEW h, NEW kids, Linked(h, kids), NEW q \in Live(h), NEW i \in 1 .. Len(kids[q])
  PROVE  LET d == kids[q][i]
         IN  /\ d \in Live(h) /\ d \in Pool /\ d # NULL
             /\ h.node[d].parent = q /\ q # NULL
             /\ h.node[d].prev = Slot(kids[q], i - 1) /\ h.node[d].next = Slot(kids[q], i + 1)
             /\ h.node[d].key = NULL <=> h.node[q].tag = "array"
BY PoolFacts DEF Linked, ChildrenAre

\* The ends of a list of children.
LEMMA EndFacts ==
  ASSUME NEW h, NEW kids, Linked(h, kids), NEW p \in Live(h)
  PROVE  LET s == kids[p]
             x == h.node[p]
         IN  /\ s \in Seq(Live(h)) /\ Len(s) \in Nat
             /\ Len(s) = 0 => x.head = NULL /\ x.tail = NULL
             /\ Len(s) # 0 => /\ x.head = s[1] /\ x.tail = s[Len(s)]
                              /\ x.head \in Pool /\ x.tail \in Pool
                              /\ h.node[x.head].parent = p /\ h.node[x.tail].parent = p
<1>1. /\ kids[p] \in Seq(Live(h)) /\ Len(kids[p]) \in Nat
      /\ h.node[p].head = Slot(kids[p], 1) /\ h.node[p].tail = Slot(kids[p], Len(kids[p]))
  BY DEF Linked, ChildrenAre
<1>2. Len(kids[p]) = 0 => h.node[p].head = NULL /\ h.node[p].tail = NULL
  BY <1>1 DEF Slot
<1>3. ASSUME Len(kids[p]) # 0
      PROVE  1 \in 1 .. Len(kids[p]) /\ Len(kids[p]) \in 1 .. Len(kids[p])
  BY <1>1, <1>3
<1> QED
  BY <1>1, <1>2, <1>3, ChildFacts, SMTT(60) DEF Slot

LEMMA AppendSlots ==
  ASSUME NEW V, NEW s \in Seq(V), NEW c
  PROVE  LET t == Append(s, c)
         IN  /\ Len(t) = Len(s) + 1 /\ Len(s) \in Nat
             /\ \A i \in 1 .. Len(s) : t[i] = s[i] /\ Slot(t, i) = s[i]
             /\ t[Len(s) + 1] = c /\ Slot(t, Len(s) + 1) = c
             /\ \A i \in Int : i \notin 1 .. Len(s) + 1 => Slot(t, i) = NULL
<1>1. s \in Seq(V \cup {c}) /\ c \in V \cup {c}
  OBVIOUS
<1>2. /\ Len(Append(s, c)) = Len(s) + 1 /\ Len(s) \in Nat
      /\ \A i \in 1 .. Len(s) : Append(s, c)[i] = s[i]
      /\ Append(s, c)[Len(s) + 1] = c
  BY <1>1, AppendProperties
<1> QED
  BY <1>2 DEF Slot

\* When one list has changed, and no pointer of the other lists,
LEMMA OneListChanged ==
  ASSUME NEW h, NEW kids, Linked(h, kids), NEW after, Live(after) = Live(h),
         NEW p \in Live(h), NEW t, ChildrenAre(after, p, t),
         \A q \in Live(h) : q # p =>
           /\ after.node[q].head = h.node[q].head /\ after.node[q].tail = h.node[q].tail
           /\ after.node[q].tag = h.node[q].tag,
         \A d \in Live(h) : h.node[d].parent \notin {NULL, p} =>
           /\ after.node[d].parent = h.node[d].parent /\ after.node[d].key = h.node[d].key
           /\ after.node[d].prev = h.node[d].prev /\ after.node[d].next = h.node[d].next,
         \A d \in Live(h) : after.node[d].parent = p => \E i \in 1 .. Len(t) : t[i] = d,
         \A d \in Live(h) : after.node[d].parent \in {NULL, p, h.node[d].parent},
         \A d \in Live(h) : after.node[d].parent = NULL =>
           after.node[d].prev = NULL /\ after.node[d].next = NULL /\ after.node[d].key = NULL
  PROVE  Linked(after, [kids EXCEPT ![p] = t])
<1> DEFINE g == [kids EXCEPT ![p] = t]
<1>1. DOMAIN g = Live(h) /\ g[p] = t /\ \A q \in Live(h) : q # p => g[q] = kids[q]
  BY DEF Linked
<1> HIDE DEF g
<1>2. ASSUME NEW q \in Live(h), q # p
      PROVE  ChildrenAre(after, q, kids[q])
  <2>1. /\ kids[q] \in Seq(Live(h))
        /\ h.node[q].head = Slot(kids[q], 1) /\ h.node[q].tail = Slot(kids[q], Len(kids[q]))
        /\ kids[q] # << >> => h.node[q].tag \in Containers
        /\ \A i, j \in 1 .. Len(kids[q]) : kids[q][i] = kids[q][j] => i = j
    BY DEF Linked, ChildrenAre
  <2>2. ASSUME NEW i \in 1 .. Len(kids[q])
        PROVE  LET y == after.node[kids[q][i]]
               IN  /\ y.parent = q
                   /\ y.prev = Slot(kids[q], i - 1) /\ y.next = Slot(kids[q], i + 1)
                   /\ y.key = NULL <=> after.node[q].tag = "array"
    <3> DEFINE d == kids[q][i]
    <3>1. /\ d \in Live(h) /\ h.node[d].parent = q /\ q # NULL
          /\ h.node[d].prev = Slot(kids[q], i - 1) /\ h.node[d].next = Slot(kids[q], i + 1)
          /\ h.node[d].key = NULL <=> h.node[q].tag = "array"
      BY ChildFacts
    <3> HIDE DEF d
    <3>2. /\ after.node[d].parent = q /\ after.node[d].key = h.node[d].key
          /\ after.node[d].prev = h.node[d].prev /\ after.node[d].next = h.node[d].next
          /\ after.node[q].tag = h.node[q].tag
      BY <1>2, <3>1
    <3> QED
      BY <3>1, <3>2 DEF d
  <2> QED
    BY <1>2, <2>1, <2>2 DEF ChildrenAre
<1>3. ASSUME NEW q \in Live(h)
      PROVE  ChildrenAre(after, q, g[q])
  BY <1>1, <1>2
<1>4. ASSUME NEW d \in Live(h), after.node[d].parent # NULL
      PROVE  /\ after.node[d].parent \in Live(h)
             /\ \E i \in 1 .. Len(g[after.node[d].parent]) : g[after.node[d].parent][i] = d
  <2>1. CASE after.node[d].parent = p
    BY <1>1, <2>1
  <2>2. CASE after.node[d].parent # p
    <3> DEFINE q == h.node[d].parent
    <3>1. after.node[d].parent = q
      BY <1>4, <2>2
    <3>2. q \in Live(h) /\ \E i \in 1 .. Len(kids[q]) : kids[q][i] = d
      BY <1>4, <3>1 DEF Linked
    <3> HIDE DEF q
    <3> QED
      BY <1>1, <2>2, <3>1, <3>2
  <2> QED
    BY <2>1, <2>2
<1> QED
  BY <1>1, <1>3, <1>4 DEF Linked, g

LEMMA AppendLinked ==
  ASSUME NEW h, Heap(h), NEW kids, Linked(h, kids),
         NEW p \in Live(h), NEW c \in Live(h), p # c,
         h.node[c].parent = NULL, h.node[p].tag \in Containers,
         NEW k \in Names \cup {NULL}, k = NULL <=> h.node[p].tag = "array"
  PROVE  Linked(AppendNode(SetKey(h, c, k), p, c), [kids EXCEPT ![p] = Append(kids[p], c)])
<1> DEFINE after == AppendNode(SetKey(h, c, k), p, c)
           last == h.node[p].tail
           s == kids[p]
           t == Append(s, c)
<1>1. /\ p \in Pool /\ c \in Pool /\ NULL \notin Pool /\ Live(h) \subseteq Pool
      /\ last \in Pool \cup {NULL} /\ last # c
      /\ last # NULL => h.node[last].parent = p
  BY PoolFacts, EndFacts
<1>2. /\ Attached(h, after, p, c, k)
      /\ \A n \in Pool :
           /\ after.node[n].prev = IF n = c THEN last ELSE h.node[n].prev
           /\ after.node[n].next = IF n = c THEN NULL ELSE IF n = last THEN c ELSE h.node[n].next
           /\ after.node[n].head = IF n = p /\ last = NULL THEN c ELSE h.node[n].head
           /\ after.node[n].tail = IF n = p THEN c ELSE h.node[n].tail
  BY <1>1, AppendStores
<1> HIDE DEF after
<1>3. /\ \A n \in Pool : after.node[n].tag = h.node[n].tag
      /\ \A n \in Pool : after.node[n].parent = IF n = c THEN p ELSE h.node[n].parent
      /\ \A n \in Pool : after.node[n].key = IF n = c THEN k ELSE h.node[n].key
  BY <1>2 DEF Attached
<1>4. Live(after) = Live(h)
  BY <1>3 DEF Live
<1>5. /\ s \in Seq(Live(h)) /\ Len(s) \in Nat
      /\ Len(s) = 0 => last = NULL /\ h.node[p].head = NULL
      /\ Len(s) # 0 => last = s[Len(s)] /\ last # NULL /\ h.node[p].head = s[1]
  BY <1>1, EndFacts
<1>6. /\ Len(t) = Len(s) + 1
      /\ \A i \in 1 .. Len(s) : t[i] = s[i] /\ Slot(t, i) = s[i]
      /\ t[Len(s) + 1] = c /\ Slot(t, Len(s) + 1) = c
      /\ \A i \in Int : i \notin 1 .. Len(s) + 1 => Slot(t, i) = NULL
  BY <1>5, AppendSlots
<1>8. \A i \in 1 .. Len(s) : s[i] # c /\ s[i] \in Pool /\ s[i] \in Live(h)
  BY ChildFacts
<1> HIDE DEF t, last
\* The list that has grown.
<1>9. /\ t \in Seq(Live(h))
      /\ after.node[p].head = Slot(t, 1) /\ after.node[p].tail = Slot(t, Len(t))
      /\ t # << >> => after.node[p].tag \in Containers
  <2>1. t \in Seq(Live(h))
    BY <1>5 DEF t
  <2>2. after.node[p].tail = Slot(t, Len(t))
    BY <1>1, <1>2, <1>6
  <2>3. after.node[p].head = Slot(t, 1)
    <3>1. CASE Len(s) = 0
      BY <1>1, <1>2, <1>5, <1>6, <3>1
    <3>2. CASE Len(s) # 0
      <4>1. 1 \in 1 .. Len(s)
        BY <1>5, <3>2
      <4> QED
        BY <1>1, <1>2, <1>5, <1>6, <3>2, <4>1
    <3> QED
      BY <3>1, <3>2
  <2> QED
    BY <1>1, <1>3, <2>1, <2>2, <2>3
<1>10. ASSUME NEW i \in 1 .. Len(t), NEW j \in 1 .. Len(t), t[i] = t[j]
       PROVE  i = j
  <2>1. i \in 1 .. Len(s) \/ i = Len(s) + 1
    BY <1>5, <1>6
  <2>2. j \in 1 .. Len(s) \/ j = Len(s) + 1
    BY <1>5, <1>6
  <2>3. \A a, b \in 1 .. Len(s) : s[a] = s[b] => a = b
    BY DEF Linked, ChildrenAre
  <2> QED
    BY <1>6, <1>8, <1>10, <2>1, <2>2, <2>3
<1>11. ASSUME NEW i \in 1 .. Len(t)
       PROVE  LET y == after.node[t[i]]
              IN  /\ y.parent = p /\ y.prev = Slot(t, i - 1) /\ y.next = Slot(t, i + 1)
                  /\ y.key = NULL <=> after.node[p].tag = "array"
  <2>1. CASE i = Len(s) + 1
    <3>1. t[i] = c
      BY <1>6, <2>1
    <3>2. after.node[c].parent = p /\ (after.node[c].key = NULL <=> after.node[p].tag = "array")
      BY <1>1, <1>3
    <3>3. Slot(t, i + 1) = NULL /\ after.node[c].next = NULL
      BY <1>1, <1>2, <1>5, <1>6, <2>1
    <3>4. Slot(t, i - 1) = last
      <4>1. CASE Len(s) = 0
        BY <1>5, <1>6, <2>1, <4>1
      <4>2. CASE Len(s) # 0
        <5>1. i - 1 \in 1 .. Len(s) /\ i - 1 = Len(s)
          BY <1>5, <2>1, <4>2
        <5> QED
          BY <1>5, <1>6, <4>2, <5>1
      <4> QED
        BY <4>1, <4>2
    <3> QED
      BY <1>1, <1>2, <3>1, <3>2, <3>3, <3>4
  <2>2. CASE i \in 1 .. Len(s)
    <3> DEFINE d == s[i]
    <3>1. /\ t[i] = d /\ d # c /\ d \in Pool
          /\ h.node[d].parent = p
          /\ h.node[d].prev = Slot(s, i - 1) /\ h.node[d].next = Slot(s, i + 1)
          /\ h.node[d].key = NULL <=> h.node[p].tag = "array"
      BY <1>6, <1>8, <2>2, ChildFacts
    <3>2. after.node[d].parent = p /\ (after.node[d].key = NULL <=> after.node[p].tag = "array")
      BY <1>1, <1>3, <3>1
    <3>3. after.node[d].prev = Slot(t, i - 1)
      <4>1. Slot(t, i - 1) = Slot(s, i - 1)
        <5>1. CASE i = 1
          BY <1>5, <1>6, <5>1 DEF Slot
        <5>2. CASE i # 1
          <6>1. i - 1 \in 1 .. Len(s)
            BY <1>5, <2>2, <5>2
          <6> QED
            BY <1>6, <6>1 DEF Slot
        <5> QED
          BY <5>1, <5>2
      <4> QED
        BY <1>2, <3>1, <4>1
    <3>4. after.node[d].next = Slot(t, i + 1)
      <4>1. CASE i = Len(s)
        <5>1. d = last
          BY <1>5, <2>2, <4>1
        <5> QED
          BY <1>2, <1>6, <3>1, <4>1, <5>1
      <4>2. CASE i # Len(s)
        <5>1. i + 1 \in 1 .. Len(s) /\ Len(s) \in 1 .. Len(s) /\ Len(s) # 0
          BY <1>5, <2>2, <4>2
        <5>2. d # last
          <6>1. \A a, b \in 1 .. Len(s) : s[a] = s[b] => a = b
            BY DEF Linked, ChildrenAre
          <6> QED
            BY <1>5, <2>2, <4>2, <5>1, <6>1
        <5>3. Slot(t, i + 1) = Slot(s, i + 1)
          BY <1>6, <5>1 DEF Slot
        <5> QED
          BY <1>2, <3>1, <5>2, <5>3
      <4> QED
        BY <4>1, <4>2
    <3> HIDE DEF d
    <3> QED
      BY <3>1, <3>2, <3>3, <3>4
  <2> QED
    BY <1>5, <1>6, <2>1, <2>2
<1>12. ChildrenAre(after, p, t)
  BY <1>4, <1>9, <1>10, <1>11 DEF ChildrenAre
<1>13. ASSUME NEW d \in Live(h), after.node[d].parent = p
       PROVE  \E i \in 1 .. Len(t) : t[i] = d
  <2>1. CASE d = c
    <3>1. Len(s) + 1 \in 1 .. Len(t)
      BY <1>5, <1>6
    <3> QED
      BY <1>6, <2>1, <3>1
  <2>2. CASE d # c
    <3>1. h.node[d].parent = p /\ p # NULL
      BY <1>1, <1>3, <1>13, <2>2
    <3>2. PICK i \in 1 .. Len(s) : s[i] = d
      BY <3>1 DEF Linked
    <3>3. i \in 1 .. Len(t) /\ t[i] = d
      BY <1>5, <1>6, <3>2
    <3> QED
      BY <3>3
  <2> QED
    BY <2>1, <2>2
<1>14. ASSUME NEW d \in Live(h), after.node[d].parent = NULL
       PROVE  after.node[d].prev = NULL /\ after.node[d].next = NULL /\ after.node[d].key = NULL
  <2>1. d # c /\ d # last /\ d \in Pool /\ h.node[d].parent = NULL
    BY <1>1, <1>3, <1>14
  <2>2. h.node[d].prev = NULL /\ h.node[d].next = NULL /\ h.node[d].key = NULL
    BY <2>1 DEF Linked
  <2> QED
    BY <1>2, <1>3, <2>1, <2>2
<1>15. ASSUME NEW d \in Live(h), h.node[d].parent \notin {NULL, p}
       PROVE  /\ after.node[d].parent = h.node[d].parent /\ after.node[d].key = h.node[d].key
              /\ after.node[d].prev = h.node[d].prev /\ after.node[d].next = h.node[d].next
  <2>1. d # c /\ d # last /\ d \in Pool
    BY <1>1, <1>15
  <2> QED
    BY <1>2, <1>3, <2>1
<1>16. ASSUME NEW q \in Live(h), q # p
       PROVE  /\ after.node[q].head = h.node[q].head /\ after.node[q].tail = h.node[q].tail
              /\ after.node[q].tag = h.node[q].tag
  BY <1>1, <1>2, <1>3, <1>16
<1>17. \A d \in Live(h) : after.node[d].parent \in {NULL, p, h.node[d].parent}
  BY <1>1, <1>3
<1>18. Linked(after, [kids EXCEPT ![p] = t])
  BY <1>4, <1>12, <1>13, <1>14, <1>15, <1>16, <1>17, OneListChanged
<1> QED
  BY <1>18 DEF after, t

LEMMA PrependSlots ==
  ASSUME NEW V, NEW s \in Seq(V), NEW c
  PROVE  LET t == << c >> \o s
         IN  /\ Len(t) = Len(s) + 1 /\ Len(s) \in Nat
             /\ t[1] = c /\ Slot(t, 1) = c
             /\ \A i \in 1 .. Len(s) : t[i + 1] = s[i] /\ Slot(t, i + 1) = s[i]
             /\ \A i \in Int : i \notin 1 .. Len(s) + 1 => Slot(t, i) = NULL
<1> DEFINE t == << c >> \o s
<1>1. s \in Seq(V \cup {c}) /\ << c >> \in Seq(V \cup {c}) /\ Len(<< c >>) = 1 /\ << c >>[1] = c
  OBVIOUS
<1>2. /\ Len(t) = Len(s) + 1 /\ Len(s) \in Nat
      /\ \A i \in 1 .. Len(s) + 1 : t[i] = IF i <= 1 THEN << c >>[i] ELSE s[i - 1]
  <2>1. /\ Len(<< c >> \o s) = Len(<< c >>) + Len(s)
        /\ \A i \in 1 .. Len(<< c >>) + Len(s) :
             (<< c >> \o s)[i] = IF i <= Len(<< c >>) THEN << c >>[i] ELSE s[i - Len(<< c >>)]
    BY <1>1, ConcatProperties
  <2> QED
    BY <1>1, <2>1
<1> HIDE DEF t
<1>3. t[1] = c
  BY <1>1, <1>2
<1>4. ASSUME NEW i \in 1 .. Len(s)
      PROVE  t[i + 1] = s[i] /\ i + 1 \in 1 .. Len(t)
  <2>1. i + 1 \in 1 .. Len(s) + 1 /\ ~(i + 1 <= 1) /\ (i + 1) - 1 = i
    BY <1>2
  <2> QED
    BY <1>2, <2>1
<1> QED
  BY <1>2, <1>3, <1>4 DEF Slot, t

LEMMA PrependLinked ==
  ASSUME NEW h, Heap(h), NEW kids, Linked(h, kids),
         NEW p \in Live(h), NEW c \in Live(h), p # c,
         h.node[c].parent = NULL, h.node[p].tag \in Containers,
         NEW k \in Names \cup {NULL}, k = NULL <=> h.node[p].tag = "array"
  PROVE  Linked(PrependNode(SetKey(h, c, k), p, c), [kids EXCEPT ![p] = << c >> \o kids[p]])
<1> DEFINE after == PrependNode(SetKey(h, c, k), p, c)
           first == h.node[p].head
           s == kids[p]
           t == << c >> \o s
<1>1. /\ p \in Pool /\ c \in Pool /\ NULL \notin Pool /\ Live(h) \subseteq Pool
      /\ first \in Pool \cup {NULL} /\ first # c
      /\ first # NULL => h.node[first].parent = p
  BY PoolFacts, EndFacts
<1>2. /\ Attached(h, after, p, c, k)
      /\ \A n \in Pool :
           /\ after.node[n].prev = IF n = c THEN NULL ELSE IF n = first THEN c ELSE h.node[n].prev
           /\ after.node[n].next = IF n = c THEN first ELSE h.node[n].next
           /\ after.node[n].tail = IF n = p /\ first = NULL THEN c ELSE h.node[n].tail
           /\ after.node[n].head = IF n = p THEN c ELSE h.node[n].head
  BY <1>1, PrependStores
<1> HIDE DEF after
<1>3. /\ \A n \in Pool : after.node[n].tag = h.node[n].tag
      /\ \A n \in Pool : after.node[n].parent = IF n = c THEN p ELSE h.node[n].parent
      /\ \A n \in Pool : after.node[n].key = IF n = c THEN k ELSE h.node[n].key
  BY <1>2 DEF Attached
<1>4. Live(after) = Live(h)
  BY <1>3 DEF Live
<1>5. /\ s \in Seq(Live(h)) /\ Len(s) \in Nat
      /\ Len(s) = 0 => first = NULL /\ h.node[p].tail = NULL
      /\ Len(s) # 0 => first = s[1] /\ first # NULL /\ h.node[p].tail = s[Len(s)]
  BY <1>1, EndFacts
<1>6. /\ Len(t) = Len(s) + 1
      /\ t[1] = c /\ Slot(t, 1) = c
      /\ \A i \in 1 .. Len(s) : t[i + 1] = s[i] /\ Slot(t, i + 1) = s[i]
      /\ \A i \in Int : i \notin 1 .. Len(s) + 1 => Slot(t, i) = NULL
  BY <1>5, PrependSlots, SMTT(60)
<1>7. /\ \A i \in 1 .. Len(s) : s[i] # c /\ s[i] \in Pool /\ s[i] \in Live(h)
      /\ \A a, b \in 1 .. Len(s) : s[a] = s[b] => a = b
  <2>1. \A a, b \in 1 .. Len(s) : s[a] = s[b] => a = b
    BY DEF Linked, ChildrenAre
  <2> QED
    BY <2>1, ChildFacts
<1>8. ASSUME NEW i \in 1 .. Len(t), i # 1
      PROVE  i - 1 \in 1 .. Len(s) /\ t[i] = s[i - 1] /\ Slot(t, i) = s[i - 1]
  <2>1. i - 1 \in 1 .. Len(s) /\ (i - 1) + 1 = i
    BY <1>5, <1>6, <1>8
  <2> QED
    BY <1>6, <2>1
<1>9. t \in Seq(Live(h))
  BY <1>5
<1> HIDE DEF t, first
<1>10. /\ after.node[p].head = Slot(t, 1) /\ after.node[p].tail = Slot(t, Len(t))
       /\ t # << >> => after.node[p].tag \in Containers
  <2>1. after.node[p].head = Slot(t, 1)
    BY <1>1, <1>2, <1>6
  <2>2. after.node[p].tail = Slot(t, Len(t))
    <3>1. CASE Len(s) = 0
      BY <1>1, <1>2, <1>5, <1>6, <3>1
    <3>2. CASE Len(s) # 0
      <4>1. Len(s) \in 1 .. Len(s)
        BY <1>5, <3>2
      <4> QED
        BY <1>1, <1>2, <1>5, <1>6, <3>2, <4>1
    <3> QED
      BY <3>1, <3>2
  <2> QED
    BY <1>1, <1>3, <2>1, <2>2
<1>11. ASSUME NEW i \in 1 .. Len(t), NEW j \in 1 .. Len(t), t[i] = t[j]
       PROVE  i = j
  <2>1. CASE i = 1 \/ j = 1
    BY <1>6, <1>7, <1>8, <1>11, <2>1, SMTT(60)
  <2>2. CASE i # 1 /\ j # 1
    <3>1. i - 1 = j - 1
      BY <1>7, <1>8, <1>11, <2>2, SMTT(60)
    <3> QED
      BY <1>5, <1>6, <3>1
  <2> QED
    BY <2>1, <2>2
<1>12. ASSUME NEW i \in 1 .. Len(t)
       PROVE  LET y == after.node[t[i]]
              IN  /\ y.parent = p /\ y.prev = Slot(t, i - 1) /\ y.next = Slot(t, i + 1)
                  /\ y.key = NULL <=> after.node[p].tag = "array"
  <2>1. CASE i = 1
    <3>1. t[i] = c
      BY <1>6, <2>1
    <3>2. after.node[c].parent = p /\ (after.node[c].key = NULL <=> after.node[p].tag = "array")
      BY <1>1, <1>3
    <3>3. Slot(t, i - 1) = NULL /\ after.node[c].prev = NULL
      BY <1>1, <1>2, <1>5, <1>6, <2>1
    <3>4. Slot(t, i + 1) = first
      <4>1. CASE Len(s) = 0
        BY <1>5, <1>6, <2>1, <4>1
      <4>2. CASE Len(s) # 0
        <5>1. 1 \in 1 .. Len(s)
          BY <1>5, <4>2
        <5> QED
          BY <1>5, <1>6, <2>1, <4>2, <5>1
      <4> QED
        BY <4>1, <4>2
    <3> QED
      BY <1>1, <1>2, <3>1, <3>2, <3>3, <3>4
  <2>2. CASE i # 1
    <3> DEFINE j == i - 1
               d == s[j]
    <3>1. j \in 1 .. Len(s) /\ j + 1 = i /\ t[i] = d
      BY <1>8, <2>2
    <3> HIDE DEF j
    <3>2. /\ d # c /\ d \in Pool /\ h.node[d].parent = p
          /\ h.node[d].prev = Slot(s, j - 1) /\ h.node[d].next = Slot(s, j + 1)
          /\ h.node[d].key = NULL <=> h.node[p].tag = "array"
      BY <1>7, <3>1, ChildFacts, SMTT(60)
    <3>3. after.node[d].parent = p /\ (after.node[d].key = NULL <=> after.node[p].tag = "array")
      BY <1>1, <1>3, <3>2
    <3>4. after.node[d].next = Slot(t, i + 1)
      <4>1. Slot(t, i + 1) = Slot(s, j + 1)
        <5>1. CASE j = Len(s)
          BY <1>5, <1>6, <3>1, <5>1 DEF Slot
        <5>2. CASE j # Len(s)
          <6>1. j + 1 \in 1 .. Len(s)
            BY <1>5, <3>1, <5>2
          <6> QED
            BY <1>6, <3>1, <6>1 DEF Slot
        <5> QED
          BY <5>1, <5>2
      <4> QED
        BY <1>2, <3>2, <4>1
    <3>5. after.node[d].prev = Slot(t, i - 1)
      <4>1. CASE j = 1
        <5>1. d = first
          BY <1>5, <3>1, <4>1
        <5>2. i - 1 = 1
          BY <3>1, <4>1
        <5> QED
          BY <1>2, <1>6, <3>2, <5>1, <5>2
      <4>2. CASE j # 1
        <5>1. j - 1 \in 1 .. Len(s) /\ 1 \in 1 .. Len(s) /\ Len(s) # 0 /\ (j - 1) + 1 = i - 1
          BY <1>5, <3>1, <4>2, SMTT(60)
        <5>2. d # first
          BY <1>5, <1>7, <3>1, <4>2, <5>1
        <5>3. Slot(t, i - 1) = s[j - 1] /\ Slot(s, j - 1) = s[j - 1]
          BY <1>6, <5>1 DEF Slot
        <5> QED
          BY <1>2, <3>2, <5>2, <5>3
      <4> QED
        BY <4>1, <4>2
    <3> HIDE DEF d
    <3> QED
      BY <3>1, <3>3, <3>4, <3>5
  <2> QED
    BY <2>1, <2>2
<1>13. ChildrenAre(after, p, t)
  BY <1>4, <1>9, <1>10, <1>11, <1>12 DEF ChildrenAre
<1>14. ASSUME NEW d \in Live(h), after.node[d].parent = p
       PROVE  \E i \in 1 .. Len(t) : t[i] = d
  <2>1. CASE d = c
    <3>1. 1 \in 1 .. Len(t)
      BY <1>5, <1>6
    <3> QED
      BY <1>6, <2>1, <3>1
  <2>2. CASE d # c
    <3>1. h.node[d].parent = p /\ p # NULL
      BY <1>1, <1>3, <1>14, <2>2
    <3>2. PICK i \in 1 .. Len(s) : s[i] = d
      BY <3>1 DEF Linked
    <3>3. i + 1 \in 1 .. Len(t) /\ t[i + 1] = d
      BY <1>5, <1>6, <3>2
    <3> QED
      BY <3>3
  <2> QED
    BY <2>1, <2>2
<1>15. ASSUME NEW d \in Live(h), after.node[d].parent = NULL
       PROVE  after.node[d].prev = NULL /\ after.node[d].next = NULL /\ after.node[d].key = NULL
  <2>1. d # c /\ d # first /\ d \in Pool /\ h.node[d].parent = NULL
    BY <1>1, <1>3, <1>15
  <2>2. h.node[d].prev = NULL /\ h.node[d].next = NULL /\ h.node[d].key = NULL
    BY <2>1 DEF Linked
  <2> QED
    BY <1>2, <1>3, <2>1, <2>2
<1>16. ASSUME NEW d \in Live(h), h.node[d].parent \notin {NULL, p}
       PROVE  /\ after.node[d].parent = h.node[d].parent /\ after.node[d].key = h.node[d].key
              /\ after.node[d].prev = h.node[d].prev /\ after.node[d].next = h.node[d].next
  <2>1. d # c /\ d # first /\ d \in Pool
    BY <1>1, <1>16
  <2> QED
    BY <1>2, <1>3, <2>1
<1>17. ASSUME NEW q \in Live(h), q # p
       PROVE  /\ after.node[q].head = h.node[q].head /\ after.node[q].tail = h.node[q].tail
              /\ after.node[q].tag = h.node[q].tag
  BY <1>1, <1>2, <1>3, <1>17
<1>18. \A d \in Live(h) : after.node[d].parent \in {NULL, p, h.node[d].parent}
  BY <1>1, <1>3
<1>19. Linked(after, [kids EXCEPT ![p] = t])
  BY <1>4, <1>13, <1>14, <1>15, <1>16, <1>17, <1>18, OneListChanged
<1> QED
  BY <1>19 DEF after, t

\* A list of children without its k-th.
Without(s, k) == SubSeq(s, 1, k - 1) \o SubSeq(s, k + 1, Len(s))

LEMMA WithoutSlots ==
  ASSUME NEW V, NEW s \in Seq(V), NEW k \in 1 .. Len(s)
  PROVE  LET t == Without(s, k)
         IN  /\ t \in Seq(V) /\ Len(s) \in Nat /\ Len(t) = Len(s) - 1
             /\ \A i \in 1 .. Len(t) : t[i] = IF i < k THEN s[i] ELSE s[i + 1]
             /\ \A i \in Int : Slot(t, i) = IF i < k THEN Slot(s, i) ELSE Slot(s, i + 1)
<1> DEFINE t == Without(s, k)
<1>1. Len(s) \in Nat /\ k \in Nat /\ \A i \in 1 .. Len(s) : s[i] \in V
  OBVIOUS
<1>2. t \in Seq(V) /\ Len(t) = Len(s) - 1
      /\ \A i \in 1 .. Len(t) : t[i] = IF i < k THEN s[i] ELSE s[i + 1]
  <2> DEFINE a == SubSeq(s, 1, k - 1)
             b == SubSeq(s, k + 1, Len(s))
  <2>1. a \in Seq(V) /\ Len(a) = k - 1 /\ \A i \in 1 .. k - 1 : a[i] = s[i]
    BY <1>1, SubSeqProperties
  <2>2. b \in Seq(V) /\ Len(b) = Len(s) - k /\ \A i \in 1 .. Len(s) - k : b[i] = s[k + i]
    BY <1>1, SubSeqProperties
  <2>3. t = a \o b
    BY DEF Without
  <2> HIDE DEF a, b, t
  <2>4. /\ t \in Seq(V) /\ Len(t) = Len(a) + Len(b)
        /\ \A i \in 1 .. Len(a) + Len(b) : t[i] = IF i <= Len(a) THEN a[i] ELSE b[i - Len(a)]
    BY <2>1, <2>2, <2>3, ConcatProperties, ZenonT(60)
  <2>5. Len(t) = Len(s) - 1
    BY <1>1, <2>1, <2>2, <2>4
  <2>6. ASSUME NEW i \in 1 .. Len(s) - 1
        PROVE  t[i] = IF i < k THEN s[i] ELSE s[i + 1]
    <3>1. CASE i < k
      <4>1. i \in 1 .. k - 1 /\ i \in 1 .. Len(a) + Len(b) /\ i <= Len(a)
        BY <1>1, <2>1, <2>2, <3>1, SMTT(60)
      <4> QED
        BY <2>1, <2>4, <3>1, <4>1
    <3>2. CASE ~(i < k)
      <4>1. i - Len(a) \in 1 .. Len(s) - k /\ k + (i - Len(a)) = i + 1
        BY <1>1, <2>1, <3>2
      <4>2. b[i - Len(a)] = s[i + 1]
        BY <2>2, <4>1
      <4>3. i \in 1 .. Len(a) + Len(b) /\ ~(i <= Len(a))
        BY <1>1, <2>1, <2>2, <3>2, SMTT(60)
      <4>4. t[i] = b[i - Len(a)]
        BY <2>4, <4>3
      <4> QED
        BY <3>2, <4>2, <4>4
    <3> QED
      BY <3>1, <3>2
  <2> QED
    BY <2>4, <2>5, <2>6
<1> HIDE DEF t
<1>3. ASSUME NEW i \in Int
      PROVE  Slot(t, i) = IF i < k THEN Slot(s, i) ELSE Slot(s, i + 1)
  <2>1. CASE i \in 1 .. Len(t)
    <3>1. i < k => i \in 1 .. Len(s)
      BY <1>1, <1>2, <2>1
    <3>2. i + 1 \in 1 .. Len(s)
      BY <1>1, <1>2, <2>1
    <3> QED
      BY <1>2, <2>1, <3>1, <3>2 DEF Slot
  <2>2. CASE i \notin 1 .. Len(t)
    <3>1. i < k => i \notin 1 .. Len(s)
      BY <1>1, <1>2, <2>2
    <3>2. i >= k => i + 1 \notin 1 .. Len(s)
      BY <1>1, <1>2, <2>2
    <3> QED
      BY <1>1, <2>2, <3>1, <3>2 DEF Slot
  <2> QED
    BY <2>1, <2>2
<1> QED
  BY <1>1, <1>2, <1>3 DEF t

LEMMA RemoveLinked ==
  ASSUME NEW h, Heap(h), NEW kids, Linked(h, kids),
         NEW p \in Live(h), NEW k \in 1 .. Len(kids[p]), kids[p][k] # p
  PROVE  Linked(RemoveFromParent(h, kids[p][k]), [kids EXCEPT ![p] = Without(kids[p], k)])
<1> DEFINE s == kids[p]
           c == s[k]
           after == RemoveFromParent(h, c)
           before == h.node[c].prev
           behind == h.node[c].next
           t == Without(s, k)
<1>1. /\ s \in Seq(Live(h)) /\ Len(s) \in Nat /\ k \in 1 .. Len(s)
      /\ h.node[p].head = Slot(s, 1) /\ h.node[p].tail = Slot(s, Len(s))
      /\ h.node[p].tag \in Containers
      /\ \A i, j \in 1 .. Len(s) : s[i] = s[j] => i = j
  <2>1. s # << >>
    BY EmptySeq
  <2> QED
    BY <2>1 DEF Linked, ChildrenAre
<1>2. /\ p \in Pool /\ NULL \notin Pool /\ Live(h) \subseteq Pool
      /\ \A i \in 1 .. Len(s) : s[i] \in Live(h) /\ s[i] \in Pool /\ h.node[s[i]].parent = p
  BY PoolFacts, ChildFacts
<1>3. c \in Pool /\ c \in Live(h) /\ h.node[c].parent = p /\ c # p
  BY <1>1, <1>2
<1>4. before = Slot(s, k - 1) /\ behind = Slot(s, k + 1)
  BY ChildFacts
<1>5. \A i \in Int : Slot(s, i) = c => i = k
  BY <1>1, <1>2, <1>3 DEF Slot
<1>6. \A i \in Int : Slot(s, i) # NULL => Slot(s, i) \in Pool /\ h.node[Slot(s, i)].parent = p
  BY <1>2 DEF Slot
<1>7. before # c /\ behind # c /\ before \in Pool \cup {NULL} /\ behind \in Pool \cup {NULL}
  BY <1>1, <1>4, <1>5, <1>6, SMTT(60)
<1>8. \A n \in Pool :
        LET x == h.node[n]
            y == after.node[n]
        IN  /\ y.tag = x.tag
            /\ y.parent = IF n = c THEN NULL ELSE x.parent
            /\ y.key = IF n = c THEN NULL ELSE x.key
            /\ y.prev = IF n = c THEN NULL ELSE IF n = behind THEN before ELSE x.prev
            /\ y.next = IF n = c THEN NULL ELSE IF n = before THEN behind ELSE x.next
            /\ y.head = IF n = p /\ before = NULL THEN behind ELSE x.head
            /\ y.tail = IF n = p /\ behind = NULL THEN before ELSE x.tail
  BY <1>2, <1>3, <1>7, RemoveStores
<1>9. Live(after) = Live(h)
  BY <1>8 DEF Live
<1>10. /\ t \in Seq(Live(h)) /\ Len(t) = Len(s) - 1
       /\ \A i \in 1 .. Len(t) : t[i] = IF i < k THEN s[i] ELSE s[i + 1]
       /\ \A i \in Int : Slot(t, i) = IF i < k THEN Slot(s, i) ELSE Slot(s, i + 1)
  BY <1>1, WithoutSlots, ZenonT(60)
<1>a. k \in Int /\ 1 <= k /\ k <= Len(s) /\ Len(s) \in Nat /\ Len(t) \in Nat /\ Len(t) = Len(s) - 1
  BY <1>1, <1>10
<1>b. \A i \in Int : i < k => Slot(t, i) = Slot(s, i)
  BY <1>10
<1>c. \A i \in Int : ~(i < k) => Slot(t, i) = Slot(s, i + 1)
  BY <1>10
<1>d. /\ after.node[p].head = IF before = NULL THEN behind ELSE Slot(s, 1)
      /\ after.node[p].tail = IF behind = NULL THEN before ELSE Slot(s, Len(s))
  BY <1>1, <1>2, <1>8
<1>e. \A j \in 1 .. Len(s) :
        /\ h.node[s[j]].prev = Slot(s, j - 1) /\ h.node[s[j]].next = Slot(s, j + 1)
        /\ h.node[s[j]].key = NULL <=> h.node[p].tag = "array"
  BY ChildFacts
<1> HIDE DEF after, t, c, before, behind
<1>11. after.node[p].head = Slot(t, 1) /\ after.node[p].tail = Slot(t, Len(t))
  <2>1. after.node[p].head = Slot(t, 1)
    <3>1. CASE k = 1
      <4>1. before = NULL
        BY <1>4, <3>1 DEF Slot
      <4>2. Slot(t, 1) = Slot(s, k + 1)
        BY <1>c, <3>1
      <4> QED
        BY <1>4, <1>d, <4>1, <4>2
    <3>2. CASE k # 1
      <4>1. k - 1 \in 1 .. Len(s) /\ 1 < k
        BY <1>1, <3>2
      <4>2. before # NULL
        BY <1>2, <1>4, <4>1 DEF Slot
      <4>3. Slot(t, 1) = Slot(s, 1)
        BY <1>b, <4>1
      <4> QED
        BY <1>d, <4>2, <4>3
    <3> QED
      BY <3>1, <3>2
  <2>2. after.node[p].tail = Slot(t, Len(t))
    <3>1. CASE k = Len(s)
      <4>1. behind = NULL
        BY <1>1, <1>4, <3>1 DEF Slot
      <4>2. Len(t) \in Int /\ Len(t) < k /\ Len(t) = k - 1
        BY <1>a, <3>1
      <4>3. Slot(t, Len(t)) = Slot(s, k - 1)
        BY <1>b, <4>2
      <4> QED
        BY <1>4, <1>d, <4>1, <4>3
    <3>2. CASE k # Len(s)
      <4>1. k + 1 \in 1 .. Len(s) /\ ~(Len(t) < k) /\ Len(t) + 1 = Len(s) /\ Len(t) \in Int
        BY <1>a, <3>2
      <4>2. behind # NULL
        BY <1>2, <1>4, <4>1 DEF Slot
      <4>3. Slot(t, Len(t)) = Slot(s, Len(s))
        BY <1>c, <4>1
      <4> QED
        BY <1>d, <4>2, <4>3
    <3> QED
      BY <3>1, <3>2
  <2> QED
    BY <2>1, <2>2
\* Where the other children of p stand, before and after.
<1>12. ASSUME NEW i \in 1 .. Len(t)
       PROVE  LET j == IF i < k THEN i ELSE i + 1
              IN  j \in 1 .. Len(s) /\ j # k /\ t[i] = s[j]
  <2>0. t[i] = IF i < k THEN s[i] ELSE s[i + 1]
    BY <1>10
  <2>1. CASE i < k
    <3>1. i \in 1 .. Len(s) /\ i # k
      BY <1>a, <2>1
    <3> QED
      BY <2>0, <2>1, <3>1
  <2>2. CASE ~(i < k)
    <3>1. i + 1 \in 1 .. Len(s) /\ i + 1 # k
      BY <1>a, <2>2
    <3> QED
      BY <2>0, <2>2, <3>1
  <2> QED
    BY <2>1, <2>2
<1>13. ASSUME NEW i \in 1 .. Len(t), NEW j \in 1 .. Len(t), t[i] = t[j]
       PROVE  i = j
  <2> DEFINE a == IF i < k THEN i ELSE i + 1
             b == IF j < k THEN j ELSE j + 1
  <2>1. a \in 1 .. Len(s) /\ b \in 1 .. Len(s) /\ s[a] = s[b]
    BY <1>12, <1>13
  <2>2. a = b
    BY <1>1, <2>1
  <2> QED
    BY <1>a, <2>2
<1>14. ASSUME NEW i \in 1 .. Len(t)
       PROVE  LET y == after.node[t[i]]
              IN  /\ y.parent = p /\ y.prev = Slot(t, i - 1) /\ y.next = Slot(t, i + 1)
                  /\ y.key = NULL <=> after.node[p].tag = "array"
  <2> DEFINE j == IF i < k THEN i ELSE i + 1
             d == s[j]
  <2>1. j \in 1 .. Len(s) /\ j # k /\ t[i] = d
    BY <1>12
  <2>2. /\ d # c /\ d \in Pool /\ h.node[d].parent = p
        /\ h.node[d].prev = Slot(s, j - 1) /\ h.node[d].next = Slot(s, j + 1)
        /\ h.node[d].key = NULL <=> h.node[p].tag = "array"
    <3> HIDE DEF j
    <3>1. d # c
      BY <1>1, <2>1 DEF c
    <3> QED
      BY <1>2, <1>e, <2>1, <3>1
  <2>3. after.node[d].parent = p /\ (after.node[d].key = NULL <=> after.node[p].tag = "array")
    BY <1>2, <1>8, <2>2
  <2>4. Slot(s, j) = d
    BY <2>1 DEF Slot
  <2>5. d = behind <=> j = k + 1
    <3>1. d = behind => j = k + 1
      <4> SUFFICES ASSUME d = behind PROVE j = k + 1
        OBVIOUS
      <4>1. k + 1 \in 1 .. Len(s)
        BY <1>2, <1>4, <2>2 DEF Slot
      <4>2. s[k + 1] = s[j]
        BY <1>4, <4>1 DEF Slot
      <4> QED
        BY <1>1, <2>1, <4>1, <4>2
    <3>2. j = k + 1 => d = behind
      BY <1>4, <2>4
    <3> QED
      BY <3>1, <3>2
  <2>6. d = before <=> j = k - 1
    <3>1. d = before => j = k - 1
      <4> SUFFICES ASSUME d = before PROVE j = k - 1
        OBVIOUS
      <4>1. k - 1 \in 1 .. Len(s)
        BY <1>2, <1>4, <2>2 DEF Slot
      <4>2. s[k - 1] = s[j]
        BY <1>4, <4>1 DEF Slot
      <4> QED
        BY <1>1, <2>1, <4>1, <4>2
    <3>2. j = k - 1 => d = before
      BY <1>4, <2>4
    <3> QED
      BY <3>1, <3>2
  <2> HIDE DEF d
  <2>7. after.node[d].prev = IF j = k + 1 THEN Slot(s, k - 1) ELSE Slot(s, j - 1)
    BY <1>4, <1>8, <2>2, <2>5
  <2>8. after.node[d].next = IF j = k - 1 THEN Slot(s, k + 1) ELSE Slot(s, j + 1)
    BY <1>4, <1>8, <2>2, <2>6
  <2>9. Slot(t, i - 1) = IF j = k + 1 THEN Slot(s, k - 1) ELSE Slot(s, j - 1)
    <3>1. CASE i < k
      <4>1. i - 1 < k /\ j = i /\ j # k + 1 /\ i - 1 \in Int
        BY <1>a, <3>1
      <4> QED
        BY <1>b, <1>c, <4>1
    <3>2. CASE i = k
      <4>1. i - 1 < k /\ j = k + 1 /\ i - 1 \in Int /\ i - 1 = k - 1
        BY <1>a, <3>2
      <4> QED
        BY <1>b, <1>c, <4>1
    <3>3. CASE i > k
      <4>1. ~(i - 1 < k) /\ j # k + 1 /\ i - 1 \in Int /\ (i - 1) + 1 = j - 1
        BY <1>a, <3>3
      <4> QED
        BY <1>b, <1>c, <4>1
    <3> QED
      BY <1>a, <3>1, <3>2, <3>3
  <2>10. Slot(t, i + 1) = IF j = k - 1 THEN Slot(s, k + 1) ELSE Slot(s, j + 1)
    <3>1. CASE i + 1 < k
      <4>1. j = i /\ j # k - 1 /\ i + 1 \in Int
        BY <1>a, <3>1
      <4> QED
        BY <1>b, <3>1, <4>1
    <3>2. CASE i + 1 = k
      <4>1. ~(i + 1 < k) /\ j = k - 1 /\ i + 1 \in Int
        BY <1>a, <3>2
      <4> QED
        BY <1>c, <3>2, <4>1
    <3>3. CASE i + 1 > k
      <4>1. ~(i + 1 < k) /\ j # k - 1 /\ i + 1 \in Int /\ j = i + 1
        BY <1>a, <3>3
      <4> QED
        BY <1>b, <1>c, <4>1
    <3> QED
      BY <1>a, <3>1, <3>2, <3>3
  <2> QED
    BY <2>1, <2>3, <2>7, <2>8, <2>9, <2>10
<1>15. ChildrenAre(after, p, t)
  BY <1>1, <1>2, <1>8, <1>9, <1>10, <1>11, <1>13, <1>14 DEF ChildrenAre
<1>16. ASSUME NEW d \in Live(h), after.node[d].parent = p
       PROVE  \E i \in 1 .. Len(t) : t[i] = d
  <2>1. d # c /\ h.node[d].parent = p /\ p # NULL
    BY <1>2, <1>8, <1>16
  <2>2. PICK j \in 1 .. Len(s) : s[j] = d
    BY <2>1 DEF Linked
  <2>3. j # k
    BY <2>1, <2>2 DEF c
  <2>4. CASE j < k
    <3>1. j \in 1 .. Len(t)
      BY <1>a, <2>2, <2>4
    <3>2. t[j] = d
      BY <1>10, <2>2, <2>4, <3>1
    <3> QED
      BY <3>1, <3>2
  <2>5. CASE j > k
    <3>1. j - 1 \in 1 .. Len(t) /\ ~(j - 1 < k) /\ (j - 1) + 1 = j
      BY <1>a, <2>2, <2>5, SMTT(60)
    <3>2. t[j - 1] = d
      BY <1>10, <2>2, <3>1
    <3> QED
      BY <3>1, <3>2
  <2> QED
    BY <1>1, <2>2, <2>3, <2>4, <2>5
<1>17. ASSUME NEW d \in Live(h), after.node[d].parent = NULL
       PROVE  after.node[d].prev = NULL /\ after.node[d].next = NULL /\ after.node[d].key = NULL
  <2>1. CASE d = c
    BY <1>2, <1>8, <2>1
  <2>2. CASE d # c
    <3>1. d \in Pool /\ h.node[d].parent = NULL /\ d # before /\ d # behind
      BY <1>2, <1>4, <1>6, <1>1, <1>8, <1>17, <2>2
    <3>2. h.node[d].prev = NULL /\ h.node[d].next = NULL /\ h.node[d].key = NULL
      BY <3>1 DEF Linked
    <3> QED
      BY <1>8, <2>2, <3>1, <3>2
  <2> QED
    BY <2>1, <2>2
<1>18. ASSUME NEW d \in Live(h), h.node[d].parent \notin {NULL, p}
       PROVE  /\ after.node[d].parent = h.node[d].parent /\ after.node[d].key = h.node[d].key
              /\ after.node[d].prev = h.node[d].prev /\ after.node[d].next = h.node[d].next
  <2>1. d # c /\ d # before /\ d # behind /\ d \in Pool
    BY <1>1, <1>2, <1>3, <1>4, <1>6, <1>18
  <2> QED
    BY <1>8, <2>1
<1>19. ASSUME NEW q \in Live(h), q # p
       PROVE  /\ after.node[q].head = h.node[q].head /\ after.node[q].tail = h.node[q].tail
              /\ after.node[q].tag = h.node[q].tag
  BY <1>2, <1>8, <1>19
<1>20. \A d \in Live(h) : after.node[d].parent \in {NULL, p, h.node[d].parent}
  BY <1>2, <1>8
<1>21. Linked(after, [kids EXCEPT ![p] = t])
  BY <1>9, <1>15, <1>16, <1>17, <1>18, <1>19, <1>20, OneListChanged
<1> QED
  BY <1>21 DEF after, t, c

-----------------------------------------------------------------------------
(***************************************************************************)
(* Nodes come and go.                                                      *)
(***************************************************************************)
LEMMA FreshTyped ==
  ASSUME NEW V, NEW tag \in Tags, NEW val
  PROVE  /\ Fresh(tag, val) \in Node(V \cup {val}) /\ Free \in Node(V \cup {Junk})
         /\ LET x == Fresh(tag, val)
            IN  /\ x.tag = tag /\ x.parent = NULL /\ x.prev = NULL /\ x.next = NULL
                /\ x.key = NULL /\ x.head = NULL /\ x.tail = NULL
         /\ Free.tag = Junk
<1>1. DOMAIN Fresh(Junk, Junk) = {"tag", "val", "parent", "prev", "next", "key", "head", "tail"}
  BY DEF Fresh
<1>2. Free = [tag |-> Junk, val |-> Junk, parent |-> Junk, prev |-> Junk, next |-> Junk,
              key |-> Junk, head |-> Junk, tail |-> Junk]
  BY <1>1 DEF Free
<1>3. Free \in Node(V \cup {Junk}) /\ Free.tag = Junk
  BY <1>2 DEF Node, Pointers
<1> QED
  BY <1>3 DEF Fresh, Node, Pointers

\* Nodes that hold one value more are nodes.
LEMMA NodesGrow ==
  ASSUME NEW V, NEW v, NEW N \in [Pool -> Node(V)], NEW a \in Pool, NEW r \in Node(V \cup {v})
  PROVE  /\ [N EXCEPT ![a] = r] \in [Pool -> Node(V \cup {v})]
         /\ \A n \in Pool : [N EXCEPT ![a] = r][n] = IF n = a THEN r ELSE N[n]
<1>1. Node(V) \subseteq Node(V \cup {v})
  BY DEF Node
<1>2. N \in [Pool -> Node(V \cup {v})]
  BY <1>1
<1> QED
  BY <1>2, StoreTyped

LEMMA NextFreeIsFree ==
  ASSUME NEW h, Live(h) # Pool
  PROVE  NextFree(h) \in Pool \ Live(h)
<1>1. Pool \ Live(h) # {} /\ Pool \ Live(h) \subseteq Nat
  <2>1. Pool \subseteq Nat
    BY DEF Pool
  <2> QED
    BY <2>1, PoolFacts
<1>2. \E n \in Pool \ Live(h) : \A o \in Pool \ Live(h) : n <= o
  BY <1>1, LeastNumber
<1> QED
  BY <1>2 DEF NextFree

LEMMA MakeStores ==
  ASSUME NEW h, Heap(h), NEW n \in Pool \ Live(h), NEW tag \in Tags, NEW val
  PROVE  LET after == MkNode(h, n, tag, val)
         IN  /\ Heap(after) /\ after.strings = h.strings
             /\ \A m \in Pool : after.node[m] = IF m = n THEN Fresh(tag, val) ELSE h.node[m]
             /\ Live(after) = Live(h) \cup {n}
<1>1. PICK V : h \in [node : [Pool -> Node(V)], strings : Int]
  BY DEF Heap
<1> DEFINE r == Fresh(tag, val)
           done == [h.node EXCEPT ![n] = r]
           after == MkNode(h, n, tag, val)
<1>2. r \in Node(V \cup {val}) /\ r.tag = tag
  BY FreshTyped
<1> HIDE DEF r
<1>3. done \in [Pool -> Node(V \cup {val})] /\ \A m \in Pool : done[m] = IF m = n THEN r ELSE h.node[m]
  BY <1>1, <1>2, NodesGrow
<1>4. after = [node |-> done, strings |-> h.strings]
  BY <1>1 DEF MkNode, r
<1> HIDE DEF done, after
<1>5. Heap(after)
  BY <1>1, <1>3, <1>4 DEF Heap
<1>6. Live(after) = Live(h) \cup {n}
  BY <1>2, <1>3, <1>4, PoolFacts DEF Live
<1> QED
  BY <1>3, <1>4, <1>5, <1>6 DEF after, r

LEMMA FreeStores ==
  ASSUME NEW h, Heap(h), NEW n \in Live(h)
  PROVE  LET after == FreeNode(h, n)
         IN  /\ Heap(after)
             /\ after.strings = IF h.node[n].tag = "string" THEN h.strings - 1 ELSE h.strings
             /\ \A m \in Pool : m # n => after.node[m] = h.node[m]
             /\ Live(after) = Live(h) \ {n}
<1>1. PICK V : h \in [node : [Pool -> Node(V)], strings : Int]
  BY DEF Heap
<1> DEFINE done == [h.node EXCEPT ![n] = Free]
           after == FreeNode(h, n)
<1>2. Free \in Node(V \cup {Junk}) /\ Free.tag = Junk /\ n \in Pool
  <2>1. "null" \in Tags
    BY DEF Tags
  <2> QED
    BY <2>1, FreshTyped, PoolFacts
<1>3. done \in [Pool -> Node(V \cup {Junk})] /\ \A m \in Pool : done[m] = IF m = n THEN Free ELSE h.node[m]
  BY <1>1, <1>2, NodesGrow
<1>4. /\ after.node = done
      /\ after.strings = IF h.node[n].tag = "string" THEN h.strings - 1 ELSE h.strings
      /\ after = [node |-> done, strings |-> after.strings]
  BY DEF FreeNode
<1> HIDE DEF done, after
<1>5. after.strings \in Int
  BY <1>1, <1>4
<1>6. Heap(after)
  BY <1>3, <1>4, <1>5 DEF Heap
<1>7. Live(after) = Live(h) \ {n}
  BY <1>2, <1>3, <1>4 DEF Live
<1> QED
  BY <1>3, <1>4, <1>6, <1>7 DEF after

\* Lists without children.
LEMMA NoChildren ==
  ASSUME NEW h, NEW p, h.node[p].head = NULL, h.node[p].tail = NULL
  PROVE  ChildrenAre(h, p, << >>)
BY EmptySeq DEF ChildrenAre, Slot

\* A list is the same in a heap that differs in other nodes.
LEMMA SameChildren ==
  ASSUME NEW h, NEW after, NEW p, NEW s, ChildrenAre(h, p, s),
         after.node[p] = h.node[p],
         \A i \in 1 .. Len(s) : s[i] \in Live(after) /\ after.node[s[i]] = h.node[s[i]]
  PROVE  ChildrenAre(after, p, s)
<1>1. s \in Seq(Live(after))
  <2>1. s \in Seq(Live(h))
    BY DEF ChildrenAre
  <2> QED
    BY <2>1
<1> QED
  BY <1>1 DEF ChildrenAre

LEMMA MakeLinked ==
  ASSUME NEW h, Heap(h), NEW kids, Linked(h, kids), NEW n \in Pool \ Live(h),
         NEW tag \in Tags, NEW val
  PROVE  Linked(MkNode(h, n, tag, val),
                [m \in Live(h) \cup {n} |-> IF m = n THEN << >> ELSE kids[m]])
<1> DEFINE after == MkNode(h, n, tag, val)
           g == [m \in Live(h) \cup {n} |-> IF m = n THEN << >> ELSE kids[m]]
<1>1. /\ \A m \in Pool : m # n => after.node[m] = h.node[m]
      /\ after.node[n].parent = NULL /\ after.node[n].prev = NULL /\ after.node[n].next = NULL
      /\ after.node[n].key = NULL /\ after.node[n].head = NULL /\ after.node[n].tail = NULL
      /\ Live(after) = Live(h) \cup {n} /\ Live(h) \subseteq Pool
  <2>1. /\ \A m \in Pool : after.node[m] = IF m = n THEN Fresh(tag, val) ELSE h.node[m]
        /\ Live(after) = Live(h) \cup {n} /\ n \in Pool
    BY MakeStores
  <2> HIDE DEF after
  <2>2. after.node[n] = Fresh(tag, val)
    BY <2>1
  <2>3. LET x == Fresh(tag, val)
        IN  /\ x.parent = NULL /\ x.prev = NULL /\ x.next = NULL
            /\ x.key = NULL /\ x.head = NULL /\ x.tail = NULL
    BY FreshTyped, ZenonT(60)
  <2>4. Live(h) \subseteq Pool
    BY PoolFacts
  <2> QED
    BY <2>1, <2>2, <2>3, <2>4
<1>2. DOMAIN g = Live(h) \cup {n} /\ g[n] = << >> /\ \A m \in Live(h) : g[m] = kids[m]
  OBVIOUS
<1> HIDE DEF after, g
<1>3. ASSUME NEW p \in Live(after)
      PROVE  ChildrenAre(after, p, g[p])
  <2>1. CASE p = n
    BY <1>1, <1>2, <2>1, NoChildren
  <2>2. CASE p # n
    <3>1. p \in Live(h) /\ ChildrenAre(h, p, kids[p]) /\ g[p] = kids[p]
      BY <1>1, <1>2, <2>2 DEF Linked
    <3>2. \A i \in 1 .. Len(kids[p]) : kids[p][i] \in Live(h)
      BY <3>1, ChildFacts
    <3>3. /\ after.node[p] = h.node[p]
          /\ \A i \in 1 .. Len(kids[p]) :
               kids[p][i] \in Live(after) /\ after.node[kids[p][i]] = h.node[kids[p][i]]
      BY <1>1, <2>2, <3>1, <3>2
    <3> QED
      BY <3>1, <3>3, SameChildren
  <2> QED
    BY <2>1, <2>2
<1>4. ASSUME NEW d \in Live(after)
      PROVE  LET y == after.node[d]
             IN  IF y.parent = NULL
                 THEN y.prev = NULL /\ y.next = NULL /\ y.key = NULL
                 ELSE y.parent \in Live(after) /\ \E i \in 1 .. Len(g[y.parent]) : g[y.parent][i] = d
  <2>1. CASE d = n
    BY <1>1, <2>1
  <2>2. CASE d # n
    <3>1. d \in Live(h) /\ after.node[d] = h.node[d]
      BY <1>1, <2>2
    <3> QED
      BY <1>1, <1>2, <3>1 DEF Linked
  <2> QED
    BY <2>1, <2>2
<1> QED
  BY <1>1, <1>2, <1>3, <1>4 DEF Linked, after, g

LEMMA FreeLinked ==
  ASSUME NEW h, Heap(h), NEW kids, Linked(h, kids),
         NEW n \in Live(h), h.node[n].parent = NULL, kids[n] = << >>
  PROVE  Linked(FreeNode(h, n), [m \in Live(h) \ {n} |-> kids[m]])
<1> DEFINE after == FreeNode(h, n)
           g == [m \in Live(h) \ {n} |-> kids[m]]
<1>1. /\ \A m \in Pool : m # n => after.node[m] = h.node[m]
      /\ Live(after) = Live(h) \ {n} /\ Live(h) \subseteq Pool
  BY FreeStores, PoolFacts
<1>2. DOMAIN g = Live(h) \ {n} /\ \A m \in Live(h) \ {n} : g[m] = kids[m]
  OBVIOUS
<1> HIDE DEF after, g
<1>3. ASSUME NEW p \in Live(after)
      PROVE  ChildrenAre(after, p, g[p])
  <2>1. p \in Live(h) /\ p # n /\ ChildrenAre(h, p, kids[p]) /\ g[p] = kids[p] /\ p # NULL
    BY <1>1, <1>2, PoolFacts DEF Linked
  <2>2. \A i \in 1 .. Len(kids[p]) : kids[p][i] \in Live(h) /\ kids[p][i] # n
    BY <2>1, ChildFacts
  <2>3. /\ after.node[p] = h.node[p]
        /\ \A i \in 1 .. Len(kids[p]) :
             kids[p][i] \in Live(after) /\ after.node[kids[p][i]] = h.node[kids[p][i]]
    BY <1>1, <2>1, <2>2
  <2> QED
    BY <2>1, <2>3, SameChildren
<1>4. ASSUME NEW d \in Live(after)
      PROVE  LET y == after.node[d]
             IN  IF y.parent = NULL
                 THEN y.prev = NULL /\ y.next = NULL /\ y.key = NULL
                 ELSE y.parent \in Live(after) /\ \E i \in 1 .. Len(g[y.parent]) : g[y.parent][i] = d
  <2>1. d \in Live(h) /\ after.node[d] = h.node[d]
    BY <1>1
  <2>2. CASE h.node[d].parent = NULL
    BY <2>1, <2>2 DEF Linked
  <2>3. CASE h.node[d].parent # NULL
    <3> DEFINE p == h.node[d].parent
    <3>1. p \in Live(h) /\ \E i \in 1 .. Len(kids[p]) : kids[p][i] = d
      BY <2>1, <2>3 DEF Linked
    <3> HIDE DEF p
    <3>2. p # n
      BY <3>1, EmptySeq
    <3> QED
      BY <1>1, <1>2, <2>1, <2>3, <3>1, <3>2 DEF p
  <2> QED
    BY <2>2, <2>3
<1> QED
  BY <1>1, <1>2, <1>3, <1>4 DEF Linked, after, g

-----------------------------------------------------------------------------
(***************************************************************************)
(* Going up.                                                               *)
(***************************************************************************)
\* Fewer nodes with a parent, and the same parents,
LEMMA FewerParents ==
  ASSUME NEW h, Grounded(h), NEW after,
         \A n \in Live(after) : \/ after.node[n].parent = NULL
                                \/ n \in Live(h) /\ after.node[n].parent = h.node[n].parent
  PROVE  Grounded(after)
<1> SUFFICES ASSUME NEW S \in SUBSET Live(after), S # {}, Upward(after, S),
                    \A n \in S : after.node[n].parent # NULL
             PROVE  FALSE
  BY DEF Grounded
<1>1. S \in SUBSET Live(h) /\ \A n \in S : after.node[n].parent = h.node[n].parent
  OBVIOUS
<1>2. Upward(h, S)
  BY <1>1 DEF Upward
<1> QED
  BY <1>1, <1>2 DEF Grounded

\* A root put under a node that is not under it.
LEMMA ParentAdded ==
  ASSUME NEW h, Grounded(h), NEW after, Live(after) = Live(h), NEW p, p # NULL, NEW c,
         NEW A \in SUBSET Live(h), p \in A, c \notin A, Upward(h, A),
         \A n \in Live(h) : after.node[n].parent = IF n = c THEN p ELSE h.node[n].parent
  PROVE  Grounded(after)
<1> SUFFICES ASSUME NEW S \in SUBSET Live(h), S # {}, Upward(after, S),
                    \A n \in S : after.node[n].parent # NULL
             PROVE  FALSE
  BY DEF Grounded
<1>1. CASE c \in S
  <2> DEFINE T == S \cap A
  <2>1. p \in S
    BY <1>1 DEF Upward
  <2>2. Upward(h, T)
    BY DEF Upward
  <2>3. T # {} /\ T \in SUBSET Live(h) /\ \A n \in T : n \in S /\ n # c
    BY <2>1
  <2> HIDE DEF T
  <2>4. PICK n \in T : h.node[n].parent = NULL
    BY <2>2, <2>3 DEF Grounded
  <2> QED
    BY <2>3, <2>4
<1>2. CASE c \notin S
  <2>1. Upward(h, S)
    BY <1>2 DEF Upward
  <2>2. PICK n \in S : h.node[n].parent = NULL
    BY <2>1 DEF Grounded
  <2> QED
    BY <1>2, <2>2
<1> QED
  BY <1>1, <1>2
-----------------------------------------------------------------------------
(***************************************************************************)
(* The strings.                                                            *)
(***************************************************************************)
Keyed(h) == { n \in Live(h) : h.node[n].key # NULL }
TextNodes(h) == { n \in Live(h) : h.node[n].tag = "string" }

LEMMA StringsCounted ==
  ASSUME NEW h
  PROVE  /\ IsFiniteSet(Keyed(h)) /\ IsFiniteSet(TextNodes(h))
         /\ Cardinality(Keyed(h)) \in Nat /\ Cardinality(TextNodes(h)) \in Nat
         /\ \A loose : Accounted(h, loose) <=>
              h.strings = Cardinality(Keyed(h)) + Cardinality(TextNodes(h)) + loose
<1>1. Keyed(h) \in SUBSET Live(h) /\ TextNodes(h) \in SUBSET Live(h) /\ IsFiniteSet(Live(h))
  BY PoolFacts DEF Keyed, TextNodes
<1>2. IsFiniteSet(Keyed(h)) /\ IsFiniteSet(TextNodes(h))
  BY <1>1, FS_Subset
<1>3. Cardinality(Keyed(h)) \in Nat /\ Cardinality(TextNodes(h)) \in Nat
  BY <1>2, FS_CardinalityType
<1> QED
  BY <1>2, <1>3 DEF Accounted, Keyed, TextNodes

\* A root gets a key, which was a string that nobody owned.
LEMMA KeyOwned ==
  ASSUME NEW h, NEW after, Live(after) = Live(h), after.strings = h.strings,
         NEW c \in Live(h), h.node[c].key = NULL, NEW k,
         \A n \in Live(h) : /\ after.node[n].tag = h.node[n].tag
                            /\ after.node[n].key = IF n = c THEN k ELSE h.node[n].key,
         NEW loose \in Int, Accounted(h, loose)
  PROVE  Accounted(after, IF k = NULL THEN loose ELSE loose - 1)
<1>1. TextNodes(after) = TextNodes(h)
  BY DEF TextNodes
<1>2. c \notin Keyed(h)
  BY DEF Keyed
<1>3. CASE k = NULL
  <2>1. Keyed(after) = Keyed(h)
    BY <1>3 DEF Keyed
  <2> QED
    BY <1>1, <1>3, <2>1, StringsCounted
<1>4. CASE k # NULL
  <2>1. Keyed(after) = Keyed(h) \cup {c}
    BY <1>4 DEF Keyed
  <2>2. Cardinality(Keyed(after)) = Cardinality(Keyed(h)) + 1
    <3>1. IsFiniteSet(Keyed(h))
      BY StringsCounted
    <3> QED
      BY <1>2, <2>1, <3>1, FS_AddElement
  <2>3. h.strings = Cardinality(Keyed(h)) + Cardinality(TextNodes(h)) + loose
    BY StringsCounted
  <2>4. Cardinality(Keyed(h)) \in Nat /\ Cardinality(TextNodes(h)) \in Nat
    BY StringsCounted
  <2>5. after.strings = Cardinality(Keyed(after)) + Cardinality(TextNodes(after)) + (loose - 1)
    BY <1>1, <2>2, <2>3, <2>4
  <2> QED
    BY <1>4, <2>5, StringsCounted
<1> QED
  BY <1>3, <1>4

\* A node that is taken out loses its key.
LEMMA KeyFreed ==
  ASSUME NEW h, NEW after, Live(after) = Live(h), NEW c \in Live(h),
         after.strings = IF h.node[c].key = NULL THEN h.strings ELSE h.strings - 1,
         \A n \in Live(h) : /\ after.node[n].tag = h.node[n].tag
                            /\ after.node[n].key = IF n = c THEN NULL ELSE h.node[n].key,
         Accounted(h, 0)
  PROVE  Accounted(after, 0)
<1>1. TextNodes(after) = TextNodes(h) /\ Keyed(after) = Keyed(h) \ {c}
  BY DEF TextNodes, Keyed
<1>2. c \in Keyed(h) <=> h.node[c].key # NULL
  BY DEF Keyed
<1>3. Cardinality(Keyed(after)) = IF c \in Keyed(h) THEN Cardinality(Keyed(h)) - 1
                                  ELSE Cardinality(Keyed(h))
  <2>1. IsFiniteSet(Keyed(h))
    BY StringsCounted
  <2> QED
    BY <1>1, <2>1, FS_RemoveElement, ZenonT(60)
<1>4. /\ h.strings = Cardinality(Keyed(h)) + Cardinality(TextNodes(h)) + 0
      /\ Cardinality(Keyed(h)) \in Nat /\ Cardinality(TextNodes(h)) \in Nat
  BY StringsCounted
<1>5. after.strings = Cardinality(Keyed(after)) + Cardinality(TextNodes(after)) + 0
  BY <1>1, <1>2, <1>3, <1>4
<1> QED
  BY <1>5, StringsCounted

\* A string node takes over a string that nobody owned.
LEMMA TextOwned ==
  ASSUME NEW h, NEW after, NEW n, n \notin Live(h), Live(after) = Live(h) \cup {n},
         after.strings = h.strings, after.node[n].key = NULL,
         \A m \in Live(h) : after.node[m] = h.node[m],
         Accounted(h, IF after.node[n].tag = "string" THEN 1 ELSE 0)
  PROVE  Accounted(after, 0)
<1>1. Keyed(after) = Keyed(h)
  BY DEF Keyed
<1>2. TextNodes(after) = IF after.node[n].tag = "string" THEN TextNodes(h) \cup {n} ELSE TextNodes(h)
  BY DEF TextNodes
<1>3. n \notin TextNodes(h)
  BY DEF TextNodes
<1>4. Cardinality(TextNodes(after)) = IF after.node[n].tag = "string" THEN Cardinality(TextNodes(h)) + 1
                                  ELSE Cardinality(TextNodes(h))
  <2>1. IsFiniteSet(TextNodes(h))
    BY StringsCounted
  <2> QED
    BY <1>2, <1>3, <2>1, FS_AddElement
<1>5. /\ h.strings = Cardinality(Keyed(h)) + Cardinality(TextNodes(h))
                     + (IF after.node[n].tag = "string" THEN 1 ELSE 0)
      /\ Cardinality(Keyed(h)) \in Nat /\ Cardinality(TextNodes(h)) \in Nat
  BY StringsCounted
<1>6. after.strings = Cardinality(Keyed(after)) + Cardinality(TextNodes(after)) + 0
  BY <1>1, <1>4, <1>5
<1> QED
  BY <1>6, StringsCounted

\* A root is freed, with the string it may own.
LEMMA TextFreed ==
  ASSUME NEW h, NEW after, NEW n \in Live(h), Live(after) = Live(h) \ {n},
         after.strings = IF h.node[n].tag = "string" THEN h.strings - 1 ELSE h.strings,
         h.node[n].key = NULL,
         \A m \in Live(after) : after.node[m] = h.node[m],
         Accounted(h, 0)
  PROVE  Accounted(after, 0)
<1>1. Keyed(after) = Keyed(h)
  BY DEF Keyed
<1>2. TextNodes(after) = TextNodes(h) \ {n}
  BY DEF TextNodes
<1>3. n \in TextNodes(h) <=> h.node[n].tag = "string"
  BY DEF TextNodes
<1>4. Cardinality(TextNodes(after)) = IF n \in TextNodes(h) THEN Cardinality(TextNodes(h)) - 1
                                  ELSE Cardinality(TextNodes(h))
  <2>1. IsFiniteSet(TextNodes(h))
    BY StringsCounted
  <2> QED
    BY <1>2, <2>1, FS_RemoveElement
<1>5. /\ h.strings = Cardinality(Keyed(h)) + Cardinality(TextNodes(h)) + 0
      /\ Cardinality(Keyed(h)) \in Nat /\ Cardinality(TextNodes(h)) \in Nat
  BY StringsCounted
<1>6. after.strings = Cardinality(Keyed(after)) + Cardinality(TextNodes(after)) + 0
  BY <1>1, <1>3, <1>4, <1>5
<1> QED
  BY <1>6, StringsCounted

-----------------------------------------------------------------------------
(***************************************************************************)
(* The forest that the heap stands for: an operation that makes or moves a     *)
(* node is a step of AbstractForests.                                      *)
(***************************************************************************)
Child(h, d) == [key |-> h.node[d].key, node |-> d]
Forest(h, kids) == [n \in Live(h) |-> [i \in 1 .. Len(kids[n]) |-> Child(h, kids[n][i])]]

Forests == INSTANCE AbstractForests WITH Keys <- Names \cup {NULL}, kids <- << >>

LEMMA ListOf ==
  ASSUME NEW R, NEW m \in Nat, NEW s \in [1 .. m -> R]
  PROVE  s \in Seq(R) /\ Len(s) = m
OBVIOUS

LEMMA ForestAttached ==
  ASSUME NEW h, NEW kids, Linked(h, kids),
         NEW p \in Live(h), NEW c \in Live(h), h.node[c].parent = NULL, NEW k \in Names \cup {NULL},
         NEW A \in SUBSET Live(h), p \in A, c \notin A, Upward(h, A),
         NEW after, Live(after) = Live(h),
         \A n \in Live(h) : after.node[n].key = IF n = c THEN k ELSE h.node[n].key,
         NEW t, t = Append(kids[p], c) \/ t = << c >> \o kids[p]
  PROVE  Forests!Attach(Forest(h, kids), Forest(after, [kids EXCEPT ![p] = t]))
<1> DEFINE f == Forest(h, kids)
           more == [kids EXCEPT ![p] = t]
           g == Forest(after, more)
           child == [key |-> k, node |-> c]
           R == {Child(h, d) : d \in Live(h)} \cup {child}
<1>1. /\ DOMAIN kids = Live(h) /\ \A n \in Live(h) : kids[n] \in Seq(Live(h))
      /\ \A n \in Live(h) : \A i \in 1 .. Len(kids[n]) :
           kids[n][i] \in Live(h) /\ kids[n][i] # c /\ h.node[kids[n][i]].parent = n /\ n # NULL
  <2>1. DOMAIN kids = Live(h) /\ \A n \in Live(h) : kids[n] \in Seq(Live(h))
    BY DEF Linked, ChildrenAre
  <2> QED
    BY <2>1, ChildFacts, SMTT(60)
<1>2. more[p] = t /\ \A n \in Live(h) : n # p => more[n] = kids[n]
  BY <1>1
<1>3. t \in Seq(Live(h)) /\ \A n \in Live(h) : more[n] \in Seq(Live(h))
  <2>1. kids[p] \in Seq(Live(h)) /\ << c >> \in Seq(Live(h))
    BY <1>1
  <2>2. Append(kids[p], c) \in Seq(Live(h)) /\ << c >> \o kids[p] \in Seq(Live(h))
    BY <2>1
  <2>3. t \in Seq(Live(h))
    BY <2>2
  <2> HIDE DEF more
  <2> QED
    BY <1>1, <1>2, <2>3
<1>4. /\ Child(after, c) = child
      /\ \A d \in Live(h) : d # c => Child(after, d) = Child(h, d)
      /\ \A d : Child(h, d).node = d
  BY DEF Child
<1> HIDE DEF more, child
<1>5. /\ \A d \in Live(h) : Child(h, d) \in R
      /\ \A d \in Live(h) : Child(after, d) \in R
      /\ child \in R
  BY <1>4
<1> HIDE DEF R
<1>6. ASSUME NEW n \in Live(h)
      PROVE  /\ f[n] \in Seq(R) /\ Len(f[n]) = Len(kids[n]) /\ Len(f[n]) \in Nat
             /\ \A i \in 1 .. Len(f[n]) : f[n][i] = Child(h, kids[n][i])
             /\ g[n] \in Seq(R) /\ Len(g[n]) = Len(more[n]) /\ Len(g[n]) \in Nat
             /\ \A i \in 1 .. Len(g[n]) : g[n][i] = Child(after, more[n][i])
  <2>1. /\ f[n] = [i \in 1 .. Len(kids[n]) |-> Child(h, kids[n][i])]
        /\ g[n] = [i \in 1 .. Len(more[n]) |-> Child(after, more[n][i])]
    BY DEF Forest
  <2>2. /\ Len(kids[n]) \in Nat /\ \A i \in 1 .. Len(kids[n]) : kids[n][i] \in Live(h)
        /\ Len(more[n]) \in Nat /\ \A i \in 1 .. Len(more[n]) : more[n][i] \in Live(h)
    BY <1>1, <1>3
  <2> HIDE DEF f, g
  <2>3. f[n] \in [1 .. Len(kids[n]) -> R] /\ g[n] \in [1 .. Len(more[n]) -> R]
    BY <1>5, <2>1, <2>2
  <2>4. /\ f[n] \in Seq(R) /\ Len(f[n]) = Len(kids[n])
        /\ g[n] \in Seq(R) /\ Len(g[n]) = Len(more[n])
    BY <2>2, <2>3, ListOf
  <2> QED
    BY <2>1, <2>2, <2>4
<1>7. DOMAIN f = Live(h) /\ DOMAIN g = Live(h) /\ g = [n \in Live(h) |-> g[n]]
  BY DEF Forest
<1> HIDE DEF f, g
<1>8. ASSUME NEW n \in Live(h), n # p
      PROVE  g[n] = f[n]
  <2>1. Len(g[n]) = Len(f[n]) /\ more[n] = kids[n]
    BY <1>2, <1>6, <1>8
  <2>2. \A i \in 1 .. Len(g[n]) : g[n][i] = f[n][i]
    BY <1>1, <1>4, <1>6, <2>1, SMTT(60)
  <2> QED
    BY <1>6, <2>1, <2>2, SeqEqual
<1>9. g[p] \in {Append(f[p], child), << child >> \o f[p]}
  <2>1. CASE t = Append(kids[p], c)
    <3> DEFINE s == Append(f[p], child)
    <3>1. /\ s \in Seq(R) /\ Len(s) = Len(f[p]) + 1
          /\ \A i \in 1 .. Len(f[p]) : s[i] = f[p][i]
          /\ s[Len(f[p]) + 1] = child
      BY <1>5, <1>6, AppendProperties
    <3>2. /\ Len(t) = Len(kids[p]) + 1
          /\ \A i \in 1 .. Len(kids[p]) : t[i] = kids[p][i]
          /\ t[Len(kids[p]) + 1] = c
      BY <1>1, <2>1, AppendProperties
    <3> HIDE DEF s
    <3>3. ASSUME NEW i \in 1 .. Len(g[p])
          PROVE  g[p][i] = s[i]
      <4>1. g[p][i] = Child(after, t[i]) /\ (i \in 1 .. Len(kids[p]) \/ i = Len(kids[p]) + 1)
        BY <1>2, <1>6, <3>2
      <4>2. CASE i \in 1 .. Len(kids[p])
        <5>1. t[i] = kids[p][i] /\ s[i] = f[p][i] /\ i \in 1 .. Len(f[p])
          BY <1>6, <3>1, <3>2, <4>2
        <5>2. f[p][i] = Child(h, kids[p][i])
          BY <1>6, <5>1
        <5> QED
          BY <1>1, <1>4, <4>1, <4>2, <5>1, <5>2
      <4>3. CASE i = Len(kids[p]) + 1
        BY <1>4, <1>6, <3>1, <3>2, <4>1, <4>3
      <4> QED
        BY <4>1, <4>2, <4>3
    <3>4. Len(g[p]) = Len(s)
      BY <1>2, <1>6, <3>1, <3>2
    <3>5. g[p] = s
      BY <1>6, <3>1, <3>3, <3>4, SeqEqual
    <3> QED
      BY <3>5 DEF s
  <2>2. CASE t = << c >> \o kids[p]
    <3> DEFINE s == << child >> \o f[p]
    <3>1. /\ s \in Seq(R) /\ Len(s) = Len(f[p]) + 1 /\ s[1] = child
          /\ \A i \in 1 .. Len(f[p]) : s[i + 1] = f[p][i]
      <4>1. s \in Seq(R)
        BY <1>5, <1>6
      <4> QED
        BY <1>6, <4>1, PrependSlots
    <3>2. /\ Len(t) = Len(kids[p]) + 1 /\ t[1] = c
          /\ \A i \in 1 .. Len(kids[p]) : t[i + 1] = kids[p][i]
      BY <1>1, <2>2, PrependSlots
    <3> HIDE DEF s
    <3>3. ASSUME NEW i \in 1 .. Len(g[p])
          PROVE  g[p][i] = s[i]
      <4>1. g[p][i] = Child(after, t[i]) /\ i \in Nat /\ i >= 1 /\ i <= Len(kids[p]) + 1
        BY <1>2, <1>6, <3>2
      <4>2. CASE i = 1
        BY <1>4, <3>1, <3>2, <4>1, <4>2
      <4>3. CASE i # 1
        <5> DEFINE j == i - 1
        <5>1. j \in 1 .. Len(kids[p]) /\ j + 1 = i
          BY <1>6, <4>1, <4>3
        <5> HIDE DEF j
        <5>2. t[i] = kids[p][j] /\ s[i] = Child(h, kids[p][j])
          BY <1>6, <3>1, <3>2, <5>1
        <5> QED
          BY <1>1, <1>4, <4>1, <5>1, <5>2
      <4> QED
        BY <4>2, <4>3
    <3>4. Len(g[p]) = Len(s)
      BY <1>2, <1>6, <3>1, <3>2
    <3>5. g[p] = s
      BY <1>6, <3>1, <3>3, <3>4, SeqEqual
    <3> QED
      BY <3>5 DEF s
  <2> QED
    BY <2>1, <2>2
<1>10. Forests!IsRoot(f, c)
  <2> SUFFICES ASSUME NEW q \in Live(h), NEW i \in 1 .. Len(f[q]), f[q][i].node = c
               PROVE  FALSE
    BY <1>7 DEF Forests!IsRoot, Forests!Nodes, Forests!Under
  <2>1. f[q][i].node = kids[q][i] /\ i \in 1 .. Len(kids[q])
    BY <1>4, <1>6
  <2> QED
    BY <1>1, <2>1
<1>11. Forests!Apart(f, p, c)
  <2>1. ASSUME NEW n \in Live(h), Forests!Under(f, n) \cap A # {}
        PROVE  n \in A
    <3>1. PICK i \in 1 .. Len(f[n]) : f[n][i].node \in A
      BY <2>1 DEF Forests!Under
    <3>2. f[n][i].node = kids[n][i] /\ i \in 1 .. Len(kids[n])
      BY <1>4, <1>6
    <3>3. kids[n][i] \in Live(h) /\ h.node[kids[n][i]].parent = n /\ n # NULL
      BY <1>1, <3>2
    <3> QED
      BY <3>1, <3>2, <3>3 DEF Upward
  <2> QED
    BY <1>7, <2>1 DEF Forests!Apart, Forests!Nodes
<1>12. \/ g = [f EXCEPT ![p] = Append(f[p], child)]
       \/ g = [f EXCEPT ![p] = << child >> \o f[p]]
  <2>1. \A v : g[p] = v => g = [f EXCEPT ![p] = v]
    BY <1>7, <1>8
  <2> QED
    BY <1>9, <2>1
<1>13. Forests!Attach(f, g)
  BY <1>7, <1>10, <1>11, <1>12 DEF Forests!Attach, Forests!Nodes, child
<1> QED
  BY <1>13 DEF f, g, more

LEMMA ForestMade ==
  ASSUME NEW h, NEW kids, Linked(h, kids), NEW n, n \notin Live(h),
         NEW after, Live(after) = Live(h) \cup {n}, \A m \in Live(h) : after.node[m] = h.node[m]
  PROVE  Forests!Make(Forest(h, kids),
                      Forest(after, [m \in Live(h) \cup {n} |-> IF m = n THEN << >> ELSE kids[m]]))
<1> DEFINE f == Forest(h, kids)
           more == [m \in Live(h) \cup {n} |-> IF m = n THEN << >> ELSE kids[m]]
           g == Forest(after, more)
<1>1. \A m \in Live(h) : \A i \in 1 .. Len(kids[m]) : kids[m][i] \in Live(h)
  BY ChildFacts
<1>2. more[n] = << >> /\ \A m \in Live(h) : more[m] = kids[m]
  OBVIOUS
<1> HIDE DEF more
<1>3. /\ DOMAIN f = Live(h) /\ DOMAIN g = Live(h) \cup {n}
      /\ g = [m \in Live(h) \cup {n} |-> g[m]]
  BY DEF Forest
<1>4. ASSUME NEW m \in Live(h)
      PROVE  g[m] = f[m]
  <2>1. /\ f[m] = [i \in 1 .. Len(kids[m]) |-> Child(h, kids[m][i])]
        /\ g[m] = [i \in 1 .. Len(kids[m]) |-> Child(after, kids[m][i])]
    BY <1>2 DEF Forest
  <2>2. \A i \in 1 .. Len(kids[m]) : Child(after, kids[m][i]) = Child(h, kids[m][i])
    BY <1>1 DEF Child
  <2> HIDE DEF f, g
  <2> QED
    BY <2>1, <2>2
<1>5. g[n] = << >>
  <2>1. g[n] = [i \in 1 .. 0 |-> Child(after, more[n][i])]
    BY <1>2 DEF Forest
  <2> HIDE DEF g
  <2>2. g[n] \in [1 .. 0 -> {}]
    BY <2>1
  <2>3. g[n] \in Seq({}) /\ Len(g[n]) = 0
    BY <2>2, ListOf
  <2> QED
    BY <2>3, EmptySeq
<1> HIDE DEF f, g
<1>6. g = [m \in Live(h) \cup {n} |-> IF m = n THEN << >> ELSE f[m]]
  BY <1>3, <1>4, <1>5
<1>7. Forests!Make(f, g)
  BY <1>3, <1>6 DEF Forests!Make, Forests!Nodes
<1> QED
  BY <1>7 DEF f, g, more

LEMMA ForestDetached ==
  ASSUME NEW h, NEW kids, Linked(h, kids), NEW p \in Live(h), NEW i \in 1 .. Len(kids[p]),
         NEW after, Live(after) = Live(h),
         \A n \in Live(h) : n # kids[p][i] => after.node[n].key = h.node[n].key
  PROVE  Forests!Detach(Forest(h, kids), Forest(after, [kids EXCEPT ![p] = Without(kids[p], i)]))
<1> DEFINE f == Forest(h, kids)
           t == Without(kids[p], i)
           less == [kids EXCEPT ![p] = t]
           g == Forest(after, less)
           R == {Child(h, d) : d \in Live(h)}
<1>1. /\ DOMAIN kids = Live(h) /\ \A n \in Live(h) : kids[n] \in Seq(Live(h))
      /\ \A n \in Live(h) : \A j \in 1 .. Len(kids[n]) :
           kids[n][j] \in Live(h) /\ h.node[kids[n][j]].parent = n
      /\ \A a, b \in 1 .. Len(kids[p]) : kids[p][a] = kids[p][b] => a = b
  <2>1. /\ DOMAIN kids = Live(h) /\ \A n \in Live(h) : kids[n] \in Seq(Live(h))
        /\ \A a, b \in 1 .. Len(kids[p]) : kids[p][a] = kids[p][b] => a = b
    BY DEF Linked, ChildrenAre
  <2>2. \A n \in Live(h) : \A j \in 1 .. Len(kids[n]) :
          kids[n][j] \in Live(h) /\ h.node[kids[n][j]].parent = n
    BY ChildFacts
  <2> QED
    BY <2>1, <2>2
<1>2. less[p] = t /\ \A n \in Live(h) : n # p => less[n] = kids[n]
  BY <1>1
<1>3. /\ Len(kids[p]) \in Nat /\ Len(t) = Len(kids[p]) - 1 /\ Len(t) \in Nat
      /\ \A j \in 1 .. Len(t) : t[j] = IF j < i THEN kids[p][j] ELSE kids[p][j + 1]
  <2>1. /\ Len(kids[p]) \in Nat /\ Len(t) = Len(kids[p]) - 1
        /\ \A j \in 1 .. Len(t) : t[j] = IF j < i THEN kids[p][j] ELSE kids[p][j + 1]
    BY <1>1, WithoutSlots
  <2> HIDE DEF t
  <2> QED
    BY <2>1
<1> HIDE DEF less, t
<1>4. /\ DOMAIN f = Live(h) /\ DOMAIN g = Live(h) /\ g = [n \in Live(h) |-> g[n]]
      /\ \A n \in Live(h) : /\ f[n] = [j \in 1 .. Len(kids[n]) |-> Child(h, kids[n][j])]
                            /\ g[n] = [j \in 1 .. Len(less[n]) |-> Child(after, less[n][j])]
  BY DEF Forest
<1> HIDE DEF f, g
<1>5. ASSUME NEW n \in Live(h), n # p
      PROVE  g[n] = f[n]
  <2>1. \A j \in 1 .. Len(kids[n]) : Child(after, kids[n][j]) = Child(h, kids[n][j])
    <3>1. h.node[kids[p][i]].parent = p
      BY <1>1
    <3>2. \A j \in 1 .. Len(kids[n]) : kids[n][j] \in Live(h) /\ h.node[kids[n][j]].parent = n
      BY <1>1
    <3>3. \A j \in 1 .. Len(kids[n]) : kids[n][j] \in Live(h) /\ kids[n][j] # kids[p][i]
      BY <1>5, <3>1, <3>2
    <3> QED
      BY <3>3 DEF Child
  <2>2. /\ f[n] = [j \in 1 .. Len(kids[n]) |-> Child(h, kids[n][j])]
        /\ g[n] = [j \in 1 .. Len(kids[n]) |-> Child(after, kids[n][j])]
    BY <1>2, <1>4, <1>5
  <2> QED
    BY <2>1, <2>2
<1>6. g[p] = Without(f[p], i)
  <2> DEFINE s == Without(f[p], i)
  <2>1. f[p] \in Seq(R) /\ Len(f[p]) = Len(kids[p])
    <3>1. f[p] = [j \in 1 .. Len(kids[p]) |-> Child(h, kids[p][j])]
      BY <1>4
    <3>2. \A j \in 1 .. Len(kids[p]) : Child(h, kids[p][j]) \in R
      BY <1>1
    <3> HIDE DEF R
    <3>3. f[p] \in [1 .. Len(kids[p]) -> R]
      BY <3>1, <3>2
    <3> QED
      BY <1>3, <3>3, ListOf
  <2>2. /\ s \in Seq(R) /\ Len(s) = Len(kids[p]) - 1
        /\ \A j \in 1 .. Len(s) : s[j] = IF j < i THEN f[p][j] ELSE f[p][j + 1]
    <3> HIDE DEF R
    <3>1. i \in 1 .. Len(f[p])
      BY <2>1
    <3> QED
      BY <2>1, <3>1, WithoutSlots
  <2> HIDE DEF s, R
  <2>3. ASSUME NEW j \in 1 .. Len(t)
        PROVE  Child(after, t[j]) = s[j]
    <3> DEFINE a == IF j < i THEN j ELSE j + 1
    <3>1. a \in 1 .. Len(kids[p]) /\ a # i /\ j \in 1 .. Len(s)
      BY <1>3, <2>2
    <3>2. t[j] = kids[p][a] /\ s[j] = f[p][a]
      BY <1>3, <2>2, <3>1
    <3> HIDE DEF a
    <3>3. kids[p][a] \in Live(h) /\ kids[p][a] # kids[p][i] /\ f[p][a] = Child(h, kids[p][a])
      BY <1>1, <1>4, <3>1
    <3> QED
      BY <3>2, <3>3 DEF Child
  <2>4. g[p] = [j \in 1 .. Len(t) |-> Child(after, t[j])]
    BY <1>2, <1>4
  <2>5. g[p] \in [1 .. Len(t) -> R] /\ \A j \in 1 .. Len(t) : g[p][j] = s[j]
    <3>1. \A j \in 1 .. Len(t) : s[j] \in R
      BY <1>3, <2>2
    <3> QED
      BY <2>3, <2>4, <3>1
  <2>6. g[p] \in Seq(R) /\ Len(g[p]) = Len(t)
    BY <1>3, <2>5, ListOf
  <2>7. g[p] = s
    BY <1>3, <2>2, <2>5, <2>6, SeqEqual, ZenonT(60)
  <2> QED
    BY <2>7 DEF s
<1>7. i \in DOMAIN f[p]
  BY <1>4
<1>8. g = [f EXCEPT ![p] = Without(f[p], i)]
  BY <1>4, <1>5, <1>6
<1>9. Forests!Detach(f, g)
  BY <1>4, <1>7, <1>8, Zenon DEF Forests!Detach, Forests!Nodes, Forests!RemoveAt, Without
<1> QED
  BY <1>9 DEF f, g, less, t

-----------------------------------------------------------------------------
(***************************************************************************)
(* The operations.  A heap is consistent when kids lists the children of every  *)
(* node and the pointers say so, every node is under a root, and each      *)
(* string is owned once.  Each operation keeps it so, in a pool of any     *)
(* size, changes kids as its caller expects, and makes of the forest what  *)
(* AbstractForests says.                                                   *)
(***************************************************************************)
Consistent(h, kids) == Heap(h) /\ Linked(h, kids) /\ Grounded(h) /\ Accounted(h, 0)

\* Before the first call.
LEMMA NoNodes ==
  Consistent(EmptyHeap, [n \in {} |-> << >>])
<1>1. Live(EmptyHeap) = {} /\ EmptyHeap.strings = 0
  <2>1. \A n \in Pool : EmptyHeap.node[n].tag = Junk
    <3>1. Free.tag = Junk /\ \A n \in Pool : EmptyHeap.node[n] = Free
      <4>1. "null" \in Tags
        BY DEF Tags
      <4> QED
        BY <4>1, FreshTyped DEF EmptyHeap
    <3> QED
      BY <3>1
  <2> QED
    BY <2>1 DEF Live, EmptyHeap
<1>2. Heap(EmptyHeap)
  <2>1. "null" \in Tags
    BY DEF Tags
  <2>2. Free \in Node({} \cup {Junk})
    BY <2>1, FreshTyped
  <2>3. EmptyHeap \in [node : [Pool -> Node({} \cup {Junk})], strings : Int]
    BY <2>2 DEF EmptyHeap
  <2> QED
    BY <2>3 DEF Heap
<1>3. Linked(EmptyHeap, [n \in {} |-> << >>])
  BY <1>1 DEF Linked
<1>4. Grounded(EmptyHeap)
  BY <1>1 DEF Grounded
<1>5. Accounted(EmptyHeap, 0)
  <2>1. Keyed(EmptyHeap) = {} /\ TextNodes(EmptyHeap) = {}
    BY <1>1 DEF Keyed, TextNodes
  <2>2. EmptyHeap.strings = Cardinality(Keyed(EmptyHeap)) + Cardinality(TextNodes(EmptyHeap)) + 0
    BY <1>1, <2>1, FS_EmptySet
  <2> QED
    BY <2>2, StringsCounted
<1> QED
  BY <1>2, <1>3, <1>4, <1>5 DEF Consistent

\* A string more, that nobody owns.
LEMMA StringCopied ==
  ASSUME NEW h, NEW kids, Consistent(h, kids)
  PROVE  LET g == Strdup(h)
         IN  /\ Heap(g) /\ Linked(g, kids) /\ Grounded(g) /\ Accounted(g, 1)
             /\ g.node = h.node /\ Live(g) = Live(h)
<1> DEFINE g == Strdup(h)
<1>1. PICK V : h \in [node : [Pool -> Node(V)], strings : Int]
  BY DEF Consistent, Heap
<1>2. g.node = h.node /\ g.strings = h.strings + 1 /\ g = [node |-> h.node, strings |-> h.strings + 1]
  BY <1>1 DEF Strdup
<1> HIDE DEF g
<1>3. Heap(g)
  BY <1>1, <1>2 DEF Heap
<1>4. Live(g) = Live(h) /\ Keyed(g) = Keyed(h) /\ TextNodes(g) = TextNodes(h)
  BY <1>2 DEF Live, Keyed, TextNodes
<1>5. Linked(g, kids)
  <2>1. \A p \in Live(h) : ChildrenAre(h, p, kids[p]) => ChildrenAre(g, p, kids[p])
    BY <1>2, <1>4 DEF ChildrenAre
  <2>2. Linked(h, kids)
    BY DEF Consistent
  <2> QED
    BY <1>2, <1>4, <2>1, <2>2 DEF Linked
<1>6. Grounded(g)
  BY <1>2, <1>4 DEF Consistent, Grounded, Upward
<1>7. Accounted(g, 1)
  <2>1. /\ h.strings = Cardinality(Keyed(h)) + Cardinality(TextNodes(h)) + 0
        /\ Cardinality(Keyed(h)) \in Nat /\ Cardinality(TextNodes(h)) \in Nat
    BY StringsCounted DEF Consistent
  <2>2. g.strings = Cardinality(Keyed(g)) + Cardinality(TextNodes(g)) + 1
    BY <1>2, <1>4, <2>1
  <2> QED
    BY <2>2, StringsCounted
<1> QED
  BY <1>2, <1>3, <1>4, <1>5, <1>6, <1>7 DEF g

\* A root has gone under another node.
Becomes(h, kids, after, more) ==
  Consistent(after, more) /\ Forests!Attach(Forest(h, kids), Forest(after, more))

\* A root, with the key k that it takes over, goes under a node that is not below it.
LEMMA RootAttached ==
  ASSUME NEW h, Heap(h), NEW kids, Linked(h, kids), Grounded(h), NEW k \in Names \cup {NULL},
         Accounted(h, IF k = NULL THEN 0 ELSE 1),
         NEW p \in Live(h), NEW c \in Live(h), h.node[c].parent = NULL,
         NEW A \in SUBSET Live(h), p \in A, c \notin A, Upward(h, A),
         h.node[p].tag \in Containers, k = NULL <=> h.node[p].tag = "array"
  PROVE  /\ Becomes(h, kids, AppendNode(SetKey(h, c, k), p, c), [kids EXCEPT ![p] = Append(kids[p], c)])
         /\ Becomes(h, kids, PrependNode(SetKey(h, c, k), p, c), [kids EXCEPT ![p] = << c >> \o kids[p]])
<1>1. p # c /\ p \in Pool /\ c \in Pool /\ NULL \notin Pool /\ p # NULL /\ Live(h) \subseteq Pool
  BY PoolFacts
<1>2. h.node[c].key = NULL
  BY DEF Linked
<1>3. /\ h.node[p].head \in Pool \cup {NULL} /\ h.node[p].head # c
      /\ h.node[p].tail \in Pool \cup {NULL} /\ h.node[p].tail # c
  BY <1>1, EndFacts
<1>4. ASSUME NEW after, Attached(h, after, p, c, k)
      PROVE  /\ Heap(after) /\ Grounded(after) /\ Accounted(after, 0)
             /\ \A t : t = Append(kids[p], c) \/ t = << c >> \o kids[p] =>
                  Forests!Attach(Forest(h, kids), Forest(after, [kids EXCEPT ![p] = t]))
  <2>1. /\ Heap(after) /\ after.strings = h.strings
        /\ \A n \in Pool : after.node[n].tag = h.node[n].tag
        /\ \A n \in Pool : after.node[n].parent = IF n = c THEN p ELSE h.node[n].parent
        /\ \A n \in Pool : after.node[n].key = IF n = c THEN k ELSE h.node[n].key
    BY <1>4 DEF Attached
  <2>2. Live(after) = Live(h)
    BY <2>1 DEF Live
  <2>3. Grounded(after)
    BY <1>1, <2>1, <2>2, ParentAdded
  <2>4. Accounted(after, IF k = NULL THEN 0 ELSE 1 - 1)
    <3>1. CASE k = NULL
      BY <1>1, <1>2, <2>1, <2>2, <3>1, KeyOwned
    <3>2. CASE k # NULL
      BY <1>1, <1>2, <2>1, <2>2, <3>2, KeyOwned
    <3> QED
      BY <3>1, <3>2
  <2>5. \A n \in Live(h) : after.node[n].key = IF n = c THEN k ELSE h.node[n].key
    BY <1>1, <2>1
  <2>6. ASSUME NEW t, t = Append(kids[p], c) \/ t = << c >> \o kids[p]
        PROVE  Forests!Attach(Forest(h, kids), Forest(after, [kids EXCEPT ![p] = t]))
    <3>1. \A n \in Live(h) : after.node[n].key = IF n = c THEN k ELSE h.node[n].key
      BY <2>5
    <3>2. Live(after) = Live(h)
      BY <2>2
    <3> QED
      BY <2>6, <3>1, <3>2, ForestAttached
  <2> QED
    BY <2>1, <2>3, <2>4, <2>6
<1>5. Attached(h, AppendNode(SetKey(h, c, k), p, c), p, c, k)
  BY <1>1, <1>3, AppendStores
<1>6. Attached(h, PrependNode(SetKey(h, c, k), p, c), p, c, k)
  BY <1>1, <1>3, PrependStores
<1>7. Linked(AppendNode(SetKey(h, c, k), p, c), [kids EXCEPT ![p] = Append(kids[p], c)])
  BY <1>1, AppendLinked
<1>8. Linked(PrependNode(SetKey(h, c, k), p, c), [kids EXCEPT ![p] = << c >> \o kids[p]])
  BY <1>1, PrependLinked
<1>9. Becomes(h, kids, AppendNode(SetKey(h, c, k), p, c), [kids EXCEPT ![p] = Append(kids[p], c)])
  BY <1>4, <1>5, <1>7 DEF Becomes, Consistent
<1>10. Becomes(h, kids, PrependNode(SetKey(h, c, k), p, c), [kids EXCEPT ![p] = << c >> \o kids[p]])
  BY <1>4, <1>6, <1>8 DEF Becomes, Consistent
<1> QED
  BY <1>9, <1>10

\* json_mknull and the others like it: mknode places a node that was not in use, and it
\* is a root without children.  A string node owns the copy of its text.
THEOREM NodeMade ==
  ASSUME NEW h, NEW kids, Consistent(h, kids), Live(h) # Pool, NEW tag \in Tags, NEW val
  PROVE  LET n == NextFree(h)
             after == MkNode(IF tag = "string" THEN Strdup(h) ELSE h, n, tag, val)
             more == [m \in Live(h) \cup {n} |-> IF m = n THEN << >> ELSE kids[m]]
         IN  /\ n \in Pool \ Live(h)
             /\ Consistent(after, more)
             /\ Forests!Make(Forest(h, kids), Forest(after, more))
<1> DEFINE n == NextFree(h)
           g == IF tag = "string" THEN Strdup(h) ELSE h
           after == MkNode(g, n, tag, val)
<1>1. n \in Pool \ Live(h)
  BY NextFreeIsFree
<1>2. /\ Heap(g) /\ Linked(g, kids) /\ Grounded(g)
      /\ Accounted(g, IF tag = "string" THEN 1 ELSE 0) /\ Live(g) = Live(h) /\ g.node = h.node
  <2>1. CASE tag = "string"
    BY <2>1, StringCopied
  <2>2. CASE tag # "string"
    BY <2>2 DEF Consistent
  <2> QED
    BY <2>1, <2>2
<1> HIDE DEF n, g
<1>3. /\ Heap(after) /\ after.strings = g.strings
      /\ \A m \in Pool : after.node[m] = IF m = n THEN Fresh(tag, val) ELSE g.node[m]
      /\ Live(after) = Live(g) \cup {n}
  BY <1>1, <1>2, MakeStores
<1>4. Linked(after, [m \in Live(h) \cup {n} |-> IF m = n THEN << >> ELSE kids[m]])
  BY <1>1, <1>2, MakeLinked
<1> HIDE DEF after
<1>5. /\ after.node[n].tag = tag /\ after.node[n].parent = NULL /\ after.node[n].key = NULL
      /\ \A m \in Live(g) : after.node[m] = g.node[m]
  <2>1. Fresh(tag, val).tag = tag /\ Fresh(tag, val).parent = NULL /\ Fresh(tag, val).key = NULL
    BY FreshTyped
  <2>2. Live(g) \subseteq Pool
    BY PoolFacts
  <2> QED
    BY <1>1, <1>2, <1>3, <2>1, <2>2
<1>6. Grounded(after)
  BY <1>2, <1>3, <1>5, FewerParents
<1>7. Accounted(after, 0)
  BY <1>1, <1>2, <1>3, <1>5, TextOwned
<1>8. Forests!Make(Forest(h, kids),
                   Forest(after, [m \in Live(h) \cup {n} |-> IF m = n THEN << >> ELSE kids[m]]))
  <2>1. /\ Linked(h, kids) /\ n \notin Live(h) /\ Live(after) = Live(h) \cup {n}
        /\ \A m \in Live(h) : after.node[m] = h.node[m]
    BY <1>1, <1>2, <1>3, <1>5 DEF Consistent
  <2> QED
    BY <2>1, ForestMade
<1> QED
  BY <1>1, <1>3, <1>4, <1>6, <1>7, <1>8 DEF Consistent, after, g, n

\* json_append_element and json_prepend_element put a root at the end of an array that
\* they are given, and every other list is as it was.
THEOREM ElementAttached ==
  ASSUME NEW h, NEW kids, Consistent(h, kids),
         NEW p \in Live(h), NEW c \in Live(h), h.node[p].tag = "array", h.node[c].parent = NULL,
         NEW A \in SUBSET Live(h), p \in A, c \notin A, Upward(h, A)
  PROVE  /\ Becomes(h, kids, AppendNode(h, p, c), [kids EXCEPT ![p] = Append(kids[p], c)])
         /\ Becomes(h, kids, PrependNode(h, p, c), [kids EXCEPT ![p] = << c >> \o kids[p]])
<1>1. SetKey(h, c, NULL) = h
  <2>1. PICK V : h \in [node : [Pool -> Node(V)], strings : Int]
    BY DEF Consistent, Heap
  <2>2. h.node[c].key = NULL /\ c \in Pool
    BY PoolFacts DEF Consistent, Linked
  <2>3. [h.node[c] EXCEPT !.key = NULL] = h.node[c]
    BY <2>1, <2>2 DEF Node
  <2>4. SetKey(h, c, NULL) = [h EXCEPT !.node = [h.node EXCEPT ![c] = [h.node[c] EXCEPT !.key = NULL]]]
    BY <2>1 DEF SetKey
  <2>5. [h.node EXCEPT ![c] = h.node[c]] = h.node
    BY <2>1, <2>2
  <2> QED
    BY <2>1, <2>3, <2>4, <2>5
<1>2. Heap(h) /\ Linked(h, kids) /\ Grounded(h) /\ Accounted(h, 0)
  BY DEF Consistent
<1>3. /\ NULL \in Names \cup {NULL} /\ Accounted(h, IF NULL = NULL THEN 0 ELSE 1)
      /\ h.node[p].tag \in Containers /\ (NULL = NULL <=> h.node[p].tag = "array")
  BY <1>2 DEF Containers
<1>4. /\ Becomes(h, kids, AppendNode(SetKey(h, c, NULL), p, c), [kids EXCEPT ![p] = Append(kids[p], c)])
      /\ Becomes(h, kids, PrependNode(SetKey(h, c, NULL), p, c), [kids EXCEPT ![p] = << c >> \o kids[p]])
  BY <1>2, <1>3, RootAttached
<1> QED
  BY <1>1, <1>4

\* json_append_member and json_prepend_member put a root at the end of an object, under
\* a copy of the key.
THEOREM MemberAttached ==
  ASSUME NEW h, NEW kids, Consistent(h, kids), NEW k \in Names,
         NEW p \in Live(h), NEW c \in Live(h), h.node[p].tag = "object", h.node[c].parent = NULL,
         NEW A \in SUBSET Live(h), p \in A, c \notin A, Upward(h, A)
  PROVE  /\ Becomes(h, kids, AppendMemberCopy(h, p, k, c), [kids EXCEPT ![p] = Append(kids[p], c)])
         /\ Becomes(h, kids, PrependMemberCopy(h, p, k, c), [kids EXCEPT ![p] = << c >> \o kids[p]])
<1> DEFINE g == Strdup(h)
<1>1. /\ Heap(g) /\ Linked(g, kids) /\ Grounded(g) /\ Accounted(g, 1)
      /\ g.node = h.node /\ Live(g) = Live(h)
  BY StringCopied
<1>2. /\ AppendMemberCopy(h, p, k, c) = AppendNode(SetKey(g, c, k), p, c)
      /\ PrependMemberCopy(h, p, k, c) = PrependNode(SetKey(g, c, k), p, c)
  BY DEF AppendMemberCopy, PrependMemberCopy, AppendMember
<1> HIDE DEF g
<1>3. k # NULL /\ k \in Names \cup {NULL}
  BY PoolFacts
<1>4. "object" \in Containers /\ Upward(g, A)
  BY <1>1 DEF Containers, Upward
<1>5. Accounted(g, IF k = NULL THEN 0 ELSE 1)
  BY <1>1, <1>3
<1>6. /\ p \in Live(g) /\ c \in Live(g) /\ g.node[c].parent = NULL /\ A \in SUBSET Live(g)
      /\ g.node[p].tag \in Containers /\ (k = NULL <=> g.node[p].tag = "array")
  BY <1>1, <1>3, <1>4
<1>7. /\ Becomes(g, kids, AppendNode(SetKey(g, c, k), p, c), [kids EXCEPT ![p] = Append(kids[p], c)])
      /\ Becomes(g, kids, PrependNode(SetKey(g, c, k), p, c), [kids EXCEPT ![p] = << c >> \o kids[p]])
  BY <1>1, <1>3, <1>4, <1>5, <1>6, RootAttached
<1>8. Forest(g, kids) = Forest(h, kids)
  BY <1>1 DEF Forest, Child
<1> QED
  BY <1>2, <1>7, <1>8 DEF Becomes

\* json_remove_from_parent takes the child out of the one list it is in, and frees its
\* key; it is a root, with everything under it.
THEOREM NodeRemoved ==
  ASSUME NEW h, NEW kids, Consistent(h, kids), NEW c \in Live(h), h.node[c].parent # NULL
  PROVE  LET p == h.node[c].parent
         IN  /\ p \in Live(h)
             /\ \E i \in 1 .. Len(kids[p]) :
                  LET after == RemoveFromParent(h, c)
                      less == [kids EXCEPT ![p] = Without(kids[p], i)]
                  IN  /\ kids[p][i] = c
                      /\ Consistent(after, less)
                      /\ Forests!Detach(Forest(h, kids), Forest(after, less))
<1> DEFINE p == h.node[c].parent
           after == RemoveFromParent(h, c)
<1>1. Heap(h) /\ Linked(h, kids) /\ Grounded(h) /\ Accounted(h, 0) /\ Live(h) \subseteq Pool
  BY PoolFacts DEF Consistent
<1>2. p \in Live(h) /\ \E i \in 1 .. Len(kids[p]) : kids[p][i] = c
  BY <1>1 DEF Linked
<1>3. PICK i \in 1 .. Len(kids[p]) : kids[p][i] = c
  BY <1>2
<1>4. c # p
  <2> SUFFICES ASSUME c = p PROVE FALSE
    OBVIOUS
  <2>1. Upward(h, {c}) /\ {c} \in SUBSET Live(h) /\ {c} # {}
    BY DEF Upward
  <2>2. \E n \in {c} : h.node[n].parent = NULL
    BY <1>1, <2>1 DEF Grounded
  <2> QED
    BY <2>2
<1> HIDE DEF p
<1>5. Linked(after, [kids EXCEPT ![p] = Without(kids[p], i)])
  BY <1>1, <1>2, <1>3, <1>4, RemoveLinked
<1>6. /\ h.node[c].prev = Slot(kids[p], i - 1) /\ h.node[c].next = Slot(kids[p], i + 1)
      /\ \A j \in 1 .. Len(kids[p]) : kids[p][j] \in Pool
      /\ \A a, b \in 1 .. Len(kids[p]) : kids[p][a] = kids[p][b] => a = b
  <2>1. /\ h.node[c].prev = Slot(kids[p], i - 1) /\ h.node[c].next = Slot(kids[p], i + 1)
        /\ \A j \in 1 .. Len(kids[p]) : kids[p][j] \in Pool
    BY <1>1, <1>2, <1>3, ChildFacts, SMTT(60)
  <2> QED
    BY <1>1, <1>2, <2>1 DEF Linked, ChildrenAre
<1>7. /\ c \in Pool /\ p \in Pool /\ h.node[c].parent = p /\ p # c
      /\ h.node[c].prev \in Pool \cup {NULL} /\ h.node[c].prev # c
      /\ h.node[c].next \in Pool \cup {NULL} /\ h.node[c].next # c
  <2>1. i - 1 # i /\ i + 1 # i /\ c # NULL
    BY <1>1, PoolFacts
  <2>2. Slot(kids[p], i - 1) # c /\ Slot(kids[p], i + 1) # c
    BY <1>3, <1>6, <2>1 DEF Slot
  <2>3. \A j : Slot(kids[p], j) \in Pool \cup {NULL}
    BY <1>6 DEF Slot
  <2> QED
    BY <1>1, <1>2, <1>4, <1>6, <2>2, <2>3 DEF p
<1>8. /\ Heap(after)
      /\ after.strings = IF h.node[c].key = NULL THEN h.strings ELSE h.strings - 1
      /\ \A n \in Pool : /\ after.node[n].tag = h.node[n].tag
                         /\ after.node[n].parent = IF n = c THEN NULL ELSE h.node[n].parent
                         /\ after.node[n].key = IF n = c THEN NULL ELSE h.node[n].key
  BY <1>1, <1>7, RemoveStores
<1> HIDE DEF after
<1>9. Live(after) = Live(h)
  BY <1>8 DEF Live
<1>10. Grounded(after)
  BY <1>1, <1>8, <1>9, FewerParents
<1>11. Accounted(after, 0)
  BY <1>1, <1>8, <1>9, KeyFreed
<1>12. Consistent(after, [kids EXCEPT ![p] = Without(kids[p], i)])
  BY <1>5, <1>8, <1>10, <1>11 DEF Consistent
<1>13. Forests!Detach(Forest(h, kids), Forest(after, [kids EXCEPT ![p] = Without(kids[p], i)]))
  <2>1. \A n \in Live(h) : n # kids[p][i] => after.node[n].key = h.node[n].key
    BY <1>1, <1>3, <1>8
  <2> QED
    BY <1>1, <1>2, <1>9, <2>1, ForestDetached
<1> QED
  BY <1>2, <1>3, <1>12, <1>13 DEF p, after

\* The end of json_delete frees a root that has no children left, and the text of a string.
THEOREM NodeFreed ==
  ASSUME NEW h, NEW kids, Consistent(h, kids),
         NEW n \in Live(h), h.node[n].parent = NULL, kids[n] = << >>
  PROVE  Consistent(FreeNode(h, n), [m \in Live(h) \ {n} |-> kids[m]])
<1> DEFINE after == FreeNode(h, n)
<1>1. Heap(h) /\ Linked(h, kids) /\ Grounded(h) /\ Accounted(h, 0) /\ Live(h) \subseteq Pool
  BY PoolFacts DEF Consistent
<1>2. h.node[n].key = NULL
  BY <1>1 DEF Linked
<1>3. /\ Heap(after)
      /\ after.strings = IF h.node[n].tag = "string" THEN h.strings - 1 ELSE h.strings
      /\ \A m \in Pool : m # n => after.node[m] = h.node[m]
      /\ Live(after) = Live(h) \ {n}
  BY <1>1, FreeStores
<1>4. Linked(after, [m \in Live(h) \ {n} |-> kids[m]])
  BY <1>1, FreeLinked
<1> HIDE DEF after
<1>5. \A m \in Live(after) : m \in Live(h) /\ after.node[m] = h.node[m]
  BY <1>1, <1>3
<1>6. Grounded(after)
  BY <1>1, <1>5, FewerParents
<1>7. Accounted(after, 0)
  BY <1>1, <1>2, <1>3, <1>5, TextFreed
<1> QED
  BY <1>3, <1>4, <1>6, <1>7 DEF Consistent, after
=============================================================================
