-------------------------------- MODULE Utf8 --------------------------------
(***************************************************************************)
(* The Unicode helpers of json.c.  A C string is a sequence of bytes that  *)
(* are not 0, followed by a 0; a character is its code point.  The masks   *)
(* and shifts of the code are written with % and \div: every operand is a  *)
(* byte or a code point, and the parts joined with | do not overlap.       *)
(***************************************************************************)
EXTENDS Integers, Sequences

Byte == 0 .. 255

\* Every code point but D800 .. DFFF, which UTF-16 takes for itself.
IsSurrogate(u) == 55296 <= u /\ u <= 57343
IsScalar(u) == u \in Nat /\ u <= 1114111 /\ ~IsSurrogate(u)

\* s[i] in C: the terminator follows the last byte.
At(s, i) == IF i <= Len(s) THEN s[i] ELSE 0

\* (b & 0xC0) == 0x80
IsTrail(b) == 128 <= b /\ b <= 191

\* No bound at all.
SecondByteAny(c) == Byte

\* The bounds on the byte after c that rule out overlong forms, surrogates and
\* what lies beyond 10FFFF.
SecondByte(c) ==
  { b \in Byte : /\ c = 224 => b >= 160
                 /\ c = 237 => b <= 159
                 /\ c = 240 => b >= 144
                 /\ c = 244 => b <= 143 }

\* How many bytes the lead byte c announces; 0 for a byte that leads nothing.
Announced(c) ==
  IF c <= 127 THEN 1
  ELSE IF c <= 193 THEN 0
  ELSE IF c <= 223 THEN 2
  ELSE IF c <= 239 THEN 3
  ELSE IF c <= 244 THEN 4
  ELSE 0

\* The length of the character that starts at s[i], or 0.
ValidateCz(s, i) ==
  LET n == Announced(At(s, i))
  IN  IF /\ n >= 2 => IsTrail(At(s, i + 1)) /\ At(s, i + 1) \in SecondByte(At(s, i))
         /\ n >= 3 => IsTrail(At(s, i + 2))
         /\ n = 4  => IsTrail(At(s, i + 3))
      THEN n
      ELSE 0

\* Whether the bytes of s from i on are whole characters.
Validate(s) ==
  LET valid[i \in 1 .. Len(s) + 4] ==
        \/ i > Len(s)
        \/ ValidateCz(s, i) > 0 /\ valid[i + ValidateCz(s, i)]
  IN  valid[1]

\* The six bits a trailing byte carries.
Six(b) == b % 64

\* The code point of the valid character at s[i].
ReadChar(s, i) ==
  LET c == At(s, i)
      Bits(k) == Six(At(s, i + k))
  IN  IF c <= 127 THEN c
      ELSE IF c <= 223 THEN (c % 32) * 64 + Bits(1)
      ELSE IF c <= 239 THEN (c % 16) * 4096 + Bits(1) * 64 + Bits(2)
      ELSE (c % 8) * 262144 + Bits(1) * 4096 + Bits(2) * 64 + Bits(3)

\* A trailing byte that carries the low six bits of n.
Trail(n) == 128 + (n % 64)

\* The bytes of the code point u.
WriteChar(u) ==
  IF u <= 127 THEN << u >>
  ELSE IF u <= 2047 THEN << 192 + (u \div 64), Trail(u) >>
  ELSE IF u <= 65535 THEN << 224 + (u \div 4096), Trail(u \div 64), Trail(u) >>
  ELSE << 240 + (u \div 262144), Trail(u \div 4096), Trail(u \div 64), Trail(u) >>

\* A UTF-16 pair: high and low surrogate.
IsPair(uc, lc) == 55296 <= uc /\ uc <= 56319 /\ 56320 <= lc /\ lc <= 57343
FromSurrogatePair(uc, lc) == 65536 + (uc % 1024) * 1024 + (lc % 1024)
ToSurrogatePair(u) ==
  << 55296 + ((u - 65536) \div 1024), 56320 + ((u - 65536) % 1024) >>
=============================================================================
