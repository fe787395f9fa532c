--------------------------- MODULE MCJsonCallers ---------------------------
(* Small instances of the users of json.c.  A caller has a string, a number  *)
(* that does not print, one that prints as another, and texts of up to five  *)
(* tokens; a client's message is a join_map in which any member may be       *)
(* missing, come twice, or be of another type, and texts cut short.          *)
EXTENDS JsonCallers

CONSTANTS Command, MapId, X, Y, Join_map, Other

AllNames == {Command, MapId, X, Y, Join_map, Other}

\* 0.1 + 0.2 is not the double next to 0.3, but prints as "0.3"; "1e400" is read as
\* infinity, which prints as null.
CONSTANTS Zero, One, Third, Sum, Inf, Nan

AllDoubles == {Zero, One, Third, Sum, Inf, Nan}
AllNumerals == {"0", "1", "0.3", "0.30000000000000004", "1e400"}
Nearest ==
  [s \in AllNumerals |->
     CASE s = "0" -> Zero
       [] s = "1" -> One
       [] s = "0.3" -> Third
       [] s = "0.30000000000000004" -> Sum
       [] s = "1e400" -> Inf]
SixteenDigits ==
  [d \in AllDoubles |->
     CASE d = Zero -> "0"
       [] d = One -> "1"
       [] d \in {Third, Sum} -> "0.3"
       [] d \in {Inf, Nan} -> "no numeral"]

OneMap == {Zero}
SomeScalars == {Other, Sum, Nan}
OneKey == {X}

Tokens == {"[", "]", "{", "}", ":", ",", Space, X, "null", "bad"}
Upto(n, S) == UNION { [1 .. k -> S] : k \in 0 .. n }
ManyTexts ==
  Upto(4, Tokens)
    \cup { << "[" >> \o t : t \in Upto(4, {"]", "[", ",", "null", "bad"}) }
    \cup { << "[" >> \o t : t \in Upto(3, {"]", ",", Space} \cup AllNumerals) }
    \cup { << "{", X, ":" >> \o t : t \in Upto(4, {"}", "{", ",", ":", X, "1e400", "bad"}) }

\* The members a message may have, and one value that is no scalar.
MemberTokens(k, v) == << k, ":", v >>
Values(k) == IF k = Command THEN {Join_map, Other, "null"} ELSE {"0", "0.3", Join_map}
Members(k) == { << >> } \cup { MemberTokens(k, v) : v \in Values(k) }
Body(parts) == << "{" >> \o Join(parts, << "," >>) \o << "}" >>
Present(p) == p # << >>
FourMembers ==
  { Body(SelectSeq(<< c, m, x, y >>, Present)) :
      c \in Members(Command), m \in Members(MapId), x \in Members(X), y \in Members(Y) }
Plain == << MemberTokens(Command, Join_map), MemberTokens(MapId, "0"),
            MemberTokens(X, "1"), MemberTokens(Y, "1") >>
ManyMessages ==
  FourMembers
    \cup { Body(Append(Plain, MemberTokens(k, v))) : k \in {Command, X, Other}, v \in {"1", Join_map} }
    \cup { SubSeq(Body(Plain), 1, n) : n \in 1 .. 16 }
    \cup { << "[", "1", "]" >>, << "1" >>, << >> }
=============================================================================
