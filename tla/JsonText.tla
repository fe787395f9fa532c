------------------------------ MODULE JsonText ------------------------------
(***************************************************************************)
(* The grammar of json.c: json_decode, json_validate and json_stringify.   *)
(* A text is a sequence of tokens; a string or a number is one token (how  *)
(* it is spelled is the subject of JsonLexemes), "bad" is a string, number *)
(* or word that does not parse, and " " a character of white space.        *)
(*                                                                         *)
(* The spelling of a number is not its value: strtod takes a numeral to    *)
(* the nearest double, or to infinity, and "%.16g" takes a double to a     *)
(* numeral that need not lead back to it.                                  *)
(***************************************************************************)
EXTENDS JsonTree

CONSTANTS
  Numerals,         \* the spellings of numbers
  Strtod,           \* Strtod[s]: the double that a numeral is read as
  Numeral           \* Numeral[d]: what "%.16g" prints, or "no numeral" (inf, nan)

Space == " "
Words == {"null", "true", "false"}
Scalars == Words \cup Names \cup Numerals

ASSUME TextAssumption ==
  /\ Strtod \in [Numerals -> Doubles]
  /\ Numeral \in [Doubles -> Numerals \cup {"no numeral"}]

TokenAt(t, i) == IF i <= Len(t) THEN t[i] ELSE "end"

\* At most one space.
SkipOne(t, i) == IF TokenAt(t, i) = Space THEN i + 1 ELSE i

SkipSpace(t, i) ==
  CHOOSE j \in i .. i + Len(t) :
    TokenAt(t, j) # Space /\ \A k \in i .. j - 1 : TokenAt(t, k) = Space

TagOf(token) ==
  CASE token = "null" -> "null"
    [] token \in {"true", "false"} -> "bool"
    [] token \in Names -> "string"
    [] token \in Numerals -> "number"

\* What the node holds.
ValueOf(token) == IF token \in Numerals THEN Strtod[token] ELSE token

-----------------------------------------------------------------------------
(* Parsing, from t[i] on.  "at" is where it ended, 0 for failure.  Nothing  *)
(* is allocated unless keep, as json_validate passes no place for a result. *)

\* A container in the making, NULL without keep.
NewContainer(h, keep, tag) ==
  IF keep
  THEN [heap |-> MkNode(h, NextFree(h), tag, NULL), node |-> NextFree(h)]
  ELSE [heap |-> h, node |-> NULL]

Success(at, h, n) == [at |-> at, heap |-> h, node |-> n]
Failure(h, n) == [at |-> 0, heap |-> Delete(h, n), node |-> NULL]

\* The key, which is not in the tree yet, is lost.
FailureKeepKey(h, n, keep) == Failure(h, n)

\* The failure of parse_object that frees the key.
FailureFreeKey(h, n, keep) == Failure(IF keep THEN FreeString(h) ELSE h, n)

ParseScalar(t, i, h, keep) ==
  LET tag == TagOf(t[i])
      h1  == IF tag = "string" THEN Strdup(h) ELSE h
  IN  IF keep
      THEN Success(i + 1, MkNode(h1, NextFree(h), tag, ValueOf(t[i])), NextFree(h))
      ELSE Success(i + 1, h, NULL)

RECURSIVE ParseValue(_, _, _, _), ParseElements(_, _, _, _, _), ParseMembers(_, _, _, _, _)

ParseValue(t, i, h, keep) ==
  LET token == TokenAt(t, i)
      j     == SkipSpace(t, i + 1)
      array == NewContainer(h, keep, "array")
      obj   == NewContainer(h, keep, "object")
  IN  CASE token \in Scalars -> ParseScalar(t, i, h, keep)
        [] token = "[" -> IF TokenAt(t, j) = "]" THEN Success(j + 1, array.heap, array.node)
                          ELSE ParseElements(t, j, array.heap, array.node, keep)
        [] token = "{" -> IF TokenAt(t, j) = "}" THEN Success(j + 1, obj.heap, obj.node)
                          ELSE ParseMembers(t, j, obj.heap, obj.node, keep)
        [] OTHER -> Failure(h, NULL)

\* The loop of parse_array.
ParseElements(t, i, h, array, keep) ==
  LET v == ParseValue(t, i, h, keep)
  IN  IF v.at = 0 THEN Failure(v.heap, array)
      ELSE LET j     == SkipSpace(t, v.at)
               token == TokenAt(t, j)
               h1    == IF keep THEN AppendNode(v.heap, array, v.node) ELSE h
           IN  CASE token = "]" -> Success(j + 1, h1, array)
                 [] token = "," -> ParseElements(t, SkipSpace(t, j + 1), h1, array, keep)
                 [] OTHER -> Failure(h1, array)

\* The loop of parse_object: a key, a colon and a value.
ParseMembers(t, i, h, obj, keep) ==
  LET colon == SkipSpace(t, i + 1)
      h1    == IF keep THEN Strdup(h) ELSE h
      v     == ParseValue(t, SkipSpace(t, colon + 1), h1, keep)
  IN  IF TokenAt(t, i) \notin Names THEN Failure(h, obj)
      ELSE IF TokenAt(t, colon) # ":" THEN FailureFreeKey(h1, obj, keep)
      ELSE IF v.at = 0 THEN FailureFreeKey(v.heap, obj, keep)
      ELSE LET j     == SkipSpace(t, v.at)
               token == TokenAt(t, j)
               h2    == IF keep THEN AppendMember(v.heap, obj, t[i], v.node) ELSE h
           IN  CASE token = "}" -> Success(j + 1, h2, obj)
                 [] token = "," -> ParseMembers(t, SkipSpace(t, j + 1), h2, obj, keep)
                 [] OTHER -> Failure(h2, obj)

\* What follows the value is not looked at.
JsonReadFront(t, h, keep) == ParseValue(t, SkipSpace(t, 1), h, keep)

\* json_decode, and json_validate with keep = FALSE.
JsonRead(t, h, keep) ==
  LET v == ParseValue(t, SkipSpace(t, 1), h, keep)
  IN  IF v.at = 0 \/ SkipSpace(t, v.at) > Len(t) THEN v ELSE Failure(v.heap, v.node)

\* The answer of json_validate.
JsonValidate(t) == JsonRead(t, EmptyHeap, FALSE).at > 0

-----------------------------------------------------------------------------
(* Printing.                                                                *)

\* emit_number tests what sprintf has written.
EmitNumber(d) == IF Numeral[d] \in Numerals THEN Numeral[d] ELSE "null"

ScalarToken(x) == IF x.tag = "number" THEN EmitNumber(x.val) ELSE x.val

\* The parts one after the other, with a separator between them.
Join(parts, separator) ==
  LET j[i \in 0 .. Len(parts)] ==
        CASE i = 0 -> << >>
          [] i = 1 -> parts[1]
          [] OTHER -> j[i - 1] \o separator \o parts[i]
  IN  j[Len(parts)]

RECURSIVE EmitValue(_, _)
EmitValue(h, n) ==
  LET x == h.node[n]
      kids == Children(h, n)
      Element(i) == EmitValue(h, kids[i])
      Member(i)  == << h.node[kids[i]].key, ":" >> \o EmitValue(h, kids[i])
  IN  CASE x.tag = "array" ->
             << "[" >> \o Join([i \in 1 .. Len(kids) |-> Element(i)], << "," >>) \o << "]" >>
        [] x.tag = "object" ->
             << "{" >> \o Join([i \in 1 .. Len(kids) |-> Member(i)], << "," >>) \o << "}" >>
        [] OTHER -> << ScalarToken(x) >>

\* "space" is one character of white space; a line break is another.
Indent(level) == [i \in 1 .. level |-> Space]

RECURSIVE EmitIndented(_, _, _)
EmitIndented(h, n, level) ==
  LET x == h.node[n]
      kids == Children(h, n)
      Element(i) == Indent(level + 1) \o EmitIndented(h, kids[i], level + 1)
      Member(i)  == Indent(level + 1) \o << h.node[kids[i]].key, ":", Space >>
                      \o EmitIndented(h, kids[i], level + 1)
      Lines(open, parts, close) ==
        IF parts = << >> THEN << open, close >>
        ELSE << open, Space >> \o Join(parts, << ",", Space >>)
               \o << Space >> \o Indent(level) \o << close >>
  IN  CASE x.tag = "array"  -> Lines("[", [i \in 1 .. Len(kids) |-> Element(i)], "]")
        [] x.tag = "object" -> Lines("{", [i \in 1 .. Len(kids) |-> Member(i)], "}")
        [] OTHER -> << ScalarToken(x) >>
=============================================================================
