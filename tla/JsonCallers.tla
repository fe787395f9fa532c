---------------------------- MODULE JsonCallers ----------------------------
(***************************************************************************)
(* Who uses json.c: any caller that keeps the contract of json.h, and the  *)
(* server, which takes a client's message apart.                           *)
(*                                                                         *)
(* A caller makes nodes, moves them between trees and deletes them, or     *)
(* reads a text.  The server reads a message (proto_json_normalize), takes *)
(* its members as it looks at them (proto_json_identify,                   *)
(* bgame_join_map_create), and owns the rest with the queued command until *)
(* that has run (dictionary_destroy).  Their steps do not overlap: the     *)
(* heap of one run is the work of one of them.                             *)
(***************************************************************************)
EXTENDS JsonText

CONSTANTS
  CallerTexts,      \* what a caller may read
  CallerScalars, CallerKeys,    \* what a caller may make
  MessageTexts,     \* what a client may send
  CommandKey, MapIdKey, XKey, YKey, JoinMap,
  KnownMaps,        \* the numbers s_vmap_find knows
  MaxNodes          \* model bound on the nodes of a caller

ASSUME CallersAssumption ==
  /\ {CommandKey, MapIdKey, XKey, YKey, JoinMap} \subseteq Names
  /\ KnownMaps \subseteq Doubles
  /\ CallerKeys \subseteq Names
  /\ CallerScalars \subseteq Words \cup Names \cup Doubles
  /\ MaxNodes \in 0 .. PoolSize

VARIABLES
  pc,
  text,             \* the text to read, << >> when it is of no more use
  heap,
  held,             \* the roots a caller holds
  dict              \* the root the message's dictionary holds, or NULL

vars == << pc, text, heap, held, dict >>

-----------------------------------------------------------------------------
(* A caller.                                                                *)

Make(tag, val) ==
  /\ pc = "caller"
  /\ Cardinality(Live(heap)) < MaxNodes
  /\ heap' = MkNode(IF tag = "string" THEN Strdup(heap) ELSE heap, NextFree(heap), tag, val)
  /\ held' = held \cup {NextFree(heap)}
  /\ UNCHANGED << pc, text, dict >>

\* The asserts of the four functions, and what they do not assert: a node is not
\* put under itself.
MayPut(p, c, tag) ==
  /\ heap.node[p].tag = tag
  /\ heap.node[c].parent = NULL
  /\ p \notin Under(heap, c)

AddElement(p, c) ==
  /\ pc = "caller"
  /\ MayPut(p, c, "array")
  /\ heap' \in {AppendNode(heap, p, c), PrependNode(heap, p, c)}
  /\ held' = held \ {c}
  /\ UNCHANGED << pc, text, dict >>

AddMember(p, k, c) ==
  /\ pc = "caller"
  /\ MayPut(p, c, "object")
  /\ heap' \in {AppendMemberCopy(heap, p, k, c), PrependMemberCopy(heap, p, k, c)}
  /\ held' = held \ {c}
  /\ UNCHANGED << pc, text, dict >>

Remove(n) ==
  /\ pc = "caller"
  /\ heap.node[n].parent # NULL
  /\ heap' = RemoveFromParent(heap, n)
  /\ held' = held \cup {n}
  /\ UNCHANGED << pc, text, dict >>

JsonDelete(n) ==
  /\ pc = "caller"
  /\ heap' = Delete(heap, n)
  /\ held' = held \ {n}
  /\ UNCHANGED << pc, text, dict >>

\* json_decode.
JsonDecode ==
  /\ pc = "text"
  /\ LET v == JsonRead(text, heap, TRUE)
     IN  /\ heap' = v.heap
         /\ held' = IF v.at = 0 THEN held ELSE held \cup {v.node}
         /\ pc' = IF v.at = 0 THEN "refused" ELSE "accepted"
  /\ UNCHANGED << text, dict >>

\* The caller goes on with what it got.
Return ==
  /\ pc = "accepted"
  /\ pc' = "caller"
  /\ text' = << >>
  /\ UNCHANGED << heap, held, dict >>

-----------------------------------------------------------------------------
(* The server.                                                              *)

\* json_delete(d->json) and free(d).
Discard(h) ==
  /\ heap' = Delete(h, dict)
  /\ dict' = NULL
  /\ pc' = "done"
  /\ UNCHANGED << text, held >>

KeepMessage(step, h) ==
  /\ heap' = h
  /\ pc' = step
  /\ UNCHANGED << text, held, dict >>

\* proto_json_normalize: validate, malloc, decode.
Normalize ==
  /\ pc = "message"
  /\ LET v == JsonRead(text, heap, TRUE)
     IN  \/ /\ JsonValidate(text)
            /\ heap' = v.heap
            /\ dict' = v.node
            /\ pc' = IF v.node = NULL THEN "done" ELSE "normalized"
         \/ /\ pc' = "done"               \* not valid, or no memory for d
            /\ UNCHANGED << heap, dict >>
  /\ UNCHANGED << text, held >>

\* json_check and proto_json_identify: the command's name is taken out.
Identify ==
  /\ pc = "normalized"
  /\ LET n == FindMember(heap, dict, CommandKey)
         h == Delete(heap, n)
     IN  \/ /\ Check(heap, dict) /\ n # NULL
            /\ heap.node[n].tag = "string" /\ heap.node[n].val = JoinMap
            /\ KeepMessage("identified", h)
         \/ /\ ~Check(heap, dict) \/ n = NULL
            /\ Discard(heap)
         \/ /\ Check(heap, dict) /\ n # NULL      \* another type or name, or no memory
            /\ Discard(h)

\* bgame_join_map_create takes the members named by keys out as long as they are
\* numbers, and the map only when it knows it.
RECURSIVE TakeNumbers(_, _, _)
TakeNumbers(h, root, keys) ==
  LET n == FindMember(h, root, keys[1])
  IN  IF \/ keys = << >>
         \/ n = NULL
         \/ h.node[n].tag # "number"
         \/ keys[1] = MapIdKey /\ h.node[n].val \notin KnownMaps
      THEN [heap |-> h, left |-> keys]
      ELSE TakeNumbers(Delete(h, n), root, Tail(keys))

Create ==
  /\ pc = "identified"
  /\ LET t == TakeNumbers(heap, dict, << MapIdKey, XKey, YKey >>)
     IN  \/ t.left = << >> /\ KeepMessage("queued", t.heap)
         \/ Discard(t.heap)               \* a member fails, or no memory for join

\* The command has run: dictionary_destroy(c->dict).
Destroy ==
  /\ pc = "queued"
  /\ Discard(heap)

-----------------------------------------------------------------------------
Init ==
  /\ \/ pc = "caller" /\ text = << >>
     \/ pc = "text" /\ text \in CallerTexts
     \/ pc = "message" /\ text \in MessageTexts
  /\ heap = EmptyHeap
  /\ held = {}
  /\ dict = NULL

Next ==
  \/ \E val \in CallerScalars :
       Make(IF val \in Doubles THEN "number" ELSE TagOf(val), val)
  \/ \E tag \in Containers : Make(tag, NULL)
  \/ \E p, c \in Live(heap) :
       \/ AddElement(p, c)
       \/ \E k \in CallerKeys : AddMember(p, k, c)
  \/ \E n \in Live(heap) : Remove(n) \/ JsonDelete(n)
  \/ JsonDecode \/ Return
  \/ Normalize \/ Identify \/ Create \/ Destroy

Spec == Init /\ [][Next]_vars

-----------------------------------------------------------------------------
(* Properties.                                                              *)

Roots == { n \in Live(heap) : heap.node[n].parent = NULL }

\* json_check finds nothing wrong with any tree, whatever was done to it; nor does one
\* who reads every list in both directions and goes up from every node.
TreesChecked ==
  /\ \A n \in Roots : Check(heap, n)
  /\ Linked(heap, [n \in Live(heap) |-> Children(heap, n)])
  /\ Grounded(heap)

\* Nothing is lost and nothing is used after its end: the live nodes are those of the
\* trees that somebody holds, no node is in two of them, and there is one string for
\* each key and each string node.  A text that is refused leaves nothing, nor does
\* a message that is done with.
NothingLost ==
  LET owned == held \cup ({dict} \ {NULL})
  IN  /\ Roots = owned
      /\ Live(heap) = UNION { Under(heap, n) : n \in owned }
      /\ Accounted(heap, 0)

\* The same trees with every number as it is printed: as near as sixteen digits are, or
\* null.
Rounded(h) ==
  LET AsPrinted(x) ==
        LET token == EmitNumber(x.val)
        IN  [x EXCEPT !.tag = TagOf(token), !.val = ValueOf(token)]
  IN  [h EXCEPT !.node = [n \in Pool |-> IF h.node[n].tag = "number"
                                         THEN AsPrinted(h.node[n]) ELSE h.node[n]]]

\* What json_decode reads from a tree that was printed, plain or indented, is that tree
\* up to what printing does to its numbers (json.c:1227-1232 promises no more: "preserve
\* precision well enough"); in between json_validate says yes.
PrintedIsRead ==
  \A n \in Roots :
    \A t \in {EmitValue(heap, n), EmitIndented(heap, n, 0)} :
      LET v == JsonRead(t, EmptyHeap, TRUE)
      IN  /\ JsonValidate(t)
          /\ v.at > 0
          /\ Shape(v.heap, v.node) = Shape(Rounded(heap), n)

\* A text without its white space, its numbers spelled as emit_number spells them.
Normal(t) ==
  LET NotSpace(token) == token # Space
      Respelled(token) == IF token \in Numerals THEN EmitNumber(Strtod[token]) ELSE token
      s == SelectSeq(t, NotSpace)
  IN  [i \in 1 .. Len(s) |-> Respelled(s[i])]

\* A text that json_decode accepts says what the tree says that it made of it, token for
\* token but for white space and the spelling of numbers; json_validate accepts and
\* refuses the same texts, without allocating anything.
ReadIsExact ==
  /\ pc \in {"text", "message"} => JsonRead(text, EmptyHeap, FALSE).heap = EmptyHeap
  /\ pc = "accepted" =>
       JsonValidate(text) /\ \E n \in held : EmitValue(heap, n) = Normal(text)
  /\ pc = "refused" => ~JsonValidate(text)

\* For the caller the nodes are an ordered forest.
Forest == INSTANCE AbstractForests WITH
  Keys <- Names \cup {NULL},
  kids <- [n \in Live(heap) |->
             LET c == Children(heap, n)
             IN  [i \in 1 .. Len(c) |-> [key |-> heap.node[c[i]].key, node |-> c[i]]]]

ImplementsForests == Forest!Spec
=============================================================================
