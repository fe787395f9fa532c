----------------------------- MODULE JsonNodes -----------------------------
(***************************************************************************)
(* The nodes of json.h and the operations of json.c that move pointers, as *)
(* operators on a heap: node is the memory of every block of the pool, and *)
(* strings counts the blocks that hold a key or the text of a string.      *)
(* A string that a node owns is not shared, so a count is enough to see    *)
(* one lost or freed twice.                                                *)
(***************************************************************************)
EXTENDS Integers, Sequences, FiniteSets

CONSTANTS
  PoolSize,         \* how many nodes malloc can place
  Names,            \* the strings, keys included
  Doubles,          \* the numbers a node may hold
  Junk              \* the content of a block that is not allocated

NULL == 0
Pool == 1 .. PoolSize

Containers == {"array", "object"}
Tags == Containers \cup {"null", "bool", "string", "number"}

ASSUME NodesAssumption ==
  /\ PoolSize \in Nat
  /\ Junk \notin Tags
  /\ NULL \notin Names

\* What calloc leaves, but for the tag and the scalar in the union.
Fresh(tag, val) ==
  [tag |-> tag, val |-> val, parent |-> NULL, prev |-> NULL, next |-> NULL,
   key |-> NULL, head |-> NULL, tail |-> NULL]

\* A block that is not allocated: no field of it is a pointer or a tag.
Free == [f \in DOMAIN Fresh(Junk, Junk) |-> Junk]

EmptyHeap == [node |-> [n \in Pool |-> Free], strings |-> 0]

Live(h) == { n \in Pool : h.node[n].tag # Junk }

\* Where calloc puts the next node.
NextFree(h) == CHOOSE n \in Pool \ Live(h) : \A o \in Pool \ Live(h) : n <= o

Strdup(h) == [h EXCEPT !.strings = @ + 1]
FreeString(h) == [h EXCEPT !.strings = @ - 1]

\* mknode; a string node takes over a string that exists.
MkNode(h, n, tag, val) == [h EXCEPT !.node[n] = Fresh(tag, val)]

\* The node before is not told.
AppendNodeUnlinked(h, p, c) ==
  LET t == h.node[p].tail
      child == [h.node EXCEPT ![c] = [h.node[c] EXCEPT !.parent = p, !.prev = t, !.next = NULL]]
      bound == IF t = NULL THEN [child EXCEPT ![p].head = c] ELSE child
  IN  [h EXCEPT !.node = [bound EXCEPT ![p].tail = c]]

AppendNode(h, p, c) ==
  LET t == h.node[p].tail
      child == [h.node EXCEPT ![c] = [h.node[c] EXCEPT !.parent = p, !.prev = t, !.next = NULL]]
      bound == IF t = NULL THEN [child EXCEPT ![p].head = c] ELSE [child EXCEPT ![t].next = c]
  IN  [h EXCEPT !.node = [bound EXCEPT ![p].tail = c]]

\* The node that was first keeps its prev.
PrependNodeOneWay(h, p, c) ==
  LET f == h.node[p].head
      child == [h.node EXCEPT ![c] = [h.node[c] EXCEPT !.parent = p, !.prev = NULL, !.next = f]]
      bound == IF f = NULL THEN [child EXCEPT ![p].tail = c] ELSE child
  IN  [h EXCEPT !.node = [bound EXCEPT ![p].head = c]]

PrependNode(h, p, c) ==
  LET f == h.node[p].head
      child == [h.node EXCEPT ![c] = [h.node[c] EXCEPT !.parent = p, !.prev = NULL, !.next = f]]
      bound == IF f = NULL THEN [child EXCEPT ![p].tail = c] ELSE [child EXCEPT ![f].prev = c]
  IN  [h EXCEPT !.node = [bound EXCEPT ![p].head = c]]

SetKey(h, c, k) == [h EXCEPT !.node[c].key = k]

\* append_member takes over the key.
AppendMember(h, p, k, c) == AppendNode(SetKey(h, c, k), p, c)

\* json_append_member and json_prepend_member copy it.
AppendMemberCopy(h, p, k, c) == AppendMember(Strdup(h), p, k, c)
PrependMemberCopy(h, p, k, c) == PrependNode(SetKey(Strdup(h), c, k), p, c)

RemoveFromParent(h, n) ==
  LET x == h.node[n]
      ahead == IF x.prev # NULL THEN [h.node EXCEPT ![x.prev].next = x.next]
                                ELSE [h.node EXCEPT ![x.parent].head = x.next]
      back == IF x.next # NULL THEN [ahead EXCEPT ![x.next].prev = x.prev]
                               ELSE [ahead EXCEPT ![x.parent].tail = x.prev]
      alone == [back[n] EXCEPT !.parent = NULL, !.prev = NULL, !.next = NULL, !.key = NULL]
  IN  IF x.parent = NULL THEN h
      ELSE [node |-> [back EXCEPT ![n] = alone],
            strings |-> IF x.key = NULL THEN h.strings ELSE h.strings - 1]

\* The end of json_delete: the node, and the string it may own.
FreeNode(h, n) ==
  [node |-> [h.node EXCEPT ![n] = Free],
   strings |-> IF h.node[n].tag = "string" THEN h.strings - 1 ELSE h.strings]
-----------------------------------------------------------------------------
(* What the pointers say when they agree, for the properties of the callers. *)

\* The i-th node of a list, NULL before its first and behind its last.
Slot(s, i) == IF i \in 1 .. Len(s) THEN s[i] ELSE NULL

\* s lists the children of p: head and next lead through it, tail and prev through it
\* backwards, and the members of an object are those that have keys.
ChildrenAre(h, p, s) ==
  LET x == h.node[p]
  IN  /\ s \in Seq(Live(h))
      /\ x.head = Slot(s, 1) /\ x.tail = Slot(s, Len(s))
      /\ s # << >> => x.tag \in Containers
      /\ \A i, j \in 1 .. Len(s) : s[i] = s[j] => i = j
      /\ \A i \in 1 .. Len(s) :
           LET y == h.node[s[i]]
           IN  /\ y.parent = p
               /\ y.prev = Slot(s, i - 1) /\ y.next = Slot(s, i + 1)
               /\ y.key = NULL <=> x.tag = "array"

\* kids gives every node its children, and every other node is a root by itself.
Linked(h, kids) ==
  /\ DOMAIN kids = Live(h)
  /\ \A p \in Live(h) : ChildrenAre(h, p, kids[p])
  /\ \A c \in Live(h) :
       LET y == h.node[c]
       IN  IF y.parent = NULL
           THEN y.prev = NULL /\ y.next = NULL /\ y.key = NULL
           ELSE y.parent \in Live(h) /\ \E i \in 1 .. Len(kids[y.parent]) : kids[y.parent][i] = c

\* A set of nodes with what is above them.
Upward(h, S) == \A n \in S : h.node[n].parent \in S \cup {NULL}

\* Every node is in a tree: going up ends at a root.
Grounded(h) ==
  \A S \in SUBSET Live(h) : S # {} /\ Upward(h, S) => \E n \in S : h.node[n].parent = NULL

\* Each string is the key of one node or the text of one, but for the loose ones.
Accounted(h, loose) ==
  h.strings = Cardinality({ n \in Live(h) : h.node[n].key # NULL })
              + Cardinality({ n \in Live(h) : h.node[n].tag = "string" }) + loose
=============================================================================
