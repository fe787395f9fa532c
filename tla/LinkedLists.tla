---------------------------- MODULE LinkedLists -----------------------------
(***************************************************************************)
(* Several lists of ccan/list.h sharing one memory, driven by callers that *)
(* keep the contract of the header: a node is added only while it is in no *)
(* list, and deleted only while it is in one ("it can be added to another  *)
(* list, but not deleted again").  The server's entity, player, command    *)
(* and registry lists are used this way; the map's list is not, and the    *)
(* module Worlds models that one with the same operations.                 *)
(***************************************************************************)
EXTENDS CcanList, Sequences

CONSTANTS Heads, Nodes

Cells == Heads \cup Nodes

ASSUME ListsAssumption ==
  /\ Heads \cap Nodes = {}
  /\ NULL \notin Cells
  /\ IsFiniteSet(Cells)

VARIABLES
  links,     \* the next and prev pointers
  owner      \* owner[n]: the head of the list the callers have n in, or NULL

vars == <<links, owner>>

\* The memory after list_head_init of every head.
InitialMemory ==
  [next |-> [c \in Cells |-> IF c \in Heads THEN c ELSE NULL],
   prev |-> [c \in Cells |-> IF c \in Heads THEN c ELSE NULL]]

Init ==
  /\ links = InitialMemory
  /\ owner = [n \in Nodes |-> NULL]

Add(h, n) ==
  /\ owner[n] = NULL
  /\ links' = ListAdd(links, h, n)
  /\ owner' = [owner EXCEPT ![n] = h]

AddTail(h, n) ==
  /\ owner[n] = NULL
  /\ links' = ListAddTail(links, h, n)
  /\ owner' = [owner EXCEPT ![n] = h]

Del(n) ==
  /\ owner[n] # NULL
  /\ links' = ListDel(links, n)
  /\ owner' = [owner EXCEPT ![n] = NULL]

\* list_top and list_del: how command_dispatch takes the next command.
TakeTop(h) ==
  /\ ~ListEmpty(links, h)
  /\ Del(links.next[h])

Next ==
  \/ \E h \in Heads, n \in Nodes : Add(h, n) \/ AddTail(h, n)
  \/ \E n \in Nodes : Del(n)
  \/ \E h \in Heads : TakeTop(h)

Spec == Init /\ [][Next]_vars
-----------------------------------------------------------------------------
(***************************************************************************)
(* Properties.                                                             *)
(***************************************************************************)
\* A head never holds NULL, not even for a moment between two operations.
TypeOK ==
  /\ links \in [next : [Cells -> Cells \cup {NULL}],
                prev : [Cells -> Cells \cup {NULL}]]
  /\ \A h \in Heads : links.next[h] \in Cells /\ links.prev[h] \in Cells
  /\ owner \in [Nodes -> Heads \cup {NULL}]

\* list_check succeeds on every list, and list_for_each visits exactly the
\* nodes the callers have put into the list and not yet taken out.
ListsChecked ==
  \A h \in Heads :
    /\ ListCheck(links, h)
    /\ Visited(links, h) = { n \in Nodes : owner[n] = h }

\* The entries of the list headed by h, in the order list_for_each meets them.
Entries(h) == EntriesOf(links, h)

Abstract == INSTANCE AbstractLists WITH lists <- [h \in Heads |-> Entries(h)]

\* Each operation implements its own: list_add puts a node first, list_add_tail
\* last, list_del leaves the others in order, and list_top is the first.
OperationsMatch ==
  [][/\ \A h \in Heads, n \in Nodes :
          /\ Add(h, n) => Abstract!AddFirst(h, n)
          /\ AddTail(h, n) => Abstract!AddLast(h, n)
     /\ \A n \in Nodes : Del(n) => Abstract!TakeOut(owner[n], n)
     /\ \A h \in Heads : TakeTop(h) => Entries(h)' = Tail(Entries(h))]_vars

\* The pointer operations implement operations on sequences, each its own.
ImplementsSequences == Abstract!Spec /\ OperationsMatch
=============================================================================
