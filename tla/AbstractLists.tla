--------------------------- MODULE AbstractLists ----------------------------
(***************************************************************************)
(* What ccan/list.h promises: a family of disjoint sequences.  list_add    *)
(* puts an entry at the start of a list, list_add_tail at the end,         *)
(* list_del takes it out of whichever list it is in, and no operation      *)
(* disturbs the order of the other entries.                                *)
(***************************************************************************)
EXTENDS Sequences, SequencesExt

CONSTANTS Heads, Nodes

VARIABLE lists     \* lists[h]: the entries of the list headed by h, in order

Free == { n \in Nodes : \A h \in Heads : ~Contains(lists[h], n) }

Init == lists = [h \in Heads |-> <<>>]

AddFirst(h, n) ==
  /\ n \in Free
  /\ lists' = [lists EXCEPT ![h] = <<n>> \o @]

AddLast(h, n) ==
  /\ n \in Free
  /\ lists' = [lists EXCEPT ![h] = Append(@, n)]

TakeOut(h, n) ==
  \E i \in DOMAIN lists[h] :
    /\ lists[h][i] = n
    /\ lists' = [lists EXCEPT ![h] = RemoveAt(@, i)]

Next == \E h \in Heads, n \in Nodes :
          AddFirst(h, n) \/ AddLast(h, n) \/ TakeOut(h, n)

Spec == Init /\ [][Next]_lists
=============================================================================
