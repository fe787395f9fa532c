------------------------------ MODULE CcanList ------------------------------
(***************************************************************************)
(* The intrusive doubly-linked list of ccan/list.h and ccan/list.c.        *)
(*                                                                         *)
(* Every list of the server (entities, players, map residents, commands,   *)
(* registries) is built from these operations.  A memory m is a record of  *)
(* two functions, m.next and m.prev, from list nodes (heads included) to   *)
(* nodes or NULL; an operation returns the memory it leaves behind.  Each  *)
(* one performs the stores of the C function in the C order, so that it is *)
(* also right about nodes that are added twice or were overwritten.        *)
(***************************************************************************)
EXTENDS Naturals, FiniteSets

CONSTANT NULL

\* list_add without the store that turns the old first node's prev around.
ListAddNoBackLink(m, h, n) ==
  [next |-> [m.next EXCEPT ![n] = m.next[h], ![h] = n],
   prev |-> [m.prev EXCEPT ![n] = h]]

\* list_add: insert n right after the head h.
ListAdd(m, h, n) ==
  LET first == m.next[h]
  IN  [next |-> [m.next EXCEPT ![n] = first, ![h] = n],
       prev |-> [m.prev EXCEPT ![n] = h, ![first] = n]]

\* list_add_tail that inserts at the front instead.
ListAddTailAtFront(m, h, n) == ListAdd(m, h, n)

\* list_add_tail: insert n right before the head h.
ListAddTail(m, h, n) ==
  LET last == m.prev[h]
  IN  [next |-> [m.next EXCEPT ![n] = h, ![last] = n],
       prev |-> [m.prev EXCEPT ![n] = last, ![h] = n]]

\* list_del that forgets to bridge the gap backwards.
ListDelOneWay(m, n) ==
  [m EXCEPT !.next = [@ EXCEPT ![m.prev[n]] = m.next[n]]]

\* list_del: bridge the gap around n; the pointers of n itself stay.
ListDel(m, n) ==
  [next |-> [m.next EXCEPT ![m.prev[n]] = m.next[n]],
   prev |-> [m.prev EXCEPT ![m.next[n]] = m.prev[n]]]

ListEmpty(m, h) == m.next[h] = h

(***************************************************************************)
(* list_for_each.  Hops(m, h)[k] is where the loop variable stands when    *)
(* its body is about to run for the (k+1)-th time.  The loop ends when it  *)
(* is back at the head; it runs off the list when it meets a NULL, and it  *)
(* never ends when neither happened after as many hops as there are nodes. *)
(***************************************************************************)
Hops(m, h) ==
  LET hop[k \in 0 .. Cardinality(DOMAIN m.next)] ==
        IF k = 0
        THEN m.next[h]
        ELSE IF hop[k-1] \in {h, NULL} THEN hop[k-1] ELSE m.next[hop[k-1]]
  IN  hop

LastHop(m, h) == Hops(m, h)[Cardinality(DOMAIN m.next)]

\* The nodes for which the body of the loop runs.
Visited(m, h) ==
  LET hop == Hops(m, h) IN { hop[k] : k \in DOMAIN hop } \ {h, NULL}

\* The same nodes in the order of the loop.
EntriesOf(m, h) ==
  LET hop == Hops(m, h)
      before == { k \in DOMAIN hop : \A i \in 0 .. k : hop[i] # h }
  IN  [i \in { k + 1 : k \in before } |-> hop[i-1]]

LoopEnds(m, h)    == LastHop(m, h) = h
LoopRunsOff(m, h) == LastHop(m, h) = NULL

\* list_check_node: following next leads back to h, and each node passed
\* points back at the one before it.
ListCheck(m, h) ==
  /\ LoopEnds(m, h)
  /\ \A n \in Visited(m, h) \cup {h} : m.prev[m.next[n]] = n
=============================================================================
