--------------------------- MODULE MCLinkedLists ----------------------------
(* Two lists and three nodes: enough for a node to have a neighbour on each *)
(* side and for nodes to move between lists.                                *)
EXTENDS LinkedLists
=============================================================================
