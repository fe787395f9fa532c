-------------------------- MODULE AbstractForests --------------------------
(***************************************************************************)
(* What the tree functions of json.h promise: an ordered forest.  kids     *)
(* gives for each node its children in order, each with its key.  A node   *)
(* has at most one parent, and whatever happens to a tree happens to whole *)
(* subtrees.  Each operation is a relation between the forest f before     *)
(* and the forest g after it.                                              *)
(***************************************************************************)
EXTENDS Integers, SequencesExt

CONSTANT Keys

VARIABLE kids

Nodes(f) == DOMAIN f
Under(f, n) == { f[n][i].node : i \in 1 .. Len(f[n]) }
IsRoot(f, n) == \A p \in Nodes(f) : n \notin Under(f, p)

Init == kids = << >>

\* A new node without children.
Make(f, g) ==
  \E n \in Nodes(g) \ Nodes(f) :
    g = [m \in Nodes(f) \cup {n} |-> IF m = n THEN << >> ELSE f[m]]

\* p is not in the tree under c: the nodes above p do not include c.
Apart(f, p, c) ==
  \E above \in SUBSET Nodes(f) :
    /\ p \in above /\ c \notin above
    /\ \A n \in Nodes(f) : Under(f, n) \cap above # {} => n \in above

\* A root becomes the first or the last child of a node of another tree.
Attach(f, g) ==
  \E p, c \in Nodes(f), k \in Keys :
    LET child == [key |-> k, node |-> c]
    IN  /\ \/ g = [f EXCEPT ![p] = Append(@, child)]
           \/ g = [f EXCEPT ![p] = << child >> \o @]
        /\ IsRoot(f, c) /\ Apart(f, p, c)

\* A child becomes a root, with everything under it.
Detach(f, g) ==
  \E p \in Nodes(f) : \E i \in DOMAIN f[p] : g = [f EXCEPT ![p] = RemoveAt(@, i)]

\* Whole subtrees disappear; what remains keeps its order.
Prune(f, g) ==
  LET gone == Nodes(f) \ Nodes(g)
      Stays(x) == x.node \notin gone
  IN  /\ gone # {}
      /\ \A n \in gone : Under(f, n) \subseteq gone
      /\ g = [n \in Nodes(f) \ gone |-> SelectSeq(f[n], Stays)]

\* One whole tree appears: every new node is under its root, in one place.
Plant(f, g) ==
  LET new == Nodes(g) \ Nodes(f)
  IN  /\ \A n \in Nodes(f) : n \in Nodes(g) /\ g[n] = f[n]
      /\ \E root \in new : \A S \in SUBSET new :
           root \in S /\ (\A n \in S : Under(g, n) \subseteq S) => S = new
      /\ \A m, n \in new : m # n => Under(g, m) \cap Under(g, n) = {}

Next ==
  \E f \in {kids}, g \in {kids'} :
    Make(f, g) \/ Attach(f, g) \/ Detach(f, g) \/ Prune(f, g) \/ Plant(f, g)

Spec == Init /\ [][Next]_kids
=============================================================================
