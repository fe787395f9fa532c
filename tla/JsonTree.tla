------------------------------ MODULE JsonTree ------------------------------
(* The operations of json.c that walk a tree: deleting, finding, checking,   *)
(* and what a tree of nodes stands for.                                      *)
EXTENDS JsonNodes

\* json_foreach: the nodes from c on along next.  "fuel" stops a walk that has
\* met more nodes than there are; the code would go round for ever.
RECURSIVE Along(_, _, _)
Along(h, c, fuel) ==
  IF c = NULL \/ fuel = 0 THEN << >> ELSE << c >> \o Along(h, h.node[c].next, fuel - 1)

Children(h, n) ==
  IF h.node[n].tag \in Containers THEN Along(h, h.node[n].head, PoolSize) ELSE << >>

\* json_delete, one child after the other; next is read before the child goes.
RECURSIVE Delete(_, _), DeleteAlong(_, _)
Delete(h, n) ==
  IF n = NULL THEN h
  ELSE LET h1 == RemoveFromParent(h, n)
           h2 == IF h.node[n].tag \in Containers THEN DeleteAlong(h1, h.node[n].head) ELSE h1
       IN  FreeNode(h2, n)
DeleteAlong(h, c) ==
  IF c = NULL THEN h ELSE DeleteAlong(Delete(h, c), h.node[c].next)

\* json_find_member: the first member of that name, NULL when there is none.
FindMember(h, n, name) ==
  LET kids == Children(h, n)
      hits == { i \in 1 .. Len(kids) : h.node[kids[i]].key = name }
  IN  IF n # NULL /\ h.node[n].tag = "object" /\ hits # {}
      THEN kids[CHOOSE i \in hits : \A j \in hits : i <= j]
      ELSE NULL

\* json_check.  Keys and strings are valid UTF-8 here.
RECURSIVE Check(_, _)
Check(h, n) ==
  LET x == h.node[n]
      kids == Children(h, n)
      Sound(c) ==
        LET y == h.node[c]
        IN  /\ c # n /\ y.next \notin {c, x.head}
            /\ y.parent = n
            /\ y.next # NULL => h.node[y.next].prev = c
            /\ x.tag = "array" <=> y.key = NULL
            /\ Check(h, c)
  IN  /\ x.tag \in Tags
      /\ x.tag \in Containers =>
           /\ x.head = NULL <=> x.tail = NULL
           /\ x.head # NULL => h.node[x.head].prev = NULL /\ kids[Len(kids)] = x.tail
           /\ \A i \in 1 .. Len(kids) : Sound(kids[i])

\* The nodes of the tree under n.
RECURSIVE Under(_, _)
Under(h, n) ==
  LET kids == Children(h, n)
  IN  {n} \cup UNION { Under(h, kids[i]) : i \in 1 .. Len(kids) }

\* What the tree stands for.
RECURSIVE Shape(_, _)
Shape(h, n) ==
  LET x == h.node[n]
      kids == Children(h, n)
  IN  IF x.tag \in Containers
      THEN << x.tag, [i \in 1 .. Len(kids) |-> << h.node[kids[i]].key, Shape(h, kids[i]) >>] >>
      ELSE << x.tag, x.val >>
=============================================================================
