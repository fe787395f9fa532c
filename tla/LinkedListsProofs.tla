------------------------- MODULE LinkedListsProofs --------------------------
(***************************************************************************)
(* The lists of ccan/list.h, any number of them over any set of nodes:     *)
(* types, the ring invariant, and what list_check and list_for_each find.  *)
(*                                                                         *)
(* TypeOK and Rings are inductive together: TypeOK alone is not, because   *)
(* list_del follows the pointers of the node it removes, and only Rings    *)
(* says that they are not NULL.  Rings speaks of neighbours and would      *)
(* allow a list that has fallen into two circles, one of them without the  *)
(* head; Whole excludes that, and with it the walk meets every member.     *)
(***************************************************************************)
EXTENDS LinkedLists, CcanListProofs, TLAPS

\* The head of the list a cell stands in: a head heads its own list.
ListOf(c) == IF c \in Heads THEN c ELSE owner[c]

Linked == { c \in Cells : ListOf(c) # NULL }

\* next and prev are inverse to one another on the linked cells, and neither
\* leaves the list: list.h's operations never splice two lists together,
\* lose a node or leave a pointer to a node that was deleted.
Rings ==
  \A c \in Linked :
    /\ links.next[c] \in Linked
    /\ links.prev[c] \in Linked
    /\ ListOf(links.next[c]) = ListOf(c)
    /\ ListOf(links.prev[c]) = ListOf(c)
    /\ links.prev[links.next[c]] = c
    /\ links.next[links.prev[c]] = c

Sound == TypeOK /\ Rings

USE ListsAssumption DEF Cells

LEMMA InitSound == Init => Sound
BY DEF Init, InitialMemory, Sound, TypeOK, Rings, Linked, ListOf

\* Insertion between two neighbours: list_add and list_add_tail are the two
\* ways to name them.
LEMMA AddSound ==
  ASSUME Sound, NEW h \in Heads, NEW n \in Nodes, Add(h, n)
  PROVE  Sound'
<1>1. TypeOK'
  BY DEF Sound, TypeOK, Rings, Linked, ListOf, Add, ListAdd
<1>2. Rings'
  <2> DEFINE first == links.next[h]
  <2>1. /\ h \in Linked /\ n \notin Linked
        /\ first \in Linked /\ first \in Cells /\ first # n
        /\ ListOf(first) = h /\ links.prev[first] = h
    BY DEF Sound, TypeOK, Rings, Linked, ListOf, Add
  <2>2. links'.next = [links.next EXCEPT ![n] = first, ![h] = n]
    BY DEF Add, ListAdd
  <2>3. links'.prev = [links.prev EXCEPT ![n] = h, ![first] = n]
    BY DEF Add, ListAdd
  <2>4. \A c \in Cells : ListOf(c)' = IF c = n THEN h ELSE ListOf(c)
    BY DEF Add, ListOf, Sound, TypeOK
  <2>5. Linked' = Linked \cup {n}
    BY <2>4, <2>1 DEF Linked
  <2> QED
    BY <2>1, <2>2, <2>3, <2>4, <2>5 DEF Sound, TypeOK, Rings, Linked
<1> QED
  BY <1>1, <1>2 DEF Sound

LEMMA AddTailSound ==
  ASSUME Sound, NEW h \in Heads, NEW n \in Nodes, AddTail(h, n)
  PROVE  Sound'
<1>1. TypeOK'
  BY DEF Sound, TypeOK, Rings, Linked, ListOf, AddTail, ListAddTail
<1>2. Rings'
  <2> DEFINE last == links.prev[h]
  <2>1. /\ h \in Linked /\ n \notin Linked
        /\ last \in Linked /\ last \in Cells /\ last # n
        /\ ListOf(last) = h /\ links.next[last] = h
    BY DEF Sound, TypeOK, Rings, Linked, ListOf, AddTail
  <2>2. links'.next = [links.next EXCEPT ![n] = h, ![last] = n]
    BY DEF AddTail, ListAddTail
  <2>3. links'.prev = [links.prev EXCEPT ![n] = last, ![h] = n]
    BY DEF AddTail, ListAddTail
  <2>4. \A c \in Cells : ListOf(c)' = IF c = n THEN h ELSE ListOf(c)
    BY DEF AddTail, ListOf, Sound, TypeOK
  <2>5. Linked' = Linked \cup {n}
    BY <2>4, <2>1 DEF Linked
  <2> QED
    BY <2>1, <2>2, <2>3, <2>4, <2>5 DEF Sound, TypeOK, Rings, Linked
<1> QED
  BY <1>1, <1>2 DEF Sound

\* Removal: the neighbours of the node become neighbours of one another.
LEMMA DelSound ==
  ASSUME Sound, NEW n \in Nodes, Del(n)
  PROVE  Sound'
<1> DEFINE before == links.prev[n]
           after  == links.next[n]
<1>1. /\ n \in Linked /\ before \in Linked /\ after \in Linked
      /\ before \in Cells /\ after \in Cells
      /\ ListOf(before) = ListOf(n) /\ ListOf(after) = ListOf(n)
      /\ links.next[before] = n /\ links.prev[after] = n
  <2>1. n \in Linked /\ before \in Linked /\ after \in Linked
    BY DEF Sound, TypeOK, Rings, Linked, ListOf, Del
  <2>2. owner[n] \in Heads /\ ListOf(n) = owner[n]
    BY DEF Sound, TypeOK, ListOf, Del
  <2>3. /\ ListOf(before) = ListOf(n) /\ ListOf(after) = ListOf(n)
        /\ links.next[before] = n /\ links.prev[after] = n
    BY <2>1 DEF Sound, Rings
  <2> QED
    BY <2>1, <2>2, <2>3 DEF Linked
<1>2. links'.next = [links.next EXCEPT ![before] = after]
  BY DEF Del, ListDel
<1>3. links'.prev = [links.prev EXCEPT ![after] = before]
  BY DEF Del, ListDel
<1>4. TypeOK'
  BY <1>1 DEF Sound, TypeOK, Del, ListDel
<1>5. \A c \in Cells : ListOf(c)' = IF c = n THEN NULL ELSE ListOf(c)
  BY DEF Del, ListOf, Sound, TypeOK
<1>6. Linked' = Linked \ {n}
  BY <1>5 DEF Linked
<1>7. Rings'
  BY <1>1, <1>2, <1>3, <1>5, <1>6 DEF Sound, TypeOK, Rings, Linked
<1> QED
  BY <1>4, <1>7 DEF Sound

\* The node list_top finds in a list that is not empty is one the callers added.
LEMMA TopIsANode ==
  ASSUME Sound, NEW h \in Heads, ~ListEmpty(links, h)
  PROVE  links.next[h] \in Nodes
BY DEF Sound, Rings, Linked, ListOf, ListEmpty

\* Every operation keeps the rings.
LEMMA SoundStep == Sound /\ [Next]_vars => Sound'
<1> SUFFICES ASSUME Sound, [Next]_vars
             PROVE  Sound'
  OBVIOUS
<1>1. CASE \E h \in Heads, n \in Nodes : Add(h, n) \/ AddTail(h, n)
  BY <1>1, AddSound, AddTailSound
<1>2. CASE \E n \in Nodes : Del(n)
  BY <1>2, DelSound
<1>3. CASE \E h \in Heads : TakeTop(h)
  BY <1>3, TopIsANode, DelSound DEF TakeTop
<1>4. CASE UNCHANGED vars
  BY <1>4 DEF vars, Sound, TypeOK, Rings, Linked, ListOf
<1> QED
  BY <1>1, <1>2, <1>3, <1>4 DEF Next

\* The pointers are always nodes, heads or NULL.
THEOREM ListsTyped == Spec => []TypeOK
<1>1. Init => Sound
  BY InitSound
<1>2. Sound /\ [Next]_vars => Sound'
  BY SoundStep
<1>3. Sound => TypeOK
  BY DEF Sound
<1> QED
  BY <1>1, <1>2, <1>3, PTL DEF Spec
-----------------------------------------------------------------------------
(***************************************************************************)
(* Walking a list.                                                         *)
(***************************************************************************)
Members(h) == { c \in Cells : ListOf(c) = h }

\* Every list is one circle.
Whole == \A h \in Heads : OnePiece(links, Members(h), h)

LEMMA MembersRing ==
  ASSUME Sound, NEW h \in Heads
  PROVE  /\ Ring(links, Members(h), h)
         /\ Members(h) \in SUBSET Linked
         /\ Memory(links, Cells)
<1>1. h \in Members(h) /\ Members(h) \in SUBSET Linked
  BY DEF Members, ListOf, Linked
<1>2. \A c \in Members(h) : links.next[c] \in Members(h) /\ links.prev[c] \in Members(h)
  BY <1>1 DEF Sound, Rings, Members, Linked
<1> QED
  BY <1>1, <1>2 DEF Sound, TypeOK, Rings, Ring, Memory

\* An operation on one list leaves the walk of another alone.
LEMMA OtherListWhole ==
  ASSUME Whole, NEW h \in Heads, Members(h)' = Members(h),
         \A c \in Members(h) : links'.next[c] = links.next[c]
  PROVE  OnePiece(links', Members(h)', h)
BY DEF Whole, OnePiece

LEMMA InsertElsewhere ==
  ASSUME Sound, NEW h \in Heads, NEW n \in Nodes, Add(h, n) \/ AddTail(h, n),
         NEW g \in Heads, g # h
  PROVE  /\ Members(g)' = Members(g)
         /\ \A c \in Members(g) : links'.next[c] = links.next[c]
<1>1. Ring(links, Members(h), h) /\ Memory(links, Cells)
  BY MembersRing
<1>2. n \notin Linked /\ \A c \in Cells : ListOf(c)' = IF c = n THEN h ELSE ListOf(c)
  BY DEF Add, AddTail, Linked, ListOf, Sound, TypeOK
<1>3. Members(g)' = Members(g)
  BY <1>2 DEF Members, Linked
<1>4. \A c \in Members(g) : c # n /\ c # h /\ c # links.prev[h] /\ c \in Cells
  BY <1>1, <1>2 DEF Members, Linked, Ring, ListOf
<1> QED
  BY <1>1, <1>3, <1>4 DEF Add, AddTail, ListAdd, ListAddTail, Memory

LEMMA InsertWhole ==
  ASSUME Sound, Whole, NEW h \in Heads, NEW n \in Nodes, Add(h, n) \/ AddTail(h, n)
  PROVE  Whole'
<1>1. Ring(links, Members(h), h) /\ OnePiece(links, Members(h), h) /\ Memory(links, Cells)
  BY MembersRing DEF Whole
<1>2. n \in Cells \ Linked /\ Members(h) \in SUBSET Cells /\ n \notin Members(h)
  BY MembersRing DEF Add, AddTail, Linked, ListOf
<1>3. \A c \in Cells : ListOf(c)' = IF c = n THEN h ELSE ListOf(c)
  BY DEF Add, AddTail, ListOf, Sound, TypeOK
<1>4. OnePiece(links', Members(h) \cup {n}, h)
  <2>1. links' = ListAdd(links, h, n) \/ links' = ListAddTail(links, h, n)
    BY DEF Add, AddTail
  <2> QED
    BY <1>1, <1>2, <2>1, AddKeepsOnePiece, AddTailKeepsOnePiece
<1>5. Members(h)' = Members(h) \cup {n}
  BY <1>2, <1>3 DEF Members
<1>6. \A g \in Heads : g # h => OnePiece(links', Members(g)', g)
  BY InsertElsewhere, OtherListWhole
<1> QED
  BY <1>4, <1>5, <1>6 DEF Whole

LEMMA DelElsewhere ==
  ASSUME Sound, NEW n \in Nodes, Del(n), NEW g \in Heads, g # owner[n]
  PROVE  /\ Members(g)' = Members(g)
         /\ \A c \in Members(g) : links'.next[c] = links.next[c]
<1>1. owner[n] \in Heads /\ n \in Members(owner[n])
  BY DEF Del, Sound, TypeOK, Members, ListOf
<1>2. Ring(links, Members(owner[n]), owner[n]) /\ Memory(links, Cells)
  BY <1>1, MembersRing
<1>3. \A c \in Cells : ListOf(c)' = IF c = n THEN NULL ELSE ListOf(c)
  BY DEF Del, ListOf, Sound, TypeOK
<1>4. Members(g)' = Members(g)
  BY <1>1, <1>3 DEF Members
<1>5. \A c \in Members(g) : c # links.prev[n] /\ c \in Cells
  BY <1>1, <1>2 DEF Members, Ring
<1> QED
  BY <1>2, <1>4, <1>5 DEF Del, ListDel, Memory

LEMMA DelWhole ==
  ASSUME Sound, Whole, NEW n \in Nodes, Del(n)
  PROVE  Whole'
<1>1. PICK h \in Heads : h = owner[n] /\ n \in Members(h) \ {h}
  BY DEF Del, Sound, TypeOK, Members, ListOf
<1>2. Ring(links, Members(h), h) /\ OnePiece(links, Members(h), h) /\ Memory(links, Cells)
  BY <1>1, MembersRing DEF Whole
<1>3. \A c \in Cells : ListOf(c)' = IF c = n THEN NULL ELSE ListOf(c)
  BY DEF Del, ListOf, Sound, TypeOK
<1>4. OnePiece(links', Members(h) \ {n}, h)
  BY <1>1, <1>2, DelKeepsOnePiece DEF Del, Members
<1>5. Members(h)' = Members(h) \ {n}
  BY <1>1, <1>3 DEF Members
<1>6. \A g \in Heads : g # h => OnePiece(links', Members(g)', g)
  BY <1>1, DelElsewhere, OtherListWhole
<1> QED
  BY <1>4, <1>5, <1>6 DEF Whole

LEMMA InitWhole == Init => Whole
<1>1. Init => \A h \in Heads : Members(h) = {h}
  BY DEF Init, Members, ListOf
<1> QED
  BY <1>1 DEF Whole, OnePiece

LEMMA WholeStep == Sound /\ Whole /\ [Next]_vars => Whole'
<1> SUFFICES ASSUME Sound, Whole, [Next]_vars
             PROVE  Whole'
  OBVIOUS
<1>1. CASE \E h \in Heads, n \in Nodes : Add(h, n) \/ AddTail(h, n)
  BY <1>1, InsertWhole
<1>2. CASE \E n \in Nodes : Del(n)
  BY <1>2, DelWhole
<1>3. CASE \E h \in Heads : TakeTop(h)
  BY <1>3, TopIsANode, DelWhole DEF TakeTop
<1>4. CASE UNCHANGED vars
  BY <1>4 DEF vars, Whole, OnePiece, Members, ListOf
<1> QED
  BY <1>1, <1>2, <1>3, <1>4 DEF Next

\* Whatever the callers add and delete, list_for_each on any of the lists comes
\* to an end after running its body for exactly the nodes put in and not taken
\* out, and list_check finds every back link right.
THEOREM ListsWalked == Spec => []ListsChecked
<1>1. Init => Sound /\ Whole
  BY InitSound, InitWhole
<1>2. Sound /\ Whole /\ [Next]_vars => (Sound /\ Whole)'
  BY SoundStep, WholeStep
<1>3. Sound /\ Whole => ListsChecked
  <2> SUFFICES ASSUME Sound, Whole, NEW h \in Heads
               PROVE  /\ ListCheck(links, h)
                      /\ Visited(links, h) = { n \in Nodes : owner[n] = h }
    BY DEF ListsChecked
  <2>1. Chain(links, Members(h), h) /\ OnePiece(links, Members(h), h)
    BY MembersRing DEF Chain, Ring, Whole, Memory, Members
  <2>2. IsFiniteSet(DOMAIN links.next)
    BY DEF Sound, TypeOK
  <2>3. Members(h) \ {h} = { n \in Nodes : owner[n] = h }
    BY DEF Members, ListOf
  <2> QED
    BY <2>1, <2>2, <2>3, ChainChecked, VisitedOnACircle
<1> QED
  BY <1>1, <1>2, <1>3, PTL DEF Spec
-----------------------------------------------------------------------------
(***************************************************************************)
(* The lists as sequences.                                                 *)
(***************************************************************************)
LEMMA EntriesKnown ==
  ASSUME Sound, NEW h \in Heads
  PROVE  Entries(h) \in Seq(Members(h) \ {h}) /\ Lists(links, h, Entries(h))
<1>1. Chain(links, Members(h), h)
  BY MembersRing DEF Chain, Ring, Memory, Members
<1>2. IsFiniteSet(DOMAIN links.next)
  BY DEF Sound, TypeOK
<1> QED
  BY <1>1, <1>2, EntriesListed DEF Entries

\* The same of the next state: what lists the nodes there is what a walk meets.
LEMMA NextEntries ==
  ASSUME Sound', NEW h \in Heads, NEW s \in Seq(Members(h)' \ {h}), Lists(links', h, s)
  PROVE  Entries(h)' = s
<1>1. \A c \in Members(h)' : c \in Linked' /\ c \in Cells /\ ListOf(c)' = h
  BY DEF Members, Linked
<1>2. \A c \in Members(h)' :
        links'.next[c] \in Members(h)' /\ links'.prev[links'.next[c]] = c
  BY <1>1 DEF Sound, Rings, Members, Linked
<1>3. Chain(links', Members(h)', h)
  <2>1. h \in Members(h)' /\ NULL \notin Members(h)' /\ Members(h)' \subseteq DOMAIN links'.next
    BY DEF Sound, TypeOK, Members, ListOf
  <2> QED
    BY <1>2, <2>1 DEF Chain
<1>4. IsFiniteSet(DOMAIN links'.next)
  BY DEF Sound, TypeOK
<1>5. /\ EntriesOf(links', h) \in Seq(Members(h)' \ {h})
      /\ Lists(links', h, EntriesOf(links', h))
  BY <1>3, <1>4, EntriesListed
<1>6. h \notin Members(h)' \ {h}
  OBVIOUS
<1> QED
  BY <1>5, <1>6, OneOrder DEF Entries

LEMMA EntriesElsewhere ==
  ASSUME Sound, Sound', NEW g \in Heads, Members(g)' = Members(g),
         \A c \in Members(g) : links'.next[c] = links.next[c]
  PROVE  Entries(g)' = Entries(g)
<1>1. g \in Members(g)
  BY DEF Members, ListOf
<1> QED
  BY <1>1, EntriesKnown, ListedElsewhere, NextEntries

LEMMA InsertEntries ==
  ASSUME Sound, NEW h \in Heads, NEW n \in Nodes, Add(h, n) \/ AddTail(h, n)
  PROVE  /\ Add(h, n) => Entries(h)' = << n >> \o Entries(h)
         /\ AddTail(h, n) => Entries(h)' = Append(Entries(h), n)
         /\ \A g \in Heads : g # h => Entries(g)' = Entries(g)
<1> DEFINE s == Entries(h)
<1>1. Sound'
  BY AddSound, AddTailSound
<1>2. Ring(links, Members(h), h) /\ Memory(links, Cells) /\ Members(h) \in SUBSET Cells
  BY MembersRing DEF Members
<1>3. n \in Cells \ Members(h) /\ n # h
  BY DEF Add, AddTail, Members, ListOf
<1>4. Members(h)' = Members(h) \cup {n}
  <2>1. \A c \in Cells : ListOf(c)' = IF c = n THEN h ELSE ListOf(c)
    BY DEF Add, AddTail, ListOf, Sound, TypeOK
  <2> QED
    BY <1>3, <2>1 DEF Members
<1>5. s \in Seq(Members(h) \ {h}) /\ Lists(links, h, s)
  BY EntriesKnown
<1>6. s \in Seq(Members(h)' \ {h}) /\ n \in Members(h)' \ {h}
  BY <1>3, <1>4, <1>5, SeqMonotonic
<1> HIDE DEF s
<1>7. << n >> \o s \in Seq(Members(h)' \ {h}) /\ Append(s, n) \in Seq(Members(h)' \ {h})
  BY <1>6
<1>8. ASSUME Add(h, n)
      PROVE  Entries(h)' = << n >> \o s
  <2>1. Lists(links', h, << n >> \o s)
    BY <1>2, <1>3, <1>5, <1>8, AddListsFirst DEF Add
  <2> QED
    BY <1>1, <1>7, <2>1, NextEntries
<1>9. ASSUME AddTail(h, n)
      PROVE  Entries(h)' = Append(s, n)
  <2>1. Lists(links', h, Append(s, n))
    BY <1>2, <1>3, <1>5, <1>9, AddTailListsLast DEF AddTail
  <2> QED
    BY <1>1, <1>7, <2>1, NextEntries
<1>10. \A g \in Heads : g # h => Entries(g)' = Entries(g)
  BY <1>1, InsertElsewhere, EntriesElsewhere
<1> QED
  BY <1>8, <1>9, <1>10 DEF s

LEMMA DelEntries ==
  ASSUME Sound, Whole, NEW n \in Nodes, Del(n), NEW h \in Heads, owner[n] = h
  PROVE  LET s == Entries(h)
         IN  /\ \E i \in 1 .. Len(s) : s[i] = n
             /\ \A i \in 1 .. Len(s) : s[i] = n =>
                  Entries(h)' = SubSeq(s, 1, i - 1) \o SubSeq(s, i + 1, Len(s))
             /\ \A g \in Heads : g # h => Entries(g)' = Entries(g)
<1> DEFINE s == Entries(h)
<1>1. Sound'
  BY DelSound
<1>2. n \in Members(h) \ {h} /\ h \in Members(h)
  BY DEF Del, Sound, TypeOK, Members, ListOf
<1>3. /\ Ring(links, Members(h), h) /\ Memory(links, Cells) /\ Members(h) \in SUBSET Cells
      /\ OnePiece(links, Members(h), h)
  BY <1>2, MembersRing DEF Members, Whole
<1>4. Members(h)' = Members(h) \ {n}
  <2>1. \A c \in Cells : ListOf(c)' = IF c = n THEN NULL ELSE ListOf(c)
    BY DEF Del, ListOf, Sound, TypeOK
  <2> QED
    BY <1>2, <2>1 DEF Members
<1>5. s \in Seq(Members(h) \ {h}) /\ Lists(links, h, s)
  BY <1>2, EntriesKnown
<1>6. links' = ListDel(links, n)
  BY DEF Del
<1>7. \A g \in Heads : g # h => Entries(g)' = Entries(g)
  BY <1>1, DelElsewhere, EntriesElsewhere
<1> HIDE DEF s
<1>8. \E i \in 1 .. Len(s) : s[i] = n
  BY <1>2, <1>3, <1>5, AllListed
<1>9. ASSUME NEW i \in 1 .. Len(s), s[i] = n
      PROVE  Entries(h)' = SubSeq(s, 1, i - 1) \o SubSeq(s, i + 1, Len(s))
  <2> DEFINE t == SubSeq(s, 1, i - 1) \o SubSeq(s, i + 1, Len(s))
  <2>1. t \in Seq(Members(h) \ {h, n}) /\ Lists(links', h, t)
    BY <1>3, <1>5, <1>6, <1>9, DelListsOthers
  <2>2. Members(h) \ {h, n} = Members(h)' \ {h}
    BY <1>4
  <2> HIDE DEF t
  <2>3. Entries(h)' = t
    BY <1>1, <1>2, <2>1, <2>2, NextEntries
  <2> QED
    BY <2>3 DEF t
<1> QED
  BY <1>7, <1>8, <1>9 DEF s

\* Of the nodes, a list's entries are those the callers have in it.
LEMMA EntriesOwned ==
  ASSUME Sound, NEW h \in Heads, NEW n \in Nodes, Abstract!Contains(Entries(h), n)
  PROVE  owner[n] = h
<1>1. Entries(h) \in Seq(Members(h) \ {h})
  BY EntriesKnown
<1>2. n \in Members(h)
  BY <1>1 DEF Abstract!Contains
<1> QED
  BY <1>2 DEF Members, ListOf

LEMMA AddImplements ==
  ASSUME Sound, NEW h \in Heads, NEW n \in Nodes
  PROVE  /\ Add(h, n) => Abstract!AddFirst(h, n)
         /\ AddTail(h, n) => Abstract!AddLast(h, n)
<1>1. ASSUME Add(h, n) \/ AddTail(h, n)
      PROVE  n \in Abstract!Free
  <2>1. owner[n] = NULL /\ NULL \notin Heads
    BY <1>1 DEF Add, AddTail
  <2> QED
    BY <2>1, EntriesOwned DEF Abstract!Free
<1>2. ASSUME Add(h, n)
      PROVE  [g \in Heads |-> Entries(g)]'
               = [[g \in Heads |-> Entries(g)] EXCEPT ![h] = << n >> \o @]
  BY <1>2, InsertEntries
<1>3. ASSUME AddTail(h, n)
      PROVE  [g \in Heads |-> Entries(g)]'
               = [[g \in Heads |-> Entries(g)] EXCEPT ![h] = Append(@, n)]
  BY <1>3, InsertEntries
<1> QED
  BY <1>1, <1>2, <1>3 DEF Abstract!AddFirst, Abstract!AddLast

LEMMA DelImplements ==
  ASSUME Sound, Whole, NEW n \in Nodes, Del(n)
  PROVE  owner[n] \in Heads /\ Abstract!TakeOut(owner[n], n)
<1>1. PICK h \in Heads : h = owner[n]
  BY DEF Del, Sound, TypeOK
<1>2. PICK i \in 1 .. Len(Entries(h)) : Entries(h)[i] = n
  BY <1>1, DelEntries
<1>3. /\ Entries(h)' = Abstract!RemoveAt(Entries(h), i)
      /\ \A g \in Heads : g # h => Entries(g)' = Entries(g)
  BY <1>1, <1>2, DelEntries, ZenonT(60) DEF Abstract!RemoveAt
<1>4. [g \in Heads |-> Entries(g)]'
        = [[g \in Heads |-> Entries(g)] EXCEPT ![h] = Abstract!RemoveAt(@, i)]
  BY <1>3
<1>5. i \in DOMAIN Entries(h)
  BY <1>2, EntriesKnown
<1>6. Abstract!TakeOut(h, n)
  BY <1>2, <1>4, <1>5 DEF Abstract!TakeOut
<1> QED
  BY <1>1, <1>6

\* list_top finds the first entry.
LEMMA TopImplements ==
  ASSUME Sound, Whole, NEW h \in Heads, TakeTop(h)
  PROVE  Entries(h)' = Tail(Entries(h))
<1> DEFINE n == links.next[h]
           s == Entries(h)
<1>1. PICK top \in Nodes : top = n /\ Del(top)
  BY TopIsANode DEF TakeTop
<1>2. s \in Seq(Members(h) \ {h}) /\ Lists(links, h, s)
  BY EntriesKnown
<1>3. Stop(h, s, 1) = n /\ n # h
  BY <1>2 DEF Lists, Stop, TakeTop, ListEmpty
<1>4. 1 \in 1 .. Len(s) /\ s[1] = top
  BY <1>1, <1>3 DEF Stop
<1>5. top \in Members(h) /\ owner[top] = h
  BY <1>2, <1>4 DEF Members, ListOf
<1>6. Entries(h)' = SubSeq(s, 1, 0) \o SubSeq(s, 2, Len(s))
  <2>1. \A i \in 1 .. Len(s) : s[i] = top =>
          Entries(h)' = SubSeq(s, 1, i - 1) \o SubSeq(s, i + 1, Len(s))
    BY <1>1, <1>5, DelEntries, ZenonT(60)
  <2>2. PICK i \in 1 .. Len(s) : s[i] = top /\ i - 1 = 0 /\ i + 1 = 2
    BY <1>4
  <2> QED
    BY <2>1, <2>2
<1>7. SubSeq(s, 1, 0) \o SubSeq(s, 2, Len(s)) = Tail(s)
  <2> HIDE DEF s
  <2>1. s # << >>
    BY <1>2, <1>4
  <2>2. Tail(s) = SubSeq(s, 2, Len(s)) /\ Tail(s) \in Seq(Members(h) \ {h})
    BY <1>2, <2>1, TailIsSubSeq
  <2>3. SubSeq(s, 1, 0) = << >>
    BY <1>2
  <2> QED
    BY <2>2, <2>3, ConcatEmptySeq
<1> QED
  BY <1>6, <1>7

\* list_add puts an entry before the others, list_add_tail behind them, list_del and
\* list_top take one out and leave the others in order: what list.h does with
\* pointers is what its comments promise of lists, each operation its own.
THEOREM SequencesImplemented == Spec => ImplementsSequences
<1>1. Init => Sound /\ Whole
  BY InitSound, InitWhole
<1>2. Sound /\ Whole /\ [Next]_vars => (Sound /\ Whole)'
  BY SoundStep, WholeStep
<1>3. Init => Abstract!Init
  <2> SUFFICES ASSUME Init, NEW h \in Heads
               PROVE  Entries(h) = << >>
    BY DEF Abstract!Init
  <2>1. Members(h) = {h}
    BY DEF Init, Members, ListOf
  <2>2. Entries(h) \in Seq({})
    BY <2>1, InitSound, EntriesKnown
  <2> QED
    BY <2>2
<1>4. Sound /\ Whole /\ [Next]_vars => [Abstract!Next]_[h \in Heads |-> Entries(h)]
  <2> SUFFICES ASSUME Sound, Whole, [Next]_vars
               PROVE  Abstract!Next \/ UNCHANGED [h \in Heads |-> Entries(h)]
    OBVIOUS
  <2>1. CASE \E h \in Heads, n \in Nodes : Add(h, n) \/ AddTail(h, n)
    BY <2>1, AddImplements DEF Abstract!Next
  <2>2. CASE \E n \in Nodes : Del(n)
    BY <2>2, DelImplements DEF Abstract!Next
  <2>3. CASE \E h \in Heads : TakeTop(h)
    BY <2>3, TopIsANode, DelImplements DEF Abstract!Next, TakeTop
  <2>4. CASE UNCHANGED vars
    BY <2>4 DEF vars, Entries
  <2> QED
    BY <2>1, <2>2, <2>3, <2>4 DEF Next
<1>5. Sound /\ Whole =>
        /\ \A h \in Heads, n \in Nodes :
             /\ Add(h, n) => Abstract!AddFirst(h, n)
             /\ AddTail(h, n) => Abstract!AddLast(h, n)
        /\ \A n \in Nodes : Del(n) => Abstract!TakeOut(owner[n], n)
        /\ \A h \in Heads : TakeTop(h) => Entries(h)' = Tail(Entries(h))
  BY AddImplements, DelImplements, TopImplements
<1> QED
  BY <1>1, <1>2, <1>3, <1>4, <1>5, PTL
     DEF Spec, ImplementsSequences, OperationsMatch, Abstract!Spec
=============================================================================
