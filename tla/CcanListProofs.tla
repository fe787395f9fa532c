--------------------------- MODULE CcanListProofs ---------------------------
(***************************************************************************)
(* What list_for_each and list_check do on a list whose links lead back:   *)
(* facts about the operators of CcanList, for the proofs of the modules    *)
(* that keep lists.                                                        *)
(***************************************************************************)
EXTENDS CcanList, Iteration, FiniteSetTheorems, SequenceTheorems

\* Following next from h stays within S, and prev takes every step back.
Chain(m, S, h) ==
  /\ h \in S
  /\ NULL \notin S
  /\ S \subseteq DOMAIN m.next
  /\ \A c \in S : m.next[c] \in S /\ m.prev[m.next[c]] = c

\* On a chain the loop variable of list_for_each stays in the chain, moves
\* along next, and stands still once it is back at the head.
LEMMA HopsOnAChain ==
  ASSUME NEW m, NEW S, NEW h, Chain(m, S, h), IsFiniteSet(DOMAIN m.next)
  PROVE  LET N == Cardinality(DOMAIN m.next)
         IN  /\ N \in Nat
             /\ Hops(m, h) \in [0 .. N -> S]
             /\ Hops(m, h)[0] = m.next[h]
             /\ \A k \in 0 .. N : k # 0 =>
                  Hops(m, h)[k] = IF Hops(m, h)[k-1] = h THEN h
                                  ELSE m.next[Hops(m, h)[k-1]]
<1> DEFINE N == Cardinality(DOMAIN m.next)
           step == [c \in S |-> IF c = h THEN h ELSE m.next[c]]
           Hop(f) == f = [k \in 0 .. N |->
                       IF k = 0
                       THEN m.next[h]
                       ELSE IF f[k-1] \in {h, NULL} THEN f[k-1] ELSE m.next[f[k-1]]]
<1>1. N \in Nat
  BY FS_CardinalityType
<1>2. m.next[h] \in S /\ step \in [S -> S]
  BY DEF Chain
<1> HIDE DEF N
<1>3. PICK f \in [0 .. N -> S] : Iterates(f, N, m.next[h], step)
  <2> HIDE DEF step
  <2> QED
    BY <1>1, <1>2, IterationExists
<1>4. Hop(f)
  <2>1. ASSUME NEW k \in 0 .. N, k # 0
        PROVE  step[f[k-1]] = IF f[k-1] \in {h, NULL} THEN f[k-1] ELSE m.next[f[k-1]]
    <3>1. f[k-1] \in S
      BY <1>1, <2>1
    <3> QED
      BY <3>1 DEF Chain
  <2> HIDE DEF step
  <2> QED
    BY <1>1, <1>3, <2>1 DEF Iterates
<1>5. Hops(m, h) = CHOOSE g : Hop(g)
  BY DEF Hops, N
<1>6. Hop(Hops(m, h))
  <2> HIDE DEF Hop
  <2> QED
    BY <1>4, <1>5
<1> DEFINE g == Hops(m, h)
<1>7. g = [k \in 0 .. N |->
             IF k = 0
             THEN m.next[h]
             ELSE IF g[k-1] \in {h, NULL} THEN g[k-1] ELSE m.next[g[k-1]]]
  BY <1>6
<1> HIDE DEF g, Hop
<1>8. \A k \in 0 .. N : g[k] \in S
  <2> DEFINE inside == { k \in 0 .. N : g[k] \in S }
  <2>1. 0 \in inside
    BY <1>1, <1>2, <1>7
  <2>2. \A k \in 0 .. N : k \in inside /\ k < N => k + 1 \in inside
    <3> SUFFICES ASSUME NEW k \in 0 .. N, g[k] \in S, k < N
                 PROVE  g[k+1] \in S /\ k + 1 \in 0 .. N
      OBVIOUS
    <3>1. k + 1 \in 0 .. N /\ k + 1 # 0 /\ (k + 1) - 1 = k
      BY <1>1
    <3>2. g[k+1] = IF g[k] \in {h, NULL} THEN g[k] ELSE m.next[g[k]]
      BY <1>7, <3>1
    <3> QED
      BY <3>1, <3>2 DEF Chain
  <2> HIDE DEF inside
  <2>3. 0 .. N \subseteq inside
    BY <1>1, <2>1, <2>2, UpTo
  <2> QED
    BY <2>3 DEF inside
<1>9. \A k \in 0 .. N : k # 0 => g[k] = IF g[k-1] = h THEN h ELSE m.next[g[k-1]]
  BY <1>1, <1>7, <1>8 DEF Chain
<1>10. g \in [0 .. N -> S] /\ g[0] = m.next[h]
  BY <1>1, <1>7, <1>8
<1> QED
  BY <1>1, <1>9, <1>10 DEF N, g

\* The loop comes back to the head: as long as it has not, it cannot meet a
\* node twice (prev would lead two different ways back), and the nodes run out.
LEMMA LoopEndsOnAChain ==
  ASSUME NEW m, NEW S, NEW h, Chain(m, S, h), IsFiniteSet(DOMAIN m.next)
  PROVE  LoopEnds(m, h)
<1> DEFINE N == Cardinality(DOMAIN m.next)
           g == Hops(m, h)
<1>1. /\ N \in Nat
      /\ g \in [0 .. N -> S]
      /\ g[0] = m.next[h]
      /\ \A k \in 0 .. N : k # 0 => g[k] = IF g[k-1] = h THEN h ELSE m.next[g[k-1]]
  BY HopsOnAChain
<1> SUFFICES ASSUME g[N] # h
             PROVE  FALSE
  BY DEF LoopEnds, LastHop
<1> HIDE DEF g, N
\* Once the loop variable is at the head it stays there.
<1>2. ASSUME NEW i \in 0 .. N
      PROVE  g[i] # h
  <2> SUFFICES ASSUME g[i] = h
               PROVE  FALSE
    OBVIOUS
  <2> DEFINE there == { k \in 0 .. N : i <= k => g[k] = h }
  <2>1. 0 \in there
    BY <1>1
  <2>2. ASSUME NEW k \in 0 .. N, k \in there, k < N
        PROVE  k + 1 \in there
    <3>1. k + 1 \in 0 .. N /\ k + 1 # 0 /\ (k + 1) - 1 = k
      BY <1>1, <2>2
    <3>2. g[k+1] = IF g[k] = h THEN h ELSE m.next[g[k]]
      BY <1>1, <3>1
    <3>3. i <= k + 1 => i = k + 1 \/ g[k] = h
      BY <2>2
    <3> QED
      BY <3>1, <3>2, <3>3
  <2> HIDE DEF there
  <2>3. 0 .. N \subseteq there
    BY <1>1, <2>1, <2>2, UpTo
  <2>4. N \in 0 .. N
    BY <1>1
  <2> QED
    BY <1>1, <2>3, <2>4 DEF there
<1>3. \A k \in 0 .. N : k # 0 => g[k] = m.next[g[k-1]]
  BY <1>1, <1>2
<1>4. PICK i, j \in 0 .. N : i # j /\ g[i] = g[j]
  <2>1. IsFiniteSet(0 .. N) /\ Cardinality(0 .. N) = N + 1
    BY <1>1, FS_Interval
  <2>2. IsFiniteSet(S) /\ Cardinality(S) <= N
    BY FS_Subset DEF Chain, N
  <2>3. Cardinality(S) \in Nat
    BY <2>2, FS_CardinalityType
  <2> QED
    BY <1>1, <2>1, <2>2, <2>3, FS_PigeonHole
\* The earliest node met twice would have two predecessors.
<1> DEFINE again == { k \in 0 .. N : \E l \in 0 .. N : k < l /\ g[k] = g[l] }
<1>5. again \subseteq Nat /\ again # {}
  <2>1. i < j \/ j < i
    BY <1>1, <1>4
  <2>2. again \subseteq 0 .. N /\ 0 .. N \subseteq Nat
    BY <1>1
  <2> QED
    BY <1>4, <2>1, <2>2
<1>6. PICK k \in again : \A l \in again : k <= l
  <2> HIDE DEF again
  <2> QED
    BY <1>5, LeastNumber
<1>7. PICK l \in 0 .. N : k < l /\ g[k] = g[l]
  OBVIOUS
<1>8. l # 0 /\ l - 1 \in 0 .. N /\ g[l] = m.next[g[l-1]] /\ g[l-1] \in S
  BY <1>1, <1>3, <1>7
<1>9. m.prev[g[k]] = g[l-1]
  BY <1>7, <1>8 DEF Chain
<1>10. CASE k = 0
  <2>1. m.prev[g[k]] = h
    BY <1>1, <1>10 DEF Chain
  <2> QED
    BY <1>2, <1>8, <1>9, <2>1
<1>11. CASE k # 0
  <2>1. k - 1 \in 0 .. N /\ g[k] = m.next[g[k-1]] /\ g[k-1] \in S
    BY <1>1, <1>3, <1>11
  <2>2. g[k-1] = g[l-1]
    BY <1>9, <2>1 DEF Chain
  <2>3. k - 1 \in again
    BY <1>7, <1>8, <2>1, <2>2
  <2> QED
    BY <1>6, <2>1, <2>3
<1> QED
  BY <1>10, <1>11

\* What the loop passes: nodes of the chain, up to the head again.
LEMMA VisitedOnAChain ==
  ASSUME NEW m, NEW S, NEW h, Chain(m, S, h), IsFiniteSet(DOMAIN m.next)
  PROVE  /\ Visited(m, h) \subseteq S \ {h}
         /\ m.next[h] \in Visited(m, h) \cup {h}
         /\ \A c \in Visited(m, h) : m.next[c] \in Visited(m, h) \cup {h}
<1> DEFINE N == Cardinality(DOMAIN m.next)
           g == Hops(m, h)
<1>1. /\ N \in Nat
      /\ g \in [0 .. N -> S]
      /\ g[0] = m.next[h]
      /\ \A k \in 0 .. N : k # 0 => g[k] = IF g[k-1] = h THEN h ELSE m.next[g[k-1]]
  BY HopsOnAChain
<1>2. g[N] = h
  BY LoopEndsOnAChain DEF LoopEnds, LastHop
<1>3. Visited(m, h) = { g[k] : k \in DOMAIN g } \ {h, NULL}
  BY DEF Visited
<1> HIDE DEF g, N
<1>4. Visited(m, h) = { g[k] : k \in 0 .. N } \ {h}
  BY <1>1, <1>3, SMTT(60) DEF Chain
<1>5. ASSUME NEW k \in 0 .. N, g[k] # h
      PROVE  m.next[g[k]] \in Visited(m, h) \cup {h}
  <2>1. k + 1 \in 0 .. N /\ k + 1 # 0 /\ (k + 1) - 1 = k
    BY <1>1, <1>2, <1>5
  <2>2. g[k+1] = m.next[g[k]]
    BY <1>1, <1>5, <2>1
  <2> QED
    BY <1>4, <2>1, <2>2
<1> QED
  BY <1>1, <1>4, <1>5

\* list_check holds of a chain.
LEMMA ChainChecked ==
  ASSUME NEW m, NEW S, NEW h, Chain(m, S, h), IsFiniteSet(DOMAIN m.next)
  PROVE  ListCheck(m, h)
BY LoopEndsOnAChain, VisitedOnAChain DEF ListCheck, Chain
-----------------------------------------------------------------------------
(***************************************************************************)
(* A list is one circle: next and prev are inverse to one another on it,   *)
(* and no part of it that holds the head is closed under next.             *)
(***************************************************************************)
Ring(m, S, h) ==
  /\ h \in S
  /\ \A c \in S :
       /\ m.next[c] \in S /\ m.prev[m.next[c]] = c
       /\ m.prev[c] \in S /\ m.next[m.prev[c]] = c

OnePiece(m, S, h) ==
  \A T \in SUBSET S : h \in T /\ (\A c \in T : m.next[c] \in T) => T = S

\* list_for_each runs its body for every node of the circle.
LEMMA VisitedOnACircle ==
  ASSUME NEW m, NEW S, NEW h, Chain(m, S, h), OnePiece(m, S, h),
         IsFiniteSet(DOMAIN m.next)
  PROVE  Visited(m, h) = S \ {h}
<1> DEFINE T == Visited(m, h) \cup {h}
<1>1. T \in SUBSET S /\ h \in T /\ \A c \in T : m.next[c] \in T
  BY VisitedOnAChain DEF Chain
<1>2. T = S
  BY <1>1 DEF OnePiece
<1> QED
  BY <1>2, VisitedOnAChain

\* A memory: two functions over the same cells.
Memory(m, C) ==
  m \in [next : [C -> C \cup {NULL}], prev : [C -> C \cup {NULL}]]

\* What the walking lemmas need of a circle in a memory.
LEMMA RingIsChain ==
  ASSUME NEW C, NULL \notin C, IsFiniteSet(C), NEW m, Memory(m, C),
         NEW S \in SUBSET C, NEW h, Ring(m, S, h)
  PROVE  Chain(m, S, h) /\ IsFiniteSet(DOMAIN m.next)
BY DEF Chain, Ring, Memory

\* list_add puts its node between the head and the head's first neighbour.
LEMMA AddKeepsRing ==
  ASSUME NEW C, NEW m, Memory(m, C), NEW S \in SUBSET C, NEW h, NEW n \in C \ S,
         Ring(m, S, h)
  PROVE  Ring(ListAdd(m, h, n), S \cup {n}, h)
<1> DEFINE first == m.next[h]
           after == ListAdd(m, h, n)
<1>1. h \in S /\ h \in C /\ first \in S /\ first \in C /\ m.prev[first] = h
  BY DEF Ring
<1>2. /\ \A c \in C : after.next[c] = IF c = h THEN n ELSE IF c = n THEN first ELSE m.next[c]
      /\ \A c \in C : after.prev[c] = IF c = first THEN n ELSE IF c = n THEN h ELSE m.prev[c]
  BY <1>1 DEF ListAdd, Memory
<1> HIDE DEF after, first
<1>3. \A c \in S :
        /\ m.next[c] \in S /\ m.prev[m.next[c]] = c
        /\ m.prev[c] \in S /\ m.next[m.prev[c]] = c
  BY DEF Ring
<1>4. m.next[h] = first
  BY DEF first
<1>5. \A c \in S \cup {n} :
        /\ after.next[c] \in S \cup {n} /\ after.prev[after.next[c]] = c
        /\ after.prev[c] \in S \cup {n} /\ after.next[after.prev[c]] = c
  BY <1>1, <1>2, <1>3, <1>4
<1> QED
  BY <1>1, <1>5 DEF Ring, after

LEMMA AddKeepsOnePiece ==
  ASSUME NEW C, NEW m, Memory(m, C), NEW S \in SUBSET C, NEW h, NEW n \in C \ S,
         Ring(m, S, h), OnePiece(m, S, h)
  PROVE  OnePiece(ListAdd(m, h, n), S \cup {n}, h)
<1> DEFINE after == ListAdd(m, h, n).next
<1>1. \A c \in C : after[c] = IF c = h THEN n ELSE IF c = n THEN m.next[h] ELSE m.next[c]
  BY DEF ListAdd, Memory, Ring
<1> SUFFICES ASSUME NEW T \in SUBSET (S \cup {n}), h \in T, \A c \in T : after[c] \in T
             PROVE  T = S \cup {n}
  BY DEF OnePiece
<1> HIDE DEF after
<1>2. n \in T /\ m.next[h] \in T
  BY <1>1 DEF Ring
<1>3. T \ {n} = S
  <2>1. \A c \in T \ {n} : m.next[c] \in T \ {n}
    BY <1>1, <1>2 DEF Ring
  <2> QED
    BY <2>1, ZenonT(60) DEF OnePiece, Ring
<1> QED
  BY <1>2, <1>3

LEMMA AddTailKeepsOnePiece ==
  ASSUME NEW C, NEW m, Memory(m, C), NEW S \in SUBSET C, NEW h, NEW n \in C \ S,
         Ring(m, S, h), OnePiece(m, S, h)
  PROVE  OnePiece(ListAddTail(m, h, n), S \cup {n}, h)
<1> DEFINE after == ListAddTail(m, h, n).next
           last == m.prev[h]
<1>1. \A c \in C : after[c] = IF c = last THEN n ELSE IF c = n THEN h ELSE m.next[c]
  BY DEF ListAddTail, Memory, Ring
<1> SUFFICES ASSUME NEW T \in SUBSET (S \cup {n}), h \in T, \A c \in T : after[c] \in T
             PROVE  T = S \cup {n}
  BY DEF OnePiece
<1> HIDE DEF after
<1>2. T \ {n} = S
  <2>1. ASSUME NEW c \in T \ {n} PROVE m.next[c] \in T \ {n}
    <3>1. CASE c = last
      BY <3>1 DEF Ring
    <3>2. CASE c # last
      BY <1>1, <3>2 DEF Ring
    <3> QED
      BY <3>1, <3>2
  <2> QED
    BY <2>1, ZenonT(60) DEF OnePiece, Ring
<1>3. last \in T /\ last \in C
  BY <1>2 DEF Ring
<1> QED
  BY <1>1, <1>2, <1>3

LEMMA DelKeepsOnePiece ==
  ASSUME NEW C, NEW m, Memory(m, C), NEW S \in SUBSET C, NEW h, NEW n \in S \ {h},
         Ring(m, S, h), OnePiece(m, S, h)
  PROVE  OnePiece(ListDel(m, n), S \ {n}, h)
<1> DEFINE after == ListDel(m, n).next
           before == m.prev[n]
<1>1. \A c \in C : after[c] = IF c = before THEN m.next[n] ELSE m.next[c]
  BY DEF ListDel, Memory, Ring
<1>2. before # n
  <2> SUFFICES ASSUME before = n
               PROVE  FALSE
    OBVIOUS
  <2>1. \A c \in S \ {n} : m.next[c] \in S \ {n}
    BY DEF Ring
  <2>2. S \ {n} = S
    BY <2>1 DEF OnePiece, Ring
  <2> QED
    BY <2>2
<1> SUFFICES ASSUME NEW T \in SUBSET (S \ {n}), h \in T, \A c \in T : after[c] \in T
             PROVE  T = S \ {n}
  BY DEF OnePiece
<1> HIDE DEF after
<1>3. CASE before \in T
  <2>1. m.next[n] \in T /\ m.next[before] = n
    BY <1>1, <1>3 DEF Ring
  <2>2. \A c \in T \cup {n} : m.next[c] \in T \cup {n}
    BY <1>1, <2>1
  <2>3. T \cup {n} \in SUBSET S /\ h \in T \cup {n}
    OBVIOUS
  <2>4. T \cup {n} = S
    BY <2>2, <2>3, Zenon DEF OnePiece
  <2> QED
    BY <2>4
<1>4. CASE before \notin T
  <2>1. \A c \in T : m.next[c] \in T
    BY <1>1, <1>4
  <2>2. T = S
    BY <2>1 DEF OnePiece
  <2> QED
    BY <2>2
<1> QED
  BY <1>3, <1>4
-----------------------------------------------------------------------------
(***************************************************************************)
(* The order of a list: s lists the nodes that next comes to between the   *)
(* head and the head again.                                                *)
(***************************************************************************)
Stop(h, s, i) == IF i \in 1 .. Len(s) THEN s[i] ELSE h

Lists(m, h, s) ==
  \A i \in 0 .. Len(s) : m.next[Stop(h, s, i)] = Stop(h, s, i + 1)

\* One list has one order.
LEMMA PrefixOfOther ==
  ASSUME NEW m, NEW h, NEW V, h \notin V, NEW s \in Seq(V), NEW t \in Seq(V),
         Lists(m, h, s), Lists(m, h, t)
  PROVE  Len(s) <= Len(t) /\ \A i \in 1 .. Len(s) : s[i] = t[i]
<1> DEFINE same == { i \in 0 .. Len(s) : i <= Len(t) /\ Stop(h, s, i) = Stop(h, t, i) }
<1>0. Len(s) \in Nat /\ Len(t) \in Nat
  OBVIOUS
<1>1. 0 \in same
  BY <1>0 DEF Stop
<1>2. ASSUME NEW i \in 0 .. Len(s), i \in same, i < Len(s)
      PROVE  i + 1 \in same
  <2>1. Stop(h, s, i + 1) = Stop(h, t, i + 1)
    BY <1>2 DEF Lists
  <2>2. i + 1 \in 1 .. Len(s) /\ Stop(h, s, i + 1) = s[i + 1] /\ s[i + 1] # h
    BY <1>2 DEF Stop
  <2>3. i + 1 \in 1 .. Len(t)
    BY <2>1, <2>2 DEF Stop
  <2> QED
    BY <2>1, <2>2, <2>3
<1>3. 0 .. Len(s) \subseteq same
  <2> HIDE DEF same
  <2> QED
    BY <1>0, <1>1, <1>2, UpTo
<1>4. Len(s) \in same
  <2>1. Len(s) \in 0 .. Len(s)
    BY <1>0
  <2> QED
    BY <1>3, <2>1
<1>5. ASSUME NEW i \in 1 .. Len(s)
      PROVE  s[i] = t[i]
  <2>1. i \in 0 .. Len(s)
    BY <1>0
  <2>2. i \in same
    BY <1>3, <2>1
  <2>3. i \in 1 .. Len(t)
    BY <1>0, <1>4, <2>2
  <2> QED
    BY <2>2, <2>3 DEF Stop
<1>6. Len(s) <= Len(t)
  BY <1>4
<1> QED
  BY <1>5, <1>6

LEMMA OneOrder ==
  ASSUME NEW m, NEW h, NEW V, h \notin V, NEW s \in Seq(V), NEW t \in Seq(V),
         Lists(m, h, s), Lists(m, h, t)
  PROVE  s = t
<1>1. Len(s) <= Len(t) /\ \A i \in 1 .. Len(s) : s[i] = t[i]
  BY PrefixOfOther
<1>2. Len(t) <= Len(s)
  BY PrefixOfOther
<1>3. Len(s) = Len(t)
  BY <1>1, <1>2
<1> QED
  BY <1>1, <1>3, SeqEqual

\* list_for_each meets the nodes in that order.
LEMMA EntriesListed ==
  ASSUME NEW m, NEW S, NEW h, Chain(m, S, h), IsFiniteSet(DOMAIN m.next)
  PROVE  EntriesOf(m, h) \in Seq(S \ {h}) /\ Lists(m, h, EntriesOf(m, h))
<1> DEFINE N == Cardinality(DOMAIN m.next)
           g == Hops(m, h)
           s == EntriesOf(m, h)
<1>1. /\ N \in Nat
      /\ g \in [0 .. N -> S]
      /\ g[0] = m.next[h]
      /\ \A k \in 0 .. N : k # 0 => g[k] = IF g[k-1] = h THEN h ELSE m.next[g[k-1]]
  BY HopsOnAChain
<1>2. g[N] = h
  BY LoopEndsOnAChain DEF LoopEnds, LastHop
<1>3. s = [i \in { k + 1 : k \in { k \in DOMAIN g : \A i \in 0 .. k : g[i] # h } } |-> g[i-1]]
  BY DEF EntriesOf
<1> HIDE DEF g, N, s
<1>4. PICK length \in 0 .. N : g[length] = h /\ \A k \in 0 .. N : g[k] = h => length <= k
  <2> DEFINE back == { k \in 0 .. N : g[k] = h }
  <2>1. back # {} /\ back \subseteq Nat
    BY <1>1, <1>2
  <2>2. PICK k \in back : \A l \in back : k <= l
    <3> HIDE DEF back
    <3> QED
      BY <2>1, LeastNumber
  <2> QED
    BY <2>2
<1>5. { k + 1 : k \in { k \in DOMAIN g : \A i \in 0 .. k : g[i] # h } } = 1 .. length
  <2>1. ASSUME NEW k \in DOMAIN g
        PROVE  (\A i \in 0 .. k : g[i] # h) <=> k < length
    BY <1>1, <1>4, <2>1
  <2>2. { k \in DOMAIN g : \A i \in 0 .. k : g[i] # h } = { k \in 0 .. N : k < length }
    BY <1>1, <2>1
  <2>3. { k + 1 : k \in { k \in 0 .. N : k < length } } = 1 .. length
    <3>1. ASSUME NEW j \in 1 .. length
          PROVE  \E k \in { k \in 0 .. N : k < length } : j = k + 1
      <4>1. j - 1 \in { k \in 0 .. N : k < length } /\ j = (j - 1) + 1
        BY <1>1, <1>4
      <4> QED
        BY <4>1
    <3>2. ASSUME NEW k \in { k \in 0 .. N : k < length }
          PROVE  k + 1 \in 1 .. length
      BY <1>1, <1>4
    <3> QED
      BY <3>1, <3>2
  <2> QED
    BY <2>2, <2>3
<1>6. s = [i \in 1 .. length |-> g[i-1]]
  BY <1>3, <1>5
<1>7. ASSUME NEW i \in 1 .. length
      PROVE  i - 1 \in 0 .. N /\ g[i-1] \in S \ {h}
  <2>1. i - 1 \in 0 .. N /\ ~(length <= i - 1)
    BY <1>1, <1>4
  <2> QED
    BY <1>1, <1>4, <2>1
<1>8. s \in Seq(S \ {h}) /\ Len(s) = length
  <2>1. s \in [1 .. length -> S \ {h}]
    BY <1>6, <1>7
  <2>2. length \in Nat
    BY <1>1, <1>4
  <2> QED
    BY <2>1, <2>2, IsASeq, LenProperties
<1>9. ASSUME NEW i \in 0 .. length
      PROVE  Stop(h, s, i + 1) = g[i]
  <2>1. CASE i < length
    <3>1. i + 1 \in 1 .. length /\ (i + 1) - 1 = i
      BY <1>4, <2>1
    <3> QED
      BY <1>6, <1>8, <3>1 DEF Stop
  <2>2. CASE i = length
    BY <1>4, <1>8, <2>2 DEF Stop
  <2> QED
    BY <1>4, <2>1, <2>2
<1>10. ASSUME NEW i \in 0 .. length
       PROVE  m.next[Stop(h, s, i)] = Stop(h, s, i + 1)
  <2>1. CASE i = 0
    <3>1. Stop(h, s, 0) = h
      BY DEF Stop
    <3> QED
      BY <1>1, <1>9, <2>1, <3>1
  <2>2. CASE i # 0
    <3>1. i \in 1 .. length /\ i \in 0 .. N
      BY <1>1, <1>4, <2>2
    <3>2. Stop(h, s, i) = g[i-1] /\ g[i-1] # h
      BY <1>6, <1>7, <1>8, <3>1 DEF Stop
    <3>3. g[i] = m.next[g[i-1]]
      BY <1>1, <2>2, <3>1, <3>2
    <3> QED
      BY <1>9, <3>2, <3>3
  <2> QED
    BY <2>1, <2>2
<1> QED
  BY <1>8, <1>10 DEF Lists, s

\* A list is read from the links of its own nodes.
LEMMA ListedElsewhere ==
  ASSUME NEW m, NEW after, NEW S, NEW h \in S, NEW s \in Seq(S \ {h}), Lists(m, h, s),
         \A c \in S : after.next[c] = m.next[c]
  PROVE  Lists(after, h, s)
<1>1. \A i \in 0 .. Len(s) : Stop(h, s, i) \in S
  BY DEF Stop
<1> QED
  BY <1>1 DEF Lists

\* The head and the nodes listed are all different, as prev leads back.
LEMMA StopsDiffer ==
  ASSUME NEW m, NEW S, NEW h, Ring(m, S, h), NEW s \in Seq(S \ {h}), Lists(m, h, s),
         NEW i \in 0 .. Len(s), NEW j \in 0 .. Len(s), Stop(h, s, i) = Stop(h, s, j)
  PROVE  i = j
<1> DEFINE twice == { k \in 0 .. Len(s) :
                        \E l \in 0 .. Len(s) : k < l /\ Stop(h, s, k) = Stop(h, s, l) }
<1>0. Len(s) \in Nat
  OBVIOUS
<1> SUFFICES ASSUME twice # {}
             PROVE  FALSE
  BY <1>0
<1>1. PICK k \in twice : \A l \in twice : k <= l
  <2>1. twice \subseteq Nat
    BY <1>0
  <2> HIDE DEF twice
  <2> QED
    BY <2>1, LeastNumber
<1>2. PICK l \in 0 .. Len(s) : k < l /\ Stop(h, s, k) = Stop(h, s, l)
  OBVIOUS
<1>3. k # 0
  <2>1. l \in 1 .. Len(s) /\ s[l] # h
    BY <1>0, <1>2
  <2> QED
    BY <1>2, <2>1 DEF Stop
<1>4. \A o \in 0 .. Len(s) : m.prev[Stop(h, s, o + 1)] = Stop(h, s, o)
  <2>1. \A o \in 0 .. Len(s) : Stop(h, s, o) \in S
    BY DEF Stop, Ring
  <2> QED
    BY <2>1 DEF Lists, Ring
<1>5. /\ k - 1 \in 0 .. Len(s) /\ (k - 1) + 1 = k
      /\ l - 1 \in 0 .. Len(s) /\ (l - 1) + 1 = l /\ k - 1 < l - 1
  BY <1>0, <1>2, <1>3
<1>6. Stop(h, s, k - 1) = Stop(h, s, l - 1)
  <2>1. /\ m.prev[Stop(h, s, k)] = Stop(h, s, k - 1)
        /\ m.prev[Stop(h, s, l)] = Stop(h, s, l - 1)
    BY <1>4, <1>5
  <2> QED
    BY <1>2, <2>1
<1>7. k - 1 \in twice
  BY <1>5, <1>6
<1> QED
  BY <1>0, <1>1, <1>7

\* Every member of the circle is listed.
LEMMA AllListed ==
  ASSUME NEW m, NEW S, NEW h \in S, OnePiece(m, S, h), NEW s \in Seq(S \ {h}),
         Lists(m, h, s), NEW c \in S \ {h}
  PROVE  \E i \in 1 .. Len(s) : s[i] = c
<1> DEFINE T == { Stop(h, s, i) : i \in 0 .. Len(s) }
<1>0. Len(s) \in Nat
  OBVIOUS
<1>1. T \in SUBSET S
  BY DEF Stop
<1>2. h \in T
  <2>1. 0 \in 0 .. Len(s) /\ Stop(h, s, 0) = h
    BY <1>0 DEF Stop
  <2> QED
    BY <2>1
<1>3. ASSUME NEW i \in 0 .. Len(s)
      PROVE  m.next[Stop(h, s, i)] \in T
  <2>1. m.next[Stop(h, s, i)] = Stop(h, s, i + 1)
    BY DEF Lists
  <2>2. CASE i + 1 \in 0 .. Len(s)
    BY <2>1, <2>2
  <2>3. CASE i + 1 \notin 0 .. Len(s)
    BY <1>0, <1>2, <2>1, <2>3 DEF Stop
  <2> QED
    BY <2>2, <2>3
<1>4. T = S
  <2>1. \A d \in T : m.next[d] \in T
    BY <1>3
  <2> HIDE DEF T
  <2> QED
    BY <1>1, <1>2, <2>1 DEF OnePiece
<1>5. PICK i \in 0 .. Len(s) : c = Stop(h, s, i)
  BY <1>4
<1> QED
  BY <1>5 DEF Stop

\* list_add lists its node before the others,
LEMMA AddListsFirst ==
  ASSUME NEW C, NEW m, Memory(m, C), NEW S \in SUBSET C, NEW h, NEW n \in C \ S,
         Ring(m, S, h), NEW s \in Seq(S \ {h}), Lists(m, h, s)
  PROVE  Lists(ListAdd(m, h, n), h, << n >> \o s)
<1> DEFINE after == ListAdd(m, h, n)
           t == << n >> \o s
<1>0. Len(s) \in Nat /\ h \in S /\ h \in C
  BY DEF Ring
<1>1. \A c \in C : after.next[c] = IF c = h THEN n ELSE IF c = n THEN m.next[h] ELSE m.next[c]
  BY <1>0 DEF ListAdd, Memory
<1>2. Len(t) = Len(s) + 1 /\ \A i \in 1 .. Len(t) : t[i] = IF i = 1 THEN n ELSE s[i-1]
  <2>1. /\ Len(<< n >>) = 1 /\ << n >>[1] = n /\ << n >> \in Seq(C) /\ s \in Seq(C)
    OBVIOUS
  <2> QED
    BY <1>0, <2>1, ConcatProperties
<1> HIDE DEF after, t
<1>3. \A i \in 0 .. Len(s) : Stop(h, t, i + 1) = IF i = 0 THEN n ELSE Stop(h, s, i)
  BY <1>0, <1>2 DEF Stop
<1>4. Stop(h, t, 0) = h /\ Stop(h, s, 0) = h /\ Stop(h, t, Len(s) + 2) = h
  BY <1>0, <1>2 DEF Stop
<1>5. ASSUME NEW i \in 1 .. Len(s)
      PROVE  Stop(h, s, i) \in S \ {h}
  BY DEF Stop
<1>6. ASSUME NEW i \in 0 .. Len(t)
      PROVE  after.next[Stop(h, t, i)] = Stop(h, t, i + 1)
  <2>1. CASE i = 0
    <3>1. Stop(h, t, 0 + 1) = n
      BY <1>0, <1>3
    <3> QED
      BY <1>0, <1>1, <1>4, <2>1, <3>1
  <2>2. CASE i = 1
    <3>1. Stop(h, t, 0 + 1) = n /\ after.next[n] = m.next[h]
      BY <1>0, <1>1, <1>3
    <3>2. m.next[h] = Stop(h, s, 1)
      BY <1>0, <1>4 DEF Lists
    <3>3. Stop(h, t, 2) = Stop(h, s, 1)
      <4>1. CASE Len(s) = 0
        BY <1>4, <4>1 DEF Stop
      <4>2. CASE Len(s) # 0
        BY <1>0, <1>3, <4>2
      <4> QED
        BY <4>1, <4>2
    <3> QED
      BY <2>2, <3>1, <3>2, <3>3
  <2>3. CASE i > 1
    <3>1. i - 1 \in 1 .. Len(s) /\ (i - 1) + 1 = i /\ i - 1 \in 0 .. Len(s)
      BY <1>0, <1>2, <2>3
    <3>2. Stop(h, t, i) = Stop(h, s, i - 1)
      BY <1>3, <2>3, <3>1
    <3>3. after.next[Stop(h, t, i)] = Stop(h, s, i)
      BY <1>1, <1>5, <3>1, <3>2 DEF Lists
    <3>4. CASE i <= Len(s)
      <4>1. i \in 0 .. Len(s) /\ i # 0
        BY <3>1, <3>4
      <4> QED
        BY <1>3, <3>3, <4>1
    <3>5. CASE i = Len(s) + 1
      <4>1. Stop(h, s, i) = h /\ i + 1 = Len(s) + 2
        BY <1>0, <3>5 DEF Stop
      <4> QED
        BY <1>4, <3>3, <4>1
    <3> QED
      BY <1>0, <1>2, <3>4, <3>5
  <2> QED
    BY <1>0, <1>2, <2>1, <2>2, <2>3
<1> QED
  BY <1>6 DEF Lists, after, t

\* list_add_tail after them,
LEMMA AddTailListsLast ==
  ASSUME NEW C, NEW m, Memory(m, C), NEW S \in SUBSET C, NEW h, NEW n \in C \ S,
         Ring(m, S, h), NEW s \in Seq(S \ {h}), Lists(m, h, s)
  PROVE  Lists(ListAddTail(m, h, n), h, Append(s, n))
<1> DEFINE after == ListAddTail(m, h, n)
           last == m.prev[h]
           t == Append(s, n)
<1>0. Len(s) \in Nat /\ h \in S /\ last \in S /\ last \in C
  BY DEF Ring
<1>1. \A c \in C : after.next[c] = IF c = last THEN n ELSE IF c = n THEN h ELSE m.next[c]
  BY <1>0 DEF ListAddTail, Memory
<1>2. Len(t) = Len(s) + 1 /\ \A i \in 1 .. Len(t) : t[i] = IF i = Len(s) + 1 THEN n ELSE s[i]
  BY AppendProperties
<1>3. last = Stop(h, s, Len(s))
  <2>1. Stop(h, s, Len(s)) \in S /\ m.next[Stop(h, s, Len(s))] = h
    BY <1>0 DEF Stop, Lists
  <2> QED
    BY <2>1 DEF Ring
<1> HIDE DEF after, last, t
<1>4. /\ \A i \in 0 .. Len(s) : Stop(h, t, i) = Stop(h, s, i)
      /\ Stop(h, t, Len(s) + 1) = n /\ Stop(h, t, Len(s) + 2) = h
  BY <1>0, <1>2 DEF Stop
<1>5. ASSUME NEW i \in 0 .. Len(s)
      PROVE  Stop(h, s, i) \in S
  BY <1>0 DEF Stop
<1>6. ASSUME NEW i \in 0 .. Len(t)
      PROVE  after.next[Stop(h, t, i)] = Stop(h, t, i + 1)
  <2>1. CASE i = Len(s) + 1
    BY <1>0, <1>1, <1>4, <2>1
  <2>2. CASE i = Len(s)
    BY <1>0, <1>1, <1>3, <1>4, <2>2
  <2>3. CASE i < Len(s)
    <3>1. i \in 0 .. Len(s) /\ i + 1 \in 0 .. Len(s) /\ Len(s) \in 0 .. Len(s)
      BY <1>0, <2>3
    <3>2. Stop(h, s, i) # last
      BY <1>3, <2>3, <3>1, StopsDiffer
    <3>3. after.next[Stop(h, s, i)] = Stop(h, s, i + 1)
      BY <1>1, <1>5, <3>1, <3>2 DEF Lists
    <3> QED
      BY <1>4, <3>1, <3>3
  <2> QED
    BY <1>0, <1>2, <2>1, <2>2, <2>3
<1> QED
  BY <1>6 DEF Lists, after, t

\* and list_del leaves the others in order.
LEMMA DelListsOthers ==
  ASSUME NEW C, NEW m, Memory(m, C), NEW S \in SUBSET C, NEW h,
         Ring(m, S, h), NEW s \in Seq(S \ {h}), Lists(m, h, s), NEW k \in 1 .. Len(s)
  PROVE  LET t == SubSeq(s, 1, k - 1) \o SubSeq(s, k + 1, Len(s))
         IN  t \in Seq(S \ {h, s[k]}) /\ Lists(ListDel(m, s[k]), h, t)
<1> DEFINE n == s[k]
           after == ListDel(m, n)
           t == SubSeq(s, 1, k - 1) \o SubSeq(s, k + 1, Len(s))
<1>0. Len(s) \in Nat /\ h \in S /\ n \in S /\ k \in Nat
  BY DEF Ring
<1>1. Stop(h, s, k) = n /\ k - 1 \in 0 .. Len(s) /\ k \in 0 .. Len(s) /\ (k - 1) + 1 = k
  BY <1>0 DEF Stop
<1>2. \A i \in 0 .. Len(s) : Stop(h, s, i) \in S
  BY <1>0 DEF Stop
<1>3. m.prev[n] = Stop(h, s, k - 1) /\ m.next[n] = Stop(h, s, k + 1)
  <2>1. m.next[Stop(h, s, k - 1)] = n
    BY <1>1 DEF Lists
  <2> QED
    BY <1>1, <1>2, <2>1 DEF Lists, Ring
<1>4. \A c \in C : after.next[c] = IF c = Stop(h, s, k - 1) THEN Stop(h, s, k + 1) ELSE m.next[c]
  BY <1>1, <1>2, <1>3 DEF ListDel, Memory
<1>5. /\ t \in Seq(S \ {h}) /\ Len(t) = Len(s) - 1
      /\ \A i \in 1 .. Len(t) : t[i] = IF i < k THEN s[i] ELSE s[i + 1]
  <2> DEFINE a == SubSeq(s, 1, k - 1)
             b == SubSeq(s, k + 1, Len(s))
  <2>1. a \in Seq(S \ {h}) /\ Len(a) = k - 1 /\ \A i \in 1 .. k - 1 : a[i] = s[i]
    BY <1>0, SubSeqProperties
  <2>2. b \in Seq(S \ {h}) /\ Len(b) = Len(s) - k /\ \A i \in 1 .. Len(s) - k : b[i] = s[k + i]
    BY <1>0, SubSeqProperties
  <2>3. t = a \o b
    OBVIOUS
  <2> HIDE DEF a, b, t
  <2>4. /\ t \in Seq(S \ {h}) /\ Len(t) = Len(a) + Len(b)
        /\ \A i \in 1 .. Len(a) + Len(b) : t[i] = IF i <= Len(a) THEN a[i] ELSE b[i - Len(a)]
    BY <2>1, <2>2, <2>3, ConcatProperties, ZenonT(60)
  <2>5. Len(t) = Len(s) - 1
    BY <1>0, <2>1, <2>2, <2>4
  <2>6. ASSUME NEW i \in 1 .. Len(s) - 1
        PROVE  t[i] = IF i < k THEN s[i] ELSE s[i + 1]
    <3>1. CASE i < k
      <4>1. i \in 1 .. k - 1 /\ i \in 1 .. Len(a) + Len(b) /\ i <= Len(a)
        BY <1>0, <2>1, <2>2, <3>1, SMTT(60)
      <4> QED
        BY <2>1, <2>4, <3>1, <4>1
    <3>2. CASE ~(i < k)
      <4>1. i - Len(a) \in 1 .. Len(s) - k /\ k + (i - Len(a)) = i + 1
        BY <1>0, <2>1, <3>2
      <4>2. b[i - Len(a)] = s[i + 1]
        BY <2>2, <4>1
      <4>3. i \in 1 .. Len(a) + Len(b) /\ ~(i <= Len(a))
        BY <1>0, <2>1, <2>2, <3>2, SMTT(60)
      <4>4. t[i] = b[i - Len(a)]
        BY <2>4, <4>3
      <4> QED
        BY <3>2, <4>2, <4>4
    <3> QED
      BY <3>1, <3>2
  <2> QED
    BY <2>4, <2>5, <2>6
<1> HIDE DEF n, after, t
<1>6. \A i \in 0 .. Len(s) : Stop(h, t, i) = IF i < k THEN Stop(h, s, i) ELSE Stop(h, s, i + 1)
  BY <1>0, <1>5 DEF Stop
<1>7. ASSUME NEW i \in 0 .. Len(t)
      PROVE  after.next[Stop(h, t, i)] = Stop(h, t, i + 1)
  <2>0. i \in 0 .. Len(s) /\ i + 1 \in 0 .. Len(s)
    BY <1>0, <1>5
  <2>1. CASE i < k - 1
    <3>1. Stop(h, s, i) # Stop(h, s, k - 1)
      BY <1>1, <2>0, <2>1, StopsDiffer
    <3>2. Stop(h, t, i) = Stop(h, s, i) /\ Stop(h, t, i + 1) = Stop(h, s, i + 1)
      BY <1>0, <1>6, <2>0, <2>1
    <3> QED
      BY <1>2, <1>4, <2>0, <3>1, <3>2 DEF Lists
  <2>2. CASE i = k - 1
    <3>1. Stop(h, t, i) = Stop(h, s, i) /\ Stop(h, t, i + 1) = Stop(h, s, k + 1)
      BY <1>0, <1>1, <1>6, <2>0, <2>2
    <3> QED
      BY <1>1, <1>2, <1>4, <2>2, <3>1
  <2>3. CASE i > k - 1
    <3>1. Stop(h, s, i + 1) # Stop(h, s, k - 1)
      BY <1>0, <1>1, <2>0, <2>3, StopsDiffer
    <3>2. Stop(h, t, i) = Stop(h, s, i + 1) /\ Stop(h, t, i + 1) = Stop(h, s, (i + 1) + 1)
      BY <1>0, <1>6, <2>0, <2>3
    <3>3. m.next[Stop(h, s, i + 1)] = Stop(h, s, (i + 1) + 1)
      BY <2>0 DEF Lists
    <3> QED
      BY <1>2, <1>4, <2>0, <3>1, <3>2, <3>3
  <2> QED
    BY <1>0, <2>0, <2>1, <2>2, <2>3
<1>8. ASSUME NEW i \in 1 .. Len(t)
      PROVE  t[i] \in S \ {h, n}
  <2> DEFINE j == IF i < k THEN i ELSE i + 1
  <2>1. j \in 1 .. Len(s) /\ j # k /\ t[i] = s[j]
    BY <1>0, <1>5
  <2>2. Stop(h, s, j) = s[j] /\ j \in 0 .. Len(s)
    BY <1>0, <2>1 DEF Stop
  <2> HIDE DEF j
  <2>3. s[j] # n
    BY <1>1, <2>1, <2>2, StopsDiffer
  <2> QED
    BY <2>1, <2>3
<1>9. t \in Seq(S \ {h, n})
  <2>1. t \in [1 .. Len(t) -> S \ {h, n}] /\ Len(t) \in Nat
    BY <1>5, <1>8, LenProperties
  <2> QED
    BY <2>1, IsASeq
<1> QED
  BY <1>7, <1>9 DEF Lists, after, t, n
=============================================================================
