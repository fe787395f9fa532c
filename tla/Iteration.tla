----------------------------- MODULE Iteration ------------------------------
(***************************************************************************)
(* Induction over the naturals, and what it gives for functions that       *)
(* iterate a step.  The lemmas speak of sets and functions, never of       *)
(* operators, so that a proof can use them for a property it names as a    *)
(* set.  They rest on the well-foundedness of < on the naturals.           *)
(***************************************************************************)
EXTENDS Naturals, TLAPS, WellFoundedInduction

\* A set of naturals that is not empty has a least element.
LEMMA LeastNumber ==
  ASSUME NEW T, T \subseteq Nat, T # {}
  PROVE  \E n \in T : \A k \in T : n <= k
<1> DEFINE R == OpToRel(<, Nat)
<1>1. IsWellFoundedOn(R, Nat)
  BY NatLessThanWellFounded
<1> HIDE DEF R
<1>2. PICK x \in T : \A y \in T : ~(<<y, x>> \in R)
  BY <1>1, WFMin
<1>3. \A y \in T : ~(y < x)
  <2> TAKE y \in T
  <2>1. <<y, x>> \in Nat \X Nat
    OBVIOUS
  <2>2. ~(<<y, x>> \in R)
    BY <1>2
  <2> QED
    BY <2>1, <2>2 DEF R, OpToRel
<1> QED
  BY <1>3

\* Induction: a set of naturals that holds 0 and, with each n below N, n + 1,
\* holds everything up to N.
LEMMA UpTo ==
  ASSUME NEW N \in Nat, NEW S, 0 \in S,
         \A n \in 0 .. N : n \in S /\ n < N => n + 1 \in S
  PROVE  0 .. N \subseteq S
<1> SUFFICES ASSUME ~(0 .. N \subseteq S)
             PROVE  FALSE
  OBVIOUS
<1> DEFINE missing == { n \in 0 .. N : n \notin S }
<1>1. PICK least \in missing : \A k \in missing : least <= k
  <2>1. missing \subseteq Nat /\ missing # {}
    OBVIOUS
  <2> HIDE DEF missing
  <2> QED
    BY <2>1, LeastNumber
<1>2. least # 0
  OBVIOUS
<1>3. least - 1 \in 0 .. N /\ least - 1 \notin missing /\ least - 1 < N
  BY <1>1, <1>2
<1>4. least \in S
  BY <1>3
<1> QED
  BY <1>4

\* A function that iterates step from start, N times.
Iterates(f, N, start, step) ==
  f = [k \in 0 .. N |-> IF k = 0 THEN start ELSE step[f[k-1]]]

\* The recursive definition of an iteration defines a function.
LEMMA IterationExists ==
  ASSUME NEW N \in Nat, NEW V, NEW start \in V, NEW step \in [V -> V]
  PROVE  \E f \in [0 .. N -> V] : Iterates(f, N, start, step)
<1> DEFINE reached == { n \in 0 .. N : \E f \in [0 .. n -> V] : Iterates(f, n, start, step) }
<1>1. 0 \in reached
  <2> DEFINE f == [k \in 0 .. 0 |-> start]
  <2>1. f \in [0 .. 0 -> V] /\ Iterates(f, 0, start, step)
    BY DEF Iterates
  <2> QED
    BY <2>1
<1>2. ASSUME NEW n \in 0 .. N, n \in reached, n < N
      PROVE  n + 1 \in reached
  <2>1. PICK f \in [0 .. n -> V] : Iterates(f, n, start, step)
    BY <1>2
  <2> DEFINE g == [k \in 0 .. (n + 1) |-> IF k = n + 1 THEN step[f[n]] ELSE f[k]]
  <2>2. g \in [0 .. (n + 1) -> V]
    OBVIOUS
  <2>3. ASSUME NEW k \in 0 .. (n + 1)
        PROVE  g[k] = IF k = 0 THEN start ELSE step[g[k-1]]
    <3>1. CASE k = n + 1
      BY <3>1
    <3>2. CASE k # n + 1
      BY <2>1, <3>2 DEF Iterates
    <3> QED
      BY <3>1, <3>2
  <2>4. Iterates(g, n + 1, start, step)
    BY <2>2, <2>3 DEF Iterates
  <2>5. n + 1 \in 0 .. N
    BY <1>2
  <2> HIDE DEF g
  <2> QED
    BY <2>2, <2>4, <2>5
<1>3. 0 .. N \subseteq reached
  <2> HIDE DEF reached
  <2> QED
    BY <1>1, <1>2, UpTo
<1> QED
  BY <1>3
=============================================================================
