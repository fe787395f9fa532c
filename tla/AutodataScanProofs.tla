-------------------------- MODULE AutodataScanProofs --------------------------
(***************************************************************************)
(* What ptr_valid.c answers, for every memory, page size and sequence of   *)
(* questions, what autodata_make_table therefore reads, and what it finds. *)
(***************************************************************************)
EXTENDS AutodataScan, Iteration, FiniteSetTheorems

USE PtrValidAssumption DEF PtrValidAssumption

-----------------------------------------------------------------------------
(***************************************************************************)
(* Pages.                                                                  *)
(***************************************************************************)
LEMMA PageFacts ==
  ASSUME NEW a \in Nat
  PROVE  /\ PageOf(a) \in Nat /\ PageOf(a) <= a /\ a < PageOf(a) + PageSize
         /\ PageOf(a) % PageSize = 0
BY SMTT(30) DEF PageOf

\* A page's start divides the addresses as any of its bytes does.
LEMMA WholePages ==
  ASSUME NEW a \in Nat, NEW s \in Nat, s % PageSize = 0
  PROVE  s <= a <=> s <= PageOf(a)
BY SMTT(30) DEF PageOf

\* Starts of pages are a page apart.
LEMMA PagesApart ==
  ASSUME NEW s \in Nat, s % PageSize = 0, NEW e \in Nat, e % PageSize = 0, s < e
  PROVE  s + PageSize <= e
<1> DEFINE i == s \div PageSize
           j == e \div PageSize
<1>1. i \in Int /\ j \in Int /\ s = PageSize * i /\ e = PageSize * j
  OBVIOUS
<1> HIDE DEF i, j
<1>2. i < j
  <2>1. ASSUME j <= i
        PROVE  PageSize * j <= PageSize * i
    BY <1>1, <2>1
  <2> QED
    BY <1>1, <2>1
<1>3. PageSize * (i + 1) <= PageSize * j
  BY <1>1, <1>2
<1> QED
  BY <1>1, <1>3

LEMMA PagesAdd ==
  ASSUME NEW s \in Nat
  PROVE  (s + PageSize) % PageSize = s % PageSize
<1> DEFINE i == s \div PageSize
           r == s % PageSize
<1>1. i \in Int /\ r \in 0 .. PageSize - 1 /\ s = PageSize * i + r
  OBVIOUS
<1> HIDE DEF i, r
<1>2. s + PageSize = PageSize * (i + 1) + r
  BY <1>1
<1>3. (PageSize * (i + 1) + r) % PageSize = r
  BY <1>1
<1> QED
  BY <1>2, <1>3 DEF r

\* Protection is a matter of the page.
LEMMA SamePage ==
  ASSUME memory \in Memories, NEW a \in Nat, NEW b \in Nat, PageOf(a) = PageOf(b),
         NEW write
  PROVE  MayTouch(a, write) <=> MayTouch(b, write)
<1>1. ASSUME NEW m \in memory
      PROVE  (m.start <= a /\ a < m.end) <=> (m.start <= b /\ b < m.end)
  <2>1. /\ m.start \in Nat /\ m.start % PageSize = 0
        /\ m.end \in Nat /\ m.end % PageSize = 0
    BY DEF Memories, Mapping, Addresses
  <2>2. /\ m.start <= a <=> m.start <= PageOf(a)
        /\ m.end <= a <=> m.end <= PageOf(a)
        /\ m.start <= b <=> m.start <= PageOf(b)
        /\ m.end <= b <=> m.end <= PageOf(b)
    BY <2>1, WholePages
  <2> QED
    BY <2>1, <2>2
<1> QED
  BY <1>1 DEF MayTouch

-----------------------------------------------------------------------------
(***************************************************************************)
(* check_with_maps: the recursion follows the mappings that adjoin.        *)
(***************************************************************************)
Touchable(k) == \A q \in k.p .. k.p + k.size - 1 : MayTouch(q, k.write)

\* The bytes from q up to stop may all be touched.
Covers(q, stop, write) == \A b \in q .. stop - 1 : MayTouch(b, write)

\* f obeys the recursion of check_with_maps for a range that ends at stop.
FollowsMaps(f, stop, write) ==
  f = [q \in 0 .. Limit |->
         \E m \in maps : /\ m.start <= q /\ q < m.end
                         /\ stop > m.end => f[m.end]
                         /\ write => m.write]

LEMMA MappingType ==
  ASSUME memory \in Memories, NEW m \in memory
  PROVE  /\ m.start \in 0 .. Limit /\ m.end \in 0 .. Limit
         /\ m.start < m.end /\ m.write \in BOOLEAN
BY DEF Memories, Mapping, Addresses

\* One mapping covers the range up to its end, and what is behind it counts.
LEMMA BytesOfAMapping ==
  ASSUME memory \in Memories, NEW q \in 0 .. Limit, NEW stop \in Nat, NEW write \in BOOLEAN,
         q < stop
  PROVE  Covers(q, stop, write)
           <=> \E m \in memory :
                 /\ m.start <= q /\ q < m.end
                 /\ stop > m.end => Covers(m.end, stop, write)
                 /\ write => m.write
<1>1. ASSUME Covers(q, stop, write)
      PROVE  \E m \in memory :
                 /\ m.start <= q /\ q < m.end
                 /\ stop > m.end => Covers(m.end, stop, write)
                 /\ write => m.write
  <2>1. PICK m \in memory : m.start <= q /\ q < m.end /\ (write => m.write)
    BY <1>1 DEF Covers, MayTouch
  <2>2. \A b \in m.end .. stop - 1 : b \in q .. stop - 1
    BY <2>1, MappingType
  <2> QED
    BY <1>1, <2>1, <2>2 DEF Covers
<1>2. ASSUME NEW m \in memory, m.start <= q /\ q < m.end, write => m.write,
             stop > m.end => Covers(m.end, stop, write),
             NEW b \in q .. stop - 1
      PROVE  MayTouch(b, write)
  <2>1. CASE b < m.end
    BY <1>2, <2>1, MappingType DEF MayTouch
  <2>2. CASE ~(b < m.end)
    <3>1. b \in m.end .. stop - 1 /\ stop > m.end
      BY <2>2, MappingType
    <3> QED
      BY <1>2, <3>1 DEF Covers
  <2> QED
    BY <2>1, <2>2
<1>3. ASSUME NEW m \in memory, m.start <= q /\ q < m.end, write => m.write,
             stop > m.end => Covers(m.end, stop, write)
      PROVE  Covers(q, stop, write)
  BY <1>2, <1>3 DEF Covers
<1> QED
  BY <1>1, <1>3

LEMMA CheckWithMapsExact ==
  ASSUME memory \in Memories, maps = memory, NEW k \in Question
  PROVE  CheckWithMaps(k) \in BOOLEAN /\ (CheckWithMaps(k) <=> Touchable(k))
<1> DEFINE stop == k.p + k.size
           write == k.write
           f == [q \in 0 .. Limit |->
                   IF q < stop THEN Covers(q, stop, write) ELSE MayTouch(q, write)]
           g == CHOOSE g : FollowsMaps(g, stop, write)
<1>1. k.p \in 0 .. Limit /\ k.p < stop /\ stop \in Nat /\ write \in BOOLEAN
  BY DEF Question, Addresses
<1> HIDE DEF stop, write
\* There is a function that obeys the recursion ...
<1>2. FollowsMaps(f, stop, write)
  <2>1. ASSUME NEW q \in 0 .. Limit
        PROVE  f[q] <=> \E m \in maps : /\ m.start <= q /\ q < m.end
                                        /\ stop > m.end => f[m.end]
                                        /\ write => m.write
    <3>1. \A m \in maps :
            m.end \in 0 .. Limit /\ (stop > m.end => (f[m.end] <=> Covers(m.end, stop, write)))
      BY MappingType
    <3>2. CASE q < stop
      <4>1. f[q] <=> Covers(q, stop, write)
        BY <3>2
      <4>2. Covers(q, stop, write) <=>
              \E m \in maps : /\ m.start <= q /\ q < m.end
                              /\ stop > m.end => Covers(m.end, stop, write)
                              /\ write => m.write
        BY <1>1, <3>2, BytesOfAMapping
      <4> HIDE DEF f
      <4> QED
        BY <3>1, <4>1, <4>2
    <3>3. CASE ~(q < stop)
      <4>1. f[q] <=> MayTouch(q, write)
        BY <3>3
      <4>2. \A m \in maps : q < m.end => ~(stop > m.end)
        BY <1>1, <3>3, MappingType
      <4> QED
        BY <4>1, <4>2 DEF MayTouch
    <3> QED
      BY <3>2, <3>3
  <2>2. \A q \in 0 .. Limit : f[q] \in BOOLEAN
    BY DEF Covers, MayTouch
  <2> HIDE DEF f
  <2>3. f = [q \in 0 .. Limit |-> f[q]]
    BY DEF f
  <2> QED
    BY <2>1, <2>2, <2>3 DEF FollowsMaps
<1>3. FollowsMaps(g, stop, write)
  <2> HIDE DEF f
  <2> QED
    BY <1>2
<1> HIDE DEF f, g
\* ... and any that does is exact: by induction, from the end of memory down.
<1>4. \A q \in 0 .. Limit :
        g[q] <=> \E m \in maps : /\ m.start <= q /\ q < m.end
                                 /\ stop > m.end => g[m.end]
                                 /\ write => m.write
  BY <1>3 DEF FollowsMaps
<1> DEFINE exact == { d \in 0 .. Limit :
                        \A q \in 0 .. Limit :
                          Limit - q <= d /\ q < stop => (g[q] <=> Covers(q, stop, write)) }
<1>5. ASSUME NEW q \in 0 .. Limit, q < stop,
             \A r \in 0 .. Limit : q < r /\ r < stop => (g[r] <=> Covers(r, stop, write))
      PROVE  g[q] <=> Covers(q, stop, write)
  <2>1. \A m \in maps : q < m.end /\ stop > m.end => (g[m.end] <=> Covers(m.end, stop, write))
    BY <1>5, MappingType
  <2>2. Covers(q, stop, write) <=>
          \E m \in maps : /\ m.start <= q /\ q < m.end
                          /\ stop > m.end => Covers(m.end, stop, write)
                          /\ write => m.write
    BY <1>1, <1>5, BytesOfAMapping
  <2> QED
    BY <1>4, <2>1, <2>2
<1>6. 0 \in exact
  <2>1. \A q \in 0 .. Limit : Limit - q <= 0 => q = Limit
    OBVIOUS
  <2> QED
    BY <1>5, <2>1
<1>7. ASSUME NEW d \in 0 .. Limit, d \in exact, d < Limit
      PROVE  d + 1 \in exact
  <2>1. ASSUME NEW q \in 0 .. Limit, Limit - q <= d + 1, q < stop
        PROVE  g[q] <=> Covers(q, stop, write)
    <3>1. \A r \in 0 .. Limit : q < r => Limit - r <= d
      BY <2>1
    <3> QED
      BY <1>5, <1>7, <2>1, <3>1
  <2>2. d + 1 \in 0 .. Limit
    BY <1>7
  <2> QED
    BY <2>1, <2>2
<1> HIDE DEF exact
<1>8. Limit \in exact
  <2>1. 0 .. Limit \subseteq exact
    BY <1>6, <1>7, UpTo
  <2> QED
    BY <2>1
<1>9. g[k.p] <=> Covers(k.p, stop, write)
  BY <1>1, <1>8 DEF exact
<1>10. CheckWithMaps(k) = g[k.p]
  BY DEF CheckWithMaps, g, FollowsMaps, stop, write
<1>11. g[k.p] \in BOOLEAN
  BY <1>1, <1>3 DEF FollowsMaps
<1>12. Touchable(k) <=> Covers(k.p, stop, write)
  <2>1. stop - 1 = k.p + k.size - 1 /\ write = k.write
    BY DEF stop, write, Question, Addresses
  <2> QED
    BY <2>1 DEF Covers, Touchable
<1> QED
  BY <1>9, <1>10, <1>11, <1>12

-----------------------------------------------------------------------------
(***************************************************************************)
(* A batch.                                                                *)
(***************************************************************************)
BatchTypes ==
  /\ memory \in Memories /\ maps \in {memory, {}}
  /\ lastOk \in BOOLEAN /\ reply \in BOOLEAN /\ answer \in BOOLEAN
  /\ mixed \in BOOLEAN /\ refused \in BOOLEAN
  /\ child \in {"none", "alive", "dead"}
  /\ pc \in {"idle", "ready", "reading", "done"}
  /\ asked \in Question \cup {Nothing}

\* The child has the question, or has answered it, or has died of it.
Conversation ==
  pc = "reading" =>
    /\ asked \in Question /\ asked.p % asked.align = 0
    /\ \/ request = asked /\ child = "alive" /\ ~reply
       \/ request = Nothing /\ child = "alive" /\ reply /\ Touchable(asked)
       \/ request = Nothing /\ child = "dead" /\ ~reply /\ ~Touchable(asked)

\* What the cached answer says holds for every byte of its page.
KnownPage(page, ok, write) ==
  \A a \in Nat : PageOf(a) = page =>
    /\ ok => MayTouch(a, write)
    /\ ~ok /\ ~refused => ~MayTouch(a, write)

CacheTrue ==
  pc \in {"ready", "reading"} /\ last # 0 =>
    asked \in Question /\ (~mixed => KnownPage(last, lastOk, asked.write))

AnswerTrue ==
  Answered /\ ~mixed =>
    /\ answer => asked.p % asked.align = 0 /\ Touchable(asked)
    /\ ~answer /\ ~refused => ~(asked.p % asked.align = 0 /\ Touchable(asked))

BatchInv == BatchTypes /\ ChildrenReaped /\ Conversation /\ CacheTrue /\ AnswerTrue

\* A question about one page is a question about any of its bytes.
LEMMA PageOfQuestion ==
  ASSUME memory \in Memories, NEW k \in Question, OnePage(k),
         NEW a \in Nat, PageOf(a) = PageOf(k.p)
  PROVE  Touchable(k) <=> MayTouch(a, k.write)
<1>1. k.p \in Nat /\ k.size \in Nat \ {0} /\ k.p + k.size - 1 \in Nat
  BY DEF Question, Addresses
<1>2. ASSUME NEW b \in k.p .. k.p + k.size - 1
      PROVE  b \in Nat /\ PageOf(b) = PageOf(a)
  <2>1. b \in Nat /\ k.p <= b /\ b <= k.p + k.size - 1
    BY <1>1, <1>2
  <2>2. PageOf(k.p) = PageOf(k.p + k.size - 1)
    BY DEF OnePage
  <2> DEFINE c == k.p + k.size - 1
  <2>3. c \in Nat
    BY <1>1
  <2>4. PageOf(k.p) \in Nat /\ PageOf(k.p) <= k.p /\ PageOf(k.p) % PageSize = 0
    BY <1>1, PageFacts
  <2>5. PageOf(b) \in Nat /\ PageOf(b) <= b /\ PageOf(b) % PageSize = 0
    BY <2>1, PageFacts
  <2> HIDE DEF c
  <2>6. PageOf(k.p) <= PageOf(b)
    <3>1. PageOf(k.p) <= b
      BY <1>1, <2>1, <2>4
    <3> QED
      BY <2>1, <2>4, <3>1, WholePages
  <2>7. PageOf(b) <= PageOf(c)
    <3>1. PageOf(b) <= c
      BY <1>1, <2>1, <2>5 DEF c
    <3> QED
      BY <2>3, <2>5, <3>1, WholePages
  <2>8. PageOf(c) = PageOf(k.p)
    BY <2>2 DEF c
  <2>9. PageOf(b) = PageOf(k.p)
    BY <2>4, <2>5, <2>6, <2>7, <2>8
  <2> QED
    BY <2>1, <2>9
<1>3. k.p \in k.p .. k.p + k.size - 1
  BY <1>1
<1> QED
  BY <1>2, <1>3, SamePage DEF Touchable

LEMMA BatchInvExact ==
  BatchInv => AnswersExact /\ ChildrenReaped
<1>1. Allowed(asked) <=> asked.p % asked.align = 0 /\ Touchable(asked)
  BY DEF Allowed, Touchable
<1>2. ASSUME BatchInv, Answered, ~mixed
      PROVE  /\ answer => Allowed(asked)
             /\ ~refused => answer = Allowed(asked)
  <2>1. answer \in BOOLEAN /\ Allowed(asked) \in BOOLEAN
    BY <1>2 DEF BatchInv, BatchTypes, Allowed
  <2>2. /\ answer => Allowed(asked)
        /\ ~answer /\ ~refused => ~Allowed(asked)
    BY <1>1, <1>2 DEF BatchInv, AnswerTrue
  <2> QED
    BY <2>1, <2>2
<1> QED
  BY <1>2 DEF BatchInv, AnswersExact

LEMMA RememberKnows ==
  ASSUME memory \in Memories, NEW k \in Question, OnePage(k),
         NEW ok \in BOOLEAN, ok => Touchable(k), ~ok /\ ~refused => ~Touchable(k)
  PROVE  KnownPage(PageOf(k.p), ok, k.write)
BY PageOfQuestion DEF KnownPage

\* A cached answer is the answer to the question.
LEMMA CacheKnows ==
  ASSUME memory \in Memories, NEW k \in Question, Cached(k),
         KnownPage(last, lastOk, k.write)
  PROVE  /\ lastOk => Touchable(k)
         /\ ~lastOk /\ ~refused => ~Touchable(k)
<1>1. k.p \in Nat
  BY DEF Question, Addresses
<1> QED
  BY <1>1, PageOfQuestion DEF KnownPage, Cached

-----------------------------------------------------------------------------
LEMMA BatchBegins ==
  memory \in Memories /\ BatchInit => BatchInv
BY DEF BatchInit, BatchInv, BatchTypes, ChildrenReaped, Conversation, CacheTrue, AnswerTrue,
       Answered

\* What the memory allows, while it stays as it is.
LEMMA SameMemory ==
  ASSUME UNCHANGED memory
  PROVE  /\ Memories' = Memories
         /\ \A q, w : MayTouch(q, w)' <=> MayTouch(q, w)
         /\ \A k : Touchable(k)' <=> Touchable(k)
         /\ \A p, ok, w : KnownPage(p, ok, w) /\ (refused => refused') => KnownPage(p, ok, w)'
BY DEF MayTouch, Touchable, KnownPage, Memories

LEMMA StutterKeepsBatch ==
  BatchInv /\ UNCHANGED vars => BatchInv'
<1> SUFFICES ASSUME BatchInv, UNCHANGED vars
             PROVE  BatchInv'
  OBVIOUS
<1>1. BatchTypes'
  BY SameMemory DEF vars, BatchInv, BatchTypes
<1>2. Conversation'
  BY SameMemory DEF vars, BatchInv, Conversation
<1>3. CacheTrue'
  BY SameMemory DEF vars, BatchInv, CacheTrue
<1>4. AnswerTrue'
  BY SameMemory DEF vars, BatchInv, AnswerTrue, Answered
<1>5. ChildrenReaped'
  BY DEF vars, BatchInv, ChildrenReaped
<1> QED
  BY <1>1, <1>2, <1>3, <1>4, <1>5 DEF BatchInv

LEMMA StartKeepsBatch ==
  BatchInv /\ BatchStart => BatchInv'
<1> SUFFICES ASSUME BatchInv, BatchStart
             PROVE  BatchInv'
  OBVIOUS
<1>1. BatchTypes'
  <2>1. UNCHANGED memory
    BY DEF BatchStart
  <2> QED
    BY <2>1, SameMemory DEF BatchStart, childVars, BatchInv, BatchTypes
<1>2. ChildrenReaped'
  BY DEF BatchStart, childVars, BatchInv, ChildrenReaped
<1> QED
  BY <1>1, <1>2 DEF BatchStart, BatchInv, Conversation, CacheTrue, AnswerTrue, Answered

LEMMA EndKeepsBatch ==
  BatchInv /\ BatchEnd => BatchInv'
BY DEF BatchEnd, BatchInv, BatchTypes, ChildrenReaped, Conversation, CacheTrue,
       AnswerTrue, Answered

\* A question is about what the batch was asked before, or the batch is mixed.
LEMMA AskFacts ==
  ASSUME BatchInv, NEW k \in Question, Ask(k)
  PROVE  /\ pc = "ready" /\ asked' = k /\ k # Nothing
         /\ UNCHANGED <<memory, maps>> /\ mixed' \in BOOLEAN
         /\ last # 0 /\ ~mixed' => ~mixed /\ KnownPage(last, lastOk, k.write)
<1>1. last # 0 => asked # Nothing
  BY DEF Ask, BatchInv, CacheTrue, Nothing, Question
<1> QED
  BY <1>1 DEF Ask, BatchInv, BatchTypes, CacheTrue, Nothing, Question

\* An answer given at once leaves the batch in order, if it is right and is what is
\* known of the page.
LEMMA AnsweredAtOnce ==
  ASSUME BatchInv, NEW k \in Question, Ask(k), NEW ok \in BOOLEAN, Answer(ok),
         refused' \in BOOLEAN, refused => refused',
         child' \in {"none", "alive"}, child = "none" \/ UNCHANGED child,
         UNCHANGED <<request, reply>>,
         lastOk' \in BOOLEAN,
         ~mixed' => /\ ok => k.p % k.align = 0 /\ Touchable(k)
                    /\ ~ok /\ ~refused' => ~(k.p % k.align = 0 /\ Touchable(k)),
         last' # 0 /\ ~mixed' => KnownPage(last, lastOk, k.write)'
  PROVE  BatchInv'
<1>1. UNCHANGED memory /\ pc' = "ready" /\ pc = "ready" /\ asked' = k /\ answer' = ok
  BY DEF Ask, Answer
<1>2. BatchTypes'
  BY <1>1, SameMemory, AskFacts DEF Ask, BatchInv, BatchTypes, ChildrenReaped
<1>3. ChildrenReaped'
  BY <1>1 DEF BatchInv, ChildrenReaped
<1>4. AnswerTrue'
  BY <1>1, SameMemory DEF AnswerTrue, Answered
<1>5. CacheTrue'
  BY <1>1 DEF CacheTrue
<1>6. Conversation'
  BY <1>1 DEF Conversation
<1> QED
  BY <1>2, <1>3, <1>4, <1>5, <1>6 DEF BatchInv

LEMMA AskKnownKeepsBatch ==
  ASSUME BatchInv, NEW k \in Question, AskKnown(k)
  PROVE  BatchInv'
<1>1. Ask(k) /\ UNCHANGED <<last, lastOk, childVars, refused>> /\ UNCHANGED memory
  BY DEF AskKnown, Ask
<1>2. /\ refused' \in BOOLEAN /\ lastOk' \in BOOLEAN /\ memory \in Memories
      /\ child' \in {"none", "alive"} /\ UNCHANGED <<child, request, reply>>
  BY <1>1, AskFacts DEF childVars, BatchInv, BatchTypes, ChildrenReaped
<1>3. last # 0 /\ ~mixed' => KnownPage(last, lastOk, k.write)
  BY <1>1, AskFacts
<1>4. last' # 0 /\ ~mixed' => KnownPage(last, lastOk, k.write)'
  BY <1>1, <1>3, SameMemory
<1>5. CASE k.p % k.align # 0 /\ Answer(FALSE)
  BY <1>1, <1>2, <1>4, <1>5, AnsweredAtOnce
<1>6. CASE k.p % k.align = 0 /\ Cached(k) /\ Answer(lastOk)
  <2>1. last # 0
    BY <1>6 DEF Cached
  <2>2. ~mixed' => /\ lastOk => Touchable(k)
                   /\ ~lastOk /\ ~refused => ~Touchable(k)
    BY <1>2, <1>3, <1>6, <2>1, CacheKnows
  <2>3. lastOk \in BOOLEAN
    BY <1>1, <1>2
  <2> QED
    BY <1>1, <1>2, <1>4, <1>6, <2>2, <2>3, AnsweredAtOnce
<1> QED
  BY <1>5, <1>6 DEF AskKnown

\* What is remembered of a right answer is right, and the rest is still known.
LEMMA Remembered ==
  ASSUME BatchInv, NEW k \in Question, Ask(k), NEW ok \in BOOLEAN, Remember(k, ok),
         refused => refused', refused' \in BOOLEAN,
         ok => Touchable(k), ~ok /\ ~refused' => ~Touchable(k)
  PROVE  /\ lastOk' \in BOOLEAN
         /\ last' # 0 /\ ~mixed' => KnownPage(last, lastOk, k.write)'
<1>1. UNCHANGED memory /\ memory \in Memories /\ memory' \in Memories' /\ lastOk \in BOOLEAN
  BY SameMemory DEF Ask, BatchInv, BatchTypes
<1>2. CASE OnePage(k)
  <2>1. last' = PageOf(k.p) /\ lastOk' = ok
    BY <1>2 DEF Remember
  <2>2. \A a \in Nat : PageOf(a) = PageOf(k.p) => (Touchable(k) <=> MayTouch(a, k.write))
    BY <1>1, <1>2, PageOfQuestion
  <2>3. \A a \in Nat : PageOf(a) = PageOf(k.p) => (Touchable(k) <=> MayTouch(a, k.write)')
    BY <1>1, <2>2, SameMemory
  <2> QED
    BY <2>1, <2>3 DEF KnownPage
<1>3. CASE ~OnePage(k)
  <2>1. UNCHANGED <<last, lastOk>>
    BY <1>3 DEF Remember
  <2> QED
    BY <1>1, <2>1, AskFacts, SameMemory
<1> QED
  BY <1>2, <1>3

LEMMA AskMapsKeepsBatch ==
  ASSUME BatchInv, NEW k \in Question, AskMaps(k)
  PROVE  BatchInv'
<1> DEFINE ok == CheckWithMaps(k)
<1>1. memory \in Memories /\ maps = memory
  BY DEF AskMaps, BatchInv, BatchTypes
<1>2. ok \in BOOLEAN /\ (ok <=> Touchable(k))
  BY <1>1, CheckWithMapsExact
<1> HIDE DEF ok
<1>3. /\ Ask(k) /\ k.p % k.align = 0 /\ Answer(ok) /\ Remember(k, ok)
      /\ UNCHANGED <<child, request, reply, refused>>
  BY DEF AskMaps, childVars, ok
<1>4. /\ refused' \in BOOLEAN /\ child' \in {"none", "alive"}
  BY <1>3, AskFacts DEF BatchInv, BatchTypes, ChildrenReaped
<1>5. /\ lastOk' \in BOOLEAN
      /\ last' # 0 /\ ~mixed' => KnownPage(last, lastOk, k.write)'
  BY <1>2, <1>3, <1>4, Remembered
<1> QED
  BY <1>2, <1>3, <1>4, <1>5, AnsweredAtOnce

LEMMA AskChildKeepsBatch ==
  ASSUME BatchInv, NEW k \in Question, AskChild(k)
  PROVE  BatchInv'
<1>1. Ask(k) /\ k.p % k.align = 0 /\ UNCHANGED <<memory, maps, reply>>
  BY DEF AskChild, Ask
<1>2. CASE /\ child' = "alive"
           /\ request' = k
           /\ pc' = "reading"
           /\ UNCHANGED <<last, lastOk, answer, refused>>
  <2>1. asked' = k /\ ~reply /\ mixed' \in BOOLEAN /\ pc = "ready"
    BY <1>1, AskFacts DEF BatchInv, ChildrenReaped
  <2>2. BatchTypes'
    BY <1>1, <1>2, <2>1, SameMemory DEF BatchInv, BatchTypes
  <2>3. ChildrenReaped' /\ Conversation' /\ AnswerTrue'
    BY <1>1, <1>2, <2>1 DEF ChildrenReaped, Conversation, AnswerTrue, Answered
  <2>4. last # 0 /\ ~mixed' => KnownPage(last, lastOk, k.write)
    BY <1>1, AskFacts
  <2>5. CacheTrue'
    BY <1>1, <1>2, <2>1, <2>4, SameMemory DEF CacheTrue
  <2> QED
    BY <2>2, <2>3, <2>5 DEF BatchInv
<1>3. CASE /\ SpawnMayFail /\ child = "none"
           /\ Answer(FALSE)
           /\ Remember(k, FALSE)
           /\ refused' = TRUE
           /\ UNCHANGED <<child, request>>
  <2>1. /\ lastOk' \in BOOLEAN
        /\ last' # 0 /\ ~mixed' => KnownPage(last, lastOk, k.write)'
    BY <1>1, <1>3, Remembered
  <2> QED
    BY <1>1, <1>3, <2>1, AnsweredAtOnce
<1> QED
  BY <1>2, <1>3 DEF AskChild

LEMMA RunChildKeepsBatch ==
  ASSUME BatchInv, RunChild
  PROVE  BatchInv'
<1>1. UNCHANGED <<memory, maps, last, lastOk, pc, asked, answer, mixed, refused>>
  BY DEF RunChild, batchVars
<1>2. pc = "reading" /\ asked \in Question /\ request = asked /\ child = "alive" /\ ~reply
  BY DEF RunChild, BatchInv, ChildrenReaped, Conversation, BatchTypes
<1>3. /\ request' = Nothing
      /\ \/ Touchable(asked) /\ reply' = TRUE /\ child' = child
         \/ ~Touchable(asked) /\ child' = "dead" /\ reply' = reply
  BY <1>2 DEF RunChild, Touchable
<1>4. BatchTypes'
  BY <1>1, <1>2, <1>3, SameMemory DEF BatchInv, BatchTypes
<1>5. ChildrenReaped' /\ AnswerTrue'
  BY <1>1, <1>2 DEF ChildrenReaped, AnswerTrue, Answered
<1>6. Conversation'
  <2>1. asked.p % asked.align = 0
    BY <1>2 DEF BatchInv, Conversation
  <2> QED
    BY <1>1, <1>2, <1>3, <2>1, SameMemory DEF Conversation
<1>7. CacheTrue'
  BY <1>1, SameMemory DEF BatchInv, CacheTrue
<1> QED
  BY <1>4, <1>5, <1>6, <1>7 DEF BatchInv

\* The answer of the child, or the end of its pipe.
LEMMA ChildAnswers ==
  ASSUME BatchInv, NEW ok \in BOOLEAN, pc = "reading", asked \in Question,
         asked.p % asked.align = 0, ok <=> Touchable(asked),
         Answer(ok), Remember(asked, ok), child' \in {"none", "alive"},
         request' = Nothing, ~reply', reply' \in BOOLEAN,
         UNCHANGED <<memory, maps, asked, mixed, refused>>
  PROVE  BatchInv'
<1>1. UNCHANGED memory /\ memory \in Memories /\ memory' \in Memories' /\ lastOk \in BOOLEAN
      /\ refused \in BOOLEAN
  BY SameMemory DEF BatchInv, BatchTypes
<1>2. pc' = "ready" /\ answer' = ok
  BY DEF Answer
<1>3. ASSUME OnePage(asked)
      PROVE  lastOk' \in BOOLEAN /\ CacheTrue'
  <2>1. last' = PageOf(asked.p) /\ lastOk' = ok
    BY <1>3 DEF Remember
  <2>2. KnownPage(PageOf(asked.p), ok, asked.write)
    <3>1. ASSUME NEW k \in Question, k = asked
          PROVE  KnownPage(PageOf(k.p), ok, k.write)
      BY <1>1, <1>3, <3>1, RememberKnows
    <3> QED
      BY <3>1
  <2>3. CacheTrue'
    BY <1>1, <2>1, <2>2, SameMemory DEF CacheTrue
  <2> QED
    BY <2>1, <2>3
<1>4. ASSUME ~OnePage(asked)
      PROVE  lastOk' \in BOOLEAN /\ CacheTrue'
  <2>1. UNCHANGED <<last, lastOk>>
    BY <1>4 DEF Remember
  <2>2. CacheTrue'
    BY <1>1, <2>1, SameMemory DEF BatchInv, CacheTrue
  <2> QED
    BY <1>1, <2>1, <2>2
<1>5. lastOk' \in BOOLEAN /\ CacheTrue'
  BY <1>3, <1>4
<1>6. BatchTypes'
  BY <1>1, <1>2, <1>5, SameMemory DEF BatchInv, BatchTypes
<1>7. ChildrenReaped' /\ Conversation'
  BY <1>2 DEF ChildrenReaped, Conversation
<1>8. AnswerTrue'
  BY <1>1, <1>2, SameMemory DEF AnswerTrue, Answered
<1> QED
  BY <1>5, <1>6, <1>7, <1>8 DEF BatchInv

LEMMA ReadReplyKeepsBatch ==
  ASSUME BatchInv, ReadReply
  PROVE  BatchInv'
<1>1. /\ asked \in Question /\ asked.p % asked.align = 0 /\ Touchable(asked)
      /\ child = "alive" /\ request = Nothing /\ pc = "reading"
  BY DEF ReadReply, BatchInv, Conversation, BatchTypes
<1>2. /\ Answer(TRUE) /\ Remember(asked, TRUE) /\ reply' = FALSE
      /\ UNCHANGED <<memory, maps, child, request, asked, mixed, refused>>
  BY DEF ReadReply
<1> QED
  BY <1>1, <1>2, ChildAnswers

LEMMA ReadEndKeepsBatch ==
  ASSUME BatchInv, ReadEnd
  PROVE  BatchInv'
<1>1. /\ asked \in Question /\ asked.p % asked.align = 0 /\ ~Touchable(asked)
      /\ request = Nothing /\ pc = "reading" /\ ~reply /\ reply \in BOOLEAN
  BY DEF ReadEnd, BatchInv, Conversation, BatchTypes
<1>2. /\ Answer(FALSE) /\ Remember(asked, FALSE) /\ child' = "none"
      /\ UNCHANGED <<memory, maps, request, reply, asked, mixed, refused>>
  BY DEF ReadEnd
<1> QED
  BY <1>1, <1>2, ChildAnswers

LEMMA BatchKept ==
  BatchInv /\ [Next]_vars => BatchInv'
<1> SUFFICES ASSUME BatchInv, [Next]_vars
             PROVE  BatchInv'
  OBVIOUS
<1>1. CASE BatchStart
  BY <1>1, StartKeepsBatch
<1>2. ASSUME NEW k \in Question, AskKnown(k)
      PROVE  BatchInv'
  BY <1>2, AskKnownKeepsBatch
<1>3. ASSUME NEW k \in Question, AskMaps(k)
      PROVE  BatchInv'
  BY <1>3, AskMapsKeepsBatch
<1>4. ASSUME NEW k \in Question, AskChild(k)
      PROVE  BatchInv'
  BY <1>4, AskChildKeepsBatch
<1>5. CASE ReadReply
  BY <1>5, ReadReplyKeepsBatch
<1>6. CASE ReadEnd
  BY <1>6, ReadEndKeepsBatch
<1>7. CASE BatchEnd
  BY <1>7, EndKeepsBatch
<1>8. CASE RunChild
  BY <1>8, RunChildKeepsBatch
<1>9. CASE UNCHANGED vars
  BY <1>9, StutterKeepsBatch
<1> QED
  BY <1>1, <1>2, <1>3, <1>4, <1>5, <1>6, <1>7, <1>8, <1>9 DEF Next, ParentStep

\* ptr_valid_batch: whatever the memory and the questions, as long as a batch is
\* asked about reads only, or about writes only, the maps, the child and the
\* cached page give the answer that the header promises.
THEOREM BatchesExact == Spec => []AnswersExact
<1>1. Init => BatchInv
  BY BatchBegins DEF Init
<1>2. BatchInv => AnswersExact
  BY BatchInvExact
<1> QED
  BY <1>1, <1>2, BatchKept, PTL DEF Spec

\* finish_child: no child outlives its batch, and its pipes are empty between two
\* questions.
THEOREM NoChildLeft == Spec => []ChildrenReaped
<1>1. Init => BatchInv
  BY BatchBegins DEF Init
<1>2. BatchInv => ChildrenReaped
  BY BatchInvExact
<1> QED
  BY <1>1, <1>2, BatchKept, PTL DEF Spec

-----------------------------------------------------------------------------
(***************************************************************************)
(* The scan.                                                               *)
(***************************************************************************)
\* The questions are about one byte, and only about reading it.
ScanQuestion(a) == [p |-> a, align |-> 1, size |-> 1, write |-> FALSE]

ScanTypes ==
  /\ BatchInv /\ ~mixed /\ asked.write = FALSE
  /\ image \in [Addresses -> Addresses]
  /\ \A m \in memory : m.start >= PageSize /\ m.end <= Limit - PageSize
  /\ waits \in BOOLEAN
  /\ char \in Addresses /\ tag \in Int

\* The range is whole pages, inside the memory that can be mapped, and every byte
\* of it can be read.
RangeRead ==
  /\ start \in Nat /\ start % PageSize = 0 /\ PageSize <= start
  /\ end \in Nat /\ end % PageSize = 0 /\ start <= end /\ end <= Limit - PageSize
  /\ \A a \in start .. end - 1 : MayTouch(a, FALSE)

\* The hit lies behind the start of the range, and a record that is looked at
\* lies in it.
TagInRange ==
  /\ phase = "search" => start - 1 <= tag
  /\ phase \in {"copy", "name", "value"} => start <= tag /\ tag + 4 <= end

\* The answer waited for is that to the question of this place.
AsksPointer ==
  waits => phase \in {"down", "up", "name", "value"} /\ asked = ScanQuestion(Pointer)

ScanInv == ScanTypes /\ RangeRead /\ TagInRange /\ AsksPointer

USE ScanAssumption DEF ScanAssumption

\* A byte that can be read lies between the first page and the last.
LEMMA ReadableByte ==
  ASSUME ScanTypes, NEW a \in Nat, NEW write, MayTouch(a, write)
  PROVE  PageSize <= a /\ a + 1 <= Limit - PageSize
<1>1. PICK m \in memory : m.start <= a /\ a < m.end
  BY DEF MayTouch
<1>2. m.start \in Nat /\ m.end \in Nat
  BY <1>1 DEF ScanTypes, BatchInv, BatchTypes, Memories, Mapping, Addresses
<1> QED
  BY <1>1, <1>2 DEF ScanTypes

\* So does the page of such a byte, all of which can be read.
LEMMA ReadablePage ==
  ASSUME ScanTypes, NEW s \in Nat, s % PageSize = 0, NEW write, MayTouch(s, write)
  PROVE  /\ PageSize <= s /\ s + PageSize <= Limit - PageSize
         /\ \A a \in s .. s + PageSize - 1 : MayTouch(a, write)
<1>1. PICK m \in memory : m.start <= s /\ s < m.end /\ (write => m.write)
  BY DEF MayTouch
<1>2. m.start \in Nat /\ m.end \in Nat /\ m.start % PageSize = 0 /\ m.end % PageSize = 0
  BY <1>1 DEF ScanTypes, BatchInv, BatchTypes, Memories, Mapping, Addresses
<1>3. s + PageSize <= m.end
  BY <1>1, <1>2, PagesApart
<1> QED
  BY <1>1, <1>2, <1>3 DEF ScanTypes, MayTouch

\* What the batch says of the byte that was asked about.
LEMMA ReplyTrue ==
  ASSUME ScanInv, waits, pc = "ready", answer
  PROVE  Pointer \in Addresses => MayTouch(Pointer, FALSE)
<1>1. asked = ScanQuestion(Pointer) /\ asked # Nothing /\ ~mixed
  BY DEF ScanInv, ScanTypes, AsksPointer, ScanQuestion, Nothing
<1>2. Touchable(asked)
  BY <1>1 DEF ScanInv, ScanTypes, BatchInv, AnswerTrue, Answered
<1> HIDE DEF Pointer
<1>3. ASSUME Pointer \in Addresses
      PROVE  Pointer \in asked.p .. asked.p + asked.size - 1 /\ ~asked.write
  BY <1>1, <1>3 DEF ScanQuestion, Addresses
<1> QED
  BY <1>1, <1>2, <1>3 DEF Touchable, ScanQuestion

LEMMA PointerIsAddress ==
  ASSUME ScanInv, phase \in {"down", "up", "name", "value"}
  PROVE  Pointer \in Addresses
<1>1. CASE phase = "down"
  BY <1>1 DEF ScanInv, RangeRead, Pointer, Addresses
<1>2. CASE phase = "up"
  BY <1>2 DEF ScanInv, RangeRead, Pointer, Addresses
<1>3. CASE phase = "name"
  BY <1>3 DEF ScanInv, ScanTypes, Pointer
<1>4. CASE phase = "value"
  <2>1. tag + 2 \in Addresses
    BY <1>4 DEF ScanInv, ScanTypes, TagInRange, RangeRead, Addresses
  <2> QED
    BY <1>4, <2>1 DEF ScanInv, ScanTypes, Pointer
<1> QED
  BY <1>1, <1>2, <1>3, <1>4

\* An answer that is there: nothing of the batch changes, and yes means yes.
LEMMA Replied ==
  ASSUME ScanInv, NEW ok \in BOOLEAN, Reply(ok)
  PROVE  /\ waits' = FALSE /\ UNCHANGED vars /\ UNCHANGED memory
         /\ BatchInv' /\ ~mixed' /\ asked'.write = FALSE
         /\ Pointer \in Addresses /\ (ok => MayTouch(Pointer, FALSE))
<1>1. waits /\ pc = "ready" /\ answer = ok /\ waits' = FALSE /\ UNCHANGED vars
  BY DEF Reply
<1>2. BatchInv'
  BY <1>1, BatchKept DEF ScanInv, ScanTypes
<1>3. Pointer \in Addresses
  BY <1>1, PointerIsAddress DEF ScanInv, AsksPointer
<1>4. ok => MayTouch(Pointer, FALSE)
  BY <1>1, <1>3, ReplyTrue
<1>5. UNCHANGED <<memory, mixed, asked>>
  BY <1>1 DEF vars
<1> QED
  BY <1>1, <1>2, <1>3, <1>4, <1>5 DEF ScanInv, ScanTypes

\* While the memory stays as it is.
LEMMA SameRange ==
  ASSUME RangeRead, UNCHANGED <<memory, start, end>>
  PROVE  RangeRead'
BY SameMemory DEF RangeRead

LEMMA ScanBegins ==
  ScanInit => ScanInv
<1> SUFFICES ASSUME ScanInit
             PROVE  ScanInv
  OBVIOUS
<1>1. memory \in Layouts /\ memory \in Memories /\ BatchInit
  BY DEF ScanInit
<1>2. BatchInv
  BY <1>1, BatchBegins
<1>3. PICK m \in memory : m.start <= Example /\ Example < m.end
  BY <1>1
<1>4. /\ m.start \in Nat /\ m.start % PageSize = 0 /\ m.end \in Nat
      /\ PageSize <= m.start /\ m.end <= Limit - PageSize /\ Example \in Nat
  BY <1>1 DEF Memories, Mapping, Addresses
<1>5. /\ PageOf(Example) \in Nat /\ PageOf(Example) <= Example
      /\ PageOf(Example) % PageSize = 0 /\ m.start <= PageOf(Example)
  BY <1>3, <1>4, PageFacts, WholePages
<1>6. start = PageOf(Example) /\ end = PageOf(Example)
  BY DEF ScanInit
<1>7. /\ start \in Nat /\ start % PageSize = 0 /\ PageSize <= start /\ end = start
      /\ end <= Limit - PageSize
  BY <1>3, <1>4, <1>5, <1>6
<1>8. RangeRead
  <2>1. \A a \in start .. end - 1 : MayTouch(a, FALSE)
    BY <1>7
  <2>2. end \in Nat /\ end % PageSize = 0 /\ start <= end
    BY <1>7
  <2> QED
    BY <1>7, <2>1, <2>2, Zenon DEF RangeRead
<1>9. ScanTypes
  <2>1. ~mixed /\ asked.write = FALSE
    BY <1>1 DEF BatchInit, Nothing
  <2>2. image \in [Addresses -> Addresses] /\ waits \in BOOLEAN /\ tag = 0 /\ char = 0
    BY DEF ScanInit
  <2>3. 0 \in Addresses
    BY <1>7 DEF Addresses
  <2>4. \A n \in memory : n.start >= PageSize /\ n.end <= Limit - PageSize
    BY <1>1
  <2> QED
    BY <1>2, <2>1, <2>2, <2>3, <2>4 DEF ScanTypes
<1> QED
  BY <1>8, <1>9 DEF ScanInit, ScanInv, TagInRange, AsksPointer

\* The processes of a question go on while the scan waits.
LEMMA BatchStepKeepsScan ==
  ASSUME ScanInv, RunChild \/ ReadReply \/ ReadEnd, UNCHANGED scanVars
  PROVE  ScanInv'
<1>1. BatchInv'
  BY BatchKept DEF ScanInv, ScanTypes, Next, ParentStep
<1>2. UNCHANGED <<memory, mixed, asked>>
  BY DEF RunChild, ReadReply, ReadEnd, batchVars
<1>3. UNCHANGED <<image, phase, waits, start, end, tag, char>>
  BY DEF scanVars
<1>4. ScanTypes'
  BY <1>1, <1>2, <1>3 DEF ScanInv, ScanTypes
<1>5. RangeRead'
  BY <1>2, <1>3, SameRange DEF ScanInv
<1>6. TagInRange' /\ AsksPointer'
  BY <1>2, <1>3 DEF ScanInv, TagInRange, AsksPointer, Pointer
<1> QED
  BY <1>4, <1>5, <1>6 DEF ScanInv

LEMMA BeginKeepsScan ==
  ASSUME ScanInv, Begin
  PROVE  ScanInv'
<1>1. BatchStart /\ phase' = "down" /\ ~waits /\ UNCHANGED <<image, waits, start, end, tag, char>>
  BY DEF Begin, rangeVars, ScanInv, AsksPointer
<1>2. BatchInv'
  BY <1>1, BatchKept DEF ScanInv, ScanTypes, Next, ParentStep
<1>3. memory' = memory /\ ~mixed' /\ asked' = Nothing
  BY <1>1 DEF BatchStart
<1>4. ScanTypes'
  BY <1>1, <1>2, <1>3 DEF ScanInv, ScanTypes, Nothing
<1>5. RangeRead'
  BY <1>1, <1>3, SameRange DEF ScanInv
<1>6. TagInRange' /\ AsksPointer'
  BY <1>1 DEF TagInRange, AsksPointer
<1> QED
  BY <1>4, <1>5, <1>6 DEF ScanInv

LEMMA AskPointerKeepsScan ==
  ASSUME ScanInv, AskPointer
  PROVE  ScanInv'
<1> DEFINE k == ScanQuestion(Pointer)
<1>1. /\ phase \in {"down", "up", "name", "value"} /\ waits' = TRUE
      /\ UNCHANGED <<image, phase, start, end, tag, char>>
      /\ AskKnown(k) \/ AskMaps(k) \/ AskChild(k)
  BY DEF AskPointer, rangeVars, ScanQuestion
<1>2. k \in Question /\ k.write = FALSE
  <2>1. Pointer \in Addresses
    BY <1>1, PointerIsAddress
  <2> HIDE DEF Pointer
  <2> QED
    BY <2>1 DEF Question, ScanQuestion
<1> HIDE DEF k
<1>3. BatchInv'
  BY <1>1, <1>2, BatchKept DEF ScanInv, ScanTypes, Next, ParentStep
<1>4. Ask(k)
  BY <1>1 DEF AskKnown, AskMaps, AskChild
<1>5. asked' = k /\ memory' = memory /\ ~mixed'
  BY <1>2, <1>4 DEF Ask, ScanInv, ScanTypes
<1>6. ScanTypes'
  BY <1>1, <1>2, <1>3, <1>5 DEF ScanInv, ScanTypes
<1>7. RangeRead'
  BY <1>1, <1>5, SameRange DEF ScanInv
<1>8. TagInRange'
  BY <1>1 DEF ScanInv, TagInRange
<1>9. AsksPointer'
  <2>1. Pointer' = Pointer
    BY <1>1 DEF Pointer
  <2> QED
    BY <1>1, <1>5, <2>1 DEF AsksPointer, k, ScanQuestion
<1> QED
  BY <1>6, <1>7, <1>8, <1>9 DEF ScanInv

\* A step that follows an answer, and moves neither the range nor the character
\* but to where it may be.
LEMMA ReplyKeepsTypes ==
  ASSUME ScanInv, NEW ok \in BOOLEAN, Reply(ok), UNCHANGED image,
         char' \in Addresses, tag' \in Int
  PROVE  ScanTypes' /\ AsksPointer'
<1>1. memory' = memory /\ waits' = FALSE /\ BatchInv' /\ ~mixed' /\ asked'.write = FALSE
  BY Replied
<1>2. ScanTypes'
  BY <1>1 DEF ScanInv, ScanTypes
<1> QED
  BY <1>1, <1>2 DEF AsksPointer

LEMMA WidenDownKeepsScan ==
  ASSUME ScanInv, WidenDown
  PROVE  ScanInv'
<1>1. phase = "down" /\ UNCHANGED <<image, end, tag, char>>
  BY DEF WidenDown
<1>2. PICK ok \in BOOLEAN : Reply(ok)
  BY DEF WidenDown
<1>3. ScanTypes' /\ AsksPointer'
  BY <1>1, <1>2, ReplyKeepsTypes DEF ScanInv, ScanTypes
<1>4. memory' = memory
  BY <1>2, Replied
<1>5. CASE Reply(TRUE) /\ start' = start - PageSize /\ UNCHANGED phase
  <2> DEFINE s == start - PageSize
  <2>1. Pointer = s /\ s \in Nat /\ start = s + PageSize
    BY <1>1 DEF Pointer, ScanInv, RangeRead
  <2> HIDE DEF s
  <2>2. MayTouch(s, FALSE)
    BY <1>5, <2>1, Replied
  <2>3. s % PageSize = 0
    BY <2>1, PagesAdd DEF ScanInv, RangeRead
  <2>4. /\ PageSize <= s
        /\ \A a \in s .. start - 1 : MayTouch(a, FALSE)
    <3>1. /\ PageSize <= s
          /\ \A a \in s .. s + PageSize - 1 : MayTouch(a, FALSE)
      BY <2>1, <2>2, <2>3, ReadablePage DEF ScanInv
    <3>2. s + PageSize - 1 = start - 1
      BY <2>1
    <3> QED
      BY <3>1, <3>2
  <2>5. start' = s
    BY <1>5 DEF s
  <2>6. \A a \in s .. end - 1 : MayTouch(a, FALSE)
    <3>1. \A a \in s .. end - 1 : a \in s .. start - 1 \/ a \in start .. end - 1
      BY <2>1 DEF ScanInv, RangeRead
    <3> QED
      BY <2>4, <3>1 DEF ScanInv, RangeRead
  <2>7. s <= end
    BY <2>1 DEF ScanInv, RangeRead
  <2>8. RangeRead'
    BY <1>1, <1>4, <2>1, <2>3, <2>4, <2>5, <2>6, <2>7, SameMemory DEF ScanInv, RangeRead
  <2>9. TagInRange'
    BY <1>1, <1>5 DEF TagInRange
  <2> QED
    BY <1>3, <2>8, <2>9 DEF ScanInv
<1>6. CASE Reply(FALSE) /\ phase' = "up" /\ UNCHANGED start
  <2>1. RangeRead'
    BY <1>1, <1>4, <1>6, SameRange DEF ScanInv
  <2>2. TagInRange'
    BY <1>6 DEF TagInRange
  <2> QED
    BY <1>3, <2>1, <2>2 DEF ScanInv
<1> QED
  BY <1>5, <1>6 DEF WidenDown

LEMMA WidenUpKeepsScan ==
  ASSUME ScanInv, WidenUp
  PROVE  ScanInv'
<1>1. phase = "up" /\ UNCHANGED <<image, start, char>> /\ tag' \in Int
  <2>1. start - 1 \in Int /\ tag \in Int
    BY DEF ScanInv, ScanTypes, RangeRead
  <2> QED
    BY <2>1 DEF WidenUp
<1>2. PICK ok \in BOOLEAN : Reply(ok)
  BY DEF WidenUp
<1>3. ScanTypes' /\ AsksPointer'
  BY <1>1, <1>2, ReplyKeepsTypes DEF ScanInv, ScanTypes
<1>4. memory' = memory
  BY <1>2, Replied
<1>5. CASE Reply(TRUE) /\ end' = end + PageSize /\ UNCHANGED <<phase, tag>>
  <2>1. Pointer = end /\ end \in Nat /\ end % PageSize = 0
    BY <1>1 DEF Pointer, ScanInv, RangeRead
  <2>2. MayTouch(end, FALSE)
    BY <1>5, <2>1, Replied
  <2>3. /\ end + PageSize <= Limit - PageSize
        /\ \A a \in end .. end + PageSize - 1 : MayTouch(a, FALSE)
    BY <2>1, <2>2, ReadablePage DEF ScanInv
  <2> DEFINE e == end + PageSize
  <2>4. e \in Nat /\ e % PageSize = 0 /\ start <= e
    <3>1. e % PageSize = 0
      BY <2>1, PagesAdd
    <3>2. start \in Nat /\ start <= end
      BY DEF ScanInv, RangeRead
    <3> QED
      BY <2>1, <3>1, <3>2
  <2>5. \A a \in start .. e - 1 : MayTouch(a, FALSE)
    <3>1. \A a \in start .. e - 1 : a \in start .. end - 1 \/ a \in end .. end + PageSize - 1
      BY <2>1 DEF ScanInv, RangeRead
    <3> QED
      BY <2>3, <3>1 DEF ScanInv, RangeRead
  <2>6. end' = e /\ e <= Limit - PageSize
    BY <1>5, <2>3
  <2> HIDE DEF e
  <2>7. RangeRead'
    BY <1>1, <1>4, <2>4, <2>5, <2>6, SameMemory DEF ScanInv, RangeRead
  <2>8. TagInRange'
    BY <1>1, <1>5 DEF TagInRange
  <2> QED
    BY <1>3, <2>7, <2>8 DEF ScanInv
<1>6. CASE Reply(FALSE) /\ phase' = "search" /\ tag' = start - 1 /\ UNCHANGED end
  <2>1. RangeRead'
    BY <1>1, <1>4, <1>6, SameRange DEF ScanInv
  <2>2. TagInRange'
    BY <1>1, <1>6 DEF TagInRange, ScanInv, RangeRead
  <2> QED
    BY <1>3, <2>1, <2>2 DEF ScanInv
<1> QED
  BY <1>5, <1>6 DEF WidenUp

\* The steps between two questions leave the batch alone.
LEMMA QuietStep ==
  ASSUME ScanInv, UNCHANGED vars, UNCHANGED <<image, start, end>>, waits' = FALSE,
         tag' \in Int, char' \in Addresses
  PROVE  ScanTypes' /\ RangeRead' /\ AsksPointer'
<1>1. BatchInv'
  BY BatchKept DEF ScanInv, ScanTypes
<1>2. UNCHANGED <<memory, mixed, asked>>
  BY DEF vars
<1>3. RangeRead'
  BY <1>2, SameRange DEF ScanInv
<1> QED
  BY <1>1, <1>2, <1>3 DEF ScanInv, ScanTypes, AsksPointer

LEMMA SearchKeepsScan ==
  ASSUME ScanInv, Search
  PROVE  ScanInv'
<1>1. /\ phase = "search" /\ UNCHANGED vars /\ UNCHANGED <<image, waits, start, end, char>>
      /\ \/ phase' = "end" /\ UNCHANGED tag
         \/ \E a \in Hits(tag) : tag' = a /\ phase' = IF Fits(a) THEN "copy" ELSE "search"
  BY DEF Search, rangeVars
<1>2. start - 1 <= tag /\ tag \in Int /\ start \in Nat /\ end \in Nat /\ ~waits
      /\ char \in Addresses
  BY <1>1 DEF ScanInv, ScanTypes, RangeRead, TagInRange, AsksPointer
<1>3. \A a \in Hits(tag) : a \in Int /\ start <= a
  BY <1>2 DEF Hits
<1>4. tag' \in Int /\ TagInRange'
  <2>1. CASE phase' = "end" /\ UNCHANGED tag
    BY <1>2, <2>1 DEF TagInRange
  <2>2. ASSUME NEW a \in Hits(tag), tag' = a, phase' = IF Fits(a) THEN "copy" ELSE "search"
        PROVE  tag' \in Int /\ TagInRange'
    BY <1>1, <1>2, <1>3, <2>2 DEF TagInRange, Fits
  <2> QED
    BY <1>1, <2>1, <2>2
<1>5. ScanTypes' /\ RangeRead' /\ AsksPointer'
  BY <1>1, <1>2, <1>4, QuietStep DEF ScanInv, ScanTypes
<1> QED
  BY <1>4, <1>5 DEF ScanInv

LEMMA CopyKeepsScan ==
  ASSUME ScanInv, Copy
  PROVE  ScanInv'
<1>1. /\ phase = "copy" /\ UNCHANGED vars /\ UNCHANGED <<image, waits, start, end, tag>>
      /\ \/ phase' = "name" /\ char' = image[tag + 3]
         \/ phase' = "search" /\ UNCHANGED char
  BY DEF Copy, rangeVars
<1>2. /\ start <= tag /\ tag + 4 <= end /\ tag \in Int /\ start \in Nat /\ end \in Nat
      /\ end <= Limit - PageSize /\ ~waits /\ char \in Addresses
      /\ image \in [Addresses -> Addresses]
  BY <1>1 DEF ScanInv, ScanTypes, RangeRead, TagInRange, AsksPointer
<1>3. tag + 3 \in Addresses
  BY <1>2 DEF Addresses
<1>4. char' \in Addresses
  BY <1>1, <1>2, <1>3
<1>5. ScanTypes' /\ RangeRead' /\ AsksPointer'
  BY <1>1, <1>2, <1>4, QuietStep DEF ScanInv, ScanTypes
<1>6. TagInRange'
  BY <1>1, <1>2 DEF TagInRange
<1> QED
  BY <1>5, <1>6 DEF ScanInv

LEMMA ReadNameKeepsScan ==
  ASSUME ScanInv, ReadName
  PROVE  ScanInv'
<1>1. phase = "name" /\ UNCHANGED <<image, start, end, tag>> /\ phase' \in {"name", "value", "search"}
  BY DEF ReadName, rangeVars
<1>2. PICK ok \in BOOLEAN : Reply(ok)
  BY DEF ReadName
<1>3. char \in Addresses /\ Pointer = char
  BY <1>1 DEF ScanInv, ScanTypes, Pointer
<1>4. char' \in Addresses
  <2>1. CASE Reply(TRUE) /\ char' = char + 1
    <3>1. MayTouch(char, FALSE)
      BY <1>3, <2>1, Replied
    <3>2. char + 1 <= Limit - PageSize
      <4>1. char \in Nat
        BY <1>3 DEF Addresses
      <4> QED
        BY <3>1, <4>1, ReadableByte DEF ScanInv
    <3> QED
      BY <1>3, <2>1, <3>2 DEF Addresses
  <2>2. CASE UNCHANGED char
    BY <1>3, <2>2
  <2> QED
    BY <2>1, <2>2 DEF ReadName
<1>5. ScanTypes' /\ AsksPointer'
  BY <1>1, <1>2, <1>4, ReplyKeepsTypes DEF ScanInv, ScanTypes
<1>6. memory' = memory
  BY <1>2, Replied
<1>7. RangeRead'
  BY <1>1, <1>6, SameRange DEF ScanInv
<1>8. TagInRange'
  BY <1>1 DEF ScanInv, ScanTypes, RangeRead, TagInRange
<1> QED
  BY <1>5, <1>7, <1>8 DEF ScanInv

LEMMA AddModuleKeepsScan ==
  ASSUME ScanInv, AddModule
  PROVE  ScanInv'
<1>1. phase = "value" /\ UNCHANGED <<image, start, end, tag, char>> /\ phase' \in {"search", "end"}
  BY DEF AddModule, rangeVars
<1>2. PICK ok \in BOOLEAN : Reply(ok)
  BY DEF AddModule
<1>3. ScanTypes' /\ AsksPointer'
  BY <1>1, <1>2, ReplyKeepsTypes DEF ScanInv, ScanTypes
<1>4. memory' = memory
  BY <1>2, Replied
<1>5. RangeRead'
  BY <1>1, <1>4, SameRange DEF ScanInv
<1>6. TagInRange'
  BY <1>1 DEF ScanInv, ScanTypes, RangeRead, TagInRange
<1> QED
  BY <1>3, <1>5, <1>6 DEF ScanInv

LEMMA EndKeepsScan ==
  ASSUME ScanInv, End
  PROVE  ScanInv'
<1>1. /\ phase = "end" /\ phase' = "done" /\ BatchEnd
      /\ UNCHANGED <<image, waits, start, end, tag, char>>
  BY DEF End, rangeVars
<1>2. ~waits
  BY <1>1 DEF ScanInv, AsksPointer
<1>3. BatchInv'
  BY <1>1, BatchKept DEF ScanInv, ScanTypes, Next, ParentStep
<1>4. UNCHANGED <<memory, mixed, asked>>
  BY <1>1 DEF BatchEnd
<1>5. ScanTypes'
  BY <1>1, <1>3, <1>4 DEF ScanInv, ScanTypes
<1>6. RangeRead'
  BY <1>1, <1>4, SameRange DEF ScanInv
<1>7. TagInRange' /\ AsksPointer'
  BY <1>1, <1>2 DEF TagInRange, AsksPointer
<1> QED
  BY <1>5, <1>6, <1>7 DEF ScanInv

LEMMA StutterKeepsScan ==
  ASSUME ScanInv, UNCHANGED allVars
  PROVE  ScanInv'
<1>1. UNCHANGED vars /\ UNCHANGED <<image, phase, waits, start, end, tag, char>>
  BY DEF allVars, scanVars
<1>2. BatchInv'
  BY <1>1, BatchKept DEF ScanInv, ScanTypes
<1>3. UNCHANGED <<memory, mixed, asked>>
  BY <1>1 DEF vars
<1>4. ScanTypes'
  BY <1>1, <1>2, <1>3 DEF ScanInv, ScanTypes
<1>5. RangeRead'
  BY <1>1, <1>3, SameRange DEF ScanInv
<1>6. TagInRange' /\ AsksPointer'
  BY <1>1, <1>3 DEF ScanInv, TagInRange, AsksPointer, Pointer
<1> QED
  BY <1>4, <1>5, <1>6 DEF ScanInv

LEMMA ScanKept ==
  ScanInv /\ [ScanNext]_allVars => ScanInv'
BY BatchStepKeepsScan, BeginKeepsScan, AskPointerKeepsScan, WidenDownKeepsScan, WidenUpKeepsScan,
   SearchKeepsScan, CopyKeepsScan, ReadNameKeepsScan, AddModuleKeepsScan, EndKeepsScan,
   StutterKeepsScan DEF ScanNext

LEMMA ScanReads ==
  ScanInv => ReadsSafe
<1> SUFFICES ASSUME ScanInv, NEW a \in Loads
             PROVE  MayTouch(a, FALSE)
  BY DEF ReadsSafe
<1>1. tag \in Int /\ start \in Nat /\ end \in Nat
  BY DEF ScanInv, ScanTypes, RangeRead
<1>2. CASE phase = "search"
  <2>1. a \in tag + 1 .. end - 1 /\ start - 1 <= tag
    BY <1>2 DEF Loads, ScanInv, TagInRange
  <2>2. a \in start .. end - 1
    BY <1>1, <2>1
  <2> QED
    BY <2>2 DEF ScanInv, RangeRead
<1>3. CASE phase = "copy"
  <2>1. a \in tag .. tag + 3 /\ start <= tag /\ tag + 4 <= end
    BY <1>3 DEF Loads, ScanInv, TagInRange
  <2>2. a \in start .. end - 1
    BY <1>1, <2>1
  <2> QED
    BY <2>2 DEF ScanInv, RangeRead
<1>4. CASE phase = "name" /\ waits /\ pc = "ready" /\ answer
  <2>1. a = char /\ Pointer = char /\ char \in Addresses
    BY <1>4 DEF Loads, Pointer, ScanInv, ScanTypes
  <2> QED
    BY <1>4, <2>1, ReplyTrue
<1> QED
  BY <1>2, <1>3, <1>4 DEF Loads

\* autodata_make_table: whatever the memory holds and however it is mapped, the scan
\* reads only what the process may read.
THEOREM ScanReadsSafely == ScanSpec => []ReadsSafe
<1>1. ScanInit => ScanInv
  BY ScanBegins
<1> QED
  BY <1>1, ScanKept, ScanReads, PTL DEF ScanSpec

\* In the scan every question is about reading, so the answers it goes by are exact.
THEOREM ScanAnswersExact == ScanSpec => [](AnswersExact /\ ChildrenReaped /\ ~mixed)
<1>1. ScanInit => ScanInv
  BY ScanBegins
<1>2. ScanInv => AnswersExact /\ ChildrenReaped /\ ~mixed
  BY BatchInvExact DEF ScanInv, ScanTypes
<1> QED
  BY <1>1, <1>2, ScanKept, PTL DEF ScanSpec

-----------------------------------------------------------------------------
(***************************************************************************)
(* The table.  The scan goes upwards: behind a hit that has been dealt     *)
(* with, the table lists every record so far.                              *)
(***************************************************************************)
\* The range lies around the example, which can be read.
Around ==
  /\ start <= PageOf(Example) /\ PageOf(Example) <= end
  /\ MayTouch(PageOf(Example), FALSE)

\* The range has been found.
Searched == phase \notin {"start", "down", "up"}

\* A bound that has been found is the last byte that can be read.
Bounded ==
  ~refused =>
    /\ Searched \/ phase = "up" => ~MayTouch(start - 1, FALSE)
    /\ Searched => ~MayTouch(end, FALSE)

\* What has been seen of the record that is looked at.
Looking ==
  /\ phase \in {"name", "value"} => image[tag] = Magic /\ image[tag + 1] = tag
  /\ phase = "name" =>
       /\ image[tag + 3] <= char
       /\ \A c \in image[tag + 3] .. char - 1 : MayTouch(c, FALSE) /\ image[c] # 0
  /\ phase = "value" => Named(image[tag + 3])

Below(t) == { a \in Records : a < t }

\* Every record below this address has been dealt with.
Seen ==
  CASE phase = "search" -> tag + 1
    [] phase \in {"copy", "name", "value"} -> tag
    [] OTHER -> Limit

TableSoFar ==
  /\ table \in Seq(Addresses)
  /\ ~Searched => table = << >>
  /\ Searched /\ ~refused /\ ~lost => Lists(table, Below(Seen))

TableInv == Around /\ Bounded /\ Looking /\ TableSoFar

-----------------------------------------------------------------------------
\* No means no, if the child could be made.
LEMMA ReplyFalse ==
  ASSUME ScanInv, waits, pc = "ready", ~answer, ~refused
  PROVE  ~MayTouch(Pointer, FALSE)
<1>1. asked = ScanQuestion(Pointer) /\ asked # Nothing /\ ~mixed
  BY DEF ScanInv, ScanTypes, AsksPointer, ScanQuestion, Nothing
<1>2. Pointer \in Addresses
  BY PointerIsAddress DEF ScanInv, AsksPointer
<1> HIDE DEF Pointer
<1>3. asked.p = Pointer /\ asked.size = 1 /\ asked.align = 1 /\ asked.write = FALSE
  BY <1>1 DEF ScanQuestion
<1>4. asked.p % asked.align = 0
  BY <1>2, <1>3 DEF Addresses
<1>5. ~Touchable(asked)
  BY <1>1, <1>4 DEF ScanInv, ScanTypes, BatchInv, AnswerTrue, Answered
<1>6. PICK q \in asked.p .. asked.p + asked.size - 1 : ~MayTouch(q, asked.write)
  BY <1>5 DEF Touchable
<1>7. q = Pointer
  BY <1>2, <1>3 DEF Addresses
<1> QED
  BY <1>3, <1>6, <1>7

\* A page is readable to its last byte, or not at all.
LEMMA LastOfPage ==
  ASSUME memory \in Memories, NEW s \in Nat, s % PageSize = 0, ~MayTouch(s, FALSE)
  PROVE  ~MayTouch(s + PageSize - 1, FALSE)
<1> DEFINE b == s + PageSize - 1
<1>1. b \in Nat /\ s <= b /\ b < s + PageSize
  OBVIOUS
<1>2. PageOf(s) = s
  BY DEF PageOf
<1>3. PageOf(b) = s
  <2>1. PageOf(b) \in Nat /\ PageOf(b) % PageSize = 0 /\ PageOf(b) <= b /\ s <= PageOf(b)
    <3> HIDE DEF b
    <3> QED
      BY <1>1, PageFacts, WholePages
  <2>2. ASSUME s < PageOf(b)
        PROVE  FALSE
    <3>1. s + PageSize <= PageOf(b)
      BY <2>1, <2>2, PagesApart
    <3> HIDE DEF b
    <3> QED
      BY <1>1, <2>1, <3>1
  <2> HIDE DEF b
  <2> QED
    BY <2>1, <2>2
<1> HIDE DEF b
<1>4. ~MayTouch(b, FALSE)
  BY <1>1, <1>2, <1>3, SamePage
<1> QED
  BY <1>4 DEF b

Closed == ~MayTouch(start - 1, FALSE) /\ ~MayTouch(end, FALSE)

\* When both bounds have been found, the range is what can be reached.
LEMMA ReachIsRange ==
  ASSUME RangeRead, Around, Closed
  PROVE  Reach = start .. end - 1
<1> DEFINE x == PageOf(Example)
<1>1. /\ start \in Nat /\ end \in Nat /\ PageSize <= start /\ end <= Limit - PageSize
      /\ \A a \in start .. end - 1 : MayTouch(a, FALSE)
  BY DEF RangeRead
<1>2. x \in Nat /\ start <= x /\ x <= end /\ MayTouch(x, FALSE)
  <2>1. Example \in Nat
    BY DEF Addresses
  <2> QED
    BY <2>1, PageFacts DEF Around
<1>3. ~MayTouch(start - 1, FALSE) /\ ~MayTouch(end, FALSE)
  BY DEF Closed
<1>4. Reach = { a \in Addresses : \A b \in (x .. a) \cup (a .. x) : MayTouch(b, FALSE) }
  BY DEF Reach
<1> HIDE DEF x
<1>5. x < end
  <2>1. x # end
    BY <1>2, <1>3
  <2> QED
    BY <1>1, <1>2, <2>1
<1>6. ASSUME NEW a \in start .. end - 1
      PROVE  a \in Reach
  <2>1. a \in Addresses
    BY <1>1 DEF Addresses
  <2>2. \A b \in (x .. a) \cup (a .. x) : b \in start .. end - 1
    BY <1>1, <1>2, <1>5
  <2> QED
    BY <1>1, <1>4, <2>1, <2>2
<1>7. ASSUME NEW a \in Reach
      PROVE  a \in start .. end - 1
  <2>1. a \in Addresses /\ \A b \in (x .. a) \cup (a .. x) : MayTouch(b, FALSE)
    BY <1>4
  <2>2. a \in Int
    BY <2>1 DEF Addresses
  <2>3. ~(a < start)
    <3>1. a < start => start - 1 \in a .. x
      BY <1>1, <1>2, <2>2
    <3> QED
      BY <1>3, <2>1, <3>1
  <2>4. ~(end <= a)
    <3>1. end <= a => end \in x .. a
      BY <1>1, <1>2, <2>2
    <3> QED
      BY <1>3, <2>1, <3>1
  <2> QED
    BY <1>1, <2>2, <2>3, <2>4
<1> QED
  BY <1>6, <1>7

\* So a record is four words of the range.
LEMMA RecordInRange ==
  ASSUME RangeRead, Around, Closed, NEW a \in Records
  PROVE  a \in Int /\ start <= a /\ a + 4 <= end /\ image[a] = Magic
<1>1. a \in Int /\ a + 3 \in Reach /\ a \in Reach /\ image[a] = Magic
  BY DEF Records, IsRecord, Addresses
<1>2. Reach = start .. end - 1
  BY ReachIsRange, Zenon
<1>3. start \in Int /\ end \in Int
  BY DEF RangeRead
<1> QED
  BY <1>1, <1>2, <1>3

\* strcmp: the name's end is the first zero.
LEMMA NamedExact ==
  ASSUME NEW p \in Nat, NEW e \in Nat, p <= e, image[e] = 0, e \in Addresses,
         \A c \in p .. e : MayTouch(c, FALSE),
         \A c \in p .. e - 1 : image[c] # 0
  PROVE  Named(p) <=> Text(p, e) = Name
<1>1. ASSUME Text(p, e) = Name
      PROVE  Named(p)
  BY <1>1 DEF Named
<1>2. ASSUME Named(p)
      PROVE  Text(p, e) = Name
  <2>1. PICK b \in Addresses : b >= p /\ image[b] = 0 /\ Text(p, b) = Name
    BY <1>2 DEF Named
  <2>2. b \in Nat
    BY DEF Addresses
  <2>3. ~(b < e)
    <3>1. b < e => b \in p .. e - 1
      BY <2>1, <2>2
    <3> QED
      BY <2>1, <3>1
  <2>4. ~(e < b)
    <3> DEFINE i == e - p + 1
    <3>1. e < b => i \in 1 .. b - p /\ p + i - 1 = e
      BY <2>2
    <3> HIDE DEF i
    <3>2. e < b => Text(p, b)[i] = 0 /\ i \in DOMAIN Text(p, b)
      BY <3>1 DEF Text
    <3>3. \A j \in DOMAIN Name : Name[j] # 0
      <4>1. Name \in [1 .. Len(Name) -> Addresses \ {0}]
        OBVIOUS
      <4> QED
        BY <4>1
    <3>4. e < b => i \in DOMAIN Name /\ Name[i] = 0
      BY <2>1, <3>2
    <3> QED
      BY <3>3, <3>4
  <2>5. b = e
    BY <2>2, <2>3, <2>4
  <2> QED
    BY <2>1, <2>5
<1> QED
  BY <1>1, <1>2

\* A string that runs into memory that cannot be read has no name.
LEMMA NotNamed ==
  ASSUME NEW p \in Nat, NEW e \in Nat, p <= e, ~MayTouch(e, FALSE),
         \A c \in p .. e - 1 : image[c] # 0
  PROVE  ~Named(p)
<1> SUFFICES ASSUME NEW b \in Addresses, \A c \in p .. b : MayTouch(c, FALSE),
                    b >= p, image[b] = 0
             PROVE  FALSE
  BY DEF Named
<1>1. b \in Nat
  BY DEF Addresses
<1>2. b < e => b \in p .. e - 1
  BY <1>1
<1>3. e <= b => e \in p .. b
  BY <1>1
<1>4. b < e => image[b] # 0
  BY <1>2
<1>5. ~(e <= b)
  BY <1>3
<1> QED
  BY <1>1, <1>4, <1>5

\* While the memory stays as it is.
LEMMA SameWorld ==
  ASSUME UNCHANGED <<memory, image>>
  PROVE  /\ \A q : MayTouch(q, FALSE)' <=> MayTouch(q, FALSE)
         /\ \A p : Named(p)' <=> Named(p)
         /\ Records' = Records
<1>1. \A q, w : MayTouch(q, w)' <=> MayTouch(q, w)
  BY SameMemory
<1>2. \A p, b : Text(p, b)' = Text(p, b)
  BY DEF Text
<1>3. Reach' = Reach
  BY <1>1 DEF Reach
<1>4. \A p : Named(p)' <=> Named(p)
  BY <1>1, <1>2 DEF Named
<1>5. \A a : IsRecord(a)' <=> IsRecord(a)
  <2> SUFFICES ASSUME NEW a
               PROVE  IsRecord(a)' <=> IsRecord(a)
    OBVIOUS
  <2>1. image[a + 2]' = image[a + 2] /\ image[a + 3]' = image[a + 3]
    OBVIOUS
  <2>2. MayTouch(image[a + 2], FALSE)' <=> MayTouch(image[a + 2], FALSE)
    BY <2>1 DEF MayTouch
  <2>3. Named(image[a + 3])' <=> Named(image[a + 3])
    BY DEF Named, Text, MayTouch
  <2> QED
    BY <1>3, <2>2, <2>3 DEF IsRecord
<1>6. Records' = Records
  BY <1>5 DEF Records
<1> QED
  BY <1>1, <1>4, <1>6

\* What the table has to list after a step.
LEMMA TableNext ==
  ASSUME UNCHANGED <<memory, image>>, table' \in Seq(Addresses), Searched', NEW t, Seen' = t,
         ~refused' /\ ~lost' => Lists(table', Below(t))
  PROVE  TableSoFar'
<1>1. Records' = Records
  BY SameWorld
<1>2. Lists(table, Below(Seen))' <=> Lists(table', Below(t))
  BY <1>1 DEF Lists, Below
<1> QED
  BY <1>2 DEF TableSoFar

LEMMA BelowIsFinite ==
  ASSUME NEW t, NEW S \in SUBSET Below(t)
  PROVE  IsFiniteSet(S) /\ Cardinality(S) \in Nat
<1>1. S \subseteq Addresses
  BY DEF Below, Records
<1>2. IsFiniteSet(Addresses)
  BY FS_Interval DEF Addresses
<1>3. IsFiniteSet(S)
  BY <1>1, <1>2, FS_Subset
<1> QED
  BY <1>3, FS_CardinalityType

\* An address that is no record's changes nothing.
LEMMA ListsOn ==
  ASSUME NEW s \in Int, NEW t \in Int, s <= t, \A a \in Records : a < t => a < s
  PROVE  Below(t) = Below(s)
<1>1. \A a \in Records : a \in Int
  BY DEF Records, Addresses
<1> QED
  BY <1>1 DEF Below

LEMMA ListsNothing ==
  ASSUME NEW t, Below(t) = {}
  PROVE  Lists(<< >>, Below(t))
BY FS_EmptySet DEF Lists

\* The module of the next record is the next in the table.
LEMMA ListsAppend ==
  ASSUME NEW t \in Records, table \in Seq(Addresses), Lists(table, Below(t)),
         image[t + 2] \in Addresses
  PROVE  Lists(Append(table, image[t + 2]), Below(t + 1))
<1> DEFINE more == Append(table, image[t + 2])
           to(S, a) == { b \in S : b <= a }
<1>1. \A a \in Records : a \in Int
  BY DEF Records, Addresses
<1>2. /\ Below(t + 1) = Below(t) \cup {t} /\ t \notin Below(t)
      /\ \A a \in Below(t) : a \in Int /\ a < t
  BY <1>1 DEF Below
<1>3. Cardinality(Below(t + 1)) = Cardinality(Below(t)) + 1
  <2>1. IsFiniteSet(Below(t))
    BY BelowIsFinite
  <2> QED
    BY <1>2, <2>1, FS_AddElement
<1>4. Len(table) = Cardinality(Below(t)) /\ Len(table) \in Nat
  BY DEF Lists
<1>5. Len(more) = Len(table) + 1
  OBVIOUS
<1>6. more[Len(table) + 1] = image[t + 2]
  OBVIOUS
<1>7. \A i \in 1 .. Len(table) : more[i] = table[i]
  OBVIOUS
<1>8. ASSUME NEW a \in Below(t)
      PROVE  more[Cardinality(to(Below(t + 1), a))] = image[a + 2]
  <2>1. to(Below(t + 1), a) = to(Below(t), a)
    BY <1>1, <1>2
  <2>2. table[Cardinality(to(Below(t), a))] = image[a + 2]
    BY DEF Lists
  <2>3. Cardinality(to(Below(t), a)) \in 1 .. Len(table)
    <3> DEFINE S == to(Below(t), a)
    <3>1. S \subseteq Below(t) /\ a \in S
      BY <1>2
    <3> HIDE DEF S
    <3>2. IsFiniteSet(S) /\ Cardinality(S) \in Nat /\ IsFiniteSet(Below(t))
      BY <3>1, BelowIsFinite
    <3>3. Cardinality(S) <= Cardinality(Below(t))
      BY <3>1, <3>2, FS_Subset
    <3>4. Cardinality(S) # 0
      BY <3>1, <3>2, FS_EmptySet
    <3>5. Cardinality(S) \in 1 .. Len(table)
      BY <1>4, <3>2, <3>3, <3>4
    <3> QED
      BY <3>5 DEF S
  <2> HIDE DEF more, to
  <2> QED
    BY <1>7, <2>1, <2>2, <2>3
<1>9. to(Below(t + 1), t) = Below(t + 1)
  BY <1>1, <1>2
<1> HIDE DEF more
<1>10. \A a \in Below(t + 1) : more[Cardinality(to(Below(t + 1), a))] = image[a + 2]
  <2> HIDE DEF to
  <2>1. more[Cardinality(to(Below(t + 1), t))] = image[t + 2]
    BY <1>3, <1>4, <1>6, <1>9
  <2> QED
    BY <1>2, <1>8, <2>1
<1>11. Len(more) = Cardinality(Below(t + 1))
  BY <1>3, <1>4, <1>5
<1> QED
  BY <1>10, <1>11 DEF Lists, more

-----------------------------------------------------------------------------
LEMMA TableBegins ==
  ScanInit => TableInv
<1> SUFFICES ASSUME ScanInit
             PROVE  TableInv
  OBVIOUS
<1>1. /\ phase = "start" /\ table = << >> /\ start = PageOf(Example) /\ end = PageOf(Example)
      /\ memory \in Memories
  BY DEF ScanInit
<1>2. /\ Example \in Nat /\ PageOf(Example) \in Nat /\ PageOf(Example) <= Example
      /\ PageOf(Example) % PageSize = 0
  <2>1. Example \in Nat
    BY DEF Addresses
  <2> QED
    BY <2>1, PageFacts
<1>3. MayTouch(PageOf(Example), FALSE)
  <2>1. PICK m \in memory : m.start <= Example /\ Example < m.end
    BY DEF ScanInit
  <2>2. m.start \in Nat /\ m.end \in Nat /\ m.start % PageSize = 0
    BY <1>1, <2>1 DEF Memories, Mapping, Addresses
  <2>3. m.start <= PageOf(Example)
    BY <1>2, <2>1, <2>2, WholePages
  <2> QED
    BY <1>2, <2>1, <2>2, <2>3 DEF MayTouch
<1>4. Around
  <2>1. start <= PageOf(Example) /\ PageOf(Example) <= end
    BY <1>1, <1>2
  <2> QED
    BY <1>3, <2>1, Zenon DEF Around
<1>5. ~Searched /\ Bounded /\ Looking
  BY <1>1 DEF Searched, Bounded, Looking
<1>6. TableSoFar
  BY <1>1, <1>5 DEF TableSoFar
<1> QED
  BY <1>4, <1>5, <1>6 DEF TableInv

\* A step of the batch moves nothing of the scan.
LEMMA TableWaits ==
  ASSUME TableInv, UNCHANGED <<memory, image, phase, start, end, tag, char, table, lost>>,
         refused => refused'
  PROVE  TableInv'
<1>1. /\ \A q : MayTouch(q, FALSE)' <=> MayTouch(q, FALSE)
      /\ \A p : Named(p)' <=> Named(p)
      /\ Records' = Records
  BY SameWorld
<1>2. Around'
  BY <1>1 DEF TableInv, Around
<1>3. Bounded'
  BY <1>1 DEF TableInv, Bounded, Searched
<1>4. Looking'
  BY <1>1 DEF TableInv, Looking, Named, Text, MayTouch
<1>5. TableSoFar'
  <2>1. Searched' <=> Searched
    BY DEF Searched
  <2>2. Lists(table, Below(Seen))' <=> Lists(table, Below(Seen))
    BY <1>1 DEF Lists, Below, Seen
  <2> QED
    BY <2>1, <2>2 DEF TableInv, TableSoFar
<1> QED
  BY <1>2, <1>3, <1>4, <1>5 DEF TableInv

\* A step that leaves the range as it is.
LEMMA RangeStays ==
  ASSUME TableInv, UNCHANGED <<memory, image, start, end>>, refused => refused',
         Searched
  PROVE  Around' /\ Bounded'
<1>1. \A q : MayTouch(q, FALSE)' <=> MayTouch(q, FALSE)
  BY SameWorld
<1> QED
  BY <1>1 DEF TableInv, Around, Bounded

LEMMA BeginKeepsTable ==
  ASSUME ScanInv, TableInv, Begin
  PROVE  TableInv'
<1>1. /\ phase = "start" /\ phase' = "down" /\ UNCHANGED <<memory, image, start, end, table>>
  BY DEF Begin, rangeVars, BatchStart
<1>2. \A q : MayTouch(q, FALSE)' <=> MayTouch(q, FALSE)
  BY <1>1, SameWorld
<1>3. Around'
  BY <1>1, <1>2 DEF TableInv, Around
<1>4. Bounded' /\ Looking' /\ ~Searched' /\ ~Searched
  BY <1>1 DEF Bounded, Looking, Searched
<1>5. TableSoFar'
  BY <1>1, <1>4 DEF TableInv, TableSoFar
<1> QED
  BY <1>3, <1>4, <1>5 DEF TableInv

LEMMA AskPointerKeepsTable ==
  ASSUME ScanInv, TableInv, AskPointer
  PROVE  TableInv'
<1> DEFINE k == ScanQuestion(Pointer)
<1>1. /\ UNCHANGED <<image, phase, start, end, tag, char, table, lost>>
      /\ AskKnown(k) \/ AskMaps(k) \/ AskChild(k)
  BY DEF AskPointer, rangeVars, ScanQuestion
<1> HIDE DEF k
<1>2. UNCHANGED memory
  BY <1>1 DEF AskKnown, AskMaps, AskChild, Ask
<1>3. UNCHANGED refused \/ refused'
  BY <1>1 DEF AskKnown, AskMaps, AskChild
<1> QED
  BY <1>1, <1>2, <1>3, TableWaits

LEMMA BatchStepKeepsTable ==
  ASSUME TableInv, RunChild \/ ReadReply \/ ReadEnd, UNCHANGED scanVars
  PROVE  TableInv'
<1>1. UNCHANGED <<image, phase, start, end, tag, char, table, lost>>
  BY DEF scanVars
<1>2. UNCHANGED <<memory, refused>>
  BY DEF RunChild, ReadReply, ReadEnd
<1> QED
  BY <1>1, <1>2, TableWaits

LEMMA StutterKeepsTable ==
  ASSUME TableInv, UNCHANGED allVars
  PROVE  TableInv'
<1>1. UNCHANGED <<memory, image, phase, start, end, tag, char, table, lost>>
      /\ (refused => refused')
  BY DEF allVars, vars, scanVars
<1> QED
  BY <1>1, TableWaits

\* What an answer says.
LEMMA Answers ==
  ASSUME ScanInv, NEW ok \in BOOLEAN, Reply(ok)
  PROVE  /\ UNCHANGED <<memory, refused>>
         /\ ok => MayTouch(Pointer, FALSE)
         /\ ~ok /\ ~refused => ~MayTouch(Pointer, FALSE)
<1>1. UNCHANGED <<memory, refused>> /\ waits /\ pc = "ready" /\ answer = ok
  BY DEF Reply, vars
<1>2. ok => MayTouch(Pointer, FALSE)
  BY Replied
<1>3. ~ok /\ ~refused => ~MayTouch(Pointer, FALSE)
  BY <1>1, ReplyFalse
<1> QED
  BY <1>1, <1>2, <1>3

LEMMA WidenDownKeepsTable ==
  ASSUME ScanInv, TableInv, WidenDown
  PROVE  TableInv'
<1> DEFINE s == start - PageSize
<1>1. /\ phase = "down" /\ UNCHANGED <<image, end, table>>
      /\ phase' \in {"down", "up"}
  BY DEF WidenDown
<1>2. /\ s \in Nat /\ s % PageSize = 0 /\ start = s + PageSize /\ end \in Int
      /\ Pointer = s /\ start \in Nat
  <2>1. s \in Nat /\ start = s + PageSize /\ start % PageSize = 0
    BY DEF ScanInv, RangeRead
  <2> HIDE DEF s
  <2>2. s % PageSize = 0
    BY <2>1, PagesAdd
  <2>3. Pointer = s
    BY <1>1 DEF Pointer, s
  <2> QED
    BY <2>1, <2>2, <2>3 DEF ScanInv, RangeRead
<1>3. PICK ok \in BOOLEAN : Reply(ok)
  BY DEF WidenDown
<1>4. UNCHANGED <<memory, refused>>
  BY <1>3, Answers
<1>5. \A q : MayTouch(q, FALSE)' <=> MayTouch(q, FALSE)
  BY <1>1, <1>4, SameWorld
<1>6. ~Searched /\ ~Searched' /\ Looking'
  BY <1>1 DEF Searched, Looking
<1>7. TableSoFar'
  BY <1>1, <1>6 DEF TableInv, TableSoFar
<1>8. PageOf(Example) \in Int
  BY PageFacts DEF Addresses
<1>9. CASE start' = s /\ phase' = "down"
  <2> HIDE DEF s
  <2>1. Around'
    <3>1. start' <= PageOf(Example) /\ PageOf(Example) <= end'
      BY <1>1, <1>2, <1>8, <1>9 DEF TableInv, Around
    <3> QED
      BY <1>5, <3>1, Zenon DEF TableInv, Around
  <2>2. Bounded'
    BY <1>6, <1>9 DEF Bounded
  <2> QED
    BY <1>6, <1>7, <2>1, <2>2 DEF TableInv
<1>10. CASE Reply(FALSE) /\ phase' = "up" /\ UNCHANGED start
  <2> HIDE DEF s
  <2>1. Around'
    BY <1>1, <1>5, <1>10 DEF TableInv, Around
  <2>2. ~refused => ~MayTouch(start - 1, FALSE)
    <3>1. ~refused => ~MayTouch(s, FALSE)
      BY <1>2, <1>10, Answers
    <3>2. ~MayTouch(s, FALSE) => ~MayTouch(s + PageSize - 1, FALSE)
      BY <1>2, LastOfPage DEF ScanInv, ScanTypes, BatchInv, BatchTypes
    <3>3. s + PageSize - 1 = start - 1
      BY <1>2
    <3> QED
      BY <3>1, <3>2, <3>3
  <2>3. Bounded'
    BY <1>4, <1>5, <1>6, <1>10, <2>2 DEF Bounded
  <2> QED
    BY <1>6, <1>7, <2>1, <2>3 DEF TableInv
<1> QED
  BY <1>1, <1>9, <1>10 DEF WidenDown

LEMMA WidenUpKeepsTable ==
  ASSUME ScanInv, TableInv, WidenUp
  PROVE  TableInv'
<1>1. /\ phase = "up" /\ UNCHANGED <<image, start, table, lost>> /\ phase' \in {"up", "search"}
      /\ ~Searched
  BY DEF WidenUp, Searched
<1>2. start \in Nat /\ end \in Nat /\ start <= end /\ Pointer = end
  BY <1>1 DEF ScanInv, RangeRead, Pointer
<1>3. PICK ok \in BOOLEAN : Reply(ok)
  BY DEF WidenUp
<1>4. UNCHANGED <<memory, refused>>
  BY <1>3, Answers
<1>5. \A q : MayTouch(q, FALSE)' <=> MayTouch(q, FALSE)
  BY <1>1, <1>4, SameWorld
<1>6. Looking'
  BY <1>1 DEF Looking
<1>7. table = << >> /\ table' = << >> /\ table \in Seq(Addresses)
  BY <1>1 DEF TableInv, TableSoFar
<1>8. PageOf(Example) \in Int
  BY PageFacts DEF Addresses
<1>9. CASE end' = end + PageSize /\ phase' = "up"
  <2>1. Around'
    <3>1. start' <= PageOf(Example) /\ PageOf(Example) <= end'
      BY <1>1, <1>2, <1>8, <1>9 DEF TableInv, Around
    <3> QED
      BY <1>5, <3>1, Zenon DEF TableInv, Around
  <2>2. ~Searched'
    BY <1>9 DEF Searched
  <2>3. Bounded'
    BY <1>1, <1>4, <1>5, <2>2 DEF TableInv, Bounded
  <2>4. TableSoFar'
    BY <1>7, <2>2 DEF TableSoFar
  <2> QED
    BY <1>6, <2>1, <2>3, <2>4 DEF TableInv
<1>10. CASE Reply(FALSE) /\ phase' = "search" /\ tag' = start - 1 /\ UNCHANGED end
  <2>1. Around'
    BY <1>1, <1>5, <1>10 DEF TableInv, Around
  <2>2. ~refused => Closed
    <3>1. ~refused => ~MayTouch(end, FALSE)
      BY <1>2, <1>10, Answers
    <3>2. ~refused => ~MayTouch(start - 1, FALSE)
      BY <1>1 DEF TableInv, Bounded
    <3> QED
      BY <3>1, <3>2 DEF Closed
  <2>3. Bounded'
    BY <1>1, <1>4, <1>5, <1>10, <2>2 DEF Bounded, Closed
  <2>4. ASSUME ~refused
        PROVE  Below(start) = {}
    <3>1. \A a \in Records : a \in Int /\ start <= a
      BY <2>2, <2>4, RecordInRange DEF ScanInv, TableInv
    <3> QED
      BY <1>2, <3>1 DEF Below
  <2>5. TableSoFar'
    <3>1. Searched' /\ Seen' = start
      <4>1. tag' + 1 = start
        BY <1>2, <1>10
      <4> QED
        BY <1>10, <4>1 DEF Searched, Seen
    <3>2. ~refused' => Lists(table', Below(start))
      BY <1>4, <1>7, <2>4, ListsNothing
    <3> QED
      BY <1>1, <1>4, <1>7, <3>1, <3>2, TableNext
  <2> QED
    BY <1>6, <2>1, <2>3, <2>5 DEF TableInv
<1> QED
  BY <1>1, <1>9, <1>10 DEF WidenUp

\* While records are looked for, what is known of the range says where they lie.
LEMMA SearchedRange ==
  ASSUME ScanInv, TableInv, Searched, ~refused
  PROVE  \A a \in Records : a \in Int /\ start <= a /\ a + 4 <= end /\ image[a] = Magic
<1>1. RangeRead /\ Around /\ Closed
  BY DEF ScanInv, TableInv, Bounded, Closed
<1> QED
  BY <1>1, RecordInRange

\* The scan goes on behind a hit that is no record.
LEMMA TableSkips ==
  ASSUME ScanInv, TableInv, UNCHANGED <<memory, image, start, end, tag, table, lost>>,
         phase \in {"copy", "name", "value"}, phase' = "search",
         refused' = refused, ~refused => tag \notin Records
  PROVE  TableInv'
<1>1. Searched /\ Seen = tag /\ tag \in Int /\ table \in Seq(Addresses)
  BY DEF Searched, Seen, ScanInv, ScanTypes, TableInv, TableSoFar
<1>2. Around' /\ Bounded'
  BY <1>1, RangeStays
<1>3. Looking'
  BY DEF Looking
<1>4. Searched' /\ Seen' = tag + 1
  BY DEF Searched, Seen
<1>5. ASSUME ~refused
      PROVE  Below(tag + 1) = Below(tag)
  <2>1. \A a \in Records : a \in Int /\ a # tag
    BY <1>5 DEF Records, Addresses
  <2>2. \A a \in Records : a < tag + 1 => a < tag
    BY <1>1, <2>1
  <2> QED
    BY <1>1, <2>2, ListsOn
<1>6. ~refused' /\ ~lost' => Lists(table', Below(tag + 1))
  BY <1>1, <1>5 DEF TableInv, TableSoFar
<1>7. TableSoFar'
  BY <1>1, <1>4, <1>6, TableNext
<1> QED
  BY <1>2, <1>3, <1>7 DEF TableInv

LEMMA SearchKeepsTable ==
  ASSUME ScanInv, TableInv, Search
  PROVE  TableInv'
<1>1. /\ phase = "search" /\ UNCHANGED <<memory, refused, image, start, end, table, lost>>
      /\ \/ Hits(tag) = {} /\ phase' = "end"
         \/ \E a \in Hits(tag) :
              /\ \A b \in Hits(tag) : a <= b
              /\ tag' = a
              /\ phase' = IF Fits(a) THEN "copy" ELSE "search"
  BY DEF Search, rangeVars, vars
<1>2. /\ Searched /\ Seen = tag + 1 /\ tag \in Int /\ table \in Seq(Addresses)
      /\ start - 1 <= tag /\ start \in Nat /\ end \in Nat /\ end <= Limit
  BY <1>1 DEF Searched, Seen, ScanInv, ScanTypes, TagInRange, RangeRead, TableInv, TableSoFar
<1>3. Around' /\ Bounded'
  BY <1>1, <1>2, RangeStays
<1>4. Looking' /\ Searched'
  BY <1>1 DEF Looking, Searched, Fits
<1>5. ASSUME ~refused, NEW a \in Records, tag < a
      PROVE  a \in Hits(tag) /\ a + 4 <= end
  <2>1. a \in Int /\ start <= a /\ a + 4 <= end /\ image[a] = Magic
    BY <1>2, <1>5, SearchedRange
  <2>2. a \in tag + 1 .. end - 1
    BY <1>2, <1>5, <2>1
  <2> QED
    BY <2>1, <2>2 DEF Hits
<1>6. \A a \in Records : a \in Int /\ a < Limit
  BY DEF Records, Addresses
<1>7. ~refused /\ ~lost => Lists(table, Below(tag + 1))
  BY <1>2 DEF TableInv, TableSoFar
<1>8. CASE Hits(tag) = {} /\ phase' = "end"
  <2>1. Seen' = Limit
    BY <1>8 DEF Seen
  <2>2. ~refused => \A a \in Records : a < tag + 1
    BY <1>2, <1>5, <1>6, <1>8
  <2>3. ~refused => Below(Limit) = Below(tag + 1)
    BY <1>6, <2>2 DEF Below
  <2>4. ~refused' /\ ~lost' => Lists(table', Below(Limit))
    BY <1>1, <1>7, <2>3
  <2>5. TableSoFar'
    BY <1>1, <1>2, <1>4, <2>1, <2>4, TableNext
  <2> QED
    BY <1>3, <1>4, <2>5 DEF TableInv
<1>9. ASSUME NEW a \in Hits(tag), \A b \in Hits(tag) : a <= b, tag' = a,
             phase' = IF Fits(a) THEN "copy" ELSE "search"
      PROVE  TableInv'
  <2>1. a \in Int /\ tag + 1 <= a
    BY <1>2 DEF Hits
  <2>2. ~refused => \A b \in Records : b < a => b < tag + 1
    BY <1>2, <1>5, <1>6, <1>9, <2>1
  <2>3. ~refused => Below(a) = Below(tag + 1)
    BY <1>2, <2>1, <2>2, ListsOn
  <2>4. ~refused /\ ~lost => Lists(table, Below(a))
    BY <1>7, <2>3
  <2>5. CASE Fits(a)
    <3>1. Seen' = a
      BY <1>9, <2>5 DEF Seen
    <3>2. TableSoFar'
      BY <1>1, <1>2, <1>4, <2>4, <3>1, TableNext
    <3> QED
      BY <1>3, <1>4, <3>2 DEF TableInv
  <2>6. CASE ~Fits(a)
    <3>1. Seen' = a + 1
      BY <1>9, <2>6 DEF Seen
    <3>2. ~refused => \A b \in Records : b < a + 1 => b < a
      <4>1. ~refused => a \notin Records
        BY <1>2, <1>5, <2>1, <2>6 DEF Fits
      <4> QED
        BY <1>6, <2>1, <4>1
    <3>3. ~refused => Below(a + 1) = Below(a)
      BY <2>1, <3>2, ListsOn
    <3>4. TableSoFar'
      BY <1>1, <1>2, <1>4, <2>4, <3>1, <3>3, TableNext
    <3> QED
      BY <1>3, <1>4, <3>4 DEF TableInv
  <2> QED
    BY <2>5, <2>6
<1> QED
  BY <1>1, <1>8, <1>9

LEMMA CopyKeepsTable ==
  ASSUME ScanInv, TableInv, Copy
  PROVE  TableInv'
<1>1. phase = "copy" /\ UNCHANGED <<memory, refused, image, start, end, tag, table, lost>>
  BY DEF Copy, rangeVars, vars
<1>2. Searched /\ Seen = tag /\ tag \in Int /\ table \in Seq(Addresses) /\ tag + 3 \in Addresses
  <2>1. /\ start <= tag /\ tag + 4 <= end /\ start \in Nat /\ end \in Nat /\ end <= Limit
        /\ tag \in Int
    BY <1>1 DEF ScanInv, ScanTypes, TagInRange, RangeRead
  <2>2. tag + 3 \in Addresses
    BY <2>1 DEF Addresses
  <2>3. Searched /\ Seen = tag
    BY <1>1 DEF Searched, Seen
  <2>4. table \in Seq(Addresses)
    BY DEF TableInv, TableSoFar
  <2> QED
    BY <2>1, <2>2, <2>3, <2>4
<1>3. CASE image[tag] = Magic /\ image[tag + 1] = tag /\ phase' = "name" /\ char' = image[tag + 3]
  <2>1. Around' /\ Bounded'
    BY <1>1, <1>2, RangeStays
  <2>2. Looking'
    <3> DEFINE p == image[tag + 3]
    <3>1. p \in Int
      BY <1>2 DEF ScanInv, ScanTypes, Addresses
    <3> HIDE DEF p
    <3>2. p <= p /\ p .. p - 1 = {}
      BY <3>1
    <3>3. p' = p /\ char' = p
      BY <1>1, <1>3 DEF p
    <3>4. /\ phase' = "name" /\ image' = image /\ tag' = tag
          /\ image[tag] = Magic /\ image[tag + 1] = tag
      BY <1>1, <1>3
    <3>5. image'[tag' + 3] = p
      BY <1>1 DEF p
    <3> QED
      BY <3>2, <3>3, <3>4, <3>5 DEF Looking
  <2>3. Searched' /\ Seen' = tag
    BY <1>1, <1>3 DEF Searched, Seen
  <2>4. TableSoFar'
    BY <1>1, <1>2, <2>3, TableNext DEF TableInv, TableSoFar
  <2> QED
    BY <2>1, <2>2, <2>4 DEF TableInv
<1>4. CASE (image[tag] # Magic \/ image[tag + 1] # tag) /\ phase' = "search"
  <2>1. tag \notin Records
    BY <1>4 DEF Records, IsRecord
  <2> QED
    BY <1>1, <1>4, <2>1, TableSkips
<1> QED
  BY <1>3, <1>4 DEF Copy

LEMMA ReadNameKeepsTable ==
  ASSUME ScanInv, TableInv, ReadName
  PROVE  TableInv'
<1> DEFINE p == image[tag + 3]
<1>1. phase = "name" /\ UNCHANGED <<image, start, end, tag, table, lost>>
  BY DEF ReadName, rangeVars
<1>2. /\ Searched /\ Seen = tag /\ tag \in Int /\ table \in Seq(Addresses)
      /\ p \in Nat /\ char \in Nat /\ char \in Addresses /\ Pointer = char
  <2>1. /\ start <= tag /\ tag + 4 <= end /\ start \in Nat /\ end \in Nat /\ end <= Limit
        /\ tag \in Int
    BY <1>1 DEF ScanInv, ScanTypes, TagInRange, RangeRead
  <2>2. tag + 3 \in Addresses
    BY <2>1 DEF Addresses
  <2>3. p \in Nat /\ char \in Nat /\ char \in Addresses
    BY <2>2 DEF ScanInv, ScanTypes, Addresses
  <2> HIDE DEF p
  <2> QED
    BY <1>1, <2>1, <2>3 DEF Searched, Seen, TableInv, TableSoFar, Pointer
<1>3. /\ image[tag] = Magic /\ image[tag + 1] = tag
      /\ p <= char
      /\ \A c \in p .. char - 1 : MayTouch(c, FALSE) /\ image[c] # 0
  BY <1>1 DEF TableInv, Looking
<1>4. PICK ok \in BOOLEAN : Reply(ok)
  BY DEF ReadName
<1>5. UNCHANGED <<memory, refused>>
  BY <1>4, Answers
<1>6. /\ \A q : MayTouch(q, FALSE)' <=> MayTouch(q, FALSE)
      /\ Records' = Records
  BY <1>1, <1>5, SameWorld
<1>7. Around' /\ Bounded'
  BY <1>1, <1>2, <1>5, RangeStays
<1>8. image'[tag' + 3] = p /\ image'[tag'] = Magic /\ image'[tag' + 1] = tag'
  BY <1>1, <1>3
<1>9. tag \in Records => Named(p)
  BY DEF Records, IsRecord
<1> HIDE DEF p
\* The table, when the record is still looked at.
<1>10. ASSUME phase' \in {"name", "value"}
       PROVE  TableSoFar'
  <2>1. Searched' /\ Seen' = tag
    BY <1>1, <1>10 DEF Searched, Seen
  <2> QED
    BY <1>1, <1>2, <1>5, <2>1, TableNext DEF TableInv, TableSoFar
<1>11. CASE Reply(TRUE) /\ image[char] # 0 /\ char' = char + 1 /\ UNCHANGED phase
  <2>1. MayTouch(char, FALSE)
    BY <1>2, <1>11, Answers
  <2>2. p <= char + 1 /\ \A c \in p .. char : MayTouch(c, FALSE) /\ image[c] # 0
    <3>1. \A c \in p .. char : c \in p .. char - 1 \/ c = char
      BY <1>2
    <3>2. p <= char
      BY <1>3
    <3>3. p <= char + 1
      BY <1>2, <3>2
    <3> QED
      BY <1>3, <1>11, <2>1, <3>1, <3>3
  <2>3. phase' = "name" /\ char' - 1 = char /\ char' = char + 1
    BY <1>1, <1>2, <1>11
  <2>4. \A c \in p .. char : MayTouch(c, FALSE)' /\ image'[c] # 0
    BY <1>1, <1>6, <2>2
  <2>5. Looking'
    BY <1>8, <2>2, <2>3, <2>4 DEF Looking
  <2> QED
    BY <1>7, <1>10, <2>3, <2>5 DEF TableInv
<1>12. CASE /\ Reply(TRUE) /\ image[char] = 0
            /\ phase' = IF Text(p, char) = Name THEN "value" ELSE "search"
  <2>1. Named(p) <=> Text(p, char) = Name
    <3>1. MayTouch(char, FALSE)
      BY <1>2, <1>12, Answers
    <3>2. \A c \in p .. char : c \in p .. char - 1 \/ c = char
      BY <1>2
    <3>3. \A c \in p .. char : MayTouch(c, FALSE)
      BY <1>3, <3>1, <3>2
    <3> QED
      BY <1>2, <1>3, <1>12, <3>3, NamedExact
  <2>2. CASE Text(p, char) = Name
    <3>1. phase' = "value"
      BY <1>12, <2>2
    <3>2. Named(image[tag + 3])'
      BY <1>1, <1>5, <2>1, <2>2 DEF Named, Text, MayTouch, p
    <3>3. Looking'
      BY <1>8, <3>1, <3>2 DEF Looking
    <3> QED
      BY <1>7, <1>10, <3>1, <3>3 DEF TableInv
  <2>3. CASE Text(p, char) # Name
    BY <1>1, <1>5, <1>9, <1>12, <2>1, <2>3, TableSkips
  <2> QED
    BY <2>2, <2>3
<1>13. CASE Reply(FALSE) /\ phase' = "search"
  <2>1. ~refused => ~MayTouch(char, FALSE)
    BY <1>2, <1>13, Answers
  <2>2. ~refused => ~Named(p)
    BY <1>2, <1>3, <2>1, NotNamed
  <2> QED
    BY <1>1, <1>5, <1>9, <1>13, <2>2, TableSkips
<1>14. \/ Reply(TRUE) /\ image[char] # 0 /\ char' = char + 1 /\ UNCHANGED phase
       \/ /\ Reply(TRUE) /\ image[char] = 0
          /\ phase' = IF Text(p, char) = Name THEN "value" ELSE "search"
       \/ Reply(FALSE) /\ phase' = "search"
  BY DEF ReadName, p
<1> QED
  BY <1>11, <1>12, <1>13, <1>14

LEMMA AddModuleKeepsTable ==
  ASSUME ScanInv, TableInv, AddModule
  PROVE  TableInv'
<1>1. phase = "value" /\ UNCHANGED <<image, start, end, tag>>
  BY DEF AddModule, rangeVars
<1>2. /\ Searched /\ Seen = tag /\ tag \in Int /\ table \in Seq(Addresses)
      /\ image[tag + 2] \in Addresses /\ Pointer = image[tag + 2]
      /\ start <= tag /\ tag + 4 <= end /\ start \in Nat /\ end \in Nat /\ end <= Limit
  <2>1. /\ start <= tag /\ tag + 4 <= end /\ start \in Nat /\ end \in Nat /\ end <= Limit
        /\ tag \in Int
    BY <1>1 DEF ScanInv, ScanTypes, TagInRange, RangeRead
  <2>2. tag + 2 \in Addresses
    BY <2>1 DEF Addresses
  <2>3. image[tag + 2] \in Addresses
    BY <2>2 DEF ScanInv, ScanTypes
  <2> QED
    BY <1>1, <2>1, <2>3 DEF Searched, Seen, TableInv, TableSoFar, Pointer
<1>3. image[tag] = Magic /\ image[tag + 1] = tag /\ Named(image[tag + 3])
  BY <1>1 DEF TableInv, Looking
<1>4. PICK ok \in BOOLEAN : Reply(ok)
  BY DEF AddModule
<1>5. UNCHANGED <<memory, refused>>
  BY <1>4, Answers
<1>6. Around' /\ Bounded'
  BY <1>1, <1>2, <1>5, RangeStays
<1>7. CASE Reply(FALSE) /\ phase' = "search" /\ UNCHANGED <<table, lost>>
  <2>1. ~refused => ~MayTouch(image[tag + 2], FALSE)
    BY <1>2, <1>7, Answers
  <2>2. ~refused => tag \notin Records
    BY <2>1 DEF Records, IsRecord
  <2> QED
    BY <1>1, <1>5, <1>7, <2>2, TableSkips
<1>8. CASE /\ Reply(TRUE) /\ table' = Append(table, image[tag + 2])
           /\ phase' = "search" /\ UNCHANGED lost
  <2>1. MayTouch(image[tag + 2], FALSE)
    BY <1>2, <1>8, Answers
  <2>2. ASSUME ~refused
        PROVE  tag \in Records
    <3>1. Closed
      BY <1>2, <2>2 DEF TableInv, Bounded, Closed
    <3>2. Reach = start .. end - 1
      BY <3>1, ReachIsRange DEF ScanInv, TableInv
    <3>3. tag \in Addresses /\ {tag, tag + 1, tag + 2, tag + 3} \subseteq Reach
      BY <1>2, <3>2 DEF Addresses
    <3> QED
      BY <1>3, <2>1, <3>3 DEF Records, IsRecord
  <2>3. ~refused' /\ ~lost' => Lists(table', Below(tag + 1))
    <3>1. ~refused /\ ~lost => Lists(table, Below(tag))
      BY <1>2 DEF TableInv, TableSoFar
    <3>2. ~refused /\ ~lost => Lists(Append(table, image[tag + 2]), Below(tag + 1))
      BY <1>2, <2>2, <3>1, ListsAppend
    <3> QED
      BY <1>5, <1>8, <3>2
  <2>4. table' \in Seq(Addresses)
    BY <1>2, <1>8
  <2>5. Searched' /\ Seen' = tag + 1 /\ Looking'
    BY <1>1, <1>8 DEF Searched, Seen, Looking
  <2>6. TableSoFar'
    BY <1>1, <1>5, <2>3, <2>4, <2>5, TableNext
  <2> QED
    BY <1>6, <2>5, <2>6 DEF TableInv
<1>9. CASE table' = << >> /\ lost' = TRUE /\ phase' = "end"
  <2>1. Searched' /\ Looking'
    BY <1>9 DEF Searched, Looking
  <2>2. TableSoFar'
    BY <1>9, <2>1 DEF TableSoFar
  <2> QED
    BY <1>6, <2>1, <2>2 DEF TableInv
<1> QED
  BY <1>7, <1>8, <1>9 DEF AddModule

LEMMA EndKeepsTable ==
  ASSUME ScanInv, TableInv, End
  PROVE  TableInv'
<1>1. /\ phase = "end" /\ phase' = "done"
      /\ UNCHANGED <<memory, refused, image, start, end, tag, table, lost>>
  BY DEF End, rangeVars, BatchEnd
<1>2. Searched /\ Searched' /\ Seen = Limit /\ Seen' = Limit /\ Looking'
  BY <1>1 DEF Searched, Seen, Looking
<1>3. Around' /\ Bounded'
  BY <1>1, <1>2, RangeStays
<1>4. table' \in Seq(Addresses) /\ (~refused' /\ ~lost' => Lists(table', Below(Limit)))
  BY <1>1, <1>2 DEF TableInv, TableSoFar
<1>5. TableSoFar'
  BY <1>1, <1>2, <1>4, TableNext
<1> QED
  BY <1>2, <1>3, <1>5 DEF TableInv

LEMMA TableKept ==
  ScanInv /\ TableInv /\ [ScanNext]_allVars => TableInv'
BY BatchStepKeepsTable, BeginKeepsTable, AskPointerKeepsTable, WidenDownKeepsTable,
   WidenUpKeepsTable, SearchKeepsTable, CopyKeepsTable, ReadNameKeepsTable,
   AddModuleKeepsTable, EndKeepsTable, StutterKeepsTable DEF ScanNext

\* autodata_make_table finds what was registered: at its end the table holds the modules
\* of all the records around the example, each once and in order, and nothing else.
THEOREM TableFound == ScanSpec => []TableExact
<1>1. ScanInit => ScanInv /\ TableInv
  BY ScanBegins, TableBegins
<1>2. ScanInv /\ TableInv /\ [ScanNext]_allVars => (ScanInv /\ TableInv)'
  BY ScanKept, TableKept
<1>3. TableInv => TableExact
  <2> SUFFICES ASSUME TableInv, phase = "done", ~refused, ~lost
               PROVE  Lists(table, Records)
    BY DEF TableExact
  <2>1. Searched /\ Seen = Limit
    BY DEF Searched, Seen
  <2>2. Below(Limit) = Records
    BY DEF Below, Records, Addresses
  <2> QED
    BY <2>1, <2>2 DEF TableInv, TableSoFar
<1> QED
  BY <1>1, <1>2, <1>3, PTL DEF ScanSpec
=============================================================================
