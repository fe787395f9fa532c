------------------------------ MODULE PtrValid ------------------------------
(***************************************************************************)
(* ptr_valid.c: may this range of memory be read, or written?  A batch     *)
(* answers from /proc/self/maps, or from a child process that touches the  *)
(* range and dies of it, and caches the latest page it was asked about.    *)
(* autodata.c asks it when it looks for the tables of modules.             *)
(***************************************************************************)
EXTENDS Integers, FiniteSets

CONSTANTS
  PageSize,
  Limit,        \* the addresses are 0 .. Limit - 1, a number of pages
  MaxSize,      \* model bound on the size of a range
  Alignments,   \* the alignments asked for: powers of two
  SpawnMayFail  \* whether pipe and fork may fail

ASSUME PtrValidAssumption ==
  /\ PageSize \in Nat \ {0} /\ Limit \in Nat /\ Limit % PageSize = 0
  /\ MaxSize \in Nat
  /\ Alignments \subseteq Nat \ {0}
  /\ SpawnMayFail \in BOOLEAN

VARIABLES
  memory,       \* the readable mappings of the process
  maps,         \* batch->maps, {} when num_maps is 0
  last,         \* batch->last, the start of a page
  lastOk,       \* batch->last_ok
  child,        \* the child: "none", "alive" or "dead" (not yet waited for)
  request,      \* the question in the pipe to the child, or Nothing
  reply,        \* whether a byte is in the pipe from the child
  pc,           \* "idle", "ready", "reading" (from the child) or "done"
  asked,        \* the latest question
  answer,       \* what ptr_valid_batch returned to it
  mixed,        \* history: the batch was asked both about reads and writes
  refused       \* history: in this batch the child could not be made

batchVars == <<maps, last, lastOk>>
childVars == <<child, request, reply>>
vars == <<memory, maps, last, lastOk, child, request, reply, pc, asked, answer,
          mixed, refused>>

Addresses == 0 .. Limit - 1
Mapping   == [start : Addresses, end : 1 .. Limit, write : BOOLEAN]
Question  == [p : Addresses, align : Alignments, size : 1 .. MaxSize, write : BOOLEAN]
Nothing   == [p |-> 0, align |-> 1, size |-> 0, write |-> FALSE]

\* Mappings are whole pages and do not overlap.  Neighbours may have the same
\* permissions.
Memories ==
  { ms \in SUBSET { m \in Mapping : /\ m.start < m.end
                                    /\ m.start % PageSize = 0
                                    /\ m.end % PageSize = 0 } :
      \A a, b \in ms : a # b => a.end <= b.start \/ b.end <= a.start }

\* What the processor lets the process do to a single byte.
MayTouch(q, write) == \E m \in memory : m.start <= q /\ q < m.end /\ (write => m.write)

\* The answer the header promises.
Allowed(k) ==
  /\ k.p % k.align = 0
  /\ \A q \in k.p .. k.p + k.size - 1 : MayTouch(q, k.write)

\* No batch has begun.
BatchInit ==
  /\ maps = {} /\ last = 0 /\ lastOk = FALSE
  /\ child = "none" /\ request = Nothing /\ reply = FALSE
  /\ pc = "idle"
  /\ asked = Nothing /\ answer = FALSE
  /\ mixed = FALSE /\ refused = FALSE

Init == memory \in Memories /\ BatchInit
-----------------------------------------------------------------------------
\* ptr_valid_batch_start.  get_proc_maps may fail and leave no maps.
BatchStart ==
  /\ pc = "idle"
  /\ maps' \in {memory, {}}
  /\ last' = 0
  /\ pc' = "ready"
  /\ asked' = Nothing
  /\ mixed' = FALSE /\ refused' = FALSE
  /\ UNCHANGED <<memory, lastOk, childVars, answer>>

\* check_with_maps that looks at the first mapping only.
CheckFirstMap(k) ==
  \E m \in maps : m.start <= k.p /\ k.p < m.end /\ (k.write => m.write)

\* check_with_maps, which recurses with what is left behind the mapping.
CheckWithMaps(k) ==
  LET stop == k.p + k.size
      check[q \in 0 .. Limit] ==
        \E m \in maps :
          /\ m.start <= q /\ q < m.end
          /\ stop > m.end => check[m.end]
          /\ k.write => m.write
  IN  check[k.p]

PageOf(q)  == q - (q % PageSize)
OnePage(k) == PageOf(k.p) = PageOf(k.p + k.size - 1)
Cached(k)  == OnePage(k) /\ last # 0 /\ last = PageOf(k.p)

\* The end of ptr_valid_batch: the answer is kept for the page.
Remember(k, ok) ==
  IF OnePage(k) THEN last' = PageOf(k.p) /\ lastOk' = ok
                ELSE UNCHANGED <<last, lastOk>>

Answer(ok) ==
  /\ answer' = ok
  /\ pc' = "ready"

Ask(k) ==
  /\ pc = "ready"
  /\ asked' = k
  /\ mixed' = (mixed \/ (asked # Nothing /\ asked.write # k.write))
  /\ UNCHANGED <<memory, maps>>

\* Without maps or child: the pointer is not aligned, or its page was the
\* latest one asked about.
AskKnown(k) ==
  /\ Ask(k)
  /\ \/ k.p % k.align # 0 /\ Answer(FALSE)
     \/ k.p % k.align = 0 /\ Cached(k) /\ Answer(lastOk)
  /\ UNCHANGED <<last, lastOk, childVars, refused>>

AskMaps(k) ==
  /\ Ask(k)
  /\ k.p % k.align = 0 /\ ~Cached(k) /\ maps # {}
  /\ Answer(CheckWithMaps(k))
  /\ Remember(k, CheckWithMaps(k))
  /\ UNCHANGED <<childVars, refused>>

\* check_with_child, up to the read: the child is made if there is none.
AskChild(k) ==
  /\ Ask(k)
  /\ k.p % k.align = 0 /\ ~Cached(k) /\ maps = {}
  /\ \/ /\ child' = "alive"
        /\ request' = k
        /\ pc' = "reading"
        /\ UNCHANGED <<last, lastOk, answer, refused>>
     \/ /\ SpawnMayFail /\ child = "none"
        /\ Answer(FALSE)
        /\ Remember(k, FALSE)
        /\ refused' = TRUE
        /\ UNCHANGED <<child, request>>
  /\ UNCHANGED reply

\* A child with a handler of the signal that returns: the access is tried again.
RunChildHandler ==
  /\ child = "alive" /\ request # Nothing
  /\ IF \A q \in request.p .. request.p + request.size - 1 : MayTouch(q, request.write)
     THEN reply' = TRUE /\ request' = Nothing
     ELSE UNCHANGED <<reply, request>>
  /\ UNCHANGED <<memory, batchVars, child, pc, asked, answer, mixed, refused>>

\* run_child touches every byte and answers, or is killed.
RunChild ==
  /\ child = "alive" /\ request # Nothing
  /\ request' = Nothing
  /\ IF \A q \in request.p .. request.p + request.size - 1 : MayTouch(q, request.write)
     THEN reply' = TRUE /\ UNCHANGED child
     ELSE child' = "dead" /\ UNCHANGED reply
  /\ UNCHANGED <<memory, batchVars, pc, asked, answer, mixed, refused>>

ReadReply ==
  /\ pc = "reading" /\ reply
  /\ reply' = FALSE
  /\ Answer(TRUE)
  /\ Remember(asked, TRUE)
  /\ UNCHANGED <<memory, maps, child, request, asked, mixed, refused>>

\* The read of check_with_child fails: finish_child waits for the child.
ReadEnd ==
  /\ pc = "reading" /\ child = "dead" /\ ~reply
  /\ child' = "none"
  /\ Answer(FALSE)
  /\ Remember(asked, FALSE)
  /\ UNCHANGED <<memory, maps, request, reply, asked, mixed, refused>>

\* ptr_valid_batch_end without finish_child.
BatchEndLeavesChild ==
  /\ pc = "ready"
  /\ maps' = {}
  /\ pc' \in {"idle", "done"}
  /\ UNCHANGED <<memory, last, lastOk, childVars, asked, answer, mixed, refused>>

\* ptr_valid_batch_end.  The child sees the end of its pipe and exits.
BatchEnd ==
  /\ pc = "ready"
  /\ maps' = {}
  /\ child' = "none"
  /\ pc' \in {"idle", "done"}
  /\ UNCHANGED <<memory, last, lastOk, request, reply, asked, answer, mixed, refused>>

ParentStep ==
  \/ BatchStart
  \/ \E k \in Question : AskKnown(k) \/ AskMaps(k) \/ AskChild(k)
  \/ ReadReply
  \/ ReadEnd
  \/ BatchEnd

Next == ParentStep \/ RunChild \/ (pc = "done" /\ UNCHANGED vars)

\* The operating system schedules both processes.
Spec == Init /\ [][Next]_vars /\ WF_vars(RunChild) /\ WF_vars(ReadReply \/ ReadEnd)
-----------------------------------------------------------------------------
(***************************************************************************)
(* Properties.                                                             *)
(***************************************************************************)
Answered == pc = "ready" /\ asked # Nothing

\* As long as a batch is asked about reads only, or about writes only, it
\* answers what the memory allows, from the maps, the child and the cache
\* alike (a child that cannot be made counts as a no).
AnswersExact ==
  Answered /\ ~mixed =>
    /\ answer => Allowed(asked)
    /\ ~refused => answer = Allowed(asked)

\* The header: ptr_valid_batch_write is ptr_valid_write in a batch, and says yes
\* only to what is safe to write.
WritesSafe == Answered /\ asked.write /\ answer => Allowed(asked)

\* No child outlives its batch, no answer of an earlier question is taken for
\* that of a later one.
ChildrenReaped ==
  /\ pc \in {"idle", "done"} => child = "none"
  /\ pc # "reading" => child # "dead" /\ ~reply /\ request = Nothing

\* No question waits for the child for ever.
QuestionsAnswered == pc = "reading" ~> Answered
=============================================================================
