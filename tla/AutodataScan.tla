---------------------------- MODULE AutodataScan ----------------------------
(***************************************************************************)
(* autodata_make_table: the start-up code finds the modules by looking     *)
(* through the memory around a variable of its own for the records that    *)
(* MODULE_REGISTER left there.  It asks PtrValid, in one batch, before it  *)
(* follows a pointer.                                                      *)
(*                                                                         *)
(* An address is a word; a character takes one, like a pointer.  A record  *)
(* is four: the magic number, its own address, the module and the name.    *)
(***************************************************************************)
EXTENDS PtrValid, Sequences

CONSTANTS
  Layouts,      \* the mappings a process may have
  Images,       \* what its words may hold
  Example,      \* the address of autodata_<name>_ex
  Name,         \* the name looked for, a sequence of characters
  Magic,        \* AUTODATA_MAGIC
  Lookalikes,   \* words that begin with the same byte
  AllocMayFail  \* whether realloc may fail

\* The first page and the last are never mapped.  The name is a string of C.
ASSUME ScanAssumption ==
  /\ Layouts \subseteq Memories
  /\ \A ms \in Layouts :
       /\ \A m \in ms : m.start >= PageSize /\ m.end <= Limit - PageSize
       /\ \E m \in ms : m.start <= Example /\ Example < m.end
  /\ Images \subseteq [Addresses -> Addresses]
  /\ Example \in Addresses
  /\ Name \in Seq(Addresses \ {0})
  /\ 1 \in Alignments /\ MaxSize >= 1
  /\ AllocMayFail \in BOOLEAN

VARIABLES
  image,        \* the words of the process
  phase,        \* the loop or the test the scan is in
  waits,        \* whether it waits for, or has not yet looked at, an answer
  start, end,   \* the range searched
  tag,          \* the latest hit of memchr
  char,         \* p of ptr_valid_batch_string
  table,        \* the modules found
  lost          \* whether realloc has failed

rangeVars == << start, end >>
scanVars  == << image, phase, waits, start, end, tag, char, table, lost >>
allVars   == << vars, scanVars >>

ScanInit ==
  /\ memory \in Layouts
  /\ BatchInit
  /\ image \in Images
  /\ phase = "start" /\ waits = FALSE
  /\ start = PageOf(Example) /\ end = PageOf(Example)
  /\ tag = 0 /\ char = 0
  /\ table = << >> /\ lost = FALSE
-----------------------------------------------------------------------------
Begin ==
  /\ phase = "start"
  /\ BatchStart
  /\ phase' = "down"
  /\ UNCHANGED << image, waits, rangeVars, tag, char, table, lost >>

\* The pointer each place asks about.
Pointer ==
  CASE phase = "down"  -> start - PageSize
    [] phase = "up"    -> end
    [] phase = "name"  -> char
    [] phase = "value" -> image[tag + 2]

AskPointer ==
  /\ phase \in {"down", "up", "name", "value"} /\ ~waits
  /\ LET k == [p |-> Pointer, align |-> 1, size |-> 1, write |-> FALSE]
     IN  AskKnown(k) \/ AskMaps(k) \/ AskChild(k)
  /\ waits' = TRUE
  /\ UNCHANGED << image, phase, rangeVars, tag, char, table, lost >>

\* The answer is there, and the scan goes on.
Reply(ok) == waits /\ pc = "ready" /\ answer = ok /\ waits' = FALSE /\ UNCHANGED vars

\* The first two loops: pages that can be read, downwards and upwards.
WidenDown ==
  /\ phase = "down"
  /\ \/ Reply(TRUE)  /\ start' = start - PageSize /\ UNCHANGED phase
     \/ Reply(FALSE) /\ phase' = "up" /\ UNCHANGED start
  /\ UNCHANGED << image, end, tag, char, table, lost >>

WidenUp ==
  /\ phase = "up"
  /\ \/ Reply(TRUE)  /\ end' = end + PageSize /\ UNCHANGED << phase, tag >>
     \/ Reply(FALSE) /\ phase' = "search" /\ tag' = start - 1 /\ UNCHANGED end
  /\ UNCHANGED << image, start, char, table, lost >>

\* The search goes on behind the whole record, true or false.
HitsBehind(t) == { a \in t + 4 .. end - 1 : image[a] \in Lookalikes \cup {Magic} }

\* Where memchr, called behind t, may stop.
Hits(t) == { a \in t + 1 .. end - 1 : image[a] \in Lookalikes \cup {Magic} }

\* A record that lacks a word.
FitsAlmost(a) == a + 3 <= end

\* The four words lie in the range.
Fits(a) == a + 4 <= end

Search ==
  /\ phase = "search"
  /\ LET hits == Hits(tag)
     IN  \/ /\ hits = {}
            /\ phase' = "end" /\ UNCHANGED tag
         \/ \E a \in hits :
              /\ \A b \in hits : a <= b
              /\ tag' = a
              /\ phase' = IF Fits(a) THEN "copy" ELSE "search"
  /\ UNCHANGED << vars, image, waits, rangeVars, char, table, lost >>

\* memcpy, and the test for a false match.
Copy ==
  /\ phase = "copy"
  /\ \/ /\ image[tag] = Magic /\ image[tag + 1] = tag
        /\ phase' = "name" /\ char' = image[tag + 3]
     \/ /\ image[tag] # Magic \/ image[tag + 1] # tag
        /\ phase' = "search" /\ UNCHANGED char
  /\ UNCHANGED << vars, image, waits, rangeVars, tag, table, lost >>

\* The characters from a up to b - 1.
Text(a, b) == [i \in 1 .. b - a |-> image[a + i - 1]]

\* One turn of ptr_valid_batch_string; strcmp when the string has ended.
ReadName ==
  /\ phase = "name"
  /\ \/ /\ Reply(TRUE) /\ image[char] # 0
        /\ char' = char + 1 /\ UNCHANGED phase
     \/ /\ Reply(TRUE) /\ image[char] = 0
        /\ phase' = IF Text(image[tag + 3], char) = Name THEN "value" ELSE "search"
        /\ UNCHANGED char
     \/ /\ Reply(FALSE)
        /\ phase' = "search" /\ UNCHANGED char
  /\ UNCHANGED << image, rangeVars, tag, table, lost >>

AddModule ==
  /\ phase = "value"
  /\ \/ /\ Reply(FALSE)
        /\ phase' = "search" /\ UNCHANGED << table, lost >>
     \/ /\ Reply(TRUE)
        /\ table' = Append(table, image[tag + 2])
        /\ phase' = "search" /\ UNCHANGED lost
     \/ /\ Reply(TRUE) /\ AllocMayFail
        /\ table' = << >> /\ lost' = TRUE
        /\ phase' = "end"
  /\ UNCHANGED << image, rangeVars, tag, char >>

End ==
  /\ phase = "end"
  /\ BatchEnd /\ pc' = "done"
  /\ phase' = "done"
  /\ UNCHANGED << image, waits, rangeVars, tag, char, table, lost >>

ScanNext ==
  \/ Begin \/ AskPointer \/ WidenDown \/ WidenUp
  \/ Search \/ Copy \/ ReadName \/ AddModule \/ End
  \/ (RunChild \/ ReadReply \/ ReadEnd) /\ UNCHANGED scanVars
  \/ phase = "done" /\ UNCHANGED allVars

ScanSpec == ScanInit /\ [][ScanNext]_allVars
-----------------------------------------------------------------------------
(***************************************************************************)
(* Properties.                                                             *)
(***************************************************************************)
\* What the next step loads: memchr the rest of the range, memcpy four words,
\* the string test one character.
Loads ==
  CASE phase = "search" -> tag + 1 .. end - 1
    [] phase = "copy"   -> tag .. tag + 3
    [] phase = "name" /\ waits /\ pc = "ready" /\ answer -> {char}
    [] OTHER -> {}

\* Whatever lies around in memory, the scan reads only what the process may read:
\* it starts up, false matches and strings without an end notwithstanding.
ReadsSafe == \A a \in Loads : MayTouch(a, FALSE)

\* The addresses that can be read without a gap from the example's page to theirs.
Reach ==
  { a \in Addresses : \A b \in (PageOf(Example) .. a) \cup (a .. PageOf(Example)) : MayTouch(b, FALSE) }

\* The name, to its end, is a string at p that can be read.
Named(p) ==
  \E b \in Addresses :
    /\ \A c \in p .. b : MayTouch(c, FALSE)
    /\ b >= p /\ image[b] = 0
    /\ Text(p, b) = Name

IsRecord(a) ==
  /\ {a, a + 1, a + 2, a + 3} \subseteq Reach
  /\ image[a] = Magic /\ image[a + 1] = a
  /\ MayTouch(image[a + 2], FALSE)
  /\ Named(image[a + 3])

Records == { a \in Addresses : IsRecord(a) }

\* tbl lists the modules of the records in the order of their addresses.
Lists(tbl, records) ==
  /\ Len(tbl) = Cardinality(records)
  /\ \A a \in records : tbl[Cardinality({ b \in records : b <= a })] = image[a + 2]

\* The table holds each module that was registered under the name, once and in the
\* order of the addresses, and nothing else; unless the child could not be made
\* or realloc failed.
TableExact == phase = "done" /\ ~refused /\ ~lost => Lists(table, Records)
=============================================================================
