---------------------- MODULE PlayerSessionsRefinement ----------------------
(***************************************************************************)
(* The server implements PlayerSessions as long as its dispatcher keeps    *)
(* up: the sessions are read off the registered entities and the command   *)
(* queue.                                                                  *)
(***************************************************************************)
EXTENDS Worlds

CONSTANTS Absent, OffMap

ASSUME SessionsAssumption ==
  Absent # OffMap /\ Absent \notin Int \X Int /\ OffMap \notin Int \X Int

\* The places the bounds test lets through.
Places == (0 .. XLen) \X (0 .. XLen)

WhereIs(client) ==
  IF EntitiesOf(client) = {} THEN Absent
  ELSE LET a == CHOOSE b \in EntitiesOf(client) : TRUE
       IN  IF ent[a].onMap THEN <<ent[a].x, ent[a].y>> ELSE OffMap

AskedBy(client) ==
  { p \in Places :
      \E k \in 1 .. Len(queue) :
        /\ queue[k].entity \in EntitiesOf(client)
        /\ p = <<queue[k].x, queue[k].y>> }

Where == [c \in ClientFds |-> WhereIs(c)]
Asked == [c \in ClientFds |-> AskedBy(c)]

Sessions == INSTANCE PlayerSessions WITH
  Clients <- ClientFds, where <- Where, asked <- Asked

\* Whatever the server does to its blocks, lists and queue, a client is placed
\* only where it asked in this session, only once, and has no unanswered
\* request left when it disconnects.  This holds of the turns of the loop that
\* begin with an empty queue, however many clients overload the dispatcher in
\* others: a backlog that has been worked off leaves nothing behind.
ImplementsSessions ==
  Sessions!Init /\ [][carried \/ Sessions!Next]_<<Where, Asked>>

\* A client that has asked for a place is put on the map, or hangs up, however
\* many others keep sending and however far the queue is behind: commands are
\* run in the order they came.
RequestsAnswered ==
  \A c \in ClientFds : AskedBy(c) # {} ~> WhereIs(c) # OffMap \/ Stopped
=============================================================================
