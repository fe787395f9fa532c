----------------------------- MODULE TcpStreams -----------------------------
(***************************************************************************)
(* tcp_listener_poll against the kernel: connections that wait to be       *)
(* accepted, byte streams that recv cuts where it likes, clients that hang *)
(* up or are cut off at any moment, and descriptors that are used again.   *)
(*                                                                         *)
(* Every turn of main's loop polls once; what else the turn does is the    *)
(* subject of Worlds.  The n-th message of client c is Size[c][n] bytes,   *)
(* and a chunk that recv returns is handled when it is exactly one message. *)
(* A message is an object, as every command is: json_validate refuses half *)
(* of one and two in one.  (Half of a number standing alone it would       *)
(* accept.)  The buffer is zeroed before, so a chunk is terminated unless  *)
(* it fills the buffer: then json_validate reads on into whatever follows, *)
(* and may or may not accept.                                              *)
(***************************************************************************)
EXTENDS TcpServer, Sequences

CONSTANTS
  Clients,
  Absent,           \* no client
  Size,             \* the lengths of the messages of each client
  BufSize,          \* CONFIG_BUFSIZE
  Waiting           \* the argument of listen

ASSUME StreamsAssumption ==
  /\ Absent \notin Clients
  /\ Size \in [Clients -> Seq(Nat \ {0})]
  /\ BufSize \in Nat \ {0}
  /\ Waiting \in Nat \ {0}

VARIABLES
  pc,
  backlog,          \* connections the kernel has made and nobody accepted
  peer,             \* whose connection a descriptor is
  conn,             \* "new", "waiting", "open" or "closed", for each client
  up,               \* whether the client has not hung up
  sent,             \* messages sent
  ends,             \* bytes of the stream that can be read
  got,              \* bytes that have been read
  handed            \* messages given to client_sent and accepted as JSON

kernel == << backlog, peer, conn, up, sent, ends >>
vars == << tcpVars, pc, kernel, got, handed >>

\* The bytes of the first n messages of c.
Upto(c, n) ==
  LET sum[i \in 0 .. n] == IF i = 0 THEN 0 ELSE sum[i - 1] + Size[c][i]
  IN  sum[n]

-----------------------------------------------------------------------------
(* Clients.                                                                 *)

Connect(c) ==
  /\ conn[c] = "new"
  /\ Len(backlog) < Waiting
  /\ conn' = [conn EXCEPT ![c] = "waiting"]
  /\ up' = [up EXCEPT ![c] = TRUE]
  /\ backlog' = Append(backlog, c)
  /\ UNCHANGED << tcpVars, pc, peer, sent, ends, got, handed >>

Send(c) ==
  /\ conn[c] \in {"waiting", "open"} /\ up[c]
  /\ sent[c] < Len(Size[c])
  /\ sent' = [sent EXCEPT ![c] = @ + 1]
  /\ ends' = [ends EXCEPT ![c] = Upto(c, sent[c] + 1)]
  /\ UNCHANGED << tcpVars, pc, backlog, peer, conn, up, got, handed >>

\* The client closes, and what it sent can still be read; or it is cut off, and what
\* was not read is lost.
HangUp(c) ==
  /\ conn[c] \in {"waiting", "open"} /\ up[c]
  /\ up' = [up EXCEPT ![c] = FALSE]
  /\ ends' \in {ends, [ends EXCEPT ![c] = got[c]]}
  /\ UNCHANGED << tcpVars, pc, backlog, peer, conn, sent, got, handed >>

\* The client is ready to connect once more.
Renew(c) ==
  /\ conn[c] = "closed"
  /\ conn' = [conn EXCEPT ![c] = "new"]
  /\ sent' = [sent EXCEPT ![c] = 0]
  /\ ends' = [ends EXCEPT ![c] = 0]
  /\ got' = [got EXCEPT ![c] = 0]
  /\ handed' = [handed EXCEPT ![c] = << >>]
  /\ UNCHANGED << tcpVars, pc, backlog, peer, up >>

-----------------------------------------------------------------------------
(* The server.                                                              *)

\* A connection waits: it is accepted, and the poll returns.
PollAccept(fd) ==
  /\ pc = "poll" /\ backlog # << >>
  /\ TcpEnter(fd)
  /\ peer' = [peer EXCEPT ![fd] = Head(backlog)]
  /\ conn' = [conn EXCEPT ![Head(backlog)] = "open"]
  /\ backlog' = Tail(backlog)
  /\ UNCHANGED << pc, up, sent, ends, got, handed >>

\* No descriptor is left for it: accept fails, and the poll returns.
PollAcceptFails ==
  /\ pc = "poll" /\ backlog # << >>
  /\ ClientFds \subseteq master
  /\ UNCHANGED vars

\* What select finds readable: there is something to read, or the end.
ReadyFds == { fd \in master \ {Sock} : LET c == peer[fd] IN ends[c] > got[c] \/ ~up[c] }

PollClients ==
  /\ pc = "poll" /\ backlog = << >>
  /\ TcpSelect(ReadyFds)
  /\ pc' = "scan"
  /\ UNCHANGED << kernel, got, handed >>

\* The messages of c that any of the k bytes is of, whole or not.
ChunkTouches(c, k) ==
  { n \in 1 .. Len(Size[c]) : Upto(c, n - 1) < got[c] + k /\ Upto(c, n) > got[c] }

\* The message of c that the next k bytes are.
Chunk(c, k) ==
  { n \in 1 .. Len(Size[c]) : Upto(c, n - 1) = got[c] /\ Upto(c, n) = got[c] + k }

Receive(k) ==
  /\ pc = "scan" /\ Scanning /\ Readable
  /\ LET c == peer[at]
         whole == Chunk(c, k)
     IN  /\ got[c] + k <= ends[c]
         /\ got' = [got EXCEPT ![c] = @ + k]
         /\ \/ \E n \in whole : handed' = [handed EXCEPT ![c] = Append(@, n)]
            \/ (whole = {} \/ k = BufSize) /\ UNCHANGED handed
  /\ TcpAdvance
  /\ UNCHANGED << pc, kernel >>

\* recv returns 0 or -1.
Disconnect ==
  /\ pc = "scan" /\ Scanning /\ Readable
  /\ LET c == peer[at]
     IN  /\ got[c] = ends[c] /\ ~up[c]
         /\ conn' = [conn EXCEPT ![c] = "closed"]
  /\ peer' = [peer EXCEPT ![at] = Absent]
  /\ TcpDrop
  /\ UNCHANGED << pc, backlog, up, sent, ends, got, handed >>

Skip ==
  /\ pc = "scan" /\ Scanning /\ ~Readable
  /\ TcpAdvance
  /\ UNCHANGED << pc, kernel, got, handed >>

PollReturn ==
  /\ pc = "scan" /\ ~Scanning
  /\ TcpReturn
  /\ pc' = "poll"
  /\ UNCHANGED << kernel, got, handed >>

-----------------------------------------------------------------------------
Init ==
  /\ TcpInit
  /\ pc = "poll"
  /\ backlog = << >>
  /\ peer = [fd \in ClientFds |-> Absent]
  /\ conn = [c \in Clients |-> "new"]
  /\ up = [c \in Clients |-> FALSE]
  /\ sent = [c \in Clients |-> 0]
  /\ ends = [c \in Clients |-> 0]
  /\ got = [c \in Clients |-> 0]
  /\ handed = [c \in Clients |-> << >>]

ClientStep == \E c \in Clients : Connect(c) \/ Send(c) \/ HangUp(c) \/ Renew(c)

ServerStep ==
  \/ \E fd \in ClientFds : PollAccept(fd)
  \/ PollAcceptFails
  \/ PollClients
  \/ \E k \in 1 .. BufSize : Receive(k)
  \/ Disconnect
  \/ Skip
  \/ PollReturn

Next == ClientStep \/ ServerStep

\* The server's thread runs on; a client does what it likes.
Spec == Init /\ [][Next]_vars /\ WF_vars(ServerStep)

-----------------------------------------------------------------------------
(* Properties.                                                              *)

\* The descriptors are blocking: recv is called only where there is something to read
\* or the end, or one silent client would stop the server for everybody.
NeverBlocks ==
  pc = "scan" /\ Scanning /\ Readable =>
    LET c == peer[at] IN c \in Clients /\ (ends[c] > got[c] \/ ~up[c])

\* Each client has a lossy link of its own, whichever descriptors it gets and whoever
\* had them before.
Link == INSTANCE LossyLinks WITH open <- { c \in Clients : conn[c] = "open" }

ImplementsLinks == Link!Spec

\* As long as polls without a new connection keep coming, everything that a connected
\* client sends is read, and its end is noticed.  A poll that accepts serves nobody:
\* without the premise new connections could starve the old ones, and one that
\* waits when no descriptor is left does so for ever, as no end is noticed then.
Served ==
  []<><< PollClients >>_vars =>
    \A c \in Clients :
      /\ conn[c] = "open" /\ got[c] < ends[c] ~> conn[c] # "open" \/ got[c] = ends[c]
      /\ conn[c] = "open" /\ ~up[c] ~> conn[c] # "open"
=============================================================================
