-------------------------- MODULE TcpStreamsProofs --------------------------
(***************************************************************************)
(* tcp_listener_poll never blocks in recv, and gives every client a lossy  *)
(* link of its own: for all clients, descriptors, buffers and messages.    *)
(***************************************************************************)
EXTENDS TcpStreams, Iteration

USE TcpAssumption, StreamsAssumption DEF TcpAssumption, StreamsAssumption

-----------------------------------------------------------------------------
(***************************************************************************)
(* Where the messages of a stream end.                                     *)
(***************************************************************************)
\* f adds up the first N members of s.
AddsUp(f, N, s) == f = [i \in 0 .. N |-> IF i = 0 THEN 0 ELSE f[i - 1] + s[i]]

LEMMA SumsExist ==
  ASSUME NEW L \in Nat, NEW s \in [1 .. L -> Nat], NEW N \in 0 .. L
  PROVE  \E f \in [0 .. N -> Nat] : AddsUp(f, N, s)
<1> DEFINE reached == { n \in 0 .. L : \E f \in [0 .. n -> Nat] : AddsUp(f, n, s) }
<1>1. 0 \in reached
  <2> DEFINE f == [i \in 0 .. 0 |-> 0]
  <2>1. f \in [0 .. 0 -> Nat] /\ AddsUp(f, 0, s)
    BY DEF AddsUp
  <2> QED
    BY <2>1
<1>2. ASSUME NEW n \in 0 .. L, n \in reached, n < L
      PROVE  n + 1 \in reached
  <2>1. PICK f \in [0 .. n -> Nat] : AddsUp(f, n, s)
    BY <1>2
  <2> DEFINE g == [i \in 0 .. (n + 1) |-> IF i = n + 1 THEN f[n] + s[n + 1] ELSE f[i]]
  <2>2. g \in [0 .. (n + 1) -> Nat]
    <3>1. s[n + 1] \in Nat /\ f[n] \in Nat
      BY <1>2
    <3> QED
      BY <3>1
  <2>3. ASSUME NEW i \in 0 .. (n + 1)
        PROVE  g[i] = IF i = 0 THEN 0 ELSE g[i - 1] + s[i]
    <3>1. CASE i = n + 1
      BY <3>1
    <3>2. CASE i # n + 1
      BY <2>1, <3>2 DEF AddsUp
    <3> QED
      BY <3>1, <3>2
  <2>4. AddsUp(g, n + 1, s)
    BY <2>2, <2>3 DEF AddsUp
  <2>5. n + 1 \in 0 .. L
    BY <1>2
  <2> HIDE DEF g
  <2> QED
    BY <2>2, <2>4, <2>5
<1>3. 0 .. L \subseteq reached
  <2> HIDE DEF reached
  <2> QED
    BY <1>1, <1>2, UpTo
<1> QED
  BY <1>3

LEMMA SumsAgree ==
  ASSUME NEW s, NEW N \in Nat, NEW M \in Nat, N <= M,
         NEW f, AddsUp(f, N, s), NEW g, AddsUp(g, M, s)
  PROVE  \A n \in 0 .. N : f[n] = g[n]
<1> DEFINE same == { n \in 0 .. N : f[n] = g[n] }
<1>1. 0 \in same
  BY DEF AddsUp
<1>2. ASSUME NEW n \in 0 .. N, n \in same, n < N
      PROVE  n + 1 \in same
  <2>1. f[n + 1] = f[n] + s[n + 1] /\ g[n + 1] = g[n] + s[n + 1]
    BY <1>2 DEF AddsUp
  <2> QED
    BY <1>2, <2>1
<1>3. 0 .. N \subseteq same
  <2> HIDE DEF same
  <2> QED
    BY <1>1, <1>2, UpTo
<1> QED
  BY <1>3

\* The messages of c, one behind the other.
LEMMA UptoSums ==
  ASSUME NEW c \in Clients
  PROVE  /\ Upto(c, 0) = 0
         /\ \A n \in 0 .. Len(Size[c]) : Upto(c, n) \in Nat
         /\ \A n \in 1 .. Len(Size[c]) :
              Size[c][n] \in Nat \ {0} /\ Upto(c, n) = Upto(c, n - 1) + Size[c][n]
<1> DEFINE L == Len(Size[c])
           s == [i \in 1 .. L |-> Size[c][i]]
           F(n) == CHOOSE f : f = [i \in 0 .. n |-> IF i = 0 THEN 0 ELSE f[i - 1] + Size[c][i]]
<1>1. L \in Nat /\ s \in [1 .. L -> Nat] /\ \A n \in 1 .. L : Size[c][n] \in Nat \ {0}
  OBVIOUS
<1>2. ASSUME NEW n \in 0 .. L
      PROVE  Upto(c, n) = F(n)[n] /\ AddsUp(F(n), n, s) /\ F(n)[n] \in Nat
  <2>1. PICK f \in [0 .. n -> Nat] : AddsUp(f, n, s)
    BY <1>1, SumsExist
  <2> DEFINE turn(g) == [i \in 0 .. n |-> IF i = 0 THEN 0 ELSE g[i - 1] + Size[c][i]]
             other(g) == [i \in 0 .. n |-> IF i = 0 THEN 0 ELSE g[i - 1] + s[i]]
  <2>2. ASSUME NEW g
        PROVE  turn(g) = other(g)
    <3>1. \A i \in 0 .. n : i # 0 => s[i] = Size[c][i]
      BY <1>1
    <3> HIDE DEF s
    <3> QED
      BY <3>1
  <2>3. f = turn(f)
    BY <2>1, <2>2 DEF AddsUp
  <2>4. F(n) = [i \in 0 .. n |-> IF i = 0 THEN 0 ELSE F(n)[i - 1] + Size[c][i]]
    BY <2>3
  <2>5. AddsUp(F(n), n, s)
    <3>1. F(n) = turn(F(n))
      BY <2>4
    <3> HIDE DEF F
    <3> QED
      BY <2>2, <3>1 DEF AddsUp
  <2>6. F(n)[n] = f[n]
    <3> HIDE DEF F
    <3> QED
      BY <2>1, <2>5, SumsAgree
  <2>7. Upto(c, n) = F(n)[n]
    BY DEF Upto
  <2> QED
    BY <2>1, <2>5, <2>6, <2>7
<1> HIDE DEF F, s, L
<1>3. F(0)[0] = 0
  BY <1>1, <1>2 DEF AddsUp
<1>4. ASSUME NEW n \in 1 .. L
      PROVE  Upto(c, n) = Upto(c, n - 1) + Size[c][n]
  <2>1. n - 1 \in 0 .. L /\ n \in 0 .. L
    BY <1>1
  <2>2. F(n)[n] = F(n)[n - 1] + s[n]
    BY <1>1, <1>2, <2>1 DEF AddsUp
  <2>3. F(n)[n - 1] = F(n - 1)[n - 1]
    BY <1>1, <1>2, <2>1, SumsAgree
  <2>4. s[n] = Size[c][n]
    BY DEF s
  <2> QED
    BY <1>2, <2>1, <2>2, <2>3, <2>4
<1> QED
  BY <1>1, <1>2, <1>3, <1>4 DEF L

\* A later message ends later.
LEMMA UptoGrows ==
  ASSUME NEW c \in Clients, NEW m \in 0 .. Len(Size[c]), NEW n \in 0 .. Len(Size[c]), m < n
  PROVE  Upto(c, m) < Upto(c, n)
<1> DEFINE L == Len(Size[c])
           above == { k \in 0 .. L : m < k => Upto(c, m) < Upto(c, k) }
<1>1. L \in Nat
  OBVIOUS
<1>2. 0 \in above
  BY <1>1
<1>3. ASSUME NEW k \in 0 .. L, k \in above, k < L
      PROVE  k + 1 \in above
  <2>1. k + 1 \in 1 .. L /\ (k + 1) - 1 = k
    BY <1>1, <1>3
  <2>2. Upto(c, k) \in Nat /\ Size[c][k + 1] \in Nat \ {0}
        /\ Upto(c, k + 1) = Upto(c, k) + Size[c][k + 1]
    BY <1>3, <2>1, UptoSums
  <2>3. Upto(c, m) \in Nat /\ (m < k + 1 => m = k \/ m < k)
    BY <1>3, UptoSums
  <2> QED
    BY <1>3, <2>1, <2>2, <2>3, SMTT(60)
<1>4. 0 .. L \subseteq above
  <2> HIDE DEF above, L
  <2> QED
    BY <1>1, <1>2, <1>3, UpTo
<1> QED
  BY <1>4

-----------------------------------------------------------------------------
(***************************************************************************)
(* The invariant.                                                          *)
(***************************************************************************)
StreamTypes ==
  /\ pc \in {"poll", "scan"}
  /\ master \subseteq Sock .. LastFd /\ readFds \subseteq ClientFds /\ at \in Int /\ fdmin \in Int
  /\ backlog \in Seq(Clients)
  /\ peer \in [ClientFds -> Clients \cup {Absent}]
  /\ conn \in [Clients -> {"new", "waiting", "open", "closed"}]
  /\ up \in [Clients -> BOOLEAN]
  /\ sent \in [Clients -> Nat] /\ ends \in [Clients -> Nat] /\ got \in [Clients -> Nat]
  /\ handed \in [Clients -> Seq(Nat)]

\* A connection waits once.
Waits ==
  /\ \A i \in 1 .. Len(backlog) : conn[backlog[i]] = "waiting"
  /\ \A i, j \in 1 .. Len(backlog) : backlog[i] = backlog[j] => i = j

\* A descriptor has a connection, and a connection has one.
Peers ==
  /\ \A fd \in master \ {Sock} : peer[fd] \in Clients /\ conn[peer[fd]] = "open"
  /\ \A fd, other \in master \ {Sock} : peer[fd] = peer[other] => fd = other

\* What was handed over has been read, what has been read was there, and what
\* was there had been sent.
Streams ==
  \A c \in Clients :
    /\ sent[c] <= Len(Size[c])
    /\ got[c] <= ends[c] /\ ends[c] <= Upto(c, sent[c])
    /\ \A i \in 1 .. Len(handed[c]) :
         handed[c][i] \in 1 .. Len(Size[c]) /\ Upto(c, handed[c][i]) <= got[c]

\* Something to read, or the end.
Ready(c) == ends[c] > got[c] \/ ~up[c]

\* What select found readable stays so until the loop comes to it.
ReadyStill ==
  pc = "scan" => \A fd \in readFds \cap master : at <= fd => Ready(peer[fd])

StreamInv == StreamTypes /\ Waits /\ Peers /\ Streams /\ ReadyStill

LEMMA StreamsBegin ==
  Init => StreamInv
<1> SUFFICES ASSUME Init
             PROVE  StreamInv
  OBVIOUS
<1>1. StreamTypes
  BY DEF Init, TcpInit, StreamTypes
<1>2. Waits /\ Peers /\ ReadyStill
  BY DEF Init, TcpInit, Waits, Peers, ReadyStill
<1>3. Streams
  BY UptoSums DEF Init, Streams
<1> QED
  BY <1>1, <1>2, <1>3 DEF StreamInv

-----------------------------------------------------------------------------
(* The clients' steps.                                                      *)

LEMMA ConnectKeeps ==
  ASSUME StreamInv, NEW c \in Clients, Connect(c)
  PROVE  StreamInv'
<1>1. /\ conn[c] = "new" /\ conn' = [conn EXCEPT ![c] = "waiting"]
      /\ up' = [up EXCEPT ![c] = TRUE] /\ backlog' = Append(backlog, c)
      /\ UNCHANGED <<master, fdmin, readFds, at, pc, peer, sent, ends, got, handed>>
  BY DEF Connect, tcpVars
<1>2. StreamTypes /\ Waits /\ Peers /\ Streams /\ ReadyStill
  BY DEF StreamInv
<1>3. StreamTypes'
  BY <1>1, <1>2 DEF StreamTypes
<1>4. Waits'
  <2>1. backlog \in Seq(Clients) /\ conn \in [Clients -> {"new", "waiting", "open", "closed"}]
    BY <1>2 DEF StreamTypes
  <2>2. \A i \in 1 .. Len(backlog) : backlog[i] # c
    BY <1>1, <1>2, <2>1 DEF Waits
  <2>3. /\ Len(backlog') = Len(backlog) + 1 /\ backlog'[Len(backlog) + 1] = c
        /\ \A i \in 1 .. Len(backlog) : backlog'[i] = backlog[i] /\ backlog[i] \in Clients
    BY <1>1, <2>1
  <2> QED
    BY <1>1, <1>2, <2>1, <2>2, <2>3, SMTT(60) DEF Waits
<1>5. Peers'
  BY <1>1, <1>2 DEF Peers, StreamTypes
<1>6. Streams'
  BY <1>1, <1>2 DEF Streams
<1>7. ReadyStill'
  <2>1. ASSUME NEW fd \in readFds \cap master
        PROVE  peer[fd] \in Clients /\ peer[fd] # c
    BY <1>1, <1>2, <2>1 DEF StreamTypes, Peers, ClientFds
  <2> QED
    BY <1>1, <1>2, <2>1 DEF ReadyStill, Ready, StreamTypes
<1> QED
  BY <1>3, <1>4, <1>5, <1>6, <1>7 DEF StreamInv

LEMMA SendKeeps ==
  ASSUME StreamInv, NEW c \in Clients, Send(c)
  PROVE  StreamInv'
<1>1. /\ sent[c] < Len(Size[c]) /\ sent' = [sent EXCEPT ![c] = @ + 1]
      /\ ends' = [ends EXCEPT ![c] = Upto(c, sent[c] + 1)]
      /\ UNCHANGED <<master, fdmin, readFds, at, pc, backlog, peer, conn, up, got, handed>>
  BY DEF Send, tcpVars
<1>2. StreamTypes /\ Waits /\ Peers /\ Streams /\ ReadyStill
  BY DEF StreamInv
<1>3. /\ Upto(c, sent[c] + 1) \in Nat /\ Upto(c, sent[c]) \in Nat
      /\ Upto(c, sent[c]) < Upto(c, sent[c] + 1)
  <2>1. Len(Size[c]) \in Nat /\ sent[c] \in Nat
    BY <1>2 DEF StreamTypes
  <2>2. sent[c] \in 0 .. Len(Size[c]) /\ sent[c] + 1 \in 0 .. Len(Size[c])
    BY <1>1, <2>1
  <2> QED
    BY <2>1, <2>2, UptoSums, UptoGrows
<1>4. StreamTypes'
  <2>1. sent' \in [Clients -> Nat] /\ ends' \in [Clients -> Nat]
    BY <1>1, <1>2, <1>3 DEF StreamTypes
  <2> QED
    BY <1>1, <1>2, <2>1 DEF StreamTypes
<1>5. Waits' /\ Peers'
  BY <1>1, <1>2 DEF Waits, Peers
<1>6. ends[c] <= ends'[c] /\ \A d \in Clients : d # c => ends'[d] = ends[d] /\ sent'[d] = sent[d]
  BY <1>1, <1>2, <1>3 DEF StreamTypes, Streams
<1>7. Streams'
  <2>1. ASSUME NEW d \in Clients, d # c
        PROVE  /\ sent'[d] <= Len(Size[d])
               /\ got'[d] <= ends'[d] /\ ends'[d] <= Upto(d, sent'[d])
    BY <1>1, <1>2, <1>6, <2>1 DEF Streams
  <2>2. /\ sent'[c] <= Len(Size[c])
        /\ got'[c] <= ends'[c] /\ ends'[c] <= Upto(c, sent'[c])
    <3>1. sent'[c] = sent[c] + 1 /\ ends'[c] = Upto(c, sent[c] + 1)
      BY <1>1, <1>2 DEF StreamTypes
    <3>2. sent[c] \in Nat /\ Len(Size[c]) \in Nat /\ got[c] \in Nat /\ ends[c] \in Nat
      BY <1>2 DEF StreamTypes
    <3>3. got[c] <= ends[c]
      BY <1>2 DEF Streams
    <3> QED
      BY <1>1, <1>3, <1>6, <3>1, <3>2, <3>3
  <2>3. \A d \in Clients : \A i \in 1 .. Len(handed'[d]) :
          handed'[d][i] \in 1 .. Len(Size[d]) /\ Upto(d, handed'[d][i]) <= got'[d]
    BY <1>1, <1>2 DEF Streams
  <2> QED
    BY <2>1, <2>2, <2>3 DEF Streams
<1>8. ReadyStill'
  <2>1. ASSUME NEW fd \in readFds \cap master
        PROVE  peer[fd] \in Clients
    BY <1>2, <2>1 DEF StreamTypes, Peers, ClientFds
  <2>2. \A d \in Clients : Ready(d) => Ready(d)'
    BY <1>1, <1>2, <1>3, <1>6 DEF Ready, StreamTypes
  <2> QED
    BY <1>1, <1>2, <2>1, <2>2 DEF ReadyStill
<1> QED
  BY <1>4, <1>5, <1>7, <1>8 DEF StreamInv

LEMMA HangUpKeeps ==
  ASSUME StreamInv, NEW c \in Clients, HangUp(c)
  PROVE  StreamInv'
<1>1. /\ up' = [up EXCEPT ![c] = FALSE]
      /\ ends' = ends \/ ends' = [ends EXCEPT ![c] = got[c]]
      /\ UNCHANGED <<master, fdmin, readFds, at, pc, backlog, peer, conn, sent, got, handed>>
  BY DEF HangUp, tcpVars
<1>2. StreamTypes /\ Waits /\ Peers /\ Streams /\ ReadyStill
  BY DEF StreamInv
<1>3. StreamTypes'
  BY <1>1, <1>2 DEF StreamTypes
<1>4. Waits' /\ Peers'
  BY <1>1, <1>2 DEF Waits, Peers
<1>5. Streams'
  <2>1. ASSUME NEW d \in Clients
        PROVE  got[d] <= ends'[d] /\ ends'[d] <= ends[d] /\ (d # c => ends'[d] = ends[d])
    BY <1>1, <1>2 DEF StreamTypes, Streams
  <2>2. ASSUME NEW d \in Clients
        PROVE  ends'[d] <= Upto(d, sent[d])
    <3>1. Len(Size[d]) \in Nat /\ sent[d] \in Nat /\ sent[d] <= Len(Size[d])
          /\ ends[d] \in Nat /\ ends[d] <= Upto(d, sent[d])
      BY <1>2 DEF StreamTypes, Streams
    <3>2. Upto(d, sent[d]) \in Nat
      BY <3>1, UptoSums
    <3>3. ends'[d] \in Nat
      BY <1>3 DEF StreamTypes
    <3> QED
      BY <2>1, <3>1, <3>2, <3>3
  <2> QED
    BY <1>1, <1>2, <2>1, <2>2 DEF Streams
<1>6. ReadyStill'
  <2>1. ASSUME NEW fd \in readFds \cap master
        PROVE  peer[fd] \in Clients
    BY <1>2, <2>1 DEF StreamTypes, Peers, ClientFds
  <2>2. \A d \in Clients : Ready(d) => Ready(d)'
    BY <1>1, <1>2 DEF Ready, StreamTypes
  <2> QED
    BY <1>1, <1>2, <2>1, <2>2 DEF ReadyStill
<1> QED
  BY <1>3, <1>4, <1>5, <1>6 DEF StreamInv

LEMMA RenewKeeps ==
  ASSUME StreamInv, NEW c \in Clients, Renew(c)
  PROVE  StreamInv'
<1>1. /\ conn[c] = "closed" /\ conn' = [conn EXCEPT ![c] = "new"]
      /\ sent' = [sent EXCEPT ![c] = 0] /\ ends' = [ends EXCEPT ![c] = 0]
      /\ got' = [got EXCEPT ![c] = 0] /\ handed' = [handed EXCEPT ![c] = << >>]
      /\ UNCHANGED <<master, fdmin, readFds, at, pc, backlog, peer, up>>
  BY DEF Renew, tcpVars
<1>2. StreamTypes /\ Waits /\ Peers /\ Streams /\ ReadyStill
  BY DEF StreamInv
<1>3. StreamTypes'
  BY <1>1, <1>2 DEF StreamTypes
<1>4. Waits'
  <2>1. ASSUME NEW i \in 1 .. Len(backlog)
        PROVE  backlog[i] # c /\ backlog[i] \in Clients
    <3>1. conn[backlog[i]] = "waiting"
      BY <1>2 DEF Waits
    <3>2. backlog[i] \in Clients
      BY <1>2 DEF StreamTypes
    <3> QED
      BY <1>1, <3>1, <3>2
  <2> QED
    BY <1>1, <1>2, <2>1 DEF Waits, StreamTypes
<1>5. \A fd \in master \ {Sock} : peer[fd] \in Clients /\ peer[fd] # c
  BY <1>1, <1>2 DEF Peers
<1>6. Peers'
  BY <1>1, <1>2, <1>5 DEF Peers, StreamTypes
<1>7. Streams'
  <2>1. ASSUME NEW d \in Clients, d # c
        PROVE  /\ sent'[d] = sent[d] /\ ends'[d] = ends[d] /\ got'[d] = got[d]
               /\ handed'[d] = handed[d]
    BY <1>1, <1>2, <2>1 DEF StreamTypes
  <2>2. sent'[c] = 0 /\ ends'[c] = 0 /\ got'[c] = 0 /\ handed'[c] = << >>
    BY <1>1, <1>2 DEF StreamTypes
  <2>3. Upto(c, 0) = 0 /\ Len(Size[c]) \in Nat
    BY UptoSums
  <2>4. ASSUME NEW d \in Clients
        PROVE  /\ sent'[d] <= Len(Size[d])
               /\ got'[d] <= ends'[d] /\ ends'[d] <= Upto(d, sent'[d])
               /\ \A i \in 1 .. Len(handed'[d]) :
                    handed'[d][i] \in 1 .. Len(Size[d]) /\ Upto(d, handed'[d][i]) <= got'[d]
    <3>1. CASE d # c
      BY <1>2, <2>1, <3>1 DEF Streams
    <3>2. CASE d = c
      BY <2>2, <2>3, <3>2
    <3> QED
      BY <3>1, <3>2
  <2> QED
    BY <2>4 DEF Streams
<1>8. ReadyStill'
  <2>1. \A fd \in readFds \cap master : fd \in master \ {Sock}
    BY <1>2 DEF StreamTypes, ClientFds
  <2>2. \A d \in Clients : d # c /\ Ready(d) => Ready(d)'
    BY <1>1, <1>2 DEF Ready, StreamTypes
  <2> QED
    BY <1>1, <1>2, <1>5, <2>1, <2>2 DEF ReadyStill
<1> QED
  BY <1>3, <1>4, <1>6, <1>7, <1>8 DEF StreamInv

-----------------------------------------------------------------------------
(* The server's steps.                                                      *)

LEMMA PollAcceptKeeps ==
  ASSUME StreamInv, NEW fd \in ClientFds, PollAccept(fd)
  PROVE  StreamInv'
<1> DEFINE c == Head(backlog)
<1>1. /\ pc = "poll" /\ backlog # << >> /\ fd \notin master
      /\ master' = master \cup {fd} /\ peer' = [peer EXCEPT ![fd] = c]
      /\ conn' = [conn EXCEPT ![c] = "open"] /\ backlog' = Tail(backlog)
      /\ UNCHANGED <<readFds, at, pc, up, sent, ends, got, handed>>
  BY DEF PollAccept, TcpEnter, LowestFree
<1>2. StreamTypes /\ Waits /\ Peers /\ Streams /\ ReadyStill
  BY DEF StreamInv
<1>3. /\ backlog \in Seq(Clients) /\ Len(backlog) \in Nat \ {0} /\ c = backlog[1] /\ c \in Clients
      /\ backlog' \in Seq(Clients) /\ Len(backlog') = Len(backlog) - 1
      /\ \A i \in 1 .. Len(backlog) - 1 : backlog'[i] = backlog[i + 1]
  BY <1>1, <1>2 DEF StreamTypes
<1>4. conn[c] = "waiting"
  BY <1>2, <1>3 DEF Waits
<1> HIDE DEF c
<1>5. StreamTypes'
  <2>1. master' \subseteq Sock .. LastFd
    <3>1. master \subseteq Sock .. LastFd
      BY <1>2 DEF StreamTypes
    <3>2. fd \in Sock .. LastFd
      BY DEF ClientFds
    <3> QED
      BY <1>1, <3>1, <3>2
  <2>2. /\ peer' \in [ClientFds -> Clients \cup {Absent}]
        /\ conn' \in [Clients -> {"new", "waiting", "open", "closed"}]
    BY <1>1, <1>2, <1>3 DEF StreamTypes
  <2>3. fdmin' \in Int
    BY <1>2 DEF StreamTypes, PollAccept, TcpEnter, ClientFds
  <2> QED
    BY <1>1, <1>2, <1>3, <2>1, <2>2, <2>3 DEF StreamTypes
<1>6. Waits'
  <2>1. ASSUME NEW i \in 1 .. Len(backlog')
        PROVE  /\ i + 1 \in 1 .. Len(backlog) /\ backlog'[i] = backlog[i + 1]
               /\ backlog[i + 1] \in Clients /\ backlog[i + 1] # c
    <3>1. i + 1 \in 1 .. Len(backlog) /\ i + 1 # 1 /\ i \in 1 .. Len(backlog) - 1
      BY <1>3
    <3>2. 1 \in 1 .. Len(backlog)
      BY <1>3
    <3>3. backlog[i + 1] # backlog[1]
      BY <1>2, <3>1, <3>2, Zenon DEF Waits
    <3>4. backlog[i + 1] \in Clients
      BY <1>3, <3>1
    <3> QED
      BY <1>3, <3>1, <3>3, <3>4
  <2>2. ASSUME NEW i \in 1 .. Len(backlog')
        PROVE  conn'[backlog'[i]] = "waiting"
    <3>1. conn[backlog[i + 1]] = "waiting"
      BY <1>2, <2>1 DEF Waits
    <3> QED
      BY <1>1, <1>2, <2>1, <3>1 DEF StreamTypes
  <2>3. \A i, j \in 1 .. Len(backlog') : backlog'[i] = backlog'[j] => i = j
    <3> SUFFICES ASSUME NEW i \in 1 .. Len(backlog'), NEW j \in 1 .. Len(backlog'),
                        backlog'[i] = backlog'[j]
                 PROVE  i = j
      OBVIOUS
    <3>1. i + 1 = j + 1
      BY <1>2, <2>1 DEF Waits
    <3> QED
      BY <1>3, <3>1
  <2> QED
    BY <2>2, <2>3 DEF Waits
<1>7. Peers'
  <2>1. fd # Sock
    BY DEF ClientFds
  <2>2. peer'[fd] = c /\ conn'[c] = "open"
    BY <1>1, <1>2, <1>3 DEF StreamTypes
  <2>3. ASSUME NEW other \in master \ {Sock}
        PROVE  /\ other # fd /\ peer'[other] = peer[other] /\ peer[other] \in Clients
               /\ peer[other] # c /\ conn'[peer[other]] = "open"
    <3>1. other \in ClientFds /\ other # fd
      BY <1>1, <1>2 DEF StreamTypes, ClientFds
    <3>2. peer[other] \in Clients /\ conn[peer[other]] = "open"
      BY <1>2 DEF Peers
    <3>3. peer[other] # c
      BY <1>4, <3>2
    <3> QED
      BY <1>1, <1>2, <3>1, <3>2, <3>3 DEF StreamTypes
  <2>4. master' \ {Sock} = (master \ {Sock}) \cup {fd}
    BY <1>1, <2>1
  <2>5. ASSUME NEW f \in master' \ {Sock}
        PROVE  peer'[f] \in Clients /\ conn'[peer'[f]] = "open"
    <3>1. CASE f = fd
      BY <1>3, <2>2, <3>1
    <3>2. CASE f # fd
      <4>1. f \in master \ {Sock}
        BY <2>4, <3>2
      <4> QED
        BY <2>3, <4>1
    <3> QED
      BY <3>1, <3>2
  <2>6. \A f, g \in master' \ {Sock} : peer'[f] = peer'[g] => f = g
    BY <1>2, <2>2, <2>3, <2>4 DEF Peers
  <2> QED
    BY <2>5, <2>6 DEF Peers
<1>8. Streams'
  BY <1>1, <1>2 DEF Streams
<1>9. ReadyStill'
  BY <1>1 DEF ReadyStill
<1> QED
  BY <1>5, <1>6, <1>7, <1>8, <1>9 DEF StreamInv

LEMMA PollClientsKeeps ==
  ASSUME StreamInv, PollClients
  PROVE  StreamInv'
<1>1. /\ ReadyFds \subseteq master \ {Sock} /\ readFds' = ReadyFds /\ at' = fdmin /\ pc' = "scan"
      /\ UNCHANGED <<master, fdmin, backlog, peer, conn, up, sent, ends, got, handed>>
  BY DEF PollClients, TcpSelect, kernel
<1>2. StreamTypes /\ Waits /\ Peers /\ Streams
  BY DEF StreamInv
<1>3. readFds' \subseteq ClientFds
  BY <1>1, <1>2 DEF StreamTypes, ClientFds
<1>4. StreamTypes'
  BY <1>1, <1>2, <1>3 DEF StreamTypes
<1>5. Waits' /\ Peers' /\ Streams'
  BY <1>1, <1>2 DEF Waits, Peers, Streams
<1>6. ReadyStill'
  <2>1. \A fd \in ReadyFds : Ready(peer[fd])
    BY DEF ReadyFds, Ready
  <2> QED
    BY <1>1, <2>1 DEF ReadyStill, Ready
<1> QED
  BY <1>4, <1>5, <1>6 DEF StreamInv

\* The descriptor the loop is at, when it is readable, has an open connection.
LEMMA ReadablePeer ==
  ASSUME StreamInv, Readable
  PROVE  /\ at \in master \ {Sock} /\ at \in ClientFds /\ peer[at] \in Clients
         /\ conn[peer[at]] = "open"
         /\ \A fd \in master \ {Sock} : fd # at => peer[fd] # peer[at]
<1>1. at \in master \ {Sock} /\ at \in ClientFds
  BY DEF StreamInv, StreamTypes, Readable, ClientFds
<1> QED
  BY <1>1 DEF StreamInv, Peers

\* What is handed over is one message, behind those handed over before.
LEMMA ChunkIsNext ==
  ASSUME StreamInv, NEW c \in Clients, NEW k \in 1 .. BufSize, got[c] + k <= ends[c],
         NEW n \in Chunk(c, k)
  PROVE  /\ n \in 1 .. sent[c] /\ n \in 1 .. Len(Size[c]) /\ Upto(c, n) = got[c] + k
         /\ \A i \in 1 .. Len(handed[c]) : handed[c][i] < n
<1>1. /\ n \in 1 .. Len(Size[c]) /\ Upto(c, n - 1) = got[c] /\ Upto(c, n) = got[c] + k
  BY DEF Chunk
<1>2. /\ Len(Size[c]) \in Nat /\ sent[c] \in 0 .. Len(Size[c]) /\ got[c] \in Nat /\ ends[c] \in Nat
      /\ ends[c] <= Upto(c, sent[c])
  BY DEF StreamInv, StreamTypes, Streams
<1>3. n \in 0 .. Len(Size[c]) /\ n - 1 \in 0 .. Len(Size[c])
  BY <1>1, <1>2, SMTT(60)
<1>4. n <= sent[c]
  <2>1. ASSUME sent[c] < n
        PROVE  Upto(c, sent[c]) < Upto(c, n)
    BY <1>2, <1>3, <2>1, UptoGrows
  <2>2. Upto(c, sent[c]) \in Nat
    BY <1>2, UptoSums
  <2> QED
    BY <1>1, <1>2, <1>3, <2>1, <2>2, SMTT(60)
<1>5. ASSUME NEW i \in 1 .. Len(handed[c])
      PROVE  handed[c][i] < n
  <2>1. handed[c][i] \in 1 .. Len(Size[c]) /\ Upto(c, handed[c][i]) <= got[c]
    BY DEF StreamInv, Streams
  <2>2. ASSUME n - 1 < handed[c][i]
        PROVE  Upto(c, n - 1) < Upto(c, handed[c][i])
    <3>1. handed[c][i] \in 0 .. Len(Size[c])
      BY <1>2, <2>1
    <3> QED
      BY <1>3, <2>2, <3>1, UptoGrows
  <2>3. Upto(c, handed[c][i]) \in Nat
    BY <1>2, <2>1, UptoSums
  <2>4. ~(n - 1 < handed[c][i])
    BY <1>1, <1>2, <2>1, <2>2, <2>3, SMTT(60)
  <2> QED
    BY <1>1, <1>2, <2>1, <2>4, SMTT(60)
<1> QED
  BY <1>1, <1>2, <1>4, <1>5

LEMMA ReceiveKeeps ==
  ASSUME StreamInv, NEW k \in 1 .. BufSize, Receive(k)
  PROVE  StreamInv'
<1> DEFINE c == peer[at]
<1>1. /\ Readable /\ got[c] + k <= ends[c] /\ got' = [got EXCEPT ![c] = @ + k] /\ at' = at + 1
      /\ \/ \E n \in Chunk(c, k) : handed' = [handed EXCEPT ![c] = Append(@, n)]
         \/ UNCHANGED handed
      /\ UNCHANGED <<master, fdmin, readFds, pc, backlog, peer, conn, up, sent, ends>>
  BY DEF Receive, TcpAdvance, kernel
<1>2. StreamTypes /\ Waits /\ Peers /\ Streams /\ ReadyStill
  BY DEF StreamInv
<1>3. /\ c \in Clients /\ \A fd \in master \ {Sock} : fd # at => peer[fd] # c
      /\ at \in ClientFds
  BY <1>1, ReadablePeer
<1> HIDE DEF c
<1>4. /\ got'[c] = got[c] + k /\ got[c] \in Nat /\ ends[c] \in Nat
      /\ \A d \in Clients : d # c => got'[d] = got[d]
  BY <1>1, <1>2, <1>3 DEF StreamTypes
<1>5. \/ \E n \in 1 .. Len(Size[c]) : /\ Upto(c, n) = got[c] + k
                                       /\ handed' = [handed EXCEPT ![c] = Append(@, n)]
      \/ UNCHANGED handed
  BY <1>1, <1>3, ChunkIsNext
<1>6. StreamTypes'
  <2>1. got' \in [Clients -> Nat]
    BY <1>1, <1>2, <1>4 DEF StreamTypes
  <2>2. handed' \in [Clients -> Seq(Nat)]
    <3>1. handed \in [Clients -> Seq(Nat)]
      BY <1>2 DEF StreamTypes
    <3>2. ASSUME NEW n \in 1 .. Len(Size[c])
          PROVE  Append(handed[c], n) \in Seq(Nat)
      BY <1>3, <3>1
    <3> QED
      BY <1>3, <1>5, <3>1, <3>2
  <2>3. at' \in Int
    BY <1>1, <1>2 DEF StreamTypes
  <2> QED
    BY <1>1, <1>2, <2>1, <2>2, <2>3 DEF StreamTypes
<1>7. Waits' /\ Peers'
  BY <1>1, <1>2 DEF Waits, Peers
<1>8. Streams'
  <2>1. ASSUME NEW d \in Clients
        PROVE  got'[d] <= ends[d] /\ got[d] <= got'[d]
    <3>1. got[d] \in Nat /\ ends[d] \in Nat /\ got[d] <= ends[d]
      BY <1>2 DEF Streams, StreamTypes
    <3>2. CASE d = c
      BY <1>1, <1>4, <3>2
    <3>3. CASE d # c
      BY <1>4, <3>1, <3>3
    <3> QED
      BY <3>2, <3>3
  <2>2. ASSUME NEW d \in Clients, NEW i \in 1 .. Len(handed'[d])
        PROVE  handed'[d][i] \in 1 .. Len(Size[d]) /\ Upto(d, handed'[d][i]) <= got'[d]
    <3>1. /\ handed[d] \in Seq(Nat) /\ handed[c] \in Seq(Nat) /\ got[d] \in Nat /\ got'[d] \in Nat
          /\ Len(handed[d]) \in Nat /\ Len(handed[c]) \in Nat
      <4>1. handed[d] \in Seq(Nat) /\ handed[c] \in Seq(Nat) /\ got[d] \in Nat
        BY <1>2, <1>3 DEF StreamTypes
      <4>2. got'[d] \in Nat
        BY <1>6 DEF StreamTypes
      <4> QED
        BY <4>1, <4>2
    <3>2. ASSUME handed'[d] = handed[d]
          PROVE  handed'[d][i] \in 1 .. Len(Size[d]) /\ Upto(d, handed'[d][i]) <= got'[d]
      <4>1. handed[d][i] \in 1 .. Len(Size[d]) /\ Upto(d, handed[d][i]) <= got[d]
        <5>1. i \in 1 .. Len(handed[d])
          BY <2>2, <3>2
        <5> QED
          BY <1>2, <5>1 DEF Streams
      <4>2. Upto(d, handed[d][i]) \in Nat
        BY <4>1, UptoSums
      <4>3. got[d] <= got'[d]
        BY <2>1
      <4>4. Upto(d, handed[d][i]) <= got'[d]
        BY <3>1, <4>1, <4>2, <4>3, SMTT(60)
      <4> QED
        BY <3>2, <4>1, <4>4, Zenon
    <3>3. ASSUME NEW n \in 1 .. Len(Size[c]), Upto(c, n) = got[c] + k,
                 handed' = [handed EXCEPT ![c] = Append(@, n)], d = c
          PROVE  handed'[d][i] \in 1 .. Len(Size[d]) /\ Upto(d, handed'[d][i]) <= got'[d]
      <4>1. handed'[c] = Append(handed[c], n)
        BY <1>2, <1>3, <3>3 DEF StreamTypes
      <4>2. CASE i = Len(handed[c]) + 1
        <5>1. handed'[c][i] = n
          BY <3>1, <4>1, <4>2
        <5> QED
          BY <1>4, <3>3, <5>1, SMTT(60)
      <4>3. CASE i # Len(handed[c]) + 1
        <5>1. i \in 1 .. Len(handed[c]) /\ handed'[c][i] = handed[c][i]
          <6>1. Len(handed'[c]) = Len(handed[c]) + 1
            BY <3>1, <4>1
          <6>2. i \in 1 .. Len(handed[c])
            BY <2>2, <3>1, <3>3, <4>3, <6>1
          <6> QED
            BY <3>1, <4>1, <6>2
        <5>2. handed[c][i] \in 1 .. Len(Size[c]) /\ Upto(c, handed[c][i]) <= got[c]
          BY <1>2, <1>3, <5>1 DEF Streams
        <5>3. Upto(c, handed[c][i]) \in Nat
          BY <1>3, <5>2, UptoSums
        <5>4. Upto(c, handed[c][i]) <= got'[c]
          <6>1. got[c] <= got'[c]
            BY <1>3, <2>1
          <6> QED
            BY <3>1, <3>3, <5>2, <5>3, <6>1, SMTT(60)
        <5> QED
          BY <3>3, <5>1, <5>2, <5>4, Zenon
      <4> QED
        BY <4>2, <4>3
    <3>4. handed'[d] = handed[d] \/ d = c
      BY <1>2, <1>3, <1>5 DEF StreamTypes
    <3> QED
      BY <1>5, <3>2, <3>3, <3>4
  <2>3. ASSUME NEW d \in Clients
        PROVE  sent'[d] <= Len(Size[d]) /\ got'[d] <= ends'[d] /\ ends'[d] <= Upto(d, sent'[d])
    BY <1>1, <1>2, <2>1 DEF Streams
  <2> QED
    BY <2>2, <2>3 DEF Streams
<1>9. ReadyStill'
  <2> SUFFICES ASSUME pc = "scan", NEW fd \in readFds \cap master, at + 1 <= fd
               PROVE  Ready(peer[fd])'
    BY <1>1 DEF ReadyStill
  <2>1. fd \in master \ {Sock} /\ fd \in Int /\ at \in Int
    BY <1>2 DEF StreamTypes, ClientFds
  <2>2. peer[fd] \in Clients /\ peer[fd] # c
    BY <1>2, <1>3, <2>1 DEF Peers
  <2>3. Ready(peer[fd])
    BY <1>2, <2>1 DEF ReadyStill
  <2> QED
    BY <1>1, <1>4, <2>2, <2>3 DEF Ready
<1> QED
  BY <1>6, <1>7, <1>8, <1>9 DEF StreamInv

LEMMA DisconnectKeeps ==
  ASSUME StreamInv, Disconnect
  PROVE  StreamInv'
<1> DEFINE c == peer[at]
<1>1. /\ Readable /\ conn' = [conn EXCEPT ![c] = "closed"] /\ peer' = [peer EXCEPT ![at] = Absent]
      /\ master' = master \ {at} /\ at' = at + 1
      /\ UNCHANGED <<fdmin, readFds, pc, backlog, up, sent, ends, got, handed>>
  BY DEF Disconnect, TcpDrop
<1>2. StreamTypes /\ Waits /\ Peers /\ Streams /\ ReadyStill
  BY DEF StreamInv
<1>3. /\ c \in Clients /\ conn[c] = "open" /\ at \in ClientFds
      /\ \A fd \in master \ {Sock} : fd # at => peer[fd] # c
  BY <1>1, ReadablePeer
<1> HIDE DEF c
<1>4. StreamTypes'
  BY <1>1, <1>2, <1>3 DEF StreamTypes
<1>5. Waits'
  <2>1. ASSUME NEW i \in 1 .. Len(backlog)
        PROVE  backlog[i] # c /\ backlog[i] \in Clients /\ conn[backlog[i]] = "waiting"
    <3>1. conn[backlog[i]] = "waiting"
      BY <1>2 DEF Waits
    <3>2. backlog[i] \in Clients
      BY <1>2 DEF StreamTypes
    <3> QED
      BY <1>3, <3>1, <3>2
  <2> QED
    BY <1>1, <1>2, <2>1 DEF Waits, StreamTypes
<1>6. ASSUME NEW fd \in master' \ {Sock}
      PROVE  /\ fd \in master \ {Sock} /\ fd # at /\ peer'[fd] = peer[fd] /\ peer[fd] \in Clients
             /\ peer[fd] # c /\ conn'[peer[fd]] = "open"
  <2>1. fd \in master \ {Sock} /\ fd # at /\ fd \in ClientFds
    BY <1>1, <1>2 DEF StreamTypes, ClientFds
  <2>2. peer[fd] \in Clients /\ conn[peer[fd]] = "open" /\ peer[fd] # c
    BY <1>2, <1>3, <2>1 DEF Peers
  <2> QED
    BY <1>1, <1>2, <2>1, <2>2 DEF StreamTypes
<1>7. Peers'
  BY <1>2, <1>6 DEF Peers
<1>8. Streams'
  BY <1>1, <1>2 DEF Streams
<1>9. ReadyStill'
  <2> SUFFICES ASSUME pc = "scan", NEW fd \in readFds \cap master', at + 1 <= fd
               PROVE  Ready(peer[fd])
    <3>1. \A fd \in readFds \cap master' : fd \in master' \ {Sock}
      BY <1>2 DEF StreamTypes, ClientFds
    <3>2. \A fd \in readFds \cap master' : peer'[fd] = peer[fd]
      BY <1>6, <3>1
    <3> QED
      BY <1>1, <3>2 DEF ReadyStill, Ready
  <2>1. fd \in master /\ fd \in Int /\ at \in Int
    BY <1>1, <1>2 DEF StreamTypes, ClientFds
  <2> QED
    BY <1>2, <2>1 DEF ReadyStill
<1> QED
  BY <1>4, <1>5, <1>7, <1>8, <1>9 DEF StreamInv

LEMMA SkipKeeps ==
  ASSUME StreamInv, Skip
  PROVE  StreamInv'
<1>1. /\ at' = at + 1
      /\ UNCHANGED <<master, fdmin, readFds, pc, backlog, peer, conn, up, sent, ends, got, handed>>
  BY DEF Skip, TcpAdvance, kernel
<1>2. StreamTypes /\ Waits /\ Peers /\ Streams /\ ReadyStill
  BY DEF StreamInv
<1>3. StreamTypes' /\ Waits' /\ Peers' /\ Streams'
  BY <1>1, <1>2 DEF StreamTypes, Waits, Peers, Streams
<1>4. \A fd \in readFds \cap master : at + 1 <= fd => at <= fd
  BY <1>2 DEF StreamTypes, ClientFds
<1>5. ReadyStill'
  BY <1>1, <1>2, <1>4 DEF ReadyStill, Ready
<1> QED
  BY <1>3, <1>5 DEF StreamInv

LEMMA PollReturnKeeps ==
  ASSUME StreamInv, PollReturn
  PROVE  StreamInv'
<1>1. /\ readFds' = {} /\ at' = Sock /\ pc' = "poll"
      /\ UNCHANGED <<master, fdmin, backlog, peer, conn, up, sent, ends, got, handed>>
  BY DEF PollReturn, TcpReturn, kernel
<1> QED
  BY <1>1 DEF StreamInv, StreamTypes, Waits, Peers, Streams, ReadyStill

LEMMA StreamStutterKeeps ==
  ASSUME StreamInv, UNCHANGED vars
  PROVE  StreamInv'
<1>1. UNCHANGED <<master, fdmin, readFds, at, pc, backlog, peer, conn, up, sent, ends, got, handed>>
  BY DEF vars, tcpVars, kernel
<1> QED
  BY <1>1 DEF StreamInv, StreamTypes, Waits, Peers, Streams, ReadyStill, Ready

LEMMA StreamsKept ==
  StreamInv /\ [Next]_vars => StreamInv'
BY ConnectKeeps, SendKeeps, HangUpKeeps, RenewKeeps, PollAcceptKeeps, PollClientsKeeps, ReceiveKeeps,
   DisconnectKeeps, SkipKeeps, PollReturnKeeps, StreamStutterKeeps
   DEF Next, ClientStep, ServerStep, PollAcceptFails

LEMMA InvNeverBlocks ==
  StreamInv => NeverBlocks
<1> SUFFICES ASSUME StreamInv, pc = "scan", Readable
             PROVE  peer[at] \in Clients /\ Ready(peer[at])
  BY DEF NeverBlocks, Ready
<1>1. at \in readFds \cap master /\ at <= at
  BY DEF Readable, StreamInv, StreamTypes
<1> QED
  BY <1>1, ReadablePeer DEF StreamInv, ReadyStill

\* tcp_listener_poll calls recv on a descriptor only when it has something to read
\* or the end, although clients send and hang up between select and recv.
THEOREM RecvNeverBlocks == Spec => []NeverBlocks
<1>1. Init => StreamInv
  BY StreamsBegin
<1> QED
  BY <1>1, StreamsKept, InvNeverBlocks, PTL DEF Spec

-----------------------------------------------------------------------------
(***************************************************************************)
(* The refinement of LossyLinks.                                           *)
(***************************************************************************)
OpenClients == { c \in Clients : conn[c] = "open" }

LEMMA LinksBegin ==
  Init => Link!Init
BY DEF Init, Link!Init

LEMMA SameLinks ==
  ASSUME UNCHANGED <<sent, handed>>, OpenClients' = OpenClients
  PROVE  UNCHANGED Link!vars
BY DEF Link!vars, OpenClients

LEMMA ClientStepLinks ==
  ASSUME StreamInv, ClientStep
  PROVE  [Link!Next]_(Link!vars)
<1>1. StreamTypes
  BY DEF StreamInv
<1>2. PICK c \in Clients : Connect(c) \/ Send(c) \/ HangUp(c) \/ Renew(c)
  BY DEF ClientStep
<1>3. CASE Connect(c)
  BY <1>1, <1>3, SameLinks DEF Connect, OpenClients, StreamTypes
<1>4. CASE HangUp(c)
  BY <1>4, SameLinks DEF HangUp, OpenClients
<1>5. CASE Send(c)
  <2>1. Link!Send(c)
    BY <1>5 DEF Send, Link!Send
  <2> QED
    BY <2>1 DEF Link!Next
<1>6. CASE Renew(c)
  <2>1. OpenClients' = OpenClients /\ c \notin OpenClients
    BY <1>1, <1>6 DEF Renew, OpenClients, StreamTypes
  <2>2. Link!Renew(c)
    BY <1>6, <2>1 DEF Renew, Link!Renew, OpenClients
  <2> QED
    BY <2>2 DEF Link!Next
<1> QED
  BY <1>2, <1>3, <1>4, <1>5, <1>6

LEMMA AcceptLinks ==
  ASSUME StreamInv, NEW fd \in ClientFds, PollAccept(fd)
  PROVE  [Link!Next]_(Link!vars)
<1>1. Head(backlog) = backlog[1] /\ 1 \in 1 .. Len(backlog) /\ Head(backlog) \in Clients
  BY DEF PollAccept, StreamInv, StreamTypes
<1>2. PICK c \in Clients : c = Head(backlog)
  BY <1>1
<1>3. conn' = [conn EXCEPT ![c] = "open"] /\ UNCHANGED <<sent, handed>>
  BY <1>2 DEF PollAccept
<1>4. conn[c] = "waiting" /\ conn \in [Clients -> {"new", "waiting", "open", "closed"}]
  BY <1>1, <1>2 DEF StreamInv, StreamTypes, Waits
<1>5. OpenClients' = OpenClients \cup {c} /\ c \notin OpenClients
  BY <1>3, <1>4 DEF OpenClients
<1>6. Link!Announce(c)
  BY <1>3, <1>5 DEF Link!Announce, OpenClients
<1> QED
  BY <1>6 DEF Link!Next

LEMMA ReceiveLinks ==
  ASSUME StreamInv, NEW k \in 1 .. BufSize, Receive(k)
  PROVE  [Link!Next]_(Link!vars)
<1>1. Readable
  BY DEF Receive
<1>2. PICK c \in Clients : c = peer[at] /\ conn[c] = "open"
  BY <1>1, ReadablePeer
<1>3. /\ got[c] + k <= ends[c] /\ UNCHANGED <<conn, sent>>
      /\ \/ \E n \in Chunk(c, k) : handed' = [handed EXCEPT ![c] = Append(@, n)]
         \/ UNCHANGED handed
  BY <1>2 DEF Receive, kernel
<1>4. OpenClients' = OpenClients /\ c \in OpenClients
  BY <1>2, <1>3 DEF OpenClients
<1>5. CASE UNCHANGED handed
  BY <1>3, <1>4, <1>5, SameLinks
<1>6. CASE \E n \in Chunk(c, k) : handed' = [handed EXCEPT ![c] = Append(@, n)]
  <2>1. PICK n \in Chunk(c, k) : handed' = [handed EXCEPT ![c] = Append(@, n)]
    BY <1>6
  <2>2. n \in 1 .. sent[c] /\ \A i \in 1 .. Len(handed[c]) : handed[c][i] < n
    BY <1>3, ChunkIsNext
  <2>3. Link!Arrive(c)
    BY <1>3, <1>4, <2>1, <2>2 DEF Link!Arrive, OpenClients
  <2> QED
    BY <2>3 DEF Link!Next
<1> QED
  BY <1>3, <1>5, <1>6

LEMMA DisconnectLinks ==
  ASSUME StreamInv, Disconnect
  PROVE  [Link!Next]_(Link!vars)
<1>1. Readable
  BY DEF Disconnect
<1>2. PICK c \in Clients : c = peer[at]
  BY <1>1, ReadablePeer
<1>3. conn' = [conn EXCEPT ![c] = "closed"] /\ UNCHANGED <<sent, handed>>
  BY <1>2 DEF Disconnect
<1>4. conn[c] = "open" /\ conn \in [Clients -> {"new", "waiting", "open", "closed"}]
  BY <1>1, <1>2, ReadablePeer DEF StreamInv, StreamTypes
<1>5. OpenClients' = OpenClients \ {c} /\ c \in OpenClients
  BY <1>3, <1>4 DEF OpenClients
<1>6. Link!End(c)
  BY <1>3, <1>5 DEF Link!End, OpenClients
<1> QED
  BY <1>6 DEF Link!Next

LEMMA StepLinks ==
  ASSUME StreamInv, [Next]_vars
  PROVE  [Link!Next]_(Link!vars)
<1>1. CASE PollAcceptFails \/ UNCHANGED vars
  <2>1. UNCHANGED <<sent, handed, conn>>
    BY <1>1 DEF PollAcceptFails, vars, kernel
  <2> QED
    BY <2>1, SameLinks DEF OpenClients
<1>2. CASE PollClients \/ Skip \/ PollReturn
  <2>1. UNCHANGED <<sent, handed, conn>>
    BY <1>2 DEF PollClients, Skip, PollReturn, kernel
  <2> QED
    BY <2>1, SameLinks DEF OpenClients
<1>3. CASE ClientStep
  BY <1>3, ClientStepLinks
<1>4. ASSUME NEW fd \in ClientFds, PollAccept(fd)
      PROVE  [Link!Next]_(Link!vars)
  BY <1>4, AcceptLinks
<1>5. ASSUME NEW k \in 1 .. BufSize, Receive(k)
      PROVE  [Link!Next]_(Link!vars)
  BY <1>5, ReceiveLinks
<1>6. CASE Disconnect
  BY <1>6, DisconnectLinks
<1>7. ServerStep => [Link!Next]_(Link!vars)
  BY <1>1, <1>2, <1>4, <1>5, <1>6 DEF ServerStep
<1> QED
  BY <1>1, <1>3, <1>7 DEF Next

\* The listener gives each client a link of its own: its connection is announced, then
\* messages of this connection alone arrive, in the order they were sent and at
\* most once, then its end is announced; whichever descriptors it gets.
THEOREM LinksImplemented == Spec => ImplementsLinks
<1>1. Init => StreamInv
  BY StreamsBegin
<1>2. Init => Link!Init
  BY LinksBegin
<1>3. StreamInv /\ [Next]_vars => [Link!Next]_(Link!vars)
  BY StepLinks
<1> QED
  BY <1>1, <1>2, <1>3, StreamsKept, PTL DEF Spec, ImplementsLinks, Link!Spec
=============================================================================
