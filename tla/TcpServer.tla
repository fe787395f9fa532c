----------------------------- MODULE TcpServer ------------------------------
(***************************************************************************)
(* tcp_server.c: the descriptors of the "login" listener and one pass of   *)
(* tcp_listener_poll over them.                                            *)
(*                                                                         *)
(* The kernel is external: accept returns the lowest free descriptor,      *)
(* select reports any set of open ones, and a reported client has either   *)
(* sent bytes or hung up.                                                  *)
(***************************************************************************)
EXTENDS Integers

CONSTANTS
  Sock,         \* server->sock
  LastFd        \* the highest descriptor the process may open

ASSUME TcpAssumption == Sock \in Nat /\ LastFd \in Nat /\ Sock < LastFd

VARIABLES
  master,       \* server->master
  fdmin, fdmax, \* server->fdmin, server->fdmax
  readFds,      \* read_fds as select left it
  at            \* the loop variable i

tcpVars == <<master, fdmin, fdmax, readFds, at>>

ClientFds == Sock + 1 .. LastFd

\* tcp_listener_init.
TcpInit ==
  /\ master = {Sock}
  /\ fdmin = Sock
  /\ fdmax = Sock
  /\ readFds = {}
  /\ at = Sock

\* The kernel gives accept the lowest descriptor that is free.
LowestFree(fd) ==
  /\ fd \in ClientFds \ master
  /\ \A other \in ClientFds \ master : fd <= other

\* A new connection entered into master; fdmax is left alone.
TcpEnterStaleMax(fd) ==
  /\ LowestFree(fd)
  /\ master' = master \cup {fd}
  /\ fdmin' = IF fd < fdmin THEN fd ELSE fdmin
  /\ UNCHANGED <<fdmax, readFds, at>>

\* fdmax kept as select's first argument, one past the highest descriptor.
TcpEnterCount(fd) ==
  /\ LowestFree(fd)
  /\ master' = master \cup {fd}
  /\ fdmax' = IF fd >= fdmax THEN fd + 1 ELSE fdmax
  /\ fdmin' = IF fd < fdmin THEN fd ELSE fdmin
  /\ UNCHANGED <<readFds, at>>

\* A new connection is entered into master.
TcpEnter(fd) ==
  /\ LowestFree(fd)
  /\ master' = master \cup {fd}
  /\ fdmax' = IF fd > fdmax THEN fd ELSE fdmax
  /\ fdmin' = IF fd < fdmin THEN fd ELSE fdmin
  /\ UNCHANGED <<readFds, at>>

\* select found no new connection: the loop over the descriptors begins.
TcpSelect(ready) ==
  /\ ready \subseteq master \ {Sock}
  /\ readFds' = ready
  /\ at' = fdmin
  /\ UNCHANGED <<master, fdmin, fdmax>>

\* A loop that leaves out the highest descriptor.
ScanningBelow == at < fdmax

Scanning == at <= fdmax

Readable == at \in readFds \cap master

\* A loop that goes on reading a descriptor while it has data.
TcpAdvanceDrain ==
  /\ at' \in {at, at + 1}
  /\ UNCHANGED <<master, fdmin, fdmax, readFds>>

\* A loop that does not get past a descriptor without data.
TcpAdvanceReadable ==
  /\ at' = IF Readable THEN at + 1 ELSE at
  /\ UNCHANGED <<master, fdmin, fdmax, readFds>>

\* The next round of the loop, the descriptor staying open.
TcpAdvance ==
  /\ at' = at + 1
  /\ UNCHANGED <<master, fdmin, fdmax, readFds>>

\* close and FD_CLR, then the next round.
TcpDrop ==
  /\ master' = master \ {at}
  /\ at' = at + 1
  /\ UNCHANGED <<fdmin, fdmax, readFds>>

\* tcp_listener_poll returns; read_fds and i were its local variables.
TcpReturn ==
  /\ readFds' = {}
  /\ at' = Sock
  /\ UNCHANGED <<master, fdmin, fdmax>>
=============================================================================
