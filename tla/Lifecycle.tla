----------------------------- MODULE Lifecycle ------------------------------
(***************************************************************************)
(* The life of the process around its main loop: the tables of subsystems  *)
(* and modules (module.h), the registries they fill, the creation of the   *)
(* two listeners with every failure path (net.c, tcp_server.c,             *)
(* enet_server.c), and the way down.  The loop itself is module Worlds;    *)
(* here it only opens and closes descriptors.                              *)
(***************************************************************************)
EXTENDS Integers, FiniteSets, Sequences

CONSTANTS
  Modules,       \* the modules config.mk may build, named by what they register
  Login, Game,   \* the two listeners
  Type, Set, Protocol,   \* what a listener asks for: Type[l] ...
  MaxFd          \* the highest descriptor the process may open

Listeners == {Login, Game}
Fds       == 0 .. MaxFd
NoFd      == -1     \* server->sock = -1, or no ENet host
Parts     == {"listener", "name", "mgr"}
Uses(l)   == {Type[l], Set[l], Protocol[l]}

ASSUME LifecycleAssumption ==
  /\ IsFiniteSet(Modules)
  /\ Login # Game
  /\ \A f \in {Type, Set, Protocol} : f \in [Listeners -> Modules]
  /\ MaxFd \in Nat /\ MaxFd >= 2

VARIABLES
  pc,            \* where main and the functions it calls stand
  table,         \* the modules built in, in the order the linker left them
  i,             \* the loop variable of __modules_init and __modules_exit
  ready,         \* whether the subsystems have initialised their list heads
  registered,    \* the items in the registries
  cur,           \* the listener being created or destroyed
  heap,          \* the live blocks: pairs of a listener and a part
  created,       \* net_listeners
  addrinfo,      \* whether a result of getaddrinfo is allocated
  files,         \* files[fd]: what the descriptor refers to
  ssock,         \* the local of tcp_listener_init
  sock,          \* the login listener's server->sock
  shost,         \* the descriptor of the game listener's ENet host
  running,       \* the global that the SIGINT handler clears
  starved,       \* history: a table of subsystems or modules was not allocated
  deaf,          \* history: the second listen of the login socket failed
  misclosed      \* history: descriptors closed by one that did not own them

upVars   == <<table, ready, starved>>
moreVars == <<deaf, misclosed>>
fdVars   == <<addrinfo, files, ssock, sock, shost, deaf, misclosed>>
vars     == <<pc, table, i, ready, registered, cur, heap, created, addrinfo,
              files, ssock, sock, shost, running, starved, deaf, misclosed>>

Ended == pc \in {"exited", "failed", "crashed"}

\* The orders in which some of the modules may stand in the binary.
Tables ==
  UNION { { s \in [1 .. n -> Modules] :
              \A k, m \in 1 .. n : s[k] = s[m] => k = m } :
          n \in 0 .. Cardinality(Modules) }

\* Standard input, output and error are open.
Init ==
  /\ pc = "subsys"
  /\ table \in Tables
  /\ i = 1
  /\ ready = FALSE
  /\ registered = {}
  /\ cur = Login
  /\ heap = {}
  /\ created = {}
  /\ addrinfo = FALSE
  /\ files = [fd \in Fds |-> IF fd <= 2 THEN "std" ELSE "free"]
  /\ ssock = NoFd
  /\ sock = NoFd
  /\ shost = NoFd
  /\ running = TRUE
  /\ starved = FALSE
  /\ deaf = FALSE
  /\ misclosed = {}
-----------------------------------------------------------------------------
(***************************************************************************)
(* Descriptors.                                                            *)
(***************************************************************************)
IsFree(fd) == files[fd] = "free"

\* The kernel hands out the lowest free descriptor, or none.
Open(fd, kind) ==
  /\ IsFree(fd) /\ \A other \in Fds : IsFree(other) => fd <= other
  /\ files' = [files EXCEPT ![fd] = kind]

\* close(fd) by the owner of a descriptor of this kind.
Close(fd, kind) ==
  /\ files' = [files EXCEPT ![fd] = "free"]
  /\ misclosed' = IF files[fd] = kind THEN misclosed ELSE misclosed \cup {fd}

-----------------------------------------------------------------------------
(***************************************************************************)
(* subsys_init and modules_init.                                           *)
(***************************************************************************)
\* Subsystems that do nothing.
SubsysInitEmpty ==
  /\ pc = "subsys"
  /\ pc' = "modules"
  /\ UNCHANGED <<upVars, i, registered, cur, heap, created, fdVars, running>>

\* entity, command, net and vmap: each initialises its list heads.
SubsysInit ==
  /\ pc = "subsys"
  /\ ready' = TRUE
  /\ pc' = "modules"
  /\ UNCHANGED <<table, starved, i, registered, cur, heap, created, fdVars, running>>

ReadThroughNull == IF Len(table) > 1 THEN {"crashed"} ELSE {}

\* autodata_make_table cannot allocate the table of one of the two kinds.  At
\* the first entry the count is still 0, and the loop runs for no entry; at a
\* later one the count is that of the entries so far, and the loop reads them
\* through NULL.
TableMissing ==
  /\ starved' = TRUE
  /\ \/ pc = "subsys" /\ pc' \in {"modules", "crashed"}
     \/ pc = "modules" /\ i = 1 /\ pc' \in {"create"} \cup ReadThroughNull
     \/ pc = "unload" /\ i = Len(table) /\ pc' \in {"exited"} \cup ReadThroughNull
  /\ UNCHANGED <<table, ready, i, registered, cur, heap, created, fdVars, running>>

\* One round of the loop: the module registers its item.
ModuleInit ==
  /\ pc = "modules" /\ ready
  /\ i <= Len(table)
  /\ registered' = registered \cup {table[i]}
  /\ i' = i + 1
  /\ UNCHANGED <<pc, upVars, cur, heap, created, fdVars, running>>

\* A list whose head was never initialised is searched or added to.
NullHead ==
  /\ ~ready
  /\ pc = "create" \/ (pc = "modules" /\ i <= Len(table))
  /\ pc' = "crashed"
  /\ UNCHANGED <<upVars, i, registered, cur, heap, created, fdVars, running>>

ModulesDone ==
  /\ pc = "modules" /\ i > Len(table)
  /\ pc' = "create"
  /\ UNCHANGED <<upVars, i, registered, cur, heap, created, fdVars, running>>
-----------------------------------------------------------------------------
(***************************************************************************)
(* net_listener_create, for the login listener and then the game one.      *)
(***************************************************************************)
GoOn(next) ==
  /\ pc' = next
  /\ UNCHANGED <<upVars, i, registered, cur, created, running>>

\* malloc of one part of the current listener, with the label to go to if it
\* fails.
Alloc(part, next, label) ==
  \/ heap' = heap \cup {<<cur, part>>} /\ GoOn(next)
  \/ GoOn(label) /\ UNCHANGED heap

\* net_listener_find and type->ops->create; the new listener is zeroed, so
\* that sock is 0.
Create ==
  /\ pc = "create" /\ ready
  /\ \/ /\ Type[cur] \in registered
        /\ Alloc("listener", "name", "failed")
        /\ sock' = IF cur = Login THEN 0 ELSE sock
     \/ Type[cur] \notin registered /\ GoOn("failed") /\ UNCHANGED <<heap, sock>>
  /\ UNCHANGED <<addrinfo, files, ssock, shost, moreVars>>

AllocName ==
  /\ pc = "name"
  /\ Alloc("name", "mgr", "alloc_fail")
  /\ UNCHANGED fdVars

\* command_manager_create, then the listener's init; enet_listener_init cannot
\* fail and keeps nothing of interest here.
AllocManager ==
  /\ pc = "mgr"
  /\ \/ /\ {Set[cur], Protocol[cur]} \subseteq registered
        /\ Alloc("mgr", IF cur = Login THEN "init" ELSE "add", "mgr_fail")
     \/ /\ ~({Set[cur], Protocol[cur]} \subseteq registered)
        /\ GoOn("mgr_fail") /\ UNCHANGED heap
  /\ UNCHANGED fdVars

\* tcp_listener_init finds sock # -1 and calls tcp_listener_exit.
CloseStale ==
  /\ pc = "init"
  /\ Close(sock, "listening")
  /\ sock' = NoFd
  /\ GoOn("getaddrinfo")
  /\ UNCHANGED <<heap, addrinfo, ssock, shost, deaf>>

GetAddrInfo ==
  /\ pc = "getaddrinfo"
  /\ \/ addrinfo' = TRUE /\ GoOn("socket")
     \/ GoOn("init_fail") /\ UNCHANGED addrinfo
  /\ UNCHANGED <<heap, files, ssock, sock, shost, moreVars>>

\* The first of two sockets: nobody keeps its descriptor.
FirstSocket ==
  /\ pc = "socket"
  /\ \/ \E fd \in Fds : Open(fd, "stray") /\ GoOn("socket2")
     \/ GoOn("init_fail") /\ UNCHANGED files
  /\ UNCHANGED <<heap, addrinfo, ssock, sock, shost, moreVars>>

SecondSocket ==
  /\ pc = "socket2"
  /\ \/ \E fd \in Fds : Open(fd, "listening") /\ ssock' = fd /\ GoOn("bind")
     \/ GoOn("init_fail") /\ UNCHANGED <<files, ssock>>
  /\ UNCHANGED <<heap, addrinfo, sock, shost, moreVars>>

Bind ==
  /\ pc = "bind"
  /\ \/ GoOn("listen") /\ UNCHANGED <<files, misclosed>>
     \/ Close(ssock, "listening") /\ GoOn("init_fail")
  /\ UNCHANGED <<heap, addrinfo, ssock, sock, shost, deaf>>

\* The socket is listening but stays unknown to the listener.
ListenForgotten ==
  /\ pc = "listen"
  /\ addrinfo' = FALSE /\ GoOn("add")
  /\ UNCHANGED <<heap, files, ssock, sock, shost, moreVars>>

Listen ==
  /\ pc = "listen"
  /\ \/ addrinfo' = FALSE /\ sock' = ssock /\ GoOn("add")
     \/ GoOn("init_fail") /\ UNCHANGED <<addrinfo, sock>>
  /\ UNCHANGED <<heap, files, ssock, shost, moreVars>>

\* The label init_fail, with one label left out.
InitFailTooFar ==
  /\ pc = "init_fail"
  /\ heap' = heap \ {<<cur, "mgr">>}
  /\ GoOn("alloc_fail")
  /\ UNCHANGED fdVars

InitFail ==
  /\ pc = "init_fail"
  /\ heap' = heap \ {<<cur, "mgr">>}
  /\ GoOn("mgr_fail")
  /\ UNCHANGED fdVars

MgrFail ==
  /\ pc = "mgr_fail"
  /\ heap' = heap \ {<<cur, "name">>}
  /\ GoOn("alloc_fail")
  /\ UNCHANGED fdVars

AllocFail ==
  /\ pc = "alloc_fail"
  /\ heap' = heap \ {<<cur, "listener">>}
  /\ GoOn("failed")
  /\ UNCHANGED fdVars

\* list_add to net_listeners.
AddListener ==
  /\ pc = "add"
  /\ created' = created \cup {cur}
  /\ cur' = Game
  /\ pc' = IF cur = Login THEN "create" ELSE "start"
  /\ UNCHANGED <<upVars, i, registered, heap, fdVars, running>>
-----------------------------------------------------------------------------
(***************************************************************************)
(* net_listener_start, whose result main ignores, and the loop.            *)
(***************************************************************************)
\* tcp_listener_start listens again; when that fails it closes the socket and
\* leaves server->sock as it is.
StartLogin ==
  /\ pc = "start"
  /\ \/ GoOn("start_game") /\ UNCHANGED <<files, moreVars>>
     \/ Close(sock, "listening") /\ deaf' = TRUE /\ GoOn("start_game")
  /\ UNCHANGED <<heap, addrinfo, ssock, sock, shost>>

\* enet_listener_start.
StartGame ==
  /\ pc = "start_game"
  /\ \/ \E fd \in Fds : Open(fd, "udp") /\ shost' = fd /\ GoOn("loop")
     \/ shost' = NoFd /\ GoOn("loop") /\ UNCHANGED files
  /\ UNCHANGED <<heap, addrinfo, ssock, sock, moreVars>>

\* tcp_listener_poll: select fails on a closed descriptor, accept on one that
\* is not a listening socket.
ServeLogin ==
  /\ pc = "loop"
  /\ GoOn("poll_game")
  /\ \/ /\ files[sock] = "listening"
        /\ \E fd \in Fds : Open(fd, "client") /\ UNCHANGED misclosed
     \/ \E fd \in Fds : files[fd] = "client" /\ ~IsFree(sock) /\ Close(fd, "client")
     \/ UNCHANGED <<files, misclosed>>
  /\ UNCHANGED <<heap, addrinfo, ssock, sock, shost, deaf>>

\* A loop that does not look at running.
PollLoginForever == ServeLogin

PollLogin == running /\ ServeLogin

\* enet_host_service dereferences the host.
PollGame ==
  /\ pc = "poll_game"
  /\ GoOn(IF shost = NoFd THEN "crashed" ELSE "loop")
  /\ UNCHANGED <<heap, fdVars>>

ExitHandler ==
  /\ ~Ended
  /\ running' = FALSE
  /\ UNCHANGED <<pc, upVars, i, registered, cur, heap, created, fdVars>>
-----------------------------------------------------------------------------
(***************************************************************************)
(* The way down: net_listener_destroy twice, modules_exit, subsys_exit     *)
(* (which does nothing).                                                   *)
(***************************************************************************)
\* modules_exit before the listeners are destroyed.
LoopExitUnloads ==
  /\ pc = "loop" /\ ~running
  /\ pc' = "unload"
  /\ i' = Len(table)
  /\ UNCHANGED <<upVars, registered, cur, heap, created, fdVars, running>>

LoopExit ==
  /\ pc = "loop" /\ ~running
  /\ pc' = "destroy"
  /\ cur' = Login
  /\ UNCHANGED <<upVars, i, registered, heap, created, fdVars, running>>

DestroyLogin ==
  /\ pc = "destroy" /\ cur = Login
  /\ Close(sock, "listening")
  /\ sock' = NoFd
  /\ created' = created \ {Login}
  /\ heap' = heap \ ({Login} \X Parts)
  /\ cur' = Game
  /\ UNCHANGED <<pc, upVars, i, registered, addrinfo, ssock, shost, running, deaf>>

\* ENet ignores a host that is NULL (SIGINT came before the first poll).
DestroyGame ==
  /\ pc = "destroy" /\ cur = Game
  /\ IF shost = NoFd THEN UNCHANGED <<files, misclosed>> ELSE Close(shost, "udp")
  /\ shost' = NoFd
  /\ created' = created \ {Game}
  /\ heap' = heap \ ({Game} \X Parts)
  /\ pc' = "unload"
  /\ i' = Len(table)
  /\ UNCHANGED <<upVars, registered, cur, addrinfo, ssock, sock, running, deaf>>

\* json_proto_mod_exit registers the protocol, which is registered already.
ModuleExit ==
  /\ pc = "unload" /\ i >= 1
  /\ registered' = registered \ ({table[i]} \ {Protocol[Login]})
  /\ i' = i - 1
  /\ UNCHANGED <<pc, upVars, cur, heap, created, fdVars, running>>

\* A loop over the table that stops at i > 0, counting from 0.
ExitEarly ==
  /\ pc = "unload" /\ i <= 1
  /\ pc' = "exited"
  /\ UNCHANGED <<upVars, i, registered, cur, heap, created, fdVars, running>>

Exit ==
  /\ pc = "unload" /\ i = 0
  /\ pc' = "exited"
  /\ UNCHANGED <<upVars, i, registered, cur, heap, created, fdVars, running>>

ComingUp ==
  \/ SubsysInit \/ TableMissing \/ ModuleInit \/ NullHead \/ ModulesDone
  \/ Create \/ AllocName \/ AllocManager
  \/ CloseStale \/ GetAddrInfo \/ FirstSocket \/ SecondSocket \/ Bind \/ Listen
  \/ InitFail \/ MgrFail \/ AllocFail \/ AddListener

Up == StartLogin \/ StartGame \/ PollLogin \/ PollGame

GoingDown == LoopExit \/ DestroyLogin \/ DestroyGame \/ ModuleExit \/ Exit

ProcessStep == ComingUp \/ Up \/ GoingDown

Done == Ended /\ UNCHANGED vars

Next == ProcessStep \/ ExitHandler \/ Done

\* The operating system runs the process whenever it can take a step.
Spec == Init /\ [][Next]_vars /\ WF_vars(ProcessStep)
-----------------------------------------------------------------------------
(***************************************************************************)
(* Properties.                                                             *)
(***************************************************************************)
Serving == pc \in {"start", "start_game", "loop", "poll_game"}

\* Every variable keeps to the values the code can give it.
TypeOK ==
  /\ pc \in {"subsys", "modules", "create", "name", "mgr", "init", "getaddrinfo",
             "socket", "socket2", "bind", "listen", "init_fail", "mgr_fail",
             "alloc_fail", "add", "start", "start_game", "loop", "poll_game",
             "destroy", "unload", "exited", "failed", "crashed"}
  /\ table \in Tables
  /\ i \in 0 .. Len(table) + 1
  /\ registered \subseteq Modules
  /\ cur \in Listeners
  /\ heap \subseteq Listeners \X Parts
  /\ created \subseteq Listeners
  /\ files \in [Fds -> {"free", "std", "stray", "listening", "udp", "client"}]
  /\ {ssock, sock, shost} \subseteq Fds \cup {NoFd}
  /\ {ready, addrinfo, running, starved, deaf} \subseteq BOOLEAN
  /\ misclosed \subseteq Fds \cup {NoFd}

\* A listener points to a type, a command set and a protocol: they stay in
\* their registries for as long as the listener has a command manager, however
\* the modules are ordered in the binary.
PartsInUseRegistered ==
  \A l \in Listeners : <<l, "mgr">> \in heap => Uses(l) \subseteq registered

\* net_listener_create builds a whole listener or nothing, whichever call in it
\* fails, and net_listener_destroy leaves nothing.
WholeListenersOnly ==
  (Serving \/ pc \in {"failed", "unload", "exited"}) => heap = created \X Parts

\* As long as the second listen succeeds, the login listener's descriptor is
\* its own listening socket while the loop runs, and nothing is closed by
\* someone who does not own it, descriptor 0 (in the first init) aside.
DescriptorsOwned ==
  ~deaf =>
    /\ misclosed \subseteq {0}
    /\ Serving => sock \in Fds /\ files[sock] = "listening"

\* The way up and the way down crash only for want of an ENet host, which main
\* does not check, or of a table; no other malloc or call that fails does it.
CrashesExplained ==
  (pc = "crashed" /\ ~starved) => created = Listeners /\ shost = NoFd

\* A process that had its tables and exits normally has taken everything out of
\* the registries again, but for the protocol that json_proto_mod_exit leaves
\* there.
RegistriesEmptied ==
  (pc = "exited" /\ ~starved) => registered = {Protocol[Login]}

\* After SIGINT, at whatever moment of starting, serving or stopping it comes,
\* the process ends.
ShutdownCompletes == ~running ~> Ended
=============================================================================
