------------------------------- MODULE Worlds -------------------------------
(***************************************************************************)
(* The server process: the main loop of main.c composed with the entities, *)
(* the map, the command queue and the two listeners.                       *)
(*                                                                         *)
(* The process has one thread.  A step is one round of a loop: of the main *)
(* loop's polls, of the scan over the descriptors in tcp_listener_poll, of *)
(* command_dispatch.  Only the SIGINT handler comes between two steps.     *)
(***************************************************************************)
EXTENDS Tilemap, Commands, TcpServer, EnetServer

VARIABLES
  pc,           \* where the main loop stands, or how the process ended
  running,      \* the global that the SIGINT handler clears
  strayOnMap,   \* history: the map's list has held a freed block
  carried       \* history: this turn of the loop began with commands queued

vars == <<entityVars, tilemapVars, commandVars, tcpVars, enetVars,
          pc, running, strayOnMap, carried>>

gameVars == <<entityVars, links, strayOnMap>>

Stopped == pc \in {"exited", "crashed", "hung", "overrun"}

Init ==
  /\ EntitiesInit
  /\ TilemapInit
  /\ CommandsInit
  /\ TcpInit
  /\ EnetInit
  /\ pc = "login"
  /\ running = TRUE
  /\ strayOnMap = FALSE
  /\ carried = FALSE

\* The process ends in the middle of a step.
End(how) ==
  /\ pc' = how
  /\ bcast' = NULL
  /\ UNCHANGED <<gameVars, commandVars, tcpVars, enetVars, running, carried>>

\* A wild access: the kernel ends the process (SIGSEGV, or abort from malloc
\* or an assertion).
Crash == End("crashed")
-----------------------------------------------------------------------------
(***************************************************************************)
(* The callbacks of the listeners.                                         *)
(***************************************************************************)

\* g_connect.
GConnect(a, client) ==
  /\ PlayerCreate(a, client)
  /\ ClearMapList(a)
  /\ PlayerRegister(a)
  /\ UNCHANGED strayOnMap

\* g_disconnect frees the player whose client is gone.  It does not take the
\* entity off its map, nor out of the commands in the queue.
GDisconnect(client) ==
  \/ \E a \in EntitiesOf(client) :
       /\ PlayerUnregister(a)
       /\ PlayerDestroy(a)
       /\ strayOnMap' = (strayOnMap \/ ent[a].onMap)
       /\ UNCHANGED links
  \/ EntitiesOf(client) = {} /\ UNCHANGED gameVars

\* net_listener_generic_client_sent and command_manager_handle: message d in
\* the name of a client id.  Nothing is queued when the client has no entity,
\* when the message is no command, or when one of the copies made of it on the
\* way cannot be allocated.
ClientSent(client, d) ==
  \/ \E a \in EntitiesOf(client), j \in Interpret(d) \ {NULL} :
       Len(queue) < MaxQueue /\ QueueUp(a, ent[a].id, j)
  \/ /\ EntitiesOf(client) = {} \/ NULL \in Interpret(d) \/ AllocMayFail
     /\ UNCHANGED queue

\* Inside the same call, json.c exits the process when malloc fails.
JsonOutOfMemory(client) ==
  /\ AllocMayFail
  /\ EntitiesOf(client) # {}
  /\ Crash
-----------------------------------------------------------------------------
(***************************************************************************)
(* net_listener_poll(login): tcp_listener_poll.                            *)
(***************************************************************************)

\* The listening socket is readable: accept one connection and return.
AcceptClient(fd, a) ==
  /\ pc = "login" /\ running
  /\ TcpEnter(fd)
  /\ GConnect(a, fd)
  /\ pc' = "game"
  /\ bcast' = NULL
  /\ UNCHANGED <<commandVars, enetVars, running, carried>>

\* s_player_create returns NULL and s_player_register dereferences it, or the
\* assertion in s_entity_init fails.
AcceptWithoutMemory(fd) ==
  /\ pc = "login" /\ running
  /\ AllocMayFail
  /\ LowestFree(fd)
  /\ Crash

\* PollNothing in a loop that does not look at running.
PollNothingForever ==
  /\ pc = "login"
  /\ pc' = "game"
  /\ bcast' = NULL
  /\ UNCHANGED <<gameVars, commandVars, tcpVars, enetVars, running, carried>>

\* accept fails (the connection is gone, or no descriptor is free), or select
\* is interrupted: the poll returns.
PollNothing ==
  /\ pc = "login" /\ running
  /\ pc' = "game"
  /\ bcast' = NULL
  /\ UNCHANGED <<gameVars, commandVars, tcpVars, enetVars, running, carried>>

\* select reports clients only.
SelectClients(ready) ==
  /\ pc = "login" /\ running
  /\ TcpSelect(ready)
  /\ pc' = "scan"
  /\ bcast' = NULL
  /\ UNCHANGED <<gameVars, commandVars, enetVars, running, carried>>

ScanData(d) ==
  /\ pc = "scan" /\ Scanning /\ Readable
  /\ ClientSent(at, d)
  /\ TcpAdvance
  /\ UNCHANGED <<gameVars, bcast, budget, enetVars, pc, running, carried>>

ScanDataWithoutMemory ==
  /\ pc = "scan" /\ Scanning /\ Readable
  /\ JsonOutOfMemory(at)

ScanHangup ==
  /\ pc = "scan" /\ Scanning /\ Readable
  /\ GDisconnect(at)
  /\ TcpDrop
  /\ UNCHANGED <<bcast, commandVars, enetVars, pc, running, carried>>

ScanSkip ==
  /\ pc = "scan" /\ Scanning /\ ~Readable
  /\ TcpAdvance
  /\ UNCHANGED <<gameVars, bcast, commandVars, enetVars, pc, running, carried>>

ScanEnd ==
  /\ pc = "scan" /\ ~Scanning
  /\ TcpReturn
  /\ pc' = "game"
  /\ UNCHANGED <<gameVars, bcast, commandVars, enetVars, running, carried>>
-----------------------------------------------------------------------------
(***************************************************************************)
(* net_listener_poll(game): enet_listener_poll, at most one event.  The    *)
(* callbacks t_connect and t_disconnect only print, so an ENet client has  *)
(* no entity of its own.                                                   *)
(***************************************************************************)

\* The call of command_dispatch that follows the poll.
BeginDispatch ==
  /\ pc' = "dispatch"
  /\ budget' = Dispatch
  /\ UNCHANGED <<bcast, tcpVars, running, carried>>

GameNothing ==
  /\ pc = "game"
  /\ BeginDispatch
  /\ UNCHANGED <<gameVars, queue, enetVars>>

GameConnect(p) ==
  /\ pc = "game"
  /\ \E stored \in {TRUE, ~AllocMayFail} : EnetConnect(p, stored)
  /\ BeginDispatch
  /\ UNCHANGED <<gameVars, queue>>

GameDisconnect(p) ==
  /\ pc = "game"
  /\ EnetDisconnect(p)
  /\ BeginDispatch
  /\ UNCHANGED <<gameVars, queue>>

\* json_validate is not told where the packet ends.  It reads up to the next zero
\* byte, in the packet or behind it, and takes what it finds for message d.
GameReceive(p, d) ==
  /\ pc = "game"
  /\ p \in linked
  /\ ClientSent(ClientId(p), d)
  /\ BeginDispatch
  /\ UNCHANGED <<gameVars, enetVars>>

\* What lies behind the packet cannot be read; or the text, which may be as long as
\* ENet lets a packet be, nests deeper than the stack holds calls of parse_value.
GameReceiveOverrun(p) ==
  /\ pc = "game"
  /\ p \in linked
  /\ EntitiesOf(ClientId(p)) # {}
  /\ End("overrun")

GameReceiveWithoutMemory(p) ==
  /\ pc = "game"
  /\ p \in linked
  /\ JsonOutOfMemory(ClientId(p))
-----------------------------------------------------------------------------
(***************************************************************************)
(* command_dispatch and command_join_map_handle.                           *)
(***************************************************************************)
Command == Head(queue)

\* The handler places the entity: it is on no map yet and the bounds test of
\* tilemap_add_entity passes.
Joins ==
  /\ pc = "dispatch" /\ ~DispatchDone
  /\ ~ent[Command.entity].onMap
  /\ InBounds(Command.x, Command.y)

DispatchReturn ==
  /\ pc = "dispatch" /\ DispatchDone
  /\ pc' = "login"
  /\ budget' = 0
  /\ carried' = (queue # << >>)
  /\ bcast' = NULL
  /\ UNCHANGED <<gameVars, queue, tcpVars, enetVars, running>>

\* The handler finds the entity on a map, or the position off the map.
JoinIgnored ==
  /\ pc = "dispatch" /\ ~DispatchDone
  /\ ent[Command.entity].onMap \/ ~InBounds(Command.x, Command.y)
  /\ TakeCommand
  /\ bcast' = NULL
  /\ UNCHANGED <<gameVars, tcpVars, enetVars, pc, running, carried>>

JoinEffect ==
  /\ Joins
  /\ Place(Command.entity, Command.x, Command.y)
  /\ TakeCommand
  /\ strayOnMap' = (strayOnMap \/ Command.entity \notin allocated)
  /\ UNCHANGED <<allocated, entities, players, nextId,
                 tcpVars, enetVars, running, carried>>

\* s_vmap_bclist_create, now that the entity is on the map: the list may not be
\* allocated, and then there is none.
BclistCreate(a) ==
  { Broadcast(ent', links', a) } \cup (IF AllocMayFail THEN {NULL} ELSE {})

\* The entity is placed, its broadcast list made and printed.
Join ==
  /\ JoinEffect
  /\ LoopEnds(links', MapHead)
  /\ bcast' \in BclistCreate(Command.entity)
  /\ UNCHANGED pc

\* The map's list has become a cycle that misses its head: the loop of
\* tilemap_bclist_create never ends.
JoinHangs ==
  /\ JoinEffect
  /\ ~LoopEnds(links', MapHead) /\ ~LoopRunsOff(links', MapHead)
  /\ bcast' = NULL
  /\ pc' = "hung"

\* The blocks a join reads or writes.
Touched ==
  LET m == ListAdd(links, MapHead, Command.entity)
  IN  (Visited(links, MapHead) \cup Visited(m, MapHead)) \ {MapHead}

\* The loop meets a null pointer, or a freed block is touched that malloc has
\* given back or handed to someone else.  (Otherwise the block still holds what
\* it held, and the steps above are the outcome.)
DispatchCrashes ==
  /\ pc = "dispatch" /\ ~DispatchDone
  /\ \/ Command.entity \notin allocated
     \/ /\ Joins
        /\ \/ LoopRunsOff(ListAdd(links, MapHead, Command.entity), MapHead)
           \/ ~(Touched \subseteq allocated)
  /\ Crash
-----------------------------------------------------------------------------
\* SIGINT: exit_handler.
ExitHandler ==
  /\ ~Stopped
  /\ running' = FALSE
  /\ UNCHANGED <<entityVars, tilemapVars, commandVars, tcpVars, enetVars,
                 pc, strayOnMap, carried>>

\* The loop of main ends, the listeners are destroyed and the process exits.
LoopExit ==
  /\ pc = "login" /\ ~running
  /\ pc' = "exited"
  /\ bcast' = NULL
  /\ UNCHANGED <<gameVars, commandVars, tcpVars, enetVars, running, carried>>

LoginStep ==
  \/ \E fd \in ClientFds, a \in Addrs : AcceptClient(fd, a)
  \/ \E fd \in ClientFds : AcceptWithoutMemory(fd)
  \/ PollNothing
  \/ \E ready \in SUBSET ClientFds : SelectClients(ready)
  \/ LoopExit

ScanStep ==
  \/ \E d \in Messages : ScanData(d)
  \/ ScanDataWithoutMemory
  \/ ScanHangup
  \/ ScanSkip
  \/ ScanEnd

GameStep ==
  \/ GameNothing
  \/ \E p \in Peers :
       \/ GameConnect(p)
       \/ GameDisconnect(p)
       \/ GameReceiveOverrun(p)
       \/ GameReceiveWithoutMemory(p)
       \/ \E d \in Messages : GameReceive(p, d)

DispatchStep ==
  \/ DispatchReturn
  \/ JoinIgnored
  \/ Join
  \/ JoinHangs
  \/ DispatchCrashes

\* What the process itself does next.
ServerStep == LoginStep \/ ScanStep \/ GameStep \/ DispatchStep

\* A process that has ended does nothing any more.
Done == Stopped /\ UNCHANGED vars

Next == ServerStep \/ ExitHandler \/ Done

\* The operating system runs the process whenever it can take a step.
Spec == Init /\ [][Next]_vars /\ WF_vars(ServerStep)
-----------------------------------------------------------------------------
(***************************************************************************)
(* Properties.                                                             *)
(***************************************************************************)

\* The values the variables take, component by component.
EntityRecord  == [id : Nat, client : Int, onMap : BOOLEAN, x : Int, y : Int]
LinkMemory    == [next : [Cells -> Cells \cup {NULL}],
                  prev : [Cells -> Cells \cup {NULL}]]
CommandRecord == [entity : Addrs, id : Nat, x : Int, y : Int]

EntitiesTypeOK ==
  /\ ent \in [Addrs -> EntityRecord]
  /\ allocated \subseteq Addrs
  /\ entities \subseteq Addrs
  /\ players \subseteq Addrs
  /\ nextId \in Nat

TilemapTypeOK ==
  /\ links \in LinkMemory
  /\ bcast \in [from : Addrs, to : SUBSET Addrs] \cup {NULL}

CommandsTypeOK ==
  /\ queue \in Seq(CommandRecord)
  /\ budget \in 0 .. Dispatch

TcpTypeOK ==
  /\ master \subseteq Sock .. LastFd
  /\ fdmin \in Sock .. LastFd
  /\ fdmax \in Sock .. LastFd
  /\ readFds \subseteq Sock .. LastFd
  /\ at \in Sock .. LastFd + 1

EnetTypeOK ==
  /\ linked \subseteq Peers
  /\ clients \in [Peers -> Nat \cup {NULL}]
  /\ nextClientId \in Nat

LoopTypeOK ==
  /\ pc \in {"login", "scan", "game", "dispatch",
             "exited", "crashed", "hung", "overrun"}
  /\ running \in BOOLEAN
  /\ strayOnMap \in BOOLEAN
  /\ carried \in BOOLEAN

\* Every variable keeps to the values the code can give it.
TypeOK ==
  /\ EntitiesTypeOK
  /\ TilemapTypeOK
  /\ CommandsTypeOK
  /\ TcpTypeOK
  /\ EnetTypeOK
  /\ LoopTypeOK

\* Every open client socket of the login listener has exactly one player, and
\* every player in memory is registered twice, as an entity and as a player,
\* for a socket that is open: connecting and disconnecting never leave half of
\* it behind, in whatever order descriptors are closed and reused.
RegistryMatchesSockets ==
  /\ entities = allocated
  /\ players = allocated
  /\ { ent[a].client : a \in entities } = master \ {Sock}
  /\ \A a, b \in entities : ent[a].client = ent[b].client => a = b

\* The scan of tcp_listener_poll passes every open descriptor, so that no
\* client is left unserved.
ScanCoversSockets == master \subseteq fdmin .. fdmax

\* Every ENet peer that is connected has an entry in the table, unless malloc
\* failed for it (its messages then go out as those of client 0), and no two
\* entries have the same client id.
PeersIdentified ==
  /\ ~AllocMayFail => \A p \in linked : clients[p] # NULL
  /\ \A p, q \in linked : clients[p] # NULL /\ clients[p] = clients[q] => p = q

\* A turn of the loop that began with an empty queue holds no command for a
\* player that has left: a client that sends and then hangs up does so in two
\* turns, and the dispatcher runs in between.
NoStaleCommand ==
  ~carried =>
    \A k \in 1 .. Len(queue) :
      /\ queue[k].entity \in entities
      /\ ent[queue[k].entity].id = queue[k].id

\* One command per descriptor of the login listener and one per poll of the
\* game listener.
QuotaSuffices == LastFd - Sock + 1 <= Dispatch

\* command_dispatch(10) keeps up as long as 10 covers a turn's messages.
QuotaKeepsUp == QuotaSuffices => ~carried

\* Until a player leaves while on the map, the map's list is well formed and
\* holds exactly the registered entities that are on the map.
MapListSound ==
  ~strayOnMap =>
    /\ ListCheck(links, MapHead)
    /\ Visited(links, MapHead) = { a \in entities : ent[a].onMap }

\* Until a player leaves while on the map, no order of messages, connections and
\* disconnections makes the server touch a block it does not own, meet a null
\* pointer or turn for ever; a failing malloc does, and is set aside.  A packet of
\* ENet that json_validate cannot take to its end (GameReceiveOverrun) is the one
\* message that ends the process.
StaysUp ==
  ~strayOnMap /\ ~carried /\ ~AllocMayFail => pc \notin {"crashed", "hung"}

\* The players whose position is within the range of sight of a's.
InSightOf(a) ==
  { b \in entities \ {a} :
      LET dx == ent[b].x - ent[a].x
          dy == ent[b].y - ent[a].y
      IN  ent[b].onMap /\ dx * dx + dy * dy <= Visibility * Visibility }

\* Until a player leaves while on the map, a join is told to exactly the other
\* players on the map within sight of the place joined.
BroadcastExact ==
  bcast # NULL /\ ~strayOnMap =>
    /\ bcast.from \in entities
    /\ bcast.to = InSightOf(bcast.from)

\* The check list_debug(h) at the end of list_add (compiled in by
\* CCAN_LIST_DEBUG) when the handler adds an entity to the map's list.
ListDebugPasses ==
  Joins => ListCheck(ListAdd(links, MapHead, Command.entity), MapHead)

\* The main loop turns for ever: no scan and no dispatch goes on without end
\* (a wedged map list, "hung", is counted as an end of the process).
MainLoopTurns == []<>(pc = "login" \/ Stopped)

\* After SIGINT the process ends.
ShutdownCompletes == ~running ~> Stopped
=============================================================================
