---------------------------- MODULE WorldsProofs ----------------------------
(***************************************************************************)
(* Theorems about the server for every number of descriptors, blocks,      *)
(* peers and messages, and every quota of the dispatcher.                  *)
(***************************************************************************)
EXTENDS PlayerSessionsRefinement, CcanListProofs, TLAPS

USE EntitiesAssumption, TilemapAssumption, CommandsAssumption,
    TcpAssumption, EnetAssumption
    DEF EntitiesAssumption, TilemapAssumption, CommandsAssumption,
        TcpAssumption, EnetAssumption, Cells

-----------------------------------------------------------------------------
(***************************************************************************)
(* Types.                                                                  *)
(***************************************************************************)
LEMMA TruncateType == \A n \in Int : Truncate(n) \in Int
BY DEF Truncate

LEMMA CastsType ==
  ASSUME NEW n \in Int \cup {NotANumber, OutOfRange}
  PROVE  Casts(n) \subseteq Int
BY TruncateType DEF Casts

\* What a message asks for is a pair of integers, or nothing.
LEMMA InterpretType ==
  ASSUME NEW d \in Messages, NEW j \in Interpret(d) \ {NULL}
  PROVE  j \in [x : Int, y : Int]
<1>1. Casts(d.x) \subseteq Int /\ Casts(d.y) \subseteq Int
  BY CastsType
<1> QED
  BY <1>1 DEF Interpret, JoinMapCreate

LEMMA ListAddType ==
  ASSUME NEW m \in LinkMemory, NEW n \in Cells
  PROVE  ListAdd(m, MapHead, n) \in LinkMemory
BY DEF ListAdd, LinkMemory

\* The fields tilemap_add_entity writes.
LEMMA PlacedType ==
  ASSUME NEW e \in EntityRecord, NEW x \in Int, NEW y \in Int
  PROVE  [e EXCEPT !.onMap = TRUE, !.x = x, !.y = y] \in EntityRecord
<1>1. [e EXCEPT !.onMap = TRUE] \in EntityRecord
  BY DEF EntityRecord
<1>2. [[e EXCEPT !.onMap = TRUE] EXCEPT !.x = x] \in EntityRecord
  BY <1>1 DEF EntityRecord
<1> QED
  BY <1>2 DEF EntityRecord

LEMMA InitTyped == Init => TypeOK
<1> SUFFICES ASSUME Init PROVE TypeOK
  OBVIOUS
<1>1. EntitiesTypeOK
  BY DEF Init, EntitiesInit, EntitiesTypeOK, EntityRecord, Fresh
<1>2. TilemapTypeOK
  BY DEF Init, TilemapInit, TilemapTypeOK, LinkMemory
<1>3. CommandsTypeOK
  BY DEF Init, CommandsInit, CommandsTypeOK
<1>4. TcpTypeOK
  BY DEF Init, TcpInit, TcpTypeOK
<1>5. EnetTypeOK
  BY DEF Init, EnetInit, EnetTypeOK
<1>6. LoopTypeOK
  BY DEF Init, LoopTypeOK
<1> QED
  BY <1>1, <1>2, <1>3, <1>4, <1>5, <1>6 DEF TypeOK

\* What a step leaves alone keeps its type.
LEMMA UnchangedTyped ==
  /\ EntitiesTypeOK /\ UNCHANGED entityVars => EntitiesTypeOK'
  /\ TilemapTypeOK /\ UNCHANGED tilemapVars => TilemapTypeOK'
  /\ CommandsTypeOK /\ UNCHANGED commandVars => CommandsTypeOK'
  /\ TcpTypeOK /\ UNCHANGED tcpVars => TcpTypeOK'
  /\ EnetTypeOK /\ UNCHANGED enetVars => EnetTypeOK'
BY DEF EntitiesTypeOK, entityVars, TilemapTypeOK, tilemapVars, CommandsTypeOK,
       commandVars, TcpTypeOK, tcpVars, EnetTypeOK, enetVars

LEMMA ClientSentTyped ==
  ASSUME CommandsTypeOK, EntitiesTypeOK, NEW client, NEW d \in Messages,
         ClientSent(client, d)
  PROVE  queue' \in Seq(CommandRecord)
<1>1. CASE UNCHANGED queue
  BY <1>1 DEF CommandsTypeOK
<1>2. ASSUME NEW a \in EntitiesOf(client), NEW j \in Interpret(d) \ {NULL},
             QueueUp(a, ent[a].id, j)
      PROVE  queue' \in Seq(CommandRecord)
  <2> DEFINE c == [entity |-> a, id |-> ent[a].id, x |-> j.x, y |-> j.y]
  <2>1. a \in Addrs /\ ent[a].id \in Nat
    BY DEF EntitiesTypeOK, EntityRecord, EntitiesOf
  <2>2. j.x \in Int /\ j.y \in Int
    BY InterpretType
  <2>3. c \in CommandRecord
    BY <2>1, <2>2 DEF CommandRecord
  <2> QED
    BY <1>2, <2>3 DEF QueueUp, CommandsTypeOK
<1> QED
  BY <1>1, <1>2 DEF ClientSent

\* The end of the process in the middle of a step.
LEMMA EndTyped ==
  ASSUME TypeOK, NEW how \in {"crashed", "overrun"}, End(how)
  PROVE  TypeOK'
<1>1. TilemapTypeOK' /\ LoopTypeOK'
  BY DEF TypeOK, End, TilemapTypeOK, LoopTypeOK, gameVars
<1> QED
  BY <1>1, UnchangedTyped DEF TypeOK, End, gameVars

LEMMA CrashTyped == TypeOK /\ Crash => TypeOK'
BY EndTyped DEF Crash

LEMMA ConnectTyped ==
  ASSUME EntitiesTypeOK, links \in LinkMemory,
         NEW a \in Addrs, NEW client \in Int, GConnect(a, client)
  PROVE  EntitiesTypeOK' /\ links' \in LinkMemory
<1>1. Fresh(nextId, client) \in EntityRecord
  BY DEF EntitiesTypeOK, EntityRecord, Fresh
<1>2. EntitiesTypeOK'
  BY <1>1 DEF GConnect, PlayerCreate, PlayerRegister, EntitiesTypeOK
<1>3. links' \in LinkMemory
  BY DEF GConnect, ClearMapList, LinkMemory
<1> QED
  BY <1>2, <1>3

LEMMA DisconnectTyped ==
  ASSUME EntitiesTypeOK, links \in LinkMemory, strayOnMap \in BOOLEAN,
         NEW client, GDisconnect(client)
  PROVE  EntitiesTypeOK' /\ links' \in LinkMemory /\ strayOnMap' \in BOOLEAN
<1>1. CASE UNCHANGED gameVars
  BY <1>1, UnchangedTyped DEF gameVars
<1>2. ASSUME NEW a \in EntitiesOf(client), PlayerUnregister(a), PlayerDestroy(a),
             strayOnMap' = (strayOnMap \/ ent[a].onMap), UNCHANGED links
      PROVE  EntitiesTypeOK' /\ links' \in LinkMemory /\ strayOnMap' \in BOOLEAN
  BY <1>2 DEF PlayerUnregister, PlayerDestroy, EntitiesTypeOK, EntityRecord
<1> QED
  BY <1>1, <1>2 DEF GDisconnect

\* The records a join writes and prints.
LEMMA JoinTyped ==
  ASSUME TypeOK, JoinEffect
  PROVE  /\ EntitiesTypeOK' /\ links' \in LinkMemory /\ CommandsTypeOK'
         /\ TcpTypeOK' /\ EnetTypeOK'
         /\ strayOnMap' \in BOOLEAN /\ running' \in BOOLEAN /\ carried' \in BOOLEAN
         /\ Command.entity \in Addrs
<1> DEFINE c == Command
<1>1. queue # << >> /\ budget > 0
  BY DEF JoinEffect, Joins, DispatchDone, TypeOK, CommandsTypeOK
<1>2. c \in CommandRecord /\ queue' \in Seq(CommandRecord) /\ budget' \in 0 .. Dispatch
  BY <1>1 DEF Command, TypeOK, CommandsTypeOK, JoinEffect, TakeCommand
<1>3. c.entity \in Addrs /\ c.x \in Int /\ c.y \in Int
  BY <1>2 DEF CommandRecord
<1>4. [ent[c.entity] EXCEPT !.onMap = TRUE, !.x = c.x, !.y = c.y] \in EntityRecord
  BY <1>3, PlacedType DEF TypeOK, EntitiesTypeOK
<1>5. EntitiesTypeOK'
  BY <1>3, <1>4 DEF JoinEffect, Place, TypeOK, EntitiesTypeOK
<1>6. links' \in LinkMemory
  BY <1>3, ListAddType DEF JoinEffect, Place, TypeOK, TilemapTypeOK
<1>7. TcpTypeOK' /\ EnetTypeOK'
  BY UnchangedTyped DEF JoinEffect, TypeOK
<1>8. strayOnMap' \in BOOLEAN /\ running' \in BOOLEAN /\ carried' \in BOOLEAN
  BY DEF JoinEffect, TypeOK, LoopTypeOK
<1> QED
  BY <1>2, <1>3, <1>5, <1>6, <1>7, <1>8 DEF CommandsTypeOK
-----------------------------------------------------------------------------
LEMMA LoginTyped == TypeOK /\ LoginStep => TypeOK'
<1> SUFFICES ASSUME TypeOK, LoginStep PROVE TypeOK'
  OBVIOUS
<1>1. ASSUME NEW fd \in ClientFds, NEW a \in Addrs, AcceptClient(fd, a)
      PROVE  TypeOK'
  <2>1. EntitiesTypeOK' /\ links' \in LinkMemory
    BY <1>1, ConnectTyped DEF AcceptClient, TypeOK, TilemapTypeOK, ClientFds
  <2>2. TcpTypeOK'
    <3>1. fd \in Sock .. LastFd
      BY DEF ClientFds
    <3>2. /\ master' = master \cup {fd} /\ UNCHANGED <<readFds, at>>
          /\ fdmin' \in {fd, fdmin} /\ fdmax' \in {fd, fdmax}
      BY <1>1 DEF AcceptClient, TcpEnter
    <3> QED
      BY <3>1, <3>2 DEF TypeOK, TcpTypeOK
  <2>3. TilemapTypeOK' /\ LoopTypeOK'
    BY <1>1, <2>1 DEF AcceptClient, GConnect, TypeOK, TilemapTypeOK, LoopTypeOK
  <2> QED
    BY <1>1, <2>1, <2>2, <2>3, UnchangedTyped DEF AcceptClient, TypeOK
<1>2. ASSUME NEW fd \in ClientFds, AcceptWithoutMemory(fd)
      PROVE  TypeOK'
  BY <1>2, CrashTyped DEF AcceptWithoutMemory
<1>3. CASE PollNothing \/ LoopExit
  <2>1. TilemapTypeOK' /\ LoopTypeOK'
    BY <1>3 DEF PollNothing, LoopExit, gameVars, TypeOK, TilemapTypeOK, LoopTypeOK
  <2> QED
    BY <1>3, <2>1, UnchangedTyped DEF PollNothing, LoopExit, gameVars, TypeOK
<1>4. ASSUME NEW ready \in SUBSET ClientFds, SelectClients(ready)
      PROVE  TypeOK'
  <2>1. TilemapTypeOK' /\ LoopTypeOK'
    BY <1>4 DEF SelectClients, gameVars, TypeOK, TilemapTypeOK, LoopTypeOK
  <2>2. TcpTypeOK'
    BY <1>4 DEF SelectClients, TcpSelect, TypeOK, TcpTypeOK, ClientFds
  <2> QED
    BY <1>4, <2>1, <2>2, UnchangedTyped DEF SelectClients, gameVars, TypeOK
<1> QED
  BY <1>1, <1>2, <1>3, <1>4 DEF LoginStep

LEMMA ScanTyped == TypeOK /\ ScanStep => TypeOK'
<1> SUFFICES ASSUME TypeOK, ScanStep PROVE TypeOK'
  OBVIOUS
<1>1. ASSUME NEW d \in Messages, ScanData(d)
      PROVE  TypeOK'
  <2>1. CommandsTypeOK'
    BY <1>1, ClientSentTyped DEF ScanData, TypeOK, CommandsTypeOK
  <2>2. TcpTypeOK'
    BY <1>1 DEF ScanData, TcpAdvance, Scanning, TypeOK, TcpTypeOK
  <2>3. TilemapTypeOK' /\ LoopTypeOK'
    BY <1>1 DEF ScanData, gameVars, TypeOK, TilemapTypeOK, LoopTypeOK
  <2> QED
    BY <1>1, <2>1, <2>2, <2>3, UnchangedTyped DEF ScanData, gameVars, TypeOK
<1>2. CASE ScanDataWithoutMemory
  BY <1>2, CrashTyped DEF ScanDataWithoutMemory, JsonOutOfMemory
<1>3. CASE ScanHangup
  <2>1. EntitiesTypeOK' /\ links' \in LinkMemory /\ strayOnMap' \in BOOLEAN
    BY <1>3, DisconnectTyped DEF ScanHangup, TypeOK, TilemapTypeOK, LoopTypeOK
  <2>2. TcpTypeOK'
    <3>1. /\ at <= fdmax /\ at' = at + 1 /\ master' \subseteq master
          /\ UNCHANGED <<fdmin, fdmax, readFds>>
      BY <1>3 DEF ScanHangup, TcpDrop, Scanning
    <3> QED
      BY <3>1 DEF TypeOK, TcpTypeOK
  <2>3. TilemapTypeOK' /\ LoopTypeOK'
    BY <1>3, <2>1 DEF ScanHangup, TypeOK, TilemapTypeOK, LoopTypeOK
  <2> QED
    BY <1>3, <2>1, <2>2, <2>3, UnchangedTyped DEF ScanHangup, TypeOK
<1>4. CASE ScanSkip \/ ScanEnd
  <2>1. TcpTypeOK'
    <3>1. CASE ScanSkip
      BY <3>1 DEF ScanSkip, TcpAdvance, Scanning, TypeOK, TcpTypeOK
    <3>2. CASE ScanEnd
      BY <3>2 DEF ScanEnd, TcpReturn, TypeOK, TcpTypeOK
    <3> QED
      BY <1>4, <3>1, <3>2
  <2>2. TilemapTypeOK' /\ LoopTypeOK'
    BY <1>4 DEF ScanSkip, ScanEnd, gameVars, TypeOK, TilemapTypeOK, LoopTypeOK
  <2> QED
    BY <1>4, <2>1, <2>2, UnchangedTyped DEF ScanSkip, ScanEnd, gameVars, TypeOK
<1> QED
  BY <1>1, <1>2, <1>3, <1>4 DEF ScanStep

LEMMA GameTyped == TypeOK /\ GameStep => TypeOK'
<1> SUFFICES ASSUME TypeOK, GameStep PROVE TypeOK'
  OBVIOUS
<1>1. ASSUME BeginDispatch, UNCHANGED gameVars
      PROVE  /\ EntitiesTypeOK' /\ TilemapTypeOK' /\ TcpTypeOK' /\ LoopTypeOK'
             /\ budget' \in 0 .. Dispatch
  <2>1. budget' \in 0 .. Dispatch
    BY <1>1 DEF BeginDispatch
  <2>2. TilemapTypeOK' /\ LoopTypeOK'
    BY <1>1 DEF BeginDispatch, gameVars, TypeOK, TilemapTypeOK, LoopTypeOK
  <2> QED
    BY <1>1, <2>1, <2>2, UnchangedTyped DEF BeginDispatch, gameVars, TypeOK
<1>2. CASE GameNothing
  BY <1>1, <1>2, UnchangedTyped DEF GameNothing, TypeOK, CommandsTypeOK
<1>3. ASSUME NEW p \in Peers, NEW stored \in BOOLEAN,
             EnetConnect(p, stored) \/ EnetDisconnect(p)
      PROVE  EnetTypeOK'
  <2>1. CASE EnetConnect(p, stored)
    BY <2>1 DEF EnetConnect, TypeOK, EnetTypeOK
  <2>2. CASE EnetDisconnect(p)
    BY <2>2 DEF EnetDisconnect, TypeOK, EnetTypeOK
  <2> QED
    BY <1>3, <2>1, <2>2
<1>4. ASSUME NEW p \in Peers, GameConnect(p) \/ GameDisconnect(p)
      PROVE  TypeOK'
  <2>1. EnetTypeOK'
    BY <1>3, <1>4 DEF GameConnect, GameDisconnect
  <2> QED
    BY <1>1, <1>4, <2>1 DEF GameConnect, GameDisconnect, TypeOK, CommandsTypeOK
<1>5. ASSUME NEW p \in Peers, NEW d \in Messages, GameReceive(p, d)
      PROVE  TypeOK'
  <2>1. CommandsTypeOK'
    BY <1>1, <1>5, ClientSentTyped DEF GameReceive, TypeOK, CommandsTypeOK
  <2> QED
    BY <1>1, <1>5, <2>1, UnchangedTyped DEF GameReceive, TypeOK
<1>6. ASSUME NEW p \in Peers, GameReceiveWithoutMemory(p)
      PROVE  TypeOK'
  BY <1>6, CrashTyped DEF GameReceiveWithoutMemory, JsonOutOfMemory
<1>7. ASSUME NEW p \in Peers, GameReceiveOverrun(p)
      PROVE  TypeOK'
  BY <1>7, EndTyped DEF GameReceiveOverrun
<1> QED
  BY <1>2, <1>4, <1>5, <1>6, <1>7 DEF GameStep

LEMMA DispatchTyped == TypeOK /\ DispatchStep => TypeOK'
<1> SUFFICES ASSUME TypeOK, DispatchStep PROVE TypeOK'
  OBVIOUS
<1>1. CASE DispatchReturn
  <2>1. CommandsTypeOK' /\ TilemapTypeOK' /\ LoopTypeOK'
    BY <1>1 DEF DispatchReturn, gameVars, TypeOK, CommandsTypeOK, TilemapTypeOK,
                LoopTypeOK
  <2> QED
    BY <1>1, <2>1, UnchangedTyped DEF DispatchReturn, gameVars, TypeOK
<1>2. CASE JoinIgnored
  <2>1. queue # << >> /\ budget > 0
    BY <1>2 DEF JoinIgnored, DispatchDone, TypeOK, CommandsTypeOK
  <2>2. CommandsTypeOK'
    BY <1>2, <2>1 DEF JoinIgnored, TakeCommand, TypeOK, CommandsTypeOK
  <2>3. TilemapTypeOK' /\ LoopTypeOK'
    BY <1>2 DEF JoinIgnored, gameVars, TypeOK, TilemapTypeOK, LoopTypeOK
  <2> QED
    BY <1>2, <2>2, <2>3, UnchangedTyped DEF JoinIgnored, gameVars, TypeOK
<1>3. CASE Join
  <2>1. Command.entity \in Addrs
    BY <1>3, JoinTyped DEF Join
  <2>2. Broadcast(ent', links', Command.entity) \in [from : Addrs, to : SUBSET Addrs]
    BY <2>1 DEF Broadcast
  <2>3. TilemapTypeOK' /\ LoopTypeOK'
    BY <1>3, <2>2, JoinTyped DEF Join, BclistCreate, TypeOK, TilemapTypeOK, LoopTypeOK
  <2> QED
    BY <1>3, <2>3, JoinTyped DEF Join, TypeOK
<1>4. CASE JoinHangs
  <2>1. TilemapTypeOK' /\ LoopTypeOK'
    BY <1>4, JoinTyped DEF JoinHangs, TypeOK, TilemapTypeOK, LoopTypeOK
  <2> QED
    BY <1>4, <2>1, JoinTyped DEF JoinHangs, TypeOK
<1>5. CASE DispatchCrashes
  BY <1>5, CrashTyped DEF DispatchCrashes
<1> QED
  BY <1>1, <1>2, <1>3, <1>4, <1>5 DEF DispatchStep

LEMMA NextTyped == TypeOK /\ [Next]_vars => TypeOK'
<1> SUFFICES ASSUME TypeOK, [Next]_vars PROVE TypeOK'
  OBVIOUS
<1>1. CASE UNCHANGED vars
  BY <1>1, UnchangedTyped DEF vars, TypeOK, LoopTypeOK
<1>2. CASE ExitHandler
  BY <1>2, UnchangedTyped DEF ExitHandler, TypeOK, LoopTypeOK
<1> QED
  BY <1>1, <1>2, LoginTyped, ScanTyped, GameTyped, DispatchTyped
     DEF Next, ServerStep, Done

\* Every variable keeps to its values; in particular no descriptor outside the
\* process's range is ever scanned and no budget goes below zero.
THEOREM Typed == Spec => []TypeOK
<1> QED
  BY InitTyped, NextTyped, PTL DEF Spec
-----------------------------------------------------------------------------
(***************************************************************************)
(* The registry and the sockets.                                           *)
(***************************************************************************)

\* What the induction needs besides: the listening socket is open and never
\* among the clients a scan serves, so that a hangup always finds its player.
Coupled ==
  /\ RegistryMatchesSockets
  /\ ScanCoversSockets
  /\ Sock \in master
  /\ Sock \notin readFds

\* Steps that touch neither the registry nor the sockets.
LEMMA CoupledFrame ==
  ASSUME Coupled, TypeOK,
         UNCHANGED <<allocated, entities, players, master, fdmin, fdmax>>,
         \A a \in Addrs : ent'[a].client = ent[a].client,
         readFds' \subseteq readFds
  PROVE  Coupled'
BY DEF Coupled, RegistryMatchesSockets, ScanCoversSockets, TypeOK, EntitiesTypeOK

\* A new connection brings one block, one entity, one player and one socket.
LEMMA CoupledAccept ==
  ASSUME Coupled, TypeOK, NEW fd \in ClientFds, NEW a \in Addrs, AcceptClient(fd, a)
  PROVE  Coupled'
<1>1. /\ fd \notin master /\ fd > Sock /\ fd \in Sock .. LastFd
      /\ a \notin entities
  BY DEF AcceptClient, TcpEnter, LowestFree, ClientFds, GConnect, PlayerCreate,
         Coupled, RegistryMatchesSockets
<1>2. /\ allocated' = allocated \cup {a}
      /\ entities' = entities \cup {a}
      /\ players' = players \cup {a}
      /\ master' = master \cup {fd}
      /\ readFds' = readFds
  BY DEF AcceptClient, GConnect, PlayerCreate, PlayerRegister, TcpEnter
<1>3. /\ ent'[a].client = fd
      /\ \A b \in entities : ent'[b] = ent[b]
  BY <1>1 DEF AcceptClient, GConnect, PlayerCreate, Fresh, TypeOK, EntitiesTypeOK
<1>4. \A b \in entities : ent[b].client \in master \ {Sock}
  BY DEF Coupled, RegistryMatchesSockets
<1>5. { ent'[b].client : b \in entities' } = master' \ {Sock}
  <2>1. \A b \in entities' : ent'[b].client \in master' \ {Sock}
    BY <1>1, <1>2, <1>3, <1>4
  <2>2. \A g \in master' \ {Sock} : \E b \in entities' : ent'[b].client = g
    BY <1>2, <1>3 DEF Coupled, RegistryMatchesSockets
  <2> QED
    BY <2>1, <2>2
<1>6. \A b, c \in entities' : ent'[b].client = ent'[c].client => b = c
  BY <1>1, <1>2, <1>3, <1>4 DEF Coupled, RegistryMatchesSockets
<1>7. RegistryMatchesSockets'
  BY <1>2, <1>5, <1>6 DEF Coupled, RegistryMatchesSockets
<1>8. master' \subseteq fdmin' .. fdmax'
  BY <1>1, <1>2 DEF AcceptClient, TcpEnter, Coupled, ScanCoversSockets, TypeOK,
                    TcpTypeOK
<1> QED
  BY <1>2, <1>7, <1>8 DEF Coupled, ScanCoversSockets

\* A hangup takes away the block, the entity, the player and the socket that
\* belong together.
LEMMA CoupledHangup ==
  ASSUME Coupled, TypeOK, ScanHangup
  PROVE  Coupled'
<1>1. at \in master \ {Sock}
  BY DEF ScanHangup, Readable, Coupled
<1>2. EntitiesOf(at) # {}
  BY <1>1 DEF EntitiesOf, Coupled, RegistryMatchesSockets
<1>3. PICK a \in EntitiesOf(at) : PlayerUnregister(a) /\ PlayerDestroy(a)
  BY <1>2 DEF ScanHangup, GDisconnect
<1>4. /\ a \in entities /\ ent[a].client = at
      /\ entities' = entities \ {a} /\ players' = players \ {a}
      /\ allocated' = allocated \ {a} /\ ent' = ent
      /\ master' = master \ {at} /\ UNCHANGED <<fdmin, fdmax, readFds>>
  BY <1>3 DEF EntitiesOf, PlayerUnregister, PlayerDestroy, ScanHangup, TcpDrop
<1>5. { ent'[b].client : b \in entities' } = master' \ {Sock}
  BY <1>4 DEF Coupled, RegistryMatchesSockets
<1>6. RegistryMatchesSockets'
  BY <1>4, <1>5 DEF Coupled, RegistryMatchesSockets
<1>7. ScanCoversSockets'
  BY <1>4 DEF Coupled, ScanCoversSockets
<1>8. Sock \in master' /\ Sock \notin readFds'
  BY <1>1, <1>4 DEF Coupled
<1> QED
  BY <1>6, <1>7, <1>8 DEF Coupled

LEMMA CoupledStep == TypeOK /\ Coupled /\ [Next]_vars => Coupled'
<1> SUFFICES ASSUME TypeOK, Coupled, [Next]_vars PROVE Coupled'
  OBVIOUS
<1>1. CASE UNCHANGED <<entityVars, tcpVars>>
  BY <1>1, CoupledFrame DEF entityVars, tcpVars
<1>2. CASE LoginStep
  <2>1. ASSUME NEW ready \in SUBSET ClientFds, SelectClients(ready)
        PROVE  Coupled'
    BY <2>1 DEF SelectClients, TcpSelect, gameVars, entityVars, Coupled,
                RegistryMatchesSockets, ScanCoversSockets
  <2> QED
    BY <1>1, <1>2, <2>1, CoupledAccept
       DEF LoginStep, AcceptWithoutMemory, Crash, End, PollNothing, LoopExit, gameVars
<1>3. CASE ScanStep
  <2>1. CASE ScanSkip \/ ScanEnd \/ \E d \in Messages : ScanData(d)
    BY <2>1, CoupledFrame DEF ScanSkip, ScanEnd, ScanData, TcpAdvance, TcpReturn,
                              gameVars, entityVars
  <2> QED
    BY <1>1, <1>3, <2>1, CoupledHangup
       DEF ScanStep, ScanDataWithoutMemory, JsonOutOfMemory, Crash, End, gameVars
<1>4. CASE GameStep
  BY <1>1, <1>4 DEF GameStep, GameNothing, GameConnect, GameDisconnect, GameReceive,
       GameReceiveOverrun, GameReceiveWithoutMemory, JsonOutOfMemory,
       Crash, End, BeginDispatch, gameVars
<1>5. CASE DispatchStep
  <2>1. CASE JoinEffect
    <3>1. \A b \in Addrs : ent'[b].client = ent[b].client
      BY <2>1, JoinTyped DEF JoinEffect, Place, TypeOK, EntitiesTypeOK, EntityRecord
    <3> QED
      BY <2>1, <3>1, CoupledFrame DEF JoinEffect, tcpVars
  <2> QED
    BY <1>1, <1>5, <2>1 DEF DispatchStep, DispatchReturn, JoinIgnored, Join, JoinHangs,
         DispatchCrashes, Crash, End, gameVars
<1> QED
  BY <1>1, <1>2, <1>3, <1>4, <1>5 DEF Next, ServerStep, Done, ExitHandler, vars

LEMMA InitCoupled == Init => Coupled
BY DEF Init, EntitiesInit, TcpInit, Coupled, RegistryMatchesSockets, ScanCoversSockets

LEMMA AlwaysCoupled == Spec => [](TypeOK /\ Coupled)
<1>1. TypeOK /\ Coupled /\ [Next]_vars => (TypeOK /\ Coupled)'
  BY NextTyped, CoupledStep
<1> QED
  BY InitTyped, InitCoupled, <1>1, PTL DEF Spec

\* Every open client socket has exactly one player, registered in both lists,
\* and every block in use belongs to one, however connections and hangups
\* follow one another and descriptors and blocks are reused.
THEOREM RegistryKept == Spec => []RegistryMatchesSockets
<1>1. TypeOK /\ Coupled => RegistryMatchesSockets
  BY DEF Coupled
<1> QED
  BY <1>1, AlwaysCoupled, PTL

\* fdmin and fdmax always enclose the open descriptors: no client is passed over.
THEOREM ScanComplete == Spec => []ScanCoversSockets
<1>1. TypeOK /\ Coupled => ScanCoversSockets
  BY DEF Coupled
<1> QED
  BY <1>1, AlwaysCoupled, PTL
-----------------------------------------------------------------------------
(***************************************************************************)
(* Queued commands and the players they are for.                           *)
(***************************************************************************)
Live(c) == c.entity \in entities /\ ent[c.entity].id = c.id

\* NoStaleCommand as it is preserved step by step.  A turn starts with an empty
\* queue; the scan serves each descriptor once and in ascending order, so the
\* commands queued so far are for clients below the one it stands at, and a
\* hangup there hits none of them.
QueueLive ==
  ~carried =>
    /\ pc = "login" => queue = << >>
    /\ \A k \in 1 .. Len(queue) : Live(queue[k])
    /\ pc = "scan" => \A k \in 1 .. Len(queue) : ent[queue[k].entity].client < at

LEMMA QueueEntityType ==
  ASSUME TypeOK, NEW k \in 1 .. Len(queue)
  PROVE  queue[k] \in CommandRecord /\ queue[k].entity \in Addrs
<1>1. queue[k] \in CommandRecord
  BY DEF TypeOK, CommandsTypeOK
<1> QED
  BY <1>1 DEF CommandRecord

\* Steps that leave the queue, the registry and the scan alone.
LEMMA LiveFrame ==
  ASSUME TypeOK, QueueLive,
         UNCHANGED <<queue, entities, ent, carried>>,
         pc' # "login" \/ pc = "login",
         pc' = "scan" => pc = "scan" /\ at' \in {at, at + 1}
  PROVE  QueueLive'
<1> SUFFICES ASSUME ~carried PROVE QueueLive'
  BY DEF QueueLive
<1>1. pc' = "scan" => \A k \in 1 .. Len(queue) : ent[queue[k].entity].client < at'
  <2> SUFFICES ASSUME pc' = "scan", NEW k \in 1 .. Len(queue)
               PROVE  ent[queue[k].entity].client < at'
    OBVIOUS
  <2>1. ent[queue[k].entity].client < at
    BY DEF QueueLive
  <2>2. ent[queue[k].entity].client \in Int /\ at \in Int
    BY QueueEntityType DEF TypeOK, EntitiesTypeOK, EntityRecord, TcpTypeOK
  <2> QED
    BY <2>1, <2>2
<1> QED
  BY <1>1 DEF QueueLive, Live

LEMMA LiveScanData ==
  ASSUME TypeOK, Coupled, QueueLive, NEW d \in Messages, ScanData(d)
  PROVE  QueueLive'
<1>1. CASE UNCHANGED queue
  BY <1>1, LiveFrame DEF ScanData, TcpAdvance, gameVars, entityVars
<1>2. ASSUME NEW a \in EntitiesOf(at), NEW j \in Interpret(d) \ {NULL},
             QueueUp(a, ent[a].id, j), ~carried
      PROVE  QueueLive'
  <2>1. /\ pc' = "scan" /\ at' = at + 1 /\ UNCHANGED <<entities, ent, carried>>
        /\ pc = "scan" /\ at \in Int
    BY DEF ScanData, TcpAdvance, gameVars, entityVars, TypeOK, TcpTypeOK
  <2>2. /\ Len(queue') = Len(queue) + 1
        /\ \A k \in 1 .. Len(queue) : queue'[k] = queue[k]
        /\ queue'[Len(queue) + 1].entity = a
        /\ queue'[Len(queue) + 1].id = ent[a].id
        /\ Len(queue) \in Nat
    BY <1>2 DEF QueueUp, TypeOK, CommandsTypeOK
  <2>3. a \in entities /\ ent[a].client = at
    BY DEF EntitiesOf
  <2>4. ASSUME NEW k \in 1 .. Len(queue')
        PROVE  Live(queue[k])' /\ ent[queue'[k].entity].client < at + 1
    <3>1. CASE k = Len(queue) + 1
      BY <2>1, <2>2, <2>3, <3>1 DEF Live
    <3>2. CASE k \in 1 .. Len(queue)
      <4>1. Live(queue[k]) /\ ent[queue[k].entity].client < at
        BY <1>2, <2>1, <3>2 DEF QueueLive
      <4>2. ent[queue[k].entity].client \in Int
        BY <3>2, QueueEntityType DEF TypeOK, EntitiesTypeOK, EntityRecord
      <4> QED
        BY <2>1, <2>2, <3>2, <4>1, <4>2 DEF Live
    <3> QED
      BY <2>2, <3>1, <3>2
  <2> QED
    BY <2>1, <2>4 DEF QueueLive, Live
<1> QED
  BY <1>1, <1>2 DEF ScanData, ClientSent, QueueLive, gameVars

LEMMA LiveHangup ==
  ASSUME TypeOK, Coupled, QueueLive, ScanHangup
  PROVE  QueueLive'
<1>1. at \in master \ {Sock} /\ pc = "scan" /\ at \in Int
  BY DEF ScanHangup, Readable, Coupled, TypeOK, TcpTypeOK
<1>2. EntitiesOf(at) # {}
  BY <1>1 DEF EntitiesOf, Coupled, RegistryMatchesSockets
<1>3. PICK a \in EntitiesOf(at) : PlayerUnregister(a) /\ PlayerDestroy(a)
  BY <1>2 DEF ScanHangup, GDisconnect
<1>4. /\ ent[a].client = at /\ entities' = entities \ {a} /\ ent' = ent
      /\ at' = at + 1 /\ pc' = "scan" /\ UNCHANGED <<queue, carried>>
  BY <1>1, <1>3 DEF EntitiesOf, PlayerUnregister, PlayerDestroy, ScanHangup,
                    TcpDrop, commandVars
<1>5. ASSUME ~carried, NEW k \in 1 .. Len(queue)
      PROVE  Live(queue[k])' /\ ent[queue[k].entity].client < at + 1
  <2>1. Live(queue[k]) /\ ent[queue[k].entity].client < at
    BY <1>1, <1>5 DEF QueueLive
  <2>2. ent[queue[k].entity].client \in Int
    BY QueueEntityType DEF TypeOK, EntitiesTypeOK, EntityRecord
  <2> QED
    BY <1>1, <1>4, <2>1, <2>2 DEF Live
<1> QED
  BY <1>4, <1>5 DEF QueueLive, Live

\* A poll of the login listener begins with an empty queue.
LEMMA LiveLogin == TypeOK /\ QueueLive /\ LoginStep => QueueLive'
<1> SUFFICES ASSUME TypeOK, QueueLive, LoginStep, ~carried PROVE QueueLive'
  BY DEF QueueLive, LoginStep, AcceptClient, AcceptWithoutMemory, Crash, End, PollNothing,
         SelectClients, LoopExit
<1>1. pc = "login" /\ queue' = queue /\ pc' # "login"
  BY DEF LoginStep, AcceptClient, AcceptWithoutMemory, Crash, End, PollNothing,
         SelectClients, LoopExit, commandVars
<1>2. queue' = << >>
  BY <1>1 DEF QueueLive
<1> QED
  BY <1>1, <1>2 DEF QueueLive

LEMMA LiveGame == TypeOK /\ QueueLive /\ GameStep => QueueLive'
<1> SUFFICES ASSUME TypeOK, QueueLive, GameStep PROVE QueueLive'
  OBVIOUS
<1>1. CASE UNCHANGED queue
  BY <1>1, LiveFrame
     DEF GameStep, GameNothing, GameConnect, GameDisconnect, GameReceive, BeginDispatch,
         GameReceiveOverrun, GameReceiveWithoutMemory, JsonOutOfMemory,
         Crash, End, gameVars, entityVars
<1>2. ASSUME NEW p \in Peers, NEW d \in Messages, GameReceive(p, d)
      PROVE  QueueLive'
  <2>1. /\ pc = "game" /\ pc' = "dispatch" /\ UNCHANGED <<entities, ent, carried>>
    BY <1>2 DEF GameReceive, BeginDispatch, gameVars, entityVars
  <2>2. ASSUME NEW a \in EntitiesOf(ClientId(p)), NEW j \in Interpret(d) \ {NULL},
               QueueUp(a, ent[a].id, j), ~carried
        PROVE  QueueLive'
    <3>1. /\ Len(queue') = Len(queue) + 1 /\ Len(queue) \in Nat
          /\ \A k \in 1 .. Len(queue) : queue'[k] = queue[k]
          /\ queue'[Len(queue) + 1].entity = a
          /\ queue'[Len(queue) + 1].id = ent[a].id
      BY <2>2 DEF QueueUp, TypeOK, CommandsTypeOK
    <3>2. a \in entities
      BY DEF EntitiesOf
    <3>3. \A k \in 1 .. Len(queue) : Live(queue[k])
      BY <2>2 DEF QueueLive
    <3>4. \A k \in 1 .. Len(queue') : Live(queue[k])'
      BY <2>1, <3>1, <3>2, <3>3 DEF Live
    <3> QED
      BY <2>1, <3>4 DEF QueueLive
  <2> QED
    BY <1>1, <1>2, <2>1, <2>2 DEF GameReceive, ClientSent, QueueLive
<1> QED
  BY <1>1, <1>2 DEF GameStep, GameNothing, GameConnect, GameDisconnect,
     GameReceiveOverrun, GameReceiveWithoutMemory, JsonOutOfMemory,
     Crash, End, commandVars

\* The first command leaves the queue, and no entity changes its client or id.
LEMMA LiveTake ==
  ASSUME TypeOK, QueueLive, queue # << >>, queue' = Tail(queue),
         UNCHANGED <<entities, carried>>, pc = "dispatch", pc' \notin {"login", "scan"},
         \A a \in Addrs : ent'[a].id = ent[a].id
  PROVE  QueueLive'
<1>1. ASSUME ~carried, NEW k \in 1 .. Len(queue')
      PROVE  Live(queue[k])'
  <2>1. k + 1 \in 1 .. Len(queue) /\ queue'[k] = queue[k + 1]
    BY DEF TypeOK, CommandsTypeOK
  <2>2. Live(queue[k + 1]) /\ queue[k + 1].entity \in Addrs
    BY <1>1, <2>1, QueueEntityType DEF QueueLive
  <2> QED
    BY <2>1, <2>2 DEF Live
<1> QED
  BY <1>1 DEF QueueLive

LEMMA LiveDispatch == TypeOK /\ QueueLive /\ DispatchStep => QueueLive'
<1> SUFFICES ASSUME TypeOK, QueueLive, DispatchStep PROVE QueueLive'
  OBVIOUS
<1>1. CASE DispatchReturn
  <2>1. ~carried' => queue' = << >>
    BY <1>1 DEF DispatchReturn
  <2>2. pc' # "scan"
    BY <1>1 DEF DispatchReturn
  <2> QED
    BY <2>1, <2>2 DEF QueueLive
<1>2. CASE JoinIgnored
  BY <1>2, LiveTake DEF JoinIgnored, DispatchDone, TakeCommand, gameVars, entityVars
<1>3. CASE Join \/ JoinHangs
  <2>1. JoinEffect /\ pc = "dispatch" /\ pc' \notin {"login", "scan"}
    BY <1>3 DEF Join, JoinHangs, JoinEffect, Joins
  <2>2. \A a \in Addrs : ent'[a].id = ent[a].id
    BY <2>1, JoinTyped DEF JoinEffect, Place, TypeOK, EntitiesTypeOK, EntityRecord
  <2> QED
    BY <2>1, <2>2, LiveTake DEF JoinEffect, Joins, DispatchDone, TakeCommand
<1>4. CASE DispatchCrashes
  BY <1>4, LiveFrame DEF DispatchCrashes, Crash, End, gameVars, entityVars, commandVars
<1> QED
  BY <1>1, <1>2, <1>3, <1>4 DEF DispatchStep

LEMMA LiveStep == TypeOK /\ Coupled /\ QueueLive /\ [Next]_vars => QueueLive'
<1> SUFFICES ASSUME TypeOK, Coupled, QueueLive, [Next]_vars PROVE QueueLive'
  OBVIOUS
<1>1. CASE UNCHANGED vars \/ ExitHandler
  BY <1>1, LiveFrame DEF vars, ExitHandler, entityVars, commandVars, tcpVars
<1>2. CASE ScanStep
  <2>1. CASE ScanSkip \/ ScanEnd \/ ScanDataWithoutMemory
    BY <2>1, LiveFrame DEF ScanSkip, ScanEnd, TcpAdvance, ScanDataWithoutMemory,
       JsonOutOfMemory, Crash, End, gameVars, entityVars, commandVars
  <2> QED
    BY <1>2, <2>1, LiveScanData, LiveHangup DEF ScanStep
<1> QED
  BY <1>1, <1>2, LiveLogin, LiveGame, LiveDispatch DEF Next, ServerStep, Done

\* A command is never dispatched for a player that has left, nor for a later
\* player in the same block, in a turn whose predecessor emptied the queue.
THEOREM NoStale == Spec => []NoStaleCommand
<1>1. Init => QueueLive
  BY DEF Init, CommandsInit, QueueLive
<1>2. TypeOK /\ Coupled /\ QueueLive /\ [Next]_vars => (TypeOK /\ Coupled /\ QueueLive)'
  BY NextTyped, CoupledStep, LiveStep
<1>3. QueueLive => NoStaleCommand
  BY DEF QueueLive, NoStaleCommand, Live
<1> QED
  BY InitTyped, InitCoupled, <1>1, <1>2, <1>3, PTL DEF Spec
-----------------------------------------------------------------------------
(***************************************************************************)
(* The quota of the dispatcher.                                            *)
(***************************************************************************)

\* Before the scan reaches descriptor "at", each client descriptor below it
\* has given at most one command.
ScanQuota == IF at = Sock THEN 0 ELSE at - Sock - 1

QueueBounded ==
  /\ fdmin = Sock
  /\ QuotaSuffices =>
       /\ ~carried
       /\ pc = "login" => Len(queue) = 0
       /\ pc = "scan" => Len(queue) <= ScanQuota
       /\ pc = "game" => Len(queue) <= LastFd - Sock
       /\ pc = "dispatch" => Len(queue) <= budget

\* A message adds one command at most.
LEMMA ClientSentLength ==
  ASSUME TypeOK, NEW client, NEW d \in Messages, ClientSent(client, d)
  PROVE  Len(queue) \in Nat /\ Len(queue') \in {Len(queue), Len(queue) + 1}
<1>1. Len(queue) \in Nat
  BY DEF TypeOK, CommandsTypeOK
<1>2. ASSUME NEW a, NEW j, QueueUp(a, ent[a].id, j)
      PROVE  Len(queue') = Len(queue) + 1
  BY <1>2 DEF QueueUp, TypeOK, CommandsTypeOK
<1> QED
  BY <1>1, <1>2 DEF ClientSent

LEMMA BoundedLogin == TypeOK /\ QueueBounded /\ LoginStep => QueueBounded'
<1> SUFFICES ASSUME TypeOK, QueueBounded, LoginStep PROVE QueueBounded'
  OBVIOUS
<1>1. pc = "login" /\ UNCHANGED <<queue, carried>> /\ pc' \notin {"login", "dispatch"}
  BY DEF LoginStep, AcceptClient, AcceptWithoutMemory, Crash, End, PollNothing,
         SelectClients, LoopExit, commandVars
<1>2. pc' = "scan" => at' = fdmin
  BY DEF LoginStep, AcceptClient, AcceptWithoutMemory, Crash, End, PollNothing,
         SelectClients, LoopExit, TcpSelect
<1>3. fdmin' = Sock
  BY DEF LoginStep, AcceptClient, AcceptWithoutMemory, Crash, End, PollNothing,
         SelectClients, LoopExit, TcpSelect, TcpEnter, LowestFree, ClientFds, tcpVars,
         QueueBounded
<1> QED
  BY <1>1, <1>2, <1>3 DEF QueueBounded, ScanQuota, QuotaSuffices

\* A round of the scan raises what is allowed by one, except at the listening
\* socket, which sends nothing.
LEMMA BoundedRound ==
  ASSUME TypeOK, QueueBounded, pc = "scan", pc' = "scan", at' = at + 1,
         UNCHANGED <<fdmin, carried>>, Len(queue) \in Nat,
         Len(queue') = Len(queue) \/ (at # Sock /\ Len(queue') = Len(queue) + 1)
  PROVE  QueueBounded'
<1>1. at \in Int /\ Sock \in Int /\ Sock <= at
  BY DEF TypeOK, TcpTypeOK
<1>2. /\ ScanQuota' = at - Sock
      /\ ScanQuota = IF at = Sock THEN 0 ELSE at - Sock - 1
  BY <1>1 DEF ScanQuota
<1>3. QuotaSuffices => Len(queue') <= ScanQuota'
  BY <1>1, <1>2 DEF QueueBounded
<1> QED
  BY <1>3 DEF QueueBounded, QuotaSuffices

LEMMA BoundedScan == TypeOK /\ Coupled /\ QueueBounded /\ ScanStep => QueueBounded'
<1> SUFFICES ASSUME TypeOK, Coupled, QueueBounded, ScanStep PROVE QueueBounded'
  OBVIOUS
<1>1. Len(queue) \in Nat
  BY DEF TypeOK, CommandsTypeOK
<1>2. ASSUME NEW d \in Messages, ScanData(d)
      PROVE  QueueBounded'
  <2>1. /\ at # Sock /\ at' = at + 1 /\ pc = "scan" /\ pc' = "scan"
        /\ UNCHANGED <<fdmin, carried>>
    BY <1>2 DEF ScanData, Readable, TcpAdvance, Coupled
  <2>2. Len(queue') \in {Len(queue), Len(queue) + 1}
    BY <1>2, ClientSentLength DEF ScanData
  <2> QED
    BY <1>1, <2>1, <2>2, BoundedRound
<1>3. CASE ScanHangup \/ ScanSkip
  <2>1. /\ at' = at + 1 /\ pc = "scan" /\ pc' = "scan"
        /\ UNCHANGED <<fdmin, carried, queue>>
    BY <1>3 DEF ScanHangup, ScanSkip, TcpAdvance, TcpDrop, commandVars
  <2> QED
    BY <1>1, <2>1, BoundedRound
<1>4. CASE ScanEnd
  <2>1. /\ pc = "scan" /\ pc' = "game" /\ UNCHANGED <<queue, fdmin, carried>>
    BY <1>4 DEF ScanEnd, TcpReturn, commandVars
  <2>2. ScanQuota \in Int /\ ScanQuota <= LastFd - Sock
    BY DEF ScanQuota, TypeOK, TcpTypeOK
  <2>3. QuotaSuffices => Len(queue) <= LastFd - Sock
    BY <1>1, <2>1, <2>2 DEF QueueBounded
  <2> QED
    BY <2>1, <2>3 DEF QueueBounded, QuotaSuffices
<1>5. CASE ScanDataWithoutMemory
  BY <1>5 DEF ScanDataWithoutMemory, JsonOutOfMemory, Crash, End, tcpVars, QueueBounded,
              QuotaSuffices
<1> QED
  BY <1>2, <1>3, <1>4, <1>5 DEF ScanStep

LEMMA BoundedGame == TypeOK /\ QueueBounded /\ GameStep => QueueBounded'
<1> SUFFICES ASSUME TypeOK, QueueBounded, GameStep PROVE QueueBounded'
  OBVIOUS
<1> USE DEF QueueBounded, QuotaSuffices
<1>1. CASE \E how \in {"crashed", "overrun"} : End(how)
  BY <1>1 DEF End, tcpVars
<1>2. CASE BeginDispatch
  <2>1. Len(queue) \in Nat /\ Len(queue') \in {Len(queue), Len(queue) + 1}
    <3>1. Len(queue) \in Nat
      BY DEF TypeOK, CommandsTypeOK
    <3>2. UNCHANGED queue \/ \E p \in Peers, d \in Messages : ClientSent(ClientId(p), d)
      BY DEF GameStep, GameNothing, GameConnect, GameDisconnect, GameReceive,
             GameReceiveOverrun, GameReceiveWithoutMemory, JsonOutOfMemory,
             Crash, End, commandVars
    <3> QED
      BY <3>1, <3>2, ClientSentLength
  <2>2. /\ pc = "game" /\ pc' = "dispatch" /\ budget' = Dispatch
        /\ UNCHANGED <<fdmin, carried>>
    BY <1>2 DEF BeginDispatch, tcpVars, GameStep, GameNothing, GameConnect,
                GameDisconnect, GameReceive, GameReceiveOverrun, GameReceiveWithoutMemory
  <2> QED
    BY <2>1, <2>2
<1> QED
  BY <1>1, <1>2 DEF GameStep, GameNothing, GameConnect, GameDisconnect, GameReceive,
     GameReceiveOverrun, GameReceiveWithoutMemory, JsonOutOfMemory, Crash

LEMMA BoundedDispatch == TypeOK /\ QueueBounded /\ DispatchStep => QueueBounded'
<1> SUFFICES ASSUME TypeOK, QueueBounded, DispatchStep PROVE QueueBounded'
  OBVIOUS
<1> USE DEF QueueBounded, QuotaSuffices
<1>1. pc = "dispatch" /\ Len(queue) \in Nat /\ budget \in Nat
  BY DEF DispatchStep, DispatchReturn, JoinIgnored, Join, JoinHangs, DispatchCrashes,
         JoinEffect, Joins, TypeOK, CommandsTypeOK
<1>2. CASE DispatchReturn
  <2>1. QuotaSuffices => queue = << >>
    BY <1>1, <1>2 DEF DispatchReturn, DispatchDone, TypeOK, CommandsTypeOK
  <2> QED
    BY <1>2, <2>1 DEF DispatchReturn, tcpVars
<1>3. CASE JoinIgnored \/ JoinEffect
  <2>1. /\ queue # << >> /\ queue' = Tail(queue) /\ budget' = budget - 1
        /\ UNCHANGED <<fdmin, carried>>
    BY <1>3 DEF JoinIgnored, JoinEffect, Joins, DispatchDone, TakeCommand, tcpVars
  <2>2. Len(queue') = Len(queue) - 1
    BY <2>1 DEF TypeOK, CommandsTypeOK
  <2>3. pc' \in {"dispatch", "hung"}
    BY <1>1, <1>3 DEF DispatchStep, JoinIgnored, Join, JoinHangs, JoinEffect,
       DispatchReturn, DispatchCrashes, Crash, End, TakeCommand, DispatchDone, Joins, commandVars
  <2> QED
    BY <1>1, <2>1, <2>2, <2>3
<1>4. CASE DispatchCrashes
  BY <1>4 DEF DispatchCrashes, Crash, End, tcpVars
<1> QED
  BY <1>2, <1>3, <1>4 DEF DispatchStep, Join, JoinHangs

LEMMA BoundedStep ==
  TypeOK /\ Coupled /\ QueueBounded /\ [Next]_vars => QueueBounded'
<1>1. QueueBounded /\ (UNCHANGED vars \/ ExitHandler) => QueueBounded'
  BY DEF vars, ExitHandler, commandVars, tcpVars, QueueBounded, ScanQuota, QuotaSuffices
<1> QED
  BY <1>1, BoundedLogin, BoundedScan, BoundedGame, BoundedDispatch
     DEF Next, ServerStep, Done

\* With a quota of one command per descriptor and one more, command_dispatch
\* empties the queue in every turn.
THEOREM QuotaEnough == Spec => []QuotaKeepsUp
<1>1. Init => QueueBounded
  BY DEF Init, CommandsInit, TcpInit, QueueBounded, QuotaSuffices
<1>2. TypeOK /\ Coupled /\ QueueBounded /\ [Next]_vars
        => (TypeOK /\ Coupled /\ QueueBounded)'
  BY NextTyped, CoupledStep, BoundedStep
<1>3. QueueBounded => QuotaKeepsUp
  BY DEF QueueBounded, QuotaKeepsUp
<1> QED
  BY InitTyped, InitCoupled, <1>1, <1>2, <1>3, PTL DEF Spec
-----------------------------------------------------------------------------
(***************************************************************************)
(* The map's list.                                                         *)
(***************************************************************************)

OnMapCells == { a \in entities : ent[a].onMap } \cup {MapHead}

\* The part of MapListSound that speaks of neighbours only: next and prev are
\* inverse to one another on the head and the entities on the map, and stay
\* among them.
MapRing ==
  ~strayOnMap =>
    \A c \in OnMapCells :
      /\ links.next[c] \in OnMapCells /\ links.prev[links.next[c]] = c
      /\ links.prev[c] \in OnMapCells /\ links.next[links.prev[c]] = c

\* Steps that leave the map alone.
LEMMA RingFrame ==
  ASSUME MapRing, UNCHANGED <<links, OnMapCells, strayOnMap>>
  PROVE  MapRing'
BY DEF MapRing

\* A new player's block may have been anybody's before: it was in no list of
\* the living, and clearing it disturbs none.
LEMMA RingAccept ==
  ASSUME TypeOK, Coupled, MapRing, NEW fd \in ClientFds, NEW a \in Addrs,
         AcceptClient(fd, a)
  PROVE  MapRing'
<1>1. a \notin entities /\ a \notin OnMapCells
  BY DEF AcceptClient, GConnect, PlayerCreate, Coupled, RegistryMatchesSockets,
         OnMapCells
<1>2. OnMapCells' = OnMapCells
  BY <1>1 DEF OnMapCells, AcceptClient, GConnect, PlayerCreate, PlayerRegister, Fresh,
              TypeOK, EntitiesTypeOK
<1>3. \A c \in OnMapCells : links'.next[c] = links.next[c] /\ links'.prev[c] = links.prev[c]
  BY <1>1 DEF AcceptClient, GConnect, ClearMapList, TypeOK, TilemapTypeOK, LinkMemory,
              OnMapCells, EntitiesTypeOK
<1>4. strayOnMap' = strayOnMap
  BY DEF AcceptClient, GConnect
<1> QED
  BY <1>2, <1>3, <1>4 DEF MapRing

LEMMA RingHangup ==
  ASSUME TypeOK, MapRing, ScanHangup
  PROVE  MapRing'
<1>1. CASE UNCHANGED gameVars
  BY <1>1 DEF gameVars, entityVars, MapRing, OnMapCells
<1>2. ASSUME NEW a \in EntitiesOf(at), PlayerUnregister(a), PlayerDestroy(a),
             strayOnMap' = (strayOnMap \/ ent[a].onMap), UNCHANGED links
      PROVE  MapRing'
  <2>1. CASE ent[a].onMap
    BY <1>2, <2>1 DEF MapRing
  <2>2. CASE ~ent[a].onMap
    <3>1. OnMapCells' = OnMapCells
      BY <1>2, <2>2 DEF OnMapCells, PlayerUnregister, PlayerDestroy
    <3>2. strayOnMap' => strayOnMap
      BY <1>2, <2>2 DEF TypeOK, LoopTypeOK
    <3>3. strayOnMap => strayOnMap'
      BY <1>2 DEF TypeOK, LoopTypeOK
    <3> QED
      BY <1>2, <3>1, <3>2, <3>3 DEF MapRing
  <2> QED
    BY <2>1, <2>2
<1> QED
  BY <1>1, <1>2 DEF ScanHangup, GDisconnect

\* The map's list as the lemmas about lists see it.
LEMMA MapRingIsRing ==
  ASSUME TypeOK, MapRing, ~strayOnMap
  PROVE  /\ Ring(links, OnMapCells, MapHead)
         /\ Memory(links, Cells)
         /\ OnMapCells \in SUBSET Cells
BY DEF MapRing, Ring, Memory, OnMapCells, TypeOK, TilemapTypeOK, EntitiesTypeOK, LinkMemory

\* A join inserts a living entity between the head and its first neighbour.
LEMMA RingInserted ==
  ASSUME TypeOK, MapRing, ~strayOnMap, Joins
  PROVE  /\ Command.entity \in Cells \ OnMapCells
         /\ Ring(ListAdd(links, MapHead, Command.entity),
                 OnMapCells \cup {Command.entity}, MapHead)
<1>1. Command.entity \in Addrs
  <2>1. queue # << >> /\ queue \in Seq(CommandRecord)
    BY DEF Joins, DispatchDone, TypeOK, CommandsTypeOK
  <2>2. Command \in CommandRecord
    BY <2>1 DEF Command
  <2> QED
    BY <2>2 DEF CommandRecord
<1>2. Command.entity \in Cells \ OnMapCells
  BY <1>1 DEF Joins, OnMapCells
<1> QED
  BY <1>2, MapRingIsRing, AddKeepsRing

\* What a join of a living entity does to the cells of the map's list.
LEMMA JoinCells ==
  ASSUME TypeOK, Coupled, JoinEffect, ~strayOnMap'
  PROVE  /\ ~strayOnMap
         /\ Command.entity \in entities
         /\ links' = ListAdd(links, MapHead, Command.entity)
         /\ OnMapCells' = OnMapCells \cup {Command.entity}
<1> DEFINE n == Command.entity
<1>1. n \in Addrs
  BY JoinTyped
<1>2. ~strayOnMap /\ n \in entities
  BY DEF JoinEffect, Coupled, RegistryMatchesSockets
<1>3. \A a \in Addrs : ent'[a].onMap = (IF a = n THEN TRUE ELSE ent[a].onMap)
  BY <1>1 DEF JoinEffect, Place, TypeOK, EntitiesTypeOK, EntityRecord
<1> HIDE DEF n
<1>4. OnMapCells' = OnMapCells \cup {n}
  BY <1>1, <1>2, <1>3 DEF OnMapCells, JoinEffect, TypeOK, EntitiesTypeOK
<1> QED
  BY <1>2, <1>4 DEF n, JoinEffect, Place

LEMMA RingJoin ==
  ASSUME TypeOK, Coupled, MapRing, JoinEffect
  PROVE  MapRing'
<1> SUFFICES ASSUME ~strayOnMap'
             PROVE  MapRing'
  BY DEF MapRing
<1>1. Ring(links', OnMapCells', MapHead)
  BY JoinCells, RingInserted DEF JoinEffect
<1> QED
  BY <1>1 DEF MapRing, Ring

LEMMA RingStep == TypeOK /\ Coupled /\ MapRing /\ [Next]_vars => MapRing'
<1> SUFFICES ASSUME TypeOK, Coupled, MapRing, [Next]_vars PROVE MapRing'
  OBVIOUS
<1>1. CASE UNCHANGED gameVars
  BY <1>1, RingFrame DEF gameVars, entityVars, OnMapCells
<1>2. CASE JoinEffect
  BY <1>2, RingJoin
<1>3. CASE LoginStep
  BY <1>1, <1>3, RingAccept DEF LoginStep, AcceptWithoutMemory, Crash, End, PollNothing,
     SelectClients, LoopExit
<1>4. CASE ScanStep
  BY <1>1, <1>4, RingHangup DEF ScanStep, ScanData, ScanSkip, ScanEnd,
     ScanDataWithoutMemory, JsonOutOfMemory, Crash, End
<1>5. CASE GameStep
  BY <1>1, <1>5 DEF GameStep, GameNothing, GameConnect, GameDisconnect, GameReceive,
     GameReceiveOverrun, GameReceiveWithoutMemory, JsonOutOfMemory, Crash, End
<1>6. CASE DispatchStep
  BY <1>1, <1>2, <1>6 DEF DispatchStep, DispatchReturn, JoinIgnored, Join, JoinHangs,
     DispatchCrashes, Crash, End
<1>7. CASE UNCHANGED vars \/ ExitHandler
  BY <1>1, <1>7 DEF vars, gameVars, ExitHandler, tilemapVars
<1> QED
  BY <1>3, <1>4, <1>5, <1>6, <1>7 DEF Next, ServerStep, Done

-----------------------------------------------------------------------------
(***************************************************************************)
(* Walking the map's list.                                                 *)
(***************************************************************************)

\* MapRing with the list in one piece, so that a walk from the head meets all.
MapWhole ==
  /\ MapRing
  /\ ~strayOnMap => OnePiece(links, OnMapCells, MapHead)

LEMMA WholeStep == TypeOK /\ Coupled /\ MapWhole /\ [Next]_vars => MapWhole'
<1> SUFFICES ASSUME TypeOK, Coupled, MapWhole, [Next]_vars, ~strayOnMap'
             PROVE  OnePiece(links', OnMapCells', MapHead)
  BY RingStep DEF MapWhole
<1>1. CASE UNCHANGED gameVars
  BY <1>1 DEF gameVars, entityVars, OnMapCells, MapWhole
<1>2. CASE JoinEffect
  <2>1. Command.entity \in Cells \ OnMapCells /\ OnePiece(links, OnMapCells, MapHead)
    BY <1>2, JoinCells, RingInserted DEF JoinEffect, MapWhole
  <2>2. OnePiece(ListAdd(links, MapHead, Command.entity),
                 OnMapCells \cup {Command.entity}, MapHead)
    BY <1>2, <2>1, JoinCells, MapRingIsRing, AddKeepsOnePiece DEF MapWhole
  <2> QED
    BY <1>2, <2>2, JoinCells
<1>3. ASSUME NEW fd \in ClientFds, NEW a \in Addrs, AcceptClient(fd, a)
      PROVE  OnePiece(links', OnMapCells', MapHead)
  <2>1. a \notin OnMapCells /\ strayOnMap' = strayOnMap
    BY <1>3 DEF AcceptClient, GConnect, PlayerCreate, Coupled, RegistryMatchesSockets,
                OnMapCells
  <2>2. OnMapCells' = OnMapCells
    BY <1>3, <2>1 DEF OnMapCells, AcceptClient, GConnect, PlayerCreate, PlayerRegister,
                      Fresh, TypeOK, EntitiesTypeOK
  <2>3. \A c \in OnMapCells : links'.next[c] = links.next[c]
    BY <1>3, <2>1 DEF AcceptClient, GConnect, ClearMapList, TypeOK, TilemapTypeOK,
                      LinkMemory, OnMapCells, EntitiesTypeOK
  <2> QED
    BY <2>1, <2>2, <2>3 DEF MapWhole, OnePiece
<1>4. CASE ScanHangup
  <2>1. ASSUME NEW a \in EntitiesOf(at), PlayerUnregister(a), PlayerDestroy(a),
               strayOnMap' = (strayOnMap \/ ent[a].onMap), UNCHANGED links
        PROVE  OnePiece(links', OnMapCells', MapHead)
    <3>1. ~strayOnMap /\ ~ent[a].onMap
      BY <2>1
    <3>2. OnMapCells' = OnMapCells
      BY <2>1, <3>1 DEF OnMapCells, PlayerUnregister, PlayerDestroy
    <3> QED
      BY <2>1, <3>1, <3>2 DEF MapWhole
  <2> QED
    BY <1>1, <1>4, <2>1 DEF ScanHangup, GDisconnect
<1>5. CASE LoginStep
  BY <1>1, <1>3, <1>5 DEF LoginStep, AcceptWithoutMemory, Crash, End, PollNothing,
     SelectClients, LoopExit
<1>6. CASE ScanStep
  BY <1>1, <1>4, <1>6 DEF ScanStep, ScanData, ScanSkip, ScanEnd,
     ScanDataWithoutMemory, JsonOutOfMemory, Crash, End
<1>7. CASE GameStep
  BY <1>1, <1>7 DEF GameStep, GameNothing, GameConnect, GameDisconnect, GameReceive,
     GameReceiveOverrun, GameReceiveWithoutMemory, JsonOutOfMemory, Crash, End
<1>8. CASE DispatchStep
  BY <1>1, <1>2, <1>8 DEF DispatchStep, DispatchReturn, JoinIgnored, Join, JoinHangs,
     DispatchCrashes, Crash, End
<1>9. CASE UNCHANGED vars \/ ExitHandler
  BY <1>1, <1>9 DEF vars, gameVars, ExitHandler, tilemapVars
<1> QED
  BY <1>5, <1>6, <1>7, <1>8, <1>9 DEF Next, ServerStep, Done

LEMMA InitWhole == Init => MapWhole
<1>1. Init => OnMapCells = {MapHead} /\ links.next[MapHead] = MapHead
                                     /\ links.prev[MapHead] = MapHead
  BY DEF Init, EntitiesInit, TilemapInit, OnMapCells
<1> QED
  BY <1>1 DEF MapWhole, MapRing, OnePiece

LEMMA WholeIsSound == TypeOK /\ MapWhole => MapListSound
<1> SUFFICES ASSUME TypeOK, MapWhole, ~strayOnMap
             PROVE  /\ ListCheck(links, MapHead)
                    /\ Visited(links, MapHead) = { a \in entities : ent[a].onMap }
  BY DEF MapListSound
<1>1. IsFiniteSet(Cells) /\ NULL \notin Cells
  BY FS_AddElement
<1>2. Chain(links, OnMapCells, MapHead) /\ IsFiniteSet(DOMAIN links.next)
  BY <1>1, MapRingIsRing, RingIsChain DEF MapWhole
<1>3. OnMapCells \ {MapHead} = { a \in entities : ent[a].onMap }
  BY DEF OnMapCells, TypeOK, EntitiesTypeOK
<1> QED
  BY <1>2, <1>3, ChainChecked, VisitedOnACircle DEF MapWhole

\* Until a player leaves while on the map, list_check holds of the map's list
\* and a walk of it meets exactly the registered entities that are on the map.
THEOREM MapListKept == Spec => []MapListSound
<1>1. TypeOK /\ Coupled /\ MapWhole /\ [Next]_vars => (TypeOK /\ Coupled /\ MapWhole)'
  BY NextTyped, CoupledStep, WholeStep
<1> QED
  BY InitTyped, InitCoupled, InitWhole, <1>1, WholeIsSound, PTL DEF Spec
-----------------------------------------------------------------------------
(***************************************************************************)
(* Joining the map.                                                        *)
(***************************************************************************)

\* The command at the head of the queue in a turn that found it empty.
LEMMA CommandLive ==
  ASSUME TypeOK, Coupled, QueueLive, ~carried, queue # << >>
  PROVE  Command.entity \in entities /\ Command.entity \in allocated
<1>1. 1 \in 1 .. Len(queue) /\ Command = queue[1]
  BY DEF TypeOK, CommandsTypeOK, Command
<1>2. Live(queue[1])
  BY <1>1 DEF QueueLive
<1> QED
  BY <1>1, <1>2 DEF Live, Coupled, RegistryMatchesSockets

\* The walk that follows a join comes back to the head, and meets nobody but
\* the registered entities on the map.
LEMMA JoinWalk ==
  ASSUME TypeOK, Coupled, MapWhole, ~strayOnMap, Joins, Command.entity \in entities
  PROVE  LET m == ListAdd(links, MapHead, Command.entity)
         IN  /\ LoopEnds(m, MapHead)
             /\ ~LoopRunsOff(m, MapHead)
             /\ Touched \subseteq allocated
<1> DEFINE n == Command.entity
           m == ListAdd(links, MapHead, n)
           S == OnMapCells \cup {n}
<1>1. IsFiniteSet(Cells) /\ NULL \notin Cells
  BY FS_AddElement
<1>2. Ring(links, OnMapCells, MapHead) /\ Memory(links, Cells) /\ OnMapCells \in SUBSET Cells
  BY MapRingIsRing DEF MapWhole
<1>3. n \in Cells \ OnMapCells /\ Ring(m, S, MapHead)
  BY RingInserted DEF MapWhole
<1>4. Memory(m, Cells) /\ S \in SUBSET Cells
  BY <1>2, <1>3 DEF Memory, ListAdd
<1>5. entities = allocated /\ n \in allocated
  BY DEF Coupled, RegistryMatchesSockets
<1> HIDE DEF n, m
<1>6. Chain(links, OnMapCells, MapHead) /\ IsFiniteSet(DOMAIN links.next)
  BY <1>1, <1>2, RingIsChain
<1>7. Chain(m, S, MapHead) /\ IsFiniteSet(DOMAIN m.next)
  BY <1>1, <1>3, <1>4, RingIsChain
<1>8. /\ Visited(links, MapHead) \subseteq OnMapCells \ {MapHead}
      /\ Visited(m, MapHead) \subseteq S \ {MapHead}
  BY <1>6, <1>7, VisitedOnAChain
<1>9. OnMapCells \ {MapHead} \subseteq entities
  BY DEF OnMapCells
<1>10. (Visited(links, MapHead) \cup Visited(m, MapHead)) \ {MapHead} \subseteq allocated
  BY <1>5, <1>8, <1>9
<1>11. Touched \subseteq allocated
  BY <1>10 DEF Touched, m, n
<1>12. LoopEnds(m, MapHead)
  BY <1>7, LoopEndsOnAChain
<1>13. ~LoopRunsOff(m, MapHead)
  BY <1>12 DEF LoopEnds, LoopRunsOff
<1> QED
  BY <1>11, <1>12, <1>13 DEF m, n

LEMMA UpStep ==
  TypeOK /\ Coupled /\ QueueLive /\ MapWhole /\ StaysUp /\ [Next]_vars => StaysUp'
<1> SUFFICES ASSUME TypeOK, Coupled, QueueLive, MapWhole, StaysUp, [Next]_vars,
                    ~strayOnMap', ~carried', ~AllocMayFail
             PROVE  pc' \notin {"crashed", "hung"}
  BY DEF StaysUp
<1>1. CASE DispatchCrashes
  <2>1. ~strayOnMap /\ ~carried /\ queue # << >>
    BY <1>1 DEF DispatchCrashes, Crash, End, gameVars, DispatchDone
  <2>2. Command.entity \in entities /\ Command.entity \in allocated
    BY <2>1, CommandLive
  <2>3. Joins => /\ ~LoopRunsOff(ListAdd(links, MapHead, Command.entity), MapHead)
                 /\ Touched \subseteq allocated
    BY <2>1, <2>2, JoinWalk
  <2> QED
    BY <1>1, <2>2, <2>3 DEF DispatchCrashes
<1>2. CASE JoinHangs
  <2>1. JoinEffect /\ Joins
    BY <1>2 DEF JoinHangs, JoinEffect
  <2>2. /\ ~strayOnMap /\ Command.entity \in entities
        /\ links' = ListAdd(links, MapHead, Command.entity)
    BY <2>1, JoinCells
  <2>3. LoopEnds(links', MapHead)
    BY <2>1, <2>2, JoinWalk
  <2> QED
    BY <1>2, <2>3 DEF JoinHangs
<1>3. CASE DispatchReturn \/ JoinIgnored \/ Join
  BY <1>3 DEF DispatchReturn, JoinIgnored, Join, JoinEffect, Joins
<1>4. CASE LoginStep
  BY <1>4 DEF LoginStep, AcceptClient, AcceptWithoutMemory, PollNothing, SelectClients,
              LoopExit
<1>5. CASE ScanStep
  BY <1>5 DEF ScanStep, ScanData, ScanDataWithoutMemory, JsonOutOfMemory, ScanHangup,
              ScanSkip, ScanEnd
<1>6. CASE GameStep
  BY <1>6 DEF GameStep, GameNothing, GameConnect, GameDisconnect, GameReceive,
              GameReceiveOverrun, GameReceiveWithoutMemory, JsonOutOfMemory, End,
              BeginDispatch
<1>7. CASE UNCHANGED vars \/ ExitHandler
  BY <1>7 DEF vars, ExitHandler, StaysUp
<1> QED
  BY <1>1, <1>2, <1>3, <1>4, <1>5, <1>6, <1>7 DEF Next, ServerStep, DispatchStep, Done

\* As long as no player has left while on the map, no turn began with commands
\* left over and malloc does not fail, no order of messages, connections and
\* hangups makes the server touch a freed block, follow a null pointer or walk
\* the map's list for ever.  The packets that json_validate reads beyond their end
\* or beyond the stack (GameReceiveOverrun) end it in a way of their own.
THEOREM ServerStaysUp == Spec => []StaysUp
<1>1. Init => QueueLive /\ StaysUp
  BY DEF Init, CommandsInit, QueueLive, StaysUp
<1>2. TypeOK /\ Coupled /\ QueueLive /\ MapWhole /\ StaysUp /\ [Next]_vars
        => (TypeOK /\ Coupled /\ QueueLive /\ MapWhole /\ StaysUp)'
  BY NextTyped, CoupledStep, LiveStep, WholeStep, UpStep
<1> QED
  BY InitTyped, InitCoupled, InitWhole, <1>1, <1>2, PTL DEF Spec

\* BroadcastExact with what its induction needs: the list made by a join is
\* there only until the dispatcher goes on.
BroadcastNow == BroadcastExact /\ (bcast # NULL => pc = "dispatch")

LEMMA BroadcastJoin ==
  ASSUME TypeOK, Coupled, MapWhole, Join, TypeOK', MapWhole'
  PROVE  BroadcastExact'
<1> SUFFICES ASSUME bcast' # NULL, ~strayOnMap'
             PROVE  /\ bcast'.from \in entities'
                    /\ bcast'.to = InSightOf(bcast.from)'
  BY DEF BroadcastExact
<1> PICK n : n = Command.entity
  OBVIOUS
<1>1. JoinEffect /\ bcast' = Broadcast(ent', links', n)
  BY DEF Join, BclistCreate
<1>2. n \in entities /\ entities' = entities
  BY <1>1, JoinCells DEF JoinEffect
<1>3. MapListSound'
  BY WholeIsSound, PTL
<1>4. Visited(links', MapHead) = { a \in entities' : ent'[a].onMap }
  BY <1>3 DEF MapListSound
<1>5. bcast'.from = n
  BY <1>1 DEF Broadcast
<1>6. bcast'.to = { b \in Addrs : b \in Visited(links', MapHead) /\ b # n /\ Near(ent', b, n) }
  BY <1>1 DEF Broadcast
<1>7. entities' \subseteq Addrs
  BY DEF TypeOK, EntitiesTypeOK
<1>8. InSightOf(bcast.from)' = { b \in entities' \ {n} : ent'[b].onMap /\ Near(ent', b, n) }
  BY <1>5 DEF InSightOf, Near, Square
<1> QED
  BY <1>2, <1>4, <1>5, <1>6, <1>7, <1>8

LEMMA BroadcastStep ==
  /\ TypeOK /\ Coupled /\ MapWhole /\ BroadcastNow
  /\ TypeOK' /\ MapWhole' /\ [Next]_vars
  => BroadcastNow'
<1> SUFFICES ASSUME TypeOK, Coupled, MapWhole, BroadcastNow, TypeOK', MapWhole', [Next]_vars
             PROVE  BroadcastNow'
  OBVIOUS
<1>1. CASE bcast' = NULL
  BY <1>1 DEF BroadcastNow, BroadcastExact
<1>2. CASE Join
  <2>1. pc' = "dispatch"
    BY <1>2 DEF Join, JoinEffect, Joins
  <2> QED
    BY <1>2, <2>1, BroadcastJoin DEF BroadcastNow
<1>3. CASE UNCHANGED <<bcast, pc, entities, ent, strayOnMap>>
  BY <1>3 DEF BroadcastNow, BroadcastExact, InSightOf
<1>4. CASE LoginStep
  BY <1>1, <1>4 DEF LoginStep, AcceptClient, AcceptWithoutMemory, Crash, End, PollNothing,
     SelectClients, LoopExit
<1>5. CASE ScanStep
  <2>1. bcast' \in {bcast, NULL} /\ pc = "scan"
    BY <1>5 DEF ScanStep, ScanData, ScanDataWithoutMemory, JsonOutOfMemory, Crash, End,
       ScanHangup, ScanSkip, ScanEnd
  <2> QED
    BY <1>1, <2>1 DEF BroadcastNow
<1>6. CASE GameStep
  <2>1. bcast' \in {bcast, NULL} /\ pc = "game"
    BY <1>6 DEF GameStep, GameNothing, GameConnect, GameDisconnect, GameReceive,
       GameReceiveOverrun, GameReceiveWithoutMemory, JsonOutOfMemory,
       Crash, End, BeginDispatch
  <2> QED
    BY <1>1, <2>1 DEF BroadcastNow
<1>7. CASE DispatchStep
  BY <1>1, <1>2, <1>7 DEF DispatchStep, DispatchReturn, JoinIgnored, JoinHangs,
     DispatchCrashes, Crash, End
<1>8. CASE UNCHANGED vars \/ ExitHandler
  BY <1>3, <1>8 DEF vars, ExitHandler, entityVars, tilemapVars
<1> QED
  BY <1>4, <1>5, <1>6, <1>7, <1>8 DEF Next, ServerStep, Done

\* Until a player leaves while on the map, a join is told to the other players
\* on the map within sight of the place joined: to all of them, to nobody else
\* and never to a block that is no player any more.
THEOREM BroadcastRight == Spec => []BroadcastExact
<1>1. Init => BroadcastNow
  BY DEF Init, TilemapInit, BroadcastNow, BroadcastExact
<1>2. TypeOK /\ Coupled /\ MapWhole /\ [Next]_vars => (TypeOK /\ Coupled /\ MapWhole)'
  BY NextTyped, CoupledStep, WholeStep
<1>3. TypeOK /\ Coupled /\ MapWhole /\ BroadcastNow /\ [Next]_vars => BroadcastNow'
  BY <1>2, BroadcastStep
<1>4. BroadcastNow => BroadcastExact
  BY DEF BroadcastNow
<1> QED
  BY InitTyped, InitCoupled, InitWhole, <1>1, <1>2, <1>3, <1>4, PTL DEF Spec
-----------------------------------------------------------------------------
(***************************************************************************)
(* ENet's clients.                                                         *)
(***************************************************************************)

\* Ids are handed out in ascending order and never twice.
Identified ==
  /\ PeersIdentified
  /\ \A p \in Peers : clients[p] \in (0 .. nextClientId - 1) \cup {NULL}
  /\ \A p \in Peers \ linked : clients[p] = NULL

LEMMA IdentifiedStep == TypeOK /\ Identified /\ [Next]_vars => Identified'
<1> SUFFICES ASSUME TypeOK, Identified, [Next]_vars
             PROVE  Identified'
  OBVIOUS
<1> USE EnetAssumption DEF TypeOK, EnetTypeOK, Identified, PeersIdentified
<1>1. CASE UNCHANGED enetVars
  BY <1>1 DEF enetVars
<1>2. ASSUME NEW p \in Peers, NEW stored \in {TRUE, ~AllocMayFail}, EnetConnect(p, stored)
      PROVE  Identified'
  <2>1. /\ linked' = linked \cup {p} /\ nextClientId' = nextClientId + 1
        /\ p \notin linked /\ nextClientId \in Nat
    BY <1>2 DEF EnetConnect
  <2>2. CASE stored
    <3>1. clients' = [clients EXCEPT ![p] = nextClientId]
      BY <1>2, <2>2 DEF EnetConnect
    <3>2. \A r \in Peers \ {p} : clients'[r] = clients[r]
      BY <3>1
    <3>3. clients'[p] = nextClientId
      BY <3>1
    <3> QED
      BY <2>1, <3>2, <3>3
  <2>3. CASE ~stored
    <3>1. clients' = clients /\ AllocMayFail
      BY <1>2, <2>3 DEF EnetConnect
    <3>2. clients[p] = NULL
      BY <2>1
    <3> QED
      BY <2>1, <3>1, <3>2
  <2> QED
    BY <2>2, <2>3
<1>3. ASSUME NEW p \in Peers, EnetDisconnect(p)
      PROVE  Identified'
  BY <1>3 DEF EnetDisconnect
<1>4. CASE GameStep
  BY <1>1, <1>2, <1>3, <1>4 DEF GameStep, GameNothing, GameConnect, GameDisconnect,
     GameReceive, GameReceiveOverrun, GameReceiveWithoutMemory, JsonOutOfMemory,
     Crash, End
<1>5. CASE LoginStep \/ ScanStep \/ DispatchStep
  BY <1>1, <1>5 DEF LoginStep, AcceptClient, AcceptWithoutMemory, Crash, End, PollNothing,
     SelectClients, LoopExit, ScanStep, ScanData, ScanDataWithoutMemory, JsonOutOfMemory,
     ScanHangup, ScanSkip, ScanEnd, DispatchStep, DispatchReturn, JoinIgnored, Join,
     JoinHangs, JoinEffect, DispatchCrashes
<1>6. CASE UNCHANGED vars \/ ExitHandler
  BY <1>1, <1>6 DEF vars, ExitHandler
<1> QED
  BY <1>4, <1>5, <1>6 DEF Next, ServerStep, Done

\* Every connected ENet peer that is in the table has an id of its own, over any
\* number of connections and disconnections, and only a failing malloc keeps a
\* peer out of the table.
THEOREM PeersKnown == Spec => []PeersIdentified
<1>1. Init => Identified
  BY DEF Init, EnetInit, Identified, PeersIdentified
<1>2. TypeOK /\ Identified /\ [Next]_vars => (TypeOK /\ Identified)'
  BY NextTyped, IdentifiedStep
<1>3. TypeOK /\ Identified => PeersIdentified
  BY DEF Identified
<1> QED
  BY InitTyped, <1>1, <1>2, <1>3, PTL DEF Spec
-----------------------------------------------------------------------------
(***************************************************************************)
(* What a client sees: the server implements PlayerSessions.               *)
(***************************************************************************)
View == <<Where, Asked>>

\* A registered entity is the one player of an open client socket.
LEMMA OnePlayer ==
  ASSUME TypeOK, Coupled, NEW a \in entities
  PROVE  ent[a].client \in ClientFds /\ EntitiesOf(ent[a].client) = {a}
<1>1. ent[a].client \in master \ {Sock}
  BY DEF Coupled, RegistryMatchesSockets
<1>2. ent[a].client \in ClientFds
  <2>1. ent[a].client \in Sock .. LastFd /\ ent[a].client # Sock
    BY <1>1 DEF TypeOK, TcpTypeOK
  <2> QED
    BY <2>1 DEF ClientFds
<1>3. EntitiesOf(ent[a].client) = {a}
  BY DEF EntitiesOf, Coupled, RegistryMatchesSockets
<1> QED
  BY <1>2, <1>3

\* Where the one player of a client stands, before and after a step.
LEMMA WhereOne ==
  ASSUME NEW c, NEW a
  PROVE  /\ EntitiesOf(c) = {a}
              => WhereIs(c) = IF ent[a].onMap THEN <<ent[a].x, ent[a].y>> ELSE OffMap
         /\ EntitiesOf(c)' = {a}
              => WhereIs(c)' = IF ent'[a].onMap THEN <<ent'[a].x, ent'[a].y>> ELSE OffMap
BY DEF WhereIs

LEMMA WhereNone ==
  ASSUME NEW c
  PROVE  /\ EntitiesOf(c) = {} => WhereIs(c) = Absent
         /\ EntitiesOf(c)' = {} => WhereIs(c)' = Absent
BY DEF WhereIs

\* A client whose entities a step leaves alone stays where it is.
LEMMA WhereSame ==
  ASSUME NEW c, EntitiesOf(c)' = EntitiesOf(c),
         \A a \in EntitiesOf(c) : ent'[a] = ent[a]
  PROVE  WhereIs(c)' = WhereIs(c)
<1>1. CASE EntitiesOf(c) = {}
  BY <1>1, WhereNone
<1>2. CASE EntitiesOf(c) # {}
  <2> DEFINE a == CHOOSE b \in EntitiesOf(c) : TRUE
  <2>1. a \in EntitiesOf(c)
    BY <1>2
  <2>2. ent'[a] = ent[a]
    BY <2>1
  <2> QED
    BY <1>2, <2>2 DEF WhereIs
<1> QED
  BY <1>1, <1>2

LEMMA ViewFrame ==
  ASSUME UNCHANGED <<ent, entities, queue>>
  PROVE  UNCHANGED View
<1>1. \A c : EntitiesOf(c)' = EntitiesOf(c)
  BY DEF EntitiesOf
<1>2. \A c : WhereIs(c)' = WhereIs(c)
  BY <1>1, WhereSame
<1>3. \A c : AskedBy(c)' = AskedBy(c)
  BY <1>1 DEF AskedBy
<1> QED
  BY <1>2, <1>3 DEF View, Where, Asked

\* A new connection begins a session.
LEMMA SessionBegins ==
  ASSUME TypeOK, Coupled, QueueLive, ~carried,
         NEW fd \in ClientFds, NEW a \in Addrs, AcceptClient(fd, a)
  PROVE  Sessions!Connect(fd)
<1>1. /\ queue = << >> /\ queue' = << >>
      /\ fd \notin master /\ a \notin allocated
      /\ entities' = entities \cup {a}
      /\ ent' = [ent EXCEPT ![a] = Fresh(nextId, fd)]
  BY DEF AcceptClient, QueueLive, commandVars, TcpEnter, LowestFree, GConnect,
         PlayerCreate, PlayerRegister
<1>2. a \notin entities /\ \A b \in entities : ent[b].client # fd
  BY <1>1 DEF Coupled, RegistryMatchesSockets
<1>3. ent'[a].client = fd /\ ~ent'[a].onMap /\ \A b \in entities : ent'[b] = ent[b]
  BY <1>1, <1>2 DEF Fresh, TypeOK, EntitiesTypeOK
<1>4. EntitiesOf(fd) = {} /\ EntitiesOf(fd)' = {a}
  BY <1>1, <1>2, <1>3 DEF EntitiesOf
<1>5. \A c \in ClientFds \ {fd} :
        EntitiesOf(c)' = EntitiesOf(c) /\ \A b \in EntitiesOf(c) : ent'[b] = ent[b]
  BY <1>1, <1>2, <1>3 DEF EntitiesOf
<1>6. WhereIs(fd) = Absent /\ WhereIs(fd)' = OffMap
  BY <1>3, <1>4, WhereOne, WhereNone
<1>7. \A c \in ClientFds \ {fd} : WhereIs(c)' = WhereIs(c)
  BY <1>5, WhereSame
<1>8. \A c \in ClientFds : AskedBy(c) = {} /\ AskedBy(c)' = {}
  BY <1>1 DEF AskedBy
<1>9. Where' = [Where EXCEPT ![fd] = OffMap] /\ Where[fd] = Absent
  BY <1>6, <1>7 DEF Where
<1>10. Asked' = Asked
  BY <1>8 DEF Asked
<1> QED
  BY <1>9, <1>10 DEF Sessions!Connect

\* A hang-up ends a session that has no request left.
LEMMA SessionEnds ==
  ASSUME TypeOK, Coupled, QueueLive, ~carried, ScanHangup, NEW fd, fd = at
  PROVE  fd \in ClientFds /\ Sessions!Disconnect(fd)
<1>1. fd \in master \ {Sock} /\ pc = "scan" /\ fd \in ClientFds
  BY DEF ScanHangup, Readable, Coupled, TypeOK, TcpTypeOK, ClientFds
<1>2. EntitiesOf(fd) # {}
  BY <1>1 DEF EntitiesOf, Coupled, RegistryMatchesSockets
<1>3. PICK a \in EntitiesOf(fd) : PlayerUnregister(a) /\ PlayerDestroy(a)
  BY <1>2 DEF ScanHangup, GDisconnect
<1>4. /\ ent[a].client = fd /\ a \in entities
      /\ entities' = entities \ {a} /\ ent' = ent /\ queue' = queue
  BY <1>3 DEF EntitiesOf, PlayerUnregister, PlayerDestroy, ScanHangup, commandVars
<1>5. EntitiesOf(fd) = {a}
  BY <1>4, OnePlayer
<1>6. EntitiesOf(fd)' = {} /\ \A c \in ClientFds \ {fd} : EntitiesOf(c)' = EntitiesOf(c)
  <2>1. ASSUME NEW c
        PROVE  EntitiesOf(c)' = EntitiesOf(c) \ {a}
    BY <1>4 DEF EntitiesOf
  <2>2. \A c \in ClientFds \ {fd} : a \notin EntitiesOf(c)
    BY <1>4 DEF EntitiesOf
  <2> QED
    BY <1>5, <2>1, <2>2
<1>7. WhereIs(fd) # Absent
  <2>1. ent[a].x \in Int /\ ent[a].y \in Int
    BY <1>4 DEF TypeOK, EntitiesTypeOK, EntityRecord
  <2> QED
    BY <1>5, <2>1, WhereOne, SessionsAssumption DEF SessionsAssumption
<1>8. WhereIs(fd)' = Absent
  BY <1>6, WhereNone
<1>9. \A c \in ClientFds \ {fd} : WhereIs(c)' = WhereIs(c)
  BY <1>4, <1>6, WhereSame
<1>10. AskedBy(fd) = {}
  <2>1. ASSUME NEW k \in 1 .. Len(queue)
        PROVE  queue[k].entity # a
    <3>1. ent[queue[k].entity].client < fd
      BY <1>1 DEF QueueLive
    <3> QED
      BY <1>1, <1>4, <3>1 DEF ClientFds
  <2> QED
    BY <1>5, <2>1 DEF AskedBy
<1>11. AskedBy(fd)' = {}
  BY <1>6 DEF AskedBy
<1>12. \A c \in ClientFds \ {fd} : AskedBy(c)' = AskedBy(c)
  BY <1>4, <1>6 DEF AskedBy
<1>13. Where' = [Where EXCEPT ![fd] = Absent] /\ Where[fd] # Absent
  BY <1>1, <1>7, <1>8, <1>9 DEF Where
<1>14. Asked' = Asked /\ Asked[fd] = {}
  BY <1>1, <1>10, <1>11, <1>12 DEF Asked
<1> QED
  BY <1>1, <1>13, <1>14 DEF Sessions!Disconnect

\* A message asks for a place, or for nothing.
LEMMA MessageAsks ==
  ASSUME TypeOK, Coupled, NEW client, NEW d \in Messages, ClientSent(client, d),
         UNCHANGED <<ent, entities>>
  PROVE  [Sessions!Next]_View
<1>1. CASE UNCHANGED queue
  BY <1>1, ViewFrame
<1>2. ASSUME NEW a \in EntitiesOf(client), NEW j \in Interpret(d) \ {NULL},
             QueueUp(a, ent[a].id, j)
      PROVE  [Sessions!Next]_View
  <2> DEFINE p == <<j.x, j.y>>
  <2>1. /\ a \in entities /\ ent[a].client = client
        /\ client \in ClientFds /\ EntitiesOf(client) = {a}
    BY OnePlayer DEF EntitiesOf
  <2>2. /\ Len(queue) \in Nat /\ Len(queue') = Len(queue) + 1
        /\ \A k \in 1 .. Len(queue) : queue'[k] = queue[k]
        /\ queue'[Len(queue) + 1].entity = a
        /\ queue'[Len(queue) + 1].x = j.x /\ queue'[Len(queue) + 1].y = j.y
    BY <1>2 DEF QueueUp, TypeOK, CommandsTypeOK
  <2>3. \A c : EntitiesOf(c)' = EntitiesOf(c)
    BY DEF EntitiesOf
  <2>4. Where' = Where
    BY <2>3, WhereSame DEF Where
  <2>5. \A c \in ClientFds \ {client} : a \notin EntitiesOf(c)
    BY <2>1 DEF EntitiesOf
  <2>6. \A c \in ClientFds \ {client} : AskedBy(c)' = AskedBy(c)
    BY <2>2, <2>3, <2>5 DEF AskedBy
  <2>7. AskedBy(client)' = IF p \in Places THEN AskedBy(client) \cup {p} ELSE AskedBy(client)
    <3>1. ASSUME NEW q \in Places
          PROVE  q \in AskedBy(client)' <=> q \in AskedBy(client) \/ q = p
      BY <2>1, <2>2, <2>3 DEF AskedBy
    <3>2. AskedBy(client) \subseteq Places /\ AskedBy(client)' \subseteq Places
      BY DEF AskedBy, Places
    <3> QED
      BY <3>1, <3>2
  <2>8. CASE p \notin Places
    <3>1. Asked' = Asked
      BY <2>6, <2>7, <2>8 DEF Asked
    <3> QED
      BY <2>4, <3>1 DEF View
  <2>9. CASE p \in Places
    <3>1. Asked' = [Asked EXCEPT ![client] = @ \cup {p}]
      BY <2>1, <2>6, <2>7, <2>9 DEF Asked
    <3>2. Where[client] # Absent
      <4>1. ent[a].x \in Int /\ ent[a].y \in Int
        BY <2>1 DEF TypeOK, EntitiesTypeOK, EntityRecord
      <4>2. WhereIs(client) # Absent
        BY <2>1, <4>1, WhereOne, SessionsAssumption DEF SessionsAssumption
      <4> QED
        BY <2>1, <4>2 DEF Where
    <3>3. Sessions!Ask(client, p)
      BY <2>4, <3>1, <3>2 DEF Sessions!Ask
    <3> QED
      BY <2>1, <2>9, <3>3 DEF Sessions!Next
  <2> QED
    BY <2>8, <2>9
<1> QED
  BY <1>1, <1>2 DEF ClientSent

\* The entity, the client and the place of the command that comes next.
Names(n, c, p) ==
  n = Command.entity /\ c = ent[n].client /\ p = <<Command.x, Command.y>>

\* Taking the first command answers the request it stands for.
LEMMA RequestTaken ==
  ASSUME TypeOK, Coupled, QueueLive, ~carried, queue # << >>, queue' = Tail(queue),
         \A b : EntitiesOf(b)' = EntitiesOf(b),
         NEW n, NEW c, NEW p, Names(n, c, p)
  PROVE  /\ c \in ClientFds /\ EntitiesOf(c) = {n}
         /\ p \in Places => p \in Asked[c]
         /\ p \notin Places => Asked' = Asked
         /\ Asked' = [Asked EXCEPT ![c] = @ \ {p}] \/ Asked' = Asked
<1>1. n \in entities
  BY CommandLive DEF Names
<1>2. c \in ClientFds /\ EntitiesOf(c) = {n}
  BY <1>1, OnePlayer DEF Names
<1>3. /\ 1 \in 1 .. Len(queue) /\ Command = queue[1]
      /\ Len(queue) \in Nat /\ Len(queue') = Len(queue) - 1
      /\ \A k \in 1 .. Len(queue') : queue'[k] = queue[k + 1]
      /\ queue[1].entity = n /\ p = <<queue[1].x, queue[1].y>>
  BY DEF TypeOK, CommandsTypeOK, Command, Names
<1>4. ASSUME NEW d \in ClientFds, NEW q \in Places
      PROVE  q \in AskedBy(d) <=> q \in AskedBy(d)' \/ (n \in EntitiesOf(d) /\ q = p)
  <2>1. q \in AskedBy(d)' => q \in AskedBy(d)
    <3> SUFFICES ASSUME NEW k \in 1 .. Len(queue'),
                        queue'[k].entity \in EntitiesOf(d),
                        q = <<queue'[k].x, queue'[k].y>>
                 PROVE  q \in AskedBy(d)
      BY DEF AskedBy
    <3>1. k + 1 \in 1 .. Len(queue) /\ queue'[k] = queue[k + 1]
      BY <1>3
    <3> QED
      BY <1>4, <3>1 DEF AskedBy
  <2>2. n \in EntitiesOf(d) /\ q = p => q \in AskedBy(d)
    BY <1>3, <1>4 DEF AskedBy
  <2>3. q \in AskedBy(d) => q \in AskedBy(d)' \/ (n \in EntitiesOf(d) /\ q = p)
    <3> SUFFICES ASSUME NEW k \in 1 .. Len(queue),
                        queue[k].entity \in EntitiesOf(d),
                        q = <<queue[k].x, queue[k].y>>
                 PROVE  q \in AskedBy(d)' \/ (n \in EntitiesOf(d) /\ q = p)
      BY DEF AskedBy
    <3>1. CASE k = 1
      BY <1>3, <3>1
    <3>2. CASE k # 1
      <4>1. k - 1 \in 1 .. Len(queue') /\ queue'[k - 1] = queue[k]
        BY <1>3, <3>2
      <4> QED
        BY <1>4, <4>1 DEF AskedBy
    <3> QED
      BY <3>1, <3>2
  <2> QED
    BY <2>1, <2>2, <2>3
<1>5. \A d \in ClientFds : AskedBy(d) \subseteq Places /\ AskedBy(d)' \subseteq Places
  BY DEF AskedBy, Places
<1>6. \A d \in ClientFds \ {c} : AskedBy(d)' = AskedBy(d)
  <2>1. \A d \in ClientFds \ {c} : n \notin EntitiesOf(d)
    BY <1>2 DEF EntitiesOf
  <2> QED
    BY <1>4, <1>5, <2>1
<1>7. p \in Places => p \in AskedBy(c)
  BY <1>2, <1>4
<1>8. AskedBy(c)' \in {AskedBy(c), AskedBy(c) \ {p}} /\ (p \notin Places => AskedBy(c)' = AskedBy(c))
  <2>1. \A q \in Places : q \in AskedBy(c) <=> q \in AskedBy(c)' \/ q = p
    BY <1>2, <1>4
  <2>2. AskedBy(c) \subseteq Places /\ AskedBy(c)' \subseteq Places
    BY <1>2, <1>5
  <2>3. CASE p \in AskedBy(c)' \/ p \notin Places
    <3>1. \A q : q \in AskedBy(c) <=> q \in AskedBy(c)'
      BY <2>1, <2>2, <2>3
    <3> QED
      BY <3>1
  <2>4. CASE p \notin AskedBy(c)' /\ p \in Places
    <3>1. \A q : q \in AskedBy(c)' <=> q \in AskedBy(c) \ {p}
      BY <2>1, <2>2, <2>4
    <3> QED
      BY <2>4, <3>1
  <2> QED
    BY <2>3, <2>4
<1>9. /\ p \in Places => p \in Asked[c]
      /\ p \notin Places => Asked' = Asked
      /\ Asked' = [Asked EXCEPT ![c] = @ \ {p}] \/ Asked' = Asked
  BY <1>2, <1>6, <1>7, <1>8 DEF Asked
<1> QED
  BY <1>2, <1>9

LEMMA IgnoredAnswers ==
  ASSUME TypeOK, Coupled, QueueLive, ~carried, JoinIgnored,
         NEW n, NEW c, NEW p, Names(n, c, p)
  PROVE  [Sessions!Next]_View
<1>1. /\ queue # << >> /\ queue' = Tail(queue) /\ UNCHANGED <<ent, entities>>
      /\ ent[n].onMap \/ p \notin Places
  BY DEF JoinIgnored, Names, InBounds, Places, DispatchDone, TakeCommand, gameVars, entityVars
<1>2. \A b : EntitiesOf(b)' = EntitiesOf(b)
  BY <1>1 DEF EntitiesOf
<1>3. /\ c \in ClientFds /\ EntitiesOf(c) = {n}
      /\ p \in Places => p \in Asked[c]
      /\ p \notin Places => Asked' = Asked
      /\ Asked' = [Asked EXCEPT ![c] = @ \ {p}] \/ Asked' = Asked
  BY <1>1, <1>2, RequestTaken
<1>4. Where' = Where
  BY <1>1, <1>2, WhereSame DEF Where
<1>5. CASE p \notin Places
  BY <1>3, <1>4, <1>5 DEF View
<1>6. CASE p \in Places
  <2>1. ent[n].onMap /\ n \in Addrs
    BY <1>1, <1>3, <1>6 DEF EntitiesOf, TypeOK, EntitiesTypeOK
  <2>2. Where[c] # OffMap
    <3>1. ent[n].x \in Int /\ ent[n].y \in Int
      BY <2>1 DEF TypeOK, EntitiesTypeOK, EntityRecord
    <3>2. WhereIs(c) = <<ent[n].x, ent[n].y>>
      BY <1>3, <2>1, WhereOne
    <3> QED
      BY <1>3, <3>1, <3>2, SessionsAssumption DEF SessionsAssumption, Where
  <2>3. Where' = [Where EXCEPT ![c] = IF @ = OffMap THEN p ELSE @]
    BY <1>4, <2>2 DEF Where
  <2>4. Sessions!Answer(c, p)
    BY <1>3, <1>6, <2>3 DEF Sessions!Answer
  <2> QED
    BY <1>3, <1>6, <2>4 DEF Sessions!Next
<1> QED
  BY <1>5, <1>6

LEMMA JoinAnswers ==
  ASSUME TypeOK, Coupled, QueueLive, ~carried, JoinEffect,
         NEW n, NEW c, NEW p, Names(n, c, p)
  PROVE  [Sessions!Next]_View
<1>1. /\ queue # << >> /\ queue' = Tail(queue) /\ entities' = entities
      /\ ~ent[n].onMap /\ p \in Places
      /\ ent' = [ent EXCEPT ![n] = [@ EXCEPT !.onMap = TRUE, !.x = Command.x, !.y = Command.y]]
      /\ p = <<Command.x, Command.y>>
  BY DEF Names, JoinEffect, Joins, InBounds, Places, DispatchDone, TakeCommand, Place
<1>2. n \in Addrs
  BY JoinTyped DEF Names
<1>3. /\ \A b \in Addrs : ent'[b].client = ent[b].client
      /\ \A b \in Addrs \ {n} : ent'[b] = ent[b]
      /\ ent'[n].onMap /\ ent'[n].x = Command.x /\ ent'[n].y = Command.y
  BY <1>1, <1>2 DEF TypeOK, EntitiesTypeOK, EntityRecord
<1>4. \A b : EntitiesOf(b)' = EntitiesOf(b)
  BY <1>1, <1>3 DEF EntitiesOf, TypeOK, EntitiesTypeOK
<1>5. /\ c \in ClientFds /\ EntitiesOf(c) = {n}
      /\ p \in Places => p \in Asked[c]
      /\ Asked' = [Asked EXCEPT ![c] = @ \ {p}] \/ Asked' = Asked
  <2>1. queue # << >> /\ queue' = Tail(queue)
    BY <1>1
  <2> QED
    BY <1>4, <2>1, RequestTaken, ZenonT(60)
<1>6. WhereIs(c) = OffMap
  BY <1>1, <1>5, WhereOne
<1>7. WhereIs(c)' = p
  <2>1. EntitiesOf(c)' = {n}
    BY <1>4, <1>5
  <2>2. WhereIs(c)' = IF ent'[n].onMap THEN <<ent'[n].x, ent'[n].y>> ELSE OffMap
    BY <2>1, WhereOne
  <2>3. ent'[n].onMap /\ <<ent'[n].x, ent'[n].y>> = p
    BY <1>1, <1>3
  <2> QED
    BY <2>2, <2>3
<1>8. \A d \in ClientFds \ {c} : WhereIs(d)' = WhereIs(d)
  <2>1. ASSUME NEW d \in ClientFds \ {c}
        PROVE  EntitiesOf(d) \subseteq Addrs \ {n}
    BY <1>5 DEF EntitiesOf, TypeOK, EntitiesTypeOK
  <2> QED
    BY <1>3, <1>4, <2>1, WhereSame
<1>9. Where' = [Where EXCEPT ![c] = IF @ = OffMap THEN p ELSE @]
  BY <1>5, <1>6, <1>7, <1>8 DEF Where
<1>10. Sessions!Answer(c, p)
  BY <1>1, <1>5, <1>9 DEF Sessions!Answer
<1> QED
  BY <1>1, <1>5, <1>10 DEF Sessions!Next

LEMMA SessionStep ==
  TypeOK /\ Coupled /\ QueueLive /\ ~carried /\ [Next]_vars => [Sessions!Next]_View
<1> SUFFICES ASSUME TypeOK, Coupled, QueueLive, ~carried, [Next]_vars
             PROVE  [Sessions!Next]_View
  OBVIOUS
<1>1. CASE UNCHANGED vars \/ ExitHandler \/ Done
  BY <1>1, ViewFrame DEF vars, ExitHandler, Done, entityVars, commandVars
<1>2. CASE LoginStep
  <2>1. ASSUME NEW fd \in ClientFds, NEW a \in Addrs, AcceptClient(fd, a)
        PROVE  Sessions!Next
    BY <2>1, SessionBegins DEF Sessions!Next
  <2>2. CASE UNCHANGED <<ent, entities, queue>>
    BY <2>2, ViewFrame
  <2> QED
    BY <1>2, <2>1, <2>2 DEF LoginStep, AcceptWithoutMemory, Crash, End, PollNothing,
       SelectClients, LoopExit, gameVars, entityVars, commandVars
<1>3. CASE ScanStep
  <2>1. ASSUME NEW d \in Messages, ScanData(d)
        PROVE  [Sessions!Next]_View
    BY <2>1, MessageAsks DEF ScanData, gameVars, entityVars
  <2>2. CASE ScanHangup
    <3>1. \E fd : fd = at
      OBVIOUS
    <3> QED
      BY <2>2, <3>1, SessionEnds DEF Sessions!Next
  <2>3. CASE ScanDataWithoutMemory \/ ScanSkip \/ ScanEnd
    BY <2>3, ViewFrame DEF ScanDataWithoutMemory, JsonOutOfMemory, Crash, End, ScanSkip, ScanEnd,
       gameVars, entityVars, commandVars
  <2> QED
    BY <1>3, <2>1, <2>2, <2>3 DEF ScanStep
<1>4. CASE GameStep
  <2>1. ASSUME NEW p \in Peers, NEW d \in Messages, GameReceive(p, d)
        PROVE  [Sessions!Next]_View
    BY <2>1, MessageAsks DEF GameReceive, gameVars, entityVars
  <2>2. CASE UNCHANGED <<ent, entities, queue>>
    BY <2>2, ViewFrame
  <2> QED
    BY <1>4, <2>1, <2>2 DEF GameStep, GameNothing, GameConnect, GameDisconnect,
       GameReceiveOverrun, GameReceiveWithoutMemory, JsonOutOfMemory,
       Crash, End, gameVars, entityVars, commandVars
<1>5. CASE DispatchStep
  <2>1. CASE DispatchReturn \/ DispatchCrashes
    BY <2>1, ViewFrame DEF DispatchReturn, DispatchCrashes, Crash, End, gameVars, entityVars,
       commandVars
  <2>2. ASSUME NEW n, NEW c, NEW p, Names(n, c, p), JoinIgnored \/ JoinEffect
        PROVE  [Sessions!Next]_View
    BY <2>2, IgnoredAnswers, JoinAnswers
  <2>3. \E n, c, p : Names(n, c, p)
    BY DEF Names
  <2> QED
    BY <1>5, <2>1, <2>2, <2>3 DEF DispatchStep, Join, JoinHangs
<1> QED
  BY <1>1, <1>2, <1>3, <1>4, <1>5 DEF Next, ServerStep

LEMMA NoSessions == Init => Sessions!Init
<1> SUFFICES ASSUME Init
             PROVE  Sessions!Init
  OBVIOUS
<1>1. \A c : EntitiesOf(c) = {}
  BY DEF Init, EntitiesInit, EntitiesOf
<1>2. \A c : WhereIs(c) = Absent /\ AskedBy(c) = {}
  BY <1>1, WhereNone DEF AskedBy
<1> QED
  BY <1>2 DEF Sessions!Init, Where, Asked

\* Whatever the quota, the number of clients and blocks, and malloc: in a turn that
\* begins with an empty queue every step is one of PlayerSessions.  A client is
\* placed only where it asked in this session, only once, and hangs up with no
\* request unanswered, so that none is answered in a later session's name.
THEOREM SessionsImplemented == Spec => ImplementsSessions
<1>1. Init => QueueLive
  BY DEF Init, CommandsInit, QueueLive
<1>2. TypeOK /\ Coupled /\ QueueLive /\ [Next]_vars => (TypeOK /\ Coupled /\ QueueLive)'
  BY NextTyped, CoupledStep, LiveStep
<1>3. TypeOK /\ Coupled /\ QueueLive /\ [Next]_vars
        => [carried \/ Sessions!Next]_<<Where, Asked>>
  BY SessionStep DEF View
<1> QED
  BY InitTyped, InitCoupled, NoSessions, <1>1, <1>2, <1>3, PTL
     DEF Spec, ImplementsSessions

\* With a quota that covers a turn's messages no turn begins with a command left, so
\* that every behaviour of the server is one of PlayerSessions.
THEOREM SessionsRefined ==
  ASSUME QuotaSuffices
  PROVE  Spec => Sessions!Spec
<1>1. QuotaKeepsUp => ~carried
  BY DEF QuotaKeepsUp
<1>2. ~carried /\ [carried \/ Sessions!Next]_<<Where, Asked>>
        => [Sessions!Next]_<<Where, Asked>>
  OBVIOUS
<1> QED
  BY <1>1, <1>2, QuotaEnough, SessionsImplemented, PTL DEF ImplementsSessions, Sessions!Spec
=============================================================================
