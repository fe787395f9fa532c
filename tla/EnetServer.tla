----------------------------- MODULE EnetServer -----------------------------
(***************************************************************************)
(* enet_server.c: the "game" listener's table of clients.                  *)
(*                                                                         *)
(* ENet is external: it delivers one event per enet_host_service, CONNECT  *)
(* for a peer that is not connected, DISCONNECT and RECEIVE for one that   *)
(* is.                                                                     *)
(***************************************************************************)
EXTENDS Integers, CcanList

CONSTANTS
  Peers,        \* the peers ENet may report
  MaxPeerIds    \* model bound: how many client ids are ever given out

ASSUME EnetAssumption == MaxPeerIds \in Nat /\ NULL \notin Nat

VARIABLES
  linked,       \* the peers ENet holds connected
  clients,      \* server->clients: the client id stored for a peer, or NULL
  nextClientId  \* server->next_client_id

enetVars == <<linked, clients, nextClientId>>

\* enet_listener_init.
EnetInit ==
  /\ linked = {}
  /\ clients = [p \in Peers |-> NULL]
  /\ nextClientId = 0

\* The id handed to the callbacks: a peer that is not in the table is client 0.
ClientId(p) == IF clients[p] = NULL THEN 0 ELSE clients[p]

\* A CONNECT event, without the increment of next_client_id.
EnetConnectSameId(p, stored) ==
  /\ p \notin linked
  /\ nextClientId < MaxPeerIds
  /\ linked' = linked \cup {p}
  /\ clients' = [clients EXCEPT ![p] = IF stored THEN nextClientId ELSE @]
  /\ nextClientId' = IF linked = {} THEN nextClientId + 1 ELSE nextClientId

\* A CONNECT event.  The id is used up even when the table entry cannot be
\* allocated.
EnetConnect(p, stored) ==
  /\ p \notin linked
  /\ nextClientId < MaxPeerIds
  /\ linked' = linked \cup {p}
  /\ clients' = [clients EXCEPT ![p] = IF stored THEN nextClientId ELSE @]
  /\ nextClientId' = nextClientId + 1

\* A DISCONNECT event.
EnetDisconnect(p) ==
  /\ p \in linked
  /\ linked' = linked \ {p}
  /\ clients' = [clients EXCEPT ![p] = NULL]
  /\ UNCHANGED nextClientId
=============================================================================
