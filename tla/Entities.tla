------------------------------ MODULE Entities ------------------------------
(***************************************************************************)
(* entity.c and player.c: the blocks that hold a struct s_player, and the  *)
(* two global lists "entities" and "players" that register them.           *)
(*                                                                         *)
(* A block is an address.  Freeing one takes it out of "allocated" and     *)
(* leaves its contents in place, so that whoever kept a pointer to it      *)
(* reads what was there, or what malloc's next user of the block wrote.    *)
(* The lists are kept as sets: they are only searched by client id, and    *)
(* LinkedLists shows that the list operations behave like that for callers *)
(* which add and delete a node in turn, as this code does.                 *)
(***************************************************************************)
EXTENDS Integers, FiniteSets

CONSTANTS
  Addrs,        \* the addresses malloc may return for a struct s_player
  MaxPlayers    \* model bound: how many players are ever created

ASSUME EntitiesAssumption == MaxPlayers \in Nat /\ IsFiniteSet(Addrs)

VARIABLES
  ent,          \* ent[a]: the fields of the s_entity stored at a
  allocated,    \* the blocks in use
  entities,     \* the list "entities"
  players,      \* the list "players"
  nextId        \* the static counter next_id

entityVars == <<ent, allocated, entities, players, nextId>>

\* What s_player_create writes into a block: a zeroed entity, on no map.
Fresh(id, client) ==
  [id |-> id, client |-> client, onMap |-> FALSE, x |-> 0, y |-> 0]

EntitiesInit ==
  /\ ent = [a \in Addrs |-> Fresh(0, -1)]   \* never read
  /\ allocated = {}
  /\ entities = {}
  /\ players = {}
  /\ nextId = 0

\* s_entity_search_by_cid returns one of these, or NULL when there is none.
EntitiesOf(client) == { a \in entities : ent[a].client = client }

\* s_player_create: a zeroed block with a fresh id.
PlayerCreate(a, client) ==
  /\ a \notin allocated
  /\ nextId < MaxPlayers
  /\ allocated' = allocated \cup {a}
  /\ ent' = [ent EXCEPT ![a] = Fresh(nextId, client)]
  /\ nextId' = nextId + 1

\* s_player_register.
PlayerRegister(a) ==
  /\ entities' = entities \cup {a}
  /\ players' = players \cup {a}

\* s_player_unregister that leaves the entity behind in "entities".
UnregisterPlayerOnly(a) ==
  /\ players' = players \ {a}
  /\ entities' = entities

\* s_player_unregister.
PlayerUnregister(a) ==
  /\ players' = players \ {a}
  /\ entities' = entities \ {a}

\* s_player_destroy: the block is free; nobody clears it.
PlayerDestroy(a) ==
  /\ allocated' = allocated \ {a}
  /\ UNCHANGED <<ent, nextId>>
=============================================================================
