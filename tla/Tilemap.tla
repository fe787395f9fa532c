------------------------------ MODULE Tilemap -------------------------------
(***************************************************************************)
(* vmap.c and tilemap.c: the one map of the server ("test-map", id 0), the *)
(* list of the entities on it, and the broadcast list made for an entity.  *)
(*                                                                         *)
(* The map's list is modelled pointer by pointer, with the operations of   *)
(* CcanList: s_vmap_remove_entity has no caller, so an entity that is      *)
(* freed while it is on the map stays linked.                              *)
(***************************************************************************)
EXTENDS Entities, CcanList

CONSTANTS
  MapHead,         \* tmap->entities
  XLen,         \* tmap->xlen; tmap->ylen is never read
  Visibility    \* e->visibility of every player

Cells == Addrs \cup {MapHead}

ASSUME TilemapAssumption ==
  /\ XLen \in Nat
  /\ Visibility \in Nat
  /\ MapHead \notin Addrs
  /\ NULL \notin Cells

VARIABLES
  links,        \* next and prev of the map's list: the map_list of every block
  bcast         \* the broadcast list the latest handler printed, or NULL

tilemapVars == <<links, bcast>>

\* tilemap_init, when the map is registered.
TilemapInit ==
  /\ links = [next |-> [c \in Cells |-> IF c = MapHead THEN MapHead ELSE NULL],
              prev |-> [c \in Cells |-> IF c = MapHead THEN MapHead ELSE NULL]]
  /\ bcast = NULL

\* The map_list of a block that s_player_create has just cleared.
ClearMapList(a) ==
  links' = [next |-> [links.next EXCEPT ![a] = NULL],
            prev |-> [links.prev EXCEPT ![a] = NULL]]

\* The bounds test of tilemap_add_entity: xlen for both, and inclusive.
InBounds(x, y) == x \in 0 .. XLen /\ y \in 0 .. XLen

\* tilemap_add_entity that forgets to record the map in the entity.
PlaceWithoutMap(a, x, y) ==
  /\ ent' = [ent EXCEPT ![a] = [@ EXCEPT !.x = x, !.y = y]]
  /\ links' = ListAdd(links, MapHead, a)

\* tilemap_add_entity, once the bounds test has passed.
Place(a, x, y) ==
  /\ ent' = [ent EXCEPT ![a] = [@ EXCEPT !.onMap = TRUE, !.x = x, !.y = y]]
  /\ links' = ListAdd(links, MapHead, a)

Square(n) == n * n

\* The distance test of tilemap_bclist_create without the y part.
NearInX(e, a, b) == Square(e[a].x - e[b].x) <= Square(Visibility)

\* The distance test of tilemap_bclist_create.
Near(e, a, b) ==
  Square(e[a].x - e[b].x) + Square(e[a].y - e[b].y) <= Square(Visibility)

\* tilemap_bclist_create for the entity at a, in the memory e, m, when its
\* loop over the map's list ends.
Broadcast(e, m, a) ==
  [from |-> a,
   to |-> { b \in Addrs : b \in Visited(m, MapHead) /\ b # a /\ Near(e, b, a) }]
=============================================================================
