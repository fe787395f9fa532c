------------------------------ MODULE MCWorlds ------------------------------
(* Small instances of the server.  Places (0,0) and (0,2) are out of sight   *)
(* of one another; the numbers are in tenths, as 0.5 and -0.5 are both       *)
(* position 0.  ENet's client ids 0 and 1 meet the descriptor 1 of TCP.      *)
EXTENDS PlayerSessionsRefinement, TLC

JoinAt(x, y) == [json |-> TRUE, command |-> "join_map", map_id |-> 0, x |-> x, y |-> y]

Origin   == JoinAt(5, -5)
FarAway  == JoinAt(0, 20)
NextDoor == JoinAt(0, 10)
WildX    == JoinAt(OutOfRange, 0)
NoY      == JoinAt(0, NotANumber)
NoMap    == [Origin EXCEPT !.map_id = 10]
Other    == [Origin EXCEPT !.command = "quit"]
Garbage  == [Origin EXCEPT !.json = FALSE]

AllMessages == {Origin, FarAway, WildX, NoY, NoMap, Other, Garbage}
TwoPlaces   == {Origin, NextDoor}
OnePlace    == {Origin}

Interchangeable == Permutations(Addrs) \cup Permutations(Peers)

Wild == {-7}
OneMap == {0}
=============================================================================
