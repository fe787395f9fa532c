---------------------------- MODULE MCLifecycle -----------------------------
(* The two listeners of main.c and the five modules of config.mk. *)
EXTENDS Lifecycle

AllModules == {"tcp", "enet", "basic_game", "json", "tilemap"}

LoginGame(a, b) == [l \in {"login", "game"} |-> IF l = "login" THEN a ELSE b]
Types      == LoginGame("tcp", "enet")
Sets       == LoginGame("basic_game", "basic_game")
Protocols  == LoginGame("json", "json")
=============================================================================
