--------------------------- MODULE PlayerSessions ---------------------------
(***************************************************************************)
(* What a client of the game sees.  A client connects, asks for places on  *)
(* the map, and is put on the map at one of the places it has asked for    *)
(* since it connected; once there it stays until it disconnects.           *)
(***************************************************************************)
CONSTANTS
  Clients, Places,
  Absent, OffMap     \* no session; a session that has not joined the map

VARIABLES
  where,        \* where[c]: Absent, OffMap or a place
  asked         \* asked[c]: the places asked for and not yet answered

Init ==
  /\ where = [c \in Clients |-> Absent]
  /\ asked = [c \in Clients |-> {}]

Connect(c) ==
  /\ where[c] = Absent
  /\ where' = [where EXCEPT ![c] = OffMap]
  /\ UNCHANGED asked

Ask(c, p) ==
  /\ where[c] # Absent
  /\ asked' = [asked EXCEPT ![c] = @ \cup {p}]
  /\ UNCHANGED where

\* One request is answered; the same place may have been asked for again.
Answer(c, p) ==
  /\ p \in asked[c]
  /\ where' = [where EXCEPT ![c] = IF @ = OffMap THEN p ELSE @]
  /\ \/ asked' = [asked EXCEPT ![c] = @ \ {p}]
     \/ UNCHANGED asked

Disconnect(c) ==
  /\ where[c] # Absent
  /\ asked[c] = {}
  /\ where' = [where EXCEPT ![c] = Absent]
  /\ UNCHANGED asked

Next ==
  \E c \in Clients :
    \/ Connect(c)
    \/ Disconnect(c)
    \/ \E p \in Places : Ask(c, p) \/ Answer(c, p)

Spec == Init /\ [][Next]_<<where, asked>>
=============================================================================
