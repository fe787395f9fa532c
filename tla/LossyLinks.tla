----------------------------- MODULE LossyLinks -----------------------------
(***************************************************************************)
(* What the "login" listener promises a client: a connection is announced, *)
(* then some of the messages the client sends arrive, in order and at most *)
(* once, then its end is announced.  Messages may be lost: recv may cut    *)
(* them or join them, and then they are not the text of one JSON value.    *)
(***************************************************************************)
EXTENDS Integers, Sequences

CONSTANT Clients

VARIABLES
  open,         \* the clients whose connection has been announced
  sent,         \* how many messages a client has sent on this connection
  handed        \* the numbers of those that arrived, in order of arrival

vars == << open, sent, handed >>

Init ==
  /\ open = {}
  /\ sent = [c \in Clients |-> 0]
  /\ handed = [c \in Clients |-> << >>]

Announce(c) ==
  /\ c \notin open
  /\ open' = open \cup {c}
  /\ UNCHANGED << sent, handed >>

Send(c) ==
  /\ sent' = [sent EXCEPT ![c] = @ + 1]
  /\ UNCHANGED << open, handed >>

Arrive(c) ==
  \E n \in 1 .. sent[c] :
    /\ c \in open
    /\ \A i \in 1 .. Len(handed[c]) : handed[c][i] < n
    /\ handed' = [handed EXCEPT ![c] = Append(@, n)]
    /\ UNCHANGED << open, sent >>

End(c) ==
  /\ c \in open
  /\ open' = open \ {c}
  /\ UNCHANGED << sent, handed >>

\* The client may connect again.
Renew(c) ==
  /\ c \notin open
  /\ sent' = [sent EXCEPT ![c] = 0]
  /\ handed' = [handed EXCEPT ![c] = << >>]
  /\ UNCHANGED open

Next == \E c \in Clients : Announce(c) \/ Send(c) \/ Arrive(c) \/ End(c) \/ Renew(c)

Spec == Init /\ [][Next]_vars
=============================================================================
