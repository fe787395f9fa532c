---------------------------- MODULE MCTcpStreams ----------------------------
(* Three clients for two descriptors.  A message of two bytes fills the      *)
(* buffer, as do the first bytes of two messages; one client says nothing.   *)
EXTENDS TcpStreams, TLC

CONSTANTS c1, c2, c3

Sizes == c1 :> << 1, 2 >> @@ c2 :> << 2 >> @@ c3 :> << >>
=============================================================================
