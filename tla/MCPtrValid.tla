----------------------------- MODULE MCPtrValid -----------------------------
(* Three pages of two bytes: ranges of up to four bytes lie in one, two or    *)
(* three pages.                                                               *)
EXTENDS PtrValid

OneAndTwo == {1, 2}
=============================================================================
