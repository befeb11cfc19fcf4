--------------------------- MODULE MCA314Channels ---------------------------
(***************************************************************************)
(* A314Channels for TLC: the numbers of the applications' sockets are      *)
(* model values, and none of them is special.                              *)
(***************************************************************************)
EXTENDS A314Channels

SocketNumbers == Permutations(Sockets)
=============================================================================
