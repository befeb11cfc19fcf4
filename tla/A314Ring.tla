------------------------------ MODULE A314Ring ------------------------------
(***************************************************************************)
(* The pointer arithmetic of the two byte rings of the A314 communication  *)
(* area (struct ComArea, a314.cc:119 and a314device/protocol.h:88).  A ring *)
(* has N cells (256 in the code, where "& 255" and 8-bit pointers do the    *)
(* wrapping) and holds at most N - 1 bytes, because equal pointers mean     *)
(* "empty".                                                                 *)
(***************************************************************************)
EXTENDS Integers

CONSTANT N          \* cells in a ring; 256 in the code

ASSUME RingSizeAssumption == N \in Nat /\ N > 1

Pointer == 0 .. N - 1

\* Bytes between head and tail: used_in_r2a, used_in_a2r, and the `len` of
\* receive_from_a2r and flush_send_queue.
Used(tail, head) == (tail - head) % N

\* Slips that the properties of the models must notice are defined beside the
\* operators they would replace, here and in the other modules: <operator>_<slip>.
RoomFor_FillsRing(tail, head, n) == Used(tail, head) + n <= N

\* A packet of n cells (its 3-byte header included) fits.
RoomFor(tail, head, n) == Used(tail, head) + n <= N - 1

Advance_NoWrap(p, n) == p + n

\* A pointer after n cells: the 8-bit `index++` of both drivers.
Advance(p, n) == (p + n) % N
=============================================================================
