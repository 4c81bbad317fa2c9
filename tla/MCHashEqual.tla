---------------------------- MODULE MCHashEqual ----------------------------
(* Bytes of two bits for TLC, with their exclusive or. *)
EXTENDS HashEqual, Bitwise

MCXor(x, y) == x ^^ y
=============================================================================
