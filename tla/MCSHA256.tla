------------------------------ MODULE MCSHA256 ------------------------------
(***************************************************************************)
(* Values of the constants of SHA256 for TLC.  A byte is its value.  The   *)
(* messages have different bytes, so that a lost, doubled or moved byte    *)
(* changes the data.                                                       *)
(***************************************************************************)
EXTENDS SHA256

MCByte  == 0 .. 255
MCOctet == [n \in 0 .. 255 |-> n]

(* The bytes first, first + 1, ... *)
Bytes(first, length) == [k \in 1 .. length |-> first + k - 1]

(* Scaled blocks: parts of a block of six that meet every offset, and one  *)
(* that is longer than the space before the length field.                  *)
SmallMessages == { << >>, Bytes(1, 1), Bytes(11, 2), Bytes(21, 5) }

(* Lengths that reach and pass the last byte that can be counted. *)
LongMessages == { << >>, Bytes(1, 1), Bytes(11, 3) }

(* Real blocks: the lengths around the end of the block of 64 and around   *)
(* the start of the length field.                                          *)
BlockMessages == { << >>, Bytes(1, 8), Bytes(31, 47), Bytes(101, 55), Bytes(181, 64) }
=============================================================================
