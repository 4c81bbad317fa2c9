---------------------------- MODULE MCHMACSHA256 ----------------------------
(***************************************************************************)
(* Values of the constants of HMACSHA256 for TLC.  A byte is a term, as in *)
(* MCHMAC; the digest's bytes are terms over the blocks compressed.        *)
(***************************************************************************)
EXTENDS HMACSHA256

Literal(n)             == << n >>
MCByte                 == { Literal(n) : n \in 0 .. 255 }
MCOctet                == [n \in 0 .. 255 |-> Literal(n)]
MCXor(byte, pad)       == << byte, pad >>
MCHashByte(blocks, j)  == << "sha", blocks, j >>

Bytes(first, length) == [k \in 1 .. length |-> Literal(first + k - 1)]

(* Key blocks of four bytes: keys that are shorter, as long and longer. *)
MCKeys == { Bytes(1, 2), Bytes(1, 4), Bytes(1, 5) }

MCMessages == { << >>, Bytes(11, 1), Bytes(21, 3) }
=============================================================================
