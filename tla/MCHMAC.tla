------------------------------- MODULE MCHMAC -------------------------------
(***************************************************************************)
(* Values of the constants of HMAC for TLC.  A byte is a term: a literal   *)
(* byte, a byte combined with ipad or opad, or a byte of the digest of     *)
(* some data.  Two bytes are equal only if they were computed alike, so    *)
(* no accident of arithmetic makes two codes equal.                        *)
(***************************************************************************)
EXTENDS HMAC

Literal(n)       == << n >>
MCZero           == Literal(0)
MCXor(byte, pad) == << byte, pad >>
MCShaByte(d, j)  == << "sha", d, j >>

Bytes(first, length) == [k \in 1 .. length |-> Literal(first + k - 1)]

(* Key blocks of three bytes and digests of two: keys that are empty,      *)
(* shorter than a block, as long and longer.                               *)
MCKeys == { << >>, Bytes(1, 2), Bytes(1, 3), Bytes(1, 4) }

MCMessages == { << >>, Bytes(11, 1), Bytes(21, 2) }
=============================================================================
