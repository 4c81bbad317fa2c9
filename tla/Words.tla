-------------------------------- MODULE Words --------------------------------
(***************************************************************************)
(* emsha/internal.h: the functions of SHA-256 on 32-bit words, with the    *)
(* operations of uint32_t that they and sha256.cc are written in.  A word  *)
(* is the set of the positions of its one bits, 0 being the lowest, so a   *)
(* bit that is shifted or carried out of the word is lost, as it is in     *)
(* the code.                                                               *)
(***************************************************************************)
EXTENDS Integers

Bits == 0 .. 31
Word == SUBSET Bits

-----------------------------------------------------------------------------
(* x ^ y, ~x, x >> n and x << n; x & y and x | y are intersection and      *)
(* union.                                                                  *)
Xor(x, y) == { n \in Bits : (n \in x) # (n \in y) }
Not(x)    == Bits \ x
ShiftRight(x, k) == { n \in Bits : n + k \in x }
ShiftLeft(x, k)  == { n \in Bits : n - k \in x }

(* x + y modulo 2^32.  There is a carry into bit n when both words have a  *)
(* bit below it and every position between the two hands the carry on.     *)
Carry(x, y) ==
  { n \in Bits : \E k \in x \cap y : k < n /\ \A j \in (k + 1) .. (n - 1) : j \in x \cup y }

Add(x, y) == Xor(Xor(x, y), Carry(x, y))

-----------------------------------------------------------------------------
(* The inline functions of internal.h, under their names. *)
rotr32(x, n) == ShiftRight(x, n) \cup ShiftLeft(x, 32 - n)

sha_ch(x, y, z)  == Xor(x \cap y, Not(x) \cap z)
sha_maj(x, y, z) == Xor(Xor(x \cap y, x \cap z), y \cap z)

sha_Sigma0(x) == Xor(Xor(rotr32(x, 2), rotr32(x, 13)), rotr32(x, 22))
sha_Sigma1(x) == Xor(Xor(rotr32(x, 6), rotr32(x, 11)), rotr32(x, 25))
sha_sigma0(x) == Xor(Xor(rotr32(x, 7), rotr32(x, 18)), ShiftRight(x, 3))
sha_sigma1(x) == Xor(Xor(rotr32(x, 17), rotr32(x, 19)), ShiftRight(x, 10))

-----------------------------------------------------------------------------
(* Bit n of the byte b, and the byte of a word whose lowest bit is bit n.  *)
BitOf(b, n) == (b \div 2^n) % 2 = 1

ByteAt(x, n) ==
  LET bit(k) == IF n + k \in x THEN 2^k ELSE 0 IN
  bit(0) + bit(1) + bit(2) + bit(3) + bit(4) + bit(5) + bit(6) + bit(7)

(* The word with the two bytes of `high' over the two bytes of `low'. *)
Halves(high, low) == { n \in Bits : BitOf(IF n < 16 THEN low ELSE high, n % 16) }
=============================================================================
