----------------------------- MODULE HexString -----------------------------
(***************************************************************************)
(* HexString of emsha.cc in its two builds.  Text is a sequence of         *)
(* characters, and every character of the output is one of sixteen digits. *)
(***************************************************************************)
EXTENDS Integers, Sequences

Digits == << "0", "1", "2", "3", "4", "5", "6", "7",
             "8", "9", "a", "b", "c", "d", "e", "f" >>
Digit(n) == Digits[n + 1]

(* The table of 256 entries runs through all pairs of digits, the first    *)
(* the slower.                                                             *)
LargeTable == [src \in 0 .. 255 |-> << Digit(src \div 16), Digit(src % 16) >>]

(* src & 0xF0 and src & 0x0F of a byte. *)
HighBits(src) == src - (src % 16)
LowBits(src)  == src % 16

(* Mutant of writeHexChar: the two digits change places. *)
writeHexSwapped(lut, src) == << Digit(LowBits(src)), Digit(HighBits(src) \div 16) >>

(* writeHexChar: the entry of the large table, or, when EMSHA_NO_HEXLUT is *)
(* defined, the digits of the high and of the low four bits.               *)
writeHexChar(lut, src) ==
  IF lut THEN LargeTable[src]
         ELSE << Digit(HighBits(src) \div 16), Digit(LowBits(src)) >>

(* HexString(dest, src, srclen): the 2 * srclen characters written to dest *)
(* in the build with the large table (lut) or without.                     *)
HexText(lut, src) ==
  [p \in 1 .. 2 * Len(src) |->
     LET both == writeHexChar(lut, src[(p + 1) \div 2])
     IN  IF p % 2 = 1 THEN both[1] ELSE both[2]]

-----------------------------------------------------------------------------
(* Reference: the bytes that a text spells. *)
ValueOf(digit) == CHOOSE n \in 0 .. 15 : Digit(n) = digit

Spelled(text) ==
  [j \in 1 .. Len(text) \div 2 |->
     16 * ValueOf(text[2 * j - 1]) + ValueOf(text[2 * j])]
=============================================================================
