--------------------------- MODULE HexStringProofs ---------------------------
(***************************************************************************)
(* What HexString writes, in either build and for every input.             *)
(***************************************************************************)
EXTENDS HexString, TLAPS

Octets == 0 .. 255

(* Dividing by 16 what is left of a byte without its low four bits is the  *)
(* same as dividing the byte.                                              *)
LEMMA HighDigit ==
  ASSUME NEW src \in Octets
  PROVE  /\ HighBits(src) \div 16 = src \div 16
         /\ src \div 16 \in 0 .. 15 /\ src % 16 \in 0 .. 15
         /\ 16 * (src \div 16) + (src % 16) = src
  BY SMTT(30) DEF Octets, HighBits

(* The table of 256 entries and the table of 16 with its shifts and masks  *)
(* give the same two characters for every byte: the build makes no         *)
(* difference to the text.                                                 *)
THEOREM BuildsAgree ==
  ASSUME NEW src \in Octets
  PROVE  writeHexChar(TRUE, src) = writeHexChar(FALSE, src)
  BY HighDigit DEF writeHexChar, LargeTable, LowBits, Octets

(* The sixteen digits differ. *)
LEMMA DigitsDiffer ==
  ASSUME NEW m \in 0 .. 15, NEW n \in 0 .. 15, Digit(m) = Digit(n)
  PROVE  m = n
  BY SMTT(60) DEF Digit, Digits

LEMMA ValueOfDigit ==
  ASSUME NEW n \in 0 .. 15
  PROVE  ValueOf(Digit(n)) = n
  BY DigitsDiffer DEF ValueOf

(* The characters of byte j in the text. *)
LEMMA TextOfByte ==
  ASSUME NEW lut \in BOOLEAN, NEW src \in Seq(Octets), NEW j \in 1 .. Len(src)
  PROVE  /\ HexText(lut, src)[2 * j - 1] = Digit(src[j] \div 16)
         /\ HexText(lut, src)[2 * j] = Digit(src[j] % 16)
<1> DEFINE text == HexText(lut, src)
           both(p) == writeHexChar(lut, src[(p + 1) \div 2])
<1>1. src[j] \in Octets /\ Len(src) \in Nat
  OBVIOUS
<1>2. writeHexChar(lut, src[j]) = << Digit(src[j] \div 16), Digit(src[j] % 16) >>
  <2>1. writeHexChar(TRUE, src[j]) = << Digit(src[j] \div 16), Digit(src[j] % 16) >>
    BY <1>1 DEF writeHexChar, LargeTable, Octets
  <2> QED
    BY <1>1, <2>1, BuildsAgree
<1>3. /\ 2 * j - 1 \in 1 .. 2 * Len(src) /\ 2 * j \in 1 .. 2 * Len(src)
      /\ ((2 * j - 1) + 1) \div 2 = j /\ (2 * j + 1) \div 2 = j
      /\ (2 * j - 1) % 2 = 1 /\ (2 * j) % 2 # 1
  BY <1>1
<1>4. text[2 * j - 1] = both(2 * j - 1)[1] /\ text[2 * j] = both(2 * j)[2]
  BY <1>3 DEF HexText
<1>5. both(2 * j - 1) = writeHexChar(lut, src[j]) /\ both(2 * j) = writeHexChar(lut, src[j])
  BY <1>3
<1> QED
  BY <1>2, <1>4, <1>5

(* Two characters for every byte. *)
LEMMA TextLength ==
  ASSUME NEW lut \in BOOLEAN, NEW src \in Seq(Octets)
  PROVE  Len(HexText(lut, src)) = 2 * Len(src)
<1>1. 2 * Len(src) \in Nat
  OBVIOUS
<1> QED
  BY <1>1 DEF HexText

(* The text spells the bytes it was made of, in both builds: no two byte   *)
(* strings have the same text, and the buffer of 2 * srclen characters is  *)
(* filled exactly.                                                         *)
THEOREM TextSpells ==
  ASSUME NEW lut \in BOOLEAN, NEW src \in Seq(Octets)
  PROVE  Len(HexText(lut, src)) = 2 * Len(src) /\ Spelled(HexText(lut, src)) = src
<1> DEFINE text == HexText(lut, src)
<1>1. Len(text) = 2 * Len(src) /\ Len(text) \div 2 = Len(src) /\ Len(src) \in Nat
  BY TextLength
<1>2. ASSUME NEW j \in 1 .. Len(src)
      PROVE  16 * ValueOf(text[2 * j - 1]) + ValueOf(text[2 * j]) = src[j]
  <2>1. src[j] \in Octets
    OBVIOUS
  <2>2. src[j] \div 16 \in 0 .. 15 /\ src[j] % 16 \in 0 .. 15
        /\ 16 * (src[j] \div 16) + (src[j] % 16) = src[j]
    BY <2>1, HighDigit
  <2>3. ValueOf(text[2 * j - 1]) = src[j] \div 16 /\ ValueOf(text[2 * j]) = src[j] % 16
    BY <2>2, TextOfByte, ValueOfDigit
  <2> QED
    BY <2>2, <2>3
<1>3. Spelled(text) = [j \in 1 .. Len(src) |-> 16 * ValueOf(text[2 * j - 1]) + ValueOf(text[2 * j])]
  BY <1>1 DEF Spelled
<1>4. src = [j \in 1 .. Len(src) |-> src[j]]
  OBVIOUS
<1> HIDE DEF text
<1>5. Spelled(text) = src
  BY <1>2, <1>3, <1>4
<1> QED
  BY <1>1, <1>5 DEF text
=============================================================================
