----------------------------- MODULE WordsProofs -----------------------------
(***************************************************************************)
(* The operators of Words are the operations of uint32_t, and the          *)
(* functions of internal.h are what FIPS 180-4 calls them, for all words.  *)
(***************************************************************************)
EXTENDS Words, TLAPS

(* Every operation gives a word. *)
LEMMA WordTypes ==
  ASSUME NEW x \in Word, NEW y \in Word, NEW k \in Nat
  PROVE  /\ Xor(x, y) \in Word /\ Not(x) \in Word /\ x \cap y \in Word
         /\ ShiftRight(x, k) \in Word /\ ShiftLeft(x, k) \in Word
         /\ Carry(x, y) \in Word /\ Add(x, y) \in Word
         /\ rotr32(x, k) \in Word
  BY DEF Word, Xor, Not, ShiftRight, ShiftLeft, Carry, Add, rotr32

(* rotr32, the or of two shifts, is a rotation: every bit k < 32 places    *)
(* further down, none lost and none doubled.  A rotation by 0 or 32 would  *)
(* be an undefined shift in the code; no function of internal.h makes one. *)
THEOREM RotationKeepsEveryBit ==
  ASSUME NEW x \in Word, NEW k \in 1 .. 31, NEW n \in Bits
  PROVE  n \in rotr32(x, k) <=> (n + k) % 32 \in x
<1>1. CASE n + k < 32
  <2>1. (n + k) % 32 = n + k
    BY <1>1 DEF Bits
  <2>2. n \notin ShiftLeft(x, 32 - k)
    BY <1>1 DEF ShiftLeft, Word, Bits
  <2> QED
    BY <2>1, <2>2 DEF rotr32, ShiftRight
<1>2. CASE n + k >= 32
  <2>1. (n + k) % 32 = n - (32 - k)
    BY <1>2 DEF Bits
  <2>2. n \notin ShiftRight(x, k)
    BY <1>2 DEF ShiftRight, Word, Bits
  <2> QED
    BY <2>1, <2>2 DEF rotr32, ShiftLeft
<1> QED
  BY <1>1, <1>2 DEF Bits

(* sha_ch chooses: where x has a one the bit of y, and elsewhere that of z.*)
THEOREM ChChooses ==
  ASSUME NEW x \in Word, NEW y \in Word, NEW z \in Word, NEW n \in Bits
  PROVE  n \in sha_ch(x, y, z) <=> IF n \in x THEN n \in y ELSE n \in z
  BY DEF sha_ch, Xor, Not

(* sha_maj is the majority of the three bits. *)
THEOREM MajIsMajority ==
  ASSUME NEW x \in Word, NEW y \in Word, NEW z \in Word, NEW n \in Bits
  PROVE  n \in sha_maj(x, y, z) <=>
           \/ n \in x /\ n \in y
           \/ n \in x /\ n \in z
           \/ n \in y /\ n \in z
  BY DEF sha_maj, Xor

-----------------------------------------------------------------------------
(* The number that a word is, doubling the width from a bit to 32 of them. *)
Bit(x, n)    == IF n \in x THEN 1 ELSE 0
Pair(x, n)   == Bit(x, n) + 2 * Bit(x, n + 1)
Nibble(x, n) == Pair(x, n) + 4 * Pair(x, n + 2)
Eight(x, n)  == Nibble(x, n) + 16 * Nibble(x, n + 4)
Half(x, n)   == Eight(x, n) + 256 * Eight(x, n + 8)
Value(x)     == Half(x, 0) + 65536 * Half(x, 16)

(* The carry into bit n, for bit 32 too, where Add drops it. *)
CarryInto(x, y, n) ==
  \E k \in x \cap y : k < n /\ \A j \in (k + 1) .. (n - 1) : j \in x \cup y
CarryBit(x, y, n) == IF CarryInto(x, y, n) THEN 1 ELSE 0

(* The carry out of a column is the majority of its two bits and the carry *)
(* into it.                                                                *)
LEMMA CarryOfColumn ==
  ASSUME NEW x \in Word, NEW y \in Word, NEW n \in Bits
  PROVE  CarryInto(x, y, n + 1) <=>
           \/ n \in x /\ n \in y
           \/ n \in x /\ CarryInto(x, y, n)
           \/ n \in y /\ CarryInto(x, y, n)
<1>0. n \in Int /\ (n + 1) - 1 = n
  BY DEF Bits
<1>1. ASSUME n \in x, n \in y PROVE CarryInto(x, y, n + 1)
  <2>1. n < n + 1 /\ \A j \in (n + 1) .. ((n + 1) - 1) : j \in x \cup y
    BY <1>0
  <2> QED
    BY <1>1, <2>1 DEF CarryInto
<1>2. ASSUME CarryInto(x, y, n), n \in x \cup y PROVE CarryInto(x, y, n + 1)
  <2>1. PICK k \in x \cap y : k < n /\ \A j \in (k + 1) .. (n - 1) : j \in x \cup y
    BY <1>2 DEF CarryInto
  <2>2. k \in Int /\ k < n + 1
    BY <1>0, <2>1 DEF Word, Bits
  <2>3. ASSUME NEW j \in (k + 1) .. ((n + 1) - 1) PROVE j \in x \cup y
    BY <1>0, <1>2, <2>1, <2>2
  <2> QED
    BY <2>2, <2>3 DEF CarryInto
<1>3. ASSUME CarryInto(x, y, n + 1), ~(n \in x /\ n \in y)
      PROVE  CarryInto(x, y, n) /\ n \in x \cup y
  <2>1. PICK k \in x \cap y : k < n + 1 /\ \A j \in (k + 1) .. ((n + 1) - 1) : j \in x \cup y
    BY <1>3 DEF CarryInto
  <2>2. k \in Int /\ k # n /\ k < n
    BY <1>0, <1>3, <2>1 DEF Word, Bits
  <2>3. /\ n \in (k + 1) .. ((n + 1) - 1)
        /\ \A j \in (k + 1) .. (n - 1) : j \in (k + 1) .. ((n + 1) - 1)
    BY <1>0, <2>2
  <2> QED
    BY <2>1, <2>2, <2>3 DEF CarryInto
<1> QED
  BY <1>1, <1>2, <1>3

(* One column of the sum on paper. *)
LEMMA Column ==
  ASSUME NEW x \in Word, NEW y \in Word, NEW n \in Bits
  PROVE  Bit(x, n) + Bit(y, n) + CarryBit(x, y, n)
           = Bit(Add(x, y), n) + 2 * CarryBit(x, y, n + 1)
<1>1. /\ n \in Carry(x, y) <=> CarryInto(x, y, n)
      /\ n \in Add(x, y) <=> (((n \in x) # (n \in y)) # (n \in Carry(x, y)))
  BY DEF Add, Xor, Carry, CarryInto
<1>2. n \in Add(x, y) <=>
        \/ n \in x /\ n \in y /\ CarryInto(x, y, n)
        \/ n \in x /\ n \notin y /\ ~CarryInto(x, y, n)
        \/ n \notin x /\ n \in y /\ ~CarryInto(x, y, n)
        \/ n \notin x /\ n \notin y /\ CarryInto(x, y, n)
  BY <1>1
<1>3. CASE n \in x /\ n \in y
  <2>1. CarryBit(x, y, n + 1) = 1 /\ Bit(x, n) = 1 /\ Bit(y, n) = 1
    BY <1>3, CarryOfColumn DEF CarryBit, Bit
  <2>2. Bit(Add(x, y), n) = CarryBit(x, y, n)
    BY <1>2, <1>3 DEF CarryBit, Bit
  <2>3. CarryBit(x, y, n) \in Nat
    BY DEF CarryBit
  <2> QED
    BY <2>1, <2>2, <2>3
<1>4. CASE n \notin x /\ n \notin y
  <2>1. CarryBit(x, y, n + 1) = 0 /\ Bit(x, n) = 0 /\ Bit(y, n) = 0
    BY <1>4, CarryOfColumn DEF CarryBit, Bit
  <2>2. Bit(Add(x, y), n) = CarryBit(x, y, n)
    BY <1>2, <1>4 DEF CarryBit, Bit
  <2>3. CarryBit(x, y, n) \in Nat
    BY DEF CarryBit
  <2> QED
    BY <2>1, <2>2, <2>3
<1>5. CASE (n \in x) # (n \in y)
  <2>1. Bit(x, n) + Bit(y, n) = 1
    BY <1>5 DEF Bit
  <2>2. CarryBit(x, y, n + 1) = CarryBit(x, y, n)
    BY <1>5, CarryOfColumn DEF CarryBit
  <2>3. Bit(Add(x, y), n) = 1 - CarryBit(x, y, n)
    BY <1>2, <1>5 DEF CarryBit, Bit
  <2>4. CarryBit(x, y, n) \in {0, 1} /\ Bit(x, n) \in Nat /\ Bit(y, n) \in Nat
    BY DEF CarryBit, Bit
  <2> QED
    BY <2>1, <2>2, <2>3, <2>4
<1> QED
  BY <1>3, <1>4, <1>5

(* The parts of a word are numbers. *)
LEMMA PartTypes ==
  ASSUME NEW x
  PROVE  /\ \A k \in Int : Bit(x, k) \in Nat /\ Bit(x, k) < 2
         /\ \A k \in Int : Pair(x, k) \in Nat /\ Pair(x, k) < 4
         /\ \A k \in Int : Nibble(x, k) \in Nat /\ Nibble(x, k) < 16
         /\ \A k \in Int : Eight(x, k) \in Nat /\ Eight(x, k) < 256
         /\ \A k \in Int : Half(x, k) \in Nat /\ Half(x, k) < 65536
<1>1. \A k \in Int : Bit(x, k) \in Nat /\ Bit(x, k) < 2
  BY DEF Bit
<1>2. \A k \in Int : Pair(x, k) \in Nat /\ Pair(x, k) < 4
  BY <1>1 DEF Pair
<1>3. \A k \in Int : Nibble(x, k) \in Nat /\ Nibble(x, k) < 16
  BY <1>2 DEF Nibble
<1>4. \A k \in Int : Eight(x, k) \in Nat /\ Eight(x, k) < 256
  BY <1>3 DEF Eight
<1>5. \A k \in Int : Half(x, k) \in Nat /\ Half(x, k) < 65536
  BY <1>4 DEF Half
<1> QED
  BY <1>1, <1>2, <1>3, <1>4, <1>5

LEMMA CarryType ==
  ASSUME NEW x, NEW y, NEW n
  PROVE  CarryBit(x, y, n) \in Nat /\ CarryBit(x, y, n) < 2
  BY DEF CarryBit

(* Two columns, four, eight and sixteen. *)
LEMMA PairSum ==
  ASSUME NEW x \in Word, NEW y \in Word, NEW n \in 0 .. 30
  PROVE  Pair(x, n) + Pair(y, n) + CarryBit(x, y, n)
           = Pair(Add(x, y), n) + 4 * CarryBit(x, y, n + 2)
<1>1. /\ n \in Bits /\ n + 1 \in Bits /\ (n + 1) + 1 = n + 2
      /\ n \in Int /\ n + 1 \in Int
  BY DEF Bits
<1>2. Bit(x, n) + Bit(y, n) + CarryBit(x, y, n)
        = Bit(Add(x, y), n) + 2 * CarryBit(x, y, n + 1)
  BY <1>1, Column
<1>3. Bit(x, n + 1) + Bit(y, n + 1) + CarryBit(x, y, n + 1)
        = Bit(Add(x, y), n + 1) + 2 * CarryBit(x, y, n + 2)
  BY <1>1, Column
<1>4. \A z : Bit(z, n) \in Int /\ Bit(z, n + 1) \in Int
  BY <1>1, PartTypes
<1>5. \A k : CarryBit(x, y, k) \in Int
  BY CarryType
<1> QED
  BY <1>2, <1>3, <1>4, <1>5 DEF Pair

LEMMA NibbleSum ==
  ASSUME NEW x \in Word, NEW y \in Word, NEW n \in 0 .. 28
  PROVE  Nibble(x, n) + Nibble(y, n) + CarryBit(x, y, n)
           = Nibble(Add(x, y), n) + 16 * CarryBit(x, y, n + 4)
<1>1. /\ n \in 0 .. 30 /\ n + 2 \in 0 .. 30 /\ (n + 2) + 2 = n + 4
      /\ n \in Int /\ n + 2 \in Int
  OBVIOUS
<1>2. Pair(x, n) + Pair(y, n) + CarryBit(x, y, n)
        = Pair(Add(x, y), n) + 4 * CarryBit(x, y, n + 2)
  BY <1>1, PairSum
<1>3. Pair(x, n + 2) + Pair(y, n + 2) + CarryBit(x, y, n + 2)
        = Pair(Add(x, y), n + 2) + 4 * CarryBit(x, y, n + 4)
  BY <1>1, PairSum
<1>4. \A z : Pair(z, n) \in Int /\ Pair(z, n + 2) \in Int
  BY <1>1, PartTypes
<1>5. \A k : CarryBit(x, y, k) \in Int
  BY CarryType
<1> QED
  BY <1>2, <1>3, <1>4, <1>5 DEF Nibble

LEMMA EightSum ==
  ASSUME NEW x \in Word, NEW y \in Word, NEW n \in 0 .. 24
  PROVE  Eight(x, n) + Eight(y, n) + CarryBit(x, y, n)
           = Eight(Add(x, y), n) + 256 * CarryBit(x, y, n + 8)
<1>1. /\ n \in 0 .. 28 /\ n + 4 \in 0 .. 28 /\ (n + 4) + 4 = n + 8
      /\ n \in Int /\ n + 4 \in Int
  OBVIOUS
<1>2. Nibble(x, n) + Nibble(y, n) + CarryBit(x, y, n)
        = Nibble(Add(x, y), n) + 16 * CarryBit(x, y, n + 4)
  BY <1>1, NibbleSum
<1>3. Nibble(x, n + 4) + Nibble(y, n + 4) + CarryBit(x, y, n + 4)
        = Nibble(Add(x, y), n + 4) + 16 * CarryBit(x, y, n + 8)
  BY <1>1, NibbleSum
<1>4. \A z : Nibble(z, n) \in Int /\ Nibble(z, n + 4) \in Int
  BY <1>1, PartTypes
<1>5. \A k : CarryBit(x, y, k) \in Int
  BY CarryType
<1> QED
  BY <1>2, <1>3, <1>4, <1>5 DEF Eight

LEMMA HalfSum ==
  ASSUME NEW x \in Word, NEW y \in Word, NEW n \in 0 .. 16
  PROVE  Half(x, n) + Half(y, n) + CarryBit(x, y, n)
           = Half(Add(x, y), n) + 65536 * CarryBit(x, y, n + 16)
<1>1. /\ n \in 0 .. 24 /\ n + 8 \in 0 .. 24 /\ (n + 8) + 8 = n + 16
      /\ n \in Int /\ n + 8 \in Int
  OBVIOUS
<1>2. Eight(x, n) + Eight(y, n) + CarryBit(x, y, n)
        = Eight(Add(x, y), n) + 256 * CarryBit(x, y, n + 8)
  BY <1>1, EightSum
<1>3. Eight(x, n + 8) + Eight(y, n + 8) + CarryBit(x, y, n + 8)
        = Eight(Add(x, y), n + 8) + 256 * CarryBit(x, y, n + 16)
  BY <1>1, EightSum
<1>4. \A z : Eight(z, n) \in Int /\ Eight(z, n + 8) \in Int
  BY <1>1, PartTypes
<1>5. \A k : CarryBit(x, y, k) \in Int
  BY CarryType
<1> QED
  BY <1>2, <1>3, <1>4, <1>5 DEF Half

(* Two halves: if the parts of two numbers and of their sum add up, with a *)
(* carry in the middle, the sum is right modulo 2^32.                      *)
LEMMA TwoHalves ==
  ASSUME NEW x0 \in Nat, NEW x1 \in Nat, NEW y0 \in Nat, NEW y1 \in Nat,
         NEW s0 \in Nat, NEW s1 \in Nat, s0 < 65536, s1 < 65536,
         NEW c \in Nat, NEW out \in Nat,
         x0 + y0 = s0 + 65536 * c,
         x1 + y1 + c = s1 + 65536 * out
  PROVE  s0 + 65536 * s1 = ((x0 + 65536 * x1) + (y0 + 65536 * y1)) % 4294967296
<1>1. (x0 + 65536 * x1) + (y0 + 65536 * y1) = (s0 + 65536 * s1) + 4294967296 * out
  BY SMTT(30)
<1>2. s0 + 65536 * s1 \in Nat /\ s0 + 65536 * s1 < 4294967296
  BY SMTT(30)
<1> QED
  BY <1>1, <1>2, SMTT(30)

(* Add, which says where a carry goes, is the addition of uint32_t: the    *)
(* sum of the two numbers modulo 2^32.                                     *)
THEOREM AddIsSum ==
  ASSUME NEW x \in Word, NEW y \in Word
  PROVE  Value(Add(x, y)) = (Value(x) + Value(y)) % 4294967296
<1> DEFINE s == Add(x, y)
           c == CarryBit(x, y, 16)
           out == CarryBit(x, y, 32)
<1>1. CarryBit(x, y, 0) = 0
  BY DEF CarryBit, CarryInto, Word, Bits
<1>2. 0 \in 0 .. 16 /\ 16 \in 0 .. 16 /\ 0 + 16 = 16 /\ 16 + 16 = 32
  OBVIOUS
<1>3. Half(x, 0) + Half(y, 0) + CarryBit(x, y, 0) = Half(s, 0) + 65536 * c
  BY <1>2, HalfSum
<1>4. Half(x, 16) + Half(y, 16) + c = Half(s, 16) + 65536 * out
  BY <1>2, HalfSum
<1>5. \A z : /\ Half(z, 0) \in Nat /\ Half(z, 0) < 65536
            /\ Half(z, 16) \in Nat /\ Half(z, 16) < 65536
  BY PartTypes
<1>6. c \in Nat /\ out \in Nat
  BY CarryType
<1> HIDE DEF c, out, s
<1>7. Half(x, 0) + Half(y, 0) = Half(s, 0) + 65536 * c
  BY <1>1, <1>3, <1>5, <1>6, SMTT(30)
<1> DEFINE x0 == Half(x, 0)
           x1 == Half(x, 16)
           y0 == Half(y, 0)
           y1 == Half(y, 16)
           s0 == Half(s, 0)
           s1 == Half(s, 16)
<1>8. /\ x0 \in Nat /\ x1 \in Nat /\ y0 \in Nat /\ y1 \in Nat
      /\ s0 \in Nat /\ s1 \in Nat /\ s0 < 65536 /\ s1 < 65536
  BY <1>5
<1>9. x0 + y0 = s0 + 65536 * c /\ x1 + y1 + c = s1 + 65536 * out
  BY <1>4, <1>7
<1> HIDE DEF x0, x1, y0, y1, s0, s1
<1>10. s0 + 65536 * s1 = ((x0 + 65536 * x1) + (y0 + 65536 * y1)) % 4294967296
  BY <1>6, <1>8, <1>9, TwoHalves, SMTT(30)
<1> QED
  BY <1>10, SMTT(30) DEF Value, s, x0, x1, y0, y1, s0, s1
=============================================================================
