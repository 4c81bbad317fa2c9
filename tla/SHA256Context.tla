--------------------------- MODULE SHA256Context ---------------------------
(***************************************************************************)
(* The data members of class SHA256 as one record, and the private member  *)
(* functions of sha256.cc as operators on it.  A public operation of the   *)
(* class (module SHA256) is a step that applies these operators.           *)
(*                                                                         *)
(* The chaining value i_hash is symbolic: the eight words are a function   *)
(* of the blocks compressed since the initial value was loaded, so i_hash  *)
(* holds that sequence of blocks, the initial value is the empty sequence  *)
(* and compressing a block appends it.  Two chaining values are then equal *)
(* only if every compressed byte is, which no arithmetic could hide.       *)
(***************************************************************************)
EXTENDS Emsha, Integers, Sequences

CONSTANTS
  MB_SIZE,   (* bytes in a message block (SHA256_MB_SIZE, 64)              *)
  LEN_SIZE,  (* bytes of the length field that ends a padded message (8)   *)
  LEN_MOD,   (* addLength adds in uint32_t: modulo 2^32                    *)
  MBI_MOD,   (* mbi is a uint8_t: modulo 2^8                               *)
  Byte,      (* the values a byte can have                                 *)
  Octet      (* the literal bytes: Octet[n] is the byte written n          *)

ASSUME SizeAssumption ==
  /\ MB_SIZE \in Nat /\ LEN_SIZE \in Nat /\ MBI_MOD \in Nat /\ LEN_MOD \in Nat
  /\ 0 < LEN_SIZE /\ LEN_SIZE < MB_SIZE /\ MB_SIZE < MBI_MOD
  /\ 8 < LEN_MOD

ASSUME OctetAssumption == Octet \in [0..255 -> Byte]

Offsets == 0 .. MB_SIZE - 1
Block   == [Offsets -> Byte]
Zero    == Octet[0]
ZeroBlock == [j \in Offsets |-> Zero]

Context == [ mlen      : 0 .. LEN_MOD - 1,
             i_hash    : Seq(Block),
             hStatus   : EMSHAResult,
             hComplete : {0, 1},
             mbi       : 0 .. MBI_MOD - 1,
             mb        : Block ]

-----------------------------------------------------------------------------
(* Mutants, here and below: a definition changed as a slip in the code      *)
(* would change it.                                                        *)

(* Mutant of ResetContext: mbi keeps its value. *)
ResetKeepsIndex(c) ==
  [c EXCEPT !.i_hash = << >>, !.hStatus = "OK", !.hComplete = 0, !.mlen = 0,
            !.mb = ZeroBlock]

(* Mutant of ResetContext: mlen keeps its value. *)
ResetKeepsLength(c) ==
  [c EXCEPT !.i_hash = << >>, !.mbi = 0, !.hStatus = "OK", !.hComplete = 0,
            !.mb = ZeroBlock]

(* SHA256::reset(): every member is given its initial value. *)
ResetContext(c) ==
  [c EXCEPT !.i_hash = << >>, !.mbi = 0, !.hStatus = "OK", !.hComplete = 0,
            !.mlen = 0, !.mb = ZeroBlock]

(* The constructor value-initialises four members and calls reset(), which *)
(* also writes the two it left alone.                                      *)
NewContext ==
  ResetContext([mlen |-> 0, i_hash |-> << >>, hStatus |-> "Unknown",
                hComplete |-> 0, mbi |-> 0, mb |-> ZeroBlock])

(* Mutant of LengthSum: a sum wider than mlen. *)
WideSum(c, l) == c.mlen + l

(* SHA256::addLength: the sum is taken in 32 bits and is refused when it   *)
(* has wrapped.  The caller learns of the refusal; the context does not.   *)
LengthSum(c, l)  == (c.mlen + l) % LEN_MOD
LengthFits(c, l) == LengthSum(c, l) >= c.mlen
AddLength(c, l)  == [c EXCEPT !.mlen = LengthSum(c, l)]

(* SHA256::updateMessageBlock: compress mb and start filling it again.     *)
(* The bytes of mb stay where they are.                                    *)
UpdateMessageBlock(c) == [c EXCEPT !.i_hash = Append(@, c.mb), !.mbi = 0]

(* Storing at an index past the array changes no member of the object (mb  *)
(* is the last one).                                                       *)
StoreByte(c, b) ==
  [c EXCEPT !.mb  = IF c.mbi < MB_SIZE THEN [@ EXCEPT ![c.mbi] = b] ELSE @,
            !.mbi = (@ + 1) % MBI_MOD]

(* Mutant of AbsorbByte: a block is compressed one byte early. *)
AbsorbByteEarly(c, b) ==
  LET counted == AddLength(StoreByte(c, b), 8)
  IN  IF counted.mbi = MB_SIZE - 1 THEN UpdateMessageBlock(counted) ELSE counted

(* One iteration of the loop in SHA256::Update.  When addLength refuses,   *)
(* the iteration ends there: mb has the byte, mbi has moved on, and a full *)
(* block is not compressed.                                                *)
AbsorbByte(c, b) ==
  LET stored  == StoreByte(c, b)
      counted == AddLength(stored, 8)
  IN  IF ~LengthFits(stored, 8)     THEN stored
      ELSE IF counted.mbi = MB_SIZE THEN UpdateMessageBlock(counted)
      ELSE counted

-----------------------------------------------------------------------------
(* Mutant of LengthByte: the length with its least byte first. *)
LittleEndianByte(n, k) == IF k = 0 THEN n % 256 ELSE 0

(* The k-th byte of the big-endian length field.  mlen never exceeds 32    *)
(* bits, so the bytes above the fourth from the right are shifted to zero. *)
Weight == << 1, 256, 65536, 16777216 >>
LengthByte(n, k) ==
  IF LEN_SIZE - k > 4 THEN 0 ELSE (n \div Weight[LEN_SIZE - k]) % 256

ZeroFill(block, from, to) ==
  [j \in Offsets |-> IF from <= j /\ j < to THEN Zero ELSE block[j]]

LengthStart == MB_SIZE - LEN_SIZE

(* The end of padMessage: zeroes up to the length field, the length, and   *)
(* the last compression.                                                   *)
PackedBlock(c) ==
  [j \in Offsets |->
     IF j < LengthStart THEN ZeroFill(c.mb, c.mbi, LengthStart)[j]
     ELSE Octet[LengthByte(c.mlen, j - LengthStart)]]

PackLength(c) == UpdateMessageBlock([c EXCEPT !.mb = PackedBlock(c)])

(* Mutant of CloseBlock: the padding byte goes into both blocks. *)
CloseBlockTwice(c, pad) ==
  LET marked == IF c.mbi < MB_SIZE - 1 THEN StoreByte(c, pad) ELSE c
  IN  StoreByte(UpdateMessageBlock(
                  [marked EXCEPT !.mb = ZeroFill(@, marked.mbi, MB_SIZE)]), pad)

(* The branch of padMessage for a block with no room for the length field. *)
(* The block is zero-filled and compressed; the padding byte goes in front *)
(* of the zeroes if mbi < MB_SIZE - 1, and into the next block otherwise.  *)
CloseBlock(c, pad) ==
  LET pcAdd   == c.mbi < MB_SIZE - 1
      marked  == IF pcAdd THEN StoreByte(c, pad) ELSE c
      flushed == UpdateMessageBlock(
                   [marked EXCEPT !.mb = ZeroFill(@, marked.mbi, MB_SIZE)])
  IN  IF pcAdd THEN flushed ELSE StoreByte(flushed, pad)

(* Mutant of PadMessage: the block is taken to have room one byte longer. *)
PadMessageLate(c, pad) ==
  PackLength(IF c.mbi <= LengthStart THEN StoreByte(c, pad) ELSE CloseBlock(c, pad))

(* SHA256::padMessage. *)
PadMessage(c, pad) ==
  PackLength(IF c.mbi < LengthStart THEN StoreByte(c, pad)
                                    ELSE CloseBlock(c, pad))

(* Mutant of FinaliseContext: the message block is not cleared. *)
FinaliseKeepsBlock(c) ==
  [PadMessage(c, Octet[128]) EXCEPT !.hComplete = 1, !.mlen = 0]

(* What SHA256::Finalise does to a context that passed its checks.         *)
FinaliseContext(c) ==
  [PadMessage(c, Octet[128]) EXCEPT
      !.mb = ZeroBlock, !.hComplete = 1, !.mlen = 0]

(* SHA256::~SHA256 clears the message block and nothing else. *)
DestroyContext(c) == [c EXCEPT !.mb = ZeroBlock]

-----------------------------------------------------------------------------
(* Reference definitions: what the members should stand for.               *)

(* The context holds the message d: its whole blocks have been compressed  *)
(* in order and the rest is at the front of mb.                            *)
Represents(c, d) ==
  LET n == Len(c.i_hash) IN
  /\ c.mbi < MB_SIZE
  /\ Len(d) = n * MB_SIZE + c.mbi
  /\ c.mlen = 8 * Len(d)
  /\ \A b \in 1 .. n, j \in Offsets : c.i_hash[b][j] = d[(b - 1) * MB_SIZE + j + 1]
  /\ \A j \in 0 .. c.mbi - 1 : c.mb[j] = d[n * MB_SIZE + j + 1]

(* Every bit of the message d can be counted. *)
Countable(d) == 8 * Len(d) < LEN_MOD

(* Octet k of LEN_SIZE octets that spell n, most significant first: what   *)
(* is left of n after LEN_SIZE - 1 - k octets were divided off.  Numbers   *)
(* of more than 32 bits do not occur, so four divisions leave nothing.     *)
Without(n, m) ==
  IF m = 0      THEN n
  ELSE IF m = 1 THEN n \div 256
  ELSE IF m = 2 THEN (n \div 256) \div 256
  ELSE IF m = 3 THEN ((n \div 256) \div 256) \div 256
  ELSE 0

BigEndian(n, k) == Without(n, LEN_SIZE - 1 - k) % 256

(* Byte p of `total' bytes that are the message d, `gap' zero bytes, the   *)
(* byte 0x80, zero bytes, and the length of d in bits at the end.          *)
PaddedByte(d, gap, total, p) ==
  IF p < Len(d)                THEN d[p + 1]
  ELSE IF p = Len(d) + gap     THEN Octet[128]
  ELSE IF p >= total - LEN_SIZE THEN Octet[BigEndian(8 * Len(d), p - (total - LEN_SIZE))]
  ELSE Zero

(* The blocks bs are d padded so, with as few zero bytes as fill the last  *)
(* block.  FIPS 180-4, section 5.1.1, has no gap.                          *)
IsPadded(bs, d, gap) ==
  LET total == Len(bs) * MB_SIZE
      used  == Len(d) + gap + 1 + LEN_SIZE
  IN
  /\ used <= total /\ total < used + MB_SIZE
  /\ \A b \in 1 .. Len(bs), j \in Offsets :
       bs[b][j] = PaddedByte(d, gap, total, (b - 1) * MB_SIZE + j)

FIPSPadded(bs, d) == IsPadded(bs, d, 0)

(* Those blocks themselves. *)
PaddedBlocks(d, gap) ==
  LET n == (Len(d) + gap + LEN_SIZE + MB_SIZE) \div MB_SIZE IN
  [b \in 1 .. n |-> [j \in Offsets |->
     PaddedByte(d, gap, n * MB_SIZE, (b - 1) * MB_SIZE + j)]]

(* The message leaves exactly one byte of its last block free: the one     *)
(* case in which padMessage puts a zero in front of the padding byte.      *)
OneByteFree(d) == \E q \in 0 .. Len(d) : Len(d) = q * MB_SIZE + MB_SIZE - 1

Gap(d) == IF OneByteFree(d) THEN 1 ELSE 0
=============================================================================
