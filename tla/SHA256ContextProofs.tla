------------------------ MODULE SHA256ContextProofs ------------------------
(***************************************************************************)
(* Lemmas about the operators of SHA256Context, for every block size,      *)
(* length field and byte alphabet: types, what a byte does to an open      *)
(* context, and that padding gives the padded message.                     *)
(***************************************************************************)
EXTENDS SHA256Context, SequenceTheorems, WellFoundedInduction, TLAPS

-----------------------------------------------------------------------------
(* Induction over an interval for a property given as a set, and functions *)
(* defined by recursion over one.                                          *)

LEMMA NumberInduction ==
  ASSUME NEW N \in Nat, NEW T, 0 \in T, \A n \in 1 .. N : n - 1 \in T => n \in T
  PROVE  \A n \in 0 .. N : n \in T
<1> DEFINE Rest == { n \in 0 .. N : n \notin T }
           Below == { ss \in Nat \X Nat : ss[1] < ss[2] }
<1>1. IsWellFoundedOn(Below, Nat)
  BY NatLessThanWellFounded DEF OpToRel
<1>2. ASSUME Rest # {} PROVE FALSE
  <2>1. Rest \subseteq Nat
    OBVIOUS
  <2>2. PICK x \in Rest : \A y \in Rest : ~ (<< y, x >> \in Below)
    <3> HIDE DEF Rest, Below
    <3> QED
      BY <1>1, <1>2, <2>1, WFMin
  <2>3. x \in 1 .. N /\ x \notin T
    BY <2>2
  <2>4. x - 1 \notin Rest
    <3>1. << x - 1, x >> \in Below
      BY <2>3
    <3> QED
      BY <2>2, <3>1
  <2> QED
    BY <2>3, <2>4
<1> QED
  BY <1>2

(* G takes the number of a step and the value before it to the value after *)
(* it; f has the values after N steps or fewer.                            *)
StepFunctions(S, N) == [(1 .. N) \X S -> S]

Values(f, S, N, s, G) ==
  /\ f \in [0 .. N -> S]
  /\ f[0] = s
  /\ \A n \in 1 .. N : f[n] = G[<< n, f[n - 1] >>]

LEMMA Recursion ==
  ASSUME NEW S, NEW N \in Nat, NEW s \in S, NEW G \in StepFunctions(S, N)
  PROVE  \E f : Values(f, S, N, s, G)
<1> DEFINE Good(n, f) == f[0] = s /\ \A k \in 1 .. n : f[k] = G[<< k, f[k - 1] >>]
           T == { n \in 0 .. N : \E f \in [0 .. N -> S] : Good(n, f) }
<1>0. G \in [(1 .. N) \X S -> S]
  BY DEF StepFunctions
<1>1. 0 \in T
  <2> DEFINE g == [k \in 0 .. N |-> s]
  <2>1. g \in [0 .. N -> S] /\ Good(0, g)
    OBVIOUS
  <2> HIDE DEF g
  <2>2. \E f \in [0 .. N -> S] : Good(0, f)
    BY <2>1
  <2>3. 0 \in 0 .. N
    OBVIOUS
  <2> HIDE DEF Good
  <2> QED
    BY <2>2, <2>3
<1>2. ASSUME NEW n \in 1 .. N, n - 1 \in T PROVE n \in T
  <2>1. PICK f \in [0 .. N -> S] : Good(n - 1, f)
    BY <1>2
  <2> DEFINE g == [f EXCEPT ![n] = G[<< n, f[n - 1] >>]]
  <2>2. n - 1 \in 0 .. N /\ f[n - 1] \in S /\ G[<< n, f[n - 1] >>] \in S
    BY <1>0
  <2>3. g \in [0 .. N -> S]
    BY <2>2
  <2>4. \A k \in 0 .. N : k # n => g[k] = f[k]
    OBVIOUS
  <2>5. g[n] = G[<< n, f[n - 1] >>]
    OBVIOUS
  <2> HIDE DEF g
  <2>6. Good(n, g)
    <3>1. g[0] = s
      BY <2>1, <2>4
    <3>2. ASSUME NEW k \in 1 .. n PROVE g[k] = G[<< k, g[k - 1] >>]
      <4>1. k - 1 \in 0 .. N /\ k - 1 # n /\ g[k - 1] = f[k - 1]
        BY <2>4
      <4>2. CASE k = n
        BY <2>5, <4>1, <4>2
      <4>3. CASE k # n
        BY <2>1, <2>4, <4>1, <4>3
      <4> QED
        BY <4>2, <4>3
    <3> QED
      BY <3>1, <3>2
  <2> QED
    BY <2>3, <2>6
<1> HIDE DEF T
<1>3. N \in T
  BY <1>1, <1>2, NumberInduction
<1> QED
  BY <1>3 DEF T, Values

LEMMA MembersByRecursion ==
  ASSUME NEW S, NEW N \in Nat, NEW f, f[0] \in S,
         \A n \in 1 .. N : f[n - 1] \in S => f[n] \in S
  PROVE  \A n \in 0 .. N : f[n] \in S
<1> DEFINE T == { n \in 0 .. N : f[n] \in S }
<1>1. 0 \in T
  OBVIOUS
<1>2. ASSUME NEW n \in 1 .. N, n - 1 \in T PROVE n \in T
  BY <1>2
<1> HIDE DEF T
<1>3. \A n \in 0 .. N : n \in T
  BY <1>1, <1>2, NumberInduction
<1> QED
  BY <1>3 DEF T

-----------------------------------------------------------------------------
(* Arithmetic the provers need as facts. *)

LEMMA ModRange == ASSUME NEW a \in Int, NEW m \in Nat, 0 < m
                  PROVE  a % m \in 0 .. m - 1
  OBVIOUS

LEMMA ModSmall == ASSUME NEW m \in Nat, NEW a \in 0 .. m - 1
                  PROVE  a % m = a
  OBVIOUS

LEMMA ModWrap == ASSUME NEW m \in Nat, NEW a \in m .. 2 * m - 1
                 PROVE  a % m = a - m
  OBVIOUS

LEMMA LengthByteType == ASSUME NEW n \in Nat, NEW k \in 0 .. LEN_SIZE - 1
                        PROVE  LengthByte(n, k) \in 0 .. 255
<1>1. CASE LEN_SIZE - k > 4
  BY <1>1, SizeAssumption DEF LengthByte
<1>2. CASE LEN_SIZE - k \in 1 .. 4
  <2>1. Weight[LEN_SIZE - k] \in {1, 256, 65536, 16777216}
    BY <1>2 DEF Weight
  <2>2. n \div Weight[LEN_SIZE - k] \in Int
    BY <2>1
  <2>. QED  BY <1>2, <2>2, SizeAssumption, ModRange DEF LengthByte
<1>. QED  BY <1>1, <1>2, SizeAssumption

-----------------------------------------------------------------------------
(* Every operator on contexts yields a context. *)

LEMMA ZeroBlockType == ZeroBlock \in Block /\ Zero \in Byte
  BY OctetAssumption DEF ZeroBlock, Zero, Block

LEMMA ResetType == ASSUME NEW c \in Context PROVE ResetContext(c) \in Context
<1>1. /\ << >> \in Seq(Block) /\ "OK" \in EMSHAResult /\ ZeroBlock \in Block
      /\ 0 \in 0 .. LEN_MOD - 1 /\ 0 \in 0 .. MBI_MOD - 1
  BY ZeroBlockType, SizeAssumption DEF EMSHAResult
<1>. QED  BY <1>1 DEF ResetContext, Context

LEMMA NewType == NewContext \in Context
<1>. DEFINE raw == [mlen |-> 0, i_hash |-> << >>, hStatus |-> "Unknown",
                    hComplete |-> 0, mbi |-> 0, mb |-> ZeroBlock]
<1>1. raw \in Context
  BY ZeroBlockType, SizeAssumption DEF Context, EMSHAResult
<1>. QED  BY <1>1, ResetType DEF NewContext

LEMMA AddLengthType == ASSUME NEW c \in Context, NEW l \in Nat
                       PROVE  AddLength(c, l) \in Context
<1>1. LengthSum(c, l) \in 0 .. LEN_MOD - 1
  BY ModRange, SizeAssumption DEF LengthSum, Context
<1>. QED  BY <1>1 DEF AddLength, Context

LEMMA UpdateMessageBlockType == ASSUME NEW c \in Context
                                PROVE  UpdateMessageBlock(c) \in Context
<1>1. Append(c.i_hash, c.mb) \in Seq(Block)
  BY DEF Context
<1>2. 0 \in 0 .. MBI_MOD - 1
  BY SizeAssumption
<1>. QED  BY <1>1, <1>2 DEF UpdateMessageBlock, Context

LEMMA StoreByteType == ASSUME NEW c \in Context, NEW b \in Byte
                       PROVE  StoreByte(c, b) \in Context
<1>1. (c.mbi + 1) % MBI_MOD \in 0 .. MBI_MOD - 1
  BY ModRange, SizeAssumption DEF Context
<1>2. [c.mb EXCEPT ![c.mbi] = b] \in Block
  BY DEF Context, Block
<1>. QED  BY <1>1, <1>2 DEF StoreByte, Context

LEMMA AbsorbByteType == ASSUME NEW c \in Context, NEW b \in Byte
                        PROVE  AbsorbByte(c, b) \in Context
<1>1. StoreByte(c, b) \in Context
  BY StoreByteType
<1>2. AddLength(StoreByte(c, b), 8) \in Context
  BY <1>1, AddLengthType
<1>. QED  BY <1>1, <1>2, UpdateMessageBlockType DEF AbsorbByte

LEMMA ZeroFillType == ASSUME NEW block \in Block, NEW from, NEW to
                      PROVE  ZeroFill(block, from, to) \in Block
  BY ZeroBlockType DEF ZeroFill, Block

LEMMA PackedBlockType == ASSUME NEW c \in Context PROVE PackedBlock(c) \in Block
<1>1. ZeroFill(c.mb, c.mbi, LengthStart) \in Block
  BY ZeroFillType DEF Context
<1>2. ASSUME NEW j \in Offsets, ~(j < LengthStart)
      PROVE  Octet[LengthByte(c.mlen, j - LengthStart)] \in Byte
  <2>1. j - LengthStart \in 0 .. LEN_SIZE - 1 /\ c.mlen \in Nat
    BY <1>2, SizeAssumption DEF Offsets, LengthStart, Context
  <2>. QED  BY <2>1, LengthByteType, OctetAssumption
<1>. QED  BY <1>1, <1>2 DEF PackedBlock, Block

LEMMA PackLengthType == ASSUME NEW c \in Context
                        PROVE  PackLength(c) \in Context
<1>1. [c EXCEPT !.mb = PackedBlock(c)] \in Context
  BY PackedBlockType DEF Context
<1>. QED  BY <1>1, UpdateMessageBlockType DEF PackLength

LEMMA CloseBlockType == ASSUME NEW c \in Context, NEW pad \in Byte
                        PROVE  CloseBlock(c, pad) \in Context
<1>. DEFINE pcAdd   == c.mbi < MB_SIZE - 1
            marked  == IF pcAdd THEN StoreByte(c, pad) ELSE c
            zeroed  == [marked EXCEPT !.mb = ZeroFill(@, marked.mbi, MB_SIZE)]
<1>1. marked \in Context
  BY StoreByteType
<1>2. zeroed \in Context
  <2>. HIDE DEF marked
  <2>. QED  BY <1>1, ZeroFillType DEF Context
<1>3. UpdateMessageBlock(zeroed) \in Context
  BY <1>2, UpdateMessageBlockType
<1>. QED  BY <1>3, StoreByteType DEF CloseBlock

LEMMA PadMessageType == ASSUME NEW c \in Context, NEW pad \in Byte
                        PROVE  PadMessage(c, pad) \in Context
  BY StoreByteType, CloseBlockType, PackLengthType DEF PadMessage

LEMMA FinaliseType == ASSUME NEW c \in Context
                      PROVE  FinaliseContext(c) \in Context
<1>1. PadMessage(c, Octet[128]) \in Context
  BY PadMessageType, OctetAssumption
<1>2. 0 \in 0 .. LEN_MOD - 1 /\ ZeroBlock \in Block
  BY ZeroBlockType, SizeAssumption
<1>. QED  BY <1>1, <1>2, ZenonT(40) DEF FinaliseContext, Context

LEMMA DestroyType == ASSUME NEW c \in Context
                     PROVE  DestroyContext(c) \in Context
  BY ZeroBlockType DEF DestroyContext, Context

-----------------------------------------------------------------------------
(* Positions of bytes in blocks. *)

LEMMA MulMonotone == ASSUME NEW a \in Int, NEW b \in Int, NEW m \in Nat, a <= b
                     PROVE  a * m <= b * m
  OBVIOUS

(* Byte j of block b lies in the first n blocks if b does. *)
LEMMA InBlocks == ASSUME NEW n \in Nat, NEW b \in 1 .. n, NEW j \in Offsets
                  PROVE  (b - 1) * MB_SIZE + j \in 0 .. n * MB_SIZE - 1
<1>1. (b - 1) * MB_SIZE = b * MB_SIZE - MB_SIZE
  BY SizeAssumption
<1>2. b * MB_SIZE <= n * MB_SIZE
  BY MulMonotone, SizeAssumption
<1>3. 0 <= (b - 1) * MB_SIZE
  BY MulMonotone, SizeAssumption
<1>4. b * MB_SIZE \in Int /\ n * MB_SIZE \in Int
  BY SizeAssumption
<1>. QED  BY <1>1, <1>2, <1>3, <1>4, SizeAssumption DEF Offsets

(* A number has one quotient and remainder. *)
LEMMA QuotientUnique ==
  ASSUME NEW q \in Nat, NEW n \in Nat, NEW r \in Offsets, NEW s \in Offsets,
         q * MB_SIZE + s = n * MB_SIZE + r
  PROVE  q = n /\ s = r
<1>0. q * MB_SIZE \in Int /\ n * MB_SIZE \in Int
  BY SizeAssumption
<1>1. CASE q < n
  <2>1. (q + 1) * MB_SIZE <= n * MB_SIZE
    BY <1>1, MulMonotone, SizeAssumption
  <2>2. (q + 1) * MB_SIZE = q * MB_SIZE + MB_SIZE
    BY SizeAssumption
  <2>. QED  BY <1>0, <2>1, <2>2, SizeAssumption DEF Offsets
<1>2. CASE n < q
  <2>1. (n + 1) * MB_SIZE <= q * MB_SIZE
    BY <1>2, MulMonotone, SizeAssumption
  <2>2. (n + 1) * MB_SIZE = n * MB_SIZE + MB_SIZE
    BY SizeAssumption
  <2>. QED  BY <1>0, <2>1, <2>2, SizeAssumption DEF Offsets
<1>3. CASE q = n
  BY <1>0, <1>3, SizeAssumption DEF Offsets
<1>. QED  BY <1>1, <1>2, <1>3

-----------------------------------------------------------------------------
(* A reset or new context holds the empty message. *)
LEMMA ResetRepresents == ASSUME NEW c \in Context
                         PROVE  Represents(ResetContext(c), << >>)
<1>1. /\ ResetContext(c).i_hash = << >> /\ ResetContext(c).mbi = 0
      /\ ResetContext(c).mlen = 0
  BY DEF ResetContext, Context
<1>. QED  BY <1>1, SizeAssumption DEF Represents

LEMMA NewRepresents == Represents(NewContext, << >>)
<1>1. NewContext.i_hash = << >> /\ NewContext.mbi = 0 /\ NewContext.mlen = 0
  BY DEF NewContext, ResetContext
<1>. QED  BY <1>1, SizeAssumption DEF Represents

(* What storing a byte does to a block that has room. *)
LEMMA StoreByteFields ==
  ASSUME NEW c \in Context, NEW b \in Byte, c.mbi < MB_SIZE
  PROVE  /\ StoreByte(c, b).mb = [c.mb EXCEPT ![c.mbi] = b]
         /\ StoreByte(c, b).mbi = c.mbi + 1
         /\ StoreByte(c, b).i_hash = c.i_hash
         /\ StoreByte(c, b).mlen = c.mlen
         /\ StoreByte(c, b).hStatus = c.hStatus
         /\ StoreByte(c, b).hComplete = c.hComplete
<1>1. (c.mbi + 1) % MBI_MOD = c.mbi + 1
  <2>1. c.mbi + 1 \in 0 .. MBI_MOD - 1
    BY SizeAssumption DEF Context
  <2>. QED  BY <2>1, ModSmall, SizeAssumption
<1>. QED  BY <1>1 DEF StoreByte, Context

(* One iteration of Update's loop adds one byte to the message held. *)
LEMMA AbsorbRepresents ==
  ASSUME NEW c \in Context, NEW d \in Seq(Byte), NEW x \in Byte,
         Represents(c, d), Countable(Append(d, x))
  PROVE  Represents(AbsorbByte(c, x), Append(d, x))
<1>. DEFINE n == Len(c.i_hash)
            e == Append(d, x)
            stored == StoreByte(c, x)
            counted == AddLength(stored, 8)
<1>1. /\ c.mbi \in Offsets /\ c.mbi \in Nat /\ n \in Nat /\ n * MB_SIZE \in Nat
      /\ Len(d) = n * MB_SIZE + c.mbi /\ c.mlen = 8 * Len(d)
      /\ c.mb \in Block /\ c.i_hash \in Seq(Block) /\ Len(d) \in Nat
  BY SizeAssumption DEF Represents, Context, Offsets
<1>2. /\ Len(e) = Len(d) + 1 /\ e[Len(d) + 1] = x
      /\ \A k \in 1 .. Len(d) : e[k] = d[k]
  OBVIOUS
<1>3. /\ stored.mb = [c.mb EXCEPT ![c.mbi] = x] /\ stored.mbi = c.mbi + 1
      /\ stored.i_hash = c.i_hash /\ stored.mlen = c.mlen /\ stored \in Context
  BY <1>1, StoreByteFields, StoreByteType, SizeAssumption DEF Offsets
<1>. HIDE DEF n, e, stored
<1>4. LengthSum(stored, 8) = 8 * Len(e) /\ LengthFits(stored, 8)
  <2>1. stored.mlen + 8 = 8 * Len(e) /\ 8 * Len(e) \in 0 .. LEN_MOD - 1
    BY <1>1, <1>2, <1>3, SizeAssumption, SMTT(30) DEF Countable, e
  <2>2. LengthSum(stored, 8) = 8 * Len(e)
    BY <2>1, ModSmall, SizeAssumption DEF LengthSum
  <2>. QED  BY <1>1, <1>3, <2>1, <2>2 DEF LengthFits
<1>5. /\ counted.mlen = 8 * Len(e) /\ counted.mb = stored.mb
      /\ counted.mbi = c.mbi + 1 /\ counted.i_hash = c.i_hash
  BY <1>3, <1>4 DEF AddLength, Context
<1>6. \A k \in Offsets : k <= c.mbi => counted.mb[k] = e[n * MB_SIZE + k + 1]
  <2>. SUFFICES ASSUME NEW k \in Offsets, k <= c.mbi
                PROVE  counted.mb[k] = e[n * MB_SIZE + k + 1]
    OBVIOUS
  <2>1. CASE k = c.mbi
    BY <1>1, <1>2, <1>3, <1>5, <2>1, SMTT(30) DEF Block
  <2>2. CASE k < c.mbi
    <3>1. c.mb[k] = d[n * MB_SIZE + k + 1]
      BY <1>1, <2>2 DEF Represents, Offsets, n
    <3>2. n * MB_SIZE + k + 1 \in 1 .. Len(d)
      BY <1>1, <2>2, SizeAssumption DEF Offsets
    <3>3. k # c.mbi
      BY <1>1, <2>2
    <3>4. counted.mb[k] = c.mb[k]
      BY <1>1, <1>3, <1>5, <3>3 DEF Block
    <3>. QED  BY <1>2, <3>1, <3>2, <3>4
  <2>. QED  BY <1>1, <2>1, <2>2, SizeAssumption DEF Offsets
<1>7. \A b \in 1 .. n, j \in Offsets : c.i_hash[b][j] = e[(b - 1) * MB_SIZE + j + 1]
  <2>. SUFFICES ASSUME NEW b \in 1 .. n, NEW j \in Offsets
                PROVE  c.i_hash[b][j] = e[(b - 1) * MB_SIZE + j + 1]
    OBVIOUS
  <2>1. c.i_hash[b][j] = d[(b - 1) * MB_SIZE + j + 1]
    BY DEF Represents, n
  <2>2. (b - 1) * MB_SIZE + j + 1 \in 1 .. Len(d)
    <3>1. (b - 1) * MB_SIZE + j \in 0 .. n * MB_SIZE - 1
      BY <1>1, InBlocks
    <3>. QED  BY <1>1, <3>1, SMTT(30)
  <2>. QED  BY <1>2, <2>1, <2>2
<1>8. CASE c.mbi + 1 = MB_SIZE
  <2>. DEFINE f == UpdateMessageBlock(counted)
  <2>1. AbsorbByte(c, x) = f
    BY <1>4, <1>5, <1>8 DEF AbsorbByte, stored
  <2>2. /\ f.i_hash = Append(c.i_hash, counted.mb) /\ f.mbi = 0 /\ f.mlen = 8 * Len(e)
    BY <1>5, <1>3, AddLengthType DEF UpdateMessageBlock, Context
  <2>3. /\ Len(f.i_hash) = n + 1 /\ f.i_hash[n + 1] = counted.mb
        /\ \A b \in 1 .. n : f.i_hash[b] = c.i_hash[b]
    <3>1. counted.mb \in Block
      BY <1>3, <1>5 DEF Context
    <3>. QED  BY <1>1, <2>2, <3>1, SMTT(30) DEF n
  <2>4. Len(e) = (n + 1) * MB_SIZE
    <3>1. (n + 1) * MB_SIZE = n * MB_SIZE + MB_SIZE
      BY <1>1, SizeAssumption
    <3>. QED  BY <1>1, <1>2, <1>8, <3>1
  <2>5. ASSUME NEW b \in 1 .. n + 1, NEW j \in Offsets
        PROVE  f.i_hash[b][j] = e[(b - 1) * MB_SIZE + j + 1]
    <3>1. CASE b \in 1 .. n
      BY <1>7, <2>3, <3>1
    <3>2. CASE b = n + 1
      <4>1. (b - 1) * MB_SIZE = n * MB_SIZE /\ j <= c.mbi
        BY <1>1, <1>8, <3>2, SizeAssumption DEF Offsets
      <4>. QED  BY <1>6, <2>3, <3>2, <4>1
    <3>. QED  BY <1>1, <3>1, <3>2
  <2>. HIDE DEF f
  <2>6. Represents(f, e)
    <3>1. Len(e) = Len(f.i_hash) * MB_SIZE + f.mbi /\ f.mbi < MB_SIZE
      <4>1. Len(e) \in Int /\ Len(e) = Len(f.i_hash) * MB_SIZE
        BY <1>1, <1>2, <2>3, <2>4
      <4>2. f.mbi = 0
        BY <2>2
      <4>. HIDE DEF e
      <4>. QED  BY <4>1, <4>2, SizeAssumption
    <3>. QED  BY <2>2, <2>3, <2>5, <3>1 DEF Represents
  <2>. QED  BY <2>1, <2>6 DEF e
<1>9. CASE c.mbi + 1 # MB_SIZE
  <2>1. AbsorbByte(c, x) = counted
    BY <1>4, <1>5, <1>9 DEF AbsorbByte, stored
  <2>2. c.mbi + 1 < MB_SIZE
    BY <1>1, <1>9, SizeAssumption DEF Offsets
  <2>3. Represents(counted, e)
    <3>. HIDE DEF counted
    <3>1. Len(counted.i_hash) = n
      BY <1>5 DEF n
    <3>2. ASSUME NEW j \in 0 .. counted.mbi - 1
          PROVE  counted.mb[j] = e[n * MB_SIZE + j + 1]
      <4>1. j \in Offsets /\ j <= c.mbi
        BY <1>1, <1>5, <2>2, SizeAssumption DEF Offsets
      <4>. QED  BY <1>6, <4>1
    <3>3. Len(e) = n * MB_SIZE + counted.mbi
      BY <1>1, <1>2, <1>5
    <3>. QED  BY <1>5, <1>7, <2>2, <3>1, <3>2, <3>3 DEF Represents
  <2>. QED  BY <2>1, <2>3 DEF e
<1>. QED  BY <1>8, <1>9

-----------------------------------------------------------------------------
(* What the parts of padMessage do, member by member. *)

LEMMA UpdateMessageBlockFields ==
  ASSUME NEW c \in Context
  PROVE  LET f == UpdateMessageBlock(c) IN
         /\ f.i_hash = Append(c.i_hash, c.mb) /\ f.mbi = 0 /\ f.mb = c.mb
         /\ f.mlen = c.mlen /\ f.hStatus = c.hStatus /\ f.hComplete = c.hComplete
  BY DEF UpdateMessageBlock, Context

LEMMA PackLengthFields ==
  ASSUME NEW c \in Context
  PROVE  /\ PackLength(c).i_hash = Append(c.i_hash, PackedBlock(c))
         /\ PackLength(c).hStatus = c.hStatus
         /\ \A j \in Offsets : PackedBlock(c)[j] =
              IF j < LengthStart THEN IF c.mbi <= j THEN Zero ELSE c.mb[j]
              ELSE Octet[LengthByte(c.mlen, j - LengthStart)]
<1>. DEFINE p == [c EXCEPT !.mb = PackedBlock(c)]
<1>1. p \in Context /\ p.i_hash = c.i_hash /\ p.mb = PackedBlock(c) /\ p.hStatus = c.hStatus
  BY PackedBlockType DEF Context
<1>. HIDE DEF p
<1>2. PackLength(c) = UpdateMessageBlock(p)
  BY DEF PackLength, p
<1>3. \A j \in Offsets : PackedBlock(c)[j] =
        IF j < LengthStart THEN IF c.mbi <= j THEN Zero ELSE c.mb[j]
        ELSE Octet[LengthByte(c.mlen, j - LengthStart)]
  BY DEF PackedBlock, ZeroFill
<1>. QED  BY <1>1, <1>2, <1>3, UpdateMessageBlockFields

(* A block with room for the padding byte and one more. *)
LEMMA CloseBlockWithPad ==
  ASSUME NEW c \in Context, NEW pad \in Byte, c.mbi < MB_SIZE - 1
  PROVE  LET f == CloseBlock(c, pad) IN
         /\ f.mbi = 0 /\ f.mlen = c.mlen /\ f.hStatus = c.hStatus
         /\ \E z \in Block :
              /\ f.i_hash = Append(c.i_hash, z)
              /\ \A j \in Offsets : z[j] = IF j < c.mbi THEN c.mb[j]
                                           ELSE IF j = c.mbi THEN pad ELSE Zero
<1>. DEFINE marked == StoreByte(c, pad)
            z      == ZeroFill(marked.mb, marked.mbi, MB_SIZE)
            zeroed == [marked EXCEPT !.mb = z]
<1>1. /\ marked \in Context /\ marked.mb = [c.mb EXCEPT ![c.mbi] = pad]
      /\ marked.mbi = c.mbi + 1 /\ marked.i_hash = c.i_hash
      /\ marked.mlen = c.mlen /\ marked.hStatus = c.hStatus
  <2>1. c.mbi < MB_SIZE
    BY SizeAssumption DEF Context
  <2>. QED  BY <2>1, StoreByteFields, StoreByteType
<1>. HIDE DEF marked
<1>2. z \in Block
  BY <1>1, ZeroFillType DEF Context
<1>3. ASSUME NEW j \in Offsets
      PROVE  z[j] = IF j < c.mbi THEN c.mb[j] ELSE IF j = c.mbi THEN pad ELSE Zero
  <2>1. z[j] = IF c.mbi + 1 <= j THEN Zero ELSE [c.mb EXCEPT ![c.mbi] = pad][j]
    BY <1>1, SizeAssumption DEF ZeroFill, Offsets
  <2>. QED  BY <2>1, SizeAssumption DEF Context, Block, Offsets
<1>. HIDE DEF z
<1>4. /\ zeroed \in Context /\ zeroed.mb = z /\ zeroed.i_hash = c.i_hash
      /\ zeroed.mlen = c.mlen /\ zeroed.hStatus = c.hStatus
  BY <1>1, <1>2 DEF Context
<1>5. CloseBlock(c, pad) = UpdateMessageBlock(zeroed)
  BY DEF CloseBlock, marked, z
<1>. HIDE DEF zeroed
<1>. QED  BY <1>2, <1>3, <1>4, <1>5, UpdateMessageBlockFields

(* A block with room for one byte only. *)
LEMMA CloseBlockWithoutPad ==
  ASSUME NEW c \in Context, NEW pad \in Byte, c.mbi = MB_SIZE - 1
  PROVE  LET f == CloseBlock(c, pad) IN
         /\ f.mbi = 1 /\ f.mb[0] = pad /\ f.mlen = c.mlen /\ f.hStatus = c.hStatus
         /\ \E z \in Block :
              /\ f.i_hash = Append(c.i_hash, z)
              /\ \A j \in Offsets : z[j] = IF j < c.mbi THEN c.mb[j] ELSE Zero
<1>. DEFINE z      == ZeroFill(c.mb, c.mbi, MB_SIZE)
            zeroed == [c EXCEPT !.mb = z]
            flushed == UpdateMessageBlock(zeroed)
<1>1. z \in Block
  BY ZeroFillType DEF Context
<1>2. \A j \in Offsets : z[j] = IF j < c.mbi THEN c.mb[j] ELSE Zero
  BY SizeAssumption DEF ZeroFill, Offsets
<1>. HIDE DEF z
<1>3. /\ zeroed \in Context /\ zeroed.mb = z /\ zeroed.i_hash = c.i_hash
      /\ zeroed.mlen = c.mlen /\ zeroed.hStatus = c.hStatus
  BY <1>1 DEF Context
<1>. HIDE DEF zeroed
<1>4. /\ flushed \in Context /\ flushed.mbi = 0 /\ flushed.mb = z
      /\ flushed.i_hash = Append(c.i_hash, z) /\ flushed.mlen = c.mlen
      /\ flushed.hStatus = c.hStatus
  BY <1>3, UpdateMessageBlockFields, UpdateMessageBlockType
<1>. HIDE DEF flushed
<1>5. CloseBlock(c, pad) = StoreByte(flushed, pad)
  <2>1. ~(c.mbi < MB_SIZE - 1)
    BY SizeAssumption
  <2>. QED  BY <2>1 DEF CloseBlock, flushed, zeroed, z
<1>6. /\ StoreByte(flushed, pad).mb = [flushed.mb EXCEPT ![flushed.mbi] = pad]
      /\ StoreByte(flushed, pad).mbi = flushed.mbi + 1
      /\ StoreByte(flushed, pad).i_hash = flushed.i_hash
      /\ StoreByte(flushed, pad).mlen = flushed.mlen
      /\ StoreByte(flushed, pad).hStatus = flushed.hStatus
  <2>1. flushed.mbi < MB_SIZE
    BY <1>4, SizeAssumption
  <2>2. flushed \in Context
    BY <1>4
  <2>. QED  BY <2>1, <2>2, StoreByteFields
<1>7. StoreByte(flushed, pad).mb[0] = pad /\ StoreByte(flushed, pad).mbi = 1
  <2>1. 0 \in Offsets
    BY SizeAssumption DEF Offsets
  <2>. QED  BY <1>1, <1>4, <1>6, <2>1 DEF Block
<1>. QED  BY <1>1, <1>2, <1>4, <1>5, <1>6, <1>7

LEMMA FinaliseFields ==
  ASSUME NEW c \in Context
  PROVE  LET f == FinaliseContext(c) IN
         /\ f.i_hash = PadMessage(c, Octet[128]).i_hash
         /\ f.hStatus = PadMessage(c, Octet[128]).hStatus
         /\ f.hComplete = 1 /\ f.mb = ZeroBlock
<1>1. PadMessage(c, Octet[128]) \in Context
  BY PadMessageType, OctetAssumption
<1>. QED  BY <1>1 DEF FinaliseContext, Context

-----------------------------------------------------------------------------
(* The padded message, block by block.  In these lemmas the message d is   *)
(* `base' bytes of whole blocks and r more.                                *)

LEMMA OneByteFreeIff ==
  ASSUME NEW d \in Seq(Byte), NEW n \in Nat, NEW r \in Offsets,
         Len(d) = n * MB_SIZE + r
  PROVE  Gap(d) = IF r = MB_SIZE - 1 THEN 1 ELSE 0
<1>0. MB_SIZE - 1 \in Offsets
  BY SizeAssumption DEF Offsets
<1>1. ASSUME OneByteFree(d) PROVE r = MB_SIZE - 1
  <2>1. PICK q \in 0 .. Len(d) : Len(d) = q * MB_SIZE + MB_SIZE - 1
    BY <1>1 DEF OneByteFree
  <2>2. q * MB_SIZE + (MB_SIZE - 1) = n * MB_SIZE + r
    BY <2>1, SizeAssumption DEF Offsets
  <2>3. q \in Nat
    BY <2>1
  <2>. QED  BY <1>0, <2>2, <2>3, QuotientUnique
<1>2. ASSUME r = MB_SIZE - 1 PROVE OneByteFree(d)
  <2>1. 1 * n <= MB_SIZE * n
    BY MulMonotone, SizeAssumption
  <2>2. MB_SIZE * n = n * MB_SIZE /\ n * MB_SIZE \in Nat
    BY SizeAssumption
  <2>3. n \in 0 .. Len(d)
    BY <2>1, <2>2, SizeAssumption DEF Offsets
  <2>4. Len(d) = n * MB_SIZE + MB_SIZE - 1
    BY <1>2, <2>2, SizeAssumption
  <2>. QED  BY <2>3, <2>4 DEF OneByteFree
<1>. QED  BY <1>1, <1>2 DEF Gap

(* A whole block of the message. *)
LEMMA PaddedHead ==
  ASSUME NEW d \in Seq(Byte), NEW gap, NEW total, NEW p \in Nat, p < Len(d)
  PROVE  PaddedByte(d, gap, total, p) = d[p + 1]
  BY DEF PaddedByte

(* The block with the end of the message, when another one follows. *)
LEMMA PaddedMiddle ==
  ASSUME NEW d \in Seq(Byte), NEW base \in Nat, NEW r \in Nat, Len(d) = base + r,
         NEW gap \in {0, 1}, NEW j \in Offsets,
         NEW total \in Nat, total = base + MB_SIZE + MB_SIZE,
         NEW p \in Nat, p = base + j
  PROVE  PaddedByte(d, gap, total, p) =
           IF j < r THEN d[p + 1] ELSE IF j = r + gap THEN Octet[128] ELSE Zero
<1>1. /\ (p < Len(d)) <=> (j < r)
      /\ (p = Len(d) + gap) <=> (j = r + gap)
      /\ ~(p >= total - LEN_SIZE)
  BY SizeAssumption DEF Offsets
<1>. QED  BY <1>1 DEF PaddedByte

(* Dividing by 256 twice, and three times, divides by its powers. *)
LEMMA DivideAgain == ASSUME NEW n \in Nat
                     PROVE  /\ n \div 256 \in Nat
                            /\ (n \div 256) \div 256 = n \div 65536
                            /\ ((n \div 256) \div 256) \div 256 = n \div 16777216
  OBVIOUS

(* The byte that padMessage stores is the byte of the number written in    *)
(* octets.                                                                 *)
LEMMA LengthByteIsBigEndian ==
  ASSUME NEW n \in Nat, NEW k \in 0 .. LEN_SIZE - 1
  PROVE  LengthByte(n, k) = BigEndian(n, k)
<1>. DEFINE m == LEN_SIZE - 1 - k
<1>1. m \in Nat /\ LEN_SIZE - k = m + 1
  BY SizeAssumption
<1>2. CASE m = 0
  <2>1. LEN_SIZE - k = 1 /\ n \div 1 = n
    BY <1>1, <1>2
  <2>. QED  BY <2>1, <1>1, <1>2 DEF LengthByte, Weight, BigEndian, Without
<1>3. CASE m = 1
  BY <1>1, <1>3 DEF LengthByte, Weight, BigEndian, Without
<1>4. CASE m = 2
  BY <1>1, <1>4, DivideAgain DEF LengthByte, Weight, BigEndian, Without
<1>5. CASE m = 3
  BY <1>1, <1>5, DivideAgain DEF LengthByte, Weight, BigEndian, Without
<1>6. CASE m > 3
  BY <1>1, <1>6 DEF LengthByte, BigEndian, Without
<1>. QED  BY <1>1, <1>2, <1>3, <1>4, <1>5, <1>6

(* The last block, which starts at byte `top'. *)
LEMMA PaddedLast ==
  ASSUME NEW d \in Seq(Byte), NEW gap \in {0, 1}, NEW top \in Nat, NEW j \in Offsets,
         NEW total \in Nat, total = top + MB_SIZE,
         NEW p \in Nat, p = top + j
  PROVE  PaddedByte(d, gap, total, p) =
           IF p < Len(d) THEN d[p + 1]
           ELSE IF p = Len(d) + gap THEN Octet[128]
           ELSE IF j < LengthStart THEN Zero
           ELSE Octet[LengthByte(8 * Len(d), j - LengthStart)]
<1>1. (p >= total - LEN_SIZE) <=> ~(j < LengthStart)
  BY SizeAssumption DEF Offsets, LengthStart
<1>2. p - (total - LEN_SIZE) = j - LengthStart
  BY SizeAssumption DEF Offsets, LengthStart
<1>3. ASSUME ~(j < LengthStart)
      PROVE  LengthByte(8 * Len(d), j - LengthStart) = BigEndian(8 * Len(d), j - LengthStart)
  <2>1. j - LengthStart \in 0 .. LEN_SIZE - 1 /\ 8 * Len(d) \in Nat
    BY <1>3, SizeAssumption DEF Offsets, LengthStart
  <2>. QED  BY <2>1, LengthByteIsBigEndian
<1>. QED  BY <1>1, <1>2, <1>3, Zenon DEF PaddedByte

(* Padding the message a context holds compresses that message padded.     *)
LEMMA PadMessagePads ==
  ASSUME NEW c \in Context, NEW d \in Seq(Byte), Represents(c, d)
  PROVE  IsPadded(PadMessage(c, Octet[128]).i_hash, d, Gap(d))
<1>. DEFINE pad == Octet[128]
            n == Len(c.i_hash)
            base == n * MB_SIZE
            r == c.mbi
            gap == Gap(d)
<1>0. pad \in Byte
  BY OctetAssumption
<1>1. /\ r \in Offsets /\ r \in Nat /\ n \in Nat /\ base \in Nat /\ Len(d) \in Nat
      /\ Len(d) = base + r /\ c.mlen = 8 * Len(d) /\ r < MB_SIZE
      /\ c.i_hash \in Seq(Block) /\ c.mb \in Block
  BY SizeAssumption DEF Represents, Context, Offsets
<1>2. ASSUME NEW j \in Offsets, j < r PROVE c.mb[j] = d[base + j + 1]
  <2>1. j \in 0 .. c.mbi - 1
    BY <1>1, <1>2, SizeAssumption DEF Offsets
  <2>. QED  BY <2>1 DEF Represents
<1>3. gap = IF r = MB_SIZE - 1 THEN 1 ELSE 0
  BY <1>1, OneByteFreeIff
<1>4. ASSUME NEW total, NEW b \in 1 .. n, NEW j \in Offsets
      PROVE  c.i_hash[b][j] = PaddedByte(d, gap, total, (b - 1) * MB_SIZE + j)
  <2>1. (b - 1) * MB_SIZE + j \in 0 .. base - 1
    BY <1>1, InBlocks
  <2>2. (b - 1) * MB_SIZE + j \in Nat /\ (b - 1) * MB_SIZE + j < Len(d)
    BY <1>1, <2>1, SMTT(30)
  <2>3. c.i_hash[b][j] = d[(b - 1) * MB_SIZE + j + 1]
    BY DEF Represents
  <2>. QED  BY <2>2, <2>3, PaddedHead
<1>. DEFINE one == base + MB_SIZE
            two == one + MB_SIZE
<1>5. one \in Nat /\ one = base + MB_SIZE /\ two \in Nat /\ two = one + MB_SIZE
  BY <1>1, SizeAssumption
<1>6. (n + 1) * MB_SIZE = one /\ (n + 2) * MB_SIZE = two
  BY <1>1, SizeAssumption
<1>. HIDE DEF pad, n, base, r, gap, one, two
<1>7. CASE r < LengthStart
  <2>. DEFINE s == StoreByte(c, pad)
              last == PackedBlock(s)
              bs == Append(c.i_hash, last)
  <2>1. /\ s \in Context /\ s.mb = [c.mb EXCEPT ![r] = pad] /\ s.mbi = r + 1
        /\ s.i_hash = c.i_hash /\ s.mlen = 8 * Len(d)
    BY <1>0, <1>1, StoreByteFields, StoreByteType DEF r
  <2>. HIDE DEF s
  <2>2. PadMessage(c, pad).i_hash = bs
    BY <1>7, <2>1, PackLengthFields DEF PadMessage, s, r
  <2>3. last \in Block
    BY <2>1, PackedBlockType
  <2>4. /\ Len(bs) = n + 1 /\ bs[n + 1] = last
        /\ \A b \in 1 .. n : bs[b] = c.i_hash[b]
    BY <1>1, <2>3 DEF n
  <2>. HIDE DEF last, bs
  <2>5. gap = 0
    BY <1>3, <1>7, <1>1, SizeAssumption DEF LengthStart
  <2>6. ASSUME NEW j \in Offsets
        PROVE  last[j] = PaddedByte(d, gap, one, base + j)
    <3>1. last[j] = IF j < LengthStart THEN IF r + 1 <= j THEN Zero ELSE s.mb[j]
                    ELSE Octet[LengthByte(8 * Len(d), j - LengthStart)]
      BY <2>1, PackLengthFields DEF last
    <3>2. PaddedByte(d, gap, one, base + j) =
            IF base + j < Len(d) THEN d[base + j + 1]
            ELSE IF base + j = Len(d) + gap THEN Octet[128]
            ELSE IF j < LengthStart THEN Zero
            ELSE Octet[LengthByte(8 * Len(d), j - LengthStart)]
      <4>. DEFINE p == base + j
      <4>1. gap \in {0, 1} /\ p \in Nat /\ p = base + j
        BY <1>1, <2>5, SizeAssumption DEF Offsets
      <4>. HIDE DEF p
      <4>2. PaddedByte(d, gap, one, p) =
              IF p < Len(d) THEN d[p + 1]
              ELSE IF p = Len(d) + gap THEN Octet[128]
              ELSE IF j < LengthStart THEN Zero
              ELSE Octet[LengthByte(8 * Len(d), j - LengthStart)]
        <5>1. base \in Nat /\ one \in Nat /\ one = base + MB_SIZE
          BY <1>1, <1>5
        <5>. QED  BY <4>1, <5>1, PaddedLast
      <4>. QED  BY <4>2 DEF p
    <3>3. CASE j < r
      <4>1. s.mb[j] = d[base + j + 1]
        BY <1>1, <1>2, <2>1, <3>3 DEF Block
      <4>2. j < LengthStart /\ ~(r + 1 <= j) /\ base + j < Len(d)
        BY <1>1, <1>7, <3>3, SizeAssumption DEF Offsets, LengthStart
      <4>. QED  BY <3>1, <3>2, <4>1, <4>2
    <3>4. CASE j = r
      <4>1. s.mb[j] = Octet[128]
        BY <1>1, <2>1, <3>4 DEF Block, pad
      <4>2. j < LengthStart /\ ~(r + 1 <= j) /\ base + j = Len(d) + gap /\ ~(base + j < Len(d))
        BY <1>1, <1>7, <2>5, <3>4, SizeAssumption DEF Offsets, LengthStart
      <4>. QED  BY <3>1, <3>2, <4>1, <4>2
    <3>5. CASE j > r
      <4>1. r + 1 <= j /\ ~(base + j < Len(d)) /\ base + j # Len(d) + gap
        BY <1>1, <2>5, <3>5, SizeAssumption DEF Offsets
      <4>. QED  BY <3>1, <3>2, <4>1
    <3>. QED  BY <1>1, <3>3, <3>4, <3>5, SizeAssumption DEF Offsets
  <2>7. ASSUME NEW b \in 1 .. n + 1, NEW j \in Offsets
        PROVE  bs[b][j] = PaddedByte(d, gap, one, (b - 1) * MB_SIZE + j)
    <3>1. CASE b \in 1 .. n
      BY <1>4, <2>4, <3>1
    <3>2. CASE b = n + 1
      <4>1. (b - 1) * MB_SIZE = base
        BY <1>1, <3>2 DEF base
      <4>. QED  BY <2>4, <2>6, <3>2, <4>1
    <3>. QED  BY <1>1, <3>1, <3>2
  <2>8. /\ Len(d) + gap + 1 + LEN_SIZE <= one
        /\ one < Len(d) + gap + 1 + LEN_SIZE + MB_SIZE
    BY <1>1, <1>5, <1>7, <2>5, SizeAssumption DEF LengthStart
  <2>9. IsPadded(bs, d, gap)
    BY <1>6, <2>4, <2>7, <2>8 DEF IsPadded
  <2>. QED  BY <2>2, <2>9 DEF pad, gap
<1>8. CASE r >= LengthStart
  <2>. DEFINE f == CloseBlock(c, pad)
  <2>1. f \in Context
    BY <1>0, CloseBlockType
  <2>2. f.mlen = 8 * Len(d)
    <3>1. CASE r < MB_SIZE - 1
      BY <1>0, <1>1, <3>1, CloseBlockWithPad DEF r
    <3>2. CASE r = MB_SIZE - 1
      BY <1>0, <1>1, <3>2, CloseBlockWithoutPad DEF r
    <3>. QED  BY <1>1, <3>1, <3>2, SizeAssumption
  <2>3. \E z \in Block :
          /\ f.i_hash = Append(c.i_hash, z)
          /\ \A j \in Offsets : z[j] = IF j < r THEN c.mb[j]
                                       ELSE IF j = r + gap THEN pad ELSE Zero
    <3>1. CASE r < MB_SIZE - 1
      <4>1. gap = 0 /\ r + gap = r
        BY <1>1, <1>3, <3>1
      <4>. QED  BY <1>0, <3>1, <4>1, CloseBlockWithPad DEF r
    <3>2. CASE r = MB_SIZE - 1
      <4>1. \A j \in Offsets : j # r + gap
        BY <1>3, <3>2, SizeAssumption DEF Offsets
      <4>2. PICK z \in Block :
              /\ f.i_hash = Append(c.i_hash, z)
              /\ \A j \in Offsets : z[j] = IF j < r THEN c.mb[j] ELSE Zero
        BY <1>0, <3>2, CloseBlockWithoutPad DEF r
      <4>. QED  BY <4>1, <4>2
    <3>. QED  BY <1>1, <3>1, <3>2, SizeAssumption
  <2>4. PICK z \in Block :
          /\ f.i_hash = Append(c.i_hash, z)
          /\ \A j \in Offsets : z[j] = IF j < r THEN c.mb[j]
                                       ELSE IF j = r + gap THEN pad ELSE Zero
    BY <2>3
  <2>5. /\ f.mbi = gap
        /\ gap = 1 => f.mb[0] = pad
    <3>1. CASE r < MB_SIZE - 1
      <4>1. gap = 0
        BY <1>1, <1>3, <3>1
      <4>. QED  BY <1>0, <3>1, <4>1, CloseBlockWithPad DEF r
    <3>2. CASE r = MB_SIZE - 1
      BY <1>0, <1>3, <3>2, CloseBlockWithoutPad DEF r
    <3>. QED  BY <1>1, <3>1, <3>2, SizeAssumption
  <2>. DEFINE last == PackedBlock(f)
              bs == Append(f.i_hash, last)
  <2>. HIDE DEF f
  <2>6. PadMessage(c, pad).i_hash = bs
    <3>1. ~(c.mbi < LengthStart)
      BY <1>1, <1>8, SizeAssumption DEF LengthStart, r
    <3>. QED  BY <2>1, <3>1, PackLengthFields DEF PadMessage, f
  <2>7. last \in Block
    BY <2>1, PackedBlockType
  <2>8. gap \in {0, 1} /\ r + gap \in LengthStart .. MB_SIZE /\ (gap = 1 => r = MB_SIZE - 1)
        /\ (gap = 0 => r < MB_SIZE - 1)
    BY <1>1, <1>3, <1>8, SizeAssumption DEF LengthStart
  <2>9. /\ Len(bs) = n + 2 /\ bs[n + 2] = last /\ bs[n + 1] = z
        /\ \A b \in 1 .. n : bs[b] = c.i_hash[b]
    <3>1. /\ f.i_hash \in Seq(Block) /\ Len(f.i_hash) = n + 1 /\ f.i_hash[n + 1] = z
          /\ \A b \in 1 .. n : f.i_hash[b] = c.i_hash[b]
      BY <1>1, <2>4 DEF n
    <3>. QED  BY <1>1, <2>7, <3>1
  <2>. HIDE DEF bs, last
  <2>10. ASSUME NEW j \in Offsets
         PROVE  z[j] = PaddedByte(d, gap, two, base + j)
    <3>1. PaddedByte(d, gap, two, base + j) =
            IF j < r THEN d[base + j + 1] ELSE IF j = r + gap THEN Octet[128] ELSE Zero
      <4>. DEFINE p == base + j
      <4>1. p \in Nat /\ p = base + j /\ two = base + MB_SIZE + MB_SIZE
        BY <1>1, <1>5, SizeAssumption DEF Offsets
      <4>. HIDE DEF p
      <4>2. PaddedByte(d, gap, two, p) =
              IF j < r THEN d[p + 1] ELSE IF j = r + gap THEN Octet[128] ELSE Zero
        <5>1. /\ base \in Nat /\ r \in Nat /\ Len(d) = base + r /\ two \in Nat
              /\ gap \in {0, 1}
          BY <1>1, <1>5, <2>8
        <5>. QED  BY <4>1, <5>1, PaddedMiddle, SMTT(30)
      <4>. QED  BY <4>2 DEF p
    <3>. QED  BY <1>2, <2>4, <3>1 DEF pad
  <2>11. ASSUME NEW j \in Offsets
         PROVE  last[j] = PaddedByte(d, gap, two, one + j)
    <3>1. last[j] = IF j < LengthStart THEN IF gap <= j THEN Zero ELSE f.mb[j]
                    ELSE Octet[LengthByte(8 * Len(d), j - LengthStart)]
      BY <2>1, <2>2, <2>5, PackLengthFields DEF last
    <3>2. PaddedByte(d, gap, two, one + j) =
            IF one + j < Len(d) THEN d[one + j + 1]
            ELSE IF one + j = Len(d) + gap THEN Octet[128]
            ELSE IF j < LengthStart THEN Zero
            ELSE Octet[LengthByte(8 * Len(d), j - LengthStart)]
      <4>. DEFINE p == one + j
      <4>1. p \in Nat /\ p = one + j
        BY <1>5, SizeAssumption DEF Offsets
      <4>. HIDE DEF p
      <4>2. PaddedByte(d, gap, two, p) =
              IF p < Len(d) THEN d[p + 1]
              ELSE IF p = Len(d) + gap THEN Octet[128]
              ELSE IF j < LengthStart THEN Zero
              ELSE Octet[LengthByte(8 * Len(d), j - LengthStart)]
        BY <1>5, <2>8, <4>1, PaddedLast
      <4>. QED  BY <4>2 DEF p
    <3>3. ~(one + j < Len(d))
      BY <1>1, <1>5, SizeAssumption DEF Offsets
    <3>4. CASE gap = 0
      <4>1. one + j # Len(d) + gap /\ gap <= j
        BY <1>1, <1>5, <3>4, SizeAssumption DEF Offsets
      <4>. QED  BY <3>1, <3>2, <3>3, <4>1
    <3>5. CASE gap = 1
      <4>1. (one + j = Len(d) + gap) <=> (j = 0)
        BY <1>1, <1>5, <2>8, <3>5, SizeAssumption DEF Offsets
      <4>2. (gap <= j) <=> (j # 0)
        BY <3>5, SizeAssumption DEF Offsets
      <4>3. j = 0 => j < LengthStart
        BY SizeAssumption DEF LengthStart
      <4>4. j = 0 => f.mb[j] = Octet[128]
        BY <2>5, <3>5 DEF pad
      <4>. QED  BY <3>1, <3>2, <3>3, <4>1, <4>2, <4>3, <4>4
    <3>. QED  BY <2>8, <3>4, <3>5
  <2>12. ASSUME NEW b \in 1 .. n + 2, NEW j \in Offsets
         PROVE  bs[b][j] = PaddedByte(d, gap, two, (b - 1) * MB_SIZE + j)
    <3>1. CASE b \in 1 .. n
      BY <1>4, <2>9, <3>1
    <3>2. CASE b = n + 1
      <4>1. (b - 1) * MB_SIZE = base
        BY <1>1, <3>2 DEF base
      <4>. QED  BY <2>9, <2>10, <3>2, <4>1
    <3>3. CASE b = n + 2
      <4>1. b - 1 = n + 1
        BY <1>1, <3>3
      <4>2. (b - 1) * MB_SIZE = one
        BY <1>6, <4>1
      <4>. QED  BY <2>9, <2>11, <3>3, <4>2
    <3>. QED  BY <1>1, <3>1, <3>2, <3>3
  <2>13. /\ Len(d) + gap + 1 + LEN_SIZE <= two
         /\ two < Len(d) + gap + 1 + LEN_SIZE + MB_SIZE
    BY <1>1, <1>5, <1>8, <2>8, SizeAssumption DEF LengthStart
  <2>14. IsPadded(bs, d, gap)
    BY <1>6, <2>9, <2>12, <2>13 DEF IsPadded
  <2>. QED  BY <2>6, <2>14 DEF pad, gap
<1>. QED  BY <1>1, <1>7, <1>8, SizeAssumption DEF LengthStart

-----------------------------------------------------------------------------
(* IsPadded has one solution, the blocks PaddedBlocks builds. *)

LEMMA DivUnique ==
  ASSUME NEW x \in Nat, NEW k \in Nat, k * MB_SIZE <= x, x < k * MB_SIZE + MB_SIZE
  PROVE  x \div MB_SIZE = k
<1>. DEFINE r == x - k * MB_SIZE
            q == x \div MB_SIZE
            s == x % MB_SIZE
<1>1. k * MB_SIZE \in Nat /\ r \in Offsets /\ x = k * MB_SIZE + r
  BY SizeAssumption DEF Offsets
<1>2. q \in Nat /\ s \in Offsets /\ x = q * MB_SIZE + s
  BY SizeAssumption DEF Offsets
<1>. HIDE DEF r, q, s
<1>3. q * MB_SIZE + s = k * MB_SIZE + r
  BY <1>1, <1>2
<1>4. q = k
  BY <1>1, <1>2, <1>3, QuotientUnique
<1>. QED  BY <1>4 DEF q

LEMMA PaddedUnique ==
  ASSUME NEW bs \in Seq(Block), NEW d \in Seq(Byte), NEW gap \in {0, 1},
         IsPadded(bs, d, gap)
  PROVE  bs = PaddedBlocks(d, gap)
<1>. DEFINE n == Len(bs)
            x == Len(d) + gap + LEN_SIZE + MB_SIZE
<1>1. n \in Nat /\ x \in Nat /\ n * MB_SIZE \in Nat /\ Len(d) \in Nat
  BY SizeAssumption
<1>2. n * MB_SIZE <= x /\ x < n * MB_SIZE + MB_SIZE
  BY <1>1, SizeAssumption DEF IsPadded
<1>. HIDE DEF n, x
<1>3. x \div MB_SIZE = n
  BY <1>1, <1>2, DivUnique
<1>4. PaddedBlocks(d, gap) =
        [b \in 1 .. n |-> [j \in Offsets |->
           PaddedByte(d, gap, n * MB_SIZE, (b - 1) * MB_SIZE + j)]]
  BY <1>3 DEF PaddedBlocks, x
<1>5. ASSUME NEW b \in 1 .. n
      PROVE  bs[b] = [j \in Offsets |-> PaddedByte(d, gap, n * MB_SIZE, (b - 1) * MB_SIZE + j)]
  <2>1. bs[b] \in Block
    BY DEF n
  <2>2. \A j \in Offsets : bs[b][j] = PaddedByte(d, gap, n * MB_SIZE, (b - 1) * MB_SIZE + j)
    BY DEF IsPadded, n
  <2>. QED  BY <2>1, <2>2, Zenon DEF Block
<1>6. bs = [b \in 1 .. n |-> bs[b]]
  BY DEF n
<1>. QED  BY <1>4, <1>5, <1>6, Zenon

-----------------------------------------------------------------------------
(* The status members, which neither absorbing nor padding changes. *)

LEMMA AbsorbFields ==
  ASSUME NEW c \in Context, NEW x \in Byte
  PROVE  AbsorbByte(c, x).hStatus = c.hStatus /\ AbsorbByte(c, x).hComplete = c.hComplete
<1>. DEFINE stored == StoreByte(c, x)
            counted == AddLength(stored, 8)
<1>1. stored \in Context /\ stored.hStatus = c.hStatus /\ stored.hComplete = c.hComplete
  BY StoreByteType DEF StoreByte, Context
<1>. HIDE DEF stored
<1>2. /\ counted \in Context /\ counted.hStatus = c.hStatus
      /\ counted.hComplete = c.hComplete
  BY <1>1, AddLengthType DEF AddLength, Context
<1>. HIDE DEF counted
<1>3. AbsorbByte(c, x) \in {stored, UpdateMessageBlock(counted), counted}
  BY DEF AbsorbByte, stored, counted
<1>. QED  BY <1>1, <1>2, <1>3, UpdateMessageBlockFields

(* padMessage leaves the status alone, also past the length limit. *)
LEMMA StoreByteStatus ==
  ASSUME NEW c \in Context, NEW x \in Byte
  PROVE  StoreByte(c, x).hStatus = c.hStatus
  BY DEF StoreByte, Context

LEMMA PadMessageStatus ==
  ASSUME NEW c \in Context
  PROVE  PadMessage(c, Octet[128]).hStatus = c.hStatus
<1>. DEFINE pad    == Octet[128]
            marked == IF c.mbi < MB_SIZE - 1 THEN StoreByte(c, pad) ELSE c
            zeroed == [marked EXCEPT !.mb = ZeroFill(@, marked.mbi, MB_SIZE)]
            flushed == UpdateMessageBlock(zeroed)
<1>0. pad \in Byte
  BY OctetAssumption
<1>. HIDE DEF pad
<1>1. marked \in Context /\ marked.hStatus = c.hStatus
  BY <1>0, StoreByteType, StoreByteStatus
<1>. HIDE DEF marked
<1>2. zeroed \in Context /\ zeroed.hStatus = c.hStatus
  BY <1>1, ZeroFillType DEF Context
<1>. HIDE DEF zeroed
<1>3. flushed \in Context /\ flushed.hStatus = c.hStatus
  BY <1>2, UpdateMessageBlockType, UpdateMessageBlockFields
<1>. HIDE DEF flushed
<1>4. CloseBlock(c, pad) \in {flushed, StoreByte(flushed, pad)}
  BY DEF CloseBlock, flushed, zeroed, marked
<1>5. CloseBlock(c, pad) \in Context /\ CloseBlock(c, pad).hStatus = c.hStatus
  BY <1>0, <1>3, <1>4, StoreByteType, StoreByteStatus
<1>6. StoreByte(c, pad) \in Context /\ StoreByte(c, pad).hStatus = c.hStatus
  BY <1>0, StoreByteType, StoreByteStatus
<1>. QED  BY <1>5, <1>6, PackLengthFields DEF PadMessage, pad

LEMMA NewFields ==
  /\ NewContext.hStatus = "OK" /\ NewContext.hComplete = 0
  /\ \A c \in Context : ResetContext(c).hStatus = "OK" /\ ResetContext(c).hComplete = 0
  BY DEF NewContext, ResetContext, Context

(* Appending a byte to a message that could be counted after it leaves one *)
(* that could be counted before.                                           *)
LEMMA CountableBefore ==
  ASSUME NEW d \in Seq(Byte), NEW x \in Byte, Countable(Append(d, x))
  PROVE  Countable(d)
<1>1. Len(Append(d, x)) = Len(d) + 1 /\ Len(d) \in Nat
  OBVIOUS
<1>. QED  BY <1>1, SizeAssumption DEF Countable

(* The message of its first n bytes. *)
Prefix(m, n) == [k \in 1 .. n |-> m[k]]

LEMMA Prefixes ==
  ASSUME NEW d \in Seq(Byte), NEW m \in Seq(Byte)
  PROVE  /\ d \o Prefix(m, 0) = d
         /\ d \o Prefix(m, Len(m)) = d \o m
         /\ \A n \in 1 .. Len(m) :
              /\ d \o Prefix(m, n) = Append(d \o Prefix(m, n - 1), m[n])
              /\ d \o Prefix(m, n - 1) \in Seq(Byte)
              /\ Countable(d \o m) => Countable(d \o Prefix(m, n))
<1>1. ASSUME NEW n \in 0 .. Len(m)
      PROVE  /\ Prefix(m, n) \in Seq(Byte) /\ Len(Prefix(m, n)) = n
             /\ \A k \in 1 .. n : Prefix(m, n)[k] = m[k]
  <2>1. Prefix(m, n) \in [1 .. n -> Byte]
    BY DEF Prefix
  <2> QED
    BY <2>1 DEF Prefix
<1>2. d \o Prefix(m, 0) = d
  <2>1. Prefix(m, 0) = << >>
    BY <1>1, EmptySeq
  <2> QED
    BY <2>1
<1>3. Prefix(m, Len(m)) = m
  BY <1>1, SeqEqual
<1>4. ASSUME NEW n \in 1 .. Len(m)
      PROVE  /\ d \o Prefix(m, n) = Append(d \o Prefix(m, n - 1), m[n])
             /\ d \o Prefix(m, n - 1) \in Seq(Byte)
             /\ Countable(d \o m) => Countable(d \o Prefix(m, n))
  <2> DEFINE p == Prefix(m, n)
             q == Prefix(m, n - 1)
             e == d \o p
             f == Append(d \o q, m[n])
  <2>1. /\ p \in Seq(Byte) /\ Len(p) = n /\ \A k \in 1 .. n : p[k] = m[k]
        /\ q \in Seq(Byte) /\ Len(q) = n - 1 /\ \A k \in 1 .. n - 1 : q[k] = m[k]
        /\ m[n] \in Byte /\ Len(d) \in Nat /\ Len(m) \in Nat
    BY <1>1
  <2> HIDE DEF p, q
  <2>2. p = Append(q, m[n])
    <3>1. /\ Append(q, m[n]) \in Seq(Byte) /\ Len(Append(q, m[n])) = n
          /\ Append(q, m[n])[n] = m[n]
          /\ \A k \in 1 .. n - 1 : Append(q, m[n])[k] = q[k]
      BY <2>1
    <3>2. \A k \in 1 .. n : Append(q, m[n])[k] = m[k]
      BY <2>1, <3>1
    <3> QED
      BY <2>1, <3>1, <3>2, SeqEqual
  <2>3. << m[n] >> \in Seq(Byte) /\ d \o q \in Seq(Byte)
    BY <2>1
  <2>4. Append(q, m[n]) = q \o << m[n] >> /\ f = (d \o q) \o << m[n] >>
    BY <2>1, <2>3, AppendIsConcat
  <2>5. e \in Seq(Byte) /\ Len(e) = Len(d) + n
    BY <2>1, ConcatProperties
  <2>6. e = f
    BY <2>1, <2>2, <2>3, <2>4, ConcatAssociative, SMTT(30)
  <2> HIDE DEF e, f
  <2>7. Countable(d \o m) => Countable(e)
    <3>1. Len(d \o m) = Len(d) + Len(m)
      OBVIOUS
    <3> QED
      BY <2>1, <2>5, <3>1, SizeAssumption DEF Countable
  <2> QED
    BY <2>3, <2>6, <2>7 DEF e, f, p, q
<1> QED
  BY <1>2, <1>3, <1>4

-----------------------------------------------------------------------------
(* Blocks are only ever added. *)

(* The blocks bs are the first of the blocks cs. *)
Extends(bs, cs) == Len(bs) <= Len(cs) /\ \A b \in 1 .. Len(bs) : cs[b] = bs[b]

LEMMA ExtendsTransitive ==
  ASSUME NEW bs \in Seq(Block), NEW cs \in Seq(Block), NEW ds \in Seq(Block),
         Extends(bs, cs), Extends(cs, ds)
  PROVE  Extends(bs, ds)
  BY DEF Extends

LEMMA AppendExtends ==
  ASSUME NEW bs \in Seq(Block), NEW mb \in Block
  PROVE  Extends(bs, bs) /\ Extends(bs, Append(bs, mb))
  BY DEF Extends

LEMMA StoreByteBlocks ==
  ASSUME NEW c \in Context, NEW x \in Byte
  PROVE  StoreByte(c, x).i_hash = c.i_hash
  BY DEF StoreByte, Context

LEMMA AbsorbExtends ==
  ASSUME NEW c \in Context, NEW x \in Byte
  PROVE  Extends(c.i_hash, AbsorbByte(c, x).i_hash)
<1>. DEFINE stored == StoreByte(c, x)
            counted == AddLength(stored, 8)
<1>1. stored \in Context /\ stored.i_hash = c.i_hash
  BY StoreByteType, StoreByteBlocks
<1>. HIDE DEF stored
<1>2. counted \in Context /\ counted.i_hash = c.i_hash
  BY <1>1, AddLengthType DEF AddLength, Context
<1>. HIDE DEF counted
<1>3. AbsorbByte(c, x) \in {stored, UpdateMessageBlock(counted), counted}
  BY DEF AbsorbByte, stored, counted
<1>4. UpdateMessageBlock(counted).i_hash = Append(c.i_hash, counted.mb)
  BY <1>2, UpdateMessageBlockFields
<1>5. c.i_hash \in Seq(Block) /\ counted.mb \in Block
  BY <1>2 DEF Context
<1>. QED  BY <1>1, <1>2, <1>3, <1>4, <1>5, AppendExtends

LEMMA PadMessageExtends ==
  ASSUME NEW c \in Context
  PROVE  Extends(c.i_hash, PadMessage(c, Octet[128]).i_hash)
<1>. DEFINE pad    == Octet[128]
            marked == IF c.mbi < MB_SIZE - 1 THEN StoreByte(c, pad) ELSE c
            zeroed == [marked EXCEPT !.mb = ZeroFill(@, marked.mbi, MB_SIZE)]
            flushed == UpdateMessageBlock(zeroed)
<1>0. pad \in Byte
  BY OctetAssumption
<1>. HIDE DEF pad
<1>1. marked \in Context /\ marked.i_hash = c.i_hash
  BY <1>0, StoreByteType, StoreByteBlocks
<1>. HIDE DEF marked
<1>2. zeroed \in Context /\ zeroed.i_hash = c.i_hash
  BY <1>1, ZeroFillType DEF Context
<1>. HIDE DEF zeroed
<1>3. flushed \in Context /\ Extends(c.i_hash, flushed.i_hash)
  <2>1. flushed.i_hash = Append(c.i_hash, zeroed.mb)
    BY <1>2, UpdateMessageBlockFields
  <2>2. c.i_hash \in Seq(Block) /\ zeroed.mb \in Block
    BY <1>2 DEF Context
  <2>. QED  BY <1>2, <2>1, <2>2, AppendExtends, UpdateMessageBlockType
<1>. HIDE DEF flushed
<1>4. CloseBlock(c, pad) \in {flushed, StoreByte(flushed, pad)}
  BY DEF CloseBlock, flushed, zeroed, marked
<1>5. CloseBlock(c, pad) \in Context /\ Extends(c.i_hash, CloseBlock(c, pad).i_hash)
  BY <1>0, <1>3, <1>4, StoreByteType, StoreByteBlocks
<1>6. StoreByte(c, pad) \in Context /\ StoreByte(c, pad).i_hash = c.i_hash
  BY <1>0, StoreByteType, StoreByteBlocks
<1>. DEFINE full == IF c.mbi < LengthStart THEN StoreByte(c, pad) ELSE CloseBlock(c, pad)
<1>7. full \in Context /\ Extends(c.i_hash, full.i_hash)
  <2>1. c.i_hash \in Seq(Block) /\ ZeroBlock \in Block
    BY ZeroBlockType DEF Context
  <2>2. Extends(c.i_hash, c.i_hash)
    BY <2>1, AppendExtends
  <2>. QED  BY <1>5, <1>6, <2>2
<1>8. PadMessage(c, pad) = PackLength(full)
  BY DEF PadMessage
<1>. HIDE DEF full
<1>9. PackLength(full).i_hash = Append(full.i_hash, PackedBlock(full))
  BY <1>7, PackLengthFields
<1>10. /\ c.i_hash \in Seq(Block) /\ full.i_hash \in Seq(Block)
       /\ PackedBlock(full) \in Block
       /\ Append(full.i_hash, PackedBlock(full)) \in Seq(Block)
  BY <1>7, PackedBlockType DEF Context
<1>11. Extends(full.i_hash, Append(full.i_hash, PackedBlock(full)))
  BY <1>10, AppendExtends
<1>. QED  BY <1>7, <1>8, <1>9, <1>10, <1>11, ExtendsTransitive DEF pad

LEMMA FinaliseExtends ==
  ASSUME NEW c \in Context
  PROVE  Extends(c.i_hash, FinaliseContext(c).i_hash)
  BY PadMessageExtends, FinaliseFields

(* A byte completes at most one block, and padding adds at most two. *)
LEMMA AbsorbGrows ==
  ASSUME NEW c \in Context, NEW x \in Byte
  PROVE  Len(AbsorbByte(c, x).i_hash) \in Len(c.i_hash) .. Len(c.i_hash) + 1
<1> DEFINE stored == StoreByte(c, x)
           counted == AddLength(stored, 8)
<1>1. stored \in Context /\ stored.i_hash = c.i_hash
  BY StoreByteType, StoreByteBlocks
<1> HIDE DEF stored
<1>2. counted \in Context /\ counted.i_hash = stored.i_hash
  BY <1>1, AddLengthType DEF AddLength, Context
<1> HIDE DEF counted
<1>3. UpdateMessageBlock(counted).i_hash = Append(counted.i_hash, counted.mb)
  BY <1>2, UpdateMessageBlockFields
<1>4. AbsorbByte(c, x).i_hash \in { c.i_hash, Append(c.i_hash, counted.mb) }
  BY <1>1, <1>2, <1>3 DEF AbsorbByte, stored, counted
<1>5. c.i_hash \in Seq(Block)
  BY DEF Context
<1> QED
  BY <1>4, <1>5

LEMMA FinaliseGrows ==
  ASSUME NEW c \in Context
  PROVE  Len(FinaliseContext(c).i_hash) \in Len(c.i_hash) .. Len(c.i_hash) + 2
<1> DEFINE pad == Octet[128]
           marked == IF c.mbi < MB_SIZE - 1 THEN StoreByte(c, pad) ELSE c
           zeroed == [marked EXCEPT !.mb = ZeroFill(@, marked.mbi, MB_SIZE)]
           flushed == UpdateMessageBlock(zeroed)
           closed == CloseBlock(c, pad)
           before == IF c.mbi < LengthStart THEN StoreByte(c, pad) ELSE closed
<1>1. pad \in Byte
  BY OctetAssumption
<1>2. marked \in Context /\ marked.i_hash = c.i_hash
  BY <1>1, StoreByteType, StoreByteBlocks
<1> HIDE DEF marked
<1>3. zeroed \in Context /\ zeroed.i_hash = c.i_hash
  BY <1>2, ZeroFillType DEF Context
<1> HIDE DEF zeroed
<1>4. flushed \in Context /\ Len(flushed.i_hash) = Len(c.i_hash) + 1
  <2>1. flushed.i_hash = Append(zeroed.i_hash, zeroed.mb) /\ zeroed.i_hash \in Seq(Block)
    BY <1>3, UpdateMessageBlockFields DEF Context
  <2> QED
    BY <1>3, <2>1, UpdateMessageBlockType
<1>5. closed \in { flushed, StoreByte(flushed, pad) }
  BY DEF CloseBlock, flushed, zeroed, marked
<1> HIDE DEF pad, flushed, closed
<1>6. closed \in Context /\ Len(closed.i_hash) = Len(c.i_hash) + 1
  BY <1>1, <1>4, <1>5, StoreByteType, StoreByteBlocks
<1>7. /\ before \in Context
      /\ before.i_hash = c.i_hash \/ Len(before.i_hash) = Len(c.i_hash) + 1
  BY <1>1, <1>6, StoreByteType, StoreByteBlocks
<1>8. PadMessage(c, pad) = PackLength(before)
  BY DEF PadMessage, closed
<1> HIDE DEF before
<1>9. PadMessage(c, pad).i_hash = Append(before.i_hash, PackedBlock(before))
  BY <1>7, <1>8, PackLengthFields
<1>10. before.i_hash \in Seq(Block) /\ c.i_hash \in Seq(Block)
  BY <1>7 DEF Context
<1>11. Len(PadMessage(c, pad).i_hash) \in Len(c.i_hash) .. Len(c.i_hash) + 2
  BY <1>7, <1>9, <1>10
<1> QED
  BY <1>11, FinaliseFields DEF pad

-----------------------------------------------------------------------------
(* Padding loses nothing. *)

LEMMA ByteOfBlocks ==
  ASSUME NEW n \in Nat, NEW p \in 0 .. n * MB_SIZE - 1
  PROVE  \E b \in 1 .. n, j \in Offsets : p = (b - 1) * MB_SIZE + j
<1> DEFINE q == p \div MB_SIZE
           j == p % MB_SIZE
<1>1. n * MB_SIZE \in Nat
  BY SizeAssumption
<1>2. p \in Nat /\ p < n * MB_SIZE
  BY <1>1
<1>3. q \in Nat /\ j \in Offsets /\ p = q * MB_SIZE + j
  BY <1>2, SizeAssumption DEF Offsets
<1> HIDE DEF q, j
<1>4. q < n
  <2>1. ASSUME n <= q PROVE FALSE
    <3>1. n * MB_SIZE <= q * MB_SIZE
      BY <1>3, <2>1, MulMonotone, SizeAssumption
    <3>2. q * MB_SIZE \in Nat /\ j \in Nat
      BY <1>3, SizeAssumption DEF Offsets
    <3> QED
      BY <1>1, <1>2, <1>3, <3>1, <3>2
  <2> QED
    BY <1>3, <2>1
<1>5. q + 1 \in 1 .. n /\ (q + 1) - 1 = q
  BY <1>3, <1>4
<1>6. p = ((q + 1) - 1) * MB_SIZE + j
  BY <1>3, <1>5
<1> QED
  BY <1>3, <1>5, <1>6, Zenon

LEMMA BytesOfPaddedBlocks ==
  ASSUME NEW d \in Seq(Byte), NEW gap \in { 0, 1 }
  PROVE  \E n \in Nat :
           /\ Len(PaddedBlocks(d, gap)) = n
           /\ n * MB_SIZE \in Nat /\ Len(d) + gap + 1 + LEN_SIZE <= n * MB_SIZE
           /\ \A b \in 1 .. n, j \in Offsets :
                PaddedBlocks(d, gap)[b][j]
                  = PaddedByte(d, gap, n * MB_SIZE, (b - 1) * MB_SIZE + j)
<1> DEFINE x == Len(d) + gap + LEN_SIZE + MB_SIZE
           n == x \div MB_SIZE
           s == x % MB_SIZE
<1>1. x \in Nat /\ Len(d) \in Nat
  BY SizeAssumption
<1>2. n \in Nat /\ s \in Offsets /\ x = n * MB_SIZE + s /\ n * MB_SIZE \in Nat
  BY <1>1, SizeAssumption DEF Offsets
<1>3. PaddedBlocks(d, gap) =
        [b \in 1 .. n |-> [j \in Offsets |->
           PaddedByte(d, gap, n * MB_SIZE, (b - 1) * MB_SIZE + j)]]
  BY DEF PaddedBlocks
<1>4. Len(d) + gap + 1 + LEN_SIZE <= n * MB_SIZE
  <2> HIDE DEF n, s
  <2> QED
    BY <1>1, <1>2, SizeAssumption DEF Offsets
<1> HIDE DEF n
<1>5. Len(PaddedBlocks(d, gap)) = n
  BY <1>2, <1>3
<1>6. \A b \in 1 .. n, j \in Offsets :
        PaddedBlocks(d, gap)[b][j] = PaddedByte(d, gap, n * MB_SIZE, (b - 1) * MB_SIZE + j)
  BY <1>3
<1> QED
  BY <1>2, <1>4, <1>5, <1>6

LEMMA SameBlocksSameBytes ==
  ASSUME NEW c \in Seq(Byte), NEW g \in { 0, 1 }, NEW d \in Seq(Byte), NEW h \in { 0, 1 },
         PaddedBlocks(c, g) = PaddedBlocks(d, h)
  PROVE  \E total \in Nat :
           /\ Len(c) + g + 1 + LEN_SIZE <= total /\ Len(d) + h + 1 + LEN_SIZE <= total
           /\ \A p \in 0 .. total - 1 : PaddedByte(c, g, total, p) = PaddedByte(d, h, total, p)
<1>1. PICK n \in Nat :
        /\ Len(PaddedBlocks(c, g)) = n
        /\ n * MB_SIZE \in Nat /\ Len(c) + g + 1 + LEN_SIZE <= n * MB_SIZE
        /\ \A b \in 1 .. n, j \in Offsets :
             PaddedBlocks(c, g)[b][j] = PaddedByte(c, g, n * MB_SIZE, (b - 1) * MB_SIZE + j)
  BY BytesOfPaddedBlocks, Zenon
<1>2. PICK m \in Nat :
        /\ Len(PaddedBlocks(d, h)) = m
        /\ m * MB_SIZE \in Nat /\ Len(d) + h + 1 + LEN_SIZE <= m * MB_SIZE
        /\ \A b \in 1 .. m, j \in Offsets :
             PaddedBlocks(d, h)[b][j] = PaddedByte(d, h, m * MB_SIZE, (b - 1) * MB_SIZE + j)
  BY BytesOfPaddedBlocks, Zenon
<1>3. m = n
  BY <1>1, <1>2, Zenon
<1> DEFINE total == n * MB_SIZE
<1>4. ASSUME NEW p \in 0 .. total - 1
      PROVE  PaddedByte(c, g, total, p) = PaddedByte(d, h, total, p)
  <2>1. PICK b \in 1 .. n, j \in Offsets : p = (b - 1) * MB_SIZE + j
    BY ByteOfBlocks
  <2>2. PaddedBlocks(c, g)[b][j] = PaddedByte(c, g, total, p)
    BY <1>1, <2>1, Zenon
  <2>3. PaddedBlocks(d, h)[b][j] = PaddedByte(d, h, total, p)
    BY <1>2, <1>3, <2>1, Zenon
  <2> QED
    BY <2>2, <2>3, Zenon
<1>5. total \in Nat /\ Len(c) + g + 1 + LEN_SIZE <= total /\ Len(d) + h + 1 + LEN_SIZE <= total
  BY <1>1, <1>2, <1>3, Zenon
<1> HIDE DEF total
<1> QED
  BY <1>4, <1>5

(* A number below 256^4 is what its last four octets spell. *)
LEMMA OctetsDetermine ==
  ASSUME NEW x \in Nat, NEW y \in Nat, 4 <= LEN_SIZE,
         x < 256 * 256 * 256 * 256, y < 256 * 256 * 256 * 256,
         \A k \in 0 .. LEN_SIZE - 1 : BigEndian(x, k) = BigEndian(y, k)
  PROVE  x = y
<1> DEFINE x1 == x \div 256
           x2 == x1 \div 256
           x3 == x2 \div 256
           y1 == y \div 256
           y2 == y1 \div 256
           y3 == y2 \div 256
<1>1. /\ BigEndian(x, LEN_SIZE - 1) = x % 256 /\ BigEndian(y, LEN_SIZE - 1) = y % 256
      /\ BigEndian(x, LEN_SIZE - 2) = x1 % 256 /\ BigEndian(y, LEN_SIZE - 2) = y1 % 256
      /\ BigEndian(x, LEN_SIZE - 3) = x2 % 256 /\ BigEndian(y, LEN_SIZE - 3) = y2 % 256
      /\ BigEndian(x, LEN_SIZE - 4) = x3 % 256 /\ BigEndian(y, LEN_SIZE - 4) = y3 % 256
  <2>1. /\ LEN_SIZE - 1 - (LEN_SIZE - 1) = 0 /\ LEN_SIZE - 1 - (LEN_SIZE - 2) = 1
        /\ LEN_SIZE - 1 - (LEN_SIZE - 3) = 2 /\ LEN_SIZE - 1 - (LEN_SIZE - 4) = 3
    BY SizeAssumption
  <2> QED
    BY <2>1 DEF BigEndian, Without
<1>2. /\ LEN_SIZE - 1 \in 0 .. LEN_SIZE - 1 /\ LEN_SIZE - 2 \in 0 .. LEN_SIZE - 1
      /\ LEN_SIZE - 3 \in 0 .. LEN_SIZE - 1 /\ LEN_SIZE - 4 \in 0 .. LEN_SIZE - 1
  BY SizeAssumption
<1>3. x % 256 = y % 256 /\ x1 % 256 = y1 % 256 /\ x2 % 256 = y2 % 256 /\ x3 % 256 = y3 % 256
  <2> HIDE DEF x1, x2, x3, y1, y2, y3
  <2> QED
    BY <1>1, <1>2
<1>4. ASSUME NEW n \in Nat
      PROVE  n \div 256 \in Nat /\ n = (256 * (n \div 256)) + (n % 256) /\ n % 256 \in 0 .. 255
  OBVIOUS
<1>5. x1 \in Nat /\ y1 \in Nat /\ x = (256 * x1) + (x % 256) /\ y = (256 * y1) + (y % 256)
  BY <1>4
<1>6. x2 \in Nat /\ y2 \in Nat /\ x1 = (256 * x2) + (x1 % 256) /\ y1 = (256 * y2) + (y1 % 256)
  BY <1>4, <1>5
<1>7. x3 \in Nat /\ y3 \in Nat /\ x2 = (256 * x3) + (x2 % 256) /\ y2 = (256 * y3) + (y2 % 256)
  BY <1>4, <1>6
<1>8. /\ x % 256 \in 0 .. 255 /\ x1 % 256 \in 0 .. 255 /\ x2 % 256 \in 0 .. 255
      /\ y % 256 \in 0 .. 255 /\ y1 % 256 \in 0 .. 255 /\ y2 % 256 \in 0 .. 255
  BY <1>4, <1>5, <1>6
<1> HIDE DEF x1, x2, x3, y1, y2, y3
<1>9. x3 < 256 /\ y3 < 256
  BY <1>5, <1>6, <1>7, <1>8
<1>10. x3 = y3
  BY <1>3, <1>7, <1>9
<1>11. x2 = y2
  BY <1>3, <1>7, <1>10
<1>12. x1 = y1
  BY <1>3, <1>6, <1>11
<1> QED
  BY <1>3, <1>5, <1>12

(* No two of the 256 literal bytes are the same byte. *)
OctetsDiffer == \A m, n \in 0 .. 255 : Octet[m] = Octet[n] => m = n

(* Two messages that padMessage leaves with the same blocks are the same,  *)
(* although it pads some of them otherwise than the standard does: what    *)
(* the digest is computed from determines the message, at the sizes of the *)
(* code (a length field of at least four bytes, lengths of 32 bits).       *)
THEOREM PaddingIsInjective ==
  ASSUME 4 <= LEN_SIZE, LEN_MOD <= 256 * 256 * 256 * 256,
         OctetsDiffer,
         NEW c \in Seq(Byte), NEW d \in Seq(Byte), Countable(c), Countable(d),
         PaddedBlocks(c, Gap(c)) = PaddedBlocks(d, Gap(d))
  PROVE  c = d
<1> DEFINE g == Gap(c)
           h == Gap(d)
<1>1. g \in { 0, 1 } /\ h \in { 0, 1 }
  BY DEF Gap
<1> HIDE DEF g, h
<1>2. PICK total \in Nat :
        /\ Len(c) + g + 1 + LEN_SIZE <= total /\ Len(d) + h + 1 + LEN_SIZE <= total
        /\ \A p \in 0 .. total - 1 : PaddedByte(c, g, total, p) = PaddedByte(d, h, total, p)
  BY <1>1, SameBlocksSameBytes, Zenon DEF g, h
<1>3. Len(c) \in Nat /\ Len(d) \in Nat
  OBVIOUS
<1>4. /\ 8 * Len(c) \in Nat /\ 8 * Len(c) < 256 * 256 * 256 * 256
      /\ 8 * Len(d) \in Nat /\ 8 * Len(d) < 256 * 256 * 256 * 256
  BY <1>3, SizeAssumption DEF Countable
<1>5. ASSUME NEW k \in 0 .. LEN_SIZE - 1
      PROVE  BigEndian(8 * Len(c), k) = BigEndian(8 * Len(d), k)
  <2> DEFINE p == total - LEN_SIZE + k
  <2>1. /\ p \in 0 .. total - 1 /\ p >= total - LEN_SIZE /\ p - (total - LEN_SIZE) = k
        /\ ~(p < Len(c)) /\ p # Len(c) + g /\ ~(p < Len(d)) /\ p # Len(d) + h
    BY <1>1, <1>2, <1>3, SizeAssumption
  <2>2. PaddedByte(c, g, total, p) = PaddedByte(d, h, total, p)
    BY <1>2, <2>1
  <2> HIDE DEF p
  <2>3. /\ PaddedByte(c, g, total, p) = Octet[BigEndian(8 * Len(c), k)]
        /\ PaddedByte(d, h, total, p) = Octet[BigEndian(8 * Len(d), k)]
    BY <2>1 DEF PaddedByte
  <2>4. BigEndian(8 * Len(c), k) \in 0 .. 255 /\ BigEndian(8 * Len(d), k) \in 0 .. 255
    <3>1. ASSUME NEW n \in Nat PROVE BigEndian(n, k) \in 0 .. 255
      <4> DEFINE w == Without(n, LEN_SIZE - 1 - k)
      <4>1. w \in Int
        BY DEF Without
      <4>2. BigEndian(n, k) = w % 256
        BY DEF BigEndian
      <4> HIDE DEF w
      <4>3. w % 256 \in 0 .. 255
        BY <4>1
      <4> QED
        BY <4>2, <4>3, Zenon
    <3> QED
      BY <1>4, <3>1
  <2> QED
    BY <2>2, <2>3, <2>4, Zenon DEF OctetsDiffer
<1>6. 8 * Len(c) = 8 * Len(d)
  BY <1>4, <1>5, OctetsDetermine
<1>7. Len(c) = Len(d)
  BY <1>3, <1>6
<1>8. ASSUME NEW k \in 1 .. Len(c) PROVE c[k] = d[k]
  <2>1. /\ k - 1 \in 0 .. total - 1 /\ k - 1 < Len(c) /\ k - 1 < Len(d)
        /\ (k - 1) + 1 = k
    BY <1>1, <1>2, <1>3, <1>7, SizeAssumption
  <2>2. PaddedByte(c, g, total, k - 1) = c[k] /\ PaddedByte(d, h, total, k - 1) = d[k]
    BY <2>1 DEF PaddedByte
  <2> QED
    BY <1>2, <2>1, <2>2
<1> QED
  BY <1>3, <1>7, <1>8

(* The code pads a message as FIPS 180-4 does, without a gap, exactly when *)
(* it does not leave one byte of its last block free; a message that does  *)
(* is compressed from other blocks.                                        *)
THEOREM PaddingIsStandardUnlessGap ==
  ASSUME Octet[0] # Octet[128], NEW d \in Seq(Byte)
  PROVE  PaddedBlocks(d, Gap(d)) = PaddedBlocks(d, 0) <=> ~OneByteFree(d)
<1>1. ASSUME PaddedBlocks(d, 1) = PaddedBlocks(d, 0) PROVE FALSE
  <2>1. PICK total \in Nat :
          /\ Len(d) + 1 + 1 + LEN_SIZE <= total /\ Len(d) + 0 + 1 + LEN_SIZE <= total
          /\ \A p \in 0 .. total - 1 : PaddedByte(d, 1, total, p) = PaddedByte(d, 0, total, p)
    <3>1. 0 \in { 0, 1 } /\ 1 \in { 0, 1 }
      OBVIOUS
    <3> QED
      BY <1>1, <3>1, SameBlocksSameBytes, Zenon
  <2>2. Len(d) \in Nat
    OBVIOUS
  <2>3. /\ Len(d) \in 0 .. total - 1 /\ ~(Len(d) < Len(d)) /\ Len(d) # Len(d) + 1
        /\ Len(d) = Len(d) + 0 /\ ~(Len(d) >= total - LEN_SIZE)
    BY <2>1, <2>2, SizeAssumption
  <2>4. PaddedByte(d, 0, total, Len(d)) = Octet[128]
    BY <2>3, Zenon DEF PaddedByte
  <2>5. PaddedByte(d, 1, total, Len(d)) = Zero
    BY <2>3, Zenon DEF PaddedByte
  <2> QED
    BY <2>1, <2>3, <2>4, <2>5, Zenon DEF Zero
<1> QED
  BY <1>1 DEF Gap
=============================================================================
