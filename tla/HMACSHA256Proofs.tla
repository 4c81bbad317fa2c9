-------------------------- MODULE HMACSHA256Proofs --------------------------
(***************************************************************************)
(* Class HMAC over a real SHA-256 object: for every block size, digest     *)
(* size and length limit, every key and message, the object inside holds   *)
(* the data it should, and the class implements module HMAC.               *)
(***************************************************************************)
EXTENDS HMACSHA256, SHA256ContextProofs

-----------------------------------------------------------------------------
(* SHA256::Update, byte by byte. *)

LEMMA AbsorbedByByte ==
  ASSUME NEW c \in Context, NEW m \in Seq(Byte)
  PROVE  \E f : /\ \A n \in 0 .. Len(m) : f[n] \in Context
                /\ f[0] = c
                /\ \A n \in 1 .. Len(m) : f[n] = AbsorbByte(f[n - 1], m[n])
                /\ Absorbed(c, m) = f[Len(m)]
<1> DEFINE N == Len(m)
           F(f) == [n \in 0 .. N |-> IF n = 0 THEN c ELSE AbsorbByte(f[n - 1], m[n])]
           G == [p \in (1 .. N) \X Context |-> AbsorbByte(p[2], m[p[1]])]
           after == CHOOSE f : f = F(f)
<1>0. N \in Nat /\ \A n \in 1 .. N : m[n] \in Byte
  OBVIOUS
<1>1. G \in StepFunctions(Context, N)
  BY <1>0, AbsorbByteType DEF StepFunctions
<1>2. \A n \in 1 .. N, x \in Context : G[<< n, x >>] = AbsorbByte(x, m[n])
  OBVIOUS
<1> HIDE DEF G, N
<1>3. PICK f : Values(f, Context, N, c, G)
  BY <1>0, <1>1, Recursion
<1>4. f = F(f)
  <2>1. ASSUME NEW n \in 0 .. N
        PROVE  f[n] = IF n = 0 THEN c ELSE AbsorbByte(f[n - 1], m[n])
    <3>1. CASE n = 0
      BY <1>3, <3>1 DEF Values
    <3>2. CASE n \in 1 .. N
      <4>1. n # 0 /\ f[n] = G[<< n, f[n - 1] >>] /\ f[n - 1] \in Context
        BY <1>0, <1>3, <3>2 DEF Values
      <4> QED
        BY <1>2, <3>2, <4>1, Zenon
    <3> QED
      BY <1>0, <3>1, <3>2
  <2>2. f = [n \in 0 .. N |-> f[n]]
    BY <1>3 DEF Values
  <2> QED
    BY <2>1, <2>2
<1>5. after = F(after)
  BY <1>4, Zenon
<1>6. Absorbed(c, m) = after[N]
  BY DEF Absorbed, N
<1> HIDE DEF after
<1>7. after[0] = c /\ \A n \in 1 .. N : after[n] = AbsorbByte(after[n - 1], m[n])
  <2>1. \A n \in 0 .. N : F(after)[n] = IF n = 0 THEN c ELSE AbsorbByte(after[n - 1], m[n])
    OBVIOUS
  <2> HIDE DEF F
  <2>2. \A n \in 0 .. N : after[n] = IF n = 0 THEN c ELSE AbsorbByte(after[n - 1], m[n])
    BY <1>5, <2>1, Zenon
  <2> QED
    BY <1>0, <2>2
<1>8. \A n \in 0 .. N : after[n] \in Context
  <2>1. \A n \in 1 .. N : after[n - 1] \in Context => after[n] \in Context
    BY <1>0, <1>7, AbsorbByteType
  <2> QED
    BY <1>0, <1>7, <2>1, MembersByRecursion
<1> QED
  BY <1>6, <1>7, <1>8, Zenon DEF N

(* Update adds a message to the one that an open context holds. *)
LEMMA AbsorbedEffect ==
  ASSUME NEW c \in Context, NEW m \in Seq(Byte)
  PROVE  /\ Absorbed(c, m) \in Context
         /\ Absorbed(c, m).hStatus = c.hStatus
         /\ Absorbed(c, m).hComplete = c.hComplete
         /\ \A d \in Seq(Byte) : Represents(c, d) /\ Countable(d \o m)
              => Represents(Absorbed(c, m), d \o m)
<1> DEFINE N == Len(m)
<1>0. N \in Nat /\ \A n \in 1 .. N : m[n] \in Byte
  OBVIOUS
<1>1. PICK f : /\ \A n \in 0 .. N : f[n] \in Context
               /\ f[0] = c
               /\ \A n \in 1 .. N : f[n] = AbsorbByte(f[n - 1], m[n])
               /\ Absorbed(c, m) = f[N]
  BY AbsorbedByByte
<1> HIDE DEF N
<1>2. \A n \in 0 .. N : f[n].hStatus = c.hStatus /\ f[n].hComplete = c.hComplete
  <2> DEFINE T == { n \in 0 .. N : f[n].hStatus = c.hStatus /\ f[n].hComplete = c.hComplete }
  <2>1. 0 \in T
    BY <1>0, <1>1
  <2>2. ASSUME NEW n \in 1 .. N, n - 1 \in T PROVE n \in T
    <3>1. f[n - 1] \in Context /\ f[n] = AbsorbByte(f[n - 1], m[n]) /\ m[n] \in Byte
      BY <1>0, <1>1
    <3> QED
      BY <2>2, <3>1, AbsorbFields
  <2> HIDE DEF T
  <2>3. \A n \in 0 .. N : n \in T
    BY <1>0, <2>1, <2>2, NumberInduction
  <2> QED
    BY <2>3 DEF T
<1>3. ASSUME NEW d \in Seq(Byte), Represents(c, d), Countable(d \o m)
      PROVE  Represents(f[N], d \o m)
  <2> DEFINE T == { n \in 0 .. N : Represents(f[n], d \o Prefix(m, n)) }
  <2>1. 0 \in T
    <3>1. d \o Prefix(m, 0) = d /\ 0 \in 0 .. N
      BY <1>0, Prefixes
    <3> QED
      BY <1>1, <1>3, <3>1
  <2>2. ASSUME NEW n \in 1 .. N, n - 1 \in T PROVE n \in T
    <3>1. f[n - 1] \in Context /\ f[n] = AbsorbByte(f[n - 1], m[n]) /\ m[n] \in Byte
      BY <1>0, <1>1
    <3>2. /\ d \o Prefix(m, n) = Append(d \o Prefix(m, n - 1), m[n])
          /\ d \o Prefix(m, n - 1) \in Seq(Byte)
          /\ Countable(d \o Prefix(m, n))
      BY <1>3, Prefixes DEF N
    <3>3. Represents(f[n - 1], d \o Prefix(m, n - 1))
      BY <2>2
    <3>4. Represents(f[n], d \o Prefix(m, n))
      BY <3>1, <3>2, <3>3, AbsorbRepresents
    <3> QED
      BY <3>4
  <2> HIDE DEF T
  <2>3. \A n \in 0 .. N : n \in T
    BY <1>0, <2>1, <2>2, NumberInduction
  <2>4. N \in T
    BY <1>0, <2>3
  <2>5. d \o Prefix(m, N) = d \o m
    BY Prefixes DEF N
  <2> QED
    BY <2>4, <2>5 DEF T
<1>4. N \in 0 .. N
  BY <1>0
<1> QED
  BY <1>1, <1>2, <1>3, <1>4
-----------------------------------------------------------------------------
(* Open and closed contexts, and the calls of SHA256 that HMAC makes.      *)

IsOpen(c)   == c \in Context /\ c.hStatus = "OK" /\ c.hComplete = 0
IsClosed(c) == c \in Context /\ c.hStatus = "OK" /\ c.hComplete = 1

LEMMA NewIsOpen == IsOpen(NewContext) /\ Represents(NewContext, << >>)
  BY NewType, NewFields, NewRepresents DEF IsOpen

(* Every reset gives the same context. *)
LEMMA ResetIsNewContext ==
  ASSUME NEW c \in Context PROVE ResetContext(c) = NewContext
<1>1. ResetContext(c) \in Context /\ NewContext \in Context
  BY ResetType, NewType
<1>2. /\ ResetContext(c).mlen = 0 /\ ResetContext(c).i_hash = << >>
      /\ ResetContext(c).hStatus = "OK" /\ ResetContext(c).hComplete = 0
      /\ ResetContext(c).mbi = 0 /\ ResetContext(c).mb = ZeroBlock
  BY DEF ResetContext, Context
<1>3. /\ NewContext.mlen = 0 /\ NewContext.i_hash = << >>
      /\ NewContext.hStatus = "OK" /\ NewContext.hComplete = 0
      /\ NewContext.mbi = 0 /\ NewContext.mb = ZeroBlock
  BY DEF NewContext, ResetContext
<1> QED
  BY <1>1, <1>2, <1>3 DEF Context

LEMMA UpdatedOpen ==
  ASSUME NEW c, IsOpen(c), NEW m \in Seq(Byte)
  PROVE  /\ UpdateResult(c, m, Len(m)) = "OK"
         /\ IsOpen(Updated(c, m, Len(m)))
         /\ \A d \in Seq(Byte) : Represents(c, d) /\ Countable(d \o m)
              => Represents(Updated(c, m, Len(m)), d \o m)
<1>1. m # NULL
  BY HMACSHA256Assumption
<1>2. UpdateResult(c, m, Len(m)) = "OK"
  BY <1>1 DEF UpdateResult, IsOpen
<1>3. CASE Len(m) = 0
  <2>1. Updated(c, m, Len(m)) = c
    BY <1>3 DEF Updated
  <2>2. \A d \in Seq(Byte) : d \o m = d
    BY <1>3, EmptySeq, ConcatEmptySeq
  <2> QED
    BY <1>2, <2>1, <2>2
<1>4. CASE Len(m) # 0
  <2>1. Updated(c, m, Len(m)) = Absorbed(c, m)
    BY <1>1, <1>4 DEF Updated, IsOpen
  <2> QED
    BY <1>2, <2>1, AbsorbedEffect DEF IsOpen
<1> QED
  BY <1>3, <1>4

LEMMA PadMessageFields ==
  ASSUME NEW c \in Context
  PROVE  /\ FinaliseContext(c) \in Context
         /\ FinaliseContext(c).hStatus = c.hStatus
         /\ FinaliseContext(c).hComplete = 1
         /\ FinaliseContext(c).mb = ZeroBlock
  BY FinaliseType, FinaliseFields, PadMessageStatus

(* The digest of the data, in the words of module HMAC. *)
Sha(d) == FIPS!Sha(d)

LEMMA GapType == \A d : Gap(d) \in {0, 1}
  BY DEF Gap

(* Finalise pads the message held and closes the context. *)
LEMMA FinalisedOpen ==
  ASSUME NEW c, IsOpen(c), NEW d, d # NULL
  PROVE  /\ FinaliseResult(c, d) = "OK" /\ ResultResult(c, d) = "OK"
         /\ Answered(c, d) = Finalised(c, d)
         /\ IsClosed(Finalised(c, d))
         /\ \A m \in Seq(Byte) : Represents(c, m) =>
              /\ Finalised(c, d).i_hash = PaddedBlocks(m, Gap(m))
              /\ DigestOf(Finalised(c, d)) = Sha(m)
<1>1. /\ FinaliseResult(c, d) = "OK" /\ ResultResult(c, d) = "OK"
      /\ Finalised(c, d) = FinaliseContext(c)
      /\ Answered(c, d) = Finalised(c, d)
  BY DEF FinaliseResult, ResultResult, Finalised, Answered, IsOpen
<1>2. IsClosed(FinaliseContext(c))
  BY PadMessageFields DEF IsOpen, IsClosed
<1>3. ASSUME NEW m \in Seq(Byte), Represents(c, m)
      PROVE  /\ FinaliseContext(c).i_hash = PaddedBlocks(m, Gap(m))
             /\ DigestOf(FinaliseContext(c)) = Sha(m)
  <2>1. c \in Context /\ FinaliseContext(c) \in Context
    BY <1>2 DEF IsOpen, IsClosed
  <2>2. /\ FinaliseContext(c).i_hash \in Seq(Block)
        /\ FinaliseContext(c).i_hash = PadMessage(c, Octet[128]).i_hash
    BY <2>1, FinaliseFields DEF Context
  <2>3. IsPadded(FinaliseContext(c).i_hash, m, Gap(m))
    BY <1>3, <2>1, <2>2, PadMessagePads
  <2>4. FinaliseContext(c).i_hash = PaddedBlocks(m, Gap(m))
    BY <2>2, <2>3, GapType, PaddedUnique
  <2> QED
    BY <2>4 DEF DigestOf, Sha, FIPS!Sha, ShaByte
<1> QED
  BY <1>1, <1>2, <1>3
-----------------------------------------------------------------------------
(* Digests, key blocks and what is between them are bytes.                 *)

(* What is computed from bytes is a byte. *)
BytesAreBytes ==
  /\ \A x \in Byte : Xor(x, ipad) \in Byte /\ Xor(x, opad) \in Byte
  /\ \A bs \in Seq(Block), j \in 1 .. SHA256_HASH_SIZE : HashByte(bs, j) \in Byte

KeyBytes    == [1 .. HMAC_KEY_LENGTH -> Byte]
DigestBytes == [1 .. SHA256_HASH_SIZE -> Byte]

LEMMA Sizes ==
  /\ HMAC_KEY_LENGTH \in Nat /\ 0 < HMAC_KEY_LENGTH
  /\ SHA256_HASH_SIZE \in Nat /\ 0 < SHA256_HASH_SIZE /\ SHA256_HASH_SIZE <= HMAC_KEY_LENGTH
  /\ 8 * (HMAC_KEY_LENGTH + SHA256_HASH_SIZE) < LEN_MOD /\ LEN_MOD \in Nat
<1>1. HMAC_KEY_LENGTH \in Nat /\ 0 < HMAC_KEY_LENGTH /\ LEN_MOD \in Nat
  BY SizeAssumption DEF HMAC_KEY_LENGTH
<1>2. /\ SHA256_HASH_SIZE \in 1 .. HMAC_KEY_LENGTH
      /\ 8 * (HMAC_KEY_LENGTH + SHA256_HASH_SIZE) < LEN_MOD
  BY HMACSHA256Assumption
<1> HIDE DEF HMAC_KEY_LENGTH
<1> QED
  BY <1>1, <1>2

LEMMA FunctionsAreSequences ==
  /\ \A k \in KeyBytes : k \in Seq(Byte) /\ Len(k) = HMAC_KEY_LENGTH
  /\ \A b \in DigestBytes : b \in Seq(Byte) /\ Len(b) = SHA256_HASH_SIZE
<1>1. ASSUME NEW k \in KeyBytes PROVE k \in Seq(Byte) /\ Len(k) = HMAC_KEY_LENGTH
  <2> HIDE DEF HMAC_KEY_LENGTH
  <2> QED
    BY Sizes DEF KeyBytes
<1>2. ASSUME NEW b \in DigestBytes PROVE b \in Seq(Byte) /\ Len(b) = SHA256_HASH_SIZE
  BY Sizes DEF DigestBytes
<1> QED
  BY <1>1, <1>2

LEMMA ZeroTypes ==
  /\ ZeroBytes(HMAC_KEY_LENGTH) \in KeyBytes
  /\ ZeroBytes(SHA256_HASH_SIZE) \in DigestBytes
  BY ZeroBlockType DEF ZeroBytes, KeyBytes, DigestBytes

LEMMA DigestType ==
  ASSUME BytesAreBytes, NEW c \in Context PROVE DigestOf(c) \in DigestBytes
<1>1. c.i_hash \in Seq(Block)
  BY DEF Context
<1> QED
  BY <1>1 DEF DigestOf, DigestBytes, BytesAreBytes

LEMMA PaddedType ==
  ASSUME BytesAreBytes, NEW k \in KeyBytes
  PROVE  /\ Padded(k, ipad) \in KeyBytes /\ Padded(k, opad) \in KeyBytes
         /\ FIPS!Padded(k, ipad) = Padded(k, ipad) /\ FIPS!Padded(k, opad) = Padded(k, opad)
<1>1. Padded(k, ipad) \in KeyBytes /\ Padded(k, opad) \in KeyBytes
  BY DEF Padded, KeyBytes, BytesAreBytes
<1>2. FIPS!Padded(k, ipad) = Padded(k, ipad) /\ FIPS!Padded(k, opad) = Padded(k, opad)
  BY DEF FIPS!Padded, Padded
<1> QED
  BY <1>1, <1>2

(* Any message that can be counted has a digest: a new context that has    *)
(* taken it is finalised.                                                  *)
LEMMA DigestOfMessage ==
  ASSUME BytesAreBytes, NEW m \in Seq(Byte), Countable(m), NEW d, d # NULL
  PROVE  /\ DigestOf(Answered(Updated(NewContext, m, Len(m)), d)) = Sha(m)
         /\ Sha(m) \in DigestBytes
<1>1. << >> \in Seq(Byte) /\ << >> \o m = m
  BY ConcatEmptySeq
<1>2. IsOpen(Updated(NewContext, m, Len(m))) /\ Represents(Updated(NewContext, m, Len(m)), m)
  BY <1>1, NewIsOpen, UpdatedOpen
<1> DEFINE c == Updated(NewContext, m, Len(m))
<1> HIDE DEF c
<1>3. IsOpen(c) /\ Represents(c, m)
  BY <1>2 DEF c
<1>4. /\ Answered(c, d) = Finalised(c, d) /\ IsClosed(Finalised(c, d))
      /\ DigestOf(Finalised(c, d)) = Sha(m)
  BY <1>3, FinalisedOpen
<1>5. DigestOf(Finalised(c, d)) \in DigestBytes
  BY <1>4, DigestType DEF IsClosed
<1> QED
  BY <1>4, <1>5 DEF c

(* A key or its digest, and zeroes behind. *)
Filled(used) == [j \in 1 .. HMAC_KEY_LENGTH |-> IF j <= Len(used) THEN used[j] ELSE Zero]

LEMMA FilledIsConcat ==
  ASSUME NEW used \in Seq(Byte), Len(used) <= HMAC_KEY_LENGTH
  PROVE  /\ Filled(used) \in KeyBytes
         /\ Filled(used) = used \o FIPS!ZeroBytes(HMAC_KEY_LENGTH - Len(used))
         /\ Len(used) = HMAC_KEY_LENGTH => Filled(used) = used
<1> DEFINE B == HMAC_KEY_LENGTH
           n == B - Len(used)
           z == FIPS!ZeroBytes(n)
<1>1. B \in Nat /\ Len(used) \in Nat /\ n \in Nat /\ Zero \in Byte
  BY Sizes, ZeroBlockType
<1>2. z \in Seq(Byte) /\ Len(z) = n /\ \A j \in 1 .. n : z[j] = Zero
  <2>1. z \in [1 .. n -> Byte]
    BY <1>1 DEF FIPS!ZeroBytes
  <2> HIDE DEF n
  <2> QED
    BY <1>1, <2>1 DEF FIPS!ZeroBytes
<1>3. Filled(used) \in KeyBytes
  BY <1>1 DEF Filled, KeyBytes
<1>4. Filled(used) \in Seq(Byte) /\ Len(Filled(used)) = B
  BY <1>3, FunctionsAreSequences
<1>5. \A j \in 1 .. B : Filled(used)[j] = IF j <= Len(used) THEN used[j] ELSE Zero
  BY DEF Filled
<1> HIDE DEF z, B
<1>6. used \o z \in Seq(Byte) /\ Len(used \o z) = B
  BY <1>1, <1>2
<1>7. ASSUME NEW j \in 1 .. B PROVE Filled(used)[j] = (used \o z)[j]
  BY <1>1, <1>2, <1>5
<1>8. Filled(used) = used \o z
  BY <1>4, <1>6, <1>7, SeqEqual
<1>9. Len(used) = B => Filled(used) = used
  BY <1>1, <1>4, <1>5, SeqEqual
<1> QED
  BY <1>3, <1>8, <1>9 DEF z, B

(* The key block of FIPS 198-1. *)
Key0(ik) == FIPS!K0(ik)

LEMMA Key0Filled ==
  ASSUME BytesAreBytes, NEW ik \in Seq(Byte), Countable(ik)
  PROVE  /\ Len(ik) <= HMAC_KEY_LENGTH => Key0(ik) = Filled(ik)
         /\ Len(ik) > HMAC_KEY_LENGTH => Key0(ik) = Filled(Sha(ik))
         /\ Key0(ik) \in KeyBytes
<1>1. Sha(ik) \in Seq(Byte) /\ Len(Sha(ik)) = SHA256_HASH_SIZE
  <2>1. NULL # "k"
    BY HMACSHA256Assumption
  <2>2. Sha(ik) \in DigestBytes
    BY <2>1, DigestOfMessage
  <2> QED
    BY <2>2, FunctionsAreSequences
<1>2. Len(ik) \in Nat
  OBVIOUS
<1> HIDE DEF HMAC_KEY_LENGTH
<1>3. CASE Len(ik) = HMAC_KEY_LENGTH
  BY <1>2, <1>3, Sizes, FilledIsConcat DEF Key0, FIPS!K0
<1>4. CASE Len(ik) > HMAC_KEY_LENGTH
  <2>1. Key0(ik) = Sha(ik) \o FIPS!ZeroBytes(HMAC_KEY_LENGTH - SHA256_HASH_SIZE)
    BY <1>2, <1>4, Sizes DEF Key0, FIPS!K0, Sha
  <2>2. /\ Filled(Sha(ik)) \in KeyBytes
        /\ Filled(Sha(ik)) = Sha(ik) \o FIPS!ZeroBytes(HMAC_KEY_LENGTH - SHA256_HASH_SIZE)
    <3>1. /\ Filled(Sha(ik)) \in KeyBytes
          /\ Filled(Sha(ik)) = Sha(ik) \o FIPS!ZeroBytes(HMAC_KEY_LENGTH - Len(Sha(ik)))
      BY <1>1, Sizes, FilledIsConcat
    <3> QED
      BY <1>1, <3>1
  <2>3. ~(Len(ik) <= HMAC_KEY_LENGTH)
    BY <1>2, <1>4, Sizes
  <2> QED
    BY <2>1, <2>2, <2>3
<1>5. CASE Len(ik) < HMAC_KEY_LENGTH
  <2>1. Key0(ik) = ik \o FIPS!ZeroBytes(HMAC_KEY_LENGTH - Len(ik))
    BY <1>2, <1>5, Sizes DEF Key0, FIPS!K0
  <2>2. /\ Filled(ik) \in KeyBytes
        /\ Filled(ik) = ik \o FIPS!ZeroBytes(HMAC_KEY_LENGTH - Len(ik))
    BY <1>2, <1>5, Sizes, FilledIsConcat
  <2>3. ~(Len(ik) > HMAC_KEY_LENGTH)
    BY <1>2, <1>5, Sizes
  <2> QED
    BY <2>1, <2>2, <2>3
<1> QED
  BY <1>2, <1>3, <1>4, <1>5, Sizes
LEMMA KeyBlockIsKey0 ==
  ASSUME BytesAreBytes, NEW ik \in Seq(Byte), Countable(ik)
  PROVE  KeyBlock(ik, Len(ik)) = Key0(ik)
<1> DEFINE hashed == DigestOf(Answered(Updated(NewContext, ik, Len(ik)), "k"))
<1>1. NULL # "k" /\ Len(ik) \in Nat
  BY HMACSHA256Assumption
<1>2. hashed = Sha(ik) /\ Len(Sha(ik)) = SHA256_HASH_SIZE
  BY <1>1, DigestOfMessage, FunctionsAreSequences
<1>3. KeyBlock(ik, Len(ik)) =
        [j \in 1 .. HMAC_KEY_LENGTH |->
           IF Len(ik) <= HMAC_KEY_LENGTH THEN IF j <= Len(ik) THEN ik[j] ELSE Zero
           ELSE IF j <= SHA256_HASH_SIZE THEN hashed[j] ELSE Zero]
  BY DEF KeyBlock
<1> HIDE DEF hashed, HMAC_KEY_LENGTH
<1>4. CASE Len(ik) <= HMAC_KEY_LENGTH
  <2>1. KeyBlock(ik, Len(ik)) = Filled(ik)
    BY <1>3, <1>4 DEF Filled
  <2> QED
    BY <1>4, <2>1, Key0Filled
<1>5. CASE Len(ik) > HMAC_KEY_LENGTH
  <2>1. ~(Len(ik) <= HMAC_KEY_LENGTH)
    BY <1>1, <1>5, Sizes
  <2>2. KeyBlock(ik, Len(ik)) = Filled(Sha(ik))
    BY <1>2, <1>3, <2>1 DEF Filled
  <2> QED
    BY <1>5, <2>2, Key0Filled
<1> QED
  BY <1>1, <1>4, <1>5, Sizes

(* What the constructor makes of its arguments is the key block of a key   *)
(* that can be counted, whichever they are.                                *)
LEMMA KeyOfArguments ==
  ASSUME BytesAreBytes, NEW a \in KeyArguments
  PROVE  LET ik == EffectiveKey(a[1], a[2]) IN
         ik \in EffectiveKeys /\ KeyBlock(a[1], a[2]) = Key0(ik)
<1> DEFINE effective == EffectiveKey(a[1], a[2])
<1>1. effective \in EffectiveKeys
  BY DEF EffectiveKeys
<1>2. CASE a \in { << ik, Len(ik) >> : ik \in Keys }
  <2>1. PICK ik \in Keys : a = << ik, Len(ik) >>
    BY <1>2
  <2>2. ik \in Seq(Byte) /\ ik # NULL /\ Countable(ik)
    BY HMACSHA256Assumption DEF Countable
  <2>3. effective = ik
    BY <2>1, <2>2 DEF EffectiveKey
  <2> QED
    BY <1>1, <2>1, <2>2, <2>3, KeyBlockIsKey0
<1>3. << >> \in Seq(Byte) /\ Len(<< >>) = 0 /\ Countable(<< >>)
  BY SizeAssumption DEF Countable
<1>4. CASE a = << NULL, 0 >>
  <2>1. effective = << >>
    BY <1>4 DEF EffectiveKey
  <2>2. KeyBlock(NULL, 0) = Filled(<< >>)
    <3>1. \A j \in 1 .. HMAC_KEY_LENGTH : ~(j <= 0)
      OBVIOUS
    <3>2. 0 <= HMAC_KEY_LENGTH
      BY Sizes
    <3> HIDE DEF HMAC_KEY_LENGTH
    <3>3. KeyBlock(NULL, 0) = [j \in 1 .. HMAC_KEY_LENGTH |-> Zero]
      BY <3>1, <3>2 DEF KeyBlock
    <3>4. Filled(<< >>) = [j \in 1 .. HMAC_KEY_LENGTH |-> Zero]
      BY <1>3, <3>1 DEF Filled
    <3> QED
      BY <3>3, <3>4
  <2>3. Key0(<< >>) = Filled(<< >>)
    <3> DEFINE e == << >>
    <3>1. e \in Seq(Byte) /\ Len(e) = 0 /\ Countable(e)
      BY <1>3
    <3> HIDE DEF e
    <3>2. Len(e) <= HMAC_KEY_LENGTH
      BY <3>1, Sizes
    <3>3. Key0(e) = Filled(e)
      BY <3>1, <3>2, Key0Filled
    <3> QED
      BY <3>3 DEF e
  <2> QED
    BY <1>1, <1>4, <2>1, <2>2, <2>3
<1>5. CASE a = << NULL, HMAC_KEY_LENGTH + 1 >>
  <2> DEFINE long == HMAC_KEY_LENGTH + 1
             hashed == DigestOf(Answered(Updated(NewContext, NULL, long), "k"))
             empty == Sha(<< >>)
  <2>1. long # 0 /\ ~(long <= HMAC_KEY_LENGTH)
    BY Sizes
  <2> HIDE DEF long
  <2>2. effective = empty
    BY <1>5, <2>1 DEF EffectiveKey, Sha, FIPS!Sha, long
  <2>3. hashed = empty /\ empty \in DigestBytes
    <3>1. Updated(NewContext, NULL, long) = NewContext
      BY DEF Updated
    <3>2. Updated(NewContext, << >>, Len(<< >>)) = NewContext
      BY <1>3 DEF Updated
    <3>3. NULL # "k"
      BY HMACSHA256Assumption
    <3> DEFINE e == << >>
    <3>4. e \in Seq(Byte) /\ Countable(e)
      BY <1>3
    <3> HIDE DEF e
    <3>5. /\ DigestOf(Answered(Updated(NewContext, e, Len(e)), "k")) = Sha(e)
          /\ Sha(e) \in DigestBytes
      BY <3>3, <3>4, DigestOfMessage
    <3> QED
      BY <3>1, <3>2, <3>5 DEF e
  <2> HIDE DEF empty, effective
  <2>4. empty \in Seq(Byte) /\ Len(empty) = SHA256_HASH_SIZE /\ Countable(empty)
    <3>1. empty \in Seq(Byte) /\ Len(empty) = SHA256_HASH_SIZE
      BY <2>3, FunctionsAreSequences
    <3> QED
      BY <3>1, Sizes DEF Countable
  <2>5. KeyBlock(NULL, long) =
          [j \in 1 .. HMAC_KEY_LENGTH |->
             IF j <= SHA256_HASH_SIZE THEN hashed[j] ELSE Zero]
    BY <2>1 DEF KeyBlock
  <2>6. KeyBlock(NULL, long) = Filled(empty)
    BY <2>3, <2>4, <2>5 DEF Filled
  <2>7. Key0(empty) = Filled(empty)
    BY <2>4, Key0Filled, Sizes
  <2> QED
    BY <1>1, <1>5, <2>2, <2>6, <2>7 DEF long, effective
<1> QED
  BY <1>2, <1>4, <1>5 DEF KeyArguments

LEMMA EffectiveKeyFacts ==
  ASSUME BytesAreBytes, NEW ik \in EffectiveKeys
  PROVE  ik \in Seq(Byte) /\ Countable(ik) /\ Key0(ik) \in KeyBytes
         /\ KeyBlock(ik, Len(ik)) = Key0(ik)
<1>1. ik \in Seq(Byte) /\ Countable(ik)
  <2>1. PICK a \in KeyArguments : ik = EffectiveKey(a[1], a[2])
    BY DEF EffectiveKeys
  <2>2. << >> \in Seq(Byte) /\ Countable(<< >>)
    BY SizeAssumption DEF Countable
  <2>3. CASE a[1] # NULL
    <3>1. a[1] \in Keys
      BY <2>3 DEF KeyArguments
    <3> QED
      BY <2>1, <2>3, <3>1, HMACSHA256Assumption DEF EffectiveKey, Countable
  <2>4. CASE a[1] = NULL
    <3>1. CASE a[2] = 0
      BY <2>1, <2>2, <2>4, <3>1 DEF EffectiveKey
    <3>2. CASE a[2] # 0
      <4>1. ik = Sha(<< >>)
        BY <2>1, <2>4, <3>2 DEF EffectiveKey, Sha, FIPS!Sha
      <4>2. NULL # "k"
        BY HMACSHA256Assumption
      <4>3. ik \in DigestBytes
        BY <2>2, <4>1, <4>2, DigestOfMessage
      <4>4. ik \in Seq(Byte) /\ Len(ik) = SHA256_HASH_SIZE
        BY <4>3, FunctionsAreSequences
      <4> QED
        BY <4>4, Sizes DEF Countable
    <3> QED
      BY <3>1, <3>2
  <2> QED
    BY <2>3, <2>4
<1> QED
  BY <1>1, Key0Filled, KeyBlockIsKey0
-----------------------------------------------------------------------------
(* The object and its methods. *)

Object == [ hstate : { "INIT", "IPAD", "OPAD", "FIN", "INVALID" },
            ctx    : Context,
            k      : KeyBytes,
            buf    : DigestBytes ]

LEMMA ObjectEqual ==
  ASSUME NEW g \in Object, NEW h \in Object,
         g.hstate = h.hstate, g.ctx = h.ctx, g.k = h.k, g.buf = h.buf
  PROVE  g = h
  BY DEF Object

(* A context that was reset and has taken a block of the key. *)
Opened(k, pad) == Updated(NewContext, Padded(k, pad), HMAC_KEY_LENGTH)

LEMMA OpenedFacts ==
  ASSUME BytesAreBytes, NEW k \in KeyBytes, NEW pad \in { ipad, opad }
  PROVE  /\ UpdateResult(NewContext, Padded(k, pad), HMAC_KEY_LENGTH) = "OK"
         /\ IsOpen(Opened(k, pad))
         /\ Represents(Opened(k, pad), Padded(k, pad))
<1> DEFINE m == Padded(k, pad)
<1>1. m \in KeyBytes
  BY PaddedType
<1> HIDE DEF m
<1>2. m \in Seq(Byte) /\ Len(m) = HMAC_KEY_LENGTH
  BY <1>1, FunctionsAreSequences
<1>3. << >> \in Seq(Byte) /\ << >> \o m = m
  BY <1>2, ConcatEmptySeq
<1>4. Countable(m)
  BY <1>2, Sizes DEF Countable
<1>5. UpdateResult(NewContext, m, Len(m)) = "OK" /\ IsOpen(Updated(NewContext, m, Len(m)))
  BY <1>2, NewIsOpen, UpdatedOpen
<1>6. Represents(Updated(NewContext, m, Len(m)), m)
  BY <1>2, <1>3, <1>4, NewIsOpen, UpdatedOpen
<1> QED
  BY <1>2, <1>5, <1>6 DEF Opened, m

LEMMA ResetEffect ==
  ASSUME BytesAreBytes, NEW h \in Object
  PROVE  /\ ResetResult(h) = "OK"
         /\ ResetObject(h) \in Object
         /\ ResetObject(h).hstate = "IPAD"
         /\ ResetObject(h).ctx = Opened(h.k, ipad)
         /\ ResetObject(h).k = h.k
         /\ ResetObject(h).buf = ZeroBytes(SHA256_HASH_SIZE)
<1>1. h.ctx \in Context /\ h.k \in KeyBytes
  BY DEF Object
<1>2. ResetContext(h.ctx) = NewContext
  BY <1>1, ResetIsNewContext
<1>3. ResetResult(h) = "OK"
  BY <1>1, <1>2, OpenedFacts DEF ResetResult
<1>4. ResetObject(h) = [h EXCEPT !.ctx = Opened(h.k, ipad),
                                 !.buf = ZeroBytes(SHA256_HASH_SIZE), !.hstate = "IPAD"]
  BY <1>2, <1>3 DEF ResetObject, Opened
<1>5. Opened(h.k, ipad) \in Context
  BY <1>1, OpenedFacts DEF IsOpen
<1> QED
  BY <1>3, <1>4, <1>5, ZeroTypes DEF Object

LEMMA NewObjectEffect ==
  ASSUME BytesAreBytes, NEW ik, NEW ikl, KeyBlock(ik, ikl) \in KeyBytes
  PROVE  /\ NewObject(ik, ikl) \in Object
         /\ NewObject(ik, ikl).hstate = "IPAD"
         /\ NewObject(ik, ikl).ctx = Opened(KeyBlock(ik, ikl), ipad)
         /\ NewObject(ik, ikl).k = KeyBlock(ik, ikl)
         /\ NewObject(ik, ikl).buf = ZeroBytes(SHA256_HASH_SIZE)
<1> DEFINE raw == [hstate |-> "INIT", ctx |-> NewContext, k |-> KeyBlock(ik, ikl),
                   buf |-> ZeroBytes(SHA256_HASH_SIZE)]
<1>1. raw \in Object /\ raw.k = KeyBlock(ik, ikl)
  BY NewType, ZeroTypes DEF Object
<1>2. NewObject(ik, ikl) = ResetObject(raw)
  BY DEF NewObject
<1> HIDE DEF raw
<1> QED
  BY <1>1, <1>2, ResetEffect

(* The constructor opens the object for the key it made.                   *)
LEMMA ConstructorEffect ==
  ASSUME BytesAreBytes, NEW a \in KeyArguments
  PROVE  LET ik == EffectiveKey(a[1], a[2])
             h  == NewObject(a[1], a[2])
         IN  /\ ik \in EffectiveKeys
             /\ h \in Object /\ h.hstate = "IPAD" /\ h.k = Key0(ik)
             /\ h.ctx = Opened(Key0(ik), ipad)
             /\ h.buf = ZeroBytes(SHA256_HASH_SIZE)
<1> DEFINE ik == EffectiveKey(a[1], a[2])
<1>1. ik \in EffectiveKeys /\ KeyBlock(a[1], a[2]) = Key0(ik)
  BY KeyOfArguments
<1> HIDE DEF ik
<1>2. KeyBlock(a[1], a[2]) \in KeyBytes
  BY <1>1, EffectiveKeyFacts
<1>3. /\ NewObject(a[1], a[2]) \in Object /\ NewObject(a[1], a[2]).hstate = "IPAD"
      /\ NewObject(a[1], a[2]).ctx = Opened(Key0(ik), ipad)
      /\ NewObject(a[1], a[2]).k = Key0(ik)
      /\ NewObject(a[1], a[2]).buf = ZeroBytes(SHA256_HASH_SIZE)
  BY <1>1, <1>2, NewObjectEffect
<1> QED
  BY <1>1, <1>3 DEF ik

(* A store past mb changes no more than a byte of k or buf, and one into   *)
(* mb neither.                                                             *)
LEMMA TakenByteEffect ==
  ASSUME NEW h \in Object, NEW b \in Byte, NEW carriedOut \in BOOLEAN
  PROVE  LET g == TakenByte(h, b, carriedOut) IN
         /\ g \in Object /\ g.hstate = h.hstate
         /\ g.ctx = AbsorbByte(h.ctx, b)
         /\ h.ctx.mbi < MB_SIZE => g.k = h.k /\ g.buf = h.buf
<1> DEFINE at == h.ctx.mbi - MB_SIZE - Filler
           past == StoredPast(h, b)
           stored == IF h.ctx.mbi >= MB_SIZE /\ carriedOut THEN past ELSE h
<1>1. h.ctx \in Context /\ h.ctx.mbi \in Nat /\ MB_SIZE \in Nat
  BY SizeAssumption DEF Object, Context
<1>2. past \in Object /\ past.hstate = h.hstate /\ past.ctx = h.ctx
  <2>1. ASSUME NEW i PROVE [h.k EXCEPT ![i] = b] \in KeyBytes
    BY DEF Object, KeyBytes
  <2>2. ASSUME NEW i PROVE [h.buf EXCEPT ![i] = b] \in DigestBytes
    BY DEF Object, DigestBytes
  <2>3. \A i : /\ [h EXCEPT !.k[i] = b] \in Object
               /\ [h EXCEPT !.k[i] = b].hstate = h.hstate
               /\ [h EXCEPT !.k[i] = b].ctx = h.ctx
    BY <2>1 DEF Object
  <2>4. \A i : /\ [h EXCEPT !.buf[i] = b] \in Object
               /\ [h EXCEPT !.buf[i] = b].hstate = h.hstate
               /\ [h EXCEPT !.buf[i] = b].ctx = h.ctx
    BY <2>2 DEF Object
  <2> QED
    BY <2>3, <2>4 DEF StoredPast
<1> HIDE DEF past
<1>3. stored \in Object /\ stored.hstate = h.hstate /\ stored.ctx = h.ctx
  BY <1>2
<1>4. h.ctx.mbi < MB_SIZE => stored = h
  BY <1>1
<1>5. TakenByte(h, b, carriedOut) = [stored EXCEPT !.ctx = AbsorbByte(@, b)]
  BY DEF TakenByte, past
<1> HIDE DEF stored
<1>6. AbsorbByte(h.ctx, b) \in Context
  BY <1>1, AbsorbByteType
<1> QED
  BY <1>3, <1>4, <1>5, <1>6 DEF Object
LEMMA TakenByByte ==
  ASSUME NEW h \in Object, NEW m \in Seq(Byte), NEW carriedOut \in BOOLEAN
  PROVE  \E f : /\ \A n \in 0 .. Len(m) : f[n] \in Object
                /\ f[0] = h
                /\ \A n \in 1 .. Len(m) : f[n] = TakenByte(f[n - 1], m[n], carriedOut)
                /\ TakenBytes(h, m, carriedOut) = f[Len(m)]
<1> DEFINE N == Len(m)
           F(f) == [n \in 0 .. N |->
                      IF n = 0 THEN h ELSE TakenByte(f[n - 1], m[n], carriedOut)]
           G == [p \in (1 .. N) \X Object |-> TakenByte(p[2], m[p[1]], carriedOut)]
           after == CHOOSE f : f = F(f)
<1>0. N \in Nat /\ \A n \in 1 .. N : m[n] \in Byte
  OBVIOUS
<1>1. G \in StepFunctions(Object, N)
  BY <1>0, TakenByteEffect DEF StepFunctions
<1>2. \A n \in 1 .. N, x \in Object : G[<< n, x >>] = TakenByte(x, m[n], carriedOut)
  OBVIOUS
<1> HIDE DEF G, N
<1>3. PICK f : Values(f, Object, N, h, G)
  BY <1>0, <1>1, Recursion
<1>4. f = F(f)
  <2>1. ASSUME NEW n \in 0 .. N
        PROVE  f[n] = IF n = 0 THEN h ELSE TakenByte(f[n - 1], m[n], carriedOut)
    <3>1. CASE n = 0
      BY <1>3, <3>1 DEF Values
    <3>2. CASE n \in 1 .. N
      <4>1. n # 0 /\ f[n] = G[<< n, f[n - 1] >>] /\ f[n - 1] \in Object
        BY <1>0, <1>3, <3>2 DEF Values
      <4> QED
        BY <1>2, <3>2, <4>1, Zenon
    <3> QED
      BY <1>0, <3>1, <3>2
  <2>2. f = [n \in 0 .. N |-> f[n]]
    BY <1>3 DEF Values
  <2> QED
    BY <2>1, <2>2
<1>5. after = F(after)
  BY <1>4, Zenon
<1>6. TakenBytes(h, m, carriedOut) = after[N]
  BY DEF TakenBytes, N
<1> HIDE DEF after
<1>7. /\ after[0] = h
      /\ \A n \in 1 .. N : after[n] = TakenByte(after[n - 1], m[n], carriedOut)
  <2>1. \A n \in 0 .. N :
          F(after)[n] = IF n = 0 THEN h ELSE TakenByte(after[n - 1], m[n], carriedOut)
    OBVIOUS
  <2> HIDE DEF F
  <2>2. \A n \in 0 .. N :
          after[n] = IF n = 0 THEN h ELSE TakenByte(after[n - 1], m[n], carriedOut)
    BY <1>5, <2>1, Zenon
  <2> QED
    BY <1>0, <2>2
<1>8. \A n \in 0 .. N : after[n] \in Object
  <2>1. \A n \in 1 .. N : after[n - 1] \in Object => after[n] \in Object
    BY <1>0, <1>7, TakenByteEffect
  <2> QED
    BY <1>0, <1>7, <2>1, MembersByRecursion
<1> QED
  BY <1>6, <1>7, <1>8, Zenon DEF N

(* Whatever is written leaves an object with its state and with ctx open,  *)
(* and what can be counted leaves k and buf alone.                         *)
LEMMA TakenEffect ==
  ASSUME NEW h \in Object, NEW m \in Seq(Byte), NEW carriedOut \in BOOLEAN, IsOpen(h.ctx)
  PROVE  LET g == TakenBytes(h, m, carriedOut) IN
         /\ g \in Object /\ g.hstate = h.hstate /\ IsOpen(g.ctx)
         /\ \A d \in Seq(Byte) : Represents(h.ctx, d) /\ Countable(d \o m)
              => Represents(g.ctx, d \o m) /\ g.k = h.k /\ g.buf = h.buf
<1> DEFINE N == Len(m)
           g == TakenBytes(h, m, carriedOut)
<1>0. N \in Nat /\ \A n \in 1 .. N : m[n] \in Byte
  OBVIOUS
<1>1. PICK f : /\ \A n \in 0 .. N : f[n] \in Object
               /\ f[0] = h
               /\ \A n \in 1 .. N : f[n] = TakenByte(f[n - 1], m[n], carriedOut)
               /\ g = f[N]
  BY TakenByByte
<1> HIDE DEF N, g
<1>2. ASSUME NEW n \in 1 .. N
      PROVE  /\ f[n - 1] \in Object /\ f[n - 1].ctx \in Context
             /\ f[n].hstate = f[n - 1].hstate
             /\ f[n].ctx = AbsorbByte(f[n - 1].ctx, m[n])
             /\ f[n].ctx.hStatus = f[n - 1].ctx.hStatus
             /\ f[n].ctx.hComplete = f[n - 1].ctx.hComplete
             /\ f[n - 1].ctx.mbi < MB_SIZE => f[n].k = f[n - 1].k /\ f[n].buf = f[n - 1].buf
  <2>1. f[n - 1] \in Object /\ f[n] = TakenByte(f[n - 1], m[n], carriedOut) /\ m[n] \in Byte
    BY <1>0, <1>1
  <2>2. f[n - 1].ctx \in Context
    BY <2>1 DEF Object
  <2>3. /\ f[n].hstate = f[n - 1].hstate
        /\ f[n].ctx = AbsorbByte(f[n - 1].ctx, m[n])
        /\ f[n - 1].ctx.mbi < MB_SIZE => f[n].k = f[n - 1].k /\ f[n].buf = f[n - 1].buf
    BY <2>1, TakenByteEffect
  <2> QED
    BY <2>1, <2>2, <2>3, AbsorbFields
<1>3. \A n \in 0 .. N :
        f[n].hstate = h.hstate /\ f[n].ctx.hStatus = "OK" /\ f[n].ctx.hComplete = 0
  <2> DEFINE T == { n \in 0 .. N : /\ f[n].hstate = h.hstate
                                   /\ f[n].ctx.hStatus = "OK" /\ f[n].ctx.hComplete = 0 }
  <2>1. 0 \in T
    BY <1>0, <1>1 DEF IsOpen
  <2>2. ASSUME NEW n \in 1 .. N, n - 1 \in T PROVE n \in T
    BY <1>2, <2>2
  <2> HIDE DEF T
  <2>3. \A n \in 0 .. N : n \in T
    BY <1>0, <2>1, <2>2, NumberInduction
  <2> QED
    BY <2>3 DEF T
<1>4. ASSUME NEW d \in Seq(Byte), Represents(h.ctx, d), Countable(d \o m)
      PROVE  Represents(f[N].ctx, d \o m) /\ f[N].k = h.k /\ f[N].buf = h.buf
  <2> DEFINE T == { n \in 0 .. N : /\ Represents(f[n].ctx, d \o Prefix(m, n))
                                   /\ f[n].k = h.k /\ f[n].buf = h.buf }
  <2>1. 0 \in T
    <3>1. d \o Prefix(m, 0) = d /\ 0 \in 0 .. N
      BY <1>0, Prefixes
    <3> QED
      BY <1>1, <1>4, <3>1
  <2>2. ASSUME NEW n \in 1 .. N, n - 1 \in T PROVE n \in T
    <3>1. /\ d \o Prefix(m, n) = Append(d \o Prefix(m, n - 1), m[n])
          /\ d \o Prefix(m, n - 1) \in Seq(Byte)
          /\ Countable(d \o Prefix(m, n))
      BY <1>4, Prefixes DEF N
    <3>2. /\ Represents(f[n - 1].ctx, d \o Prefix(m, n - 1))
          /\ f[n - 1].k = h.k /\ f[n - 1].buf = h.buf
      BY <2>2
    <3>3. Represents(f[n].ctx, d \o Prefix(m, n))
      BY <1>0, <1>2, <3>1, <3>2, AbsorbRepresents
    <3>4. f[n - 1].ctx.mbi < MB_SIZE
      BY <3>2 DEF Represents
    <3> QED
      BY <1>2, <3>2, <3>3, <3>4
  <2> HIDE DEF T
  <2>3. \A n \in 0 .. N : n \in T
    BY <1>0, <2>1, <2>2, NumberInduction
  <2>4. N \in T
    BY <1>0, <2>3
  <2>5. d \o Prefix(m, N) = d \o m
    BY Prefixes DEF N
  <2> QED
    BY <2>4, <2>5 DEF T
<1>5. N \in 0 .. N
  BY <1>0
<1>6. g \in Object /\ g.ctx \in Context
  BY <1>1, <1>5 DEF Object
<1> QED
  BY <1>1, <1>3, <1>4, <1>5, <1>6 DEF IsOpen, g
LEMMA UpdateCallEffect ==
  ASSUME NEW h \in Object, IsOpen(h.ctx), NEW m \in Seq(Byte), NEW carriedOut
  PROVE  h.hstate = "IPAD" =>
           UpdateCall(h, m, Len(m), carriedOut) = Done(TakenBytes(h, m, carriedOut), "OK")
<1>1. m # NULL /\ UpdateResult(h.ctx, m, Len(m)) = "OK"
  BY UpdatedOpen, HMACSHA256Assumption
<1> QED
  BY <1>1 DEF UpdateCall

(* finalResult finishes an open object, whatever ctx holds, and if ctx     *)
(* holds the message d, with the digests of both passes over it.           *)
LEMMA FinishEffect ==
  ASSUME BytesAreBytes, NEW h \in Object, IsOpen(h.ctx)
  PROVE  LET end == FinishCall(h) IN
         /\ end.check = TRUE /\ end.res = "OK"
         /\ end.obj \in Object /\ end.obj.hstate = "FIN" /\ end.obj.k = h.k
         /\ IsClosed(end.obj.ctx)
         /\ \A d \in Seq(Byte) : Represents(h.ctx, d) =>
              LET e == Padded(h.k, opad) \o Sha(d) IN
              /\ end.obj.ctx.i_hash = PaddedBlocks(e, Gap(e))
              /\ end.obj.buf = Sha(e)
<1> DEFINE inner  == Answered(h.ctx, "buf")
           outer  == Padded(h.k, opad)
           first  == DigestOf(inner)
           opened == [h EXCEPT !.ctx = ResetContext(inner), !.buf = first]
           keyed  == [opened EXCEPT !.ctx = Updated(@, outer, HMAC_KEY_LENGTH), !.hstate = "OPAD"]
           taken  == [keyed EXCEPT !.ctx = Updated(@, keyed.buf, SHA256_HASH_SIZE)]
           closed == Finalised(taken.ctx, "buf")
           last   == [taken EXCEPT !.ctx = closed, !.buf = DigestOf(closed), !.hstate = "FIN"]
<1>0. NULL # "buf" /\ h.k \in KeyBytes
  BY HMACSHA256Assumption DEF Object
<1>1. /\ ResultResult(h.ctx, "buf") = "OK" /\ IsClosed(inner)
      /\ \A d \in Seq(Byte) : Represents(h.ctx, d) => first = Sha(d)
  BY <1>0, FinalisedOpen
<1>2. first \in DigestBytes /\ ResetContext(inner) = NewContext
  BY <1>1, DigestType, ResetIsNewContext DEF IsClosed
<1> HIDE DEF inner, first
<1>3. first \in Seq(Byte) /\ Len(first) = SHA256_HASH_SIZE
  BY <1>2, FunctionsAreSequences
<1>4. outer \in Seq(Byte) /\ Len(outer) = HMAC_KEY_LENGTH
  BY <1>0, PaddedType, FunctionsAreSequences
<1>5. opened \in Object /\ opened.ctx = NewContext /\ opened.k = h.k /\ opened.buf = first
  BY <1>2, NewType DEF Object
<1>6. /\ UpdateResult(opened.ctx, outer, HMAC_KEY_LENGTH) = "OK"
      /\ Updated(opened.ctx, outer, HMAC_KEY_LENGTH) = Opened(h.k, opad)
      /\ IsOpen(Opened(h.k, opad)) /\ Represents(Opened(h.k, opad), outer)
  BY <1>0, <1>5, OpenedFacts DEF Opened
<1> HIDE DEF opened, outer
<1>7. keyed \in Object /\ keyed.ctx = Opened(h.k, opad) /\ keyed.k = h.k /\ keyed.buf = first
  BY <1>5, <1>6 DEF Object, IsOpen
<1> HIDE DEF keyed
<1>8. UpdateResult(keyed.ctx, keyed.buf, SHA256_HASH_SIZE) = "OK"
  BY <1>3, <1>6, <1>7, UpdatedOpen
<1> DEFINE c == Updated(Opened(h.k, opad), first, SHA256_HASH_SIZE)
<1>9. IsOpen(c) /\ Represents(c, outer \o first)
  <2>1. Countable(outer \o first)
    <3>1. Len(outer \o first) = HMAC_KEY_LENGTH + SHA256_HASH_SIZE
      BY <1>3, <1>4, ConcatProperties
    <3> QED
      BY <3>1, Sizes DEF Countable
  <2>2. /\ IsOpen(Updated(Opened(h.k, opad), first, Len(first)))
        /\ Represents(Updated(Opened(h.k, opad), first, Len(first)), outer \o first)
    BY <1>3, <1>4, <1>6, <2>1, UpdatedOpen
  <2> QED
    BY <1>3, <2>2
<1> HIDE DEF c
<1>10. taken \in Object /\ taken.ctx = c /\ taken.k = h.k
  BY <1>7, <1>9 DEF Object, IsOpen, c
<1> HIDE DEF taken
<1>11. /\ FinaliseResult(taken.ctx, "buf") = "OK" /\ IsClosed(closed)
       /\ closed.i_hash = PaddedBlocks(outer \o first, Gap(outer \o first))
       /\ DigestOf(closed) = Sha(outer \o first)
  <2>1. outer \o first \in Seq(Byte)
    BY <1>3, <1>4, ConcatProperties
  <2>2. IsOpen(taken.ctx) /\ Represents(taken.ctx, outer \o first)
    BY <1>9, <1>10
  <2> QED
    BY <1>0, <2>1, <2>2, FinalisedOpen
<1>12. DigestOf(closed) \in DigestBytes
  BY <1>11, DigestType DEF IsClosed
<1> HIDE DEF closed
<1>13. /\ last \in Object /\ last.hstate = "FIN" /\ last.k = h.k /\ last.ctx = closed
       /\ last.buf = DigestOf(closed)
  BY <1>10, <1>11, <1>12 DEF Object, IsClosed
<1> HIDE DEF last
<1>14. FinishCall(h) = Done(last, "OK")
  <2>1. FinishCall(h) =
          IF ResultResult(h.ctx, "buf") # "OK" THEN Spoilt(h, "InvalidState")
          ELSE IF UpdateResult(opened.ctx, outer, HMAC_KEY_LENGTH) # "OK"
          THEN Spoilt(opened, UpdateResult(opened.ctx, outer, HMAC_KEY_LENGTH))
          ELSE IF UpdateResult(keyed.ctx, keyed.buf, SHA256_HASH_SIZE) # "OK"
          THEN Spoilt(keyed, UpdateResult(keyed.ctx, keyed.buf, SHA256_HASH_SIZE))
          ELSE IF FinaliseResult(taken.ctx, "buf") # "OK"
          THEN Spoilt(taken, FinaliseResult(taken.ctx, "buf"))
          ELSE Done(last, "OK")
    BY DEF FinishCall, inner, outer, first, opened, keyed, taken, closed, last
  <2> QED
    BY <1>1, <1>6, <1>8, <1>11, <2>1
<1>15. FinishCall(h).check = TRUE /\ FinishCall(h).res = "OK" /\ FinishCall(h).obj = last
  BY <1>14 DEF Done
<1>16. ASSUME NEW d \in Seq(Byte), Represents(h.ctx, d)
       PROVE  /\ last.ctx.i_hash = PaddedBlocks(outer \o Sha(d), Gap(outer \o Sha(d)))
              /\ last.buf = Sha(outer \o Sha(d))
  <2>1. first = Sha(d)
    BY <1>1, <1>16
  <2> QED
    BY <1>11, <1>13, <2>1
<1> QED
  BY <1>11, <1>13, <1>15, <1>16 DEF outer
-----------------------------------------------------------------------------
(* An object between two calls is open or closed; while every byte was     *)
(* counted it holds the data of its key and of what was written.           *)

Inner(ik, d) == Padded(Key0(ik), ipad) \o d
Outer(ik, d) == Padded(Key0(ik), opad) \o Sha(Inner(ik, d))

BetweenCalls(h) ==
  \/ h.hstate = "IPAD" /\ IsOpen(h.ctx)
  \/ h.hstate = "FIN" /\ IsClosed(h.ctx)

Holds(h, ik, d) ==
  /\ h.k = Key0(ik)
  /\ Countable(Inner(ik, d))
  /\ h.hstate = "IPAD" => Represents(h.ctx, Inner(ik, d))
  /\ h.hstate = "FIN" => /\ h.ctx.i_hash = PaddedBlocks(Outer(ik, d), Gap(Outer(ik, d)))
                         /\ h.buf = Sha(Outer(ik, d))

LEMMA InnerFacts ==
  ASSUME BytesAreBytes, NEW ik \in EffectiveKeys, NEW d \in Seq(Byte)
  PROVE  /\ Inner(ik, d) \in Seq(Byte)
         /\ Len(Inner(ik, d)) = HMAC_KEY_LENGTH + Len(d)
         /\ Inner(ik, << >>) = Padded(Key0(ik), ipad)
         /\ Countable(Inner(ik, << >>))
         /\ \A m \in Seq(Byte) : Inner(ik, d) \o m = Inner(ik, d \o m)
<1> DEFINE p == Padded(Key0(ik), ipad)
<1>1. p \in Seq(Byte) /\ Len(p) = HMAC_KEY_LENGTH
  BY EffectiveKeyFacts, PaddedType, FunctionsAreSequences
<1> HIDE DEF p
<1>2. p \o d \in Seq(Byte) /\ Len(p \o d) = HMAC_KEY_LENGTH + Len(d)
  BY <1>1, ConcatProperties
<1>3. p \o << >> = p
  BY <1>1, ConcatEmptySeq
<1>4. \A m \in Seq(Byte) : (p \o d) \o m = p \o (d \o m)
  BY <1>1, ConcatAssociative, SMTT(30)
<1>5. Countable(p)
  BY <1>1, Sizes DEF Countable
<1> QED
  BY <1>1, <1>2, <1>3, <1>4, <1>5 DEF Inner, p

(* The same data in the words of module HMAC. *)
LEMMA SameAsFIPS ==
  ASSUME BytesAreBytes, NEW ik \in EffectiveKeys
  PROVE  /\ FIPS!Padded(FIPS!K0(ik), ipad) = Padded(Key0(ik), ipad)
         /\ FIPS!Padded(FIPS!K0(ik), opad) = Padded(Key0(ik), opad)
         /\ \A d : FIPS!MAC(ik, d) = Sha(Outer(ik, d))
<1>1. /\ FIPS!Padded(FIPS!K0(ik), ipad) = Padded(Key0(ik), ipad)
      /\ FIPS!Padded(FIPS!K0(ik), opad) = Padded(Key0(ik), opad)
  BY EffectiveKeyFacts, PaddedType DEF Key0
<1>2. ipad = "ipad" /\ opad = "opad" /\ FIPS!ipad = "ipad" /\ FIPS!opad = "opad"
  BY DEF ipad, opad, FIPS!ipad, FIPS!opad
<1>3. ASSUME NEW d PROVE FIPS!MAC(ik, d) = Sha(Outer(ik, d))
  <2>1. FIPS!MAC(ik, d) = FIPS!Sha(FIPS!Padded(FIPS!K0(ik), FIPS!opad)
                                   \o FIPS!Sha(FIPS!Padded(FIPS!K0(ik), FIPS!ipad) \o d))
    BY DEF FIPS!MAC
  <2> QED
    BY <1>1, <1>2, <2>1 DEF Sha, Outer, Inner
<1> QED
  BY <1>1, <1>3

LEMMA NewHolds ==
  ASSUME BytesAreBytes, NEW a \in KeyArguments
  PROVE  LET h  == NewObject(a[1], a[2])
             ik == EffectiveKey(a[1], a[2])
         IN  /\ h \in Object /\ h.hstate = "IPAD" /\ ik \in EffectiveKeys
             /\ BetweenCalls(h) /\ Holds(h, ik, << >>)
<1> DEFINE h  == NewObject(a[1], a[2])
           ik == EffectiveKey(a[1], a[2])
<1>1. /\ ik \in EffectiveKeys /\ h \in Object /\ h.hstate = "IPAD" /\ h.k = Key0(ik)
      /\ h.ctx = Opened(Key0(ik), ipad)
  BY ConstructorEffect
<1> HIDE DEF h, ik
<1>2. IsOpen(h.ctx) /\ Represents(h.ctx, Padded(Key0(ik), ipad))
  BY <1>1, EffectiveKeyFacts, OpenedFacts
<1>3. /\ Inner(ik, << >>) = Padded(Key0(ik), ipad)
      /\ Countable(Inner(ik, << >>))
  <2>1. << >> \in Seq(Byte)
    OBVIOUS
  <2> QED
    BY <1>1, <2>1, InnerFacts
<1>4. BetweenCalls(h) /\ Holds(h, ik, << >>)
  BY <1>1, <1>2, <1>3 DEF BetweenCalls, Holds
<1> QED
  BY <1>1, <1>4 DEF h, ik

LEMMA ResetHolds ==
  ASSUME BytesAreBytes, NEW h \in Object
  PROVE  LET g == ResetObject(h) IN
         /\ g \in Object /\ g.hstate = "IPAD" /\ BetweenCalls(g)
         /\ \A ik \in EffectiveKeys : h.k = Key0(ik) => Holds(g, ik, << >>)
<1> DEFINE g == ResetObject(h)
<1>1. g \in Object /\ g.hstate = "IPAD" /\ g.ctx = Opened(h.k, ipad) /\ g.k = h.k
  BY ResetEffect
<1> HIDE DEF g
<1>2. IsOpen(g.ctx) /\ Represents(g.ctx, Padded(h.k, ipad))
  <2>1. h.k \in KeyBytes
    BY DEF Object
  <2> QED
    BY <1>1, <2>1, OpenedFacts
<1>3. ASSUME NEW ik \in EffectiveKeys, h.k = Key0(ik) PROVE Holds(g, ik, << >>)
  <2>1. << >> \in Seq(Byte)
    OBVIOUS
  <2>2. /\ Inner(ik, << >>) = Padded(Key0(ik), ipad)
        /\ Countable(Inner(ik, << >>))
    BY <2>1, InnerFacts
  <2> QED
    BY <1>1, <1>2, <1>3, <2>2 DEF Holds
<1>4. BetweenCalls(g)
  BY <1>1, <1>2 DEF BetweenCalls
<1> QED
  BY <1>1, <1>3, <1>4 DEF g

LEMMA TakenHolds ==
  ASSUME BytesAreBytes, NEW h \in Object, h.hstate = "IPAD", BetweenCalls(h),
         NEW m \in Seq(Byte), NEW carriedOut \in BOOLEAN
  PROVE  LET g == TakenBytes(h, m, carriedOut) IN
         /\ UpdateCall(h, m, Len(m), carriedOut) = Done(g, "OK")
         /\ g \in Object /\ g.hstate = "IPAD" /\ BetweenCalls(g)
         /\ \A ik \in EffectiveKeys, d \in Seq(Byte) :
              Holds(h, ik, d) /\ Countable(Inner(ik, d \o m)) => Holds(g, ik, d \o m)
<1> DEFINE g == TakenBytes(h, m, carriedOut)
<1>1. IsOpen(h.ctx)
  BY DEF BetweenCalls
<1>2. UpdateCall(h, m, Len(m), carriedOut) = Done(g, "OK")
  BY <1>1, UpdateCallEffect
<1>3. /\ g \in Object /\ g.hstate = h.hstate /\ IsOpen(g.ctx)
      /\ \A d \in Seq(Byte) : Represents(h.ctx, d) /\ Countable(d \o m)
           => Represents(g.ctx, d \o m) /\ g.k = h.k /\ g.buf = h.buf
  BY <1>1, TakenEffect
<1> HIDE DEF g
<1>4. ASSUME NEW ik \in EffectiveKeys, NEW d \in Seq(Byte),
             Holds(h, ik, d), Countable(Inner(ik, d \o m))
      PROVE  Holds(g, ik, d \o m)
  <2>1. Inner(ik, d) \in Seq(Byte) /\ Inner(ik, d) \o m = Inner(ik, d \o m)
    BY InnerFacts
  <2>2. Represents(g.ctx, Inner(ik, d \o m)) /\ g.k = h.k
    BY <1>3, <1>4, <2>1 DEF Holds
  <2> QED
    BY <1>3, <1>4, <2>2 DEF Holds
<1>5. BetweenCalls(g)
  BY <1>3 DEF BetweenCalls
<1> QED
  BY <1>2, <1>3, <1>4, <1>5 DEF g

LEMMA FinishHolds ==
  ASSUME BytesAreBytes, NEW h \in Object, h.hstate = "IPAD", BetweenCalls(h)
  PROVE  LET end == FinishCall(h) IN
         /\ end.check = TRUE /\ end.res = "OK"
         /\ end.obj \in Object /\ end.obj.hstate = "FIN" /\ BetweenCalls(end.obj)
         /\ \A ik \in EffectiveKeys, d \in Seq(Byte) :
              Holds(h, ik, d) => Holds(end.obj, ik, d)
<1> DEFINE end == FinishCall(h)
<1>1. IsOpen(h.ctx)
  BY DEF BetweenCalls
<1>2. /\ end.check = TRUE /\ end.res = "OK"
      /\ end.obj \in Object /\ end.obj.hstate = "FIN" /\ end.obj.k = h.k
      /\ IsClosed(end.obj.ctx)
      /\ \A d \in Seq(Byte) : Represents(h.ctx, d) =>
           LET e == Padded(h.k, opad) \o Sha(d) IN
           /\ end.obj.ctx.i_hash = PaddedBlocks(e, Gap(e))
           /\ end.obj.buf = Sha(e)
  BY <1>1, FinishEffect
<1> HIDE DEF end
<1>3. ASSUME NEW ik \in EffectiveKeys, NEW d \in Seq(Byte), Holds(h, ik, d)
      PROVE  Holds(end.obj, ik, d)
  <2>1. Inner(ik, d) \in Seq(Byte)
    BY InnerFacts
  <2>2. h.k = Key0(ik) /\ Represents(h.ctx, Inner(ik, d)) /\ Countable(Inner(ik, d))
    BY <1>3 DEF Holds
  <2>3. Padded(h.k, opad) \o Sha(Inner(ik, d)) = Outer(ik, d)
    BY <2>2 DEF Outer
  <2> QED
    BY <1>2, <2>1, <2>2, <2>3 DEF Holds
<1>4. BetweenCalls(end.obj)
  BY <1>2 DEF BetweenCalls
<1> QED
  BY <1>2, <1>3, <1>4 DEF end
-----------------------------------------------------------------------------
(* The inductive invariant. *)

Typed ==
  /\ hmac \in Object
  /\ key \in EffectiveKeys /\ data \in Seq(Byte)
  /\ sound \in BOOLEAN /\ ndebug \in BOOLEAN

Inductive ==
  /\ Typed
  /\ pc = "idle" => BetweenCalls(hmac) /\ (sound => Holds(hmac, key, data))
  /\ NothingLeft
  /\ OneShotInv

LEMMA InitEstablishes == Init => Inductive
<1> SUFFICES ASSUME Init PROVE Inductive
  OBVIOUS
<1>1. hmac \in Object
  BY NewType, ZeroTypes DEF Init, Object
<1>2. << NULL, 0 >> \in KeyArguments /\ EffectiveKey(NULL, 0) = << >>
  BY DEF KeyArguments, EffectiveKey
<1>3. << >> \in EffectiveKeys
  <2>1. PICK a \in KeyArguments : a[1] = NULL /\ a[2] = 0
    BY <1>2
  <2> QED
    BY <1>2, <2>1 DEF EffectiveKeys
<1>4. Typed
  BY <1>1, <1>3 DEF Init, Typed
<1>5. NothingLeft
  BY DEF Init, NothingLeft, NewContext, ResetContext
<1>6. OneShotInv
  BY DEF Init, OneShotInv
<1> QED
  BY <1>4, <1>5, <1>6 DEF Init, Inductive

(* A step that leaves what ComputeHMAC returned alone. *)
LEMMA OneShotKept ==
  OneShotInv /\ ndebug' = ndebug /\ (oneShot' = oneShot \/ oneShot' = NoShot) => OneShotInv'
<1> SUFFICES ASSUME OneShotInv, ndebug' = ndebug, oneShot' = oneShot \/ oneShot' = NoShot
             PROVE  OneShotInv'
  OBVIOUS
<1>1. CASE oneShot' = NoShot
  BY <1>1 DEF OneShotInv
<1>2. CASE oneShot' = oneShot
  BY <1>2, Zenon DEF OneShotInv
<1> QED
  BY <1>1, <1>2

LEMMA ConstructKeeps ==
  ASSUME BytesAreBytes, Inductive, NEW a \in KeyArguments, Construct(a[1], a[2])
  PROVE  Inductive'
<1> DEFINE h  == NewObject(a[1], a[2])
           ik == EffectiveKey(a[1], a[2])
<1>1. /\ h \in Object /\ h.hstate = "IPAD" /\ ik \in EffectiveKeys
      /\ BetweenCalls(h) /\ Holds(h, ik, << >>)
  BY NewHolds
<1>2. /\ pc' = "idle" /\ hmac' = h /\ key' = ik /\ data' = << >> /\ sound' = TRUE
      /\ oneShot' = NoShot /\ ndebug' = ndebug
  BY DEF Construct
<1> HIDE DEF h, ik
<1>3. Typed'
  BY <1>1, <1>2 DEF Inductive, Typed
<1>4. BetweenCalls(hmac') /\ Holds(hmac', key', data')
  BY <1>1, <1>2
<1>5. OneShotInv'
  BY <1>2, OneShotKept DEF Inductive
<1>6. NothingLeft'
  BY <1>2 DEF NothingLeft
<1> QED
  BY <1>3, <1>4, <1>5, <1>6 DEF Inductive

LEMMA DestroyKeeps ==
  ASSUME BytesAreBytes, Inductive, Destroy
  PROVE  Inductive'
<1> DEFINE g == ResetObject(hmac)
<1>1. /\ pc' = "none" /\ hmac' = DestroyedObject(hmac) /\ key' = key /\ data' = data
      /\ sound' = sound /\ oneShot' = oneShot /\ ndebug' = ndebug
  BY DEF Destroy
<1>2. hmac \in Object
  BY DEF Inductive, Typed
<1>3. g \in Object /\ g.buf = ZeroBytes(SHA256_HASH_SIZE)
  BY <1>2, ResetEffect
<1>4. DestroyedObject(hmac) =
        [g EXCEPT !.k = ZeroBytes(HMAC_KEY_LENGTH), !.ctx = DestroyContext(@)]
  BY DEF DestroyedObject
<1> HIDE DEF g
<1>5. DestroyContext(g.ctx) \in Context /\ DestroyContext(g.ctx).mb = ZeroBlock
  <2>1. g.ctx \in Context
    BY <1>3 DEF Object
  <2> QED
    BY <2>1, DestroyType DEF DestroyContext, Context
<1>6. /\ hmac' \in Object /\ hmac'.ctx.mb = ZeroBlock
      /\ hmac'.k = ZeroBytes(HMAC_KEY_LENGTH)
      /\ hmac'.buf = ZeroBytes(SHA256_HASH_SIZE)
  BY <1>1, <1>3, <1>4, <1>5, ZeroTypes DEF Object
<1>7. Typed'
  BY <1>1, <1>6 DEF Inductive, Typed
<1>8. NothingLeft'
  BY <1>6 DEF NothingLeft
<1>9. OneShotInv'
  BY <1>1, OneShotKept DEF Inductive
<1> QED
  BY <1>1, <1>7, <1>8, <1>9 DEF Inductive

LEMMA ResetKeeps ==
  ASSUME BytesAreBytes, Inductive, Reset
  PROVE  Inductive'
<1> DEFINE g == ResetObject(hmac)
<1>1. /\ pc = "idle" /\ pc' = pc /\ hmac' = g /\ key' = key /\ data' = << >>
      /\ sound' = (hmac.k = Key0(key)) /\ oneShot' = oneShot /\ ndebug' = ndebug
  BY DEF Reset, Key0
<1>2. hmac \in Object /\ key \in EffectiveKeys
  BY DEF Inductive, Typed
<1>3. /\ g \in Object /\ BetweenCalls(g)
      /\ hmac.k = Key0(key) => Holds(g, key, << >>)
  BY <1>2, ResetHolds
<1> HIDE DEF g
<1>4. sound' \in BOOLEAN /\ (sound' => hmac.k = Key0(key))
  BY <1>1
<1>5. Typed'
  BY <1>1, <1>2, <1>3, <1>4 DEF Inductive, Typed
<1>6. BetweenCalls(hmac') /\ (sound' => Holds(hmac', key', data'))
  BY <1>1, <1>3, <1>4
<1>7. NothingLeft'
  BY <1>1 DEF NothingLeft
<1>8. OneShotInv'
  BY <1>1, OneShotKept DEF Inductive
<1> QED
  BY <1>5, <1>6, <1>7, <1>8 DEF Inductive

(* A call that leaves the object alone, refused or not. *)
LEMMA UnchangedKeeps ==
  ASSUME Inductive, pc = "idle", pc' \in { "idle", "aborted" },
         UNCHANGED << hmac, oneShot, ndebug, key, data >>,
         sound' \in BOOLEAN, sound' => sound
  PROVE  Inductive'
<1>1. Typed'
  BY DEF Inductive, Typed
<1>2. pc' = "idle" => BetweenCalls(hmac') /\ (sound' => Holds(hmac', key', data'))
  BY DEF Inductive
<1>3. NothingLeft'
  BY DEF NothingLeft
<1>4. OneShotInv'
  BY OneShotKept DEF Inductive
<1> QED
  BY <1>1, <1>2, <1>3, <1>4 DEF Inductive

LEMMA UpdateKeeps ==
  ASSUME BytesAreBytes, Inductive, NEW a \in UpdateArguments, NEW carriedOut \in BOOLEAN,
         Update(a[1], a[2], carriedOut)
  PROVE  Inductive'
<1> DEFINE m    == a[1]
           call == UpdateCall(hmac, m, a[2], carriedOut)
<1>1. /\ pc = "idle" /\ Outcome("Update", call)
      /\ UNCHANGED << digest, oneShot, ndebug, key >>
      /\ call.res # "OK" => UNCHANGED << data, sound >>
      /\ call.res = "OK" => /\ data' = data \o m
                            /\ sound' = (sound /\ 8 * (HMAC_KEY_LENGTH + Len(data) + a[2]) < LEN_MOD)
  BY DEF Update
<1>2. /\ hmac \in Object /\ key \in EffectiveKeys /\ data \in Seq(Byte) /\ sound \in BOOLEAN
      /\ BetweenCalls(hmac) /\ (sound => Holds(hmac, key, data))
  BY <1>1 DEF Inductive, Typed
<1>3. CASE call = Refused(hmac, "NullPointer") \/ call = Refused(hmac, "InvalidState")
  <2>1. call.res # "OK" /\ call.obj = hmac
    BY <1>3 DEF Refused
  <2>2. hmac' = hmac /\ pc' \in { "idle", "aborted" }
    BY <1>1, <2>1 DEF Outcome
  <2> QED
    BY <1>1, <1>2, <2>1, <2>2, UnchangedKeeps
<1>4. CASE m # NULL /\ hmac.hstate = "IPAD"
  <2> DEFINE g == TakenBytes(hmac, m, carriedOut)
  <2>1. m \in Seq(Byte) /\ a[2] = Len(m)
    BY <1>4, HMACSHA256Assumption DEF UpdateArguments
  <2>2. /\ call = Done(g, "OK")
        /\ g \in Object /\ BetweenCalls(g)
        /\ Holds(hmac, key, data) /\ Countable(Inner(key, data \o m)) => Holds(g, key, data \o m)
    BY <1>2, <1>4, <2>1, TakenHolds
  <2> HIDE DEF g, m, call
  <2>3. call.res = "OK" /\ call.obj = g /\ call.check = TRUE
    BY <2>2 DEF Done
  <2>4. hmac' = g /\ pc' = "idle" /\ data' = data \o m
    BY <1>1, <2>3 DEF Outcome
  <2>5. data' \in Seq(Byte)
    BY <1>2, <2>1, <2>4
  <2>6. sound' \in BOOLEAN /\ (sound' => sound /\ Countable(Inner(key, data \o m)))
    <3>1. sound' = (sound /\ 8 * (HMAC_KEY_LENGTH + Len(data) + Len(m)) < LEN_MOD)
      BY <1>1, <2>1, <2>3
    <3>2. Len(Inner(key, data \o m)) = HMAC_KEY_LENGTH + Len(data) + Len(m)
      <4>1. Len(data \o m) = Len(data) + Len(m) /\ Len(data) \in Nat /\ Len(m) \in Nat
        BY <1>2, <2>1
      <4>2. Len(Inner(key, data \o m)) = HMAC_KEY_LENGTH + Len(data \o m)
        BY <1>2, <2>4, <2>5, InnerFacts
      <4> QED
        BY <4>1, <4>2, Sizes
    <3>3. sound' => 8 * Len(Inner(key, data \o m)) < LEN_MOD
      BY <3>1, <3>2
    <3> QED
      BY <1>2, <3>1, <3>3 DEF Countable
  <2>7. Typed'
    BY <1>1, <1>2, <2>2, <2>4, <2>5, <2>6 DEF Inductive, Typed
  <2>8. BetweenCalls(hmac') /\ (sound' => Holds(hmac', key', data'))
    BY <1>1, <1>2, <2>2, <2>4, <2>6
  <2>9. NothingLeft'
    BY <2>4 DEF NothingLeft
  <2>10. OneShotInv'
    BY <1>1, OneShotKept DEF Inductive
  <2> QED
    BY <2>7, <2>8, <2>9, <2>10 DEF Inductive
<1>5. \/ call = Refused(hmac, "NullPointer") \/ call = Refused(hmac, "InvalidState")
      \/ m # NULL /\ hmac.hstate = "IPAD"
  BY DEF UpdateCall
<1> QED
  BY <1>3, <1>4, <1>5

LEMMA FinalResultKeeps ==
  ASSUME BytesAreBytes, Inductive, NEW op, NEW d, FinalResult(op, d)
  PROVE  Inductive'
<1> DEFINE call == FinalResultCall(hmac, d)
<1>1. /\ pc = "idle" /\ Outcome(op, call)
      /\ UNCHANGED << oneShot, ndebug, key, data, sound >>
  BY DEF FinalResult
<1>2. /\ hmac \in Object /\ key \in EffectiveKeys /\ data \in Seq(Byte) /\ sound \in BOOLEAN
      /\ BetweenCalls(hmac) /\ (sound => Holds(hmac, key, data))
  BY <1>1 DEF Inductive, Typed
<1>3. CASE call.obj = hmac
  <2>1. hmac' = hmac /\ pc' \in { "idle", "aborted" }
    BY <1>1, <1>3 DEF Outcome
  <2> QED
    BY <1>1, <1>2, <2>1, UnchangedKeeps
<1>4. CASE d # NULL /\ hmac.hstate = "IPAD"
  <2> DEFINE end == FinishCall(hmac)
  <2>1. call = end
    BY <1>4 DEF FinalResultCall
  <2>2. /\ end.check = TRUE /\ end.obj \in Object /\ BetweenCalls(end.obj)
        /\ Holds(hmac, key, data) => Holds(end.obj, key, data)
    BY <1>2, <1>4, FinishHolds
  <2> HIDE DEF end, call
  <2>3. hmac' = end.obj /\ pc' = "idle"
    BY <1>1, <2>1, <2>2 DEF Outcome
  <2>4. Typed'
    BY <1>1, <2>2, <2>3 DEF Inductive, Typed
  <2>5. BetweenCalls(hmac') /\ (sound' => Holds(hmac', key', data'))
    BY <1>1, <1>2, <2>2, <2>3
  <2>6. NothingLeft'
    BY <2>3 DEF NothingLeft
  <2>7. OneShotInv'
    BY <1>1, OneShotKept DEF Inductive
  <2> QED
    BY <2>4, <2>5, <2>6, <2>7 DEF Inductive
<1>5. call.obj = hmac \/ (d # NULL /\ hmac.hstate = "IPAD")
  BY DEF FinalResultCall, Done, Refused
<1> QED
  BY <1>3, <1>4, <1>5
(* ComputeHMAC's own object holds its key and message when Result is       *)
(* called, so what it hands out is their code.                             *)
LEMMA ComputeKeeps ==
  ASSUME BytesAreBytes, Inductive, NEW ka \in KeyArguments, NEW ma \in UpdateArguments,
         NEW d \in DigestArguments, ComputeHMAC(ka, ma, d)
  PROVE  Inductive'
<1> DEFINE h        == NewObject(ka[1], ka[2])
           ik       == EffectiveKey(ka[1], ka[2])
           m        == ma[1]
           written  == UpdateCall(h, m, ma[2], FALSE)
           answered == FinalResultCall(written.obj, d)
           call     == ShotResult(written, answered)
           shot     == [key |-> ik, m |-> m, d |-> d, res |-> call.res,
                        digest |-> IF call.res = "OK" THEN call.obj.buf ELSE NoDigest]
<1>1. /\ pc = "none" /\ UNCHANGED << hmac, ndebug, key, data, sound >>
      /\ 8 * (HMAC_KEY_LENGTH + ma[2]) < LEN_MOD
      /\ pc' \in { "none", "stopped" }
      /\ IF call.check \/ ndebug THEN oneShot' = shot ELSE oneShot' = oneShot
  BY DEF ComputeHMAC
<1>2. /\ h \in Object /\ h.hstate = "IPAD" /\ ik \in EffectiveKeys
      /\ BetweenCalls(h) /\ Holds(h, ik, << >>)
  BY NewHolds
<1> HIDE DEF h, ik
<1>3. OneShotInv'
  <2>1. CASE ~(call.check \/ ndebug)
    BY <1>1, <2>1, OneShotKept DEF Inductive
  <2>2. CASE (call.check \/ ndebug) /\ m = NULL
    <3>1. written = Refused(h, "NullPointer")
      BY <2>2 DEF UpdateCall
    <3>2. call.res = "NullPointer" /\ call.check = FALSE
      <4> HIDE DEF written, answered
      <4>1. written.res = "NullPointer" /\ written.check = FALSE
        BY <3>1 DEF Refused
      <4>2. call = written
        BY <4>1 DEF ShotResult
      <4> HIDE DEF call
      <4> QED
        BY <4>1, <4>2
    <3> HIDE DEF call, written, m
    <3>3. /\ oneShot'.m = NULL /\ oneShot'.res = "NullPointer" /\ oneShot'.digest = NoDigest
          /\ ndebug' = TRUE
      <4>1. oneShot' = shot /\ ndebug
        BY <1>1, <2>2, <3>2
      <4>2. ndebug = TRUE /\ ndebug' = ndebug
        BY <1>1, <4>1 DEF Inductive, Typed
      <4> QED
        BY <2>2, <3>2, <4>1, <4>2
    <3> QED
      BY <3>3 DEF OneShotInv
  <2>3. CASE (call.check \/ ndebug) /\ m # NULL
    <3> DEFINE g == TakenBytes(h, m, FALSE)
    <3>1. m \in Seq(Byte) /\ ma[2] = Len(m)
      BY <2>3, HMACSHA256Assumption DEF UpdateArguments
    <3>2. << >> \in Seq(Byte) /\ << >> \o m = m
      BY <3>1, ConcatEmptySeq
    <3>3. Countable(Inner(ik, m))
      <4>1. Len(Inner(ik, m)) = HMAC_KEY_LENGTH + Len(m)
        BY <1>2, <3>1, InnerFacts
      <4> QED
        BY <1>1, <3>1, <4>1 DEF Countable
    <3>4. /\ written = Done(g, "OK")
          /\ g \in Object /\ g.hstate = "IPAD" /\ BetweenCalls(g) /\ Holds(g, ik, m)
      <4>1. /\ UpdateCall(h, m, Len(m), FALSE) = Done(g, "OK")
            /\ g \in Object /\ g.hstate = "IPAD" /\ BetweenCalls(g)
            /\ \A x \in Seq(Byte) :
                 Holds(h, ik, x) /\ Countable(Inner(ik, x \o m)) => Holds(g, ik, x \o m)
        BY <1>2, <3>1, TakenHolds
      <4> HIDE DEF g
      <4>2. Holds(h, ik, << >>) /\ Countable(Inner(ik, << >> \o m)) => Holds(g, ik, << >> \o m)
        BY <3>2, <4>1
      <4> QED
        BY <1>2, <3>1, <3>2, <3>3, <4>1, <4>2
    <3> HIDE DEF g, written, m
    <3>5. written.obj = g /\ call = answered
      BY <3>4 DEF Done, ShotResult
    <3>6. CASE d = NULL
      <4>1. answered = Done(g, "NullPointer")
        BY <3>5, <3>6 DEF FinalResultCall
      <4>2. call.res = "NullPointer" /\ call.check = TRUE
        BY <3>5, <4>1 DEF Done
      <4> HIDE DEF call
      <4>3. oneShot' = shot
        BY <1>1, <2>3
      <4>4. /\ oneShot'.m = m /\ oneShot'.d = NULL
            /\ oneShot'.res = "NullPointer" /\ oneShot'.digest = NoDigest
        BY <3>6, <4>2, <4>3
      <4> QED
        BY <2>3, <4>4 DEF OneShotInv
    <3>7. CASE d # NULL
      <4> DEFINE end == FinishCall(g)
      <4>1. answered = end
        BY <3>4, <3>5, <3>7 DEF FinalResultCall
      <4>2. end.res = "OK" /\ end.obj.hstate = "FIN" /\ Holds(end.obj, ik, m)
        BY <1>2, <3>1, <3>4, FinishHolds
      <4> HIDE DEF end
      <4>3. end.obj.buf = FIPS!MAC(ik, m)
        BY <1>2, <4>2, SameAsFIPS DEF Holds
      <4>4. call.res = "OK" /\ call.obj.buf = FIPS!MAC(ik, m)
        BY <3>5, <4>1, <4>2, <4>3
      <4> HIDE DEF call
      <4>5. oneShot' = shot
        BY <1>1, <2>3
      <4>6. /\ oneShot'.m = m /\ oneShot'.d = d /\ oneShot'.key = ik
            /\ oneShot'.res = "OK" /\ oneShot'.digest = FIPS!MAC(ik, m)
        BY <4>4, <4>5
      <4> QED
        BY <2>3, <3>7, <4>6 DEF OneShotInv
    <3> QED
      BY <3>6, <3>7
  <2> QED
    BY <2>1, <2>2, <2>3
<1>4. Typed'
  BY <1>1 DEF Inductive, Typed
<1>5. NothingLeft'
  BY <1>1 DEF Inductive, NothingLeft
<1> QED
  BY <1>1, <1>3, <1>4, <1>5 DEF Inductive

LEMMA StepKeeps ==
  ASSUME BytesAreBytes, Inductive, [Next]_vars PROVE Inductive'
<1>1. ASSUME NEW m \in Messages, UpdateCaught(m) PROVE Inductive'
  <2>1. /\ pc = "idle" /\ pc' = "aborted" /\ sound' = FALSE
        /\ UNCHANGED << hmac, oneShot, ndebug, key, data >>
    BY <1>1 DEF UpdateCaught
  <2> QED
    BY <2>1, UnchangedKeeps
<1>2. CASE UNCHANGED vars
  <2>1. /\ UNCHANGED << hmac, pc, oneShot, ndebug, key, data, sound >>
    BY <1>2 DEF vars
  <2>2. Typed'
    BY <2>1 DEF Inductive, Typed
  <2>3. NothingLeft'
    BY <2>1 DEF Inductive, NothingLeft
  <2>4. OneShotInv'
    BY <2>1, OneShotKept DEF Inductive
  <2> QED
    BY <2>1, <2>2, <2>3, <2>4 DEF Inductive
<1> QED
  BY <1>1, <1>2, ConstructKeeps, DestroyKeeps, ResetKeeps, UpdateKeeps, FinalResultKeeps,
     ComputeKeeps DEF Next

LEMMA Invariance == ASSUME BytesAreBytes PROVE Spec => []Inductive
<1>1. Init => Inductive
  BY InitEstablishes
<1>2. Inductive /\ [Next]_vars => Inductive'
  BY StepKeeps
<1> QED
  BY <1>1, <1>2, PTL DEF Spec

(* The SHA-256 object inside holds exactly the ipad block and the data, or *)
(* when it is closed the padded opad block and inner digest, as long as    *)
(* every byte was counted and no store past mb has changed k.              *)
THEOREM InnerObjectHoldsData ==
  ASSUME BytesAreBytes PROVE Spec => []InnerInv
<1>1. Inductive => InnerInv
  <2> SUFFICES ASSUME Inductive, pc = "idle", sound
               PROVE  \/ /\ hmac.hstate = "IPAD"
                         /\ hmac.ctx.hComplete = 0
                         /\ Represents(hmac.ctx, InnerData)
                      \/ /\ hmac.hstate = "FIN"
                         /\ hmac.ctx.hComplete = 1
                         /\ hmac.ctx.i_hash = PaddedBlocks(InnerData, Gap(InnerData))
    BY DEF InnerInv
  <2>1. key \in EffectiveKeys /\ BetweenCalls(hmac) /\ Holds(hmac, key, data)
    BY DEF Inductive, Typed
  <2>2. KeyPad(ipad) \o data = Inner(key, data)
    BY <2>1, SameAsFIPS DEF KeyPad, Inner
  <2>3. KeyPad(opad) \o FIPS!Sha(KeyPad(ipad) \o data) = Outer(key, data)
    BY <2>1, <2>2, SameAsFIPS DEF KeyPad, Outer, Sha
  <2>4. CASE hmac.hstate = "IPAD"
    <3>1. InnerData = Inner(key, data)
      BY <2>2, <2>4 DEF InnerData
    <3> QED
      BY <2>1, <2>4, <3>1 DEF BetweenCalls, Holds, IsOpen
  <2>5. CASE hmac.hstate = "FIN"
    <3>1. InnerData = Outer(key, data)
      BY <2>3, <2>5 DEF InnerData
    <3> QED
      BY <2>1, <2>5, <3>1 DEF BetweenCalls, Holds, IsClosed
  <2> QED
    BY <2>1, <2>4, <2>5 DEF BetweenCalls
<1> QED
  BY <1>1, Invariance, PTL

(* Nothing of key, message or result outlives an object, also past the     *)
(* length limit.                                                           *)
THEOREM NothingIsLeft ==
  ASSUME BytesAreBytes PROVE Spec => []NothingLeft
<1>1. Inductive => NothingLeft
  BY DEF Inductive
<1> QED
  BY <1>1, Invariance, PTL

(* ComputeHMAC returns OK only with the code of its key and message: the   *)
(* construction of FIPS 198-1 over the hash as the code pads it (ShaByte), *)
(* under the key the constructor works with.                               *)
THEOREM OneShotIsMAC ==
  ASSUME BytesAreBytes PROVE Spec => []OneShotInv
<1>1. Inductive => OneShotInv
  BY DEF Inductive
<1> QED
  BY <1>1, Invariance, PTL

(* A reset object is the one the constructor makes of the same key. *)
THEOREM ResetIsConstruction ==
  ASSUME BytesAreBytes PROVE Spec => ResetIsNew
<1>1. Inductive => (Reset /\ hmac.k = FIPS!K0(key) => hmac' = NewObject(key, Len(key)))
  <2> SUFFICES ASSUME Inductive, Reset, hmac.k = FIPS!K0(key)
               PROVE  hmac' = NewObject(key, Len(key))
    OBVIOUS
  <2>1. hmac \in Object /\ key \in EffectiveKeys /\ hmac' = ResetObject(hmac)
        /\ hmac.k = Key0(key)
    BY DEF Inductive, Typed, Reset, Key0
  <2>2. KeyBlock(key, Len(key)) = Key0(key) /\ Key0(key) \in KeyBytes
    BY <2>1, EffectiveKeyFacts
  <2>3. /\ hmac' \in Object /\ hmac'.hstate = "IPAD" /\ hmac'.ctx = Opened(Key0(key), ipad)
        /\ hmac'.k = Key0(key) /\ hmac'.buf = ZeroBytes(SHA256_HASH_SIZE)
    BY <2>1, ResetEffect
  <2>4. /\ NewObject(key, Len(key)) \in Object
        /\ NewObject(key, Len(key)).hstate = "IPAD"
        /\ NewObject(key, Len(key)).ctx = Opened(Key0(key), ipad)
        /\ NewObject(key, Len(key)).k = Key0(key)
        /\ NewObject(key, Len(key)).buf = ZeroBytes(SHA256_HASH_SIZE)
    BY <2>2, NewObjectEffect
  <2> QED
    BY <2>3, <2>4, ObjectEqual
<1> QED
  BY <1>1, Invariance, PTL DEF ResetIsNew
-----------------------------------------------------------------------------
(* The refinement: an object as module HMAC sees it. *)

Seen(hstate, d, complete, k, buf) ==
  [hstate |-> hstate, k |-> k, buf |-> buf, ctx |-> [data |-> d, complete |-> complete]]

DataIn(h, p, ik, d) ==
  IF h.hstate = "INIT"      THEN << >>
  ELSE IF p = "none"        THEN FIPS!Padded(FIPS!K0(ik), ipad)
  ELSE IF h.hstate = "IPAD" THEN FIPS!Padded(FIPS!K0(ik), ipad) \o d
  ELSE FIPS!Padded(FIPS!K0(ik), opad) \o FIPS!Sha(FIPS!Padded(FIPS!K0(ik), ipad) \o d)

Shown(h, p, ik, d) == Seen(h.hstate, DataIn(h, p, ik, d), h.ctx.hComplete = 1, h.k, h.buf)

LEMMA ObjectShown ==
  /\ AbstractObject = Shown(hmac, pc, key, data)
  /\ AbstractObject' = Shown(hmac', pc', key', data')
  BY DEF AbstractObject, Shown, Seen, InnerData, DataIn, KeyPad

(* Open and closed objects, as HMAC sees them. *)
LEMMA OpenShown ==
  ASSUME BytesAreBytes, NEW h, NEW p, NEW ik \in EffectiveKeys, NEW d,
         h.hstate = "IPAD", IsOpen(h.ctx), p # "none"
  PROVE  Shown(h, p, ik, d) = Seen("IPAD", Inner(ik, d), FALSE, h.k, h.buf)
<1>1. DataIn(h, p, ik, d) = Inner(ik, d)
  BY SameAsFIPS DEF DataIn, Inner
<1>2. (h.ctx.hComplete = 1) = FALSE
  BY DEF IsOpen
<1> QED
  BY <1>1, <1>2 DEF Shown

LEMMA ClosedShown ==
  ASSUME BytesAreBytes, NEW h, NEW p, NEW ik \in EffectiveKeys, NEW d,
         h.hstate = "FIN", IsClosed(h.ctx), p # "none"
  PROVE  Shown(h, p, ik, d) = Seen("FIN", Outer(ik, d), TRUE, h.k, h.buf)
<1>1. DataIn(h, p, ik, d) = Outer(ik, d)
  BY SameAsFIPS DEF DataIn, Inner, Outer, Sha
<1>2. (h.ctx.hComplete = 1) = TRUE
  BY DEF IsClosed
<1> QED
  BY <1>1, <1>2 DEF Shown

(* What the operators of HMAC do to such objects, in both builds. *)
LEMMA SeenWritten ==
  ASSUME NEW x \in Seq(Byte), NEW m \in Seq(Byte)
  PROVE  LET c == [data |-> x, complete |-> FALSE] IN
         /\ Released!WriteResult(c, m) = "OK" /\ Debug!WriteResult(c, m) = "OK"
         /\ Released!Written(c, m) = [data |-> x \o m, complete |-> FALSE]
         /\ Debug!Written(c, m) = [data |-> x \o m, complete |-> FALSE]
  BY DEF Released!WriteResult, Debug!WriteResult, Released!Written, Debug!Written

LEMMA SeenFresh ==
  ASSUME NEW m \in Seq(Byte)
  PROVE  /\ Released!WriteResult(Released!NewHash, m) = "OK"
         /\ Debug!WriteResult(Debug!NewHash, m) = "OK"
         /\ Released!Written(Released!NewHash, m) = [data |-> m, complete |-> FALSE]
         /\ Debug!Written(Debug!NewHash, m) = [data |-> m, complete |-> FALSE]
<1> DEFINE e == << >>
<1>1. e \in Seq(Byte) /\ e \o m = m
  BY ConcatEmptySeq
<1>2. /\ Released!NewHash = [data |-> e, complete |-> FALSE]
      /\ Debug!NewHash = [data |-> e, complete |-> FALSE]
  BY DEF Released!NewHash, Debug!NewHash
<1> HIDE DEF e
<1> QED
  BY <1>1, <1>2, SeenWritten

LEMMA SeenPads ==
  ASSUME BytesAreBytes, NEW k \in KeyBytes
  PROVE  /\ Padded(k, ipad) \in Seq(Byte) /\ Padded(k, opad) \in Seq(Byte)
         /\ Released!Padded(k, Released!ipad) = Padded(k, ipad)
         /\ Released!Padded(k, Released!opad) = Padded(k, opad)
         /\ Debug!Padded(k, Debug!ipad) = Padded(k, ipad)
         /\ Debug!Padded(k, Debug!opad) = Padded(k, opad)
<1>1. Padded(k, ipad) \in Seq(Byte) /\ Padded(k, opad) \in Seq(Byte)
  BY PaddedType, FunctionsAreSequences
<1>2. /\ Released!Padded(k, Released!ipad) = Padded(k, ipad)
      /\ Released!Padded(k, Released!opad) = Padded(k, opad)
      /\ Debug!Padded(k, Debug!ipad) = Padded(k, ipad)
      /\ Debug!Padded(k, Debug!opad) = Padded(k, opad)
  BY DEF Padded, Released!Padded, Debug!Padded, ipad, opad, Released!ipad, Released!opad,
         Debug!ipad, Debug!opad
<1> QED
  BY <1>1, <1>2

LEMMA SeenReset ==
  ASSUME BytesAreBytes, NEW hstate, NEW x, NEW complete, NEW k \in KeyBytes, NEW b
  PROVE  LET a == Seen(hstate, x, complete, k, b)
             r == Seen("IPAD", Padded(k, ipad), FALSE, k, ZeroBytes(SHA256_HASH_SIZE))
         IN  /\ Released!ResetObject(a) = r /\ Released!ResetResult(a) = "OK"
             /\ Debug!ResetObject(a) = r /\ Debug!ResetResult(a) = "OK"
<1> DEFINE a == Seen(hstate, x, complete, k, b)
           m == Padded(k, ipad)
           c == [data |-> m, complete |-> FALSE]
<1>1. a.k = k
  BY DEF Seen
<1>2. /\ Released!WriteResult(Released!NewHash, m) = "OK"
      /\ Debug!WriteResult(Debug!NewHash, m) = "OK"
      /\ Released!Written(Released!NewHash, m) = c
      /\ Debug!Written(Debug!NewHash, m) = c
  BY SeenPads, SeenFresh
<1> HIDE DEF m
<1>3. /\ Released!Padded(a.k, Released!ipad) = m /\ Debug!Padded(a.k, Debug!ipad) = m
  BY <1>1, SeenPads DEF m
<1>4. Released!ResetResult(a) = "OK" /\ Debug!ResetResult(a) = "OK"
  BY <1>2, <1>3 DEF Released!ResetResult, Debug!ResetResult
<1>5. /\ Released!ZeroBytes(SHA256_HASH_SIZE) = ZeroBytes(SHA256_HASH_SIZE)
      /\ Debug!ZeroBytes(SHA256_HASH_SIZE) = ZeroBytes(SHA256_HASH_SIZE)
  BY DEF ZeroBytes, Released!ZeroBytes, Debug!ZeroBytes
<1> HIDE DEF c, a
<1>6. /\ Released!ResetObject(a) = [a EXCEPT !.ctx = c, !.buf = ZeroBytes(SHA256_HASH_SIZE),
                                             !.hstate = "IPAD"]
      /\ Debug!ResetObject(a) = [a EXCEPT !.ctx = c, !.buf = ZeroBytes(SHA256_HASH_SIZE),
                                          !.hstate = "IPAD"]
  BY <1>2, <1>3, <1>4, <1>5 DEF Released!ResetObject, Debug!ResetObject
<1> QED
  BY <1>4, <1>6 DEF a, c, m, Seen

LEMMA SeenKeyBlock ==
  ASSUME BytesAreBytes, NEW ik \in EffectiveKeys
  PROVE  Released!KeyBlock(ik) = Key0(ik) /\ Debug!KeyBlock(ik) = Key0(ik)
<1>1. ik \in Seq(Byte) /\ Countable(ik)
  BY EffectiveKeyFacts
<1>2. /\ Released!Written(Released!NewHash, ik).data = ik
      /\ Debug!Written(Debug!NewHash, ik).data = ik
  BY <1>1, SeenFresh
<1>3. Released!Sha(ik) = Sha(ik) /\ Debug!Sha(ik) = Sha(ik)
  BY DEF Sha, FIPS!Sha, Released!Sha, Debug!Sha
<1>4. Len(ik) \in Nat /\ HMAC_KEY_LENGTH \in Nat
  BY <1>1, Sizes
<1>5. CASE Len(ik) <= HMAC_KEY_LENGTH
  <2>1. Released!KeyBlock(ik) = Filled(ik) /\ Debug!KeyBlock(ik) = Filled(ik)
    BY <1>5 DEF Released!KeyBlock, Debug!KeyBlock, Filled
  <2> QED
    BY <1>1, <1>5, <2>1, Key0Filled
<1>6. CASE ~(Len(ik) <= HMAC_KEY_LENGTH)
  <2>1. Released!KeyBlock(ik) = Filled(Sha(ik)) /\ Debug!KeyBlock(ik) = Filled(Sha(ik))
    BY <1>2, <1>3, <1>6 DEF Released!KeyBlock, Debug!KeyBlock, Filled
  <2> QED
    BY <1>1, <1>4, <1>6, <2>1, Key0Filled
<1> QED
  BY <1>5, <1>6

LEMMA SeenConstructed ==
  ASSUME BytesAreBytes, NEW ik \in EffectiveKeys
  PROVE  LET r == Seen("IPAD", Padded(Key0(ik), ipad), FALSE, Key0(ik),
                       ZeroBytes(SHA256_HASH_SIZE))
         IN  Released!NewObject(ik) = r /\ Debug!NewObject(ik) = r
<1> DEFINE e == << >>
           a == Seen("INIT", e, FALSE, Key0(ik), ZeroBytes(SHA256_HASH_SIZE))
<1>1. Key0(ik) \in KeyBytes
  BY EffectiveKeyFacts
<1>2. /\ Released!NewObject(ik) = Released!ResetObject(a)
      /\ Debug!NewObject(ik) = Debug!ResetObject(a)
  BY SeenKeyBlock DEF Released!NewObject, Debug!NewObject, Released!NewHash, Debug!NewHash,
     Released!ZeroBytes, Debug!ZeroBytes, ZeroBytes, Seen
<1> HIDE DEF e
<1> QED
  BY <1>1, <1>2, SeenReset, ZenonT(60)

LEMMA SeenWiped ==
  ASSUME BytesAreBytes, NEW hstate, NEW x, NEW complete, NEW k \in KeyBytes, NEW b
  PROVE  LET a == Seen(hstate, x, complete, k, b)
             r == Seen("IPAD", Padded(k, ipad), FALSE, ZeroBytes(HMAC_KEY_LENGTH),
                       ZeroBytes(SHA256_HASH_SIZE))
         IN  Released!WipedObject(a) = r /\ Debug!WipedObject(a) = r
<1> DEFINE a == Seen(hstate, x, complete, k, b)
           o == Seen("IPAD", Padded(k, ipad), FALSE, k, ZeroBytes(SHA256_HASH_SIZE))
<1>1. Released!ResetObject(a) = o /\ Debug!ResetObject(a) = o
  BY SeenReset, ZenonT(60)
<1>2. /\ Released!WipedObject(a) = [o EXCEPT !.k = ZeroBytes(HMAC_KEY_LENGTH)]
      /\ Debug!WipedObject(a) = [o EXCEPT !.k = ZeroBytes(HMAC_KEY_LENGTH)]
  BY <1>1 DEF Released!WipedObject, Debug!WipedObject, Released!ZeroBytes, Debug!ZeroBytes, ZeroBytes
<1> HIDE DEF a
<1> QED
  BY <1>2 DEF a, Seen

(* The record with these fields, as a set: what EXCEPT makes of a record    *)
(* is told by what it is a member of.                                      *)
Only(hstate, k, buf, c) == [hstate : { hstate }, k : { k }, buf : { buf }, ctx : { c }]

LEMMA OnlyOne ==
  ASSUME NEW hstate, NEW k, NEW b, NEW c,
         NEW g \in Only(hstate, k, b, c), NEW h \in Only(hstate, k, b, c)
  PROVE  g = h
  BY DEF Only

LEMMA SeenClosed ==
  ASSUME NEW x
  PROVE  LET c == [data |-> x, complete |-> FALSE] IN
         /\ Released!FinaliseResult(c) = "OK"
         /\ Released!Closed(c) = [data |-> x, complete |-> TRUE]
<1> DEFINE c == [data |-> x, complete |-> FALSE]
<1>1. Released!FinaliseResult(c) = "OK"
  BY DEF Released!FinaliseResult
<1>2. Released!Closed(c) = [data |-> x, complete |-> TRUE]
  <2> DEFINE F == { "data", "complete" }
             o == [c EXCEPT !.complete = TRUE]
             r == [data |-> x, complete |-> TRUE]
  <2>1. DOMAIN o = F /\ DOMAIN r = F
    OBVIOUS
  <2>2. o["data"] = r["data"] /\ o["complete"] = r["complete"]
    OBVIOUS
  <2>3. \A f \in F : o[f] = r[f]
    BY <2>2
  <2>4. o = [f \in F |-> o[f]] /\ r = [f \in F |-> r[f]]
    BY <2>1
  <2> QED
    BY <2>3, <2>4 DEF Released!Closed
<1> QED
  BY <1>1, <1>2

(* The two passes. *)
LEMMA SeenFinished ==
  ASSUME BytesAreBytes, NEW ik \in EffectiveKeys, NEW d \in Seq(Byte),
         Countable(Inner(ik, d)), NEW b
  PROVE  LET a == Seen("IPAD", Inner(ik, d), FALSE, Key0(ik), b)
             r == [obj |-> Seen("FIN", Outer(ik, d), TRUE, Key0(ik), Sha(Outer(ik, d))),
                   res |-> "OK"]
         IN  Released!FinishObject(a) = r /\ Debug!FinishObject(a) = r
<1> DEFINE a == Seen("IPAD", Inner(ik, d), FALSE, Key0(ik), b)
           k == Key0(ik)
           s == Sha(Inner(ik, d))
           m == Padded(k, opad)
           x == Outer(ik, d)
           inner  == Released!Sha(a.ctx.data)
           pad    == Released!Padded(a.k, Released!opad)
           opened == [a EXCEPT !.buf = inner, !.ctx = Released!NewHash]
           keyed  == [opened EXCEPT !.ctx = Released!Written(@, pad), !.hstate = "OPAD"]
           outer  == [keyed EXCEPT !.ctx = Released!Written(@, inner)]
           last   == [outer EXCEPT !.ctx = Released!Closed(@),
                                   !.buf = Released!Sha(outer.ctx.data), !.hstate = "FIN"]
           fin    == Seen("FIN", x, TRUE, k, Sha(x))
<1>1. k \in KeyBytes /\ m \in Seq(Byte)
  BY EffectiveKeyFacts, SeenPads
<1>2. s \in Seq(Byte)
  <2>1. NULL # "buf" /\ Inner(ik, d) \in Seq(Byte)
    BY InnerFacts, HMACSHA256Assumption
  <2> QED
    BY <2>1, DigestOfMessage, FunctionsAreSequences
<1>3. \A y : Released!Sha(y) = Sha(y)
  BY DEF Sha, FIPS!Sha, Released!Sha
<1>4. x = m \o s
  BY DEF Outer
<1>5. inner = s /\ pad = m
  <2>1. a.ctx.data = Inner(ik, d) /\ a.k = k
    BY DEF Seen
  <2> HIDE DEF a
  <2> QED
    BY <1>1, <1>3, <2>1, SeenPads
<1>6. /\ Released!WriteResult(Released!NewHash, m) = "OK"
      /\ Released!Written(Released!NewHash, m) = [data |-> m, complete |-> FALSE]
  BY <1>1, SeenFresh
<1>7. LET c == [data |-> m, complete |-> FALSE] IN
      /\ Released!WriteResult(c, s) = "OK"
      /\ Released!Written(c, s) = [data |-> x, complete |-> FALSE]
  BY <1>1, <1>2, <1>4, SeenWritten
<1> HIDE DEF s, m, x, k, inner, pad
<1> DEFINE keyedData == [data |-> m, complete |-> FALSE]
           outerData == [data |-> x, complete |-> FALSE]
           lastData  == [data |-> x, complete |-> TRUE]
<1>8. opened \in Only("IPAD", k, s, Released!NewHash)
  BY <1>5 DEF Seen, k, Only
<1> HIDE DEF opened
<1> HIDE DEF keyedData, outerData, lastData
<1>9. keyed \in Only("OPAD", k, s, keyedData)
  <2>1. Released!Written(opened.ctx, pad) = keyedData
    BY <1>5, <1>6, <1>8 DEF keyedData, Only
  <2> QED
    BY <1>8, <2>1 DEF Only
<1> HIDE DEF keyed
<1>10. outer \in Only("OPAD", k, s, outerData)
  <2>1. Released!Written(keyed.ctx, inner) = outerData
    BY <1>5, <1>7, <1>9 DEF keyedData, outerData, Only
  <2> QED
    BY <1>9, <2>1 DEF Only
<1> HIDE DEF outer
<1>11. /\ Released!FinaliseResult(outer.ctx) = "OK"
       /\ Released!Closed(outer.ctx) = lastData
       /\ Released!Sha(outer.ctx.data) = Sha(x)
  <2>1. outer.ctx = outerData
    BY <1>10 DEF Only
  <2> QED
    BY <1>3, <2>1, SeenClosed DEF outerData, lastData
<1>12. last = fin
  <2>1. last \in Only("FIN", k, Sha(x), lastData)
    BY <1>10, <1>11 DEF Only
  <2>2. fin \in Only("FIN", k, Sha(x), lastData)
    BY DEF Seen, Only, lastData
  <2> HIDE DEF last, fin
  <2> QED
    BY <2>1, <2>2, OnlyOne
<1>13. /\ Released!WriteResult(opened.ctx, pad) = "OK"
       /\ Released!WriteResult(keyed.ctx, inner) = "OK"
  <2>1. opened.ctx = Released!NewHash /\ keyed.ctx = keyedData
    BY <1>8, <1>9 DEF Only
  <2> QED
    BY <1>5, <1>6, <1>7, <2>1 DEF keyedData
<1> HIDE DEF last, fin
<1>14. Released!FinishObject(a) = [obj |-> last, res |-> "OK"]
  BY <1>11, <1>13 DEF Released!FinishObject, inner, pad, opened, keyed, outer, last
<1>15. Debug!FinishObject(a) = Released!FinishObject(a)
  BY DEF Debug!FinishObject, Released!FinishObject, Debug!Sha, Released!Sha, Debug!NewHash,
     Released!NewHash, Debug!Written, Released!Written, Debug!WriteResult, Released!WriteResult,
     Debug!Padded, Released!Padded, Debug!opad, Released!opad, Debug!Closed, Released!Closed,
     Debug!FinaliseResult, Released!FinaliseResult
<1> QED
  BY <1>12, <1>14, <1>15 DEF fin, k, x

(* What is known of a sound object between calls. *)
LEMMA SoundObject ==
  ASSUME Inductive, pc = "idle", sound
  PROVE  /\ hmac \in Object /\ key \in EffectiveKeys /\ data \in Seq(Byte)
         /\ BetweenCalls(hmac) /\ Holds(hmac, key, data)
         /\ hmac.k = Key0(key) /\ Countable(Inner(key, data)) /\ AbstractPc = "idle"
  BY DEF Inductive, Typed, Holds, AbstractPc

(* Each action is one of HMAC, in both builds, or leaves what HMAC sees. *)
LEMMA ConstructShown ==
  ASSUME BytesAreBytes, Inductive, NEW a \in KeyArguments, Construct(a[1], a[2])
  PROVE  Released!Next /\ Debug!Next
<1> DEFINE h  == NewObject(a[1], a[2])
           ik == EffectiveKey(a[1], a[2])
           r  == Seen("IPAD", Padded(Key0(ik), ipad), FALSE, Key0(ik),
                      ZeroBytes(SHA256_HASH_SIZE))
<1>1. /\ pc = "none" /\ pc' = "idle" /\ hmac' = h /\ key' = ik /\ data' = << >>
      /\ digest' = NoDigest /\ ret' = ret
  BY DEF Construct
<1>2. /\ ik \in EffectiveKeys /\ h.hstate = "IPAD" /\ h.k = Key0(ik)
      /\ h.buf = ZeroBytes(SHA256_HASH_SIZE) /\ BetweenCalls(h)
  BY ConstructorEffect, NewHolds
<1> HIDE DEF h, ik
<1>3. IsOpen(h.ctx) /\ Inner(ik, << >>) = Padded(Key0(ik), ipad)
  <2>1. IsOpen(h.ctx)
    BY <1>2 DEF BetweenCalls
  <2>2. << >> \in Seq(Byte)
    OBVIOUS
  <2> QED
    BY <1>2, <2>1, <2>2, InnerFacts
<1>4. AbstractObject' = r
  <2>1. Shown(h, "idle", ik, << >>) = Seen("IPAD", Inner(ik, << >>), FALSE, h.k, h.buf)
    BY <1>2, <1>3, OpenShown
  <2> QED
    BY <1>1, <1>2, <1>3, <2>1, ObjectShown
<1>5. Released!NewObject(ik) = r /\ Debug!NewObject(ik) = r
  BY <1>2, SeenConstructed
<1> HIDE DEF r
<1>6. Released!Construct(ik) /\ Debug!Construct(ik)
  BY <1>1, <1>4, <1>5 DEF Released!Construct, Debug!Construct, AbstractPc
<1> QED
  BY <1>2, <1>6 DEF Released!Next, Debug!Next

LEMMA DestroyShown ==
  ASSUME BytesAreBytes, Inductive, sound, Destroy
  PROVE  Released!Next /\ Debug!Next
<1> DEFINE g == DestroyedObject(hmac)
           r == Seen("IPAD", Padded(Key0(key), ipad), FALSE, ZeroBytes(HMAC_KEY_LENGTH),
                     ZeroBytes(SHA256_HASH_SIZE))
<1>1. /\ pc = "idle" /\ pc' = "none" /\ hmac' = g
      /\ UNCHANGED << ret, digest, key, data >>
  BY DEF Destroy
<1>2. /\ hmac \in Object /\ key \in EffectiveKeys /\ hmac.k = Key0(key)
      /\ AbstractPc = "idle" /\ Key0(key) \in KeyBytes
  BY <1>1, SoundObject, EffectiveKeyFacts
<1>3. /\ g.hstate = "IPAD" /\ g.k = ZeroBytes(HMAC_KEY_LENGTH)
      /\ g.buf = ZeroBytes(SHA256_HASH_SIZE) /\ g.ctx.hComplete = 0
  <2> DEFINE o == ResetObject(hmac)
  <2>1. /\ o \in Object /\ o.hstate = "IPAD" /\ o.buf = ZeroBytes(SHA256_HASH_SIZE)
        /\ o.ctx.hComplete = 0
    BY <1>2, ResetEffect, ResetHolds DEF BetweenCalls, IsOpen
  <2>2. g = [o EXCEPT !.k = ZeroBytes(HMAC_KEY_LENGTH), !.ctx = DestroyContext(@)]
    BY DEF DestroyedObject
  <2> HIDE DEF o, g
  <2>3. DestroyContext(o.ctx).hComplete = 0
    <3>1. o.ctx \in Context
      BY <2>1 DEF Object
    <3> QED
      BY <2>1, <3>1 DEF DestroyContext, Context
  <2> QED
    BY <2>1, <2>2, <2>3 DEF Object
<1> HIDE DEF g
<1>4. AbstractObject' = r
  <2>1. DataIn(g, "none", key, data) = Padded(Key0(key), ipad)
    BY <1>2, <1>3, SameAsFIPS DEF DataIn
  <2>2. (g.ctx.hComplete = 1) = FALSE
    BY <1>3
  <2>3. Shown(g, "none", key, data) = r
    BY <1>3, <2>1, <2>2 DEF Shown
  <2> QED
    BY <1>1, <2>3, ObjectShown
<1>5. Released!WipedObject(AbstractObject) = r /\ Debug!WipedObject(AbstractObject) = r
  <2> DEFINE x == DataIn(hmac, pc, key, data)
             complete == hmac.ctx.hComplete = 1
             o == Seen(hmac.hstate, x, complete, Key0(key), hmac.buf)
  <2>1. AbstractObject = o
    BY <1>2, ObjectShown, Zenon DEF Shown
  <2> HIDE DEF x, complete
  <2>2. Released!WipedObject(o) = r /\ Debug!WipedObject(o) = r
    <3>1. \A hs, y, cl, b :
            LET seen == Seen(hs, y, cl, Key0(key), b) IN
            Released!WipedObject(seen) = r /\ Debug!WipedObject(seen) = r
      BY <1>2, SeenWiped, ZenonT(60)
    <3> HIDE DEF r
    <3> QED
      BY <3>1, Zenon
  <2> HIDE DEF o, r
  <2> QED
    BY <2>1, <2>2, Zenon
<1> HIDE DEF r
<1>6. Released!Destroy /\ Debug!Destroy
  BY <1>1, <1>2, <1>4, <1>5 DEF Released!Destroy, Debug!Destroy, AbstractPc
<1> QED
  BY <1>6 DEF Released!Next, Debug!Next

LEMMA ResetShown ==
  ASSUME BytesAreBytes, Inductive, sound', Reset
  PROVE  Released!Next /\ Debug!Next
<1> DEFINE g == ResetObject(hmac)
           r == Seen("IPAD", Padded(Key0(key), ipad), FALSE, Key0(key),
                     ZeroBytes(SHA256_HASH_SIZE))
<1>1. /\ pc = "idle" /\ pc' = pc /\ hmac' = g /\ data' = << >> /\ digest' = NoDigest
      /\ ret' = Returned("Reset", ResetResult(hmac)) /\ key' = key
      /\ hmac.k = Key0(key)
  BY DEF Reset, Key0
<1>2. hmac \in Object /\ key \in EffectiveKeys /\ Key0(key) \in KeyBytes
  BY EffectiveKeyFacts DEF Inductive, Typed
<1>3. /\ g.hstate = "IPAD" /\ g.k = Key0(key) /\ IsOpen(g.ctx)
      /\ g.buf = ZeroBytes(SHA256_HASH_SIZE) /\ ResetResult(hmac) = "OK"
  BY <1>1, <1>2, ResetEffect, ResetHolds DEF BetweenCalls
<1> HIDE DEF g
<1>4. Inner(key, << >>) = Padded(Key0(key), ipad)
  <2>1. << >> \in Seq(Byte)
    OBVIOUS
  <2> QED
    BY <1>2, <2>1, InnerFacts
<1>5. AbstractObject' = r
  <2>1. Shown(g, "idle", key, << >>) = Seen("IPAD", Inner(key, << >>), FALSE, g.k, g.buf)
    BY <1>2, <1>3, OpenShown
  <2> QED
    BY <1>1, <1>3, <1>4, <2>1, ObjectShown
<1>6. /\ Released!ResetObject(AbstractObject) = r /\ Debug!ResetObject(AbstractObject) = r
      /\ Released!ResetResult(AbstractObject) = "OK" /\ Debug!ResetResult(AbstractObject) = "OK"
  <2> DEFINE x == DataIn(hmac, pc, key, data)
             complete == hmac.ctx.hComplete = 1
             o == Seen(hmac.hstate, x, complete, Key0(key), hmac.buf)
  <2>1. AbstractObject = o
    BY <1>1, ObjectShown, Zenon DEF Shown
  <2> HIDE DEF x, complete
  <2>2. /\ Released!ResetObject(o) = r /\ Debug!ResetObject(o) = r
        /\ Released!ResetResult(o) = "OK" /\ Debug!ResetResult(o) = "OK"
    <3>1. \A hs, y, cl, b :
            LET seen == Seen(hs, y, cl, Key0(key), b) IN
            /\ Released!ResetObject(seen) = r /\ Debug!ResetObject(seen) = r
            /\ Released!ResetResult(seen) = "OK" /\ Debug!ResetResult(seen) = "OK"
      <4> TAKE hs, y, cl, b
      <4> DEFINE seen == Seen(hs, y, cl, Key0(key), b)
      <4>1. Released!ResetObject(seen) = r /\ Released!ResetResult(seen) = "OK"
        BY <1>2, SeenReset, ZenonT(60)
      <4>2. Debug!ResetObject(seen) = r /\ Debug!ResetResult(seen) = "OK"
        BY <1>2, SeenReset, ZenonT(60)
      <4> HIDE DEF r
      <4> QED
        BY <4>1, <4>2
    <3> HIDE DEF r
    <3> QED
      BY <3>1, Zenon
  <2> HIDE DEF o, r
  <2> QED
    BY <2>1, <2>2, Zenon
<1> HIDE DEF r
<1>7. Released!Reset /\ Debug!Reset
  BY <1>1, <1>3, <1>5, <1>6 DEF Released!Reset, Debug!Reset, AbstractPc, Returned,
     Released!Returned, Debug!Returned
<1> QED
  BY <1>7 DEF Released!Next, Debug!Next

(* A check that does not hold. *)
LEMMA RefusedShown ==
  ASSUME pc = "idle", NEW op, NEW res, Outcome(op, Refused(hmac, res)),
         UNCHANGED << digest, key, data >>
  PROVE  /\ ndebug => Released!CheckFails(op, res)
         /\ ~ndebug => Debug!CheckFails(op, res)
<1>1. /\ hmac' = hmac /\ digest' = digest /\ data' = data /\ key' = key
      /\ ndebug => ret' = Returned(op, res) /\ pc' = pc
      /\ ~ndebug => ret' = ret /\ pc' = "aborted"
  BY DEF Outcome, Refused
<1>2. AbstractObject' = AbstractObject
  <2>1. pc # "none" /\ pc' # "none"
    BY <1>1
  <2>2. InnerData' = InnerData
    BY <1>1, <2>1 DEF InnerData, KeyPad
  <2> QED
    BY <1>1, <2>2 DEF AbstractObject
<1>3. ASSUME ndebug PROVE Released!CheckFails(op, res)
  BY <1>1, <1>2, <1>3 DEF Released!CheckFails, AbstractPc, Returned, Released!Returned
<1>4. ASSUME ~ndebug PROVE Debug!CheckFails(op, res)
  BY <1>1, <1>2, <1>4 DEF Debug!CheckFails, AbstractPc
<1> QED
  BY <1>3, <1>4

(* A write that is taken. *)
LEMMA TakenShown ==
  ASSUME BytesAreBytes, Inductive, pc = "idle", sound, hmac.hstate = "IPAD",
         NEW m \in Seq(Byte), NEW carriedOut \in BOOLEAN, Countable(Inner(key, data \o m)),
         hmac' = TakenBytes(hmac, m, carriedOut), pc' = "idle", key' = key, data' = data \o m
  PROVE  LET a == AbstractObject IN
         /\ Released!WriteResult(a.ctx, m) = "OK" /\ Debug!WriteResult(a.ctx, m) = "OK"
         /\ AbstractObject' = [a EXCEPT !.ctx = Released!Written(@, m)]
         /\ AbstractObject' = [a EXCEPT !.ctx = Debug!Written(@, m)]
<1> DEFINE g == TakenBytes(hmac, m, carriedOut)
           x == Inner(key, data)
           y == Inner(key, data \o m)
           b == hmac.buf
           k == Key0(key)
<1>1. /\ hmac \in Object /\ key \in EffectiveKeys /\ data \in Seq(Byte) /\ hmac.k = k
      /\ IsOpen(hmac.ctx) /\ Represents(hmac.ctx, x)
  <2>1. BetweenCalls(hmac) /\ Holds(hmac, key, data)
    BY SoundObject
  <2> QED
    BY <2>1, SoundObject DEF BetweenCalls, Holds
<1>2. /\ x \in Seq(Byte) /\ x \o m = y
  BY <1>1, InnerFacts
<1>3. g.hstate = "IPAD" /\ IsOpen(g.ctx) /\ g.k = k /\ g.buf = b
  <2>1. /\ g.hstate = hmac.hstate /\ IsOpen(g.ctx)
        /\ \A d \in Seq(Byte) : Represents(hmac.ctx, d) /\ Countable(d \o m)
             => g.k = hmac.k /\ g.buf = hmac.buf
    BY <1>1, TakenEffect
  <2> HIDE DEF g
  <2>2. Represents(hmac.ctx, x) /\ Countable(x \o m) => g.k = hmac.k /\ g.buf = hmac.buf
    BY <1>2, <2>1
  <2>3. Countable(x \o m)
    BY <1>2
  <2> QED
    BY <1>1, <2>1, <2>2, <2>3
<1> HIDE DEF g
<1>4. Shown(hmac, "idle", key, data) = Seen("IPAD", x, FALSE, k, b)
  <2>1. Shown(hmac, "idle", key, data) = Seen("IPAD", x, FALSE, hmac.k, hmac.buf)
    BY <1>1, OpenShown
  <2> QED
    BY <1>1, <2>1
<1>5. Shown(g, "idle", key, data \o m) = Seen("IPAD", y, FALSE, k, b)
  <2>1. Shown(g, "idle", key, data \o m) = Seen("IPAD", y, FALSE, g.k, g.buf)
    BY <1>1, <1>3, OpenShown
  <2> QED
    BY <1>3, <2>1
<1>6. AbstractObject = Seen("IPAD", x, FALSE, k, b)
  BY <1>4, ObjectShown
<1>7. AbstractObject' = Seen("IPAD", y, FALSE, k, b)
  BY <1>5, ObjectShown DEF g
<1> HIDE DEF x, y, b, k
<1> DEFINE c == [data |-> x, complete |-> FALSE]
           e == [data |-> y, complete |-> FALSE]
<1>8. /\ Released!WriteResult(c, m) = "OK" /\ Debug!WriteResult(c, m) = "OK"
      /\ Released!Written(c, m) = e /\ Debug!Written(c, m) = e
  BY <1>2, SeenWritten
<1>9. AbstractObject \in Only("IPAD", k, b, c) /\ AbstractObject' \in Only("IPAD", k, b, e)
  BY <1>6, <1>7 DEF Seen, Only
<1> HIDE DEF c, e
<1>10. /\ AbstractObject.ctx = c
       /\ [AbstractObject EXCEPT !.ctx = e] \in Only("IPAD", k, b, e)
  BY <1>9 DEF Only
<1>11. AbstractObject' = [AbstractObject EXCEPT !.ctx = e]
  BY <1>9, <1>10, OnlyOne
<1> QED
  BY <1>8, <1>10, <1>11

LEMMA UpdateShown ==
  ASSUME BytesAreBytes, Inductive, sound', NEW a \in UpdateArguments,
         NEW carriedOut \in BOOLEAN, Update(a[1], a[2], carriedOut)
  PROVE  (ndebug => Released!Next) /\ (~ndebug => Debug!Next)
<1> DEFINE m    == a[1]
           call == UpdateCall(hmac, m, a[2], carriedOut)
<1>1. /\ pc = "idle" /\ Outcome("Update", call)
      /\ digest' = digest /\ key' = key
      /\ call.res # "OK" => data' = data /\ sound' = sound
      /\ call.res = "OK" =>
           /\ Len(data) + a[2] <= MaxData /\ data' = data \o m
           /\ sound' = (sound /\ 8 * (HMAC_KEY_LENGTH + Len(data) + a[2]) < LEN_MOD)
  BY DEF Update
<1>2. sound /\ (call.res = "OK" => 8 * (HMAC_KEY_LENGTH + Len(data) + a[2]) < LEN_MOD)
  <2> HIDE DEF call, m
  <2> QED
    BY <1>1
<1>3. /\ hmac \in Object /\ key \in EffectiveKeys /\ data \in Seq(Byte)
      /\ BetweenCalls(hmac) /\ AbstractPc = "idle" /\ AbstractObject.hstate = hmac.hstate
  BY <1>1, <1>2, SoundObject DEF AbstractObject
<1>4. a \in Released!UpdateArguments /\ a \in Debug!UpdateArguments
  BY DEF UpdateArguments, Released!UpdateArguments, Debug!UpdateArguments
<1>5. (ndebug => Released!Update(m, a[2])) /\ (~ndebug => Debug!Update(m, a[2]))
  <2>1. CASE m = NULL
    <3>1. call = Refused(hmac, "NullPointer") /\ call.res # "OK"
      BY <2>1 DEF UpdateCall, Refused
    <3> HIDE DEF call, m
    <3>2. /\ ndebug => Released!CheckFails("Update", "NullPointer")
          /\ ~ndebug => Debug!CheckFails("Update", "NullPointer")
      BY <1>1, <3>1, RefusedShown
    <3> QED
      BY <1>1, <1>3, <2>1, <3>2 DEF Released!Update, Debug!Update
  <2>2. CASE m # NULL /\ hmac.hstate # "IPAD"
    <3>1. call = Refused(hmac, "InvalidState") /\ call.res # "OK"
      BY <2>2 DEF UpdateCall, Refused
    <3> HIDE DEF call, m
    <3>2. /\ ndebug => Released!CheckFails("Update", "InvalidState")
          /\ ~ndebug => Debug!CheckFails("Update", "InvalidState")
      BY <1>1, <3>1, RefusedShown
    <3> QED
      BY <1>1, <1>3, <2>2, <3>2 DEF Released!Update, Debug!Update
  <2>3. CASE m # NULL /\ hmac.hstate = "IPAD"
    <3> DEFINE g == TakenBytes(hmac, m, carriedOut)
    <3>1. m \in Seq(Byte) /\ a[2] = Len(m)
      BY <2>3, HMACSHA256Assumption DEF UpdateArguments
    <3>2. call = Done(g, "OK")
      BY <1>3, <2>3, <3>1, TakenHolds
    <3> HIDE DEF g, m, call
    <3>3. call.res = "OK" /\ call.obj = g /\ call.check = TRUE
      BY <3>2 DEF Done
    <3>4. /\ hmac' = g /\ pc' = "idle" /\ data' = data \o m /\ key' = key /\ digest' = digest
          /\ ret' = Returned("Update", "OK") /\ Len(data) + a[2] <= MaxData
      BY <1>1, <3>3 DEF Outcome
    <3>5. Countable(Inner(key, data \o m))
      <4>1. Len(data \o m) = Len(data) + Len(m) /\ Len(data) \in Nat /\ Len(m) \in Nat
            /\ data \o m \in Seq(Byte)
        BY <1>3, <3>1
      <4>2. Len(Inner(key, data \o m)) = HMAC_KEY_LENGTH + Len(data \o m)
        BY <1>3, <4>1, InnerFacts
      <4>3. Len(Inner(key, data \o m)) = HMAC_KEY_LENGTH + Len(data) + Len(m)
        BY <4>1, <4>2, Sizes
      <4> QED
        BY <1>2, <3>1, <3>3, <4>3 DEF Countable
    <3>6. /\ Released!WriteResult(AbstractObject.ctx, m) = "OK"
          /\ Debug!WriteResult(AbstractObject.ctx, m) = "OK"
          /\ AbstractObject' = [AbstractObject EXCEPT !.ctx = Released!Written(@, m)]
          /\ AbstractObject' = [AbstractObject EXCEPT !.ctx = Debug!Written(@, m)]
      BY <1>1, <1>2, <2>3, <3>1, <3>4, <3>5, TakenShown DEF g
    <3> QED
      BY <1>1, <1>3, <2>3, <3>4, <3>6 DEF Released!Update, Debug!Update, AbstractPc,
         Returned, Released!Returned, Debug!Returned
  <2> QED
    BY <2>1, <2>2, <2>3
<1> QED
  BY <1>4, <1>5 DEF Released!Next, Debug!Next

(* Finalise or Result on an open object. *)
LEMMA FinishShown ==
  ASSUME BytesAreBytes, Inductive, pc = "idle", sound, hmac.hstate = "IPAD",
         hmac' = FinishCall(hmac).obj, pc' = "idle", key' = key, data' = data
  PROVE  LET r == [obj |-> AbstractObject', res |-> "OK"] IN
         /\ Released!FinishObject(AbstractObject) = r
         /\ Debug!FinishObject(AbstractObject) = r
         /\ AbstractObject'.buf = hmac'.buf
<1> DEFINE g == FinishCall(hmac).obj
           x == Inner(key, data)
           y == Outer(key, data)
           k == Key0(key)
           b == hmac.buf
<1>1. /\ hmac \in Object /\ key \in EffectiveKeys /\ data \in Seq(Byte) /\ hmac.k = k
      /\ IsOpen(hmac.ctx) /\ Countable(x) /\ Holds(hmac, key, data) /\ BetweenCalls(hmac)
  <2>1. BetweenCalls(hmac) /\ Holds(hmac, key, data)
    BY SoundObject
  <2> QED
    BY <2>1, SoundObject DEF BetweenCalls, IsClosed
<1>2. /\ g.hstate = "FIN" /\ IsClosed(g.ctx) /\ g.k = k /\ g.buf = Sha(y)
  <2>1. g.hstate = "FIN" /\ IsClosed(g.ctx)
    BY <1>1, FinishEffect
  <2>2. Holds(g, key, data)
    BY <1>1, FinishHolds
  <2> QED
    BY <2>1, <2>2 DEF Holds
<1> HIDE DEF g
<1>3. Shown(hmac, "idle", key, data) = Seen("IPAD", x, FALSE, hmac.k, b)
  BY <1>1, OpenShown
<1>4. Shown(g, "idle", key, data) = Seen("FIN", y, TRUE, g.k, g.buf)
  BY <1>1, <1>2, ClosedShown
<1>5. /\ Released!FinishObject(Seen("IPAD", x, FALSE, k, b))
           = [obj |-> Seen("FIN", y, TRUE, k, Sha(y)), res |-> "OK"]
      /\ Debug!FinishObject(Seen("IPAD", x, FALSE, k, b))
           = [obj |-> Seen("FIN", y, TRUE, k, Sha(y)), res |-> "OK"]
  BY <1>1, SeenFinished
<1> HIDE DEF x, y, k, b
<1>6. AbstractObject = Seen("IPAD", x, FALSE, k, b)
  BY <1>1, <1>3, ObjectShown
<1>7. AbstractObject' = Seen("FIN", y, TRUE, k, Sha(y))
  BY <1>2, <1>4, ObjectShown DEF g
<1>8. AbstractObject'.buf = hmac'.buf
  BY DEF AbstractObject
<1> QED
  BY <1>5, <1>6, <1>7, <1>8

LEMMA FinalResultShown ==
  ASSUME BytesAreBytes, Inductive, sound', NEW op \in { "Finalise", "Result" },
         NEW d \in DigestArguments, FinalResult(op, d)
  PROVE  Released!Next /\ Debug!Next
<1> DEFINE call == FinalResultCall(hmac, d)
<1>1. /\ pc = "idle" /\ Outcome(op, call)
      /\ digest' = IF call.res = "OK" THEN call.obj.buf ELSE digest
      /\ key' = key /\ data' = data /\ sound
  BY DEF FinalResult
<1>2. /\ hmac \in Object /\ BetweenCalls(hmac) /\ AbstractPc = "idle"
      /\ AbstractObject.hstate = hmac.hstate /\ AbstractObject.buf = hmac.buf
  BY <1>1, SoundObject DEF AbstractObject
<1>3. d \in Released!DigestArguments /\ d \in Debug!DigestArguments
  BY DEF DigestArguments, Released!DigestArguments, Debug!DigestArguments
<1>4. ASSUME hmac' = hmac, pc' = pc PROVE AbstractObject' = AbstractObject
  <2>1. InnerData' = InnerData
    BY <1>1, <1>4 DEF InnerData, KeyPad
  <2> QED
    BY <1>4, <2>1 DEF AbstractObject
<1>5. Released!FinalResult(op, d) /\ Debug!FinalResult(op, d)
  <2>1. CASE d = NULL
    <3>1. call = Done(hmac, "NullPointer")
      BY <2>1 DEF FinalResultCall
    <3> HIDE DEF call
    <3>2. call.res = "NullPointer" /\ call.obj = hmac /\ call.check = TRUE
      BY <3>1 DEF Done
    <3>3. /\ hmac' = hmac /\ pc' = pc /\ digest' = digest
          /\ ret' = Returned(op, "NullPointer")
      BY <1>1, <3>2 DEF Outcome
    <3> QED
      BY <1>1, <1>2, <1>4, <2>1, <3>3 DEF Released!FinalResult, Debug!FinalResult, AbstractPc,
         Returned, Released!Returned, Debug!Returned
  <2>2. CASE d # NULL /\ hmac.hstate = "FIN"
    <3>1. call = Done(hmac, "OK")
      BY <2>2 DEF FinalResultCall
    <3> HIDE DEF call
    <3>2. call.res = "OK" /\ call.obj = hmac /\ call.check = TRUE
      BY <3>1 DEF Done
    <3>3. /\ hmac' = hmac /\ pc' = pc /\ digest' = hmac.buf
          /\ ret' = Returned(op, "OK")
      BY <1>1, <3>2 DEF Outcome
    <3> QED
      BY <1>1, <1>2, <1>4, <2>2, <3>3 DEF Released!FinalResult, Debug!FinalResult, AbstractPc,
         Returned, Released!Returned, Debug!Returned
  <2>3. CASE d # NULL /\ hmac.hstate = "IPAD"
    <3> DEFINE end == FinishCall(hmac)
    <3>1. call = end
      BY <2>3 DEF FinalResultCall
    <3>2. end.check = TRUE /\ end.res = "OK"
      BY <1>2, <2>3, FinishHolds
    <3> HIDE DEF call, end
    <3>3. /\ hmac' = end.obj /\ pc' = "idle" /\ digest' = hmac'.buf
          /\ ret' = Returned(op, "OK")
      BY <1>1, <3>1, <3>2 DEF Outcome
    <3> DEFINE r == [obj |-> AbstractObject', res |-> "OK"]
    <3>4. /\ Released!FinishObject(AbstractObject) = r
          /\ Debug!FinishObject(AbstractObject) = r
          /\ AbstractObject'.buf = hmac'.buf
      BY <1>1, <2>3, <3>3, FinishShown DEF end
    <3>5. r.obj = AbstractObject' /\ r.res = "OK"
      OBVIOUS
    <3> HIDE DEF r
    <3> QED
      BY <1>1, <1>2, <2>3, <3>3, <3>4, <3>5 DEF Released!FinalResult, Debug!FinalResult,
         AbstractPc, Returned, Released!Returned, Debug!Returned
  <2> QED
    BY <1>2, <2>1, <2>2, <2>3 DEF BetweenCalls
<1> QED
  BY <1>3, <1>5 DEF Released!Next, Debug!Next

(* ComputeHMAC touches nothing of the caller's object. *)
LEMMA ComputeShown ==
  ASSUME NEW ka, NEW ma, NEW d, ComputeHMAC(ka, ma, d)
  PROVE  UNCHANGED << AbstractObject, AbstractPc, ret, digest, key, data >>
<1>1. /\ pc = "none" /\ pc' \in { "none", "stopped" } /\ hmac.hstate = "INIT"
      /\ hmac' = hmac /\ UNCHANGED << ret, digest, key, data >>
  BY DEF ComputeHMAC
<1>2. InnerData' = InnerData
  BY <1>1 DEF InnerData
<1> QED
  BY <1>1, <1>2 DEF AbstractObject, AbstractPc

LEMMA InitShown == Init => Released!Init
<1> SUFFICES ASSUME Init PROVE Released!Init
  OBVIOUS
<1>1. InnerData = << >> /\ (hmac.ctx.hComplete = 1) = FALSE /\ AbstractPc = "none"
  <2>1. NewContext.hComplete = 0
    BY NewIsOpen DEF IsOpen
  <2>2. hmac.hstate = "INIT" /\ hmac.ctx = NewContext /\ pc = "none"
    BY DEF Init
  <2> QED
    BY <2>1, <2>2 DEF InnerData, AbstractPc
<1> DEFINE complete == hmac.ctx.hComplete = 1
           c == [data |-> InnerData, complete |-> complete]
<1>2. c = Released!NewHash
  <2>1. complete = FALSE
    BY <1>1
  <2> HIDE DEF complete
  <2>2. c = [data |-> << >>, complete |-> FALSE]
    BY <1>1, <2>1, Zenon
  <2> QED
    BY <2>2 DEF Released!NewHash
<1>3. AbstractObject = [hstate |-> hmac.hstate, k |-> hmac.k, buf |-> hmac.buf, ctx |-> c]
  BY DEF AbstractObject
<1> HIDE DEF c
<1>4. /\ hmac.hstate = "INIT" /\ hmac.k = Released!ZeroBytes(HMAC_KEY_LENGTH)
      /\ hmac.buf = Released!ZeroBytes(SHA256_HASH_SIZE)
  BY DEF Init, Released!ZeroBytes, ZeroBytes
<1>5. AbstractObject = [hstate |-> "INIT", ctx |-> Released!NewHash,
                        k |-> Released!ZeroBytes(HMAC_KEY_LENGTH),
                        buf |-> Released!ZeroBytes(SHA256_HASH_SIZE)]
  BY <1>2, <1>3, <1>4
<1>6. ret = Released!NoCall
  BY DEF Init, NoCall, Released!NoCall, Returned, Released!Returned
<1> QED
  BY <1>1, <1>5, <1>6 DEF Init, Released!Init

(* The class over the real SHA-256 object implements the class over the    *)
(* abstract one in both builds, as long as every byte was counted, and     *)
(* from a reset on that found k to be the key.                             *)
THEOREM ComposedObjectIsHMAC ==
  ASSUME BytesAreBytes PROVE Spec => ImplementsHMAC
<1> DEFINE View == << AbstractObject, AbstractPc, ret, digest, key, data >>
           Step == sound' => IF ndebug THEN Released!Next ELSE Debug!Next
<1>1. Inductive /\ [Next]_vars => [Step]_View
  <2> SUFFICES ASSUME Inductive, [Next]_vars, sound',
                      ~(UNCHANGED View)
               PROVE  IF ndebug THEN Released!Next ELSE Debug!Next
    OBVIOUS
  <2>1. ~(UNCHANGED vars)
    BY DEF vars, AbstractObject, AbstractPc, InnerData, KeyPad
  <2>2. ASSUME NEW a \in KeyArguments, Construct(a[1], a[2])
        PROVE  Released!Next /\ Debug!Next
    BY <2>2, ConstructShown
  <2>3. ASSUME Destroy PROVE Released!Next /\ Debug!Next
    <3>1. sound
      BY <2>3 DEF Destroy
    <3> QED
      BY <2>3, <3>1, DestroyShown
  <2>4. ASSUME Reset PROVE Released!Next /\ Debug!Next
    BY <2>4, ResetShown
  <2>5. ASSUME NEW a \in UpdateArguments, NEW carriedOut \in BOOLEAN,
               Update(a[1], a[2], carriedOut)
        PROVE  (ndebug => Released!Next) /\ (~ndebug => Debug!Next)
    BY <2>5, UpdateShown
  <2>6. ASSUME NEW m \in Messages, UpdateCaught(m) PROVE FALSE
    BY <2>6 DEF UpdateCaught
  <2>7. ASSUME NEW op \in { "Finalise", "Result" }, NEW d \in DigestArguments,
               FinalResult(op, d)
        PROVE  Released!Next /\ Debug!Next
    BY <2>7, FinalResultShown
  <2>8. ASSUME NEW ka \in KeyArguments, NEW ma \in UpdateArguments,
               NEW d \in DigestArguments, ComputeHMAC(ka, ma, d)
        PROVE  FALSE
    BY <2>8, ComputeShown
  <2> HIDE DEF View
  <2> QED
    BY <2>1, <2>2, <2>3, <2>4, <2>5, <2>6, <2>7, <2>8 DEF Next
<1> HIDE DEF View, Step
<1>2. Spec => Released!Init /\ [][Step]_View
  BY <1>1, InitShown, Invariance, PTL DEF Spec
<1> QED
  BY <1>2 DEF ImplementsHMAC, View, Step, Released!vars

=============================================================================
