-------------------------------- MODULE HMAC --------------------------------
(***************************************************************************)
(* One object of class HMAC and the program that calls it.  The SHA-256    *)
(* object inside, ctx, is what module Hash says a hash is: the data        *)
(* written and whether it is closed.  SHA256ImplementsHash (module         *)
(* SHA256Proofs) shows that class SHA256 is one as long as what is         *)
(* written stays within its length limit; so every call of ctx is an       *)
(* operator here, and the digest is an uninterpreted function of the data. *)
(***************************************************************************)
EXTENDS Emsha, Integers, Sequences

CONSTANTS
  HMAC_KEY_LENGTH, (* bytes of the key block, SHA256_MB_SIZE               *)
  SHA256_HASH_SIZE,(* bytes of a digest                                    *)
  Zero,            (* the byte zero                                        *)
  Xor(_, _),       (* a byte of the key exclusive-or ipad or opad          *)
  ShaByte(_, _),   (* byte j of the digest of some data                    *)
  Keys,            (* the keys the caller constructs objects with          *)
  Messages,        (* the byte sequences the caller passes to Update       *)
  MaxData,         (* bound: bytes the caller writes between two resets    *)
  NDEBUG,          (* whether the build turns asserts off                  *)
  NULL,            (* the null pointer                                     *)
  NoDigest         (* the caller's digest buffer before it is written      *)

ASSUME HMACAssumption ==
  /\ HMAC_KEY_LENGTH \in Nat /\ SHA256_HASH_SIZE \in Nat
  /\ 0 < SHA256_HASH_SIZE /\ SHA256_HASH_SIZE <= HMAC_KEY_LENGTH
  /\ << >> \in Messages /\ NULL \notin Messages /\ NULL # "buffer"
  /\ MaxData \in Nat /\ NDEBUG \in BOOLEAN

VARIABLES
  hmac,     (* the object: hstate, ctx, k and buf                          *)
  pc,       (* "none" (no object), "idle" or "aborted"                     *)
  ret,      (* the last call that returned and its result                  *)
  digest,   (* the caller's digest buffer                                  *)
  key,      (* history: the key the object was constructed with            *)
  data      (* history: bytes written since construction or reset          *)

vars == << hmac, pc, ret, digest, key, data >>

-----------------------------------------------------------------------------
(* The SHA-256 object.  It refuses a non-empty write once it is closed.    *)
Sha(d) == [j \in 1 .. SHA256_HASH_SIZE |-> ShaByte(d, j)]

NewHash == [data |-> << >>, complete |-> FALSE]
WriteResult(c, m) == IF m # << >> /\ c.complete THEN "InvalidState" ELSE "OK"
Written(c, m) == IF WriteResult(c, m) = "OK" THEN [c EXCEPT !.data = @ \o m] ELSE c
Closed(c) == [c EXCEPT !.complete = TRUE]
FinaliseResult(c) == IF c.complete THEN "InvalidState" ELSE "OK"

(* A block of zero bytes, and the key block combined with ipad or opad. *)
ZeroBytes(n) == [j \in 1 .. n |-> Zero]
ipad == "ipad"
opad == "opad"
Padded(k, pad) == [j \in 1 .. HMAC_KEY_LENGTH |-> Xor(k[j], pad)]

-----------------------------------------------------------------------------
(* Mutant of KeyBlock: a key of exactly the block's length is hashed. *)
KeyBlockHashed(ik) ==
  LET used == IF Len(ik) < HMAC_KEY_LENGTH THEN ik
              ELSE Sha(Written(NewHash, ik).data)
  IN  [j \in 1 .. HMAC_KEY_LENGTH |-> IF j <= Len(used) THEN used[j] ELSE Zero]

(* The constructor fills k: a key longer than a block is replaced by its   *)
(* digest, and what is shorter than the block is followed by zeroes.       *)
KeyBlock(ik) ==
  LET used == IF Len(ik) <= HMAC_KEY_LENGTH THEN ik
              ELSE Sha(Written(NewHash, ik).data)
  IN  [j \in 1 .. HMAC_KEY_LENGTH |-> IF j <= Len(used) THEN used[j] ELSE Zero]

(* Mutant of ResetObject: the SHA-256 object is not reset. *)
ResetKeepsContext(h) ==
  LET keyed == Padded(h.k, ipad) IN
  [h EXCEPT !.ctx = Written(@, keyed),
            !.buf = ZeroBytes(SHA256_HASH_SIZE),
            !.hstate = IF WriteResult(h.ctx, keyed) = "OK" THEN "IPAD" ELSE "INVALID"]

(* Mutant of ResetObject: buf is not cleared. *)
ResetKeepsBuffer(h) ==
  [h EXCEPT !.ctx = Written(NewHash, Padded(h.k, ipad)), !.hstate = "IPAD"]

(* HMAC::reset(): a fresh inner hash that has taken the ipad block. *)
ResetResult(h) == WriteResult(NewHash, Padded(h.k, ipad))
ResetObject(h) ==
  [h EXCEPT !.ctx = Written(NewHash, Padded(h.k, ipad)),
            !.buf = ZeroBytes(SHA256_HASH_SIZE),
            !.hstate = IF ResetResult(h) = "OK" THEN "IPAD" ELSE "INVALID"]

(* HMAC::HMAC. *)
NewObject(ik) ==
  ResetObject([hstate |-> "INIT", ctx |-> NewHash, k |-> KeyBlock(ik),
               buf |-> ZeroBytes(SHA256_HASH_SIZE)])

(* The computation of HMAC::finalResult.  buf takes the inner digest,      *)
(* ctx starts over with the opad block and takes buf, and buf takes the    *)
(* outer digest.  Every call of ctx is checked, and a refusal leaves the   *)
(* object invalid as far as it had got.                                    *)
FinishObject(h) ==
  LET inner == Sha(h.ctx.data)
      opened == [h EXCEPT !.buf = inner, !.ctx = NewHash]
      keyed == [opened EXCEPT !.ctx = Written(@, Padded(h.k, opad)), !.hstate = "OPAD"]
      outer == [keyed EXCEPT !.ctx = Written(@, inner)]
      Failed(o, res) == [obj |-> [o EXCEPT !.hstate = "INVALID"], res |-> res]
  IN  IF WriteResult(opened.ctx, Padded(h.k, opad)) # "OK"
      THEN Failed(opened, WriteResult(opened.ctx, Padded(h.k, opad)))
      ELSE IF WriteResult(keyed.ctx, inner) # "OK"
      THEN Failed(keyed, WriteResult(keyed.ctx, inner))
      ELSE IF FinaliseResult(outer.ctx) # "OK"
      THEN Failed(outer, FinaliseResult(outer.ctx))
      ELSE [obj |-> [outer EXCEPT !.ctx = Closed(@), !.buf = Sha(outer.ctx.data),
                                  !.hstate = "FIN"],
            res |-> "OK"]

(* Mutant of WipedObject: the key is left in k. *)
KeepKey(h) == ResetObject(h)

(* HMAC::~HMAC: a reset, and k is overwritten. *)
WipedObject(h) == [ResetObject(h) EXCEPT !.k = ZeroBytes(HMAC_KEY_LENGTH)]

-----------------------------------------------------------------------------
(* An object is constructed where there is none.  The caller starts with a *)
(* clear buffer.                                                           *)
Construct(ik) ==
  /\ pc = "none"
  /\ pc' = "idle"
  /\ hmac' = NewObject(ik)
  /\ key' = ik
  /\ data' = << >>
  /\ digest' = NoDigest
  /\ UNCHANGED ret

Destroy ==
  /\ pc = "idle"
  /\ pc' = "none"
  /\ hmac' = WipedObject(hmac)
  /\ UNCHANGED << ret, digest, key, data >>

(* HMAC::Reset.  The caller starts over with a clear buffer. *)
Reset ==
  /\ pc = "idle"
  /\ hmac' = ResetObject(hmac)
  /\ data' = << >>
  /\ digest' = NoDigest
  /\ ret' = Returned("Reset", ResetResult(hmac))
  /\ UNCHANGED << pc, key >>

(* An EMSHA_CHECK that does not hold: the call returns its second argument *)
(* when asserts are off, and the program stops when they are on.           *)
CheckFails(op, res) ==
  /\ IF NDEBUG THEN ret' = Returned(op, res) /\ UNCHANGED pc
               ELSE pc' = "aborted" /\ UNCHANGED ret
  /\ UNCHANGED << hmac, digest, data >>

(* The pairs of pointer and length the caller passes: a buffer with its    *)
(* length, or the null pointer with length zero or one.                    *)
UpdateArguments == { << m, Len(m) >> : m \in Messages } \cup { << NULL, 0 >>, << NULL, 1 >> }

(* HMAC::Update.  A write that ctx refuses leaves the object invalid. *)
Update(m, len) ==
  /\ pc = "idle"
  /\ IF m = NULL                   THEN CheckFails("Update", "NullPointer")
     ELSE IF hmac.hstate # "IPAD"  THEN CheckFails("Update", "InvalidState")
     ELSE LET res == WriteResult(hmac.ctx, m) IN
          /\ Len(data) + len <= MaxData
          /\ hmac' = [hmac EXCEPT !.ctx = Written(@, m),
                                  !.hstate = IF res = "OK" THEN @ ELSE "INVALID"]
          /\ ret' = Returned("Update", res)
          /\ data' = IF res = "OK" THEN data \o m ELSE data
          /\ UNCHANGED << pc, digest >>
  /\ UNCHANGED key

(* The caller passes its digest buffer or the null pointer. *)
DigestArguments == { "buffer", NULL }

(* Mutant of FinalResult: the answer of a finalised object is computed     *)
(* once more.                                                              *)
FinalResultAgain(op, d) ==
  /\ pc = "idle"
  /\ IF d = NULL
     THEN ret' = Returned(op, "NullPointer") /\ UNCHANGED << pc, hmac, digest, data >>
     ELSE /\ hmac' = FinishObject(hmac).obj
          /\ ret' = Returned(op, "OK")
          /\ digest' = FinishObject(hmac).obj.buf
          /\ UNCHANGED << pc, data >>
  /\ UNCHANGED key

(* HMAC::finalResult, which is both Finalise and Result.  A finalised      *)
(* object copies buf out; an open one is finished first.                   *)
FinalResult(op, d) ==
  /\ pc = "idle"
  /\ IF d = NULL
     THEN ret' = Returned(op, "NullPointer") /\ UNCHANGED << pc, hmac, digest, data >>
     ELSE IF hmac.hstate = "FIN"
     THEN ret' = Returned(op, "OK") /\ digest' = hmac.buf /\ UNCHANGED << pc, hmac, data >>
     ELSE IF hmac.hstate # "IPAD" THEN CheckFails(op, "InvalidState")
     ELSE LET end == FinishObject(hmac) IN
          /\ hmac' = end.obj
          /\ ret' = Returned(op, end.res)
          /\ digest' = IF end.res = "OK" THEN end.obj.buf ELSE digest
          /\ UNCHANGED << pc, data >>
  /\ UNCHANGED key

-----------------------------------------------------------------------------
(* Before the first object its storage holds zeroes. *)
Init ==
  /\ hmac = [hstate |-> "INIT", ctx |-> NewHash, k |-> ZeroBytes(HMAC_KEY_LENGTH),
             buf |-> ZeroBytes(SHA256_HASH_SIZE)]
  /\ pc = "none"
  /\ ret = NoCall
  /\ digest = NoDigest
  /\ key = << >>
  /\ data = << >>

Next ==
  \/ \E ik \in Keys : Construct(ik)
  \/ Destroy
  \/ Reset
  \/ \E a \in UpdateArguments : Update(a[1], a[2])
  \/ \E op \in {"Finalise", "Result"}, d \in DigestArguments : FinalResult(op, d)

Spec == Init /\ [][Next]_vars

-----------------------------------------------------------------------------
(* FIPS 198-1: the key K0 of a block's length, and the code of a message.  *)
K0(ik) ==
  IF Len(ik) = HMAC_KEY_LENGTH THEN ik
  ELSE IF Len(ik) > HMAC_KEY_LENGTH
  THEN Sha(ik) \o ZeroBytes(HMAC_KEY_LENGTH - SHA256_HASH_SIZE)
  ELSE ik \o ZeroBytes(HMAC_KEY_LENGTH - Len(ik))

MAC(ik, d) == Sha(Padded(K0(ik), opad) \o Sha(Padded(K0(ik), ipad) \o d))

(* Whatever calls were made, refused or repeated, an object is in one of   *)
(* two states between calls: open, and ctx has taken the ipad block of its *)
(* key and then exactly the data written since the last reset; or          *)
(* finalised, with ctx closed.  HMAC_INIT, HMAC_OPAD and HMAC_INVALID are  *)
(* never seen, so no call of ctx is ever refused.                          *)
InnerInv ==
  pc = "idle" =>
    \/ /\ hmac.hstate = "IPAD"
       /\ hmac.ctx = [data |-> Padded(K0(key), ipad) \o data, complete |-> FALSE]
    \/ hmac.hstate = "FIN" /\ hmac.ctx.complete

(* A finalised object holds, and has handed out or will hand out, the code *)
(* that FIPS 198-1 gives for its key and the data written: with keys       *)
(* shorter than, as long as and longer than a block.                       *)
MacInv ==
  pc = "idle" /\ hmac.hstate = "FIN" => hmac.buf = MAC(key, data) /\ digest = hmac.buf

(* Between calls the object keeps its key, and when there is no object no  *)
(* byte of key or result is left in k and buf.                             *)
KeyInv ==
  /\ pc = "idle" => hmac.k = K0(key)
  /\ pc = "none" => /\ hmac.k = ZeroBytes(HMAC_KEY_LENGTH)
                    /\ hmac.buf = ZeroBytes(SHA256_HASH_SIZE)

(* Reset "is equivalent to constructing a new HMAC, but it preserves the   *)
(* keys" (hmac.h): whatever the object had been through, it is now the     *)
(* object that the constructor makes of the same key.                      *)
AfterReset == pc = "idle" /\ ret.op = "Reset" => hmac = NewObject(key)

(* The object implements the abstract Hash whose digest is the code under  *)
(* the key it was constructed with: each step is a step of that Hash or    *)
(* changes nothing that Hash sees.  Where there is no object, it matters   *)
(* whether the last one had been finalised when it went.                   *)
Finalised == IF pc = "idle" THEN hmac.hstate = "FIN" ELSE digest # NoDigest

H(ik) == INSTANCE Hash WITH
           finalised <- Finalised,
           Digest    <- LAMBDA d : MAC(ik, d)

ImplementsHash ==
  /\ H(<< >>)!Init
  /\ [][\E ik \in Keys : key' = ik /\ H(ik)!Next]_<< data, Finalised, ret, digest >>
=============================================================================
