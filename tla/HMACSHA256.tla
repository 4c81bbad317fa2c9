----------------------------- MODULE HMACSHA256 -----------------------------
(***************************************************************************)
(* One object of class HMAC with a real SHA-256 object inside, and the     *)
(* program that calls it; and ComputeHMAC, which has an object of its own. *)
(*                                                                         *)
(* Module HMAC has the same class over a SHA-256 object that is only its   *)
(* data.  Here that object is its message block, index, length and blocks  *)
(* compressed, with the length limit that both passes of HMAC count        *)
(* towards, and what is done past the limit is done to this object's       *)
(* memory.                                                                 *)
(***************************************************************************)
EXTENDS SHA256Methods

CONSTANTS
  SHA256_HASH_SIZE,(* bytes of a digest                                    *)
  HashByte(_, _),  (* byte j of the digest that the blocks compressed give *)
  Xor(_, _),       (* a byte of the key exclusive-or ipad or opad          *)
  Filler,          (* bytes between mb, the last member of ctx, and k      *)
  Keys,            (* the keys the caller has                              *)
  Messages,        (* the byte sequences the caller passes to Update       *)
  MaxData,         (* bound: bytes the caller writes between two resets    *)
  NoDigest,        (* a digest buffer before anything is written           *)
  NoShot           (* no call of ComputeHMAC since the last object         *)

HMAC_KEY_LENGTH == MB_SIZE

(* The key block and a digest can be counted: 96 bytes, of 2^29.  The key  *)
(* the caller passes stays below the limit too.  The address of a member   *)
(* or of a local array is not the null pointer.                            *)
ASSUME HMACSHA256Assumption ==
  /\ SHA256_HASH_SIZE \in 1 .. HMAC_KEY_LENGTH
  /\ 8 * (HMAC_KEY_LENGTH + SHA256_HASH_SIZE) < LEN_MOD
  /\ \A ik \in Keys : 8 * Len(ik) < LEN_MOD
  /\ Keys \subseteq Seq(Byte) /\ Messages \subseteq Seq(Byte)
  /\ NULL \notin Seq(Byte) \cup { "k", "buf" }
  /\ Filler \in Nat /\ MaxData \in Nat

VARIABLES
  hmac,     (* the object: hstate, ctx, k and buf                          *)
  pc,       (* "none" (no object), "idle", "aborted", or "stopped" (the    *)
            (* program was aborted inside ComputeHMAC)                     *)
  ret,      (* the last call of the object that returned and its result    *)
  digest,   (* the caller's digest buffer                                  *)
  oneShot,  (* the last call of ComputeHMAC: arguments, result, digest     *)
  ndebug,   (* whether the build turns asserts off                         *)
  key,      (* history: the key the object's constructor made of its       *)
            (* arguments                                                   *)
  data,     (* history: bytes written since construction or reset          *)
  sound     (* history: every byte since then was counted, and no store    *)
            (* has changed k                                               *)

vars == << hmac, pc, ret, digest, oneShot, ndebug, key, data, sound >>

-----------------------------------------------------------------------------
(* Digest of a context, byte by byte, and blocks of zeroes and of key.     *)
DigestOf(c) == [j \in 1 .. SHA256_HASH_SIZE |-> HashByte(c.i_hash, j)]

ZeroBytes(n) == [j \in 1 .. n |-> Zero]
ipad == "ipad"
opad == "opad"
Padded(k, pad) == [j \in 1 .. HMAC_KEY_LENGTH |-> Xor(k[j], pad)]

(* What the constructor leaves in k: the key, or for one that is too long  *)
(* its digest, and zeroes behind.  What Update and Result return is        *)
(* ignored: a null pointer with a great length gives the digest of nothing.*)
KeyBlock(ik, ikl) ==
  LET hashed == DigestOf(Answered(Updated(NewContext, ik, ikl), "k")) IN
  [j \in 1 .. HMAC_KEY_LENGTH |->
     IF ikl <= HMAC_KEY_LENGTH THEN IF j <= ikl THEN ik[j] ELSE Zero
     ELSE IF j <= SHA256_HASH_SIZE THEN hashed[j] ELSE Zero]

(* HMAC::reset. *)
ResetResult(h) == UpdateResult(ResetContext(h.ctx), Padded(h.k, ipad), HMAC_KEY_LENGTH)
ResetObject(h) ==
  [h EXCEPT !.ctx = Updated(ResetContext(@), Padded(h.k, ipad), HMAC_KEY_LENGTH),
            !.buf = ZeroBytes(SHA256_HASH_SIZE),
            !.hstate = IF ResetResult(h) = "OK" THEN "IPAD" ELSE "INVALID"]

(* HMAC::HMAC. *)
NewObject(ik, ikl) ==
  ResetObject([hstate |-> "INIT", ctx |-> NewContext, k |-> KeyBlock(ik, ikl),
               buf |-> ZeroBytes(SHA256_HASH_SIZE)])

(* Mutant of DestroyedObject: the destructor of ctx does nothing. *)
DestroyedKeepsBlock(h) == [ResetObject(h) EXCEPT !.k = ZeroBytes(HMAC_KEY_LENGTH)]

(* HMAC::~HMAC: a reset, k is overwritten, and then ctx is destroyed. *)
DestroyedObject(h) ==
  [ResetObject(h) EXCEPT !.k = ZeroBytes(HMAC_KEY_LENGTH), !.ctx = DestroyContext(@)]

(* Where a store past mb lands in a build that carries it out: k and buf   *)
(* are the members after ctx.                                              *)
StoredPast(h, b) ==
  LET at == h.ctx.mbi - MB_SIZE - Filler IN
  IF at \in 0 .. HMAC_KEY_LENGTH - 1 THEN [h EXCEPT !.k[at + 1] = b]
  ELSE IF at - HMAC_KEY_LENGTH \in 0 .. SHA256_HASH_SIZE - 1
  THEN [h EXCEPT !.buf[at - HMAC_KEY_LENGTH + 1] = b]
  ELSE h

(* A byte goes into ctx, as an iteration of the loop in SHA256::Update. *)
TakenByte(h, b, carriedOut) ==
  LET stored == IF h.ctx.mbi >= MB_SIZE /\ carriedOut THEN StoredPast(h, b) ELSE h
  IN  [stored EXCEPT !.ctx = AbsorbByte(@, b)]

TakenBytes(h, m, carriedOut) ==
  LET after[n \in 0 .. Len(m)] ==
        IF n = 0 THEN h ELSE TakenByte(after[n - 1], m[n], carriedOut)
  IN  after[Len(m)]

StoresPast(h, m) ==
  \E n \in 0 .. Len(m) - 1 : TakenBytes(h, SubSeq(m, 1, n), FALSE).ctx.mbi >= MB_SIZE

(* What a call does: whether its EMSHA_CHECKs hold, its result, the object *)
(* afterwards.                                                             *)
Refused(h, res) == [check |-> FALSE, res |-> res, obj |-> h]
Done(h, res)    == [check |-> TRUE, res |-> res, obj |-> h]
Spoilt(h, res)  == Done([h EXCEPT !.hstate = "INVALID"], res)

(* HMAC::Update. *)
UpdateCall(h, m, len, carriedOut) ==
  LET res == UpdateResult(h.ctx, m, len) IN
  IF m = NULL               THEN Refused(h, "NullPointer")
  ELSE IF h.hstate # "IPAD" THEN Refused(h, "InvalidState")
  ELSE IF res # "OK"        THEN Spoilt(h, res)
  ELSE Done(TakenBytes(h, m, carriedOut), "OK")

(* Mutant of FinishCall: ctx is not reset between the passes. *)
FinishWithoutReset(h) ==
  LET inner  == Answered(h.ctx, "buf")
      opened == [h EXCEPT !.ctx = inner, !.buf = DigestOf(inner)]
  IN  Spoilt(opened, UpdateResult(inner, Padded(h.k, opad), HMAC_KEY_LENGTH))

(* The computation of HMAC::finalResult: the inner digest goes to buf, ctx *)
(* starts over with the opad block and takes buf, and the outer digest     *)
(* goes to buf.  Every answer of ctx is looked at.                         *)
FinishCall(h) ==
  LET inner  == Answered(h.ctx, "buf")
      outer  == Padded(h.k, opad)
      opened == [h EXCEPT !.ctx = ResetContext(inner), !.buf = DigestOf(inner)]
      keyed  == [opened EXCEPT !.ctx = Updated(@, outer, HMAC_KEY_LENGTH), !.hstate = "OPAD"]
      taken  == [keyed EXCEPT !.ctx = Updated(@, keyed.buf, SHA256_HASH_SIZE)]
      closed == Finalised(taken.ctx, "buf")
      opens  == UpdateResult(opened.ctx, outer, HMAC_KEY_LENGTH)
      takes  == UpdateResult(keyed.ctx, keyed.buf, SHA256_HASH_SIZE)
      closes == FinaliseResult(taken.ctx, "buf")
  IN  IF ResultResult(h.ctx, "buf") # "OK" THEN Spoilt(h, "InvalidState")
      ELSE IF opens # "OK"  THEN Spoilt(opened, opens)
      ELSE IF takes # "OK"  THEN Spoilt(keyed, takes)
      ELSE IF closes # "OK" THEN Spoilt(taken, closes)
      ELSE Done([taken EXCEPT !.ctx = closed, !.buf = DigestOf(closed), !.hstate = "FIN"], "OK")

(* HMAC::finalResult, which is both Finalise and Result.  Where the result *)
(* is OK, buf has been copied to d.                                        *)
FinalResultCall(h, d) ==
  IF d = NULL               THEN Done(h, "NullPointer")
  ELSE IF h.hstate = "FIN"  THEN Done(h, "OK")
  ELSE IF h.hstate # "IPAD" THEN Refused(h, "InvalidState")
  ELSE FinishCall(h)

-----------------------------------------------------------------------------
(* What the caller passes: a buffer with its length, or the null pointer.  *)
(* A null pointer for a key of nonzero length that is not too long would   *)
(* be read, and is not passed.                                             *)
KeyArguments == { << ik, Len(ik) >> : ik \in Keys }
                \cup { << NULL, 0 >>, << NULL, HMAC_KEY_LENGTH + 1 >> }
UpdateArguments == { << m, Len(m) >> : m \in Messages } \cup { << NULL, 0 >>, << NULL, 1 >> }
DigestArguments == { "buffer", NULL }

(* The digest of data as the code computes it, and the key that the        *)
(* constructor makes of its arguments.                                     *)
ShaByte(x, j) == HashByte(PaddedBlocks(x, Gap(x)), j)
EffectiveKey(ik, ikl) ==
  IF ik # NULL THEN ik
  ELSE IF ikl = 0 THEN << >>
  ELSE [j \in 1 .. SHA256_HASH_SIZE |-> ShaByte(<< >>, j)]
EffectiveKeys == { EffectiveKey(a[1], a[2]) : a \in KeyArguments }

(* The definitions of FIPS 198-1 are those of module HMAC: K0 and MAC. *)
FIPS == INSTANCE HMAC WITH Keys <- EffectiveKeys, NDEBUG <- TRUE

-----------------------------------------------------------------------------
(* An object is constructed.  The caller starts with a clear buffer. *)
Construct(ik, ikl) ==
  /\ pc = "none"
  /\ pc' = "idle"
  /\ hmac' = NewObject(ik, ikl)
  /\ key' = EffectiveKey(ik, ikl)
  /\ data' = << >>
  /\ sound' = TRUE
  /\ digest' = NoDigest
  /\ oneShot' = NoShot
  /\ UNCHANGED << ret, ndebug >>

Destroy ==
  /\ pc = "idle"
  /\ pc' = "none"
  /\ hmac' = DestroyedObject(hmac)
  /\ UNCHANGED << ret, digest, oneShot, ndebug, key, data, sound >>

(* HMAC::Reset.  The object can be relied on again if k still is its key.  *)
Reset ==
  /\ pc = "idle"
  /\ hmac' = ResetObject(hmac)
  /\ ret' = Returned("Reset", ResetResult(hmac))
  /\ data' = << >>
  /\ sound' = (hmac.k = FIPS!K0(key))
  /\ digest' = NoDigest
  /\ UNCHANGED << pc, oneShot, ndebug, key >>

(* A call of the object returns; or, where a check does not hold and       *)
(* asserts are on, the program is aborted.                                 *)
Outcome(op, call) ==
  /\ hmac' = call.obj
  /\ IF call.check \/ ndebug THEN ret' = Returned(op, call.res) /\ UNCHANGED pc
                             ELSE pc' = "aborted" /\ UNCHANGED ret

Update(m, len, carriedOut) ==
  /\ pc = "idle"
  /\ LET call == UpdateCall(hmac, m, len, carriedOut) IN
     /\ Outcome("Update", call)
     /\ IF call.res = "OK"
        THEN /\ Len(data) + len <= MaxData
             /\ data' = data \o m
             /\ sound' = (sound /\ 8 * (HMAC_KEY_LENGTH + Len(data) + len) < LEN_MOD)
        ELSE UNCHANGED << data, sound >>
  /\ UNCHANGED << digest, oneShot, ndebug, key >>

(* A store past mb is undefined.  Besides doing nothing that shows and     *)
(* landing where the array's address says, it is caught in a build whose   *)
(* std::array checks its index.                                            *)
UpdateCaught(m) ==
  /\ pc = "idle"
  /\ hmac.hstate = "IPAD"
  /\ Len(data) + Len(m) <= MaxData
  /\ StoresPast(hmac, m)
  /\ pc' = "aborted"
  /\ sound' = FALSE
  /\ UNCHANGED << hmac, ret, digest, oneShot, ndebug, key, data >>

FinalResult(op, d) ==
  /\ pc = "idle"
  /\ LET call == FinalResultCall(hmac, d) IN
     /\ Outcome(op, call)
     /\ digest' = IF call.res = "OK" THEN call.obj.buf ELSE digest
  /\ UNCHANGED << oneShot, ndebug, key, data, sound >>

(* Mutant of ShotResult: the result of Result is dropped. *)
ShotResultFirst(written, answered) == written

(* The call of ComputeHMAC's object that its result is from: Result, if    *)
(* Update returned OK.                                                     *)
ShotResult(written, answered) == IF written.res = "OK" THEN answered ELSE written

(* ComputeHMAC constructs an object, calls Update and Result, and destroys *)
(* the object.  It has nothing to do with the caller's object and is       *)
(* called before there is one, with messages below the limit (bounds).     *)
ComputeHMAC(ka, ma, d) ==
  /\ pc = "none"
  /\ hmac.hstate = "INIT"
  /\ 8 * (HMAC_KEY_LENGTH + ma[2]) < LEN_MOD
  /\ LET written  == UpdateCall(NewObject(ka[1], ka[2]), ma[1], ma[2], FALSE)
         answered == FinalResultCall(written.obj, d)
         call     == ShotResult(written, answered)
     IN  IF call.check \/ ndebug
         THEN /\ oneShot' = [key |-> EffectiveKey(ka[1], ka[2]), m |-> ma[1], d |-> d,
                             res |-> call.res,
                             digest |-> IF call.res = "OK" THEN call.obj.buf ELSE NoDigest]
              /\ UNCHANGED pc
         ELSE pc' = "stopped" /\ UNCHANGED oneShot
  /\ UNCHANGED << hmac, ret, digest, ndebug, key, data, sound >>

-----------------------------------------------------------------------------
(* Before the first object its storage holds zeroes. *)
Init ==
  /\ hmac = [hstate |-> "INIT", ctx |-> NewContext, k |-> ZeroBytes(HMAC_KEY_LENGTH),
             buf |-> ZeroBytes(SHA256_HASH_SIZE)]
  /\ pc = "none"
  /\ ret = NoCall
  /\ digest = NoDigest
  /\ oneShot = NoShot
  /\ ndebug \in BOOLEAN
  /\ key = << >>
  /\ data = << >>
  /\ sound = TRUE

Next ==
  \/ \E a \in KeyArguments : Construct(a[1], a[2])
  \/ Destroy
  \/ Reset
  \/ \E a \in UpdateArguments, carriedOut \in BOOLEAN : Update(a[1], a[2], carriedOut)
  \/ \E m \in Messages : UpdateCaught(m)
  \/ \E op \in { "Finalise", "Result" }, d \in DigestArguments : FinalResult(op, d)
  \/ \E ka \in KeyArguments, ma \in UpdateArguments, d \in DigestArguments :
       ComputeHMAC(ka, ma, d)

Spec == Init /\ [][Next]_vars

-----------------------------------------------------------------------------
(* The data that have gone into ctx since it was reset: the ipad block and *)
(* what was written, or the opad block and the inner digest.               *)
KeyPad(pad) == FIPS!Padded(FIPS!K0(key), pad)
InnerData ==
  IF hmac.hstate = "INIT"      THEN << >>
  ELSE IF pc = "none"          THEN KeyPad(ipad)
  ELSE IF hmac.hstate = "IPAD" THEN KeyPad(ipad) \o data
  ELSE KeyPad(opad) \o FIPS!Sha(KeyPad(ipad) \o data)

(* The SHA-256 object inside holds exactly that, between any two calls and *)
(* in both passes: while it is open its blocks and mb are those data and   *)
(* mlen counts the key block with them; once it is closed its blocks are   *)
(* the padded opad block and inner digest.                                 *)
InnerInv ==
  pc = "idle" /\ sound =>
    \/ /\ hmac.hstate = "IPAD"
       /\ hmac.ctx.hComplete = 0
       /\ Represents(hmac.ctx, InnerData)
    \/ /\ hmac.hstate = "FIN"
       /\ hmac.ctx.hComplete = 1
       /\ hmac.ctx.i_hash = PaddedBlocks(InnerData, Gap(InnerData))

(* The class over the real SHA-256 object is the class over the abstract   *)
(* one, as long as every byte was counted: each step is a step of HMAC, in *)
(* both builds, or nothing that HMAC sees.  A Reset brings it back after   *)
(* the limit was passed, unless a store past mb has changed k.             *)
AbstractObject == [hstate |-> hmac.hstate, k |-> hmac.k, buf |-> hmac.buf,
                   ctx |-> [data |-> InnerData, complete |-> hmac.ctx.hComplete = 1]]
AbstractPc     == IF pc = "stopped" THEN "none" ELSE pc

Released == INSTANCE HMAC WITH
              hmac <- AbstractObject, pc <- AbstractPc, Keys <- EffectiveKeys, NDEBUG <- TRUE
Debug    == INSTANCE HMAC WITH
              hmac <- AbstractObject, pc <- AbstractPc, Keys <- EffectiveKeys, NDEBUG <- FALSE

ImplementsHMAC ==
  /\ Released!Init
  /\ [][sound' => IF ndebug THEN Released!Next ELSE Debug!Next]_(Released!vars)

(* Reset "is equivalent to constructing a new HMAC, but it preserves the   *)
(* keys" (hmac.h), also past the limit: if k is still the key, a reset     *)
(* object is the one the constructor makes, down to mb and mlen.           *)
ResetIsNew ==
  [][Reset /\ hmac.k = FIPS!K0(key) => hmac' = NewObject(key, Len(key))]_vars

(* ComputeHMAC returns OK only with the code of its key and message, for   *)
(* keys of every length and a null key too long: the code of FIPS 198-1    *)
(* whose hash is that of the code's own padding, with its gap, and whose   *)
(* key is the one the constructor works with (EffectiveKey).  A null       *)
(* message is refused in a build without asserts, whatever its length, and *)
(* stops the program in one with them.                                     *)
OneShotInv ==
  oneShot # NoShot =>
    IF oneShot.m = NULL \/ oneShot.d = NULL
    THEN oneShot.res = "NullPointer" /\ oneShot.digest = NoDigest /\ (oneShot.m = NULL => ndebug)
    ELSE oneShot.res = "OK" /\ oneShot.digest = FIPS!MAC(oneShot.key, oneShot.m)

(* When an object is gone, whatever had been done to it and however far    *)
(* past the limit, no byte of key, message or result is left in mb, k and  *)
(* buf.                                                                    *)
NothingLeft ==
  pc = "none" => /\ hmac.ctx.mb = ZeroBlock
                 /\ hmac.k = ZeroBytes(HMAC_KEY_LENGTH)
                 /\ hmac.buf = ZeroBytes(SHA256_HASH_SIZE)

-----------------------------------------------------------------------------
(* What the repository's documents say and the code does not do.           *)

(* Reset "is equivalent to constructing a new HMAC, but it preserves the   *)
(* keys": where it returns OK the object is the one that the constructor   *)
(* makes of the same key, whatever was written to it before, also past the *)
(* length limit, where stores land behind mb.                              *)
ResetPreservesKeys ==
  pc = "idle" /\ ret = Returned("Reset", "OK") => hmac = NewObject(key, Len(key))

(* The keys that an object works with although SHA256::Update refused the  *)
(* one that was passed.                                                    *)
RefusedKeys ==
  { EffectiveKey(a[1], a[2]) : a \in
      { b \in KeyArguments : /\ b[2] > HMAC_KEY_LENGTH
                            /\ UpdateResult(NewContext, b[1], b[2]) # "OK" } }

(* "Faults that occur in the SHA-256 code will be propagated up as the     *)
(* return value from many of the HMAC functions": an object whose key the  *)
(* SHA-256 code refused to take, when the constructor wanted its digest,   *)
(* does not go on to hand out a code under another key.                    *)
KeyFaultPropagated == pc = "idle" /\ key \in RefusedKeys => digest = NoDigest
=============================================================================
