----------------------------- MODULE HMACProofs -----------------------------
(***************************************************************************)
(* Class HMAC computes the code of FIPS 198-1 and is a Hash, for keys and  *)
(* messages of every length, every digest function and every sequence of   *)
(* calls, in builds with and without asserts.                              *)
(***************************************************************************)
EXTENDS HMAC, SequenceTheorems, TLAPS

CONSTANT Byte  (* the values a byte can have *)

(* What is computed from bytes is a byte, and the caller passes bytes. *)
BytesAreBytes ==
  /\ Zero \in Byte
  /\ \A x \in Byte : Xor(x, ipad) \in Byte /\ Xor(x, opad) \in Byte
  /\ \A d \in Seq(Byte), j \in 1 .. SHA256_HASH_SIZE : ShaByte(d, j) \in Byte
  /\ Keys \subseteq Seq(Byte)
  /\ Messages \subseteq Seq(Byte)
  /\ NoDigest \notin Seq(Byte)

Object == [ hstate : {"INIT", "IPAD", "FIN"},
            ctx    : [data : Seq(Byte), complete : BOOLEAN],
            k      : Seq(Byte),
            buf    : Seq(Byte) ]

(* The object between calls is open or finalised; the caller's buffer      *)
(* follows it.                                                             *)
Open ==
  /\ hmac.hstate = "IPAD"
  /\ hmac.ctx = [data |-> Padded(K0(key), ipad) \o data, complete |-> FALSE]
  /\ digest = NoDigest

Closing ==
  /\ hmac.hstate = "FIN"
  /\ hmac.ctx.complete
  /\ hmac.buf = MAC(key, data)
  /\ digest = hmac.buf

Typed ==
  /\ pc \in {"none", "idle", "aborted"}
  /\ hmac \in Object
  /\ key \in Seq(Byte) /\ data \in Seq(Byte)

Inductive ==
  /\ Typed
  /\ pc # "none" => key \in Keys /\ hmac.k = K0(key) /\ (Open \/ Closing)
  /\ pc = "none" => /\ hmac.k = ZeroBytes(HMAC_KEY_LENGTH)
                    /\ hmac.buf = ZeroBytes(SHA256_HASH_SIZE)
  /\ pc = "none" /\ digest # NoDigest => digest = MAC(key, data)
  /\ AfterReset

-----------------------------------------------------------------------------
(* The helpers return sequences of bytes of their length. *)
LEMMA HelperTypes ==
  ASSUME BytesAreBytes
  PROVE  /\ \A d \in Seq(Byte) : Sha(d) \in Seq(Byte) /\ Len(Sha(d)) = SHA256_HASH_SIZE
                                 /\ Sha(d) # << >>
         /\ \A n \in Nat : ZeroBytes(n) \in Seq(Byte) /\ Len(ZeroBytes(n)) = n
         /\ \A k \in Seq(Byte), pad \in {ipad, opad} : Len(k) = HMAC_KEY_LENGTH =>
              Padded(k, pad) \in Seq(Byte)
<1>1. ASSUME NEW d \in Seq(Byte)
      PROVE  Sha(d) \in Seq(Byte) /\ Len(Sha(d)) = SHA256_HASH_SIZE /\ Sha(d) # << >>
  <2>1. Sha(d) \in [1 .. SHA256_HASH_SIZE -> Byte]  BY DEF BytesAreBytes, Sha
  <2>2. Sha(d) \in Seq(Byte) /\ Len(Sha(d)) = SHA256_HASH_SIZE
    BY <2>1, HMACAssumption
  <2> QED  BY <2>2, HMACAssumption
<1>2. ASSUME NEW n \in Nat
      PROVE  ZeroBytes(n) \in Seq(Byte) /\ Len(ZeroBytes(n)) = n
  <2>1. ZeroBytes(n) \in [1 .. n -> Byte]  BY DEF BytesAreBytes, ZeroBytes
  <2> QED  BY <2>1
<1>3. ASSUME NEW k \in Seq(Byte), NEW pad \in {ipad, opad}, Len(k) = HMAC_KEY_LENGTH
      PROVE  Padded(k, pad) \in Seq(Byte)
  <2>1. \A j \in 1 .. HMAC_KEY_LENGTH : k[j] \in Byte  BY <1>3
  <2>2. Padded(k, pad) \in [1 .. HMAC_KEY_LENGTH -> Byte]
    BY <2>1 DEF BytesAreBytes, Padded
  <2> QED  BY <2>2, HMACAssumption
<1> QED  BY <1>1, <1>2, <1>3

(* A fresh hash takes any write. *)
LEMMA FreshWrite ==
  ASSUME NEW S, NEW m \in Seq(S)
  PROVE  /\ WriteResult(NewHash, m) = "OK"
         /\ Written(NewHash, m) = [data |-> m, complete |-> FALSE]
<1>1. << >> \o m = m  OBVIOUS
<1> QED  BY <1>1 DEF WriteResult, Written, NewHash

(* What the constructor puts in k is the key K0 of FIPS 198-1. *)
LEMMA KeyBlockIsK0 ==
  ASSUME BytesAreBytes, NEW ik \in Seq(Byte)
  PROVE  /\ KeyBlock(ik) = K0(ik)
         /\ K0(ik) \in Seq(Byte) /\ Len(K0(ik)) = HMAC_KEY_LENGTH
<1> DEFINE B == HMAC_KEY_LENGTH
           Fill(used) == [j \in 1 .. B |-> IF j <= Len(used) THEN used[j] ELSE Zero]
<1>1. ASSUME NEW used \in Seq(Byte), Len(used) <= B
      PROVE  /\ Fill(used) = used \o ZeroBytes(B - Len(used))
             /\ Fill(used) \in Seq(Byte) /\ Len(Fill(used)) = B
  <2>1. B - Len(used) \in Nat  BY <1>1, HMACAssumption
  <2>2. /\ ZeroBytes(B - Len(used)) \in Seq(Byte)
        /\ Len(ZeroBytes(B - Len(used))) = B - Len(used)
        /\ \A j \in 1 .. B - Len(used) : ZeroBytes(B - Len(used))[j] = Zero
    BY <2>1, HelperTypes DEF ZeroBytes
  <2>3. Fill(used) \in [1 .. B -> Byte]
    BY <1>1, HMACAssumption DEF BytesAreBytes
  <2>4. Fill(used) \in Seq(Byte) /\ Len(Fill(used)) = B
    BY <2>3, HMACAssumption
  <2>5. /\ used \o ZeroBytes(B - Len(used)) \in Seq(Byte)
        /\ Len(used \o ZeroBytes(B - Len(used))) = B
    BY <1>1, <2>2, HMACAssumption
  <2>6. \A j \in 1 .. B : Fill(used)[j] = (used \o ZeroBytes(B - Len(used)))[j]
    BY <1>1, <2>2, HMACAssumption
  <2> HIDE DEF Fill
  <2> QED  BY <2>4, <2>5, <2>6, SeqEqual
<1>2. CASE Len(ik) = B
  <2>1. KeyBlock(ik) = Fill(ik)  BY <1>2, HMACAssumption DEF KeyBlock
  <2>2. Fill(ik) = ik
    <3>1. Fill(ik) \in Seq(Byte) /\ Len(Fill(ik)) = B  BY <1>1, <1>2, HMACAssumption
    <3>2. \A j \in 1 .. B : Fill(ik)[j] = ik[j]  BY <1>2
    <3> HIDE DEF Fill
    <3> QED  BY <1>2, <3>1, <3>2, SeqEqual
  <2> QED  BY <1>2, <2>1, <2>2 DEF K0
<1>3. CASE Len(ik) > B
  <2>1. Written(NewHash, ik).data = ik  BY FreshWrite
  <2>2. KeyBlock(ik) = Fill(Sha(ik))  BY <1>3, <2>1, HMACAssumption DEF KeyBlock
  <2>3. Sha(ik) \in Seq(Byte) /\ Len(Sha(ik)) = SHA256_HASH_SIZE  BY HelperTypes
  <2>4. /\ Fill(Sha(ik)) = Sha(ik) \o ZeroBytes(B - SHA256_HASH_SIZE)
        /\ Fill(Sha(ik)) \in Seq(Byte) /\ Len(Fill(Sha(ik))) = B
    BY <1>1, <2>3, HMACAssumption
  <2>5. K0(ik) = Sha(ik) \o ZeroBytes(B - SHA256_HASH_SIZE)
    BY <1>3, HMACAssumption DEF K0
  <2> HIDE DEF Fill
  <2> QED  BY <2>2, <2>4, <2>5
<1>4. CASE Len(ik) < B
  <2>1. KeyBlock(ik) = Fill(ik)  BY <1>4, HMACAssumption DEF KeyBlock
  <2>2. K0(ik) = ik \o ZeroBytes(B - Len(ik))
    BY <1>4, HMACAssumption DEF K0
  <2>3. Fill(ik) = ik \o ZeroBytes(B - Len(ik)) /\ Fill(ik) \in Seq(Byte) /\ Len(Fill(ik)) = B
    BY <1>1, <1>4, HMACAssumption
  <2> HIDE DEF Fill
  <2> QED  BY <2>1, <2>2, <2>3
<1>5. Len(ik) \in Nat /\ B \in Nat  BY HMACAssumption
<1> QED  BY <1>2, <1>3, <1>4, <1>5

(* Objects are equal when their members are. *)
LEMMA ObjectEqual ==
  ASSUME NEW g \in Object, NEW h \in Object,
         g.hstate = h.hstate, g.ctx = h.ctx, g.k = h.k, g.buf = h.buf
  PROVE  g = h
BY SMTT(30) DEF Object

(* Replacing members of an object by values of their type leaves an object. *)
LEMMA ObjectUpdate ==
  ASSUME NEW h \in Object, NEW s \in {"INIT", "IPAD", "FIN"},
         NEW c \in [data : Seq(Byte), complete : BOOLEAN], NEW b \in Seq(Byte)
  PROVE  [h EXCEPT !.hstate = s, !.ctx = c, !.buf = b] \in Object
BY DEF Object

(* What an open context does. *)
LEMMA OpenContext ==
  ASSUME NEW x, NEW m
  PROVE  /\ WriteResult([data |-> x, complete |-> FALSE], m) = "OK"
         /\ FinaliseResult([data |-> x, complete |-> FALSE]) = "OK"
         /\ Written([data |-> x, complete |-> FALSE], m) = [data |-> x \o m, complete |-> FALSE]
         /\ Closed([data |-> x, complete |-> FALSE]) = [data |-> x, complete |-> TRUE]
<1>1. /\ WriteResult([data |-> x, complete |-> FALSE], m) = "OK"
      /\ FinaliseResult([data |-> x, complete |-> FALSE]) = "OK"
  BY DEF WriteResult, FinaliseResult
<1>2. Written([data |-> x, complete |-> FALSE], m) = [data |-> x \o m, complete |-> FALSE]
  BY <1>1 DEF Written
<1>3. Closed([data |-> x, complete |-> FALSE]) = [data |-> x, complete |-> TRUE]
  <2> DEFINE r == [data |-> x, complete |-> FALSE]
             s == [data |-> x, complete |-> TRUE]
             u == [r EXCEPT !.complete = TRUE]
  <2>1. DOMAIN u = {"data", "complete"} /\ DOMAIN s = {"data", "complete"}
    OBVIOUS
  <2>2. u["data"] = s["data"] /\ u["complete"] = s["complete"]  OBVIOUS
  <2>3. \A f \in {"data", "complete"} : u[f] = s[f]  BY <2>2
  <2>4. u = [f \in {"data", "complete"} |-> u[f]] /\ s = [f \in {"data", "complete"} |-> s[f]]
    BY <2>1
  <2> QED  BY <2>3, <2>4 DEF Closed
<1> QED  BY <1>1, <1>2, <1>3

(* reset() makes the object an open one with nothing written. *)
LEMMA ResetEffect ==
  ASSUME BytesAreBytes, NEW h \in Object, Len(h.k) = HMAC_KEY_LENGTH
  PROVE  /\ ResetResult(h) = "OK"
         /\ ResetObject(h) \in Object
         /\ ResetObject(h).hstate = "IPAD"
         /\ ResetObject(h).ctx = [data |-> Padded(h.k, ipad), complete |-> FALSE]
         /\ ResetObject(h).k = h.k
         /\ ResetObject(h).buf = ZeroBytes(SHA256_HASH_SIZE)
<1>1. Padded(h.k, ipad) \in Seq(Byte)  BY HelperTypes DEF Object
<1>2. /\ WriteResult(NewHash, Padded(h.k, ipad)) = "OK"
      /\ Written(NewHash, Padded(h.k, ipad)) =
           [data |-> Padded(h.k, ipad), complete |-> FALSE]
  BY <1>1, FreshWrite
<1>3. ZeroBytes(SHA256_HASH_SIZE) \in Seq(Byte)  BY HelperTypes, HMACAssumption
<1>4. ResetResult(h) = "OK"  BY <1>2 DEF ResetResult
<1>5. ResetObject(h) =
        [h EXCEPT !.ctx = [data |-> Padded(h.k, ipad), complete |-> FALSE],
                  !.buf = ZeroBytes(SHA256_HASH_SIZE), !.hstate = "IPAD"]
  BY <1>2, <1>4 DEF ResetObject
<1>6. [data |-> Padded(h.k, ipad), complete |-> FALSE]
        \in [data : Seq(Byte), complete : BOOLEAN]
  BY <1>1
<1> QED  BY <1>3, <1>4, <1>5, <1>6 DEF Object

(* finalResult() on an open object computes the code of its data. *)
LEMMA FinishEffect ==
  ASSUME BytesAreBytes, NEW h \in Object, NEW d \in Seq(Byte), NEW ik \in Seq(Byte),
         h.k = K0(ik), h.ctx = [data |-> Padded(K0(ik), ipad) \o d, complete |-> FALSE]
  PROVE  /\ FinishObject(h).res = "OK"
         /\ FinishObject(h).obj \in Object
         /\ FinishObject(h).obj.k = h.k
         /\ FinishObject(h).obj.hstate = "FIN"
         /\ FinishObject(h).obj.ctx.complete
         /\ FinishObject(h).obj.buf = MAC(ik, d)
<1> DEFINE inner == Sha(h.ctx.data)
           block == Padded(h.k, opad)
           total == block \o inner
           opened == [h EXCEPT !.buf = inner, !.ctx = NewHash]
           keyed == [opened EXCEPT !.ctx = Written(@, block), !.hstate = "OPAD"]
           outer == [keyed EXCEPT !.ctx = Written(@, inner)]
           end == [outer EXCEPT !.ctx = Closed(@), !.buf = Sha(outer.ctx.data),
                                !.hstate = "FIN"]
<1>1. Len(h.k) = HMAC_KEY_LENGTH /\ h.k \in Seq(Byte)  BY KeyBlockIsK0
<1>2. block \in Seq(Byte) /\ h.ctx.data \in Seq(Byte)
  BY <1>1, HelperTypes DEF Object
<1>3. inner \in Seq(Byte)  BY <1>2, HelperTypes
<1>4. total \in Seq(Byte)
  <2> HIDE DEF inner, block
  <2> QED  BY <1>2, <1>3
<1>5. Sha(total) \in Seq(Byte)  BY <1>4, HelperTypes
<1>6. Sha(total) = MAC(ik, d)  BY DEF MAC
<1>7. /\ WriteResult(opened.ctx, block) = "OK"
      /\ keyed.ctx = [data |-> block, complete |-> FALSE]
  <2>1. opened.ctx = NewHash  BY DEF Object
  <2>2. keyed.ctx = Written(opened.ctx, block)  BY DEF Object
  <2> HIDE DEF opened, keyed, block
  <2> QED  BY <1>2, <2>1, <2>2, FreshWrite
<1>8. /\ WriteResult(keyed.ctx, inner) = "OK"
      /\ outer.ctx = [data |-> total, complete |-> FALSE]
  <2>1. outer.ctx = Written(keyed.ctx, inner)  BY DEF Object
  <2> HIDE DEF keyed, outer, inner, block, total
  <2>2. outer.ctx = [data |-> block \o inner, complete |-> FALSE]
    BY <1>7, <2>1, OpenContext
  <2> QED  BY <1>7, <2>2, OpenContext DEF total
<1>9. FinaliseResult(outer.ctx) = "OK" /\ Closed(outer.ctx) = [data |-> total, complete |-> TRUE]
  <2> HIDE DEF outer, total
  <2> QED  BY <1>8, OpenContext
<1>10. /\ end.hstate = "FIN" /\ end.k = h.k
       /\ end.ctx = Closed(outer.ctx) /\ end.buf = Sha(outer.ctx.data)
       /\ end = [h EXCEPT !.hstate = "FIN", !.ctx = Closed(outer.ctx), !.buf = Sha(outer.ctx.data)]
  BY DEF Object
<1>11. FinishObject(h) = [obj |-> end, res |-> "OK"]
  BY <1>7, <1>8, <1>9 DEF FinishObject
<1>12. [data |-> total, complete |-> TRUE] \in [data : Seq(Byte), complete : BOOLEAN]
  <2> HIDE DEF total
  <2> QED  BY <1>4
<1> HIDE DEF inner, block, opened, keyed, outer, end, total
<1>13. end.ctx = [data |-> total, complete |-> TRUE] /\ end.buf = Sha(total)
  BY <1>8, <1>9, <1>10
<1>14. end \in Object
  <2>1. Closed(outer.ctx) \in [data : Seq(Byte), complete : BOOLEAN]  BY <1>9, <1>12
  <2>2. Sha(outer.ctx.data) \in Seq(Byte)  BY <1>5, <1>8
  <2> QED  BY <1>10, <2>1, <2>2, ObjectUpdate
<1>15. FinishObject(h).obj = end /\ FinishObject(h).res = "OK"  BY <1>11
<1>16. end.ctx.complete  BY <1>13
<1> QED  BY <1>6, <1>10, <1>13, <1>14, <1>15, <1>16
-----------------------------------------------------------------------------
(* The object of a key, before anything is written. *)
LEMMA NewObjectEffect ==
  ASSUME BytesAreBytes, NEW ik \in Seq(Byte)
  PROVE  /\ NewObject(ik) \in Object
         /\ NewObject(ik).hstate = "IPAD"
         /\ NewObject(ik).ctx = [data |-> Padded(K0(ik), ipad), complete |-> FALSE]
         /\ NewObject(ik).k = K0(ik)
         /\ NewObject(ik).buf = ZeroBytes(SHA256_HASH_SIZE)
<1> DEFINE raw == [hstate |-> "INIT", ctx |-> NewHash, k |-> KeyBlock(ik),
                   buf |-> ZeroBytes(SHA256_HASH_SIZE)]
<1>1. KeyBlock(ik) = K0(ik) /\ K0(ik) \in Seq(Byte) /\ Len(K0(ik)) = HMAC_KEY_LENGTH
  BY KeyBlockIsK0
<1>2. NewHash \in [data : Seq(Byte), complete : BOOLEAN]  BY DEF NewHash
<1>3. ZeroBytes(SHA256_HASH_SIZE) \in Seq(Byte)  BY HelperTypes, HMACAssumption
<1>4. raw \in Object /\ raw.k = K0(ik)  BY <1>1, <1>2, <1>3 DEF Object
<1>5. NewObject(ik) = ResetObject(raw)  BY DEF NewObject
<1> HIDE DEF raw
<1> QED  BY <1>1, <1>4, <1>5, ResetEffect

LEMMA InitEstablishes == BytesAreBytes /\ Init => Inductive
<1> SUFFICES ASSUME BytesAreBytes, Init PROVE Inductive  OBVIOUS
<1>1. NewHash \in [data : Seq(Byte), complete : BOOLEAN]  BY DEF NewHash
<1>2. /\ ZeroBytes(SHA256_HASH_SIZE) \in Seq(Byte)
      /\ ZeroBytes(HMAC_KEY_LENGTH) \in Seq(Byte)
  BY HelperTypes, HMACAssumption
<1>3. hmac \in Object  BY <1>1, <1>2 DEF Init, Object
<1> QED  BY <1>3 DEF Init, Inductive, Typed, AfterReset

LEMMA ConstructKeeps ==
  BytesAreBytes /\ Inductive /\ (\E ik \in Keys : Construct(ik)) => Inductive'
<1> SUFFICES ASSUME BytesAreBytes, Inductive, NEW ik \in Keys, Construct(ik)
             PROVE  Inductive'
  OBVIOUS
<1>1. /\ pc' = "idle" /\ hmac' = NewObject(ik) /\ key' = ik /\ data' = << >>
      /\ digest' = NoDigest
  BY DEF Construct
<1>2. ik \in Seq(Byte)  BY DEF BytesAreBytes
<1>3. Padded(K0(ik), ipad) \in Seq(Byte)  BY <1>2, KeyBlockIsK0, HelperTypes
<1>4. Padded(K0(ik), ipad) \o << >> = Padded(K0(ik), ipad)  BY <1>3
<1>5. Open'  BY <1>1, <1>2, <1>4, NewObjectEffect DEF Open
<1>6. hmac' \in Object /\ hmac'.k = K0(key')  BY <1>1, <1>2, NewObjectEffect
<1>7. Typed'  BY <1>1, <1>2, <1>6 DEF Typed
<1> QED  BY <1>1, <1>5, <1>6, <1>7 DEF Inductive, AfterReset

LEMMA DestroyKeeps == BytesAreBytes /\ Inductive /\ Destroy => Inductive'
<1> SUFFICES ASSUME BytesAreBytes, Inductive, Destroy PROVE Inductive'  OBVIOUS
<1>1. /\ pc = "idle" /\ pc' = "none" /\ hmac' = WipedObject(hmac)
      /\ digest' = digest /\ key' = key /\ data' = data
  BY DEF Destroy
<1>2. hmac \in Object /\ hmac.k = K0(key) /\ key \in Seq(Byte)
  BY <1>1 DEF Inductive, Typed
<1>3. Len(hmac.k) = HMAC_KEY_LENGTH  BY <1>2, KeyBlockIsK0
<1>4. /\ ResetObject(hmac) \in Object
      /\ ResetObject(hmac).buf = ZeroBytes(SHA256_HASH_SIZE)
  BY <1>2, <1>3, ResetEffect
<1>5. ZeroBytes(HMAC_KEY_LENGTH) \in Seq(Byte)  BY HelperTypes, HMACAssumption
<1>6. /\ hmac' \in Object
      /\ hmac'.k = ZeroBytes(HMAC_KEY_LENGTH)
      /\ hmac'.buf = ZeroBytes(SHA256_HASH_SIZE)
  BY <1>1, <1>4, <1>5 DEF WipedObject, Object
<1>7. digest # NoDigest => digest = MAC(key, data)
  BY <1>1 DEF Inductive, Open, Closing
<1> QED  BY <1>1, <1>6, <1>7 DEF Inductive, Typed, AfterReset

LEMMA ResetKeeps == BytesAreBytes /\ Inductive /\ Reset => Inductive'
<1> SUFFICES ASSUME BytesAreBytes, Inductive, Reset PROVE Inductive'  OBVIOUS
<1>1. /\ pc = "idle" /\ pc' = "idle" /\ hmac' = ResetObject(hmac)
      /\ digest' = NoDigest /\ key' = key /\ data' = << >>
  BY DEF Reset
<1>2. hmac \in Object /\ hmac.k = K0(key) /\ key \in Seq(Byte) /\ key \in Keys
  BY <1>1 DEF Inductive, Typed
<1>3. Len(hmac.k) = HMAC_KEY_LENGTH  BY <1>2, KeyBlockIsK0
<1>4. /\ hmac' \in Object
      /\ hmac'.hstate = "IPAD"
      /\ hmac'.ctx = [data |-> Padded(K0(key), ipad), complete |-> FALSE]
      /\ hmac'.k = K0(key)
      /\ hmac'.buf = ZeroBytes(SHA256_HASH_SIZE)
  BY <1>1, <1>2, <1>3, ResetEffect
<1>5. hmac' = NewObject(key)
  BY <1>2, <1>4, NewObjectEffect, ObjectEqual
<1>6. Padded(K0(key), ipad) \in Seq(Byte)  BY <1>2, KeyBlockIsK0, HelperTypes
<1>7. Padded(K0(key), ipad) \o << >> = Padded(K0(key), ipad)  BY <1>6
<1>8. Open'  BY <1>1, <1>4, <1>7 DEF Open
<1> QED  BY <1>1, <1>2, <1>4, <1>5, <1>8 DEF Inductive, Typed, AfterReset

(* A call that is refused changes nothing but ret. *)
LEMMA RefusalKeeps ==
  Inductive /\ pc = "idle" /\ pc' \in {"idle", "aborted"}
  /\ UNCHANGED << hmac, digest, key, data >>
  /\ (pc' = "idle" => ret'.op # "Reset")
  => Inductive'
BY DEF Inductive, Typed, Open, Closing, AfterReset, MAC

LEMMA UpdateKeeps ==
  BytesAreBytes /\ Inductive /\ (\E a \in UpdateArguments : Update(a[1], a[2]))
    => Inductive'
<1> SUFFICES ASSUME BytesAreBytes, Inductive, NEW m, NEW len, Update(m, len),
                    m \in Messages \cup {NULL}
             PROVE  Inductive'
  BY DEF UpdateArguments
<1>1. CASE m = NULL \/ hmac.hstate # "IPAD"
  <2>1. \E res : CheckFails("Update", res) /\ UNCHANGED key /\ pc = "idle"
    BY <1>1 DEF Update
  <2> QED  BY <2>1, RefusalKeeps DEF CheckFails, Returned
<1>2. CASE m # NULL /\ hmac.hstate = "IPAD"
  <2>1. /\ pc = "idle" /\ pc' = pc /\ key' = key /\ digest' = digest
        /\ hmac' = [hmac EXCEPT
             !.ctx = Written(@, m),
             !.hstate = IF WriteResult(hmac.ctx, m) = "OK" THEN @ ELSE "INVALID"]
        /\ ret' = Returned("Update", WriteResult(hmac.ctx, m))
        /\ data' = IF WriteResult(hmac.ctx, m) = "OK" THEN data \o m ELSE data
    BY <1>2 DEF Update
  <2> DEFINE block == Padded(K0(key), ipad)
  <2>2. /\ hmac \in Object /\ hmac.k = K0(key) /\ key \in Keys /\ key \in Seq(Byte)
        /\ data \in Seq(Byte) /\ digest = NoDigest
        /\ hmac.ctx = [data |-> block \o data, complete |-> FALSE]
    BY <1>2, <2>1 DEF Inductive, Typed, Open, Closing
  <2>3. m \in Seq(Byte) /\ block \in Seq(Byte)
    BY <1>2, <2>2, KeyBlockIsK0, HelperTypes DEF BytesAreBytes
  <2> HIDE DEF block
  <2>4. /\ WriteResult(hmac.ctx, m) = "OK"
        /\ Written(hmac.ctx, m) = [data |-> (block \o data) \o m, complete |-> FALSE]
    BY <2>2, OpenContext
  <2>5. (block \o data) \o m = block \o (data \o m)  BY <2>2, <2>3, ConcatAssociative, SMTT(30)
  <2>6. data' = data \o m /\ data' \in Seq(Byte) /\ block \o data' \in Seq(Byte)
    BY <2>1, <2>2, <2>3, <2>4
  <2>7. [data |-> block \o data', complete |-> FALSE] \in [data : Seq(Byte), complete : BOOLEAN]
    BY <2>6
  <2>8. hmac' = [hmac EXCEPT !.ctx = [data |-> block \o data', complete |-> FALSE],
                             !.hstate = hmac.hstate]
    BY <2>1, <2>4, <2>5, <2>6
  <2>9. /\ hmac' \in Object /\ hmac'.hstate = "IPAD" /\ hmac'.k = hmac.k
        /\ hmac'.ctx = [data |-> block \o data', complete |-> FALSE]
    BY <1>2, <2>2, <2>7, <2>8 DEF Object
  <2>10. Open'  BY <2>1, <2>2, <2>9 DEF Open, block
  <2>11. ret'.op # "Reset"  BY <2>1 DEF Returned
  <2> QED  BY <2>1, <2>2, <2>6, <2>9, <2>10, <2>11 DEF Inductive, Typed, AfterReset
<1> QED  BY <1>1, <1>2

LEMMA FinalResultKeeps ==
  ASSUME BytesAreBytes, Inductive, NEW op \in {"Finalise", "Result"},
         NEW d \in DigestArguments, FinalResult(op, d)
  PROVE  Inductive'
<1>0. pc = "idle" /\ key' = key  BY DEF FinalResult
<1>1. hmac.hstate \in {"IPAD", "FIN"}  BY <1>0 DEF Inductive, Open, Closing
<1>2. CASE d = NULL
  <2>1. UNCHANGED << hmac, digest, data, pc >> /\ ret'.op = op
    BY <1>2 DEF FinalResult, Returned
  <2> QED  BY <1>0, <2>1, RefusalKeeps
<1>3. CASE d # NULL /\ hmac.hstate = "FIN"
  <2>1. UNCHANGED << hmac, data, pc >> /\ ret'.op = op /\ digest' = hmac.buf
    BY <1>3 DEF FinalResult, Returned
  <2>2. digest = hmac.buf  BY <1>0, <1>3 DEF Inductive, Open, Closing
  <2> QED  BY <1>0, <2>1, <2>2, RefusalKeeps
<1>4. CASE d # NULL /\ hmac.hstate = "IPAD"
  <2>1. /\ hmac' = FinishObject(hmac).obj
        /\ ret' = Returned(op, FinishObject(hmac).res)
        /\ digest' = IF FinishObject(hmac).res = "OK" THEN FinishObject(hmac).obj.buf ELSE digest
        /\ pc' = pc /\ data' = data
    BY <1>4 DEF FinalResult
  <2>2. /\ hmac \in Object /\ hmac.k = K0(key) /\ key \in Keys
        /\ key \in Seq(Byte) /\ data \in Seq(Byte)
        /\ hmac.ctx = [data |-> Padded(K0(key), ipad) \o data, complete |-> FALSE]
    BY <1>0, <1>4 DEF Inductive, Typed, Open, Closing
  <2>3. /\ FinishObject(hmac).res = "OK"
        /\ hmac' \in Object /\ hmac'.k = hmac.k /\ hmac'.hstate = "FIN"
        /\ hmac'.ctx.complete /\ hmac'.buf = MAC(key, data)
    BY <2>1, <2>2, FinishEffect
  <2>4. digest' = hmac'.buf /\ ret'.op = op  BY <2>1, <2>3 DEF Returned
  <2>5. MAC(key', data') = MAC(key, data) /\ K0(key') = K0(key)  BY <1>0, <2>1
  <2>6. Closing'  BY <2>3, <2>4, <2>5 DEF Closing
  <2> QED
    BY <1>0, <2>1, <2>2, <2>3, <2>4, <2>5, <2>6 DEF Inductive, Typed, AfterReset
<1> QED  BY <1>1, <1>2, <1>3, <1>4

LEMMA StepKeeps == BytesAreBytes /\ Inductive /\ [Next]_vars => Inductive'
<1>1. Inductive /\ UNCHANGED vars => Inductive'
  BY DEF Inductive, vars, Typed, Open, Closing, AfterReset, MAC
<1> QED
  BY <1>1, ConstructKeeps, DestroyKeeps, ResetKeeps, UpdateKeeps, FinalResultKeeps DEF Next

LEMMA Invariance == ASSUME BytesAreBytes PROVE Spec => []Inductive
<1>1. Init => Inductive  BY InitEstablishes
<1>2. Inductive /\ [Next]_vars => Inductive'  BY StepKeeps
<1> QED  BY <1>1, <1>2, PTL DEF Spec

-----------------------------------------------------------------------------
(* The code handed out is that of FIPS 198-1 for every key and message:    *)
(* calls that were refused, repeated answers, resets and new objects in    *)
(* the same place leave no trace in it.                                    *)
THEOREM CodeIsFIPS ==
  ASSUME BytesAreBytes PROVE Spec => []MacInv
<1>1. Inductive => MacInv  BY DEF Inductive, MacInv, Open, Closing
<1> QED  BY <1>1, Invariance, PTL

(* Between calls an object is open with exactly its data in the inner      *)
(* hash, or finalised: HMAC_INVALID is never reached.                      *)
THEOREM InnerHashHoldsData ==
  ASSUME BytesAreBytes PROVE Spec => []InnerInv
<1>1. Inductive => InnerInv  BY DEF Inductive, InnerInv, Open, Closing
<1> QED  BY <1>1, Invariance, PTL

(* The key is kept as long as the object lives and no longer. *)
THEOREM KeyIsKeptAndWiped ==
  ASSUME BytesAreBytes PROVE Spec => []KeyInv
<1>1. Inductive => KeyInv  BY DEF Inductive, KeyInv
<1> QED  BY <1>1, Invariance, PTL

(* An object that was reset cannot be told from a new one of the same key. *)
THEOREM ResetIsNew ==
  ASSUME BytesAreBytes PROVE Spec => []AfterReset
<1>1. Inductive => AfterReset  BY DEF Inductive
<1> QED  BY <1>1, Invariance, PTL
-----------------------------------------------------------------------------
(* What the abstract Hash sees tells whether the object is finalised, also *)
(* when it is gone.                                                        *)
Seen ==
  /\ Finalised \in BOOLEAN
  /\ Finalised <=> digest # NoDigest
  /\ Finalised => digest = MAC(key, data)
  /\ pc = "idle" => (Finalised <=> hmac.hstate = "FIN")
  /\ pc = "idle" => (~Finalised <=> hmac.hstate = "IPAD")

LEMMA FinalisedIsWritten == ASSUME BytesAreBytes, Inductive PROVE Seen
<1>1. hmac.buf # NoDigest  BY DEF Inductive, Typed, Object, BytesAreBytes
<1> QED  BY <1>1 DEF Inductive, Open, Closing, Finalised, Seen

(* The same in the next state. *)
LEMMA FinalisedIsWrittenNext == ASSUME BytesAreBytes, Inductive' PROVE Seen'
<1>1. (hmac.buf # NoDigest)'  BY DEF Inductive, Typed, Object, BytesAreBytes
<1> QED  BY <1>1 DEF Inductive, Open, Closing, Finalised, Seen

View == << data, Finalised, ret, digest >>

HashStep == \E ik \in Keys : key' = ik /\ H(ik)!Next

(* A refused call is a refusal of the abstract Hash; a stopped program     *)
(* changes nothing it sees.                                                *)
LEMMA RefusalIsRefusal ==
  ASSUME BytesAreBytes, Inductive, Inductive', pc = "idle",
         NEW op \in {"Update", "Finalise", "Result"},
         NEW res \in {"NullPointer", "InvalidState"},
         res = "InvalidState" => op # "Result" /\ hmac.hstate = "FIN",
         UNCHANGED << hmac, digest, data, key >>,
         \/ ret' = Returned(op, res)
         \/ ret' = ret
  PROVE  HashStep \/ UNCHANGED View
<1>1. Finalised' <=> Finalised  BY FinalisedIsWritten, FinalisedIsWrittenNext DEF Seen
<1>2. PICK q \in Keys : q = key  BY DEF Inductive
<1>3. CASE ret' = Returned(op, res)
  <2>1. H(q)!Refuse(op)
    BY <1>1, <1>3, FinalisedIsWritten DEF Seen, H!Refuse, H!Returned, Returned
  <2> QED  BY <1>2, <2>1 DEF HashStep, H!Next
<1>4. CASE ret' = ret
  BY <1>1, <1>4, Zenon DEF View
<1> QED  BY <1>3, <1>4

LEMMA NextIsHashStep ==
  ASSUME BytesAreBytes, Inductive, Inductive', Next
  PROVE  HashStep \/ UNCHANGED View
<1>1. ASSUME NEW ik \in Keys, Construct(ik) PROVE HashStep
  <2>1. ~Finalised' /\ data' = << >> /\ digest' = NoDigest /\ ret' = ret /\ key' = ik
    BY <1>1, FinalisedIsWrittenNext DEF Construct, Seen
  <2>2. H(ik)!Reset  BY <2>1 DEF H!Reset
  <2> QED  BY <2>1, <2>2 DEF HashStep, H!Next
<1>2. CASE Destroy
  <2>1. data' = data /\ ret' = ret /\ digest' = digest  BY <1>2 DEF Destroy
  <2>2. Finalised' = Finalised  BY <2>1, FinalisedIsWritten, FinalisedIsWrittenNext DEF Seen
  <2> QED  BY <2>1, <2>2 DEF View
<1>3. CASE Reset
  <2>1. pc = "idle" /\ data' = << >> /\ digest' = NoDigest /\ key' = key
        /\ ret' = Returned("Reset", ResetResult(hmac))
    BY <1>3 DEF Reset
  <2>2. hmac \in Object /\ hmac.k = K0(key) /\ key \in Seq(Byte)
    BY <2>1 DEF Inductive, Typed
  <2>9. PICK q \in Keys : q = key  BY <2>1 DEF Inductive
  <2>3. ResetResult(hmac) = "OK"  BY <2>2, KeyBlockIsK0, ResetEffect
  <2>4. ~Finalised'  BY <2>1, FinalisedIsWrittenNext DEF Seen
  <2>5. H(q)!Reset  BY <2>1, <2>3, <2>4 DEF H!Reset, H!Returned, Returned
  <2> QED  BY <2>1, <2>9, <2>5 DEF HashStep, H!Next
<1>4. ASSUME NEW m, NEW len, m \in Messages \cup {NULL}, Update(m, len)
      PROVE  HashStep \/ UNCHANGED View
  <2>0. pc = "idle" /\ key' = key  BY <1>4 DEF Update
  <2>9. PICK q \in Keys : q = key  BY <2>0 DEF Inductive
  <2>1. CASE m = NULL
    <3>1. CheckFails("Update", "NullPointer")  BY <1>4, <2>1 DEF Update
    <3> QED  BY <2>0, <3>1, RefusalIsRefusal DEF CheckFails
  <2>2. CASE m # NULL /\ hmac.hstate # "IPAD"
    <3>1. CheckFails("Update", "InvalidState")  BY <1>4, <2>2 DEF Update
    <3>2. hmac.hstate = "FIN"  BY <2>0, <2>2 DEF Inductive, Open, Closing
    <3> QED  BY <2>0, <3>1, <3>2, RefusalIsRefusal DEF CheckFails
  <2>3. CASE m # NULL /\ hmac.hstate = "IPAD"
    <3>1. WriteResult(hmac.ctx, m) = "OK"
      BY <2>0, <2>3, OpenContext DEF Inductive, Open, Closing
    <3>2. data' = data \o m /\ ret' = Returned("Update", "OK") /\ digest' = digest
      BY <1>4, <2>3, <3>1 DEF Update
    <3>3. ~Finalised /\ Finalised' = Finalised
      BY <2>0, <2>3, <3>2, FinalisedIsWritten, FinalisedIsWrittenNext DEF Seen
    <3>4. H(q)!Update(m)
      BY <3>2, <3>3 DEF H!Update, H!Returned, Returned
    <3> QED  BY <1>4, <2>0, <2>9, <2>3, <3>4 DEF HashStep, H!Next
  <2> QED  BY <2>1, <2>2, <2>3
<1>5. ASSUME NEW op \in {"Finalise", "Result"}, NEW d \in DigestArguments, FinalResult(op, d)
      PROVE  HashStep \/ UNCHANGED View
  <2>0. pc = "idle" /\ key' = key  BY <1>5 DEF FinalResult
  <2>9. PICK q \in Keys : q = key  BY <2>0 DEF Inductive
  <2>1. CASE d = NULL
    <3>1. UNCHANGED << hmac, digest, data >> /\ ret' = Returned(op, "NullPointer")
      BY <1>5, <2>1 DEF FinalResult
    <3> QED  BY <2>0, <3>1, RefusalIsRefusal
  <2>2. CASE d # NULL
    <3>1. /\ pc' = "idle" /\ ret' = Returned(op, "OK") /\ data' = data
          /\ hmac'.hstate = "FIN"
      <4>1. CASE hmac.hstate = "FIN"
        BY <1>5, <2>0, <2>2, <4>1 DEF FinalResult
      <4>2. CASE hmac.hstate = "IPAD"
        <5>1. /\ hmac \in Object /\ hmac.k = K0(key) /\ key \in Seq(Byte) /\ data \in Seq(Byte)
              /\ hmac.ctx = [data |-> Padded(K0(key), ipad) \o data, complete |-> FALSE]
          BY <2>0, <4>2 DEF Inductive, Typed, Open, Closing
        <5>2. FinishObject(hmac).res = "OK" /\ FinishObject(hmac).obj.hstate = "FIN"
          BY <5>1, FinishEffect
        <5> QED  BY <1>5, <2>0, <2>2, <4>2, <5>2 DEF FinalResult
      <4> QED  BY <2>0, <4>1, <4>2 DEF Inductive, Open, Closing
    <3>2. Finalised' /\ digest' = MAC(key', data')
      BY <3>1, FinalisedIsWrittenNext DEF Seen
    <3>3. H(q)!Finish(op)
      BY <2>0, <2>9, <3>1, <3>2 DEF H!Finish, H!Returned, Returned
    <3> QED  BY <2>0, <2>9, <3>3 DEF HashStep, H!Next
  <2> QED  BY <2>1, <2>2
<1> QED  BY <1>1, <1>2, <1>3, <1>4, <1>5 DEF Next, UpdateArguments

(* Class HMAC is a Hash: between two resets its digest is a function of    *)
(* the data alone, and a call that is refused changes nothing.             *)
THEOREM HMACImplementsHash ==
  ASSUME BytesAreBytes PROVE Spec => ImplementsHash
<1>1. Init => H(<< >>)!Init
  BY DEF Init, Finalised, H!Init, H!NoCall, NoCall, H!Returned, Returned
<1>2. Inductive /\ Inductive' /\ [Next]_vars => [HashStep]_View
  <2>1. UNCHANGED vars => UNCHANGED View  BY DEF vars, View, Finalised
  <2> QED  BY <2>1, NextIsHashStep
<1>3. Spec => H(<< >>)!Init /\ [][HashStep]_View
  BY <1>1, <1>2, Invariance, PTL DEF Spec
<1> QED  BY <1>3 DEF ImplementsHash, HashStep, View
=============================================================================
