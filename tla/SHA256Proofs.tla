---------------------------- MODULE SHA256Proofs ----------------------------
(***************************************************************************)
(* Proofs about SHA256 for every block size, length field, message and     *)
(* byte alphabet.                                                          *)
(***************************************************************************)
EXTENDS SHA256, SHA256ContextProofs, TLAPS

-----------------------------------------------------------------------------
(* An Update call that enters its loop has a message and its length. *)
LEMMA BeginArguments ==
  ASSUME NEW a \in UpdateArguments, UpdateCheck(a[1], a[2]) = "proceed"
  PROVE  a[1] \in Seq(Byte) /\ a[2] = Len(a[1])
<1>1. CASE a[1] = NULL
  BY <1>1 DEF UpdateCheck, UpdateArguments
<1>2. CASE a \in { << m, Len(m) >> : m \in Messages }
  BY <1>2, CallerAssumption
<1>. QED  BY <1>1, <1>2 DEF UpdateArguments

(* The status of a context is among the results, so what a check returns   *)
(* makes a call record.                                                    *)
LEMMA CheckType ==
  ASSUME ctx \in Context, NEW m, NEW len, NEW d
  PROVE  /\ UpdateCheck(m, len) # "proceed" => UpdateCheck(m, len) \in EMSHAResult
         /\ FinaliseCheck(d) # "proceed" => FinaliseCheck(d) \in EMSHAResult
         /\ ResultCheck(d) # "proceed" => ResultCheck(d) \in EMSHAResult
<1>1. ctx.hStatus \in EMSHAResult
  BY DEF Context
<1>. QED  BY <1>1 DEF UpdateCheck, FinaliseCheck, ResultCheck, EMSHAResult

LEMMA RecordType == ASSUME NEW op \in Operation, NEW res \in EMSHAResult
                    PROVE  Returned(op, res) \in CallRecord
  BY DEF Returned, CallRecord

LEMMA CompleteType == ASSUME ctx \in Context, NEW op \in Operation, Complete(op)
                      PROVE  ctx' \in Context /\ ret' \in CallRecord /\ digest' \in Seq(Block)
<1>1. FinaliseContext(ctx) \in Context
  BY FinaliseType
<1>2. "OK" \in EMSHAResult
  BY DEF EMSHAResult
<1>. QED  BY <1>1, <1>2, RecordType DEF Complete, Context

LEMMA TypeInit == Init => TypeOK
<1>. SUFFICES ASSUME Init PROVE TypeOK
  OBVIOUS
<1>1. ctx \in Context
  BY NewType DEF Init
<1>2. << >> \in Seq(Byte) /\ Len(message) = 0 /\ NoCall \in CallRecord
  BY DEF Init, CallRecord
<1>. QED  BY <1>1, <1>2 DEF Init, TypeOK

LEMMA TypeStep == TypeOK /\ [Next]_vars => TypeOK'
<1>. SUFFICES ASSUME TypeOK, [Next]_vars PROVE TypeOK'
  OBVIOUS
<1>. USE DEF TypeOK
<1>1. CASE Reset
  <2>1. ResetContext(ctx) \in Context
    BY ResetType
  <2>2. Returned("Reset", ResetContext(ctx).hStatus) \in CallRecord
    BY <2>1, RecordType DEF Operation, Context
  <2>. QED  BY <1>1, <2>1, <2>2 DEF Reset
<1>2. CASE \E a \in UpdateArguments : UpdateReturnEarly(a[1], a[2])
  <2>. PICK a \in UpdateArguments : UpdateReturnEarly(a[1], a[2])
    BY <1>2
  <2>1. ret' \in CallRecord
    BY CheckType, RecordType DEF UpdateReturnEarly, Operation
  <2>. QED  BY <2>1 DEF UpdateReturnEarly
<1>3. CASE \E a \in UpdateArguments : UpdateBegin(a[1], a[2])
  <2>. PICK a \in UpdateArguments : UpdateBegin(a[1], a[2])
    BY <1>3
  <2>1. message' \in Seq(Byte) /\ 0 \in 0 .. Len(message')
    BY BeginArguments DEF UpdateBegin
  <2>. QED  BY <2>1 DEF UpdateBegin
<1>4. CASE UpdateByte
  <2>1. message[i + 1] \in Byte
    BY <1>4 DEF UpdateByte
  <2>2. AbsorbByte(ctx, message[i + 1]) \in Context
    BY <2>1, AbsorbByteType
  <2>3. Append(data, message[i + 1]) \in Seq(Byte)
    BY <2>1
  <2>4. i + 1 \in 0 .. Len(message)
    BY <1>4 DEF UpdateByte
  <2>. QED  BY <1>4, <2>2, <2>3, <2>4 DEF UpdateByte
<1>5. CASE UpdateReturn
  <2>1. Returned("Update", ctx.hStatus) \in CallRecord
    BY RecordType DEF Operation, Context
  <2>2. << >> \in Seq(Byte) /\ 0 \in 0 .. Len(<< >>)
    OBVIOUS
  <2>. QED  BY <1>5, <2>1, <2>2 DEF UpdateReturn
<1>6. CASE \E d \in DigestArguments : Finalise(d)
  <2>. PICK d \in DigestArguments : Finalise(d)
    BY <1>6
  <2>1. ctx' \in Context /\ ret' \in CallRecord /\ digest' \in Seq(Block) \cup {NoDigest}
    BY CompleteType, CheckType, RecordType DEF Finalise, Operation
  <2>. QED  BY <2>1 DEF Finalise
<1>7. CASE \E d \in DigestArguments : Result(d)
  <2>. PICK d \in DigestArguments : Result(d)
    BY <1>7
  <2>1. "OK" \in EMSHAResult /\ ctx.i_hash \in Seq(Block)
    BY DEF EMSHAResult, Context
  <2>2. ctx' \in Context /\ ret' \in CallRecord /\ digest' \in Seq(Block) \cup {NoDigest}
    BY <2>1, CompleteType, CheckType, RecordType DEF Result, Operation
  <2>. QED  BY <2>2 DEF Result
<1>8. CASE Destroy
  BY <1>8, DestroyType DEF Destroy
<1>9. CASE Construct
  BY <1>9, NewType DEF Construct
<1>10. CASE UNCHANGED vars
  BY <1>10 DEF vars
<1>. QED  BY <1>1, <1>2, <1>3, <1>4, <1>5, <1>6, <1>7, <1>8, <1>9, <1>10 DEF Next, Call

(* Every variable of the object and its caller keeps its type: in          *)
(* particular mbi and mlen never leave their widths and the chaining value *)
(* only ever holds whole blocks.                                           *)
THEOREM TypeCorrect == Spec => []TypeOK
  BY TypeInit, TypeStep, PTL DEF Spec

-----------------------------------------------------------------------------
(* The safety invariants.  Each of BufferInv and DigestInv needs the       *)
(* other parts: the digest is right because the buffer was when the        *)
(* context was closed, and stays right because no loop runs on a closed    *)
(* context.                                                                *)

IndInv == TypeOK /\ OpenInLoop /\ BufferInv /\ DigestInv /\ MessageCleared

(* Completing an open context that holds the data makes DigestInv true. *)
LEMMA CompleteInv ==
  ASSUME ctx \in Context, data \in Seq(Byte), NEW op, Complete(op), data' = data,
         ctx.hStatus = "OK", Countable(data) => Represents(ctx, data)
  PROVE  /\ ctx'.hStatus = "OK" /\ ctx'.hComplete = 1 /\ ctx'.mb = ZeroBlock
         /\ digest' = ctx'.i_hash
         /\ Countable(data') => IsPadded(digest', data', Gap(data'))
<1>1. ctx' = FinaliseContext(ctx) /\ digest' = ctx'.i_hash
  BY DEF Complete
<1>2. /\ ctx'.i_hash = PadMessage(ctx, Octet[128]).i_hash
      /\ ctx'.hStatus = "OK" /\ ctx'.hComplete = 1 /\ ctx'.mb = ZeroBlock
  BY <1>1, FinaliseFields, PadMessageStatus
<1>3. Countable(data) => IsPadded(PadMessage(ctx, Octet[128]).i_hash, data, Gap(data))
  BY PadMessagePads
<1>. QED  BY <1>1, <1>2, <1>3

LEMMA InvInit == Init => IndInv
<1>. SUFFICES ASSUME Init PROVE IndInv
  OBVIOUS
<1>1. TypeOK
  BY TypeInit
<1>2. Represents(ctx, data)
  BY NewRepresents DEF Init
<1>3. ctx.hStatus = "OK" /\ ctx.hComplete = 0 /\ pc = "idle"
  BY NewFields DEF Init
<1>. QED  BY <1>1, <1>2, <1>3 DEF IndInv, OpenInLoop, BufferInv, DigestInv, MessageCleared

LEMMA InvStep == IndInv /\ [Next]_vars => IndInv'
<1>. SUFFICES ASSUME IndInv, [Next]_vars PROVE IndInv'
  OBVIOUS
<1>0. TypeOK /\ OpenInLoop /\ BufferInv /\ DigestInv /\ MessageCleared
  BY DEF IndInv
<1>t. TypeOK'
  BY <1>0, TypeStep
<1>c. ctx \in Context /\ data \in Seq(Byte) /\ ctx.hComplete \in {0, 1}
  BY <1>0 DEF TypeOK, Context
<1>s. SUFFICES (OpenInLoop /\ BufferInv /\ DigestInv /\ MessageCleared)'
  BY <1>t DEF IndInv
<1>. USE DEF OpenInLoop, BufferInv, DigestInv, MessageCleared
<1>1. CASE Reset
  <2>1. /\ ctx'.hStatus = "OK" /\ ctx'.hComplete = 0 /\ pc' = "idle"
        /\ Represents(ctx', data')
    BY <1>1, <1>c, NewFields, ResetRepresents DEF Reset
  <2>. QED  BY <2>1
<1>2. CASE \E a \in UpdateArguments : UpdateReturnEarly(a[1], a[2])
  BY <1>0, <1>2 DEF UpdateReturnEarly
<1>3. CASE \E a \in UpdateArguments : UpdateBegin(a[1], a[2])
  <2>. PICK a \in UpdateArguments : UpdateBegin(a[1], a[2])
    BY <1>3
  <2>1. ctx.hComplete = 0
    BY <1>0 DEF UpdateBegin, UpdateCheck
  <2>. QED  BY <1>0, <2>1 DEF UpdateBegin
<1>4. CASE UpdateByte
  <2>1. ctx.hComplete = 0 /\ pc = "update"
    BY <1>0, <1>4 DEF UpdateByte
  <2>2. CASE UNCHANGED << ctx, data >> /\ pc' = "aborted"
    BY <1>0, <2>1, <2>2
  <2>3. CASE /\ ctx' = AbsorbByte(ctx, message[i + 1])
             /\ data' = Append(data, message[i + 1])
             /\ pc' = pc
    <3>1. message[i + 1] \in Byte
      BY <1>0, <1>4 DEF UpdateByte, TypeOK
    <3>2. ctx'.hStatus = "OK" /\ ctx'.hComplete = 0
      BY <1>0, <1>c, <2>1, <2>3, <3>1, AbsorbFields
    <3>3. ASSUME Countable(data') PROVE Represents(ctx', data')
      <4>1. Countable(data)
        BY <1>c, <2>3, <3>1, <3>3, CountableBefore
      <4>2. Represents(ctx, data)
        BY <1>0, <2>1, <4>1
      <4>. QED  BY <1>c, <2>3, <3>1, <3>3, <4>2, AbsorbRepresents
    <3>. QED  BY <2>1, <2>3, <3>2, <3>3
  <2>4. \/ UNCHANGED << ctx, data >> /\ pc' = "aborted"
        \/ /\ ctx' = AbsorbByte(ctx, message[i + 1])
           /\ data' = Append(data, message[i + 1])
           /\ pc' = pc
    BY <1>4 DEF UpdateByte
  <2>. QED  BY <2>2, <2>3, <2>4
<1>5. CASE UpdateReturn
  BY <1>0, <1>5 DEF UpdateReturn
<1>6. CASE \E d \in DigestArguments : Finalise(d)
  <2>. PICK d \in DigestArguments : Finalise(d)
    BY <1>6
  <2>1. CASE FinaliseCheck(d) = "proceed"
    <3>1. Complete("Finalise") /\ data' = data /\ pc' = "idle" /\ pc = "idle"
      BY <2>1 DEF Finalise
    <3>2. ctx.hComplete = 0 /\ ctx.hStatus = "OK"
      BY <1>0, <2>1, <1>c DEF FinaliseCheck
    <3>3. Countable(data) => Represents(ctx, data)
      BY <1>0, <3>1, <3>2
    <3>4. /\ ctx'.hStatus = "OK" /\ ctx'.hComplete = 1 /\ ctx'.mb = ZeroBlock
          /\ digest' = ctx'.i_hash
          /\ Countable(data') => IsPadded(digest', data', Gap(data'))
      BY <1>c, <3>1, <3>2, <3>3, CompleteInv
    <3>. QED  BY <3>1, <3>4
  <2>2. CASE FinaliseCheck(d) # "proceed"
    BY <1>0, <2>2 DEF Finalise
  <2>. QED  BY <2>1, <2>2
<1>7. CASE \E d \in DigestArguments : Result(d)
  <2>. PICK d \in DigestArguments : Result(d)
    BY <1>7
  <2>1. CASE ResultCheck(d) = "proceed" /\ ctx.hComplete = 0
    <3>1. Complete("Result") /\ data' = data /\ pc' = "idle" /\ pc = "idle"
      BY <2>1 DEF Result
    <3>2. Countable(data) => Represents(ctx, data)
      BY <1>0, <2>1, <3>1
    <3>3. /\ ctx'.hStatus = "OK" /\ ctx'.hComplete = 1 /\ ctx'.mb = ZeroBlock
          /\ digest' = ctx'.i_hash
          /\ Countable(data') => IsPadded(digest', data', Gap(data'))
      BY <1>0, <1>c, <3>1, <3>2, CompleteInv
    <3>. QED  BY <3>1, <3>3
  <2>2. CASE ResultCheck(d) = "proceed" /\ ctx.hComplete # 0
    BY <1>0, <1>c, <2>2 DEF Result
  <2>3. CASE ResultCheck(d) # "proceed"
    BY <1>0, <2>3 DEF Result
  <2>. QED  BY <2>1, <2>2, <2>3
<1>8. CASE Destroy
  <2>1. /\ ctx'.i_hash = ctx.i_hash /\ ctx'.hStatus = ctx.hStatus
        /\ ctx'.hComplete = ctx.hComplete /\ ctx'.mb = ZeroBlock
    BY <1>8, <1>c DEF Destroy, DestroyContext, Context
  <2>. QED  BY <1>0, <1>8, <2>1 DEF Destroy
<1>9. CASE Construct
  <2>1. /\ ctx'.hStatus = "OK" /\ ctx'.hComplete = 0 /\ pc' = "idle"
        /\ Represents(ctx', data')
    BY <1>9, NewFields, NewRepresents DEF Construct
  <2>. QED  BY <2>1
<1>10. CASE UNCHANGED vars
  BY <1>0, <1>10 DEF vars
<1>. QED  BY <1>1, <1>2, <1>3, <1>4, <1>5, <1>6, <1>7, <1>8, <1>9, <1>10 DEF Next, Call

LEMMA Invariance == Spec => []IndInv
  BY InvInit, InvStep, PTL DEF Spec

(* Between calls and between iterations an open context holds exactly the  *)
(* bytes written, for every block size and every sequence of calls.        *)
THEOREM BufferHoldsData == Spec => []BufferInv
<1>1. IndInv => BufferInv
  BY DEF IndInv
<1>. QED  BY <1>1, Invariance, PTL

(* Whatever the calls that wrote it, a message that can be counted is      *)
(* hashed as its padded blocks - FIPS 180-4 padded unless the message      *)
(* leaves one byte of its last block free.                                 *)
THEOREM DigestIsOfData == Spec => []DigestInv
<1>1. IndInv => DigestInv
  BY DEF IndInv
<1>. QED  BY <1>1, Invariance, PTL

(* No message byte stays in mb after completion or destruction. *)
THEOREM MessageIsCleared == Spec => []MessageCleared
<1>1. IndInv => MessageCleared
  BY DEF IndInv
<1>. QED  BY <1>1, Invariance, PTL

(* No call leaves an error in hStatus, and no loop runs on a closed        *)
(* context.                                                                *)
THEOREM LoopIsOpen == Spec => []OpenInLoop
<1>1. IndInv => OpenInLoop
  BY DEF IndInv
<1>. QED  BY <1>1, Invariance, PTL

(* A closed context answers with one digest until it is reset, within the  *)
(* length limit or past it.                                                *)
THEOREM AnswersAreStable == Spec => AnswerIsStable
<1>. DEFINE Stable == ctx.hComplete = 1 /\ ctx'.hComplete = 1
                        => digest' = digest /\ data' = data
<1>1. IndInv /\ [Next]_vars => Stable
  <2>. SUFFICES ASSUME IndInv, [Next]_vars, ctx.hComplete = 1, ctx'.hComplete = 1
                PROVE  digest' = digest /\ data' = data
    OBVIOUS
  <2>0. ctx \in Context /\ digest = ctx.i_hash /\ pc # "update"
    BY DEF IndInv, TypeOK, DigestInv, OpenInLoop
  <2>1. CASE Reset \/ Construct
    BY <2>0, <2>1, NewFields DEF Reset, Construct
  <2>2. CASE \E a \in UpdateArguments : UpdateReturnEarly(a[1], a[2]) \/ UpdateBegin(a[1], a[2])
    BY <2>2 DEF UpdateReturnEarly, UpdateBegin
  <2>3. CASE UpdateByte \/ UpdateReturn
    BY <2>0, <2>3 DEF UpdateByte, UpdateReturn
  <2>4. CASE \E d \in DigestArguments : Finalise(d)
    BY <2>0, <2>4 DEF Finalise, FinaliseCheck, IndInv, OpenInLoop
  <2>5. CASE \E d \in DigestArguments : Result(d)
    BY <2>0, <2>5 DEF Result
  <2>6. CASE Destroy \/ UNCHANGED vars
    BY <2>6 DEF Destroy, vars
  <2>. QED  BY <2>1, <2>2, <2>3, <2>4, <2>5, <2>6 DEF Next, Call
<1>2. IndInv /\ [Next]_vars => [Stable]_vars
  BY <1>1
<1>. QED  BY <1>2, Invariance, PTL DEF Spec, AnswerIsStable

-----------------------------------------------------------------------------
(* Class SHA256 implements the abstract Hash: for every set of messages    *)
(* that keeps within the length limit, each step of the object is a step   *)
(* of Hash or invisible to it.                                             *)

(* What the loop of Update has absorbed: the last i bytes of data are the  *)
(* first i of the message, and the rest will still fit.                    *)

LoopInv ==
  /\ pc = "update" =>
       /\ message \in Messages
       /\ i <= Len(data)
       /\ \A k \in 1 .. i : data[Len(data) - i + k] = message[k]
  /\ pc \in {"idle", "destroyed"} => message = << >> /\ i = 0
  /\ Len(data) + (Len(message) - i) <= MaxData

(* The bound MaxData keeps every message countable. *)
WithinLimit == 8 * MaxData < LEN_MOD

LEMMA LoopInit == Init => LoopInv
  BY CallerAssumption DEF Init, LoopInv

LEMMA LoopStep == TypeOK /\ LoopInv /\ [Next]_vars => LoopInv'
<1>. SUFFICES ASSUME TypeOK, LoopInv, [Next]_vars PROVE LoopInv'
  OBVIOUS
<1>t. /\ Len(data) \in Nat /\ Len(message) \in Nat /\ i \in 0 .. Len(message)
      /\ MaxData \in Nat /\ data \in Seq(Byte) /\ message \in Seq(Byte)
  BY CallerAssumption DEF TypeOK
<1>1. CASE Reset \/ Construct
  BY <1>1, <1>t DEF Reset, Construct, LoopInv
<1>2. CASE \E a \in UpdateArguments : UpdateReturnEarly(a[1], a[2])
  BY <1>2 DEF UpdateReturnEarly, LoopInv
<1>3. CASE \E a \in UpdateArguments : UpdateBegin(a[1], a[2])
  <2>. PICK a \in UpdateArguments : UpdateBegin(a[1], a[2])
    BY <1>3
  <2>1. a[1] \in Messages /\ a[2] = Len(a[1])
    <3>1. CASE a[1] = NULL
      BY <3>1 DEF UpdateBegin, UpdateCheck, UpdateArguments
    <3>2. CASE a \in { << m, Len(m) >> : m \in Messages }
      BY <3>2
    <3>. QED  BY <3>1, <3>2 DEF UpdateArguments
  <2>2. Len(a[1]) \in Nat
    BY <2>1, CallerAssumption
  <2>. QED  BY <1>t, <2>1, <2>2 DEF UpdateBegin, LoopInv
<1>4. CASE UpdateByte
  <2>0. /\ pc = "update" /\ i < Len(message) /\ message' = message /\ message \in Messages
        /\ i <= Len(data) /\ Len(data) + (Len(message) - i) <= MaxData
        /\ \A k \in 1 .. i : data[Len(data) - i + k] = message[k]
    BY <1>4 DEF UpdateByte, LoopInv
  <2>1. CASE UNCHANGED << i, data >> /\ pc' = "aborted"
    BY <2>0, <2>1 DEF LoopInv
  <2>2. CASE i' = i + 1 /\ data' = Append(data, message[i + 1]) /\ pc' = pc
    <3>1. /\ Len(data') = Len(data) + 1 /\ data'[Len(data) + 1] = message[i + 1]
          /\ \A k \in 1 .. Len(data) : data'[k] = data[k]
      BY <1>t, <2>2
    <3>2. ASSUME NEW k \in 1 .. i' PROVE data'[Len(data') - i' + k] = message'[k]
      <4>1. Len(data') - i' + k = Len(data) - i + k
        BY <1>t, <2>2, <3>1
      <4>2. CASE k = i + 1
        <5>1. Len(data) - i + k = Len(data) + 1
          BY <1>t, <4>2
        <5>2. data'[Len(data') - i' + k] = message[i + 1]
          BY <3>1, <4>1, <5>1
        <5>3. message[i + 1] = message'[k]
          BY <2>0, <4>2
        <5>. QED  BY <5>2, <5>3
      <4>3. CASE k \in 1 .. i
        <5>1. Len(data) - i + k \in 1 .. Len(data)
          BY <1>t, <2>0, <4>3
        <5>. QED  BY <2>0, <3>1, <4>1, <4>3, <5>1
      <4>4. k = i + 1 \/ k \in 1 .. i
        BY <1>t, <2>2
      <4>. QED  BY <4>2, <4>3, <4>4
    <3>3. i' <= Len(data') /\ Len(data') + (Len(message') - i') <= MaxData
      BY <1>t, <2>0, <2>2, <3>1
    <3>. QED  BY <2>0, <2>2, <3>2, <3>3 DEF LoopInv
  <2>3. \/ UNCHANGED << i, data >> /\ pc' = "aborted"
        \/ i' = i + 1 /\ data' = Append(data, message[i + 1]) /\ pc' = pc
    BY <1>4 DEF UpdateByte
  <2>. QED  BY <2>1, <2>2, <2>3
<1>5. CASE UpdateReturn
  <2>1. Len(<< >>) = 0
    OBVIOUS
  <2>. QED  BY <1>5, <1>t, <2>1 DEF UpdateReturn, LoopInv
<1>6. CASE \E d \in DigestArguments : Finalise(d) \/ Result(d)
  BY <1>6 DEF Finalise, Result, LoopInv
<1>7. CASE Destroy
  BY <1>7 DEF Destroy, LoopInv
<1>8. CASE UNCHANGED vars
  BY <1>8 DEF vars, LoopInv
<1>. QED  BY <1>1, <1>2, <1>3, <1>4, <1>5, <1>6, <1>7, <1>8 DEF Next, Call

LEMMA LoopInvariance == Spec => [](IndInv /\ LoopInv)
<1>1. IndInv => TypeOK
  BY DEF IndInv
<1>. QED  BY <1>1, InvInit, InvStep, LoopInit, LoopStep, PTL DEF Spec

LEMMA AlwaysCountable ==
  ASSUME WithinLimit, TypeOK, LoopInv PROVE Countable(data)
<1>1. Len(data) \in Nat /\ Len(message) - i \in Nat /\ MaxData \in Nat
  BY CallerAssumption DEF TypeOK
<1>. QED  BY <1>1, SizeAssumption DEF WithinLimit, LoopInv, Countable

(* A finalised context hands out what Hash says. *)
LEMMA DigestIsCodeDigest ==
  ASSUME WithinLimit, IndInv, LoopInv, ctx.hComplete = 1
  PROVE  digest = CodeDigest(data) /\ ctx.i_hash = digest
<1>1. /\ digest = ctx.i_hash /\ digest \in Seq(Block) /\ data \in Seq(Byte)
      /\ IsPadded(digest, data, Gap(data))
  BY AlwaysCountable DEF IndInv, DigestInv, TypeOK, Context
<1>2. Gap(data) \in {0, 1}
  BY DEF Gap
<1>. QED  BY <1>1, <1>2, PaddedUnique DEF CodeDigest

-----------------------------------------------------------------------------
(* The data that Hash sees: the bytes of a call in progress do not count.  *)
Seen == IF pc = "update" THEN SubSeq(data, 1, Len(data) - i) ELSE data

LEMMA SeenWhileAbsorbing ==
  ASSUME NEW d \in Seq(Byte), NEW x \in Byte, NEW k \in 0 .. Len(d)
  PROVE  SubSeq(Append(d, x), 1, Len(Append(d, x)) - (k + 1)) = SubSeq(d, 1, Len(d) - k)
<1>. DEFINE e == Append(d, x)
            n == Len(d) - k
<1>1. /\ e \in Seq(Byte) /\ Len(e) - (k + 1) = n /\ n \in 0 .. Len(d)
      /\ n \in 0 .. Len(e) /\ \A j \in 1 .. n : e[j] = d[j]
  OBVIOUS
<1>. HIDE DEF e, n
<1>2. SubSeq(e, 1, n) = [j \in 1 .. n |-> e[j]]
  BY <1>1
<1>3. SubSeq(d, 1, n) = [j \in 1 .. n |-> d[j]]
  BY <1>1, SMTT(30)
<1>. QED  BY <1>1, <1>2, <1>3 DEF e, n

LEMMA SeenAfterReturn ==
  ASSUME NEW d \in Seq(Byte), NEW m \in Seq(Byte), Len(m) <= Len(d),
         \A k \in 1 .. Len(m) : d[Len(d) - Len(m) + k] = m[k]
  PROVE  d = SubSeq(d, 1, Len(d) - Len(m)) \o m
<1>. DEFINE n == Len(d) - Len(m)
            t == SubSeq(d, n + 1, Len(d))
<1>1. /\ n \in 0 .. Len(d) /\ Len(d) = n + Len(m) /\ Len(m) \in Nat /\ Len(d) \in Nat
      /\ \A k \in 1 .. Len(m) : d[n + k] = m[k]
  OBVIOUS
<1>. HIDE DEF n
<1>2. t = m
  <2>1. n + 1 \in Int /\ Len(d) \in Int /\ \A k \in n + 1 .. Len(d) : d[k] \in Byte
    BY <1>1
  <2>2. /\ t \in Seq(Byte)
        /\ Len(t) = IF n + 1 <= Len(d) THEN Len(d) - (n + 1) + 1 ELSE 0
        /\ \A k \in 1 .. Len(d) - (n + 1) + 1 : t[k] = d[(n + 1) + k - 1]
    BY <2>1, SubSeqProperties
  <2>. HIDE DEF t
  <2>3. Len(t) = Len(m)
    BY <1>1, <2>2
  <2>4. ASSUME NEW k \in 1 .. Len(t) PROVE t[k] = m[k]
    <3>1. k \in 1 .. Len(d) - (n + 1) + 1 /\ (n + 1) + k - 1 = n + k /\ k \in 1 .. Len(m)
      BY <1>1, <2>3
    <3>2. t[k] = d[n + k]
      BY <2>2, <3>1
    <3>. QED  BY <1>1, <3>1, <3>2
  <2>. QED  BY <2>2, <2>3, <2>4, SeqEqual
<1>3. SubSeq(d, 1, n) \o SubSeq(d, n + 1, Len(d)) = SubSeq(d, 1, Len(d))
  <2>1. 1 \in 1 .. Len(d) + 1 /\ n \in 1 - 1 .. Len(d) /\ Len(d) \in n .. Len(d)
    BY <1>1
  <2>. QED  BY <2>1, ConcatAdjacentSubSeq
<1>4. SubSeq(d, 1, Len(d)) = d
  BY SubSeqFull
<1>. QED  BY <1>2, <1>3, <1>4, ZenonT(40) DEF n

-----------------------------------------------------------------------------
(* The refinement. *)

LEMMA HashInit == Init => H!Init
<1>. SUFFICES ASSUME Init PROVE H!Init
  OBVIOUS
<1>1. ctx.hComplete = 0 /\ pc = "idle"
  BY NewFields DEF Init
<1>2. (ctx.hComplete = 1) = FALSE
  BY <1>1
<1>3. (IF pc = "update" THEN SubSeq(data, 1, Len(data) - i) ELSE data) = << >>
  BY <1>1 DEF Init
<1>. QED  BY <1>2, <1>3, Zenon DEF Init, H!Init, NoCall, H!NoCall, Returned, H!Returned

LEMMA DigestIsCodeDigestNext ==
  (WithinLimit /\ IndInv /\ LoopInv /\ ctx.hComplete = 1
     => digest = CodeDigest(data) /\ ctx.i_hash = digest)'
<1>1. WithinLimit /\ IndInv /\ LoopInv /\ ctx.hComplete = 1
        => digest = CodeDigest(data) /\ ctx.i_hash = digest
  BY DigestIsCodeDigest
<1>. QED  BY <1>1, PTL

(* What Hash calls finalised. *)
Closed == ctx.hComplete = 1

(* The actions of Hash under the mapping, in terms of Seen and Closed. *)
LEMMA HashActions ==
  ASSUME NEW m, NEW op, NEW res
  PROVE  /\ Seen' = << >> /\ Closed' = FALSE /\ digest' = NoDigest
            /\ ret' \in {ret, Returned("Reset", "OK")} => H!Reset
         /\ (Closed => m = << >>) /\ Seen' = Seen \o m /\ ret' = Returned("Update", "OK")
            /\ Closed' = Closed /\ digest' = digest => H!Update(m)
         /\ Closed' = TRUE /\ digest' = CodeDigest(Seen) /\ ret' = Returned(op, "OK")
            /\ Seen' = Seen => H!Finish(op)
         /\ \/ res = "NullPointer"
            \/ res = "InvalidState" /\ Closed /\ op # "Result"
            => (ret' = Returned(op, res) /\ Seen' = Seen /\ Closed' = Closed /\ digest' = digest
                => H!Refuse(op))
         /\ Seen' = Seen /\ Closed' = Closed /\ ret' = ret /\ digest' = digest
            => UNCHANGED H!vars
<1>. USE DEF Seen, Closed, Returned, H!Returned
<1>1. Seen' = << >> /\ Closed' = FALSE /\ digest' = NoDigest
        /\ ret' \in {ret, Returned("Reset", "OK")} => H!Reset
  BY Zenon DEF H!Reset
<1>2. (Closed => m = << >>) /\ Seen' = Seen \o m /\ ret' = Returned("Update", "OK")
        /\ Closed' = Closed /\ digest' = digest => H!Update(m)
  BY Zenon DEF H!Update
<1>3. Closed' = TRUE /\ digest' = CodeDigest(Seen) /\ ret' = Returned(op, "OK")
        /\ Seen' = Seen => H!Finish(op)
  BY Zenon DEF H!Finish
<1>4. ASSUME \/ res = "NullPointer"
             \/ res = "InvalidState" /\ Closed /\ op # "Result",
             ret' = Returned(op, res), Seen' = Seen, Closed' = Closed, digest' = digest
      PROVE  H!Refuse(op)
  BY <1>4, Zenon DEF H!Refuse
<1>5. Seen' = Seen /\ Closed' = Closed /\ ret' = ret /\ digest' = digest
        => UNCHANGED H!vars
  BY Zenon DEF H!vars
<1>. QED  BY <1>1, <1>2, <1>3, <1>4, <1>5, Zenon

LEMMA HashStep ==
  WithinLimit /\ IndInv /\ LoopInv /\ IndInv' /\ [Next]_vars => [H!Next]_(H!vars)
<1>. SUFFICES ASSUME WithinLimit, IndInv, LoopInv, IndInv', [Next]_vars
              PROVE  [H!Next]_(H!vars)
  OBVIOUS
<1>0. /\ TypeOK /\ ctx.hStatus = "OK" /\ Countable(data)
      /\ data \in Seq(Byte) /\ message \in Seq(Byte) /\ Len(data) \in Nat
      /\ i \in 0 .. Len(message) /\ ctx \in Context /\ ctx.hComplete \in {0, 1}
  BY AlwaysCountable DEF IndInv, OpenInLoop, TypeOK, Context
<1>d. ctx'.hComplete = 1 => digest' = CodeDigest(data') /\ ctx'.i_hash = digest'
  <2>1. WithinLimit' /\ LoopInv'
    BY <1>0, LoopStep DEF WithinLimit
  <2>. QED  BY <2>1, DigestIsCodeDigestNext
<1>r. ASSUME H!Reset \/ (\E m \in Messages : H!Update(m))
             \/ (\E op \in {"Finalise", "Result"} : H!Finish(op))
             \/ (\E op \in {"Update", "Finalise", "Result"} : H!Refuse(op))
             \/ UNCHANGED H!vars
      PROVE  [H!Next]_(H!vars)
  BY <1>r, Zenon DEF H!Next
<1>1. CASE Reset
  <2>1. Seen' = << >> /\ digest' = NoDigest
    BY <1>1 DEF Reset, Seen
  <2>2. ctx'.hComplete = 0 /\ ret' = Returned("Reset", "OK")
    BY <1>0, <1>1, NewFields DEF Reset
  <2>3. Closed' = FALSE
    BY <2>2 DEF Closed
  <2>. QED  BY <1>r, <2>1, <2>2, <2>3, HashActions
<1>2. CASE \E a \in UpdateArguments : UpdateReturnEarly(a[1], a[2])
  <2>. PICK a \in UpdateArguments : UpdateReturnEarly(a[1], a[2])
    BY <1>2
  <2>1. /\ Seen' = Seen /\ Seen = data /\ Closed' = Closed /\ digest' = digest
        /\ ret' = Returned("Update", UpdateCheck(a[1], a[2]))
    BY DEF UpdateReturnEarly, Seen, Closed
  <2>2. CASE a[2] = 0
    <3>1. UpdateCheck(a[1], a[2]) = "OK"
      BY <2>2 DEF UpdateCheck
    <3>2. Seen \o << >> = Seen
      BY <1>0, <2>1
    <3>3. H!Update(<< >>)
      BY <2>1, <3>1, <3>2, HashActions
    <3>. QED  BY <1>r, <3>3, CallerAssumption
  <2>3. CASE a[2] # 0
    <3>1. \/ UpdateCheck(a[1], a[2]) = "NullPointer"
          \/ UpdateCheck(a[1], a[2]) = "InvalidState" /\ Closed /\ "Update" # "Result"
      BY <1>0, <2>3 DEF UpdateReturnEarly, UpdateCheck, Closed
    <3>2. H!Refuse("Update")
      BY <2>1, <3>1, HashActions
    <3>. QED  BY <1>r, <3>2
  <2>. QED  BY <2>2, <2>3
<1>3. CASE \E a \in UpdateArguments : UpdateBegin(a[1], a[2])
  <2>. PICK a \in UpdateArguments : UpdateBegin(a[1], a[2])
    BY <1>3
  <2>1. SubSeq(data, 1, Len(data) - 0) = data
    BY <1>0
  <2>2. Seen' = Seen /\ Closed' = Closed /\ ret' = ret /\ digest' = digest
    BY <2>1 DEF UpdateBegin, Seen, Closed
  <2>. QED  BY <1>r, <2>2, HashActions
<1>4. CASE UpdateByte
  <2>1. /\ pc = "update" /\ i < Len(message) /\ i <= Len(data) /\ ctx.hComplete = 0
        /\ ret' = ret /\ digest' = digest
    BY <1>4 DEF UpdateByte, LoopInv, IndInv, OpenInLoop
  <2>2. ctx.mbi < MB_SIZE
    BY <1>0, <2>1 DEF IndInv, BufferInv, Represents
  <2>3. /\ ctx' = AbsorbByte(ctx, message[i + 1]) /\ i' = i + 1 /\ pc' = pc
        /\ data' = Append(data, message[i + 1])
    BY <1>0, <1>4, <2>2, SizeAssumption DEF UpdateByte, Context
  <2>4. message[i + 1] \in Byte
    BY <1>0, <2>1
  <2>5. Seen' = Seen
    <3>1. i \in 0 .. Len(data)
      BY <1>0, <2>1
    <3>2. Seen' = SubSeq(data', 1, Len(data') - (i + 1))
      BY <2>1, <2>3 DEF Seen
    <3>. QED  BY <1>0, <2>1, <2>3, <2>4, <3>1, <3>2, SeenWhileAbsorbing DEF Seen
  <2>6. Closed' = Closed
    BY <1>0, <2>3, <2>4, AbsorbFields DEF Closed
  <2>. QED  BY <1>r, <2>1, <2>5, <2>6, HashActions
<1>5. CASE UpdateReturn
  <2>1. /\ pc = "update" /\ pc' = "idle" /\ i = Len(message) /\ ctx' = ctx /\ data' = data
        /\ digest' = digest /\ ret' = Returned("Update", "OK") /\ ctx.hComplete = 0
        /\ message \in Messages /\ Len(message) <= Len(data)
        /\ \A k \in 1 .. Len(message) : data[Len(data) - Len(message) + k] = message[k]
    BY <1>0, <1>5 DEF UpdateReturn, LoopInv, IndInv, OpenInLoop
  <2>2. data = SubSeq(data, 1, Len(data) - Len(message)) \o message
    BY <1>0, <2>1, SeenAfterReturn
  <2>3. Seen' = Seen \o message
    BY <2>1, <2>2 DEF Seen
  <2>4. Closed' = Closed /\ ~Closed
    BY <2>1 DEF Closed
  <2>5. H!Update(message)
    BY <2>1, <2>3, <2>4, HashActions
  <2>. QED  BY <1>r, <2>1, <2>5
<1>6. CASE \E d \in DigestArguments : Finalise(d)
  <2>. PICK d \in DigestArguments : Finalise(d)
    BY <1>6
  <2>1. Seen' = Seen /\ Seen = data /\ data' = data
    BY DEF Finalise, Seen
  <2>2. CASE FinaliseCheck(d) = "proceed"
    <3>1. Complete("Finalise")
      BY <2>2 DEF Finalise
    <3>2. ctx'.hComplete = 1 /\ ret' = Returned("Finalise", "OK")
      BY <1>0, <3>1, FinaliseFields DEF Complete
    <3>3. Closed' = TRUE /\ digest' = CodeDigest(Seen)
      BY <1>d, <2>1, <3>2 DEF Closed
    <3>4. H!Finish("Finalise")
      BY <2>1, <3>2, <3>3, HashActions
    <3>. QED  BY <1>r, <3>4
  <2>3. CASE FinaliseCheck(d) # "proceed"
    <3>1. /\ ret' = Returned("Finalise", FinaliseCheck(d))
          /\ Closed' = Closed /\ digest' = digest
      BY <2>3 DEF Finalise, Closed
    <3>2. \/ FinaliseCheck(d) = "NullPointer"
          \/ FinaliseCheck(d) = "InvalidState" /\ Closed /\ "Finalise" # "Result"
      BY <1>0, <2>3 DEF FinaliseCheck, Closed
    <3>3. H!Refuse("Finalise")
      BY <2>1, <3>1, <3>2, HashActions
    <3>. QED  BY <1>r, <3>3
  <2>. QED  BY <2>2, <2>3
<1>7. CASE \E d \in DigestArguments : Result(d)
  <2>. PICK d \in DigestArguments : Result(d)
    BY <1>7
  <2>1. Seen' = Seen /\ Seen = data /\ data' = data
    BY DEF Result, Seen
  <2>2. CASE ResultCheck(d) = "proceed"
    <3>1. ctx'.hComplete = 1 /\ ret' = Returned("Result", "OK")
      <4>1. CASE ctx.hComplete = 0
        <5>1. Complete("Result")
          BY <2>2, <4>1 DEF Result
        <5>. QED  BY <1>0, <5>1, FinaliseFields DEF Complete
      <4>2. CASE ctx.hComplete = 1
        BY <2>2, <4>2 DEF Result
      <4>. QED  BY <1>0, <4>1, <4>2
    <3>2. Closed' = TRUE /\ digest' = CodeDigest(Seen)
      BY <1>d, <2>1, <3>1 DEF Closed
    <3>3. H!Finish("Result")
      BY <2>1, <3>1, <3>2, HashActions
    <3>. QED  BY <1>r, <3>3
  <2>3. CASE ResultCheck(d) # "proceed"
    <3>1. /\ ret' = Returned("Result", ResultCheck(d))
          /\ Closed' = Closed /\ digest' = digest
      BY <2>3 DEF Result, Closed
    <3>2. ResultCheck(d) = "NullPointer"
      BY <1>0, <2>3 DEF ResultCheck
    <3>3. H!Refuse("Result")
      BY <2>1, <3>1, <3>2, HashActions
    <3>. QED  BY <1>r, <3>3
  <2>. QED  BY <2>2, <2>3
<1>8. CASE Destroy
  <2>1. Seen' = Seen /\ Closed' = Closed /\ ret' = ret /\ digest' = digest
    BY <1>0, <1>8 DEF Destroy, DestroyContext, Context, Seen, Closed
  <2>. QED  BY <1>r, <2>1, HashActions
<1>9. CASE Construct
  <2>1. Seen' = << >> /\ digest' = NoDigest /\ ret' = ret
    BY <1>9 DEF Construct, Seen
  <2>2. Closed' = FALSE
    BY <1>9, NewFields DEF Construct, Closed
  <2>. QED  BY <1>r, <2>1, <2>2, HashActions
<1>10. CASE UNCHANGED vars
  <2>1. Seen' = Seen /\ Closed' = Closed /\ ret' = ret /\ digest' = digest
    BY <1>10 DEF vars, Seen, Closed
  <2>. QED  BY <1>r, <2>1, HashActions
<1>. QED  BY <1>1, <1>2, <1>3, <1>4, <1>5, <1>6, <1>7, <1>8, <1>9, <1>10 DEF Next, Call

(* As long as the caller keeps within the length limit, class SHA256 is a  *)
(* Hash: a digest is a function of the bytes written since the last reset, *)
(* whatever the calls that wrote them, and a refused call changes nothing. *)
THEOREM SHA256ImplementsHash ==
  ASSUME WithinLimit
  PROVE  Spec => ImplementsHash
<1>1. IndInv /\ LoopInv /\ IndInv' /\ [Next]_vars => [H!Next]_(H!vars)
  BY HashStep
<1>. QED  BY <1>1, HashInit, LoopInvariance, PTL DEF Spec, ImplementsHash, H!Spec
=============================================================================
