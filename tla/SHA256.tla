------------------------------- MODULE SHA256 -------------------------------
(***************************************************************************)
(* One object of class SHA256 and the program that calls it.  The caller   *)
(* makes any sequence of public calls; each is one step, except Update,    *)
(* whose loop takes one step per byte so that what is true between two     *)
(* iterations can be stated.                                               *)
(***************************************************************************)
EXTENDS SHA256Context

CONSTANTS
  Messages,  (* the byte sequences the caller passes to Update             *)
  MaxData,   (* bound: bytes the caller writes between two resets          *)
  NULL,      (* the null pointer                                           *)
  NoDigest   (* the caller's digest buffer before anything is written      *)

ASSUME CallerAssumption ==
  /\ Messages \subseteq Seq(Byte) /\ << >> \in Messages
  /\ MaxData \in Nat
  /\ NULL \notin Seq(Byte)
  /\ NoDigest \notin Seq(Block)

VARIABLES
  ctx,      (* the object                                                  *)
  pc,       (* "idle", "update" (in the loop of Update), "destroyed" or    *)
            (* "aborted"                                                   *)
  message,  (* the argument of the Update call in progress                 *)
  i,        (* its loop counter: bytes of message already absorbed         *)
  ret,      (* the last call that returned and its result                  *)
  digest,   (* the caller's digest buffer                                  *)
  data      (* history: bytes absorbed since construction or reset         *)

vars == << ctx, pc, message, i, ret, digest, data >>

Init ==
  /\ ctx = NewContext
  /\ pc = "idle"
  /\ message = << >>
  /\ i = 0
  /\ ret = NoCall
  /\ digest = NoDigest
  /\ data = << >>

-----------------------------------------------------------------------------
(* SHA256::Reset.  The caller starts over with a clear digest buffer. *)
Reset ==
  /\ pc = "idle"
  /\ ctx' = ResetContext(ctx)
  /\ data' = << >>
  /\ digest' = NoDigest
  /\ ret' = Returned("Reset", ResetContext(ctx).hStatus)
  /\ UNCHANGED << pc, message, i >>

(* Mutant of UpdateCheck: a finalised context is written to. *)
UpdateCheckOpen(m, len) ==
  IF len = 0                  THEN "OK"
  ELSE IF m = NULL            THEN "NullPointer"
  ELSE IF ctx.hStatus # "OK"  THEN ctx.hStatus
  ELSE "proceed"

(* The checks at the head of SHA256::Update, in their order; "proceed"     *)
(* when all of them pass.                                                  *)
UpdateCheck(m, len) ==
  IF len = 0                  THEN "OK"
  ELSE IF m = NULL            THEN "NullPointer"
  ELSE IF ctx.hStatus # "OK"  THEN ctx.hStatus
  ELSE IF ctx.hComplete # 0   THEN "InvalidState"
  ELSE "proceed"

(* The pairs of pointer and length the caller passes: a buffer with its    *)
(* length, or the null pointer with length zero or one.                    *)
UpdateArguments == { << m, Len(m) >> : m \in Messages } \cup { << NULL, 0 >>, << NULL, 1 >> }

(* SHA256::Update returns without looking at the message. *)
UpdateReturnEarly(m, len) ==
  /\ pc = "idle"
  /\ UpdateCheck(m, len) # "proceed"
  /\ ret' = Returned("Update", UpdateCheck(m, len))
  /\ UNCHANGED << ctx, pc, message, i, digest, data >>

(* SHA256::Update enters its loop. *)
UpdateBegin(m, len) ==
  /\ pc = "idle"
  /\ UpdateCheck(m, len) = "proceed"
  /\ Len(data) + len <= MaxData
  /\ pc' = "update"
  /\ message' = m
  /\ i' = 0
  /\ UNCHANGED << ctx, ret, digest, data >>

(* Mutant of UpdateByte: a byte whose length is refused is tried again. *)
UpdateByteRetry ==
  /\ pc = "update"
  /\ i < Len(message)
  /\ ctx' = AbsorbByte(ctx, message[i + 1])
  /\ IF LengthFits(ctx, 8)
     THEN i' = i + 1 /\ data' = Append(data, message[i + 1])
     ELSE UNCHANGED << i, data >>
  /\ UNCHANGED << pc, message, ret, digest >>

(* One iteration.  A store past the end of mb is undefined: in a plain     *)
(* build no member of the object changes; a build with a checked operator  *)
(* [] stops the program.                                                   *)
UpdateByte ==
  /\ pc = "update"
  /\ i < Len(message)
  /\ \/ /\ ctx' = AbsorbByte(ctx, message[i + 1])
        /\ i' = i + 1
        /\ data' = Append(data, message[i + 1])
        /\ UNCHANGED pc
     \/ /\ ctx.mbi >= MB_SIZE
        /\ pc' = "aborted"
        /\ UNCHANGED << ctx, i, data >>
  /\ UNCHANGED << message, ret, digest >>

(* The loop is over: Update returns the status of the context. *)
UpdateReturn ==
  /\ pc = "update"
  /\ i = Len(message)
  /\ pc' = "idle"
  /\ message' = << >>
  /\ i' = 0
  /\ ret' = Returned("Update", ctx.hStatus)
  /\ UNCHANGED << ctx, digest, data >>

(* Mutant of FinaliseCheck: a finalised context is finalised again. *)
FinaliseCheckOpen(d) ==
  IF d = NULL                 THEN "NullPointer"
  ELSE IF ctx.hStatus # "OK"  THEN ctx.hStatus
  ELSE "proceed"

(* The checks at the head of SHA256::Finalise, in their order. *)
FinaliseCheck(d) ==
  IF d = NULL                 THEN "NullPointer"
  ELSE IF ctx.hStatus # "OK"  THEN ctx.hStatus
  ELSE IF ctx.hComplete # 0   THEN "InvalidState"
  ELSE "proceed"

(* The checks at the head of SHA256::Result: a finalised context passes. *)
ResultCheck(d) ==
  IF d = NULL                 THEN "NullPointer"
  ELSE IF ctx.hStatus # "OK"  THEN ctx.hStatus
  ELSE "proceed"

(* The caller passes its digest buffer or the null pointer. *)
Buffer == "buffer"
DigestArguments == { Buffer, NULL }

(* The body of SHA256::Finalise, reached from either operation: pad,       *)
(* clear, close, and write the chaining value out.                         *)
Complete(op) ==
  /\ ctx' = FinaliseContext(ctx)
  /\ digest' = FinaliseContext(ctx).i_hash
  /\ ret' = Returned(op, "OK")

(* SHA256::Finalise. *)
Finalise(d) ==
  /\ pc = "idle"
  /\ IF FinaliseCheck(d) = "proceed"
     THEN Complete("Finalise")
     ELSE ret' = Returned("Finalise", FinaliseCheck(d)) /\ UNCHANGED << ctx, digest >>
  /\ UNCHANGED << pc, message, i, data >>

(* Mutant of Result: Finalise is called whether it is needed or not. *)
ResultAlwaysFinalises(d) ==
  /\ pc = "idle"
  /\ IF FinaliseCheck(d) = "proceed"
     THEN Complete("Result")
     ELSE ret' = Returned("Result", FinaliseCheck(d)) /\ UNCHANGED << ctx, digest >>
  /\ UNCHANGED << pc, message, i, data >>

(* SHA256::Result finalises an open context and otherwise only copies. *)
Result(d) ==
  /\ pc = "idle"
  /\ IF ResultCheck(d) # "proceed"
     THEN ret' = Returned("Result", ResultCheck(d)) /\ UNCHANGED << ctx, digest >>
     ELSE IF ctx.hComplete = 0
     THEN Complete("Result")
     ELSE ret' = Returned("Result", "OK") /\ digest' = ctx.i_hash /\ UNCHANGED ctx
  /\ UNCHANGED << pc, message, i, data >>

(* The object's life ends, and a new one is constructed in its place.      *)
Destroy ==
  /\ pc = "idle"
  /\ pc' = "destroyed"
  /\ ctx' = DestroyContext(ctx)
  /\ UNCHANGED << message, i, ret, digest, data >>

Construct ==
  /\ pc = "destroyed"
  /\ pc' = "idle"
  /\ ctx' = NewContext
  /\ data' = << >>
  /\ digest' = NoDigest
  /\ UNCHANGED << message, i, ret >>

-----------------------------------------------------------------------------
Call ==
  \/ Reset
  \/ \E a \in UpdateArguments : UpdateReturnEarly(a[1], a[2]) \/ UpdateBegin(a[1], a[2])
  \/ \E d \in DigestArguments : Finalise(d) \/ Result(d)
  \/ Destroy
  \/ Construct

Next == Call \/ UpdateByte \/ UpdateReturn

(* A call that has begun runs on: the library neither blocks nor yields.   *)
(* Nothing obliges the caller to call.                                     *)
Fairness == WF_vars(UpdateByte) /\ WF_vars(UpdateReturn)

Spec == Init /\ [][Next]_vars
FairSpec == Spec /\ Fairness
-----------------------------------------------------------------------------
(* Every variable has its type. *)
TypeOK ==
  /\ ctx \in Context
  /\ pc \in {"idle", "update", "destroyed", "aborted"}
  /\ message \in Seq(Byte)
  /\ i \in 0 .. Len(message)
  /\ ret \in CallRecord
  /\ digest \in Seq(Block) \cup {NoDigest}
  /\ data \in Seq(Byte)

(* Between any two iterations of the loop in Update and between any two    *)
(* calls, an open context holds exactly the bytes written since the last   *)
(* reset, whatever was done with it before: no byte is lost, doubled or    *)
(* moved, and mlen counts them.  A context that was written past the       *)
(* length limit holds this again once it is reset.                         *)
BufferInv ==
  pc \in {"idle", "update"} /\ ctx.hComplete = 0 /\ Countable(data)
    => Represents(ctx, data)

(* A finalised context, and the caller's buffer, hold the digest of the    *)
(* bytes written: however they were cut into Update calls, the blocks that *)
(* Finalise or Result compressed are the message padded as FIPS 180-4 says *)
(* - except that a message which leaves one byte of its last block free    *)
(* gets a zero byte in front of the padding byte (finding PaddingIsFIPS).  *)
DigestInv ==
  ctx.hComplete = 1 =>
    /\ digest = ctx.i_hash
    /\ Countable(data) => IsPadded(digest, data, Gap(data))

(* The loop of Update only ever runs on an open context, whatever calls    *)
(* came before.  And the assertions on hStatus in Update, padMessage and   *)
(* Finalise hold: it is OK in every state, also when addLength has refused *)
(* a byte, so that no check of hStatus ever refuses a call.                *)
(* What the documents say of such an object instead is RefusalReported.    *)
OpenInLoop ==
  /\ pc = "update" => ctx.hComplete = 0
  /\ ctx.hStatus = "OK"

(* No byte of a message is left in mb once the hash is complete or the     *)
(* object destroyed, and no later call but a reset puts one there.         *)
MessageCleared ==
  ctx.hComplete = 1 \/ pc = "destroyed" => ctx.mb = ZeroBlock

(* A finalised context answers with the same digest however often it is    *)
(* asked, also after calls it refused, and whatever the message was.       *)
AnswerIsStable ==
  [][ctx.hComplete = 1 /\ ctx'.hComplete = 1 => digest' = digest /\ data' = data]_vars

(* An Update call that has entered its loop returns, also past the length  *)
(* limit.                                                                  *)
UpdateEnds == pc = "update" ~> pc # "update"

(* The object implements the abstract Hash: the bytes of an Update call    *)
(* count from its return, and the digest is that of the padded message.    *)
CodeDigest(d) == PaddedBlocks(d, Gap(d))

H == INSTANCE Hash WITH
       data      <- IF pc = "update" THEN SubSeq(data, 1, Len(data) - i) ELSE data,
       finalised <- ctx.hComplete = 1,
       Digest    <- CodeDigest

(* Every step is a step of the abstract Hash or changes nothing it sees.   *)
ImplementsHash == H!Spec

-----------------------------------------------------------------------------
(* What the repository's documents say and the code does not do.           *)

(* "The behaviour of this package was cross-checked using the Go [...]     *)
(* crypto/sha256 package": the digest is that of the message padded as     *)
(* FIPS 180-4 says, for every message.                                     *)
PaddingIsFIPS ==
  ctx.hComplete = 1 /\ Countable(data) => FIPSPadded(digest, data)

(* Update: "InputTooLong is returned if too much data has been written to  *)
(* the context"; Finalise and Result: "InvalidState is returned if the     *)
(* SHA-256 context is in an invalid state, such as if there were errors in *)
(* previous updates".  Then a byte that addLength refused is told of by    *)
(* the Update that brought it or at the latest by Finalise or Result: a    *)
(* digest handed out with OK covers only bytes that were counted.          *)
RefusalReported ==
  pc = "idle" /\ ret.op \in { "Finalise", "Result" } /\ ret.res = "OK" => Countable(data)
=============================================================================
