------------------------------ MODULE OneShot ------------------------------
(***************************************************************************)
(* SHA256Digest and SHA256SelfTest: functions that hash with an object of  *)
(* their own, down to the arithmetic.                                      *)
(*                                                                         *)
(* The object is the context of SHA256Context, whose i_hash is the blocks  *)
(* to compress; chain is the same member as eight words.  Compression's    *)
(* steps take a block as soon as the byte of Update or the padding that    *)
(* filled it has been stored, and nothing else happens before it is done;  *)
(* only what padMessage does between its two compressions, which touches   *)
(* mb and mbi alone, comes before the first.                               *)
(***************************************************************************)
EXTENDS SHA256Methods, FIPS180, HexString

CONSTANTS
  Messages,    (* the byte sequences SHA256Digest is called with           *)
  KnownDigest, (* external: the digests that test_sha256.cc knows          *)
  Faults,      (* what may be wrong in a run of the self-test              *)
  HexLUT,      (* whether the build has the large table of HexString       *)
  NoDigest     (* the digest buffer before anything is written             *)

-----------------------------------------------------------------------------
(* The inputs of the self-test, the empty one apart, and its answers. *)
helloText == << 104, 101, 108, 108, 111, 44, 32, 119, 111, 114, 108, 100 >>

emptyVector == <<
  \he3, \hb0, \hc4, \h42, \h98, \hfc, \h1c, \h14, \h9a, \hfb, \hf4, \hc8, \h99, \h6f, \hb9, \h24,
  \h27, \hae, \h41, \he4, \h64, \h9b, \h93, \h4c, \ha4, \h95, \h99, \h1b, \h78, \h52, \hb8, \h55 >>

helloWorld == <<
  \h09, \hca, \h7e, \h4e, \haa, \h6e, \h8a, \he9, \hc7, \hd2, \h61, \h16, \h71, \h29, \h18, \h48,
  \h83, \h64, \h4d, \h07, \hdf, \hba, \h7c, \hbf, \hbc, \h4c, \h8a, \h2e, \h08, \h36, \h0d, \h5b >>

(* The self-test is there to notice that a digest is not the known one.    *)
(* Which of the two is wrong makes no difference to it; a fault here is a  *)
(* test and the position of a byte of its known answer that is wrong, and  *)
(* NoFault is none.                                                        *)
NoFault == << 0, 0 >>

ASSUME OneShotAssumption ==
  /\ MB_SIZE = 64 /\ Byte = 0 .. 255 /\ Octet = [b \in 0 .. 255 |-> b]
  /\ Messages \subseteq Seq(Byte) /\ NULL \notin Messages \cup { << >>, helloText }
  /\ NULL # "buffer"
  /\ Countable(helloText)
  /\ Faults \subseteq { NoFault } \cup ({ 1, 2 } \X (1 .. 32))
  /\ HexLUT \in BOOLEAN

(* The answers that the tests and the self-test know are the standard's.   *)
ASSUME TableAssumption ==
  /\ Messages \cup { << >>, helloText } \subseteq DOMAIN KnownDigest
  /\ \A m \in DOMAIN KnownDigest : KnownDigest[m] = FIPSDigest(m)
  /\ KnownDigest[<< >>] = emptyVector /\ KnownDigest[helloText] = helloWorld

-----------------------------------------------------------------------------
VARIABLES
  pc,          (* where the function that is running stands, or "idle"     *)
  fn,          (* the function that is running or ran last                 *)
  input,       (* the arguments of its Update: pointer and length          *)
  pos,         (* bytes that the loop of Update has taken                  *)
  out,         (* the digest pointer it was given                          *)
  ctx,         (* the SHA256 object on its stack                           *)
  compressed,  (* blocks of ctx that have been mixed into chain            *)
  d,           (* the digest buffer                                        *)
  test, n,     (* the self-test's test and iteration                       *)
  fault,       (* what is wrong in this run of the self-test               *)
  printed,     (* what the self-test wrote to cerr: have and want          *)
  ret          (* the result of the last function that returned            *)

callVars == << fn, input, out, test, n, fault >>
vars == << pc, callVars, pos, ctx, compressed, d, printed, ret, compressionVars >>

-----------------------------------------------------------------------------
EMSHA_SELF_TEST_ITERS == 4

Vector(t) ==
  LET v == IF t = 1 THEN emptyVector ELSE helloWorld
  IN  IF fault[1] = t THEN [v EXCEPT ![fault[2]] = 255 - @] ELSE v

TestInput(t) == IF t = 1 THEN << << >>, 0 >> ELSE << helloText, 12 >>

(* The message that the running function hashes. *)
Text == IF input[1] = NULL THEN << >> ELSE input[1]

-----------------------------------------------------------------------------
(* All blocks of the object so far are in chain. *)
CaughtUp == stage = "done" /\ compressed = Len(ctx.i_hash)

(* An object is constructed. *)
NewObject ==
  /\ ctx' = NewContext
  /\ compressed' = 0
  /\ pos' = 0
  /\ chain' = emsha256H0
  /\ UNCHANGED << w, regs, i, stage >>

(* The running function returns. *)
Return(res) ==
  /\ pc' = "idle"
  /\ ret' = res

(* The pairs of pointer and length that SHA256Digest is called with. *)
DigestInputs == { << m, Len(m) >> : m \in Messages } \cup { << NULL, 0 >>, << NULL, 1 >> }

(* SHA256Digest is called. *)
CallDigest(arguments, pointer) ==
  /\ pc = "idle"
  /\ pc' = "update"
  /\ fn' = "SHA256Digest"
  /\ input' = arguments
  /\ out' = pointer
  /\ d' = NoDigest
  /\ test' = 0 /\ n' = 0 /\ fault' = NoFault
  /\ printed' = << >>
  /\ ret' = "Unknown"
  /\ NewObject

(* runTest begins with test t: a digest buffer of zeroes and an object. *)
BeginTest(t) ==
  /\ pc' = "update"
  /\ test' = t /\ n' = 0
  /\ input' = TestInput(t)
  /\ d' = [j \in 1 .. 32 |-> 0]
  /\ NewObject

(* SHA256SelfTest is called. *)
CallSelfTest(f) ==
  /\ pc = "idle"
  /\ fn' = "SHA256SelfTest"
  /\ out' = "buffer"
  /\ fault' = f
  /\ printed' = << >>
  /\ ret' = "Unknown"
  /\ BeginTest(1)

(* The object's Update makes its checks.  A refusal is the function's      *)
(* result; without a byte to take, the loop is passed by.                  *)
Update ==
  /\ pc = "update"
  /\ LET res == UpdateResult(ctx, input[1], input[2]) IN
     IF res = "OK" THEN pc' = (IF input[2] = 0 THEN "answer" ELSE "absorb") /\ UNCHANGED ret
                   ELSE Return(res)
  /\ UNCHANGED << callVars, pos, ctx, compressed, d, printed, compressionVars >>

(* An iteration of its loop. *)
Absorb ==
  /\ pc = "absorb"
  /\ CaughtUp
  /\ ctx' = AbsorbByte(ctx, input[1][pos + 1])
  /\ pos' = pos + 1
  /\ pc' = IF pos + 1 < input[2] THEN "absorb" ELSE "answer"
  /\ UNCHANGED << callVars, compressed, d, printed, ret, compressionVars >>

(* The object is asked for the digest: SHA256Digest calls Finalise, the    *)
(* self-test Result.                                                       *)
Answer ==
  /\ pc = "answer"
  /\ CaughtUp
  /\ LET once == fn = "SHA256Digest"
         res == IF once THEN FinaliseResult(ctx, out) ELSE ResultResult(ctx, out) IN
     /\ ctx' = IF once THEN Finalised(ctx, out) ELSE Answered(ctx, out)
     /\ IF res = "OK" THEN pc' = "write" /\ UNCHANGED ret ELSE Return(res)
  /\ UNCHANGED << callVars, pos, compressed, d, printed, compressionVars >>

(* The words are written to the digest buffer as bytes. *)
Write ==
  /\ pc = "write"
  /\ CaughtUp
  /\ d' = DigestBytes(chain)
  /\ IF fn = "SHA256Digest" THEN Return("OK") ELSE pc' = "compare" /\ UNCHANGED ret
  /\ UNCHANGED << callVars, pos, ctx, compressed, printed, compressionVars >>

(* Mutant of Matches: the last byte is not compared. *)
MatchesShort(digest, expected) == \A j \in 1 .. 31 : digest[j] = expected[j]

Matches(digest, expected) == \A j \in 1 .. 32 : digest[j] = expected[j]

(* What runTest prints of a digest that does not match. *)
Complaint == << HexText(HexLUT, d), HexText(HexLUT, Vector(2)) >>

(* Mutant of LastIteration: an iteration too many. *)
LastIterationLate == n = EMSHA_SELF_TEST_ITERS

LastIteration == n + 1 = EMSHA_SELF_TEST_ITERS

(* Mutant of Compare: the iterations are not counted. *)
CompareForgets ==
  /\ pc = "compare"
  /\ IF Matches(d, Vector(test))
     THEN pc' = "answer" /\ UNCHANGED << printed, ret >>
     ELSE printed' = Complaint /\ Return("TestFailure")
  /\ UNCHANGED << callVars, pos, ctx, compressed, d, compressionVars >>

(* The digest is compared with the known one: a difference is printed and  *)
(* ends the self-test; the fourth match ends the test.                     *)
Compare ==
  /\ pc = "compare"
  /\ IF ~Matches(d, Vector(test))
     THEN /\ printed' = Complaint
          /\ Return("TestFailure")
          /\ UNCHANGED << callVars, pos, ctx, compressed, d, compressionVars >>
     ELSE /\ UNCHANGED << printed, fn, out, fault >>
          /\ \/ /\ ~LastIteration
                /\ n' = n + 1
                /\ pc' = "answer"
                /\ UNCHANGED << input, pos, test, ctx, compressed, d, ret, compressionVars >>
             \/ /\ LastIteration /\ test = 1
                /\ BeginTest(2)
                /\ UNCHANGED ret
             \/ /\ LastIteration /\ test = 2
                /\ Return("OK")
                /\ UNCHANGED << input, pos, test, n, ctx, compressed, d, compressionVars >>

(* updateMessageBlock is entered for the next block, and runs. *)
EnterBlock ==
  /\ compressed < Len(ctx.i_hash)
  /\ Enter
  /\ UNCHANGED << pc, callVars, pos, ctx, compressed, d, printed, ret >>

InBlock ==
  /\ stage # "done"
  /\ CompressionStep(ctx.i_hash[compressed + 1])
  /\ compressed' = IF stage' = "done" THEN compressed + 1 ELSE compressed
  /\ UNCHANGED << pc, callVars, pos, ctx, d, printed, ret >>

-----------------------------------------------------------------------------
Init ==
  /\ pc = "idle" /\ fn = "none" /\ input = << << >>, 0 >> /\ pos = 0 /\ out = NULL
  /\ ctx = NewContext /\ compressed = 0
  /\ d = NoDigest
  /\ test = 0 /\ n = 0 /\ fault = NoFault
  /\ printed = << >> /\ ret = "Unknown"
  /\ chain = emsha256H0 /\ w = << >> /\ regs = NoRegisters /\ i = 0 /\ stage = "done"

Call ==
  \/ \E arguments \in DigestInputs, pointer \in { "buffer", NULL } :
       CallDigest(arguments, pointer)
  \/ \E f \in Faults : CallSelfTest(f)

Running == Update \/ Absorb \/ Answer \/ Write \/ Compare \/ EnterBlock \/ InBlock

Next == Call \/ Running

Spec == Init /\ [][Next]_vars

(* A function that was called runs on; nothing obliges anyone to call.     *)
(* Running can take a step whenever pc is not "idle", so this is           *)
(* WF_vars(Running), without the ENABLED that would have to try out the    *)
(* arithmetic.                                                             *)
RunsOn == []<>(pc = "idle") \/ []<><<Running>>_vars
FairSpec == Spec /\ RunsOn

-----------------------------------------------------------------------------
(* Buffers, words and the object have the types of their declarations;     *)
(* the schedule is filled as far as its loop has got.                      *)
TypeOK ==
  /\ pc \in { "idle", "update", "absorb", "answer", "write", "compare" }
  /\ ret \in EMSHAResult
  /\ pos \in 0 .. input[2]
  /\ ctx \in Context
  /\ compressed \in 0 .. Len(ctx.i_hash)
  /\ d \in [1 .. 32 -> Byte] \cup { NoDigest }
  /\ test \in 0 .. 2 /\ n \in 0 .. EMSHA_SELF_TEST_ITERS - 1
  /\ chain \in [0 .. 7 -> Word]
  /\ w \in Seq(Word)
  /\ regs \in [{ "a", "b", "c", "d", "e", "f", "g", "h" } -> Word]
  /\ Len(w) = IF stage \in { "load", "schedule" } THEN i
              ELSE IF stage = "rounds" THEN 64 ELSE 0

(* SHA256Digest hands out the digest that the tests know for its message,  *)
(* through padding of one and of two blocks and all the arithmetic of      *)
(* their compression, and OK only with it; a call it refuses, for either   *)
(* pointer, writes nothing.  An empty message needs no pointer.  What is   *)
(* hashed is the message padded as class SHA256 pads it, which is not the  *)
(* standard's way if one byte of its last block is free.  Nothing is said  *)
(* of a message too long to count, neither of its digest nor that it must  *)
(* be accepted.                                                            *)
DigestKnown ==
  pc = "idle" /\ fn = "SHA256Digest" =>
    IF out = NULL \/ input = << NULL, 1 >>
    THEN ret = "NullPointer" /\ d = NoDigest
    ELSE Countable(Text) =>
           /\ ret = "OK"
           /\ d = BlocksDigest(PaddedBlocks(Text, Gap(Text)))
           /\ ~OneByteFree(Text) => d = KnownDigest[Text]

(* "OK is returned if the self tests pass.  If the fault is that the       *)
(* output does not match the test vector, TestFailure is returned"         *)
(* (sha256.h): a wrong byte anywhere in either test is noticed, and four   *)
(* answers of one object, the first of which closes it, raise no alarm.    *)
Verdict ==
  pc = "idle" /\ fn = "SHA256SelfTest" =>
    /\ ret = IF fault = NoFault THEN "OK" ELSE "TestFailure"
    /\ d = KnownDigest[TestInput(test)[1]]

(* What a failing self-test prints: the first line spells the digest that  *)
(* it got, two characters for a byte, and the build without the large      *)
(* table prints the same.  The second line spells the vector of the second *)
(* test, whichever test failed.                                            *)
Printed ==
  printed # << >> =>
    /\ \A line \in 1 .. 2 : Len(printed[line]) = 64
    /\ Spelled(printed[1]) = d
    /\ printed[1] = HexText(~HexLUT, d)
    /\ Spelled(printed[2]) = Vector(2)

(* The steps of updateMessageBlock that are due: 131 for a block, without  *)
(* those it has taken.                                                     *)
BlockSteps ==
  LET taken == IF stage = "done" THEN 0
               ELSE IF stage = "rounds" THEN 66 + i ELSE 1 + i
  IN  131 * (Len(ctx.i_hash) - compressed) - taken

(* The steps that the running function has left, at most: a byte can fill  *)
(* a block, an answer can pad two, and the second test takes 2645.         *)
LaterSteps ==
  IF test = 0 THEN 0
  ELSE 265 * (EMSHA_SELF_TEST_ITERS - 1 - n) + (IF test = 1 THEN 2645 ELSE 0)

CallSteps ==
  CASE pc = "idle"    -> 0
    [] pc = "compare" -> 1 + LaterSteps
    [] pc = "write"   -> 2 + LaterSteps
    [] pc = "answer"  -> 265 + LaterSteps
    [] pc = "absorb"  -> 265 + LaterSteps + 132 * (input[2] - pos)
    [] pc = "update"  -> 266 + LaterSteps + 132 * input[2]

StepsLeft == BlockSteps + CallSteps

(* Every step of a function that runs leaves it fewer: no loop is entered  *)
(* that does not end, and SHA256Digest takes at most 132 steps for a byte  *)
(* and 266 more.                                                           *)
CountsDown == [][pc # "idle" => StepsLeft' \in 0 .. StepsLeft - 1]_vars

(* Every call returns: the three loops of the compression end for every    *)
(* block, and the self-test's iterations for every test.                   *)
Returns == pc # "idle" ~> pc = "idle"
=============================================================================
