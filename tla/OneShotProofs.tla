--------------------------- MODULE OneShotProofs ---------------------------
(***************************************************************************)
(* SHA256Digest and SHA256SelfTest for every message: the digest is the    *)
(* one of FIPS 180-4, through the padding and every step of the            *)
(* compression, and the self-test's verdict is right whatever it is given  *)
(* to find.                                                                *)
(***************************************************************************)
EXTENDS OneShot, SHA256ContextProofs, HexStringProofs

-----------------------------------------------------------------------------
(* The parts of the inductive invariant. *)

(* The local variables as windows on the history h. *)
Window(h) ==
  [a |-> FromEnd(h, 1).a, b |-> FromEnd(h, 2).a, c |-> FromEnd(h, 3).a, d |-> FromEnd(h, 4).a,
   e |-> FromEnd(h, 1).e, f |-> FromEnd(h, 2).e, g |-> FromEnd(h, 3).e, h |-> FromEnd(h, 4).e]

(* Which function runs, with which arguments. *)
Inputs == DigestInputs \cup { TestInput(1), TestInput(2) }

CallInv ==
  /\ fn \in { "none", "SHA256Digest", "SHA256SelfTest" }
  /\ out \in { "buffer", NULL }
  /\ input \in Inputs
  /\ fn = "none" => pc = "idle"
  /\ fn = "SHA256Digest" => input \in DigestInputs /\ n = 0
  /\ fn = "SHA256SelfTest" => out = "buffer" /\ test \in { 1, 2 } /\ input = TestInput(test)
  /\ pc = "compare" => fn = "SHA256SelfTest"
  /\ pc = "update" => pos = 0
  /\ pc = "absorb" => pos < input[2]
  /\ pc \in { "absorb", "answer", "write", "compare" } => input # << NULL, 1 >>

(* The types of the rest of the state. *)
CallTypes ==
  /\ pc \in { "idle", "update", "absorb", "answer", "write", "compare" }
  /\ ret \in EMSHAResult
  /\ pos \in 0 .. input[2]
  /\ ctx \in Context
  /\ compressed \in 0 .. Len(ctx.i_hash)
  /\ d \in [1 .. 32 -> Byte] \cup { NoDigest }
  /\ test \in 0 .. 2 /\ n \in 0 .. EMSHA_SELF_TEST_ITERS - 1

(* The three loops: how much of the schedule there is. *)
EightWords == [0 .. 7 -> Word]
EightRegisters == [{ "a", "b", "c", "d", "e", "f", "g", "h" } -> Word]

LoopInv ==
  /\ chain \in EightWords /\ w \in Seq(Word) /\ regs \in EightRegisters
  /\ stage \in { "done", "load", "schedule", "rounds" }
  /\ stage = "done" => i = 0 /\ Len(w) = 0
  /\ stage = "load" => i \in 0 .. 15 /\ Len(w) = i
  /\ stage = "schedule" => i \in 16 .. 64 /\ Len(w) = i
  /\ stage = "rounds" => i \in 0 .. 64 /\ Len(w) = 64

(* A block is compressed only while the object's Update or Finalise runs,  *)
(* and then it is one that the object has.                                 *)
StageInv ==
  /\ stage # "done" => compressed < Len(ctx.i_hash)
  /\ pc \notin { "absorb", "answer", "write" } => CaughtUp

Shape == CallTypes /\ CallInv /\ LoopInv /\ StageInv

(* The words are those of the standard for the blocks of the object.       *)
ChainInv == chain = Chains(ctx.i_hash)[compressed]

BlockInv ==
  LET mb == ctx.i_hash[compressed + 1] IN
  /\ stage \in { "load", "schedule" } => w = Schedules(mb)[i]
  /\ stage = "rounds" =>
       /\ w = Schedules(mb)[64]
       /\ regs = Window(Histories(chain, w)[i])

(* The object is new, open with a part of the message, or closed with the  *)
(* message padded.                                                         *)
Open(part) ==
  /\ ctx.hStatus = "OK" /\ ctx.hComplete = 0
  /\ Countable(Text) => Represents(ctx, part)

Closed ==
  /\ ctx.hStatus = "OK" /\ ctx.hComplete = 1
  /\ Countable(Text) => ctx.i_hash = PaddedBlocks(Text, Gap(Text))

ObjectInv ==
  /\ pc \in { "update", "absorb" } => n = 0
  /\ pc = "update" => ctx = NewContext
  /\ pc = "absorb" => Open(Prefix(Text, pos))
  /\ pc = "answer" => IF n = 0 THEN Open(Text) ELSE Closed
  /\ pc \in { "write", "compare" } => Closed

(* What has been handed out and found so far: SHA256Digest has its answer  *)
(* to give yet; the self-test has compared only the tests before this one, *)
(* and this one if an iteration is over, and the fault was not in those.   *)
DigestRuns ==
  fn = "SHA256Digest" =>
    /\ pc # "idle" => d = NoDigest
    /\ pc = "write" => out # NULL
    /\ printed = << >>

TestRuns ==
  /\ fault \in { NoFault } \cup ({ 1, 2 } \X (1 .. 32))
  /\ fn = "SHA256SelfTest" /\ pc # "idle" =>
       /\ printed = << >>
       /\ test = 2 \/ n > 0 => fault[1] # 1
       /\ test = 2 /\ n > 0 => fault[1] # 2
  /\ pc = "compare" => d = KnownDigest[Text]

OutcomeInv ==
  /\ DigestRuns /\ TestRuns
  /\ fn = "none" => printed = << >>
  /\ DigestKnown /\ Verdict /\ Printed

-----------------------------------------------------------------------------
(* The functions of the standard, one step at a time. *)

(* What is added or read from a block is a word. *)
LEMMA AddWord == ASSUME NEW x, NEW y PROVE Add(x, y) \in Word
  BY DEF Add, Xor, Word

LEMMA NextWordType == ASSUME NEW s, NEW mb PROVE NextWord(s, mb) \in Word
<1>1. chunkToUint32(mb, 4 * Len(s)) \in Word
  BY DEF chunkToUint32, Word
<1> QED
  BY <1>1, AddWord DEF NextWord

LEMMA WithNextWordType ==
  ASSUME NEW s \in Seq(Word), NEW mb
  PROVE  WithNextWord(s, mb) \in Seq(Word) /\ Len(WithNextWord(s, mb)) = Len(s) + 1
  BY NextWordType DEF WithNextWord

LEMMA ScheduleSteps ==
  ASSUME NEW mb
  PROVE  /\ Schedules(mb)[0] = << >>
         /\ \A t \in 1 .. 64 : Schedules(mb)[t] = WithNextWord(Schedules(mb)[t - 1], mb)
<1> DEFINE N == 64
           empty == << >>
           F(f) == [t \in 0 .. N |-> IF t = 0 THEN empty ELSE WithNextWord(f[t - 1], mb)]
           G == [p \in (1 .. N) \X Seq(Word) |-> WithNextWord(p[2], mb)]
           s == CHOOSE f : f = F(f)
<1>1. G \in StepFunctions(Seq(Word), N) /\ empty \in Seq(Word) /\ N \in Nat
  BY WithNextWordType DEF StepFunctions
<1>2. \A t \in 1 .. N, x \in Seq(Word) : G[<< t, x >>] = WithNextWord(x, mb)
  OBVIOUS
<1> HIDE DEF G, empty, N
<1>3. PICK f : Values(f, Seq(Word), N, empty, G)
  BY <1>1, Recursion
<1>4. f = F(f)
  <2>1. ASSUME NEW t \in 0 .. N
        PROVE  f[t] = IF t = 0 THEN empty ELSE WithNextWord(f[t - 1], mb)
    <3>1. CASE t = 0
      BY <1>3, <3>1 DEF Values
    <3>2. CASE t \in 1 .. N
      <4>1. t # 0 /\ f[t] = G[<< t, f[t - 1] >>] /\ f[t - 1] \in Seq(Word)
        BY <1>1, <1>3, <3>2 DEF Values
      <4> QED
        BY <1>2, <3>2, <4>1, Zenon
    <3> QED
      BY <1>1, <3>1, <3>2
  <2>2. f = [t \in 0 .. N |-> f[t]]
    BY <1>3 DEF Values
  <2> QED
    BY <2>1, <2>2
<1>5. s = F(s)
  BY <1>4, Zenon
<1>6. Schedules(mb) = s
  BY DEF Schedules, empty, N
<1> HIDE DEF s
<1>7. \A t \in 0 .. N : F(s)[t] = IF t = 0 THEN empty ELSE WithNextWord(s[t - 1], mb)
  OBVIOUS
<1> HIDE DEF F
<1>8. \A t \in 0 .. N : s[t] = IF t = 0 THEN empty ELSE WithNextWord(s[t - 1], mb)
  BY <1>5, <1>7, Zenon
<1>9. s[0] = empty /\ \A t \in 1 .. N : s[t] = WithNextWord(s[t - 1], mb)
  BY <1>1, <1>8
<1> QED
  BY <1>6, <1>9, Zenon DEF empty, N

LEMMA ScheduleType ==
  ASSUME NEW mb
  PROVE  \A t \in 0 .. 64 : Schedules(mb)[t] \in Seq(Word) /\ Len(Schedules(mb)[t]) = t
<1> DEFINE s == Schedules(mb)
           T == { t \in 0 .. 64 : s[t] \in Seq(Word) /\ Len(s[t]) = t }
<1>0. s[0] = << >> /\ \A t \in 1 .. 64 : s[t] = WithNextWord(s[t - 1], mb)
  BY ScheduleSteps
<1> HIDE DEF s
<1>1. 0 \in T
  <2>1. << >> \in Seq(Word) /\ Len(<< >>) = 0 /\ 0 \in 0 .. 64
    OBVIOUS
  <2>2. s[0] \in Seq(Word) /\ Len(s[0]) = 0
    BY <1>0, <2>1, Zenon
  <2> QED
    BY <2>2
<1>2. ASSUME NEW t \in 1 .. 64, t - 1 \in T PROVE t \in T
  <2>1. s[t - 1] \in Seq(Word) /\ Len(s[t - 1]) = t - 1 /\ s[t] = WithNextWord(s[t - 1], mb)
    BY <1>0, <1>2
  <2>2. s[t] \in Seq(Word) /\ Len(s[t]) = t
    BY <2>1, WithNextWordType
  <2> QED
    BY <2>2
<1> HIDE DEF T
<1>3. \A t \in 0 .. 64 : t \in T
  BY <1>1, <1>2, NumberInduction
<1> QED
  BY <1>3 DEF T, s

(* The histories. *)
Pairs == [a : Word, e : Word]

LEMMA FirstHistoryType ==
  ASSUME NEW H \in EightWords
  PROVE  FirstHistory(H) \in Seq(Pairs) /\ Len(FirstHistory(H)) = 4
<1>1. \A x \in Word, y \in Word : [a |-> x, e |-> y] \in Pairs
  BY DEF Pairs
<1>2. \A k \in 0 .. 7 : H[k] \in Word
  BY DEF EightWords
<1> QED
  BY <1>1, <1>2 DEF FirstHistory

LEMMA WithNextRoundType ==
  ASSUME NEW h \in Seq(Pairs), NEW k, NEW W
  PROVE  /\ WithNextRound(h, k, W) \in Seq(Pairs)
         /\ Len(WithNextRound(h, k, W)) = Len(h) + 1
<1>1. \E x \in Word, y \in Word : WithNextRound(h, k, W) = Append(h, [a |-> x, e |-> y])
  BY AddWord DEF WithNextRound
<1>2. PICK x \in Word, y \in Word : WithNextRound(h, k, W) = Append(h, [a |-> x, e |-> y])
  BY <1>1
<1>3. [a |-> x, e |-> y] \in Pairs
  BY DEF Pairs
<1> QED
  BY <1>2, <1>3

LEMMA HistorySteps ==
  ASSUME NEW H \in EightWords, NEW W \in Seq(Word), Len(W) = 64
  PROVE  /\ Histories(H, W)[0] = FirstHistory(H)
         /\ \A t \in 1 .. 64 :
              Histories(H, W)[t] = WithNextRound(Histories(H, W)[t - 1], sha256K[t - 1], W[t])
<1> DEFINE N == Len(W)
           first == FirstHistory(H)
           F(f) == [t \in 0 .. N |-> IF t = 0 THEN first
                                     ELSE WithNextRound(f[t - 1], sha256K[t - 1], W[t])]
           G == [p \in (1 .. N) \X Seq(Pairs) |-> WithNextRound(p[2], sha256K[p[1] - 1], W[p[1]])]
           s == CHOOSE f : f = F(f)
<1>1. G \in StepFunctions(Seq(Pairs), N) /\ first \in Seq(Pairs) /\ N \in Nat
  BY WithNextRoundType, FirstHistoryType DEF StepFunctions
<1>2. \A t \in 1 .. N, x \in Seq(Pairs) : G[<< t, x >>] = WithNextRound(x, sha256K[t - 1], W[t])
  OBVIOUS
<1> HIDE DEF G, first, N
<1>3. PICK f : Values(f, Seq(Pairs), N, first, G)
  BY <1>1, Recursion
<1>4. f = F(f)
  <2>1. ASSUME NEW t \in 0 .. N
        PROVE  f[t] = IF t = 0 THEN first ELSE WithNextRound(f[t - 1], sha256K[t - 1], W[t])
    <3>1. CASE t = 0
      BY <1>3, <3>1 DEF Values
    <3>2. CASE t \in 1 .. N
      <4>1. t # 0 /\ f[t] = G[<< t, f[t - 1] >>] /\ f[t - 1] \in Seq(Pairs)
        BY <1>1, <1>3, <3>2 DEF Values
      <4> QED
        BY <1>2, <3>2, <4>1, Zenon
    <3> QED
      BY <1>1, <3>1, <3>2
  <2>2. f = [t \in 0 .. N |-> f[t]]
    BY <1>3 DEF Values
  <2> QED
    BY <2>1, <2>2
<1>5. s = F(s)
  BY <1>4, ZenonT(40)
<1>6. Histories(H, W) = s
  BY DEF Histories, first, N
<1> HIDE DEF s
<1> DEFINE step(t) == IF t = 0 THEN first ELSE WithNextRound(s[t - 1], sha256K[t - 1], W[t])
<1>7. \A t \in 0 .. N : F(s)[t] = step(t)
  OBVIOUS
<1> HIDE DEF F, step
<1>8. \A t \in 0 .. N : s[t] = step(t)
  BY <1>5, <1>7
<1>9. s[0] = first /\ \A t \in 1 .. N : s[t] = WithNextRound(s[t - 1], sha256K[t - 1], W[t])
  BY <1>1, <1>8 DEF step
<1>10. \A t \in 1 .. 64 : t \in 1 .. N
  BY DEF N
<1> QED
  BY <1>6, <1>9, <1>10, Zenon DEF first

LEMMA HistoryType ==
  ASSUME NEW H \in EightWords, NEW W \in Seq(Word), Len(W) = 64
  PROVE  \A t \in 0 .. 64 :
           Histories(H, W)[t] \in Seq(Pairs) /\ Len(Histories(H, W)[t]) = t + 4
<1> DEFINE h == Histories(H, W)
           T == { t \in 0 .. 64 : h[t] \in Seq(Pairs) /\ Len(h[t]) = t + 4 }
<1>0. /\ h[0] = FirstHistory(H)
      /\ \A t \in 1 .. 64 : h[t] = WithNextRound(h[t - 1], sha256K[t - 1], W[t])
  BY HistorySteps, ZenonT(40)
<1> HIDE DEF h
<1>1. 0 \in T
  <2>1. h[0] \in Seq(Pairs) /\ Len(h[0]) = 4
    BY <1>0, FirstHistoryType, Zenon
  <2> QED
    BY <2>1
<1>2. ASSUME NEW t \in 1 .. 64, t - 1 \in T PROVE t \in T
  <2>1. /\ h[t - 1] \in Seq(Pairs) /\ Len(h[t - 1]) = (t - 1) + 4
        /\ h[t] = WithNextRound(h[t - 1], sha256K[t - 1], W[t])
    BY <1>0, <1>2
  <2> DEFINE g == h[t - 1]
             k == sha256K[t - 1]
             word == W[t]
  <2> HIDE DEF g, k, word
  <2>2. g \in Seq(Pairs) /\ h[t] = WithNextRound(g, k, word)
    BY <2>1 DEF g, k, word
  <2>3. h[t] \in Seq(Pairs) /\ Len(h[t]) = Len(g) + 1
    <3>1. /\ WithNextRound(g, k, word) \in Seq(Pairs)
          /\ Len(WithNextRound(g, k, word)) = Len(g) + 1
      BY <2>2, WithNextRoundType
    <3> QED
      BY <2>2, <3>1, Zenon
  <2> QED
    BY <2>1, <2>3 DEF g
<1> HIDE DEF T
<1>3. \A t \in 0 .. 64 : t \in T
  BY <1>1, <1>2, NumberInduction
<1> QED
  BY <1>3 DEF T, h

(* The chaining values. *)
LEMMA NextChainType == ASSUME NEW H, NEW mb PROVE NextChain(H, mb) \in EightWords
<1>1. ASSUME NEW h PROVE LastFour(H, h) \in EightWords
  BY AddWord DEF LastFour, EightWords
<1> QED
  BY <1>1 DEF NextChain

LEMMA InitialWords == emsha256H0 \in EightWords
<1>1. \A x, y : Halves(x, y) \in Word
  BY DEF Halves, Word
<1> QED
  BY <1>1 DEF emsha256H0, Literals, EightWords

LEMMA ChainSteps ==
  ASSUME NEW bs \in Seq(Block)
  PROVE  /\ Chains(bs)[0] = emsha256H0
         /\ \A k \in 1 .. Len(bs) : Chains(bs)[k] = NextChain(Chains(bs)[k - 1], bs[k])
<1> DEFINE N == Len(bs)
           F(f) == [k \in 0 .. N |-> IF k = 0 THEN emsha256H0 ELSE NextChain(f[k - 1], bs[k])]
           G == [p \in (1 .. N) \X EightWords |-> NextChain(p[2], bs[p[1]])]
           s == CHOOSE f : f = F(f)
<1>1. G \in StepFunctions(EightWords, N) /\ emsha256H0 \in EightWords /\ N \in Nat
  BY NextChainType, InitialWords DEF StepFunctions
<1>2. \A k \in 1 .. N, x \in EightWords : G[<< k, x >>] = NextChain(x, bs[k])
  OBVIOUS
<1> HIDE DEF G, N
<1>3. PICK f : Values(f, EightWords, N, emsha256H0, G)
  BY <1>1, Recursion
<1>4. f = F(f)
  <2>1. ASSUME NEW k \in 0 .. N
        PROVE  f[k] = IF k = 0 THEN emsha256H0 ELSE NextChain(f[k - 1], bs[k])
    <3>1. CASE k = 0
      BY <1>3, <3>1 DEF Values
    <3>2. CASE k \in 1 .. N
      <4>1. k # 0 /\ f[k] = G[<< k, f[k - 1] >>] /\ f[k - 1] \in EightWords
        BY <1>1, <1>3, <3>2 DEF Values
      <4> QED
        BY <1>2, <3>2, <4>1, Zenon
    <3> QED
      BY <1>1, <3>1, <3>2
  <2>2. f = [k \in 0 .. N |-> f[k]]
    BY <1>3 DEF Values
  <2> QED
    BY <2>1, <2>2
<1>5. s = F(s)
  BY <1>4, Zenon
<1>6. Chains(bs) = s
  BY DEF Chains, N
<1> HIDE DEF s
<1> DEFINE step(k) == IF k = 0 THEN emsha256H0 ELSE NextChain(s[k - 1], bs[k])
<1>7. \A k \in 0 .. N : F(s)[k] = step(k)
  OBVIOUS
<1> HIDE DEF F, step
<1>8. \A k \in 0 .. N : s[k] = step(k)
  BY <1>5, <1>7
<1>9. s[0] = emsha256H0 /\ \A k \in 1 .. N : s[k] = NextChain(s[k - 1], bs[k])
  BY <1>1, <1>8 DEF step
<1> QED
  BY <1>6, <1>9, Zenon DEF N

LEMMA ChainType ==
  ASSUME NEW bs \in Seq(Block), NEW k \in 0 .. Len(bs)
  PROVE  Chains(bs)[k] \in EightWords
<1>1. CASE k = 0
  BY <1>1, ChainSteps, InitialWords
<1>2. CASE k \in 1 .. Len(bs)
  BY <1>2, ChainSteps, NextChainType
<1> QED
  BY <1>1, <1>2

(* The chaining values along blocks do not change when blocks are added.   *)
LEMMA ChainOfExtension ==
  ASSUME NEW bs \in Seq(Block), NEW cs \in Seq(Block), Extends(bs, cs)
  PROVE  \A k \in 0 .. Len(bs) : Chains(cs)[k] = Chains(bs)[k]
<1> DEFINE T == { k \in 0 .. Len(bs) : Chains(cs)[k] = Chains(bs)[k] }
           N == Len(bs)
<1>0. N \in Nat /\ Len(cs) \in Nat /\ N <= Len(cs)
  BY DEF Extends
<1>1. 0 \in T
  BY <1>0, ChainSteps
<1>2. ASSUME NEW k \in 1 .. N, k - 1 \in T PROVE k \in T
  <2>1. Chains(cs)[k - 1] = Chains(bs)[k - 1] /\ cs[k] = bs[k] /\ k \in 1 .. Len(cs)
    BY <1>0, <1>2 DEF Extends
  <2>2. Chains(cs)[k] = NextChain(Chains(cs)[k - 1], cs[k])
    BY <2>1, ChainSteps
  <2>3. Chains(bs)[k] = NextChain(Chains(bs)[k - 1], bs[k])
    BY ChainSteps
  <2> QED
    BY <2>1, <2>2, <2>3
<1> HIDE DEF T
<1>3. \A k \in 0 .. N : k \in T
  BY <1>0, <1>1, <1>2, NumberInduction
<1> QED
  BY <1>3 DEF T

-----------------------------------------------------------------------------
(* The iterations of the code's three loops are the steps of the standard. *)

LEMMA FromEndOfAppend ==
  ASSUME NEW S, NEW h \in Seq(S), NEW p \in S, NEW k \in 1 .. Len(h)
  PROVE  FromEnd(Append(h, p), 1) = p /\ FromEnd(Append(h, p), k + 1) = FromEnd(h, k)
<1>1. /\ Len(Append(h, p)) = Len(h) + 1 /\ Append(h, p)[Len(h) + 1] = p
      /\ \A j \in 1 .. Len(h) : Append(h, p)[j] = h[j]
  OBVIOUS
<1>2. Len(h) \in Nat /\ Len(h) + 1 - k \in 1 .. Len(h)
  OBVIOUS
<1> QED
  BY <1>1, <1>2 DEF FromEnd

(* Moving the eight variables on moves the window on.                      *)
LEMMA WindowOfRound ==
  ASSUME NEW h \in Seq(Pairs), 4 <= Len(h), NEW k, NEW W
  PROVE  Window(WithNextRound(h, k, W)) = RoundOf(Window(h), k, W)
<1> DEFINE a(x) == FromEnd(h, x).a
           e(x) == FromEnd(h, x).e
           t1   == Add(Add(Add(e(4), sha_Sigma1(e(1))), Add(sha_ch(e(1), e(2), e(3)), k)), W)
           t2   == Add(sha_Sigma0(a(1)), sha_maj(a(1), a(2), a(3)))
           p    == [a |-> Add(t1, t2), e |-> Add(a(4), t1)]
           next == WithNextRound(h, k, W)
<1>1. next = Append(h, p)
  BY DEF WithNextRound
<1>2. p \in Pairs /\ p.a = Add(t1, t2) /\ p.e = Add(a(4), t1)
  BY AddWord DEF Pairs
<1>3. RoundOf(Window(h), k, W) =
        [a |-> Add(t1, t2), b |-> a(1), c |-> a(2), d |-> a(3),
         e |-> Add(a(4), t1), f |-> e(1), g |-> e(2), h |-> e(3)]
  BY DEF RoundOf, Window
<1> HIDE DEF p, next, t1, t2
<1>4. /\ FromEnd(next, 1) = p /\ FromEnd(next, 2) = FromEnd(h, 1)
      /\ FromEnd(next, 3) = FromEnd(h, 2) /\ FromEnd(next, 4) = FromEnd(h, 3)
  <2>1. 1 \in 1 .. Len(h) /\ 2 \in 1 .. Len(h) /\ 3 \in 1 .. Len(h)
    OBVIOUS
  <2>2. /\ FromEnd(next, 1) = p /\ FromEnd(next, 1 + 1) = FromEnd(h, 1)
        /\ FromEnd(next, 2 + 1) = FromEnd(h, 2) /\ FromEnd(next, 3 + 1) = FromEnd(h, 3)
    BY <1>1, <1>2, <2>1, FromEndOfAppend
  <2> QED
    BY <2>2
<1> QED
  BY <1>2, <1>3, <1>4 DEF Window, next

LEMMA WindowOfFirst ==
  ASSUME NEW H \in EightWords
  PROVE  Window(FirstHistory(H)) = Registers(H)
<1> DEFINE h == FirstHistory(H)
<1>1. /\ Len(h) = 4
      /\ h[4] = [a |-> H[0], e |-> H[4]] /\ h[3] = [a |-> H[1], e |-> H[5]]
      /\ h[2] = [a |-> H[2], e |-> H[6]] /\ h[1] = [a |-> H[3], e |-> H[7]]
  BY DEF FirstHistory
<1> HIDE DEF h
<1>2. /\ FromEnd(h, 1) = h[4] /\ FromEnd(h, 2) = h[3]
      /\ FromEnd(h, 3) = h[2] /\ FromEnd(h, 4) = h[1]
  BY <1>1 DEF FromEnd
<1> QED
  BY <1>1, <1>2 DEF Window, Registers, h

(* Adding the variables back is the standard's last step.                  *)
LEMMA AddWindow ==
  ASSUME NEW H, NEW h
  PROVE  [k \in 0 .. 7 |-> Add(H[k], WordsOf(Window(h))[k + 1])] = LastFour(H, h)
<1>1. ASSUME NEW k \in 0 .. 7
      PROVE  WordsOf(Window(h))[k + 1]
               = IF k < 4 THEN FromEnd(h, k + 1).a ELSE FromEnd(h, k - 3).e
  <2>1. /\ WordsOf(Window(h))[1] = FromEnd(h, 1).a /\ WordsOf(Window(h))[2] = FromEnd(h, 2).a
        /\ WordsOf(Window(h))[3] = FromEnd(h, 3).a /\ WordsOf(Window(h))[4] = FromEnd(h, 4).a
        /\ WordsOf(Window(h))[5] = FromEnd(h, 1).e /\ WordsOf(Window(h))[6] = FromEnd(h, 2).e
        /\ WordsOf(Window(h))[7] = FromEnd(h, 3).e /\ WordsOf(Window(h))[8] = FromEnd(h, 4).e
    BY DEF WordsOf, Window
  <2>2. k = 0 \/ k = 1 \/ k = 2 \/ k = 3 \/ k = 4 \/ k = 5 \/ k = 6 \/ k = 7
    OBVIOUS
  <2> QED
    BY <2>1, <2>2, SMTT(30)
<1> QED
  BY <1>1 DEF LastFour

(* The first loop reads a word and the second computes one.                *)
LEMMA WordOfSchedule ==
  ASSUME NEW mb, NEW t \in 0 .. 63
  PROVE  Schedules(mb)[t + 1] =
           Append(Schedules(mb)[t],
                  IF t < 16 THEN chunkToUint32(mb, 4 * t) ELSE ScheduleWord(Schedules(mb)[t], t))
<1> DEFINE s == Schedules(mb)[t]
<1>1. Len(s) = t
  <2>1. t \in 0 .. 64
    BY SMTT(30)
  <2> QED
    BY <2>1, ScheduleType, Zenon
<1>2. Schedules(mb)[t + 1] = Append(s, NextWord(s, mb))
  <2>1. t + 1 \in 1 .. 64 /\ (t + 1) - 1 = t
    OBVIOUS
  <2> QED
    BY <2>1, ScheduleSteps DEF WithNextWord
<1> HIDE DEF s
<1>3. ASSUME ~(t < 16) PROVE NextWord(s, mb) = ScheduleWord(s, t)
  <2>1. /\ FromEnd(s, 2) = s[t - 2 + 1] /\ FromEnd(s, 7) = s[t - 7 + 1]
        /\ FromEnd(s, 15) = s[t - 15 + 1] /\ FromEnd(s, 16) = s[t - 16 + 1]
    BY <1>1 DEF FromEnd
  <2> QED
    BY <1>1, <1>3, <2>1 DEF NextWord, ScheduleWord
<1>4. ASSUME t < 16 PROVE NextWord(s, mb) = chunkToUint32(mb, 4 * t)
  BY <1>1, <1>4 DEF NextWord
<1> QED
  BY <1>2, <1>3, <1>4 DEF s

-----------------------------------------------------------------------------
(* Types, and where a function can stand. *)

LEMMA TestTexts ==
  /\ << >> \in Seq(Byte) /\ Len(<< >>) = 0
  /\ helloText \in Seq(Byte) /\ Len(helloText) = 12
<1>1. Byte = 0 .. 255
  BY OneShotAssumption
<1>2. helloText \in Seq(Byte)
  <2>1. /\ 104 \in Byte /\ 101 \in Byte /\ 108 \in Byte /\ 111 \in Byte /\ 44 \in Byte
        /\ 32 \in Byte /\ 119 \in Byte /\ 114 \in Byte /\ 100 \in Byte
    BY <1>1
  <2> QED
    BY <2>1 DEF helloText
<1> QED
  BY <1>2 DEF helloText

(* The arguments of Update. *)
LEMMA InputFacts ==
  ASSUME NEW a \in Inputs
  PROVE  LET text == IF a[1] = NULL THEN << >> ELSE a[1] IN
         /\ a[2] \in Nat /\ text \in Seq(Byte)
         /\ a # << NULL, 1 >> => Len(text) = a[2]
         /\ a # << NULL, 1 >> /\ a[2] # 0 => a[1] = text /\ a[1] # NULL
<1>0. NULL \notin Messages /\ NULL # << >> /\ NULL # helloText /\ Messages \subseteq Seq(Byte)
  BY OneShotAssumption
<1>1. CASE \E m \in Messages \cup { << >>, helloText } : a = << m, Len(m) >>
  <2>1. PICK m \in Messages \cup { << >>, helloText } : a = << m, Len(m) >>
    BY <1>1
  <2>2. m \in Seq(Byte) /\ m # NULL
    BY <1>0, TestTexts
  <2>3. a[1] = m /\ a[2] = Len(m) /\ Len(m) \in Nat
    BY <2>1, <2>2
  <2> QED
    BY <2>2, <2>3
<1>2. CASE a = << NULL, 0 >> \/ a = << NULL, 1 >>
  <2>1. << >> \in Seq(Byte) /\ Len(<< >>) = 0
    OBVIOUS
  <2> QED
    BY <1>2, <2>1
<1> QED
  BY <1>1, <1>2, TestTexts DEF Inputs, DigestInputs, TestInput

(* The eight bits of a byte, and the digest's bytes. *)
LEMMA ByteAtType == ASSUME NEW x, NEW k PROVE ByteAt(x, k) \in 0 .. 255
<1> DEFINE bit(j) == IF k + j \in x THEN 2^j ELSE 0
<1>1. /\ 2^0 = 1 /\ 2^1 = 2 /\ 2^2 = 4 /\ 2^3 = 8
      /\ 2^4 = 16 /\ 2^5 = 32 /\ 2^6 = 64 /\ 2^7 = 128
  OBVIOUS
<1>2. /\ bit(0) \in {0, 1} /\ bit(1) \in {0, 2} /\ bit(2) \in {0, 4} /\ bit(3) \in {0, 8}
      /\ bit(4) \in {0, 16} /\ bit(5) \in {0, 32} /\ bit(6) \in {0, 64} /\ bit(7) \in {0, 128}
  BY <1>1
<1>3. ByteAt(x, k) = bit(0) + bit(1) + bit(2) + bit(3) + bit(4) + bit(5) + bit(6) + bit(7)
  BY DEF ByteAt
<1> HIDE DEF bit
<1>4. /\ bit(0) + bit(1) + bit(2) + bit(3) \in 0 .. 15
      /\ bit(4) + bit(5) + bit(6) + bit(7) \in 0 .. 240
  BY <1>2, SMTT(30)
<1> QED
  BY <1>2, <1>3, <1>4

LEMMA DigestBytesType == ASSUME NEW words PROVE DigestBytes(words) \in [1 .. 32 -> Byte]
<1>1. Byte = 0 .. 255
  BY OneShotAssumption
<1> QED
  BY <1>1, ByteAtType DEF DigestBytes

(* The eight variables are words, whatever they are given. *)
LEMMA RegistersType ==
  ASSUME NEW H \in EightWords
  PROVE  Registers(H) \in EightRegisters
<1>1. \A k \in 0 .. 7 : H[k] \in Word
  BY DEF EightWords
<1>2. /\ H[0] \in Word /\ H[1] \in Word /\ H[2] \in Word /\ H[3] \in Word
      /\ H[4] \in Word /\ H[5] \in Word /\ H[6] \in Word /\ H[7] \in Word
  BY <1>1
<1> QED
  BY <1>2 DEF Registers, EightRegisters

LEMMA RoundType ==
  ASSUME NEW r \in EightRegisters, NEW k, NEW W
  PROVE  RoundOf(r, k, W) \in EightRegisters
<1>1. /\ r.a \in Word /\ r.b \in Word /\ r.c \in Word
      /\ r.e \in Word /\ r.f \in Word /\ r.g \in Word
  BY DEF EightRegisters
<1>2. PICK x \in Word, y \in Word :
        RoundOf(r, k, W) = [a |-> x, b |-> r.a, c |-> r.b, d |-> r.c,
                            e |-> y, f |-> r.e, g |-> r.f, h |-> r.g]
  BY AddWord DEF RoundOf
<1> QED
  BY <1>1, <1>2 DEF EightRegisters

LEMMA NoRegistersType == NoRegisters \in EightRegisters
<1>1. [k \in 0 .. 7 |-> {}] \in EightWords
  BY DEF EightWords, Word
<1> QED
  BY <1>1, RegistersType DEF NoRegisters

LEMMA LoopsKeepTypes ==
  ASSUME LoopInv, NEW mb, CompressionStep(mb)
  PROVE  LoopInv' /\ stage # "done"
<1>1. CASE LoadWord(mb)
  <2>1. chunkToUint32(mb, 4 * i) \in Word
    BY DEF chunkToUint32, Word
  <2>2. /\ stage = "load" /\ i \in 0 .. 15 /\ Len(w) = i /\ i' = i + 1
        /\ w' = Append(w, chunkToUint32(mb, 4 * i))
        /\ stage' = IF i + 1 < 16 THEN "load" ELSE "schedule"
        /\ chain' = chain /\ regs' = regs /\ w \in Seq(Word)
    BY <1>1 DEF LoadWord, LoopInv
  <2>3. w' \in Seq(Word) /\ Len(w') = i + 1
    BY <2>1, <2>2
  <2> QED
    BY <2>2, <2>3 DEF LoopInv
<1>2. CASE Schedule
  <2>1. ScheduleWord(w, i) \in Word
    BY AddWord DEF ScheduleWord
  <2>2. /\ stage = "schedule" /\ i \in 16 .. 63 /\ Len(w) = i /\ i' = i + 1
        /\ w' = Append(w, ScheduleWord(w, i)) /\ stage' = stage
        /\ chain' = chain /\ regs' = regs /\ w \in Seq(Word)
    BY <1>2 DEF Schedule, LoopInv
  <2>3. w' \in Seq(Word) /\ Len(w') = i + 1
    BY <2>1, <2>2
  <2> QED
    BY <2>2, <2>3 DEF LoopInv
<1>3. CASE LoadRegisters
  <2>1. Registers(chain) \in EightRegisters
    BY RegistersType DEF LoopInv
  <2> QED
    BY <1>3, <2>1 DEF LoadRegisters, LoopInv
<1>4. CASE Round
  <2>1. RoundOf(regs, sha256K[i], w[i + 1]) \in EightRegisters
    BY RoundType DEF LoopInv
  <2>2. /\ stage = "rounds" /\ i \in 0 .. 63 /\ i' = i + 1 /\ regs' \in EightRegisters
        /\ chain' = chain /\ w' = w /\ stage' = stage
    BY <1>4, <2>1 DEF Round, LoopInv
  <2> QED
    BY <2>2 DEF LoopInv
<1>5. CASE AddBack
  <2>1. [k \in 0 .. 7 |-> Add(chain[k], WordsOf(regs)[k + 1])] \in EightWords
    BY AddWord DEF EightWords
  <2>2. << >> \in Seq(Word) /\ Len(<< >>) = 0
    OBVIOUS
  <2>3. /\ chain' \in EightWords /\ stage' = "done" /\ w' = << >>
        /\ regs' = NoRegisters /\ i' = 0 /\ stage = "rounds"
    BY <1>5, <2>1 DEF AddBack
  <2>4. w' \in Seq(Word) /\ Len(w') = 0
    BY <2>2, <2>3, Zenon
  <2>5. chain' \in EightWords /\ stage' = "done" /\ i' = 0 /\ stage = "rounds"
    BY <2>3
  <2>6. regs' \in EightRegisters
    BY <2>3, NoRegistersType
  <2> QED
    BY <2>4, <2>5, <2>6 DEF LoopInv
<1> QED
  BY <1>1, <1>2, <1>3, <1>4, <1>5 DEF CompressionStep

LEMMA ShapeIsTyped == Shape => TypeOK
<1> SUFFICES ASSUME Shape PROVE TypeOK
  OBVIOUS
<1>1. CallTypes
  BY DEF Shape
<1>2. /\ chain \in [0 .. 7 -> Word] /\ w \in Seq(Word)
      /\ regs \in [{ "a", "b", "c", "d", "e", "f", "g", "h" } -> Word]
  BY DEF Shape, LoopInv, EightWords, EightRegisters
<1>3. Len(w) = IF stage \in { "load", "schedule" } THEN i
               ELSE IF stage = "rounds" THEN 64 ELSE 0
  BY DEF Shape, LoopInv
<1> QED
  BY <1>1, <1>2, <1>3 DEF TypeOK, CallTypes

LEMMA NewObjectShape ==
  ASSUME LoopInv, CaughtUp, NewObject
  PROVE  /\ LoopInv' /\ StageInv' /\ ctx' \in Context /\ pos' = 0
         /\ compressed' \in 0 .. Len(ctx'.i_hash)
<1>1. /\ ctx' = NewContext /\ compressed' = 0 /\ pos' = 0 /\ chain' = emsha256H0
      /\ w' = w /\ regs' = regs /\ i' = i /\ stage' = stage
  BY DEF NewObject
<1>2. NewContext.i_hash = << >>
  BY DEF NewContext, ResetContext
<1>3. Len(ctx'.i_hash) = 0
  BY <1>1, <1>2
<1>4. LoopInv'
  BY <1>1, InitialWords DEF LoopInv
<1>5. StageInv'
  BY <1>1, <1>3 DEF StageInv, CaughtUp
<1> QED
  BY <1>1, <1>3, <1>4, <1>5, NewType

LEMMA ShapeInit == Init => Shape
<1> SUFFICES ASSUME Init PROVE Shape
  OBVIOUS
<1>1. /\ pc = "idle" /\ fn = "none" /\ input = << << >>, 0 >> /\ pos = 0 /\ out = NULL
      /\ ctx = NewContext /\ compressed = 0 /\ d = NoDigest /\ test = 0 /\ n = 0
      /\ ret = "Unknown" /\ chain = emsha256H0 /\ w = << >> /\ regs = NoRegisters
      /\ i = 0 /\ stage = "done"
  BY DEF Init
<1>2. NewContext.i_hash = << >>
  BY DEF NewContext, ResetContext
<1>3. Len(ctx.i_hash) = 0 /\ input = TestInput(1) /\ input[2] = 0
  BY <1>1, <1>2 DEF TestInput
<1>4. CallTypes
  BY <1>1, <1>3, NewType DEF CallTypes, EMSHAResult, EMSHA_SELF_TEST_ITERS
<1>5. CallInv
  BY <1>1, <1>3 DEF CallInv, Inputs
<1>6. w \in Seq(Word) /\ Len(w) = 0
  <2>1. << >> \in Seq(Word) /\ Len(<< >>) = 0
    OBVIOUS
  <2> QED
    BY <1>1, <2>1, Zenon
<1>7. LoopInv
  BY <1>1, <1>6, InitialWords, NoRegistersType DEF LoopInv
<1>8. StageInv
  BY <1>1, <1>3 DEF StageInv, CaughtUp
<1> QED
  BY <1>4, <1>5, <1>7, <1>8 DEF Shape

(* A call begins with a new object, when everything before is done.        *)
LEMMA ShapeCallDigest ==
  ASSUME Shape, NEW a \in DigestInputs, NEW p \in { "buffer", NULL }, CallDigest(a, p)
  PROVE  Shape'
<1>1. /\ pc = "idle" /\ pc' = "update" /\ fn' = "SHA256Digest" /\ input' = a /\ out' = p
      /\ d' = NoDigest /\ test' = 0 /\ n' = 0 /\ ret' = "Unknown" /\ NewObject
  BY DEF CallDigest
<1>2. LoopInv /\ CaughtUp
  BY <1>1 DEF Shape, StageInv
<1>3. /\ LoopInv' /\ StageInv' /\ ctx' \in Context /\ pos' = 0
      /\ compressed' \in 0 .. Len(ctx'.i_hash)
  BY <1>1, <1>2, NewObjectShape
<1>4. a \in Inputs /\ a[2] \in Nat
  BY InputFacts DEF Inputs
<1>5. CallTypes'
  BY <1>1, <1>3, <1>4 DEF CallTypes, EMSHAResult, EMSHA_SELF_TEST_ITERS
<1>6. CallInv'
  BY <1>1, <1>3, <1>4 DEF CallInv
<1> QED
  BY <1>3, <1>5, <1>6 DEF Shape

LEMMA ShapeBeginTest ==
  ASSUME Shape, CaughtUp, NEW t \in { 1, 2 }, BeginTest(t),
         fn' = "SHA256SelfTest", out' = "buffer", ret' \in EMSHAResult
  PROVE  Shape'
<1>1. /\ pc' = "update" /\ test' = t /\ n' = 0 /\ input' = TestInput(t)
      /\ d' = [j \in 1 .. 32 |-> 0] /\ NewObject
  BY DEF BeginTest
<1>3. /\ LoopInv' /\ StageInv' /\ ctx' \in Context /\ pos' = 0
      /\ compressed' \in 0 .. Len(ctx'.i_hash)
  BY <1>1, NewObjectShape DEF Shape
<1>4. TestInput(t) \in Inputs /\ TestInput(t)[2] \in Nat
  BY InputFacts DEF Inputs
<1>5. d' \in [1 .. 32 -> Byte]
  BY <1>1, OneShotAssumption
<1>6. CallTypes'
  <2>1. test' \in 0 .. 2 /\ n' \in 0 .. EMSHA_SELF_TEST_ITERS - 1
    BY <1>1 DEF EMSHA_SELF_TEST_ITERS
  <2>2. input'[2] \in Nat
    BY <1>1, <1>4
  <2>3. pos' \in 0 .. input'[2]
    BY <1>3, <2>2
  <2> QED
    BY <1>1, <1>3, <1>5, <2>1, <2>3 DEF CallTypes
<1>7. CallInv'
  BY <1>1, <1>3, <1>4 DEF CallInv
<1> QED
  BY <1>3, <1>6, <1>7 DEF Shape

(* The results of the object's three functions. *)
LEMMA ResultTypes ==
  ASSUME NEW c \in Context, NEW m, NEW len, NEW p
  PROVE  /\ UpdateResult(c, m, len) \in EMSHAResult
         /\ FinaliseResult(c, p) \in EMSHAResult
         /\ ResultResult(c, p) \in EMSHAResult
         /\ Finalised(c, p) \in { c, FinaliseContext(c) }
         /\ FinaliseResult(c, p) # "OK" => Finalised(c, p) = c
         /\ Answered(c, p) \in { c, FinaliseContext(c) }
         /\ ResultResult(c, p) # "OK" => Answered(c, p) = c
<1>1. c.hStatus \in EMSHAResult
  BY DEF Context
<1>2. /\ UpdateResult(c, m, len) \in EMSHAResult
      /\ FinaliseResult(c, p) \in EMSHAResult
  BY <1>1 DEF UpdateResult, FinaliseResult, EMSHAResult
<1>3. ResultResult(c, p) \in EMSHAResult
  BY <1>1, <1>2 DEF ResultResult, EMSHAResult
<1>4. Finalised(c, p) \in { c, FinaliseContext(c) }
  BY DEF Finalised
<1>5. Answered(c, p) \in { c, FinaliseContext(c) }
  BY <1>4 DEF Answered
<1> QED
  BY <1>2, <1>3, <1>4, <1>5 DEF Finalised, Answered

LEMMA ShapeUpdate == ASSUME Shape, Update PROVE Shape'
<1> DEFINE res == UpdateResult(ctx, input[1], input[2])
<1>1. /\ pc = "update"
      /\ fn' = fn /\ input' = input /\ out' = out /\ test' = test /\ n' = n /\ fault' = fault
      /\ pos' = pos /\ ctx' = ctx /\ compressed' = compressed /\ d' = d
      /\ chain' = chain /\ w' = w /\ regs' = regs /\ i' = i /\ stage' = stage
  BY DEF Update, callVars, compressionVars
<1>2. CallTypes /\ CallInv /\ LoopInv /\ StageInv
  BY DEF Shape
<1>3. LoopInv'
  BY <1>1, <1>2 DEF LoopInv
<1>4. CaughtUp /\ CaughtUp' /\ StageInv'
  BY <1>1, <1>2 DEF StageInv, CaughtUp
<1>5. CASE res = "OK"
  <2>1. pc' = (IF input[2] = 0 THEN "answer" ELSE "absorb") /\ ret' = ret
    BY <1>1, <1>5 DEF Update
  <2>2. input # << NULL, 1 >>
    BY <1>5 DEF UpdateResult
  <2>3. pos = 0 /\ input[2] \in Nat
    BY <1>1, <1>2, InputFacts DEF CallInv
  <2>4. CallTypes'
    BY <1>1, <1>2, <2>1 DEF CallTypes
  <2>5. CallInv'
    BY <1>1, <1>2, <2>1, <2>2, <2>3 DEF CallInv
  <2> QED
    BY <1>3, <1>4, <2>4, <2>5 DEF Shape
<1>6. CASE res # "OK"
  <2>1. pc' = "idle" /\ ret' = res
    BY <1>1, <1>6 DEF Update, Return
  <2>2. res \in EMSHAResult
    BY <1>2, ResultTypes DEF CallTypes
  <2>3. CallTypes'
    BY <1>1, <1>2, <2>1, <2>2 DEF CallTypes
  <2>4. CallInv'
    BY <1>1, <1>2, <2>1 DEF CallInv
  <2> QED
    BY <1>3, <1>4, <2>3, <2>4 DEF Shape
<1> QED
  BY <1>5, <1>6

(* A byte that the loop takes is a byte of the message. *)
LEMMA NextByte ==
  ASSUME Shape, pc = "absorb"
  PROVE  /\ input[1] = Text /\ Text \in Seq(Byte) /\ Len(Text) = input[2] /\ input[2] \in Nat
         /\ pos \in 0 .. Len(Text) - 1 /\ Text[pos + 1] \in Byte
<1>1. input \in Inputs /\ input # << NULL, 1 >> /\ pos < input[2] /\ pos \in 0 .. input[2]
  BY DEF Shape, CallInv, CallTypes
<1>2. input[2] \in Nat /\ input[2] # 0
  BY <1>1, InputFacts
<1>3. Text \in Seq(Byte) /\ Len(Text) = input[2] /\ input[1] = Text
  BY <1>1, <1>2, InputFacts DEF Text
<1>4. pos \in 0 .. Len(Text) - 1 /\ pos + 1 \in 1 .. Len(Text)
  BY <1>1, <1>2, <1>3
<1> HIDE DEF Text
<1>5. Text[pos + 1] \in Byte
  BY <1>3, <1>4
<1> QED
  BY <1>2, <1>3, <1>4, <1>5

LEMMA ShapeAbsorb == ASSUME Shape, Absorb PROVE Shape'
<1> DEFINE x == input[1][pos + 1]
<1>1. /\ pc = "absorb" /\ CaughtUp /\ ctx' = AbsorbByte(ctx, x) /\ pos' = pos + 1
      /\ pc' = IF pos + 1 < input[2] THEN "absorb" ELSE "answer"
      /\ fn' = fn /\ input' = input /\ out' = out /\ test' = test /\ n' = n /\ fault' = fault
      /\ compressed' = compressed /\ d' = d /\ ret' = ret
      /\ chain' = chain /\ w' = w /\ regs' = regs /\ i' = i /\ stage' = stage
  BY DEF Absorb, callVars, compressionVars
<1>2. CallTypes /\ CallInv /\ LoopInv /\ StageInv
  BY DEF Shape
<1>3. LoopInv'
  BY <1>1, <1>2 DEF LoopInv
<1>4. /\ x \in Byte /\ input[2] \in Nat /\ pos \in 0 .. input[2] - 1
  BY <1>1, NextByte
<1> HIDE DEF x
<1>5. /\ ctx \in Context /\ ctx' \in Context /\ Extends(ctx.i_hash, ctx'.i_hash)
  BY <1>1, <1>2, <1>4, AbsorbByteType, AbsorbExtends DEF CallTypes
<1>6. compressed' \in 0 .. Len(ctx'.i_hash)
  <2>1. Len(ctx.i_hash) \in Nat /\ Len(ctx'.i_hash) \in Nat
    BY <1>5 DEF Context
  <2> QED
    BY <1>1, <1>2, <1>5, <2>1 DEF CallTypes, Extends
<1>7. CallTypes'
  BY <1>1, <1>2, <1>4, <1>5, <1>6 DEF CallTypes
<1>8. CallInv'
  BY <1>1, <1>2, <1>4 DEF CallInv
<1>9. StageInv'
  BY <1>1 DEF StageInv, CaughtUp
<1> QED
  BY <1>3, <1>7, <1>8, <1>9 DEF Shape

LEMMA ShapeAnswer == ASSUME Shape, Answer PROVE Shape'
<1> DEFINE once == fn = "SHA256Digest"
           res == IF once THEN FinaliseResult(ctx, out) ELSE ResultResult(ctx, out)
           c == IF once THEN Finalised(ctx, out) ELSE Answered(ctx, out)
<1>1. /\ pc = "answer" /\ CaughtUp /\ ctx' = c
      /\ IF res = "OK" THEN pc' = "write" /\ ret' = ret ELSE pc' = "idle" /\ ret' = res
      /\ fn' = fn /\ input' = input /\ out' = out /\ test' = test /\ n' = n /\ fault' = fault
      /\ pos' = pos /\ compressed' = compressed /\ d' = d
      /\ chain' = chain /\ w' = w /\ regs' = regs /\ i' = i /\ stage' = stage
  BY DEF Answer, Return, callVars, compressionVars
<1>2. CallTypes /\ CallInv /\ LoopInv /\ StageInv
  BY DEF Shape
<1>3. LoopInv'
  BY <1>1, <1>2 DEF LoopInv
<1>4. /\ res \in EMSHAResult /\ c \in { ctx, FinaliseContext(ctx) }
      /\ res # "OK" => c = ctx
  BY <1>2, ResultTypes DEF CallTypes
<1> HIDE DEF res, c
<1>5. /\ ctx \in Context /\ ctx' \in Context
      /\ ctx' = ctx \/ Extends(ctx.i_hash, ctx'.i_hash)
  BY <1>1, <1>2, <1>4, FinaliseType, FinaliseExtends DEF CallTypes
<1>6. compressed' \in 0 .. Len(ctx'.i_hash)
  <2>1. Len(ctx.i_hash) \in Nat /\ Len(ctx'.i_hash) \in Nat
    BY <1>5 DEF Context
  <2> QED
    BY <1>1, <1>2, <1>5, <2>1 DEF CallTypes, Extends
<1>7. CallTypes'
  BY <1>1, <1>2, <1>4, <1>5, <1>6 DEF CallTypes
<1>8. CallInv'
  BY <1>1, <1>2 DEF CallInv
<1>9. StageInv'
  BY <1>1, <1>4 DEF StageInv, CaughtUp
<1> QED
  BY <1>3, <1>7, <1>8, <1>9 DEF Shape

LEMMA ShapeWrite == ASSUME Shape, Write PROVE Shape'
<1>1. /\ pc = "write" /\ CaughtUp /\ d' = DigestBytes(chain)
      /\ IF fn = "SHA256Digest" THEN pc' = "idle" /\ ret' = "OK" ELSE pc' = "compare" /\ ret' = ret
      /\ fn' = fn /\ input' = input /\ out' = out /\ test' = test /\ n' = n /\ fault' = fault
      /\ pos' = pos /\ ctx' = ctx /\ compressed' = compressed
      /\ chain' = chain /\ w' = w /\ regs' = regs /\ i' = i /\ stage' = stage
  BY DEF Write, Return, callVars, compressionVars
<1>2. CallTypes /\ CallInv /\ LoopInv /\ StageInv
  BY DEF Shape
<1>3. LoopInv'
  BY <1>1, <1>2 DEF LoopInv
<1>4. d' \in [1 .. 32 -> Byte]
  BY <1>1, DigestBytesType
<1>5. "OK" \in EMSHAResult
  BY DEF EMSHAResult
<1>6. CallTypes'
  BY <1>1, <1>2, <1>4, <1>5 DEF CallTypes
<1>7. CallInv'
  BY <1>1, <1>2 DEF CallInv
<1>8. StageInv'
  BY <1>1 DEF StageInv, CaughtUp
<1> QED
  BY <1>3, <1>6, <1>7, <1>8 DEF Shape

(* What Compare leaves alone when it does not begin another test. *)
SameObject ==
  UNCHANGED << fn, input, out, test, fault, pos, ctx, compressed, d, compressionVars >>

(* The four outcomes of Compare. *)
LEMMA CompareOutcomes ==
  ASSUME Shape, Compare
  PROVE  /\ fn' = fn /\ out' = out /\ fault' = fault /\ pc = "compare" /\ CaughtUp
         /\ \/ /\ ~Matches(d, Vector(test))
               /\ printed' = Complaint /\ pc' = "idle" /\ ret' = "TestFailure"
               /\ n' = n /\ SameObject
            \/ /\ Matches(d, Vector(test)) /\ printed' = printed
               /\ n \in 0 .. 2 /\ n' = n + 1 /\ pc' = "answer" /\ ret' = ret /\ SameObject
            \/ /\ Matches(d, Vector(test)) /\ printed' = printed
               /\ n = 3 /\ test = 1 /\ BeginTest(2) /\ ret' = ret
            \/ /\ Matches(d, Vector(test)) /\ printed' = printed
               /\ n = 3 /\ test = 2 /\ pc' = "idle" /\ ret' = "OK" /\ n' = n /\ SameObject
<1>1. pc = "compare" /\ n \in 0 .. 3 /\ StageInv
  BY DEF Compare, Shape, CallTypes, EMSHA_SELF_TEST_ITERS
<1>2. CaughtUp
  BY <1>1 DEF StageInv
<1>3. CASE ~Matches(d, Vector(test))
  BY <1>1, <1>2, <1>3 DEF Compare, Return, SameObject, callVars, compressionVars
<1>4. CASE Matches(d, Vector(test))
  <2>1. /\ printed' = printed /\ fn' = fn /\ out' = out /\ fault' = fault
        /\ \/ /\ ~LastIteration
              /\ n' = n + 1
              /\ pc' = "answer"
              /\ UNCHANGED << input, pos, test, ctx, compressed, d, ret, compressionVars >>
           \/ /\ LastIteration /\ test = 1
              /\ BeginTest(2)
              /\ UNCHANGED ret
           \/ /\ LastIteration /\ test = 2
              /\ pc' = "idle" /\ ret' = "OK"
              /\ UNCHANGED << input, pos, test, n, ctx, compressed, d, compressionVars >>
    BY <1>4 DEF Compare, Return
  <2>2. LastIteration <=> n = 3
    BY <1>1 DEF LastIteration, EMSHA_SELF_TEST_ITERS
  <2>3. ~LastIteration => n \in 0 .. 2
    BY <1>1, <2>2
  <2> QED
    BY <1>1, <1>2, <1>4, <2>1, <2>2, <2>3 DEF SameObject, compressionVars
<1> QED
  BY <1>3, <1>4

LEMMA ShapeCompare == ASSUME Shape, Compare PROVE Shape'
<1>1. CallTypes /\ CallInv /\ LoopInv /\ StageInv
  BY DEF Shape
<1>2. /\ fn' = fn /\ out' = out /\ pc = "compare" /\ CaughtUp
      /\ fn = "SHA256SelfTest" /\ out = "buffer"
  BY <1>1, CompareOutcomes DEF CallInv
<1>3. CASE /\ test = 1 /\ BeginTest(2) /\ ret' = ret
  BY <1>1, <1>2, <1>3, ShapeBeginTest DEF CallTypes
<1>4. CASE /\ SameObject /\ n' \in 0 .. 3 /\ pc' \in { "idle", "answer" }
           /\ ret' \in { ret, "OK", "TestFailure" }
  <2>1. /\ input' = input /\ test' = test /\ fault' = fault /\ pos' = pos /\ ctx' = ctx
        /\ compressed' = compressed /\ d' = d
        /\ chain' = chain /\ w' = w /\ regs' = regs /\ i' = i /\ stage' = stage
    BY <1>4 DEF SameObject, compressionVars
  <2>2. LoopInv'
    BY <1>1, <2>1 DEF LoopInv
  <2>3. StageInv'
    BY <1>2, <2>1 DEF StageInv, CaughtUp
  <2>4. ret' \in EMSHAResult
    BY <1>1, <1>4 DEF CallTypes, EMSHAResult
  <2>5. CallTypes'
    BY <1>1, <1>4, <2>1, <2>4 DEF CallTypes, EMSHA_SELF_TEST_ITERS
  <2>6. CallInv'
    BY <1>1, <1>2, <1>4, <2>1 DEF CallInv
  <2> QED
    BY <2>2, <2>3, <2>5, <2>6 DEF Shape
<1>5. n \in 0 .. 3
  BY <1>1 DEF CallTypes, EMSHA_SELF_TEST_ITERS
<1> QED
  BY <1>3, <1>4, <1>5, CompareOutcomes

LEMMA ShapeEnterBlock == ASSUME Shape, EnterBlock PROVE Shape'
<1>1. /\ compressed < Len(ctx.i_hash) /\ stage = "done" /\ stage' = "load"
      /\ chain' = chain /\ w' = w /\ regs' = regs /\ i' = i
      /\ pc' = pc /\ fn' = fn /\ input' = input /\ out' = out /\ test' = test /\ n' = n
      /\ pos' = pos /\ ctx' = ctx /\ compressed' = compressed /\ d' = d /\ ret' = ret
  BY DEF EnterBlock, Enter, callVars
<1>2. CallTypes /\ CallInv /\ LoopInv /\ StageInv
  BY DEF Shape
<1>3. LoopInv'
  BY <1>1, <1>2 DEF LoopInv
<1>4. ~CaughtUp
  BY <1>1 DEF CaughtUp
<1>5. StageInv'
  BY <1>1, <1>2, <1>4 DEF StageInv
<1>6. CallTypes'
  BY <1>1, <1>2 DEF CallTypes
<1>7. CallInv'
  BY <1>1, <1>2 DEF CallInv
<1> QED
  BY <1>3, <1>5, <1>6, <1>7 DEF Shape

LEMMA ShapeInBlock == ASSUME Shape, InBlock PROVE Shape'
<1>1. /\ stage # "done" /\ CompressionStep(ctx.i_hash[compressed + 1])
      /\ compressed' = IF stage' = "done" THEN compressed + 1 ELSE compressed
      /\ pc' = pc /\ fn' = fn /\ input' = input /\ out' = out /\ test' = test /\ n' = n
      /\ pos' = pos /\ ctx' = ctx /\ d' = d /\ ret' = ret
  BY DEF InBlock, callVars
<1>2. CallTypes /\ CallInv /\ LoopInv /\ StageInv
  BY DEF Shape
<1>3. LoopInv'
  BY <1>1, <1>2, LoopsKeepTypes
<1>4. pc \in { "absorb", "answer", "write" } /\ compressed < Len(ctx.i_hash)
  BY <1>1, <1>2 DEF StageInv, CaughtUp
<1>5. compressed \in Nat /\ Len(ctx.i_hash) \in Nat
  BY <1>2 DEF CallTypes, Context
<1>6. compressed' \in 0 .. Len(ctx'.i_hash) /\ (stage' # "done" => compressed' < Len(ctx'.i_hash))
  BY <1>1, <1>4, <1>5
<1>7. StageInv'
  BY <1>1, <1>4, <1>6 DEF StageInv
<1>8. CallTypes'
  BY <1>1, <1>2, <1>6 DEF CallTypes
<1>9. CallInv'
  BY <1>1, <1>2 DEF CallInv
<1> QED
  BY <1>3, <1>7, <1>8, <1>9 DEF Shape

LEMMA ShapeStep == Shape /\ [Next]_vars => Shape'
<1> SUFFICES ASSUME Shape, [Next]_vars PROVE Shape'
  OBVIOUS
<1>1. ASSUME NEW a \in DigestInputs, NEW p \in { "buffer", NULL }, CallDigest(a, p) PROVE Shape'
  BY <1>1, ShapeCallDigest
<1>2. ASSUME NEW f \in Faults, CallSelfTest(f) PROVE Shape'
  <2>1. /\ pc = "idle" /\ fn' = "SHA256SelfTest" /\ out' = "buffer" /\ ret' \in EMSHAResult
        /\ BeginTest(1)
    BY <1>2 DEF CallSelfTest, EMSHAResult
  <2>2. CaughtUp
    BY <2>1 DEF Shape, StageInv
  <2> QED
    BY <2>1, <2>2, ShapeBeginTest
<1>3. CASE UNCHANGED vars
  BY <1>3 DEF vars, callVars, compressionVars, Shape, CallTypes, CallInv, LoopInv, StageInv,
              CaughtUp
<1> QED
  BY <1>1, <1>2, <1>3, ShapeUpdate, ShapeAbsorb, ShapeAnswer, ShapeWrite, ShapeCompare,
     ShapeEnterBlock, ShapeInBlock DEF Next, Call, Running

(* The digest buffer, the words, the object and the schedule have their    *)
(* types in every state, for every message and every fault.                *)
THEOREM OneShotTypes == Spec => []TypeOK
<1>1. Spec => []Shape
  BY ShapeInit, ShapeStep, PTL DEF Spec
<1> QED
  BY <1>1, ShapeIsTyped, PTL

-----------------------------------------------------------------------------
(* The compression: each loop is where the standard is after as many steps.*)

Hashing == ChainInv /\ BlockInv

(* A step inside the function, on the block mb. *)
LEMMA LoopsFollow ==
  ASSUME LoopInv, NEW mb, mb = ctx.i_hash[compressed + 1], BlockInv, CompressionStep(mb)
  PROVE  /\ stage' \in { "load", "schedule" } => w' = Schedules(mb)[i'] /\ chain' = chain
         /\ stage' = "rounds" =>
              /\ w' = Schedules(mb)[64] /\ chain' = chain
              /\ regs' = Window(Histories(chain, w')[i'])
         /\ stage' = "done" => chain' = NextChain(chain, mb)
<1>0. /\ stage \in { "load", "schedule" } => w = Schedules(mb)[i]
      /\ stage = "rounds" => w = Schedules(mb)[64] /\ regs = Window(Histories(chain, w)[i])
  BY DEF BlockInv
<1>1. CASE LoadWord(mb)
  <2>1. /\ w = Schedules(mb)[i] /\ i \in 0 .. 15 /\ i' = i + 1 /\ chain' = chain
        /\ w' = Append(w, chunkToUint32(mb, 4 * i)) /\ stage' \in { "load", "schedule" }
    BY <1>0, <1>1 DEF LoadWord, LoopInv
  <2>2. i \in 0 .. 63 /\ i < 16
    BY <2>1
  <2>3. Schedules(mb)[i + 1]
          = Append(Schedules(mb)[i],
                   IF i < 16 THEN chunkToUint32(mb, 4 * i) ELSE ScheduleWord(Schedules(mb)[i], i))
    BY <2>2, WordOfSchedule, Zenon
  <2>4. w' = Schedules(mb)[i']
    BY <2>1, <2>2, <2>3, Zenon
  <2> QED
    BY <2>1, <2>4
<1>2. CASE Schedule
  <2>1. /\ w = Schedules(mb)[i] /\ i \in 16 .. 63 /\ i' = i + 1 /\ chain' = chain
        /\ w' = Append(w, ScheduleWord(w, i)) /\ stage' = "schedule"
    BY <1>0, <1>2 DEF Schedule, LoopInv
  <2>2. i \in 0 .. 63 /\ ~(i < 16)
    BY <2>1
  <2>3. Schedules(mb)[i + 1]
          = Append(Schedules(mb)[i],
                   IF i < 16 THEN chunkToUint32(mb, 4 * i) ELSE ScheduleWord(Schedules(mb)[i], i))
    BY <2>2, WordOfSchedule, Zenon
  <2>4. w' = Schedules(mb)[i']
    BY <2>1, <2>2, <2>3, Zenon
  <2> QED
    BY <2>1, <2>4
<1>3. CASE LoadRegisters
  <2>1. /\ w = Schedules(mb)[64] /\ i' = 0 /\ chain' = chain /\ w' = w
        /\ regs' = Registers(chain) /\ stage' = "rounds"
        /\ chain \in EightWords /\ w \in Seq(Word) /\ Len(w) = 64
    BY <1>0, <1>3 DEF LoadRegisters, LoopInv
  <2>2. Histories(chain, w)[0] = FirstHistory(chain)
    BY <2>1, HistorySteps
  <2>3. regs' = Window(Histories(chain, w)[0])
    BY <2>1, <2>2, WindowOfFirst
  <2> QED
    BY <2>1, <2>3
<1>4. CASE Round
  <2>1. /\ w = Schedules(mb)[64] /\ i \in 0 .. 63 /\ i' = i + 1 /\ chain' = chain /\ w' = w
        /\ regs = Window(Histories(chain, w)[i]) /\ regs' = RoundOf(regs, sha256K[i], w[i + 1])
        /\ stage' = "rounds" /\ chain \in EightWords /\ w \in Seq(Word) /\ Len(w) = 64
    BY <1>0, <1>4 DEF Round, LoopInv
  <2> DEFINE h == Histories(chain, w)[i]
             k == sha256K[i]
             word == w[i + 1]
  <2>2. h \in Seq(Pairs) /\ Len(h) = i + 4
    <3>1. i \in 0 .. 64
      BY <2>1
    <3> QED
      BY <2>1, <3>1, HistoryType, Zenon
  <2>3. Histories(chain, w)[i + 1] = WithNextRound(h, k, word)
    <3>1. i + 1 \in 1 .. 64 /\ (i + 1) - 1 = i
      BY <2>1
    <3>2. Histories(chain, w)[i + 1]
          = WithNextRound(Histories(chain, w)[(i + 1) - 1], sha256K[(i + 1) - 1], w[i + 1])
      BY <2>1, <3>1, HistorySteps, Zenon
    <3> QED
      BY <3>1, <3>2, Zenon
  <2>4. regs = Window(h) /\ regs' = RoundOf(regs, k, word)
    BY <2>1
  <2> HIDE DEF h, k, word
  <2>5. Window(WithNextRound(h, k, word)) = RoundOf(Window(h), k, word)
    <3>1. i \in Nat
      BY <2>1
    <3>2. 4 <= i + 4
      BY <3>1
    <3>3. 4 <= Len(h)
      BY <2>2, <3>2, Zenon
    <3> QED
      BY <2>2, <3>3, WindowOfRound, Zenon
  <2>6. regs' = Window(Histories(chain, w)[i + 1])
    BY <2>3, <2>4, <2>5
  <2> QED
    BY <2>1, <2>6
<1>5. CASE AddBack
  <2>1. /\ w = Schedules(mb)[64] /\ i = 64 /\ stage' = "done"
        /\ chain' = [k \in 0 .. 7 |-> Add(chain[k], WordsOf(regs)[k + 1])]
        /\ regs = Window(Histories(chain, w)[i])
    BY <1>0, <1>5, SMTT(30) DEF AddBack, LoopInv
  <2> DEFINE h == Histories(chain, w)[64]
  <2>2. regs = Window(h) /\ NextChain(chain, mb) = LastFour(chain, h)
    BY <2>1 DEF NextChain
  <2> HIDE DEF h
  <2>3. chain' = LastFour(chain, h)
    BY <2>1, <2>2, AddWindow
  <2> QED
    BY <2>1, <2>2, <2>3
<1> QED
  BY <1>1, <1>2, <1>3, <1>4, <1>5 DEF CompressionStep

LEMMA HashingNewObject == ASSUME CaughtUp, NewObject PROVE Hashing'
<1>1. /\ ctx' = NewContext /\ compressed' = 0 /\ chain' = emsha256H0 /\ stage' = "done"
  BY DEF NewObject, CaughtUp
<1>2. NewContext.i_hash \in Seq(Block)
  BY NewType DEF Context
<1>3. Chains(NewContext.i_hash)[0] = emsha256H0
  BY <1>2, ChainSteps
<1>4. ChainInv'
  BY <1>1, <1>3 DEF ChainInv
<1>5. BlockInv'
  BY <1>1 DEF BlockInv
<1> QED
  BY <1>4, <1>5 DEF Hashing

(* Between two blocks, with the object as it was or with more blocks. *)
LEMMA HashingBetween ==
  ASSUME Shape, Shape', Hashing, stage = "done",
         chain' = chain, stage' = stage, compressed' = compressed,
         ctx' = ctx \/ Extends(ctx.i_hash, ctx'.i_hash)
  PROVE  Hashing'
<1>1. ctx.i_hash \in Seq(Block) /\ ctx'.i_hash \in Seq(Block) /\ compressed \in 0 .. Len(ctx.i_hash)
  BY DEF Shape, CallTypes, Context
<1>2. Chains(ctx'.i_hash)[compressed] = Chains(ctx.i_hash)[compressed]
  BY <1>1, ChainOfExtension
<1>3. ChainInv'
  BY <1>2 DEF ChainInv, Hashing
<1>4. BlockInv'
  BY DEF BlockInv
<1> QED
  BY <1>3, <1>4 DEF Hashing

LEMMA HashingInBlock ==
  ASSUME Shape, Hashing, InBlock PROVE Hashing'
<1> DEFINE mb == ctx.i_hash[compressed + 1]
<1>1. /\ stage # "done" /\ CompressionStep(mb) /\ ctx' = ctx
      /\ compressed' = IF stage' = "done" THEN compressed + 1 ELSE compressed
  BY DEF InBlock
<1>2. /\ LoopInv /\ BlockInv /\ chain = Chains(ctx.i_hash)[compressed]
      /\ ctx.i_hash \in Seq(Block) /\ compressed \in 0 .. Len(ctx.i_hash) - 1
  BY <1>1 DEF Shape, Hashing, ChainInv, StageInv, CallTypes, Context
<1>3. /\ stage' \in { "load", "schedule" } => w' = Schedules(mb)[i'] /\ chain' = chain
      /\ stage' = "rounds" =>
           /\ w' = Schedules(mb)[64] /\ chain' = chain
           /\ regs' = Window(Histories(chain, w')[i'])
      /\ stage' = "done" => chain' = NextChain(chain, mb)
  BY <1>1, <1>2, LoopsFollow
<1>4. stage' \in { "done", "load", "schedule", "rounds" }
  BY <1>1, <1>2, LoopsKeepTypes DEF LoopInv
<1>5. CASE stage' # "done"
  <2>1. compressed' = compressed /\ chain' = chain /\ ctx'.i_hash[compressed' + 1] = mb
    BY <1>1, <1>3, <1>4, <1>5
  <2>2. ChainInv'
    BY <1>1, <1>2, <2>1 DEF ChainInv
  <2>3. BlockInv'
    BY <1>3, <2>1 DEF BlockInv
  <2> QED
    BY <2>2, <2>3 DEF Hashing
<1>6. CASE stage' = "done"
  <2>1. compressed + 1 \in 1 .. Len(ctx.i_hash) /\ (compressed + 1) - 1 = compressed
    BY <1>2
  <2>2. Chains(ctx.i_hash)[compressed + 1] = NextChain(Chains(ctx.i_hash)[compressed], mb)
    BY <1>2, <2>1, ChainSteps
  <2>3. ChainInv'
    BY <1>1, <1>2, <1>3, <1>6, <2>2 DEF ChainInv
  <2>4. BlockInv'
    BY <1>6 DEF BlockInv
  <2> QED
    BY <2>3, <2>4 DEF Hashing
<1> QED
  BY <1>5, <1>6

LEMMA HashingInit == Init => Hashing
<1> SUFFICES ASSUME Init PROVE Hashing
  OBVIOUS
<1>1. ctx = NewContext /\ compressed = 0 /\ chain = emsha256H0 /\ stage = "done"
  BY DEF Init
<1>2. NewContext.i_hash \in Seq(Block)
  BY NewType DEF Context
<1>3. Chains(NewContext.i_hash)[0] = emsha256H0
  BY <1>2, ChainSteps
<1>4. ChainInv
  BY <1>1, <1>3 DEF ChainInv
<1>5. BlockInv
  BY <1>1 DEF BlockInv
<1> QED
  BY <1>4, <1>5 DEF Hashing

LEMMA HashingEnterBlock == ASSUME Shape, Hashing, EnterBlock PROVE Hashing'
<1> DEFINE mb == ctx.i_hash[compressed + 1]
<1>1. /\ stage = "done" /\ stage' = "load" /\ chain' = chain /\ w' = w /\ i' = i
      /\ ctx' = ctx /\ compressed' = compressed
  BY DEF EnterBlock, Enter
<1>2. w \in Seq(Word) /\ Len(w) = 0 /\ i = 0
  BY <1>1 DEF Shape, LoopInv
<1>3. w = << >>
  BY <1>2
<1>4. Schedules(mb)[0] = << >>
  BY ScheduleSteps
<1>5. w' = Schedules(mb)[i']
  BY <1>1, <1>2, <1>3, <1>4, Zenon
<1>6. ChainInv'
  BY <1>1 DEF ChainInv, Hashing
<1>7. BlockInv'
  BY <1>1, <1>5 DEF BlockInv
<1> QED
  BY <1>6, <1>7 DEF Hashing

(* What the other actions do to the object and the words. *)
LEMMA ObjectSteps ==
  ASSUME Shape, [Next]_vars
  PROVE  \/ EnterBlock
         \/ InBlock
         \/ CaughtUp /\ NewObject
         \/ /\ chain' = chain /\ stage' = stage /\ compressed' = compressed
            /\ w' = w /\ regs' = regs /\ i' = i
            /\ \/ ctx' = ctx
               \/ stage = "done" /\ Extends(ctx.i_hash, ctx'.i_hash)
<1> DEFINE Kept == /\ chain' = chain /\ stage' = stage /\ compressed' = compressed
                   /\ w' = w /\ regs' = regs /\ i' = i
<1>1. ASSUME NEW a \in DigestInputs, NEW p \in { "buffer", NULL }, CallDigest(a, p)
      PROVE  CaughtUp /\ NewObject
  <2>1. pc = "idle" /\ NewObject
    BY <1>1 DEF CallDigest
  <2> QED
    BY <2>1 DEF Shape, StageInv
<1>2. ASSUME NEW f \in Faults, CallSelfTest(f)
      PROVE  CaughtUp /\ NewObject
  <2>1. pc = "idle" /\ NewObject
    BY <1>2 DEF CallSelfTest, BeginTest
  <2> QED
    BY <2>1 DEF Shape, StageInv
<1>3. CASE Update
  BY <1>3 DEF Update, compressionVars
<1>4. CASE Absorb
  <2>1. Kept /\ stage = "done" /\ pc = "absorb" /\ ctx' = AbsorbByte(ctx, input[1][pos + 1])
    BY <1>4 DEF Absorb, CaughtUp, compressionVars
  <2>2. input[1][pos + 1] \in Byte /\ ctx \in Context
    BY <2>1, NextByte DEF Shape, CallTypes
  <2>3. Extends(ctx.i_hash, ctx'.i_hash)
    BY <2>1, <2>2, AbsorbExtends
  <2> QED
    BY <2>1, <2>3
<1>5. CASE Answer
  <2>1. /\ Kept /\ stage = "done"
        /\ ctx' \in { Finalised(ctx, out), Answered(ctx, out) }
    BY <1>5 DEF Answer, CaughtUp, compressionVars
  <2>2. ctx' \in { ctx, FinaliseContext(ctx) } /\ ctx \in Context
    BY <2>1, ResultTypes DEF Shape, CallTypes
  <2>3. ctx' = ctx \/ Extends(ctx.i_hash, ctx'.i_hash)
    BY <2>2, FinaliseExtends
  <2> QED
    BY <2>1, <2>3
<1>6. CASE Write
  BY <1>6 DEF Write, compressionVars
<1>7. CASE Compare
  BY <1>7, CompareOutcomes DEF SameObject, BeginTest, compressionVars
<1>8. CASE UNCHANGED vars
  BY <1>8 DEF vars, compressionVars
<1> QED
  BY <1>1, <1>2, <1>3, <1>4, <1>5, <1>6, <1>7, <1>8 DEF Next, Call, Running

LEMMA HashingStep == Shape /\ Shape' /\ Hashing /\ [Next]_vars => Hashing'
<1> SUFFICES ASSUME Shape, Shape', Hashing, [Next]_vars PROVE Hashing'
  OBVIOUS
<1>1. CASE EnterBlock
  BY <1>1, HashingEnterBlock
<1>2. CASE InBlock
  BY <1>2, HashingInBlock
<1>3. CASE CaughtUp /\ NewObject
  BY <1>3, HashingNewObject
<1>4. CASE /\ chain' = chain /\ stage' = stage /\ compressed' = compressed
           /\ stage = "done" /\ Extends(ctx.i_hash, ctx'.i_hash)
  BY <1>4, HashingBetween
<1>5. CASE /\ chain' = chain /\ stage' = stage /\ compressed' = compressed
           /\ w' = w /\ regs' = regs /\ i' = i /\ ctx' = ctx
  BY <1>5 DEF Hashing, ChainInv, BlockInv
<1> QED
  BY <1>1, <1>2, <1>3, <1>4, <1>5, ObjectSteps

(* The eight words are, in every state, the chaining value that FIPS 180-4 *)
(* defines for the blocks of the object that were compressed: after every  *)
(* block, and while the three loops of updateMessageBlock work on one.     *)
THEOREM ChainIsStandard == Spec => []ChainInv
<1>1. Spec => [](Shape /\ Hashing)
  <2>1. Init => Shape /\ Hashing
    BY ShapeInit, HashingInit
  <2>2. Shape /\ Hashing /\ [Next]_vars => (Shape /\ Hashing)'
    BY ShapeStep, HashingStep
  <2> QED
    BY <2>1, <2>2, PTL DEF Spec
<1>2. Shape /\ Hashing => ChainInv
  BY DEF Hashing
<1> QED
  BY <1>1, <1>2, PTL

-----------------------------------------------------------------------------
(* The object: it stands for what Update was given so far, and its blocks  *)
(* are then the padded message.                                            *)

LEMMA AbsorbOpens ==
  ASSUME NEW c \in Context, NEW m \in Seq(Byte), NEW p \in 0 .. Len(m) - 1,
         c.hStatus = "OK", c.hComplete = 0,
         Countable(m) => Represents(c, Prefix(m, p))
  PROVE  LET f == AbsorbByte(c, m[p + 1]) IN
         /\ f.hStatus = "OK" /\ f.hComplete = 0
         /\ Countable(m) => Represents(f, Prefix(m, p + 1))
<1> DEFINE none == << >>
           f == AbsorbByte(c, m[p + 1])
<1>1. none \in Seq(Byte) /\ p + 1 \in 1 .. Len(m) /\ (p + 1) - 1 = p
  OBVIOUS
<1>2. \A s \in Seq(Byte) : none \o s = s
  OBVIOUS
<1> HIDE DEF none
<1>3. Prefix(m, p) \in Seq(Byte) /\ Prefix(m, p + 1) \in Seq(Byte) /\ m[p + 1] \in Byte
  BY <1>1 DEF Prefix
<1>4. /\ none \o Prefix(m, p + 1) = Append(none \o Prefix(m, p), m[p + 1])
      /\ Countable(none \o m) => Countable(none \o Prefix(m, p + 1))
  <2>1. /\ none \o Prefix(m, p + 1) = Append(none \o Prefix(m, (p + 1) - 1), m[p + 1])
        /\ Countable(none \o m) => Countable(none \o Prefix(m, p + 1))
    BY <1>1, Prefixes, Zenon
  <2> QED
    BY <1>1, <2>1, Zenon
<1>5. /\ Prefix(m, p + 1) = Append(Prefix(m, p), m[p + 1])
      /\ Countable(m) => Countable(Prefix(m, p + 1))
  BY <1>2, <1>3, <1>4, Zenon
<1>6. f.hStatus = "OK" /\ f.hComplete = 0
  BY <1>3, AbsorbFields
<1>7. ASSUME Countable(m) PROVE Represents(f, Prefix(m, p + 1))
  BY <1>3, <1>5, <1>7, AbsorbRepresents, Zenon
<1> QED
  BY <1>6, <1>7

LEMMA WholePrefix ==
  ASSUME NEW m \in Seq(Byte)
  PROVE  Prefix(m, 0) = << >> /\ Prefix(m, Len(m)) = m
  BY DEF Prefix

LEMMA FinaliseCloses ==
  ASSUME NEW c \in Context, NEW m \in Seq(Byte), c.hStatus = "OK",
         Countable(m) => Represents(c, m)
  PROVE  LET f == FinaliseContext(c) IN
         /\ f.hStatus = "OK" /\ f.hComplete = 1
         /\ Countable(m) => f.i_hash = PaddedBlocks(m, Gap(m))
<1> DEFINE f == FinaliseContext(c)
           p == PadMessage(c, Octet[128])
<1>1. Octet[128] \in Byte
  BY OctetAssumption
<1>2. /\ f.i_hash = p.i_hash /\ f.hStatus = p.hStatus /\ f.hComplete = 1
  BY FinaliseFields
<1>3. p.hStatus = "OK" /\ p.i_hash \in Seq(Block)
  BY <1>1, PadMessageStatus, PadMessageType DEF Context
<1> HIDE DEF f, p
<1>4. ASSUME Countable(m) PROVE p.i_hash = PaddedBlocks(m, Gap(m))
  <2>1. IsPadded(p.i_hash, m, Gap(m))
    BY <1>4, PadMessagePads DEF p
  <2>2. Gap(m) \in { 0, 1 }
    BY DEF Gap
  <2> QED
    BY <1>3, <2>1, <2>2, PaddedUnique
<1> QED
  BY <1>2, <1>3, <1>4 DEF f

(* What an object that is not refused answers with. *)
LEMMA OpenAnswers ==
  ASSUME NEW c, c.hStatus = "OK", c.hComplete = 0, NEW p, p # NULL
  PROVE  /\ FinaliseResult(c, p) = "OK" /\ Finalised(c, p) = FinaliseContext(c)
         /\ ResultResult(c, p) = "OK" /\ Answered(c, p) = FinaliseContext(c)
  BY DEF FinaliseResult, Finalised, ResultResult, Answered

LEMMA ClosedAnswers ==
  ASSUME NEW c, c.hStatus = "OK", c.hComplete = 1, NEW p, p # NULL
  PROVE  ResultResult(c, p) = "OK" /\ Answered(c, p) = c
  BY DEF ResultResult, Answered

LEMMA ObjectUpdate == ASSUME Shape, ObjectInv, Update PROVE ObjectInv'
<1> DEFINE res == UpdateResult(ctx, input[1], input[2])
<1>1. /\ pc = "update" /\ input' = input /\ n' = n /\ pos' = pos /\ ctx' = ctx
      /\ pc' = IF res = "OK" THEN (IF input[2] = 0 THEN "answer" ELSE "absorb") ELSE "idle"
  BY DEF Update, Return, callVars
<1>2. pos = 0 /\ n = 0 /\ ctx = NewContext /\ input \in Inputs
  BY <1>1 DEF Shape, CallInv, ObjectInv
<1>3. ctx.hStatus = "OK" /\ ctx.hComplete = 0 /\ Represents(ctx, << >>)
  BY <1>2, NewFields, NewRepresents
<1>4. Text \in Seq(Byte) /\ Text' = Text
  BY <1>1, <1>2, InputFacts DEF Text
<1>5. CASE pc' = "answer"
  <2>1. input[2] = 0 /\ Len(Text) = 0
    <3>1. input[2] = 0
      BY <1>1, <1>5
    <3>2. input # << NULL, 1 >>
      BY <3>1
    <3> QED
      BY <1>2, <3>1, <3>2, InputFacts DEF Text
  <2>2. Text = << >>
    BY <1>4, <2>1
  <2>3. Open(Text)'
    BY <1>1, <1>3, <1>4, <2>2, Zenon DEF Open
  <2> QED
    BY <1>1, <1>2, <1>5, <2>3 DEF ObjectInv
<1>6. CASE pc' = "absorb"
  <2>1. Prefix(Text, 0) = << >>
    BY <1>4, WholePrefix
  <2>2. Open(Prefix(Text, pos))'
    BY <1>1, <1>2, <1>3, <1>4, <2>1, Zenon DEF Open
  <2> QED
    BY <1>1, <1>2, <1>6, <2>2 DEF ObjectInv
<1>7. CASE pc' = "idle"
  BY <1>7 DEF ObjectInv
<1> QED
  BY <1>1, <1>5, <1>6, <1>7

LEMMA ObjectAbsorb == ASSUME Shape, ObjectInv, Absorb PROVE ObjectInv'
<1>1. /\ pc = "absorb" /\ ctx' = AbsorbByte(ctx, input[1][pos + 1]) /\ pos' = pos + 1
      /\ pc' = IF pos + 1 < input[2] THEN "absorb" ELSE "answer"
      /\ input' = input /\ n' = n
  BY DEF Absorb, callVars
<1>2. /\ n = 0 /\ ctx \in Context /\ ctx.hStatus = "OK" /\ ctx.hComplete = 0
      /\ Countable(Text) => Represents(ctx, Prefix(Text, pos))
  BY <1>1 DEF Shape, CallTypes, ObjectInv, Open
<1>3. /\ input[1] = Text /\ Text \in Seq(Byte) /\ Len(Text) = input[2]
      /\ pos \in 0 .. Len(Text) - 1
  BY <1>1, NextByte
<1>4. ctx' = AbsorbByte(ctx, Text[pos + 1])
  BY <1>1, <1>3
<1>5. Text' = Text
  BY <1>1 DEF Text
<1>6. /\ ctx'.hStatus = "OK" /\ ctx'.hComplete = 0
      /\ Countable(Text) => Represents(ctx', Prefix(Text, pos + 1))
  BY <1>2, <1>3, <1>4, AbsorbOpens
<1>7. CASE pc' = "absorb"
  <2>1. Open(Prefix(Text, pos))'
    BY <1>1, <1>5, <1>6, Zenon DEF Open
  <2> QED
    BY <1>1, <1>2, <1>7, <2>1 DEF ObjectInv
<1>8. CASE pc' = "answer"
  <2>1. pos + 1 = Len(Text)
    <3>1. ~(pos + 1 < Len(Text))
      BY <1>1, <1>3, <1>8
    <3>2. Len(Text) \in Nat /\ pos \in Nat /\ pos <= Len(Text) - 1
      BY <1>3
    <3> HIDE DEF Text
    <3> QED
      BY <3>1, <3>2
  <2>2. Prefix(Text, pos + 1) = Text
    BY <1>3, <2>1, WholePrefix, Zenon
  <2>3. Open(Text)'
    BY <1>5, <1>6, <2>2, Zenon DEF Open
  <2> QED
    BY <1>1, <1>2, <1>8, <2>3 DEF ObjectInv
<1> QED
  BY <1>1, <1>7, <1>8

LEMMA ObjectAnswer == ASSUME Shape, ObjectInv, Answer PROVE ObjectInv'
<1> DEFINE once == fn = "SHA256Digest"
           res == IF once THEN FinaliseResult(ctx, out) ELSE ResultResult(ctx, out)
<1>1. /\ pc = "answer" /\ ctx' = IF once THEN Finalised(ctx, out) ELSE Answered(ctx, out)
      /\ pc' = IF res = "OK" THEN "write" ELSE "idle"
      /\ input' = input /\ n' = n
  BY DEF Answer, Return, callVars
<1>2. /\ ctx \in Context /\ ctx.hStatus = "OK" /\ input \in Inputs
      /\ IF n = 0 THEN Open(Text) ELSE Closed
  BY <1>1 DEF Shape, CallTypes, CallInv, ObjectInv, Open, Closed
<1>3. Text' = Text /\ Text \in Seq(Byte)
  BY <1>1, <1>2, InputFacts DEF Text
<1>4. CASE res # "OK"
  BY <1>1, <1>4 DEF ObjectInv
<1>5. CASE res = "OK"
  <2>1. out # NULL
    BY <1>5 DEF FinaliseResult, ResultResult
  <2>2. CASE n = 0
    <3>1. /\ ctx.hComplete = 0
          /\ Countable(Text) => Represents(ctx, Text)
      BY <1>2, <2>2 DEF Open
    <3>2. ctx' = FinaliseContext(ctx)
      BY <1>1, <1>2, <2>1, <3>1, OpenAnswers
    <3>3. /\ ctx'.hStatus = "OK" /\ ctx'.hComplete = 1
          /\ Countable(Text) => ctx'.i_hash = PaddedBlocks(Text, Gap(Text))
      <4>1. /\ FinaliseContext(ctx).hStatus = "OK" /\ FinaliseContext(ctx).hComplete = 1
            /\ Countable(Text) => FinaliseContext(ctx).i_hash = PaddedBlocks(Text, Gap(Text))
        BY <1>2, <1>3, <3>1, FinaliseCloses, Zenon
      <4> QED
        BY <3>2, <4>1, Zenon
    <3>4. Closed'
      BY <1>3, <3>3, Zenon DEF Closed
    <3> QED
      BY <1>1, <1>5, <3>4 DEF ObjectInv
  <2>3. CASE n # 0
    <3>1. ctx.hComplete = 1 /\ Closed
      BY <1>2, <2>3 DEF Closed
    <3>2. ~once
      BY <2>3 DEF Shape, CallInv
    <3>3. ctx' = ctx
      BY <1>1, <1>2, <2>1, <3>1, <3>2, ClosedAnswers
    <3>4. Closed'
      BY <1>3, <3>1, <3>3, Zenon DEF Closed
    <3> QED
      BY <1>1, <1>5, <3>4 DEF ObjectInv
  <2> QED
    BY <2>2, <2>3
<1> QED
  BY <1>4, <1>5

LEMMA ObjectStep == Shape /\ ObjectInv /\ [Next]_vars => ObjectInv'
<1> SUFFICES ASSUME Shape, ObjectInv, [Next]_vars PROVE ObjectInv'
  OBVIOUS
<1>1. ASSUME pc' = "update", n' = 0, NewObject PROVE ObjectInv'
  <2>1. ctx' = NewContext
    BY <1>1 DEF NewObject
  <2> QED
    BY <1>1, <2>1 DEF ObjectInv
<1>2. ASSUME NEW a \in DigestInputs, NEW p \in { "buffer", NULL }, CallDigest(a, p)
      PROVE  ObjectInv'
  BY <1>1, <1>2 DEF CallDigest
<1>3. ASSUME NEW f \in Faults, CallSelfTest(f) PROVE ObjectInv'
  BY <1>1, <1>3 DEF CallSelfTest, BeginTest
<1>4. ASSUME input' = input, n' = n, pos' = pos, ctx' = ctx, pc' = pc PROVE ObjectInv'
  <2>1. /\ Closed' = Closed /\ Open(Text)' = Open(Text)
        /\ Open(Prefix(Text, pos))' = Open(Prefix(Text, pos))
    BY <1>4 DEF Closed, Open, Text
  <2> QED
    BY <1>4, <2>1 DEF ObjectInv
<1>5. CASE Write
  <2>1. /\ pc = "write" /\ pc' \in { "idle", "compare" } /\ ctx' = ctx /\ input' = input
    BY <1>5 DEF Write, Return, callVars
  <2>2. Closed'
    BY <2>1 DEF ObjectInv, Closed, Text
  <2> QED
    BY <2>1, <2>2 DEF ObjectInv
<1>6. CASE Compare
  <2>1. Closed /\ n \in 0 .. 3
    BY <1>6, CompareOutcomes DEF ObjectInv, Shape, CallTypes, EMSHA_SELF_TEST_ITERS
  <2>2. CASE BeginTest(2)
    BY <1>1, <2>2 DEF BeginTest
  <2>3. ASSUME pc' \in { "idle", "answer" }, pc' = "answer" => n' = n + 1, SameObject
        PROVE  ObjectInv'
    <3>1. Closed'
      BY <2>1, <2>3 DEF SameObject, Closed, Text
    <3>2. pc' = "answer" => n' # 0
      BY <2>1, <2>3
    <3> QED
      BY <2>3, <3>1, <3>2 DEF ObjectInv
  <2> QED
    BY <1>6, <2>2, <2>3, CompareOutcomes
<1>7. CASE EnterBlock
  BY <1>4, <1>7 DEF EnterBlock, callVars
<1>8. CASE InBlock
  BY <1>4, <1>8 DEF InBlock, callVars
<1>9. CASE UNCHANGED vars
  BY <1>4, <1>9 DEF vars, callVars
<1> QED
  BY <1>2, <1>3, <1>5, <1>6, <1>7, <1>8, <1>9, ObjectUpdate, ObjectAbsorb, ObjectAnswer
     DEF Next, Call, Running

-----------------------------------------------------------------------------
(* The outcome. *)

LEMMA TextKnown ==
  ASSUME Shape
  PROVE  Text \in DOMAIN KnownDigest /\ Text \in Seq(Byte)
<1>1. input \in Inputs
  BY DEF Shape, CallInv
<1>2. Text \in Messages \cup { << >>, helloText }
  BY <1>1 DEF Inputs, DigestInputs, TestInput, Text
<1>3. Text \in Seq(Byte)
  BY <1>1, InputFacts DEF Text
<1> QED
  BY <1>2, <1>3, TableAssumption

LEMMA KnownDigestType ==
  ASSUME NEW m \in DOMAIN KnownDigest
  PROVE  KnownDigest[m] \in [1 .. 32 -> Byte]
  BY TableAssumption, DigestBytesType DEF FIPSDigest, BlocksDigest

(* The bytes that the words stand for when the object has been closed and  *)
(* its last block compressed.                                              *)
LEMMA ClosedDigest ==
  ASSUME Shape, Hashing, Closed, CaughtUp, Countable(Text)
  PROVE  /\ DigestBytes(chain) = BlocksDigest(PaddedBlocks(Text, Gap(Text)))
         /\ ~OneByteFree(Text) => DigestBytes(chain) = KnownDigest[Text]
<1>1. ctx.i_hash = PaddedBlocks(Text, Gap(Text))
  BY DEF Closed
<1>2. chain = Chains(ctx.i_hash)[Len(ctx.i_hash)]
  BY DEF Hashing, ChainInv, CaughtUp
<1>3. DigestBytes(chain) = BlocksDigest(PaddedBlocks(Text, Gap(Text)))
  BY <1>1, <1>2 DEF BlocksDigest
<1>4. ASSUME ~OneByteFree(Text) PROVE DigestBytes(chain) = KnownDigest[Text]
  <2>1. DigestBytes(chain) = FIPSDigest(Text)
    BY <1>3, <1>4 DEF FIPSDigest, Gap
  <2> QED
    BY <2>1, TextKnown, TableAssumption
<1> QED
  BY <1>3, <1>4

(* The texts of the self-test are none of the exceptions. *)
LEMMA TestTextsCount ==
  ASSUME NEW t \in { 1, 2 }, input = TestInput(t)
  PROVE  /\ Text = TestInput(t)[1] /\ Countable(Text) /\ ~OneByteFree(Text)
         /\ TestInput(t)[1] # NULL
<1>1. NULL # << >> /\ NULL # helloText
  BY OneShotAssumption
<1>2. Text = TestInput(t)[1] /\ TestInput(t)[1] \in { << >>, helloText }
  BY <1>1 DEF Text, TestInput
<1>3. Len(Text) \in { 0, 12 }
  BY <1>2, TestTexts
<1>4. Countable(Text)
  <2>1. CASE Text = helloText
    BY <2>1, OneShotAssumption
  <2>2. CASE Text = << >>
    <3>1. Len(Text) = 0
      BY <2>2, TestTexts, Zenon
    <3> QED
      BY <3>1, SizeAssumption DEF Countable
  <2> QED
    BY <1>2, <2>1, <2>2
<1>5. ~OneByteFree(Text)
  <2>1. \A l \in { 0, 12 } : \A q \in 0 .. l : l # q * 64 + 64 - 1
    OBVIOUS
  <2>2. \A q \in 0 .. Len(Text) : Len(Text) # q * 64 + 64 - 1
    BY <1>3, <2>1, Zenon
  <2> QED
    BY <2>2, OneShotAssumption DEF OneByteFree
<1> QED
  BY <1>1, <1>2, <1>4, <1>5

(* The comparison fails in the test with the fault and in no other. *)
LEMMA MatchesUnlessFault ==
  ASSUME NEW t \in { 1, 2 }, fault \in { NoFault } \cup ({ 1, 2 } \X (1 .. 32)),
         NEW digest, digest = KnownDigest[TestInput(t)[1]]
  PROVE  /\ Matches(digest, Vector(t)) <=> fault[1] # t
         /\ Vector(t) \in [1 .. 32 -> Byte]
<1> DEFINE v == IF t = 1 THEN emptyVector ELSE helloWorld
<1>1. v = KnownDigest[TestInput(t)[1]] /\ TestInput(t)[1] \in DOMAIN KnownDigest
  <2>1. CASE t = 1
    BY <2>1, TableAssumption DEF TestInput
  <2>2. CASE t = 2
    BY <2>2, TableAssumption DEF TestInput
  <2> QED
    BY <2>1, <2>2
<1>2. Vector(t) = IF fault[1] = t THEN [v EXCEPT ![fault[2]] = 255 - @] ELSE v
  BY SMTT(30) DEF Vector
<1> HIDE DEF v
<1>3. v \in [1 .. 32 -> Byte] /\ digest = v /\ Byte = 0 .. 255
  BY <1>1, KnownDigestType, OneShotAssumption, ZenonT(40)
<1>4. CASE fault[1] # t
  BY <1>2, <1>3, <1>4, ZenonT(40) DEF Matches
<1>5. CASE fault[1] = t
  <2>1. fault[2] \in 1 .. 32
    BY <1>5 DEF NoFault
  <2> DEFINE x == v[fault[2]]
  <2>2. x \in 0 .. 255
    BY <1>3, <2>1
  <2>3. 255 - x # x /\ 255 - x \in 0 .. 255
    BY <2>2, SMTT(30)
  <2>4. Vector(t) = [v EXCEPT ![fault[2]] = 255 - x]
    BY <1>2, <1>5, SMTT(30)
  <2> HIDE DEF x
  <2>5. Vector(t)[fault[2]] = 255 - x /\ Vector(t) \in [1 .. 32 -> Byte]
    BY <1>3, <2>1, <2>3, <2>4, SMTT(30)
  <2>6. digest[fault[2]] # Vector(t)[fault[2]]
    BY <1>3, <2>3, <2>5 DEF x
  <2> QED
    BY <1>5, <2>1, <2>5, <2>6 DEF Matches
<1> QED
  BY <1>4, <1>5

LEMMA FunctionIsSequence ==
  ASSUME NEW N \in Nat, NEW S, NEW x \in [1 .. N -> S]
  PROVE  x \in Seq(S) /\ Len(x) = N
  OBVIOUS

LEMMA ComplaintSpells ==
  ASSUME NEW a \in [1 .. 32 -> Byte], NEW b \in [1 .. 32 -> Byte]
  PROVE  /\ Len(HexText(HexLUT, a)) = 64 /\ Len(HexText(HexLUT, b)) = 64
         /\ Spelled(HexText(HexLUT, a)) = a /\ Spelled(HexText(HexLUT, b)) = b
         /\ HexText(HexLUT, a) = HexText(~HexLUT, a)
<1>1. Byte = 0 .. 255 /\ HexLUT \in BOOLEAN
  BY OneShotAssumption
<1>2. ASSUME NEW x \in [1 .. 32 -> Byte]
      PROVE  /\ x \in Seq(Octets) /\ Len(x) = 32
             /\ Len(HexText(HexLUT, x)) = 64 /\ Spelled(HexText(HexLUT, x)) = x
  <2>1. Byte = Octets /\ 32 \in Nat
    BY <1>1, SMTT(30) DEF Octets
  <2>2. x \in Seq(Octets) /\ Len(x) = 32
    BY <2>1, FunctionIsSequence, ZenonT(40)
  <2>3. Len(HexText(HexLUT, x)) = 2 * Len(x) /\ Spelled(HexText(HexLUT, x)) = x
    BY <1>1, <2>2, TextSpells
  <2> QED
    BY <2>2, <2>3, SMTT(30)
<1>3. ASSUME NEW p \in 1 .. 64
      PROVE  writeHexChar(HexLUT, a[(p + 1) \div 2]) = writeHexChar(~HexLUT, a[(p + 1) \div 2])
  <2>1. (p + 1) \div 2 \in 1 .. 32
    BY SMTT(30)
  <2>2. a[(p + 1) \div 2] \in Octets
    BY <1>1, <2>1, SMTT(30) DEF Octets
  <2> QED
    BY <1>1, <2>2, BuildsAgree
<1>4. HexText(HexLUT, a) = HexText(~HexLUT, a)
  <2>1. 2 * Len(a) = 64
    <3>1. Len(a) = 32
      BY <1>2, ZenonT(40)
    <3> QED
      BY <3>1
  <2> QED
    BY <1>3, <2>1, ZenonT(40) DEF HexText
<1> QED
  BY <1>2, <1>4, SMTT(30)

(* While a function runs, nothing has been printed. *)
LEMMA NothingPrinted ==
  ASSUME Shape, OutcomeInv, pc # "idle"
  PROVE  printed = << >> /\ fn \in { "SHA256Digest", "SHA256SelfTest" }
  BY DEF Shape, CallInv, OutcomeInv, DigestRuns, TestRuns

LEMMA OutcomeUpdate == ASSUME Shape, ObjectInv, OutcomeInv, Update PROVE OutcomeInv'
<1> DEFINE res == UpdateResult(ctx, input[1], input[2])
<1>1. /\ pc = "update" /\ fn' = fn /\ input' = input /\ out' = out /\ test' = test /\ n' = n
      /\ fault' = fault /\ d' = d /\ printed' = printed
      /\ IF res = "OK" THEN pc' \in { "answer", "absorb" } ELSE pc' = "idle" /\ ret' = res
  BY DEF Update, Return, callVars
<1>2. printed = << >> /\ fn \in { "SHA256Digest", "SHA256SelfTest" }
  BY <1>1, NothingPrinted
<1>3. DigestRuns /\ TestRuns
  BY DEF OutcomeInv
<1>4. CASE res = "OK"
  <2>1. DigestRuns'
    BY <1>1, <1>3, <1>4 DEF DigestRuns
  <2>2. TestRuns'
    BY <1>1, <1>3, <1>4 DEF TestRuns
  <2>3. pc' # "idle" /\ printed' = << >>
    BY <1>1, <1>2, <1>4
  <2>4. DigestKnown' /\ Verdict' /\ Printed'
    BY <2>3 DEF DigestKnown, Verdict, Printed
  <2> QED
    BY <1>1, <1>2, <2>1, <2>2, <2>4 DEF OutcomeInv
<1>5. CASE res # "OK"
  <2>1. ctx.hStatus = "OK" /\ ctx.hComplete = 0 /\ input \in Inputs
    BY <1>1, NewFields DEF ObjectInv, Shape, CallInv
  <2>2. input[1] = NULL /\ input[2] # 0 /\ res = "NullPointer"
    BY <1>5, <2>1 DEF UpdateResult
  <2>3. input = << NULL, 1 >>
    BY <2>1, <2>2, InputFacts
  <2>4. fn = "SHA256Digest"
    <3>1. ASSUME fn = "SHA256SelfTest" PROVE FALSE
      <4>1. test \in { 1, 2 } /\ input = TestInput(test)
        BY <3>1 DEF Shape, CallInv
      <4> QED
        BY <2>2, <4>1, TestTextsCount
    <3> QED
      BY <1>2, <3>1
  <2>5. d = NoDigest
    BY <1>1, <1>3, <2>4 DEF DigestRuns
  <2>6. pc' = "idle" /\ ret' = "NullPointer" /\ printed' = << >> /\ fn' = "SHA256Digest"
    BY <1>1, <1>2, <1>5, <2>2, <2>4
  <2>7. DigestKnown' /\ Verdict' /\ Printed'
    BY <1>1, <2>3, <2>5, <2>6 DEF DigestKnown, Verdict, Printed
  <2>8. DigestRuns'
    BY <2>6 DEF DigestRuns
  <2>9. TestRuns'
    BY <1>1, <1>3, <2>6 DEF TestRuns
  <2> QED
    BY <2>6, <2>7, <2>8, <2>9 DEF OutcomeInv
<1> QED
  BY <1>4, <1>5

LEMMA OutcomeAbsorb == ASSUME Shape, OutcomeInv, Absorb PROVE OutcomeInv'
<1>1. /\ pc = "absorb" /\ fn' = fn /\ input' = input /\ out' = out /\ test' = test /\ n' = n
      /\ fault' = fault /\ d' = d /\ printed' = printed /\ pc' \in { "answer", "absorb" }
  BY DEF Absorb, callVars
<1>2. printed = << >> /\ fn \in { "SHA256Digest", "SHA256SelfTest" }
  BY <1>1, NothingPrinted
<1>3. DigestRuns /\ TestRuns
  BY DEF OutcomeInv
<1>4. DigestRuns' /\ TestRuns'
  BY <1>1, <1>3 DEF DigestRuns, TestRuns
<1>5. DigestKnown' /\ Verdict' /\ Printed'
  BY <1>1, <1>2 DEF DigestKnown, Verdict, Printed
<1> QED
  BY <1>1, <1>2, <1>4, <1>5 DEF OutcomeInv

LEMMA OutcomeAnswer == ASSUME Shape, ObjectInv, OutcomeInv, Answer PROVE OutcomeInv'
<1> DEFINE once == fn = "SHA256Digest"
           res == IF once THEN FinaliseResult(ctx, out) ELSE ResultResult(ctx, out)
<1>1. /\ pc = "answer" /\ fn' = fn /\ input' = input /\ out' = out /\ test' = test /\ n' = n
      /\ fault' = fault /\ d' = d /\ printed' = printed
      /\ IF res = "OK" THEN pc' = "write" ELSE pc' = "idle" /\ ret' = res
  BY DEF Answer, Return, callVars
<1>2. printed = << >> /\ fn \in { "SHA256Digest", "SHA256SelfTest" }
  BY <1>1, NothingPrinted
<1>3. DigestRuns /\ TestRuns
  BY DEF OutcomeInv
<1>4. /\ once => n = 0
      /\ ~once => out = "buffer"
      /\ ctx.hStatus = "OK"
      /\ ctx.hComplete = IF n = 0 THEN 0 ELSE 1
  BY <1>1, <1>2 DEF Shape, CallInv, ObjectInv, Open, Closed
<1>5. CASE res = "OK"
  <2>1. out # NULL /\ pc' = "write"
    BY <1>1, <1>5 DEF FinaliseResult, ResultResult
  <2>2. DigestRuns'
    BY <1>1, <1>3, <2>1 DEF DigestRuns
  <2>3. TestRuns'
    BY <1>1, <1>3, <2>1 DEF TestRuns
  <2>4. DigestKnown' /\ Verdict' /\ Printed'
    BY <1>1, <1>2, <2>1 DEF DigestKnown, Verdict, Printed
  <2> QED
    BY <1>1, <1>2, <2>2, <2>3, <2>4 DEF OutcomeInv
<1>6. CASE res # "OK"
  <2>1. out = NULL /\ res = "NullPointer" /\ once
    <3>1. CASE once
      <4>1. n = 0
        BY <1>4, <3>1
      <4>2. ctx.hComplete = 0 /\ ctx.hStatus = "OK"
        BY <1>4, <4>1
      <4> QED
        BY <1>6, <3>1, <4>2 DEF FinaliseResult
    <3>2. CASE ~once
      <4>1. out # NULL
        BY <1>4, <3>2, OneShotAssumption
      <4>2. res = "OK"
        BY <1>4, <3>2, <4>1 DEF ResultResult, FinaliseResult
      <4> QED
        BY <1>6, <4>2
    <3> QED
      BY <3>1, <3>2
  <2>2. pc' = "idle" /\ ret' = "NullPointer" /\ printed' = << >> /\ fn' = "SHA256Digest"
    BY <1>1, <1>2, <1>6, <2>1
  <2>3. d' = NoDigest /\ out' = NULL
    BY <1>1, <1>3, <2>1 DEF DigestRuns
  <2>4. DigestKnown' /\ Verdict' /\ Printed'
    BY <2>2, <2>3 DEF DigestKnown, Verdict, Printed
  <2>5. DigestRuns'
    BY <2>2 DEF DigestRuns
  <2>6. TestRuns'
    BY <1>1, <1>3, <2>2 DEF TestRuns
  <2> QED
    BY <2>2, <2>4, <2>5, <2>6 DEF OutcomeInv
<1> QED
  BY <1>5, <1>6

LEMMA OutcomeWrite ==
  ASSUME Shape, Hashing, ObjectInv, OutcomeInv, Write PROVE OutcomeInv'
<1>1. /\ pc = "write" /\ CaughtUp /\ d' = DigestBytes(chain)
      /\ fn' = fn /\ input' = input /\ out' = out /\ test' = test /\ n' = n
      /\ fault' = fault /\ printed' = printed
      /\ IF fn = "SHA256Digest" THEN pc' = "idle" /\ ret' = "OK" ELSE pc' = "compare"
  BY DEF Write, Return, callVars
<1>2. printed = << >> /\ fn \in { "SHA256Digest", "SHA256SelfTest" }
  BY <1>1, NothingPrinted
<1>3. DigestRuns /\ TestRuns
  BY DEF OutcomeInv
<1>4. Closed /\ Text' = Text
  BY <1>1 DEF ObjectInv, Text
<1>5. Countable(Text) => /\ d' = BlocksDigest(PaddedBlocks(Text, Gap(Text)))
                         /\ ~OneByteFree(Text) => d' = KnownDigest[Text]
  BY <1>1, <1>4, ClosedDigest
<1>6. CASE fn = "SHA256Digest"
  <2>1. out # NULL /\ input # << NULL, 1 >>
    BY <1>1, <1>3, <1>6 DEF DigestRuns, Shape, CallInv
  <2>2. pc' = "idle" /\ ret' = "OK" /\ printed' = << >> /\ fn' = "SHA256Digest"
    BY <1>1, <1>2, <1>6
  <2>3. DigestKnown'
    BY <1>1, <1>4, <1>5, <2>1, <2>2 DEF DigestKnown
  <2>4. Verdict' /\ Printed'
    BY <2>2 DEF Verdict, Printed
  <2>5. DigestRuns'
    BY <2>2 DEF DigestRuns
  <2>6. TestRuns'
    BY <1>1, <1>3, <2>2 DEF TestRuns
  <2> QED
    BY <2>2, <2>3, <2>4, <2>5, <2>6 DEF OutcomeInv
<1>7. CASE fn = "SHA256SelfTest"
  <2>1. test \in { 1, 2 } /\ input = TestInput(test)
    BY <1>7 DEF Shape, CallInv
  <2>2. d' = KnownDigest[Text']
    BY <1>4, <1>5, <2>1, TestTextsCount
  <2>3. pc' = "compare" /\ printed' = << >> /\ fn' = "SHA256SelfTest"
    BY <1>1, <1>2, <1>7
  <2>4. DigestKnown' /\ Verdict' /\ Printed'
    BY <2>3 DEF DigestKnown, Verdict, Printed
  <2>5. DigestRuns'
    BY <2>3 DEF DigestRuns
  <2>6. TestRuns'
    BY <1>1, <1>3, <1>7, <2>2, <2>3 DEF TestRuns
  <2> QED
    BY <2>3, <2>4, <2>5, <2>6 DEF OutcomeInv
<1> QED
  BY <1>2, <1>6, <1>7

LEMMA OutcomeCompare == ASSUME Shape, OutcomeInv, Compare PROVE OutcomeInv'
<1>1. /\ pc = "compare" /\ fn = "SHA256SelfTest" /\ test \in { 1, 2 } /\ input = TestInput(test)
      /\ fn' = fn /\ fault' = fault /\ n \in 0 .. 3
  BY CompareOutcomes DEF Shape, CallInv, CallTypes, EMSHA_SELF_TEST_ITERS
<1>2. printed = << >>
  BY <1>1, NothingPrinted
<1>3. /\ fault \in { NoFault } \cup ({ 1, 2 } \X (1 .. 32))
      /\ test = 2 \/ n > 0 => fault[1] # 1
      /\ test = 2 /\ n > 0 => fault[1] # 2
      /\ d = KnownDigest[TestInput(test)[1]]
  BY <1>1, TestTextsCount DEF OutcomeInv, TestRuns
<1>4. Matches(d, Vector(test)) <=> fault[1] # test
  BY <1>1, <1>3, MatchesUnlessFault
<1>5. ASSUME ~Matches(d, Vector(test)), printed' = Complaint, pc' = "idle",
             ret' = "TestFailure", SameObject
      PROVE  OutcomeInv'
  <2>1. d' = d /\ test' = test /\ Vector(2)' = Vector(2)
    BY <1>1, <1>5 DEF SameObject, Vector
  <2>2. fault # NoFault
    BY <1>1, <1>4, <1>5 DEF NoFault
  <2>3. Verdict'
    BY <1>1, <1>3, <1>5, <2>1, <2>2 DEF Verdict
  <2>4. DigestKnown' /\ DigestRuns'
    BY <1>1 DEF DigestKnown, DigestRuns
  <2>5. TestRuns'
    BY <1>1, <1>3, <1>5 DEF TestRuns
  <2>6. d \in [1 .. 32 -> Byte] /\ Vector(2) \in [1 .. 32 -> Byte]
    <3>1. TestInput(test)[1] \in DOMAIN KnownDigest
      BY <1>1, TextKnown, TestTextsCount
    <3>2. Vector(2) \in [1 .. 32 -> Byte]
      BY <1>3, MatchesUnlessFault
    <3> QED
      BY <1>3, <3>1, <3>2, KnownDigestType
  <2>7. Printed'
    <3> DEFINE have == HexText(HexLUT, d)
               want == HexText(HexLUT, Vector(2))
    <3>1. /\ Len(have) = 64 /\ Len(want) = 64 /\ Spelled(have) = d
          /\ Spelled(want) = Vector(2) /\ have = HexText(~HexLUT, d)
      BY <2>6, ComplaintSpells
    <3>2. printed' = << have, want >>
      BY <1>5 DEF Complaint
    <3> HIDE DEF have, want
    <3>3. printed'[1] = have /\ printed'[2] = want
      BY <3>2
    <3>4. \A line \in 1 .. 2 : Len(printed'[line]) = 64
      BY <3>1, <3>3
    <3> QED
      BY <2>1, <3>1, <3>3, <3>4 DEF Printed
  <2> QED
    BY <1>1, <2>3, <2>4, <2>5, <2>7 DEF OutcomeInv
<1>6. ASSUME Matches(d, Vector(test)), printed' = printed, pc' = "answer", n' = n + 1, SameObject
      PROVE  OutcomeInv'
  <2>1. test' = test /\ fault[1] # test
    BY <1>4, <1>6 DEF SameObject
  <2>2. TestRuns'
    BY <1>1, <1>2, <1>3, <1>6, <2>1 DEF TestRuns
  <2>3. DigestKnown' /\ Verdict' /\ Printed' /\ DigestRuns'
    BY <1>1, <1>2, <1>6 DEF DigestKnown, Verdict, Printed, DigestRuns
  <2> QED
    BY <1>1, <2>2, <2>3 DEF OutcomeInv
<1>7. ASSUME Matches(d, Vector(test)), printed' = printed, test = 1, BeginTest(2)
      PROVE  OutcomeInv'
  <2>1. test' = 2 /\ n' = 0 /\ pc' = "update" /\ fault[1] # 1
    BY <1>4, <1>7 DEF BeginTest
  <2>2. TestRuns'
    BY <1>1, <1>2, <1>3, <1>7, <2>1 DEF TestRuns
  <2>3. DigestKnown' /\ Verdict' /\ Printed' /\ DigestRuns'
    BY <1>1, <1>2, <1>7, <2>1 DEF DigestKnown, Verdict, Printed, DigestRuns
  <2> QED
    BY <1>1, <2>2, <2>3 DEF OutcomeInv
<1>8. ASSUME Matches(d, Vector(test)), printed' = printed, test = 2, pc' = "idle", ret' = "OK",
             SameObject
      PROVE  OutcomeInv'
  <2>1. d' = d /\ test' = test
    BY <1>8 DEF SameObject
  <2>2. fault = NoFault
    BY <1>3, <1>4, <1>8
  <2>3. Verdict'
    BY <1>1, <1>3, <1>8, <2>1, <2>2 DEF Verdict
  <2>4. DigestKnown' /\ DigestRuns' /\ Printed'
    BY <1>1, <1>2, <1>8 DEF DigestKnown, DigestRuns, Printed
  <2>5. TestRuns'
    BY <1>1, <1>3, <1>8 DEF TestRuns
  <2> QED
    BY <1>1, <2>3, <2>4, <2>5 DEF OutcomeInv
<1> QED
  BY <1>5, <1>6, <1>7, <1>8, CompareOutcomes

LEMMA OutcomeStep ==
  Shape /\ Hashing /\ ObjectInv /\ OutcomeInv /\ [Next]_vars => OutcomeInv'
<1> SUFFICES ASSUME Shape, Hashing, ObjectInv, OutcomeInv, [Next]_vars PROVE OutcomeInv'
  OBVIOUS
<1>1. ASSUME NEW a \in DigestInputs, NEW p \in { "buffer", NULL }, CallDigest(a, p)
      PROVE  OutcomeInv'
  <2>1. /\ pc' = "update" /\ fn' = "SHA256Digest" /\ d' = NoDigest /\ fault' = NoFault
        /\ printed' = << >>
    BY <1>1 DEF CallDigest
  <2> QED
    BY <2>1 DEF OutcomeInv, DigestRuns, TestRuns, DigestKnown, Verdict, Printed
<1>2. ASSUME NEW f \in Faults, CallSelfTest(f) PROVE OutcomeInv'
  <2>1. /\ pc' = "update" /\ fn' = "SHA256SelfTest" /\ fault' = f /\ printed' = << >>
        /\ test' = 1 /\ n' = 0
    BY <1>2 DEF CallSelfTest, BeginTest
  <2>2. f \in { NoFault } \cup ({ 1, 2 } \X (1 .. 32))
    BY OneShotAssumption
  <2> QED
    BY <2>1, <2>2 DEF OutcomeInv, DigestRuns, TestRuns, DigestKnown, Verdict, Printed
<1>3. ASSUME UNCHANGED << pc, callVars, d, printed, ret >> PROVE OutcomeInv'
  BY <1>3
     DEF OutcomeInv, DigestRuns, TestRuns, DigestKnown, Verdict, Printed, Text, Vector, callVars
<1>4. CASE EnterBlock
  BY <1>3, <1>4 DEF EnterBlock
<1>5. CASE InBlock
  BY <1>3, <1>5 DEF InBlock
<1>6. CASE UNCHANGED vars
  BY <1>3, <1>6 DEF vars
<1> QED
  BY <1>1, <1>2, <1>4, <1>5, <1>6, OutcomeUpdate, OutcomeAbsorb, OutcomeAnswer, OutcomeWrite,
     OutcomeCompare DEF Next, Call, Running

(* The inductive invariant, and that it holds. *)
OneShotInv == Shape /\ Hashing /\ ObjectInv /\ OutcomeInv

LEMMA OneShotInvariant == Spec => []OneShotInv
<1>1. Init => OneShotInv
  <2>1. ASSUME Init PROVE ObjectInv /\ OutcomeInv
    <3>1. pc = "idle" /\ fn = "none" /\ fault = NoFault /\ printed = << >>
      BY <2>1 DEF Init
    <3> QED
      BY <3>1 DEF ObjectInv, OutcomeInv, DigestRuns, TestRuns, DigestKnown, Verdict, Printed
  <2> QED
    BY <2>1, ShapeInit, HashingInit DEF OneShotInv
<1>2. OneShotInv /\ [Next]_vars => OneShotInv'
  BY ShapeStep, HashingStep, ObjectStep, OutcomeStep DEF OneShotInv
<1> QED
  BY <1>1, <1>2, PTL DEF Spec

(* For every message whose length fits mlen SHA256Digest returns OK and    *)
(* hands out the digest of the code's own padding, which is that of FIPS   *)
(* 180-4 unless one byte of the last block is free: Update, the padding    *)
(* and every step of the compression together do what the standard says.   *)
(* It writes nothing when it refuses a call.                               *)
THEOREM DigestsAreKnown == Spec => []DigestKnown
<1>1. OneShotInv => DigestKnown
  BY DEF OneShotInv, OutcomeInv
<1> QED
  BY <1>1, OneShotInvariant, PTL

(* SHA256SelfTest returns OK exactly when no byte of a known answer is     *)
(* wrong, with the digest of the test it ended in still in the buffer.     *)
THEOREM VerdictIsRight == Spec => []Verdict
<1>1. OneShotInv => Verdict
  BY DEF OneShotInv, OutcomeInv
<1> QED
  BY <1>1, OneShotInvariant, PTL

(* What a failing self-test prints spells its digest, in both builds of    *)
(* HexString, and the vector of the second test.                           *)
THEOREM ComplaintIsRight == Spec => []Printed
<1>1. OneShotInv => Printed
  BY DEF OneShotInv, OutcomeInv
<1> QED
  BY <1>1, OneShotInvariant, PTL

-----------------------------------------------------------------------------
(* Every step counts down. *)

LEMMA BlockStepsType ==
  ASSUME Shape
  PROVE  /\ BlockSteps \in Nat
         /\ stage = "done" => BlockSteps = 131 * (Len(ctx.i_hash) - compressed)
         /\ CaughtUp => BlockSteps = 0
<1>1. /\ compressed \in 0 .. Len(ctx.i_hash) /\ Len(ctx.i_hash) \in Nat
      /\ stage # "done" => compressed < Len(ctx.i_hash)
      /\ stage \in { "done", "load", "schedule", "rounds" }
      /\ i \in 0 .. 64
      /\ stage = "load" => i \in 0 .. 15
      /\ stage = "schedule" => i \in 16 .. 64
  BY DEF Shape, CallTypes, LoopInv, StageInv, Context
<1>2. CASE stage = "done"
  BY <1>1, <1>2 DEF BlockSteps, CaughtUp
<1>3. CASE stage # "done"
  <2> DEFINE left == Len(ctx.i_hash) - compressed
             taken == IF stage = "rounds" THEN 66 + i ELSE 1 + i
  <2>1. left \in Nat /\ 1 <= left
    BY <1>1, <1>3
  <2>2. taken \in 0 .. 130
    BY <1>1, <1>3
  <2>3. BlockSteps = 131 * left - taken
    BY <1>3 DEF BlockSteps
  <2> HIDE DEF left, taken
  <2>4. BlockSteps \in Nat
    BY <2>1, <2>2, <2>3
  <2> QED
    BY <1>3, <2>4 DEF CaughtUp
<1> QED
  BY <1>2, <1>3

LEMMA CallStepsType ==
  ASSUME Shape
  PROVE  /\ LaterSteps \in Nat /\ CallSteps \in Nat
         /\ LaterSteps = IF test = 0 THEN 0
                         ELSE 265 * (3 - n) + (IF test = 1 THEN 2645 ELSE 0)
<1>1. /\ pc \in { "idle", "update", "absorb", "answer", "write", "compare" }
      /\ input[2] \in Nat /\ pos \in 0 .. input[2] /\ n \in 0 .. 3 /\ test \in 0 .. 2
  BY InputFacts DEF Shape, CallTypes, CallInv, EMSHA_SELF_TEST_ITERS
<1>2. LaterSteps = IF test = 0 THEN 0
                   ELSE 265 * (3 - n) + (IF test = 1 THEN 2645 ELSE 0)
  BY <1>1 DEF LaterSteps, EMSHA_SELF_TEST_ITERS
<1>3. LaterSteps \in Nat
  BY <1>1, <1>2
<1>4. CallSteps \in Nat
  BY <1>1, <1>3 DEF CallSteps
<1> QED
  BY <1>2, <1>3, <1>4

(* A step inside updateMessageBlock, or into it, is one of the 131. *)
LEMMA BlockCountsDown ==
  ASSUME Shape, EnterBlock \/ InBlock
  PROVE  BlockSteps' = BlockSteps - 1
<1>1. compressed \in Nat /\ Len(ctx.i_hash) \in Nat
  BY DEF Shape, CallTypes, Context
<1>0. i \in Nat /\ (stage = "done" => i = 0)
  <2>1. LoopInv
    BY DEF Shape
  <2>2. i \in 0 .. 64
    BY <2>1 DEF LoopInv
  <2> QED
    BY <2>1, <2>2 DEF LoopInv
<1>2. CASE EnterBlock
  <2>1. /\ stage = "done" /\ stage' = "load" /\ i' = i /\ ctx' = ctx /\ compressed' = compressed
    BY <1>2 DEF EnterBlock, Enter
  <2> QED
    BY <1>0, <1>1, <2>1 DEF BlockSteps
<1>3. CASE InBlock
  <2> DEFINE mb == ctx.i_hash[compressed + 1]
  <2>1. /\ stage # "done" /\ CompressionStep(mb) /\ ctx' = ctx
        /\ compressed' = IF stage' = "done" THEN compressed + 1 ELSE compressed
    BY <1>3 DEF InBlock
  <2> HIDE DEF mb
  <2>2. CASE LoadWord(mb) \/ Schedule
    <3>1. /\ stage \in { "load", "schedule" } /\ stage' \in { "load", "schedule" } /\ i' = i + 1
      BY <2>2 DEF LoadWord, Schedule
    <3>2. BlockSteps = 131 * (Len(ctx.i_hash) - compressed) - (1 + i)
      BY <3>1 DEF BlockSteps
    <3>3. BlockSteps' = 131 * (Len(ctx.i_hash) - compressed) - (1 + i + 1)
      BY <1>0, <2>1, <3>1 DEF BlockSteps
    <3> QED
      BY <1>0, <1>1, <3>2, <3>3
  <2>3. CASE LoadRegisters
    <3>1. stage = "schedule" /\ i = 64 /\ stage' = "rounds" /\ i' = 0
      BY <2>3 DEF LoadRegisters
    <3> QED
      BY <1>0, <1>1, <2>1, <3>1 DEF BlockSteps
  <2>4. CASE Round
    <3>1. stage = "rounds" /\ stage' = "rounds" /\ i' = i + 1
      BY <2>4 DEF Round
    <3> QED
      BY <1>0, <1>1, <2>1, <3>1 DEF BlockSteps
  <2>5. CASE AddBack
    <3>1. stage = "rounds" /\ i = 64 /\ stage' = "done"
      BY <2>5 DEF AddBack
    <3> QED
      BY <1>0, <1>1, <2>1, <3>1 DEF BlockSteps
  <2> QED
    BY <2>1, <2>2, <2>3, <2>4, <2>5 DEF CompressionStep
<1> QED
  BY <1>2, <1>3

LEMMA StepsTypes ==
  Shape => /\ BlockSteps \in Nat /\ CallSteps \in Nat
           /\ stage = "done" => BlockSteps = 131 * (Len(ctx.i_hash) - compressed)
           /\ compressed \in Nat /\ Len(ctx.i_hash) \in Nat
<1>1. Shape => compressed \in Nat /\ Len(ctx.i_hash) \in Nat
  BY DEF Shape, CallTypes, Context
<1> QED
  BY <1>1, BlockStepsType, CallStepsType

LEMMA Paid ==
  ASSUME NEW l \in Nat, NEW m \in Nat, NEW c \in Nat, NEW k \in Nat, m <= l + k,
         NEW before \in Nat, NEW after \in Nat, NEW x \in Nat, NEW y \in Nat,
         before = 131 * (l - c), after = 131 * (m - c), y + 131 * k < x
  PROVE  after + y \in 0 .. before + x - 1
<1>1. after <= before + 131 * k
  OBVIOUS
<1> QED
  BY <1>1

(* A step outside updateMessageBlock pays for the blocks that it adds. *)
LEMMA CallCountsDown ==
  ASSUME Shape, Shape', NEW k \in Nat, stage = "done", stage' = "done",
         compressed' = compressed, Len(ctx'.i_hash) <= Len(ctx.i_hash) + k,
         CallSteps' + 131 * k < CallSteps
  PROVE  StepsLeft' \in 0 .. StepsLeft - 1
<1>1. /\ BlockSteps = 131 * (Len(ctx.i_hash) - compressed) /\ BlockSteps \in Nat
      /\ CallSteps \in Nat /\ Len(ctx.i_hash) \in Nat /\ compressed \in Nat
  BY StepsTypes
<1>2. (Shape => /\ BlockSteps \in Nat /\ CallSteps \in Nat
                /\ stage = "done" => BlockSteps = 131 * (Len(ctx.i_hash) - compressed)
                /\ compressed \in Nat /\ Len(ctx.i_hash) \in Nat)'
  BY StepsTypes, PTL
<1>3. /\ BlockSteps' = 131 * (Len(ctx'.i_hash) - compressed) /\ BlockSteps' \in Nat
      /\ CallSteps' \in Nat /\ Len(ctx'.i_hash) \in Nat
  BY <1>2
<1> DEFINE l == Len(ctx.i_hash)
           m == Len(ctx'.i_hash)
           b == BlockSteps
           a == BlockSteps'
           x == CallSteps
           y == CallSteps'
<1>4. /\ l \in Nat /\ m \in Nat /\ compressed \in Nat /\ m <= l + k
      /\ b \in Nat /\ a \in Nat /\ x \in Nat /\ y \in Nat
      /\ b = 131 * (l - compressed) /\ a = 131 * (m - compressed) /\ y + 131 * k < x
  BY <1>1, <1>3
<1>5. StepsLeft = b + x /\ StepsLeft' = a + y
  BY DEF StepsLeft
<1> HIDE DEF l, m, b, a, x, y
<1>6. a + y \in 0 .. b + x - 1
  BY <1>4, Paid
<1> QED
  BY <1>4, <1>5, <1>6

LEMMA UpdateCountsDown ==
  ASSUME Shape, Shape', Update PROVE StepsLeft' \in 0 .. StepsLeft - 1
<1>1. /\ pc = "update" /\ input' = input /\ pos' = pos /\ n' = n /\ test' = test
      /\ ctx' = ctx /\ compressed' = compressed /\ stage' = stage
      /\ pc' \in { "idle", "answer", "absorb" }
      /\ pc' = "answer" => input[2] = 0
  BY DEF Update, Return, callVars, compressionVars
<1>2. /\ pos = 0 /\ input[2] \in Nat /\ stage = "done" /\ LaterSteps \in Nat
      /\ Len(ctx.i_hash) \in Nat
  BY <1>1, InputFacts, CallStepsType DEF Shape, CallInv, StageInv, CaughtUp, CallTypes, Context
<1>3. LaterSteps' = LaterSteps
  BY <1>1 DEF LaterSteps
<1>4. CallSteps = 266 + LaterSteps + 132 * input[2]
  BY <1>1 DEF CallSteps
<1>5. CallSteps' < CallSteps
  <2>1. CASE pc' = "idle"
    <3>1. CallSteps' = 0
      BY <2>1 DEF CallSteps
    <3> QED
      BY <1>2, <1>4, <3>1
  <2>2. CASE pc' = "answer"
    <3>1. CallSteps' = 265 + LaterSteps /\ input[2] = 0
      BY <1>1, <1>3, <2>2 DEF CallSteps
    <3> QED
      BY <1>2, <1>4, <3>1
  <2>3. CASE pc' = "absorb"
    <3>1. CallSteps' = 265 + LaterSteps + 132 * (input[2] - 0)
      BY <1>1, <1>2, <1>3, <2>3 DEF CallSteps
    <3> QED
      BY <1>2, <1>4, <3>1
  <2> QED
    BY <1>1, <2>1, <2>2, <2>3
<1>6. CallSteps \in Nat /\ (Shape => CallSteps \in Nat)'
  BY StepsTypes, PTL
<1>7. CallSteps' + 131 * 0 < CallSteps /\ Len(ctx'.i_hash) <= Len(ctx.i_hash) + 0 /\ 0 \in Nat
  BY <1>1, <1>2, <1>5, <1>6
<1> QED
  BY <1>1, <1>2, <1>7, CallCountsDown

LEMMA AbsorbCountsDown ==
  ASSUME Shape, Shape', Absorb PROVE StepsLeft' \in 0 .. StepsLeft - 1
<1>1. /\ pc = "absorb" /\ input' = input /\ pos' = pos + 1 /\ n' = n /\ test' = test
      /\ ctx' = AbsorbByte(ctx, input[1][pos + 1]) /\ compressed' = compressed
      /\ stage' = stage /\ stage = "done"
      /\ pc' = IF pos + 1 < input[2] THEN "absorb" ELSE "answer"
  BY DEF Absorb, CaughtUp, callVars, compressionVars
<1>2. /\ input[2] \in Nat /\ pos \in 0 .. input[2] - 1 /\ LaterSteps \in Nat /\ ctx \in Context
      /\ input[1][pos + 1] \in Byte
  BY <1>1, NextByte, CallStepsType DEF Shape, CallTypes
<1>3. LaterSteps' = LaterSteps
  BY <1>1 DEF LaterSteps
<1>4. CallSteps = 265 + LaterSteps + 132 * (input[2] - pos)
  BY <1>1 DEF CallSteps
<1>5. CallSteps' = 265 + LaterSteps + 132 * (input[2] - pos - 1)
  BY <1>1, <1>2, <1>3 DEF CallSteps
<1>6. CallSteps' + 131 * 1 < CallSteps /\ 1 \in Nat
  BY <1>2, <1>4, <1>5
<1>7. Len(ctx'.i_hash) <= Len(ctx.i_hash) + 1
  BY <1>1, <1>2, AbsorbGrows
<1> QED
  BY <1>1, <1>6, <1>7, CallCountsDown

LEMMA AnswerCountsDown ==
  ASSUME Shape, Shape', Answer PROVE StepsLeft' \in 0 .. StepsLeft - 1
<1>1. /\ pc = "answer" /\ input' = input /\ n' = n /\ test' = test
      /\ ctx' \in { Finalised(ctx, out), Answered(ctx, out) } /\ compressed' = compressed
      /\ stage' = stage /\ stage = "done"
      /\ pc' \in { "write", "idle" }
  BY DEF Answer, CaughtUp, Return, callVars, compressionVars
<1>2. LaterSteps \in Nat /\ ctx \in Context
  BY CallStepsType DEF Shape, CallTypes
<1>3. LaterSteps' = LaterSteps
  BY <1>1 DEF LaterSteps
<1>4. CallSteps = 265 + LaterSteps /\ (CallSteps' = 0 \/ CallSteps' = 2 + LaterSteps)
  BY <1>1, <1>3 DEF CallSteps
<1>5. CallSteps' + 131 * 2 < CallSteps /\ 2 \in Nat
  BY <1>2, <1>4
<1>6. Len(ctx'.i_hash) <= Len(ctx.i_hash) + 2
  <2>1. ctx' \in { ctx, FinaliseContext(ctx) } /\ Len(ctx.i_hash) \in Nat
    BY <1>1, <1>2, ResultTypes DEF Context
  <2> QED
    BY <1>2, <2>1, FinaliseGrows
<1> QED
  BY <1>1, <1>5, <1>6, CallCountsDown

LEMMA WriteCountsDown ==
  ASSUME Shape, Shape', Write PROVE StepsLeft' \in 0 .. StepsLeft - 1
<1>1. /\ pc = "write" /\ n' = n /\ test' = test /\ ctx' = ctx /\ compressed' = compressed
      /\ stage' = stage /\ stage = "done" /\ pc' \in { "compare", "idle" }
  BY DEF Write, CaughtUp, Return, callVars, compressionVars
<1>2. LaterSteps \in Nat /\ Len(ctx.i_hash) \in Nat
  BY CallStepsType DEF Shape, CallTypes, Context
<1>3. LaterSteps' = LaterSteps
  BY <1>1 DEF LaterSteps
<1>4. CallSteps = 2 + LaterSteps /\ (CallSteps' = 0 \/ CallSteps' = 1 + LaterSteps)
  BY <1>1, <1>3 DEF CallSteps
<1>5. /\ CallSteps' + 131 * 0 < CallSteps /\ 0 \in Nat
      /\ Len(ctx'.i_hash) <= Len(ctx.i_hash) + 0
  BY <1>1, <1>2, <1>4
<1> QED
  BY <1>1, <1>5, CallCountsDown

LEMMA CompareCountsDown ==
  ASSUME Shape, Shape', Compare PROVE StepsLeft' \in 0 .. StepsLeft - 1
<1>1. /\ pc = "compare" /\ CaughtUp /\ stage = "done" /\ n \in 0 .. 3 /\ test \in { 1, 2 }
      /\ Len(ctx.i_hash) \in Nat
  BY CompareOutcomes DEF Shape, CallInv, CallTypes, CaughtUp, Context, EMSHA_SELF_TEST_ITERS
<1>2. /\ LaterSteps = 265 * (3 - n) + (IF test = 1 THEN 2645 ELSE 0)
      /\ LaterSteps \in Nat /\ CallSteps = 1 + LaterSteps
  BY <1>1, CallStepsType DEF CallSteps
<1>3. ASSUME SameObject, pc' = "idle" PROVE StepsLeft' \in 0 .. StepsLeft - 1
  <2>1. /\ ctx' = ctx /\ compressed' = compressed /\ stage' = "done" /\ CallSteps' = 0
    BY <1>1, <1>3 DEF SameObject, compressionVars, CallSteps
  <2>2. /\ CallSteps' + 131 * 0 < CallSteps /\ 0 \in Nat
        /\ Len(ctx'.i_hash) <= Len(ctx.i_hash) + 0
    BY <1>1, <1>2, <2>1
  <2> QED
    BY <1>1, <2>1, <2>2, CallCountsDown
<1>4. ASSUME SameObject, pc' = "answer", n \in 0 .. 2, n' = n + 1
      PROVE  StepsLeft' \in 0 .. StepsLeft - 1
  <2>1. /\ ctx' = ctx /\ compressed' = compressed /\ stage' = "done" /\ test' = test
        /\ CallSteps' = 265 + LaterSteps'
    BY <1>1, <1>4 DEF SameObject, compressionVars, CallSteps
  <2>2. LaterSteps' = 265 * (3 - (n + 1)) + (IF test = 1 THEN 2645 ELSE 0)
    BY <1>1, <1>4, <2>1 DEF LaterSteps, EMSHA_SELF_TEST_ITERS
  <2>3. /\ CallSteps' + 131 * 0 < CallSteps /\ 0 \in Nat
        /\ Len(ctx'.i_hash) <= Len(ctx.i_hash) + 0
    BY <1>1, <1>2, <1>4, <2>1, <2>2
  <2> QED
    BY <1>1, <2>1, <2>3, CallCountsDown
<1>5. ASSUME n = 3, test = 1, BeginTest(2) PROVE StepsLeft' \in 0 .. StepsLeft - 1
  <2>1. /\ pc' = "update" /\ test' = 2 /\ n' = 0 /\ input' = TestInput(2)
        /\ ctx' = NewContext /\ compressed' = 0 /\ stage' = "done"
    BY <1>1, <1>5 DEF BeginTest, NewObject
  <2>2. input'[2] = 12 /\ LaterSteps' = 795
    BY <2>1 DEF TestInput, LaterSteps, EMSHA_SELF_TEST_ITERS
  <2>3. CallSteps' = 2645
    BY <2>1, <2>2 DEF CallSteps
  <2>4. BlockSteps' = 0
    <3>1. Len(ctx'.i_hash) = 0
      BY <2>1 DEF NewContext, ResetContext
    <3> QED
      BY <2>1, <3>1 DEF BlockSteps
  <2>5. CallSteps = 2646 /\ BlockSteps = 0
    BY <1>1, <1>2, <1>5, BlockStepsType
  <2> QED
    BY <2>3, <2>4, <2>5 DEF StepsLeft
<1> QED
  BY <1>3, <1>4, <1>5, CompareOutcomes

LEMMA BlockStepCountsDown ==
  ASSUME Shape, Shape', EnterBlock \/ InBlock PROVE StepsLeft' \in 0 .. StepsLeft - 1
<1>1. BlockSteps' = BlockSteps - 1 /\ BlockSteps \in Nat /\ CallSteps \in Nat
  BY BlockCountsDown, StepsTypes
<1>2. (Shape => BlockSteps \in Nat)'
  BY StepsTypes, PTL
<1>3. CallSteps' = CallSteps
  <2>1. pc' = pc /\ input' = input /\ pos' = pos /\ n' = n /\ test' = test
    BY DEF EnterBlock, InBlock, callVars
  <2>2. LaterSteps' = LaterSteps
    BY <2>1 DEF LaterSteps
  <2> QED
    BY <2>1, <2>2 DEF CallSteps
<1>4. BlockSteps' \in Nat
  BY <1>2
<1> QED
  BY <1>1, <1>3, <1>4 DEF StepsLeft

(* Every step of SHA256Digest and of SHA256SelfTest brings its end nearer, *)
(* for every message and every fault: no loop of theirs, nor of the        *)
(* functions that they call, can go round for ever.                        *)
THEOREM CallsCountDown == Spec => CountsDown
<1>1. Shape /\ Shape' /\ [Next]_vars => [pc # "idle" => StepsLeft' \in 0 .. StepsLeft - 1]_vars
  <2> SUFFICES ASSUME Shape, Shape', Next, pc # "idle"
               PROVE  StepsLeft' \in 0 .. StepsLeft - 1
    OBVIOUS
  <2>1. ~Call
    BY DEF Call, CallDigest, CallSelfTest
  <2> QED
    BY <2>1, UpdateCountsDown, AbsorbCountsDown, AnswerCountsDown, WriteCountsDown,
       CompareCountsDown, BlockStepCountsDown DEF Next, Running
<1>2. Spec => []Shape
  BY ShapeInit, ShapeStep, PTL DEF Spec
<1> QED
  BY <1>1, <1>2, PTL DEF Spec, CountsDown
=============================================================================
