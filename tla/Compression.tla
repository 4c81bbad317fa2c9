---------------------------- MODULE Compression ----------------------------
(***************************************************************************)
(* SHA256::updateMessageBlock: one block is mixed into the eight words of  *)
(* the chaining value.  Every iteration of its three loops is a step.      *)
(***************************************************************************)
EXTENDS Words, Sequences

VARIABLES
  chain,   (* the member i_hash: eight words                               *)
  w,       (* the message schedule, as far as it has been filled           *)
  regs,    (* the local variables a, ..., h                                *)
  i,       (* the loop counter                                             *)
  stage    (* "done" (not in the function), "load", "schedule" or "rounds" *)

compressionVars == << chain, w, regs, i, stage >>

(* sha256K and emsha256H0, each word written as its two halves. *)
Literals(pairs) == [n \in 0 .. Len(pairs) - 1 |-> Halves(pairs[n + 1][1], pairs[n + 1][2])]

sha256K == Literals(<<
  <<\h428a, \h2f98>>, <<\h7137, \h4491>>, <<\hb5c0, \hfbcf>>, <<\he9b5, \hdba5>>,
  <<\h3956, \hc25b>>, <<\h59f1, \h11f1>>, <<\h923f, \h82a4>>, <<\hab1c, \h5ed5>>,
  <<\hd807, \haa98>>, <<\h1283, \h5b01>>, <<\h2431, \h85be>>, <<\h550c, \h7dc3>>,
  <<\h72be, \h5d74>>, <<\h80de, \hb1fe>>, <<\h9bdc, \h06a7>>, <<\hc19b, \hf174>>,
  <<\he49b, \h69c1>>, <<\hefbe, \h4786>>, <<\h0fc1, \h9dc6>>, <<\h240c, \ha1cc>>,
  <<\h2de9, \h2c6f>>, <<\h4a74, \h84aa>>, <<\h5cb0, \ha9dc>>, <<\h76f9, \h88da>>,
  <<\h983e, \h5152>>, <<\ha831, \hc66d>>, <<\hb003, \h27c8>>, <<\hbf59, \h7fc7>>,
  <<\hc6e0, \h0bf3>>, <<\hd5a7, \h9147>>, <<\h06ca, \h6351>>, <<\h1429, \h2967>>,
  <<\h27b7, \h0a85>>, <<\h2e1b, \h2138>>, <<\h4d2c, \h6dfc>>, <<\h5338, \h0d13>>,
  <<\h650a, \h7354>>, <<\h766a, \h0abb>>, <<\h81c2, \hc92e>>, <<\h9272, \h2c85>>,
  <<\ha2bf, \he8a1>>, <<\ha81a, \h664b>>, <<\hc24b, \h8b70>>, <<\hc76c, \h51a3>>,
  <<\hd192, \he819>>, <<\hd699, \h0624>>, <<\hf40e, \h3585>>, <<\h106a, \ha070>>,
  <<\h19a4, \hc116>>, <<\h1e37, \h6c08>>, <<\h2748, \h774c>>, <<\h34b0, \hbcb5>>,
  <<\h391c, \h0cb3>>, <<\h4ed8, \haa4a>>, <<\h5b9c, \hca4f>>, <<\h682e, \h6ff3>>,
  <<\h748f, \h82ee>>, <<\h78a5, \h636f>>, <<\h84c8, \h7814>>, <<\h8cc7, \h0208>>,
  <<\h90be, \hfffa>>, <<\ha450, \h6ceb>>, <<\hbef9, \ha3f7>>, <<\hc671, \h78f2>> >>)

emsha256H0 == Literals(<<
  <<\h6a09, \he667>>, <<\hbb67, \hae85>>, <<\h3c6e, \hf372>>, <<\ha54f, \hf53a>>,
  <<\h510e, \h527f>>, <<\h9b05, \h688c>>, <<\h1f83, \hd9ab>>, <<\h5be0, \hcd19>> >>)

-----------------------------------------------------------------------------
(* SHA256::chunkToUint32: four bytes of the message block, the first one   *)
(* the highest.                                                            *)
chunkToUint32(mb, offset) ==
  { n \in Bits : BitOf(mb[offset + 3 - n \div 8], n % 8) }

(* uint32ToChunkInPlace for each of the eight words: the digest's bytes. *)
DigestBytes(words) ==
  [j \in 1 .. 32 |-> ByteAt(words[(j - 1) \div 4], 24 - 8 * ((j - 1) % 4))]

(* A word of the schedule from the words before it: s has been filled up   *)
(* to word t - 1.                                                          *)
ScheduleWord(s, t) ==
  LET W(n) == s[n + 1] IN
  Add(Add(sha_sigma1(W(t - 2)), W(t - 7)), Add(sha_sigma0(W(t - 15)), W(t - 16)))

(* Mutant of RoundOf: a is assigned before it is copied to b. *)
RoundOverwrites(r, k, word) ==
  LET t1 == Add(Add(Add(r.h, sha_Sigma1(r.e)), Add(sha_ch(r.e, r.f, r.g), k)), word)
      t2 == Add(sha_Sigma0(r.a), sha_maj(r.a, r.b, r.c))
  IN  [a |-> Add(t1, t2), b |-> Add(t1, t2), c |-> r.b, d |-> r.c,
       e |-> Add(r.d, t1), f |-> r.e, g |-> r.f, h |-> r.g]

(* One round: the eight local variables after it. *)
RoundOf(r, k, word) ==
  LET t1 == Add(Add(Add(r.h, sha_Sigma1(r.e)), Add(sha_ch(r.e, r.f, r.g), k)), word)
      t2 == Add(sha_Sigma0(r.a), sha_maj(r.a, r.b, r.c))
  IN  [a |-> Add(t1, t2), b |-> r.a, c |-> r.b, d |-> r.c,
       e |-> Add(r.d, t1), f |-> r.e, g |-> r.f, h |-> r.g]

(* The chaining value as the local variables, and the local variables as   *)
(* eight words.                                                            *)
Registers(words) == [a |-> words[0], b |-> words[1], c |-> words[2], d |-> words[3],
                     e |-> words[4], f |-> words[5], g |-> words[6], h |-> words[7]]
WordsOf(r) == << r.a, r.b, r.c, r.d, r.e, r.f, r.g, r.h >>

-----------------------------------------------------------------------------
(* Between calls of the function there are no local variables. *)
NoRegisters == Registers([n \in 0 .. 7 |-> {}])

(* The function is entered. *)
Enter ==
  /\ stage = "done"
  /\ stage' = "load"
  /\ UNCHANGED << chain, w, regs, i >>

(* The first loop: word i is read from the message block mb. *)
LoadWord(mb) ==
  /\ stage = "load"
  /\ i < 16
  /\ w' = Append(w, chunkToUint32(mb, 4 * i))
  /\ i' = i + 1
  /\ stage' = IF i + 1 < 16 THEN "load" ELSE "schedule"
  /\ UNCHANGED << chain, regs >>

(* The second loop. *)
Schedule ==
  /\ stage = "schedule"
  /\ i < 64
  /\ w' = Append(w, ScheduleWord(w, i))
  /\ i' = i + 1
  /\ UNCHANGED << chain, regs, stage >>

(* The local variables are loaded and the counter starts over. *)
LoadRegisters ==
  /\ stage = "schedule"
  /\ i = 64
  /\ regs' = Registers(chain)
  /\ i' = 0
  /\ stage' = "rounds"
  /\ UNCHANGED << chain, w >>

(* The third loop. *)
Round ==
  /\ stage = "rounds"
  /\ i < 64
  /\ regs' = RoundOf(regs, sha256K[i], w[i + 1])
  /\ i' = i + 1
  /\ UNCHANGED << chain, w, stage >>

(* The local variables are added to the chaining value. *)
AddBack ==
  /\ stage = "rounds"
  /\ i = 64
  /\ chain' = [n \in 0 .. 7 |-> Add(chain[n], WordsOf(regs)[n + 1])]
  /\ stage' = "done"
  /\ w' = << >> /\ regs' = NoRegisters /\ i' = 0

(* A step inside the function, on the message block mb. *)
CompressionStep(mb) == LoadWord(mb) \/ Schedule \/ LoadRegisters \/ Round \/ AddBack
=============================================================================
