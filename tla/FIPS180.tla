------------------------------ MODULE FIPS180 ------------------------------
(***************************************************************************)
(* Reference: the digest of a message as section 6.2 of FIPS 180-4 defines *)
(* it, not as the code computes it.  The eight working variables are       *)
(* a window on a history: a, b, c, d are the last four values that the     *)
(* variable a was given, and e, f, g, h the last four of e.  So nothing    *)
(* here is moved from one variable to the next.                            *)
(***************************************************************************)
EXTENDS SHA256Context, Compression

(* The element of s that is k places from its end. *)
FromEnd(s, k) == s[Len(s) + 1 - k]

-----------------------------------------------------------------------------
(* The schedule of the block mb: element t of Schedules has the words W(0) *)
(* to W(t - 1).                                                            *)
NextWord(s, mb) ==
  IF Len(s) < 16 THEN chunkToUint32(mb, 4 * Len(s))
  ELSE Add(Add(sha_sigma1(FromEnd(s, 2)), FromEnd(s, 7)),
           Add(sha_sigma0(FromEnd(s, 15)), FromEnd(s, 16)))

WithNextWord(s, mb) == Append(s, NextWord(s, mb))

Schedules(mb) ==
  LET s[t \in 0 .. 64] == IF t = 0 THEN << >> ELSE WithNextWord(s[t - 1], mb) IN s

-----------------------------------------------------------------------------
(* The values of a and e: those that the words H of the chaining value     *)
(* stand for, and one more after a round with the constant k and the word  *)
(* W.  Element t of Histories has t rounds.                                *)
FirstHistory(H) ==
  << [a |-> H[3], e |-> H[7]], [a |-> H[2], e |-> H[6]],
     [a |-> H[1], e |-> H[5]], [a |-> H[0], e |-> H[4]] >>

WithNextRound(h, k, W) ==
  LET a(n) == FromEnd(h, n).a
      e(n) == FromEnd(h, n).e
      t1   == Add(Add(Add(e(4), sha_Sigma1(e(1))), Add(sha_ch(e(1), e(2), e(3)), k)), W)
      t2   == Add(sha_Sigma0(a(1)), sha_maj(a(1), a(2), a(3)))
  IN  Append(h, [a |-> Add(t1, t2), e |-> Add(a(4), t1)])

Histories(H, W) ==
  LET h[t \in 0 .. Len(W)] == IF t = 0 THEN FirstHistory(H)
                              ELSE WithNextRound(h[t - 1], sha256K[t - 1], W[t])
  IN  h

(* The chaining value H after the block mb. *)
LastFour(H, h) ==
  [n \in 0 .. 7 |-> Add(H[n], IF n < 4 THEN FromEnd(h, n + 1).a ELSE FromEnd(h, n - 3).e)]

NextChain(H, mb) == LastFour(H, Histories(H, Schedules(mb)[64])[64])

(* The chaining values along the blocks bs, and the digest of a message.   *)
Chains(bs) ==
  LET H[k \in 0 .. Len(bs)] == IF k = 0 THEN emsha256H0 ELSE NextChain(H[k - 1], bs[k])
  IN  H

BlocksDigest(bs) == DigestBytes(Chains(bs)[Len(bs)])

FIPSDigest(m) == BlocksDigest(PaddedBlocks(m, 0))
=============================================================================
