---------------------------- MODULE SHA256Methods ----------------------------
(***************************************************************************)
(* The public member functions of class SHA256 as the rest of the library  *)
(* calls them: each is an operator that gives the context afterwards and   *)
(* one that gives the result.  Module SHA256 has the same functions as     *)
(* steps of a caller's program, with the loop of Update cut open.          *)
(***************************************************************************)
EXTENDS SHA256Context

CONSTANT NULL   (* the null pointer *)

(* The loop of Update over the bytes of m. *)
Absorbed(c, m) ==
  LET after[n \in 0 .. Len(m)] == IF n = 0 THEN c ELSE AbsorbByte(after[n - 1], m[n])
  IN  after[Len(m)]

(* SHA256::Update.  The checks are made in the code's order; a call that   *)
(* passes them all returns hStatus, which the loop does not touch.         *)
UpdateResult(c, m, len) ==
  IF len = 0               THEN "OK"
  ELSE IF m = NULL         THEN "NullPointer"
  ELSE IF c.hStatus # "OK" THEN c.hStatus
  ELSE IF c.hComplete # 0  THEN "InvalidState"
  ELSE c.hStatus

Updated(c, m, len) ==
  IF len # 0 /\ m # NULL /\ c.hStatus = "OK" /\ c.hComplete = 0 THEN Absorbed(c, m) ELSE c

(* SHA256::Finalise. *)
FinaliseResult(c, d) ==
  IF d = NULL              THEN "NullPointer"
  ELSE IF c.hStatus # "OK" THEN c.hStatus
  ELSE IF c.hComplete # 0  THEN "InvalidState"
  ELSE "OK"

Finalised(c, d) == IF FinaliseResult(c, d) = "OK" THEN FinaliseContext(c) ELSE c

(* SHA256::Result finalises an open context and only copies from a closed  *)
(* one.  When either returns OK, the digest has been spelled from the      *)
(* i_hash of the context afterwards.                                       *)
ResultResult(c, d) ==
  IF d = NULL              THEN "NullPointer"
  ELSE IF c.hStatus # "OK" THEN c.hStatus
  ELSE IF c.hComplete = 0  THEN FinaliseResult(c, d)
  ELSE "OK"

Answered(c, d) ==
  IF ResultResult(c, d) = "OK" /\ c.hComplete = 0 THEN Finalised(c, d) ELSE c
=============================================================================
