-------------------------------- MODULE Hash --------------------------------
(***************************************************************************)
(* The Hash interface of emsha/emsha.h as an abstract machine: a hash is   *)
(* the data written since it was last brought back to its initial state    *)
(* and whether it has been finalised; the digest it hands out is a         *)
(* function of that data alone, and a refused call changes nothing.  Both  *)
(* classes of the library promise this; how the data is cut into calls,    *)
(* blocks and contexts is theirs.                                          *)
(***************************************************************************)
EXTENDS Emsha, Integers, Sequences

CONSTANTS
  Messages,   (* the byte sequences a caller passes to Update              *)
  Digest(_),  (* the digest of the data written                            *)
  NoDigest    (* what is in the caller's digest buffer before a result is  *)

VARIABLES
  data,       (* the bytes written since construction or the last reset    *)
  finalised,  (* whether data is closed                                    *)
  ret,        (* the last call that returned, and its result               *)
  digest      (* the caller's digest buffer                                *)

vars == << data, finalised, ret, digest >>

Init ==
  /\ data = << >>
  /\ finalised = FALSE
  /\ ret = NoCall
  /\ digest = NoDigest

(* Reset brings the hash back to its initial state, whatever it was.  A    *)
(* new object in the same place does the same and returns nothing.  The    *)
(* caller starts over with a clear buffer.                                 *)
Reset ==
  /\ data' = << >>
  /\ finalised' = FALSE
  /\ digest' = NoDigest
  /\ ret' \in {ret, Returned("Reset", "OK")}

(* Update writes a message; a finalised hash takes no more data. *)
Update(m) ==
  /\ finalised => m = << >>
  /\ data' = data \o m
  /\ ret' = Returned("Update", "OK")
  /\ UNCHANGED << finalised, digest >>

(* Finalise and Result hand out the digest and close the hash.  A closed   *)
(* hash keeps enough state to hand it out again.                           *)
Finish(op) ==
  /\ finalised' = TRUE
  /\ digest' = Digest(data)
  /\ ret' = Returned(op, "OK")
  /\ UNCHANGED data

(* A refused call says why and changes nothing.  Only a finalised hash is  *)
(* in an invalid state, and Result is not refused for that.                *)
Refuse(op) ==
  /\ \/ ret' = Returned(op, "NullPointer")
     \/ finalised /\ op # "Result" /\ ret' = Returned(op, "InvalidState")
  /\ UNCHANGED << data, finalised, digest >>

Next ==
  \/ Reset
  \/ \E m \in Messages : Update(m)
  \/ \E op \in {"Finalise", "Result"} : Finish(op)
  \/ \E op \in {"Update", "Finalise", "Result"} : Refuse(op)

Spec == Init /\ [][Next]_vars
=============================================================================
