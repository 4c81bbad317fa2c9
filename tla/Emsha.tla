------------------------------- MODULE Emsha -------------------------------
(***************************************************************************)
(* What emsha/emsha.h declares for the whole library: the result codes of  *)
(* every operation and the helper that shapes an operation's outcome.      *)
(***************************************************************************)

(* The values of the EMSHAResult enumeration. *)
EMSHAResult == { "Unknown", "OK", "TestFailure", "NullPointer",
                 "InvalidState", "InputTooLong", "SelfTestDisabled" }

(* The operations of the Hash interface that return an EMSHAResult.  A     *)
(* call is recorded as the operation and what it returned; "none" is the   *)
(* record before the first call.                                           *)
Operation == { "Reset", "Update", "Finalise", "Result" }

Returned(op, res) == [op |-> op, res |-> res]

NoCall == Returned("none", "OK")

CallRecord == [op : Operation, res : EMSHAResult] \cup {NoCall}
=============================================================================
