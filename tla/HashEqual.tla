----------------------------- MODULE HashEqual -----------------------------
(***************************************************************************)
(* HashEqual of emsha.cc, one step per iteration of its loop.  The sum of  *)
(* the differences is kept in a uint8_t.                                   *)
(***************************************************************************)
EXTENDS Integers

CONSTANTS
  HASH_SIZE,  (* bytes of a digest (SHA256_HASH_SIZE, 32)                  *)
  BYTE_MOD,   (* a byte, and the sum, is a uint8_t: modulo 2^8             *)
  XorByte(_, _), (* exclusive or of two bytes                              *)
  NDEBUG,     (* whether the build turns asserts off                       *)
  NULL        (* the null pointer                                          *)

Byte == 0 .. BYTE_MOD - 1
Digest == [0 .. HASH_SIZE - 1 -> Byte]

ASSUME HashEqualAssumption ==
  /\ HASH_SIZE \in Nat /\ BYTE_MOD \in Nat /\ 1 < BYTE_MOD
  /\ NDEBUG \in BOOLEAN
  /\ NULL \notin Digest

(* What the exclusive or of bytes is used for. *)
ASSUME XorAssumption ==
  \A x, y \in Byte : XorByte(x, y) \in Byte /\ (XorByte(x, y) = 0 <=> x = y)

VARIABLES
  a, b,    (* the arguments                                                *)
  pc,      (* "check", "loop", "done" or "aborted"                         *)
  i,       (* the loop counter                                             *)
  res,     (* the sum of the differences                                   *)
  equal    (* the value returned; "none" before                            *)

vars == << a, b, pc, i, res, equal >>

Init ==
  /\ a \in Digest \cup {NULL}
  /\ b \in Digest \cup {NULL}
  /\ pc = "check"
  /\ i = 0
  /\ res = 0
  /\ equal = "none"

(* The two EMSHA_CHECKs: with asserts off a null argument makes the call   *)
(* return false, with asserts on it stops the program.                     *)
Check ==
  /\ pc = "check"
  /\ IF a # NULL /\ b # NULL   THEN pc' = "loop" /\ UNCHANGED equal
     ELSE IF NDEBUG            THEN pc' = "done" /\ equal' = FALSE
     ELSE pc' = "aborted" /\ UNCHANGED equal
  /\ UNCHANGED << a, b, i, res >>

(* Mutant of AddDifference: the sum is overwritten. *)
KeepLast(x, y) == XorByte(x, y)

(* One term of the sum. *)
AddDifference(x, y) == (res + XorByte(x, y)) % BYTE_MOD

Iterate ==
  /\ pc = "loop"
  /\ i < HASH_SIZE
  /\ res' = AddDifference(a[i], b[i])
  /\ i' = i + 1
  /\ UNCHANGED << a, b, pc, equal >>

(* Mutant of Return: the sum must have been positive. *)
ReturnNegated ==
  /\ pc = "loop"
  /\ i = HASH_SIZE
  /\ pc' = "done"
  /\ equal' = (res # 0)
  /\ UNCHANGED << a, b, i, res >>

Return ==
  /\ pc = "loop"
  /\ i = HASH_SIZE
  /\ pc' = "done"
  /\ equal' = (res = 0)
  /\ UNCHANGED << a, b, i, res >>

Next == Check \/ Iterate \/ Return

Spec == Init /\ [][Next]_vars

-----------------------------------------------------------------------------
(* Equal digests are found equal. *)
EqualAccepted == pc = "done" /\ a = b /\ a # NULL => equal = TRUE

(* Digests that differ in one byte are told apart: the sum cannot wrap to  *)
(* zero before a second difference.                                        *)
DifferAt(p) == \A j \in 0 .. HASH_SIZE - 1 : a[j] # b[j] <=> j = p

OneDifferenceRefused ==
  pc = "done" /\ a # NULL /\ b # NULL =>
    \A p \in 0 .. HASH_SIZE - 1 : DifferAt(p) => equal = FALSE

(* What HashEqual accepts, exactly: digests whose differences, added up    *)
(* without a width, come to a multiple of the byte size.  That the sum is  *)
(* cut down to a byte after every term makes no difference to it.          *)
Sums(x, y) ==
  LET s[j \in 0 .. HASH_SIZE] == IF j = 0 THEN 0 ELSE s[j - 1] + XorByte(x[j - 1], y[j - 1])
  IN  s

AcceptedBySum ==
  pc = "done" /\ a # NULL /\ b # NULL =>
    equal = (Sums(a, b)[HASH_SIZE] % BYTE_MOD = 0)

(* "True if both byte arrays match": only equal digests are found equal.   *)
OnlyEqualAccepted == pc = "done" /\ equal = TRUE => a = b
=============================================================================
