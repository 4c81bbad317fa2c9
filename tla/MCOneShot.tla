------------------------------ MODULE MCOneShot ------------------------------
(***************************************************************************)
(* Values of the constants of OneShot for TLC, at the sizes of the code.   *)
(* The messages are of the golden table of test_sha256.cc: none, three     *)
(* bytes, 57 (whose padding needs a second block) and 88; and one of 63,   *)
(* with one byte of its block free, which the table does not have.         *)
(***************************************************************************)
EXTENDS OneShot

abc == <<
  97, 98, 99 >>
burmaShave == <<
  70, 114, 101, 101, 33, 32, 70, 114, 101, 101, 33, 47, 65, 32, 116, 114,
  105, 112, 47, 116, 111, 32, 77, 97, 114, 115, 47, 102, 111, 114, 32, 57,
  48, 48, 47, 101, 109, 112, 116, 121, 32, 106, 97, 114, 115, 47, 66, 117,
  114, 109, 97, 32, 83, 104, 97, 118, 101 >>
kenOlsen == <<
  84, 104, 101, 114, 101, 32, 105, 115, 32, 110, 111, 32, 114, 101, 97, 115,
  111, 110, 32, 102, 111, 114, 32, 97, 110, 121, 32, 105, 110, 100, 105, 118,
  105, 100, 117, 97, 108, 32, 116, 111, 32, 104, 97, 118, 101, 32, 97, 32,
  99, 111, 109, 112, 117, 116, 101, 114, 32, 105, 110, 32, 116, 104, 101, 105,
  114, 32, 104, 111, 109, 101, 46, 32, 45, 75, 101, 110, 32, 79, 108, 115,
  101, 110, 44, 32, 49, 57, 55, 55 >>
oneFree == [k \in 1 .. 63 |-> 32 + k]
MCMessages == { << >>, abc, burmaShave, kenOlsen, oneFree }

(* The digests, as the table (and, for the self-test's, sha256.cc) spells  *)
(* them, and the standard's for oneFree.  A digest is a number of 64       *)
(* digits; here, its bytes.                                                *)
MCKnownDigest ==
  [m \in MCMessages \cup { helloText } |->
     IF m = abc THEN <<
       186, 120, 22, 191, 143, 1, 207, 234, 65, 65, 64, 222, 93, 174, 34, 35,
       176, 3, 97, 163, 150, 23, 122, 156, 180, 16, 255, 97, 242, 0, 21, 173 >>
   ELSE  IF m = burmaShave THEN <<
       103, 72, 69, 11, 1, 197, 104, 88, 103, 21, 41, 29, 250, 62, 224, 24,
       218, 7, 211, 107, 183, 234, 111, 24, 12, 26, 246, 39, 2, 21, 198, 79 >>
   ELSE  IF m = kenOlsen THEN <<
       140, 135, 222, 182, 85, 5, 195, 153, 62, 178, 75, 122, 21, 12, 65, 85,
       232, 46, 238, 105, 96, 207, 12, 58, 129, 20, 255, 115, 109, 105, 202, 213 >>
   ELSE  IF m = oneFree THEN <<
       119, 5, 15, 173, 181, 195, 212, 221, 127, 135, 33, 62, 129, 176, 240, 248,
       58, 5, 110, 230, 26, 3, 99, 16, 223, 56, 240, 196, 60, 34, 124, 12 >>
   ELSE IF m = helloText THEN helloWorld ELSE emptyVector]

MCByte  == 0 .. 255
MCOctet == [b \in MCByte |-> b]

(* A wrong first, middle and last byte, in either test. *)
MCFaults == { NoFault } \cup ({ 1, 2 } \X { 1, 17, 32 })
=============================================================================
