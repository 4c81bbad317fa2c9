# A TLA+ model of libemsha

libemsha is a C++11 library that computes SHA-256 and HMAC-SHA-256.  It is
single-threaded, allocates nothing and keeps nothing on disk: its state is one
object per message, and what is hard about it is what a long sequence of legal
calls does to that object.  These modules model the objects and the programs
that call them, TLC checks them on small instances, and TLAPS proves the main
properties for every value of the constants.

## The system

| part | state | operations | what makes it hard |
|---|---|---|---|
| `Hash` (emsha/emsha.h) | none (abstract) | Reset, Update, Finalise, Result, Size | two classes must promise the same thing |
| `SHA256` (sha256.cc) | mlen, i_hash, hStatus, hComplete, mbi, mb | constructor, destructor, Reset, Update, Finalise, Result, Size; private addLength, updateMessageBlock, padMessage | a message cut into writes anywhere; the boundaries of the padding; the length limit; reuse after reset; answers after the end |
| compression (sha256.cc, emsha/internal.h) | i_hash and a block | updateMessageBlock | sums of 32 bits that wrap, rotations, eight variables moved along in place |
| `HMAC` (hmac.cc) | hstate, ctx (a `SHA256`), k, buf | constructor, destructor, Reset, Update, Finalise, Result, Size | one inner object and one buffer serve two passes; every inner result is checked, and a failure spoils the object; key lengths; wiping |
| `HashEqual` (emsha.cc) | loop counter and sum | one call | an 8-bit sum |
| `HexString` (emsha.cc) | none | one call | two builds of the conversion that must write the same |
| `SHA256Digest`, `ComputeHMAC`, `SHA256SelfTest` | an object on the stack | one call each | which result is returned; two tests of four answers each; what a failure prints |

They interact by plain calls: `HMAC` calls its `SHA256` object, the one-shot
functions and the self-test call the classes, and every function answers with
an `EMSHAResult`.  `EMSHA_CHECK` is an `if` that returns in a build with
NDEBUG and an assertion in any other.  There are no threads, callbacks,
timeouts or messages, so no property here is about them.

Test programs, build files and packaging hold no behaviour of the library and
are not modelled.

## Modules

| module | models |
|---|---|
| `Emsha` | the result codes and the record of a call |
| `Hash` | the abstract machine that `class Hash` describes |
| `SHA256Context` | the data members of `class SHA256` as one record, its private functions as operators on it, and the reference definitions: what an open context represents and what a padded message is |
| `SHA256` | one object and its caller: every public operation is an action, Update is one step per byte |
| `MCSHA256` | values for TLC |
| `SHA256ContextProofs`, `SHA256Proofs` | lemmas about contexts and theorems about padding; theorems about `SHA256` |
| `SHA256Methods` | the public functions of `class SHA256` as operators (context afterwards, result), for modules that call it |
| `HMAC` | one object of `class HMAC` and its caller, over an abstract hash |
| `HMACSHA256` | the composition: the same class with its SHA-256 object inside (`SHA256Methods`), its caller, and `ComputeHMAC`; shown to implement `HMAC` |
| `MCHMACSHA256`, `HMACSHA256Proofs` | values for TLC, theorems |
| `MCHMAC`, `HMACProofs` | values for TLC, theorems |
| `Words` | emsha/internal.h and the operations of `uint32_t` |
| `Compression` | `updateMessageBlock`: every iteration of its loops is an action; the tables of constants |
| `FIPS180` | a reference: the digest as section 6.2 of FIPS 180-4 defines it, not as the code computes it |
| `HexString` | both builds of `writeHexChar`, `HexString`, and a reference that reads the text back |
| `OneShot` | `SHA256Digest` and `SHA256SelfTest`, composing `SHA256Methods`, `Compression` and `HexString`; its properties refer to `FIPS180` |
| `MCOneShot` | values for TLC: messages and digests of test_sha256.cc |
| `WordsProofs`, `HexStringProofs`, `OneShotProofs` | theorems |
| `HashEqual` | one call, one step per iteration |
| `MCHashEqual`, `HashEqualProofs` | values for TLC, theorems |

Definitions named as mutants beside the real ones are the real ones changed as
a slip in the code would change them; each property of each passing run fails
when one of them takes the place of the original (PROJECT.json lists which).

### How the model corresponds to the code

*SHA256.*  `ctx` is the object, field by field.  `AbsorbByte` is one iteration
of the loop in `Update`: store, count, compress when the block is full.
`PadMessage`, `CloseBlock` and `PackedBlock` are the two branches and the tail
of `padMessage`.  `addLength` adds in `uint32_t`, modulo `LEN_MOD`, and `mbi`
is a `uint8_t`, modulo `MBI_MOD`.  A refused length skips the compression, as
in the code, so `mbi` can run past the block; the store there is undefined,
and the model allows both that no member of the object changes and that a
build with a checked `operator[]` stops the program (`pc = "aborted"`).  The
error checks keep the code's order.  `assert`s on hStatus always hold
(`OpenInLoop`), and for a bad reason: a refused byte leaves no trace in it
(`RefusalReported`, a run that fails).

The chaining value `i_hash` is the sequence of the blocks compressed so far.
The eight words are a function of that sequence, so whatever is proved of the
sequence holds of the words; the arithmetic that computes them is the module
`Compression`.  The digest in the caller's buffer is the chaining value.  What a digest should
be is defined apart from the code that computes it: `PaddedByte` says which byte
stands where in a padded message, and `BigEndian` spells the length by repeated
division, where `LengthByte` shifts as padMessage does (`LengthByteIsBigEndian`
proves them equal).

*The caller* passes any message of `Messages`, a null pointer with length zero
or one, its digest buffer or a null pointer, in any order, and may destroy the
object and construct another in its place.  A new message starts with a clear
digest buffer; without that only the number of states would differ.  `data` is
a history variable, the bytes absorbed since the last reset.

*HMAC.*  `ctx` here is not a `SHA256Context` but what `Hash` says a hash is:
data and whether it is closed.  That is what `SHA256ImplementsHash` allows,
within the length limit.  The digest of data is an uninterpreted function of
it (`ShaByte`), and so is a byte combined with a pad (`Xor`): in TLC both are
terms, equal only if computed alike.  `FinishObject` is the sequence of inner
calls in `finalResult` with each of its error returns.  Keys are valid
pointers.  Both builds of `EMSHA_CHECK` are modelled (`NDEBUG`).  The
temporary `key` arrays on the stack are not state.

*HMAC with its SHA-256 object.*  In `HMACSHA256` `hmac.ctx` is a
`SHA256Context`, so the key block counts towards its length and the limit
exists.  Each public call is one step, as nothing can come in between; the build
(`ndebug`) is chosen once at the start.  A byte that is stored past `mb` is
undefined, with three outcomes: nothing that shows, a store to the address
that the index gives, which is in `k` or `buf` once `Filler` bytes are passed
(`StoredPast`), or a stop in a build with a checked index (`UpdateCaught`).
An object is `sound` while every byte since its reset was counted and k is its key.
Past the limit it need not be an HMAC; a `Reset` makes it sound again
unless a store changed k.  A null key of nonzero length that is not too long
would be read by the constructor and is not passed; one that is too long is,
and makes the key the digest of nothing, as the code ignores what `Update` and
`Result` say there (`EffectiveKey`).  The refinement mapping to `HMAC` takes
`ctx` to the data it holds (`InnerData`), which `InnerInv` says are in it; as
`NDEBUG` is a constant of `HMAC`, there is one instance for each build
(`Released`, `Debug`).

*Words and compression.*  A word is the set of positions of its one bits.
`&` and `|` are intersection and union, the shifts lose what leaves the word,
and `+` says of each bit whether a carry comes into it; that this is addition
modulo 2^32 is the theorem `AddIsSum`.  `chain` is the member i_hash as eight
words, `w` the schedule as far as it is filled, `regs` the local variables a to h;
one step is one iteration.

*SHA256Digest and SHA256SelfTest.*  One action for each statement that does
something: the checks of Update, an iteration of its loop, Finalise or Result,
the bytes of the digest, the comparison.  `SHA256Context` stays what it is and
puts each block on i_hash, and `Compression` takes it from there (`EnterBlock`,
`InBlock`) before anything else happens (`CaughtUp`).  The self-test exists to
notice wrong digests, so it runs with faults: a wrong byte at some place of one
of the known answers, which the comparison cannot tell from a wrong digest.  `StepsLeft`
bounds the steps that a running function still has: 131 for a block that is
due, less those it has taken, 132 for a byte that Update has not absorbed (the
step itself and a block it may fill), 265 for an answer (two blocks of padding
and the steps around them), and for a self-test whatever answers and tests are
still to come.

*FIPS180.*  The reference digest keeps a history of the values that a and e
were given and reads all eight working variables off its end, where the code
moves eight variables along; its schedule and chaining values are sequences
defined over the whole block and message.  It shares with the code's side the
tables of constants, the byte order (`chunkToUint32`, `DigestBytes`) and the
functions of emsha/internal.h, whose meaning is the subject of `WordsProofs`.
`TableAssumption`, which TLC evaluates, says that it gives the digests that
test_sha256.cc and the self-test know.

*HexString.*  Text is a sequence of digits.  The 256 entries of the large table,
which run through all pairs of digits, are given by that rule, not copied out;
emsha.cc:67-100 was compared with it entry by entry.  A slip in one entry of
the source would therefore have to be found there, and `BuildsAgree` is about
the order in which both builds write and the bits they take.

*HashEqual.*  `res` is the 8-bit sum, modulo `BYTE_MOD`; `XorByte` is any operation
that is zero exactly for equal bytes.

## Runs

| run | instance | shows |
|---|---|---|
| `sha256_small` | blocks of 6, length field of 2, writes of 0, 1, 2, 5 bytes, at most 13 bytes per message | every cut of messages of up to two blocks and a byte, with resets, repeated answers, refused calls and reuse: open contexts hold their data, digests are those of the padded data, no message byte is left behind, and the object is an abstract Hash |
| `sha256_overflow` | blocks of 4, bit count modulo 64, `mbi` modulo 8, writes of 0, 1, 3 bytes, at most 17 bytes | what still holds past the length limit (8 bytes here): the types, the loop runs on open contexts only and every assertion on hStatus holds, stable answers, Update returns, and a reset object is as good as new |
| `sha256_block` | real block, length field and index; writes of 0, 8, 47, 55, 64 bytes, at most 130 bytes | the same buffer and digest properties at the real boundaries 55, 56, 63, 64, 119, 120 |
| `hmac` | key blocks of 3, digests of 2, keys of 0, 2, 3, 4 bytes, writes of 0, 1, 2 bytes, at most 4 bytes | FIPS 198-1 for all classes of key, the protocol of hstate, wiping, reset equals construction, an abstract Hash |
| `hmac_sha256` | key blocks of 4, length field of 2, bit count modulo 64 (8 bytes with the key block's 4), index modulo 16, digests of 2, one byte of filler; keys of 2, 4, 5 bytes and null, writes of 0, 1, 3 bytes, at most 6 bytes; both builds | HMAC with its real inner object implements `HMAC` below the limit; past it a reset still restores the object unless k was hit, and destruction leaves no byte of key, message or result in mb, k or buf; ComputeHMAC gives OK only with the code |
| `self_test` | real sizes; messages of 0, 3, 57 and 88 bytes of test_sha256.cc and one of 63 bytes; no fault, or a wrong first, middle or last byte in either test | digests down to the arithmetic are the known ones, the self-test's verdict, what it prints, that each call returns, and that every step brings its end nearer (`CountsDown`) |
| `hash_equal` | digests of 3 bytes of 2 bits, all pairs | equal accepted, one difference refused; accepted exactly if the differences sum to a multiple of the byte size |

Bounds.  `MaxData` bounds a message between two resets; two blocks and a byte
reach every value of `mbi` in a first and a later block, both branches of the
padding and each of its sub-branches.  TLC's integers have 32 bits, so
`sha256_block` counts bits modulo 2^30, which no message of the run
approaches; `sha256_overflow` scales the limit down instead.  Its index wraps
at 8 and messages of 17 bytes take it all the way round.  `hash_equal` has the
smallest digests whose differences can wrap in more than one way.
In `hmac_sha256` four more bytes than the key block pass the limit and six
reach k by the filler byte.  `ComputeHMAC` runs
before the first object only, and with messages below the limit: it shares
nothing with the caller's object, and later calls would repeat the same
states.  `self_test` has messages padded with one and with two blocks and one
that leaves a byte free, whose digest is that of the code's own padding, and
faults at both ends of a digest.

Deadlock is checked except in `sha256_overflow` and the three runs of
`HMACSHA256`, where a stopped program really stops, and in the runs of
`HashEqual`, which is one call and ends.

Fairness.  `sha256_overflow` states weak fairness of `UpdateByte` and
`UpdateReturn`, because a call that has begun runs on to its next statement.
`self_test` states the same of everything a running function does: `RunsOn` is
WF_vars(Running) written out, as Running can take a step exactly while a
function runs.  Nothing obliges the caller to call.  `UpdateEnds` and
`Returns` need no more.

### Runs that fail, as the code does

| run | the code | the document |
|---|---|---|
| `sha256_not_fips` | sha256.cc:297 puts a zero byte in front of 0x80 when one byte of the block is free, so messages of 63 bytes modulo 64 get another digest | README.md:66-68, cross-checked with Go's crypto/sha256 |
| `sha256_refusal_lost` | sha256.cc:270 drops `InputTooLong`, so Update returns OK for a byte that was not counted; sha256.cc:356 and 395 test hStatus, which nothing ever sets to anything but OK, so Finalise and Result return OK after it | emsha/sha256.h:84-85; 102-104 and 123-125, InvalidState after "errors in previous updates" |
| `hmac_key_lost` | hmac.cc:121 takes the key from k, which a store past mb can have overwritten once the message is past the length limit; Reset returns OK with another key | emsha/hmac.h:64-65, a reset "preserves the keys" |
| `hmac_key_fault` | hmac.cc:76 ignores that Update refused a long null key; codes under the digest of nothing are handed out with OK | emsha/hmac.h:46-49, faults of the SHA-256 code are propagated |
| `hash_equal_wraps` | emsha.cc:50 wraps, different digests can be found equal | emsha/emsha.h:176 |

`DigestInv` and `CodeDigest` say what the code does do in the first case
(`Gap`), so that everything else about the digest is still checked and proved.
`sha256_refusal_lost` stops at eight bytes, the first that is not counted, so
no store goes past mb in its trace; that of `hmac_key_lost` needs such a store
and shows one of its outcomes, the one where it is carried out at the address
that the index gives.  What is still true past the limit is `ResetIsNew`: as
long as k is the key, a reset makes the object new.  The other guarantees of the
class are proved for the key that the constructor makes of its arguments
(`EffectiveKey`), and `hmac_key_fault` says when that is not the caller's.

Smaller disagreements, which the guards of the model state and no run repeats:
an empty Update after Finalise returns OK (sha256.cc:253, `UpdateCheck`), where
emsha/sha256.h:82-83 promises InvalidState; HMAC::Update refuses a null pointer
with length zero (hmac.cc:144, `Update` of `HMAC`), where emsha/hmac.h:87-88
asks for a nonzero length; docs/mainpage.md numbers the result codes differently from
emsha/emsha.h; a failing self-test prints the answer of the second test as
the one it wanted, whichever failed (sha256.cc:472, stated in `Printed`); and
sha256.cc:504 names the function of a build without
self-tests `sha256_self_test`.

## Theorems

For all block sizes, length fields, moduli, byte sets and messages that satisfy
`SizeAssumption`, `OctetAssumption` and `CallerAssumption`:

* `SHA256Proofs`.  The invariant is `IndInv`: types, `BufferInv`, `DigestInv`,
  `OpenInLoop` and `MessageCleared` together.  `BufferInv` alone is not
  inductive: that Finalise pads the right bytes needs that an open context
  represents its data, that this survives a step of the loop needs that the
  loop runs on open contexts, and past the length limit nothing is known of mb
  until a reset.  The step of the loop is `AbsorbRepresents`, the padding is
  `PadMessagePads`: for each of the three ways through `padMessage` the blocks
  compressed are those of the padded message, byte by byte.  From `IndInv`
  follow `TypeCorrect`, `BufferHoldsData`, `DigestIsOfData`,
  `MessageIsCleared`, `LoopIsOpen` and, as an action property,
  `AnswersAreStable`.
* The second half of `SHA256Proofs`.  `PaddedUnique` shows that the padded blocks of a message
  are determined, so a digest is a function of the data; `LoopInv` relates the
  bytes absorbed to the argument of the call in progress.  With them every
  step is a step of `Hash` or invisible to it: `SHA256ImplementsHash`, under
  `WithinLimit`, that is, while messages stay below the length limit.
  Beyond it the code is no Hash, which `sha256_refusal_lost` shows.
* `SHA256ContextProofs`, besides the lemmas that the other modules cite.
  `PaddingIsStandardUnlessGap`: what `sha256_not_fips` finds in one message is
  so for all of them, the code's padding is the standard's exactly when it
  does not leave one byte free.  `PaddingIsInjective`: what the digest is
  computed from still determines the message, although two paddings are in
  use.  Equal blocks are equal bytes (`SameBlocksSameBytes`), their last
  octets spell the same length (`OctetsDetermine`), and then the messages
  agree byte by byte.  Its hypotheses are the code's sizes (at least four
  bytes of length, lengths of 32 bits) and that no two literal bytes are the
  same.
* `HMACProofs`.  `Inductive` says that between calls the object is open, with
  the pad block and exactly the data in its inner hash, or closed, with the
  code in buf and in the caller's buffer.  It is needed as a whole: that a
  Finalise computes the code needs the inner data, which needs that k is the
  key block (`KeyBlockIsK0`), which the destructor ends.  From it follow
  `CodeIsFIPS`, `InnerHashHoldsData`, `KeyIsKeptAndWiped`, `ResetIsNew` and
  `HMACImplementsHash`.  The hypothesis `BytesAreBytes` of these theorems says
  only that keys, messages and what is computed from bytes are bytes, and that
  the caller can tell an unwritten buffer from a digest.
* `HMACSHA256Proofs`.  The same class with the SHA-256 object inside, past the
  length limit too and in both builds.  `Inductive` says that between calls the
  object is open or finalised and its context open or closed with it, and that
  while it is sound it `Holds` its key and data: k is the key block, and ctx
  represents the pad block and the data or is closed over the outer ones.
  Soundness has to be part of it: past the limit a store can change k, and
  only a context that represents its data is known to keep `mbi` inside mb.
  What whole calls do to a context comes from the lemmas about one byte in
  `SHA256ContextProofs`, along the recursion of Update's loop
  (`AbsorbedEffect`, `TakenEffect`; `Recursion` gives the values of a recursive
  function); what a pass does is `FinishEffect`.  `OneShotIsMAC` is relative to
  the hash as the code pads it, gap included, and to `EffectiveKey`: it says that
  ComputeHMAC is the construction of FIPS 198-1 over that hash.  From the invariant follow
  `InnerObjectHoldsData`, `OneShotIsMAC`, `NothingIsLeft`,
  `ResetIsConstruction` and the refinement `ComposedObjectIsHMAC`: the lemmas
  named `Seen...` say what the operators of `HMAC` make of an object as it sees
  it (`Seen`), in both builds, and those named `...Shown` that each action is one
  of `HMAC`'s or shows it nothing.  Here `BytesAreBytes` says that the bytes of a digest
  and of a padded key are bytes.
* `OneShotProofs`.  The functions that hash with an object of their own, for
  every message and every fault.  The invariant `OneShotInv` has four parts.
  `Shape` is types and control: which function runs with which arguments, how
  far its loops are, and that a block is compressed only while one is due.
  `Hashing` is `ChainInv`, that the eight words are the standard's chaining
  value for the blocks compressed so far, with `BlockInv`, which says of each
  stage inside a block that the schedule is a beginning of the standard's and
  the working variables are a window on the standard's history.
  `ObjectInv` says that the object represents the bytes that Update took, or is
  closed over all of them.  `OutcomeInv` joins `DigestKnown`, `Verdict` and
  `Printed` with what is true on the way there (`DigestRuns`, `TestRuns`).  None
  of the four can be left out: `DigestKnown` speaks of the moment of return, so
  that the digest is right needs `ChainInv` of the last block, which needs
  `BlockInv` of its last round, and that the blocks are those of the padded
  message needs `ObjectInv`; the control of each needs `Shape`.  That a block
  added to the object keeps `ChainInv`, although the chaining values are a
  function on the whole sequence, is `AbsorbGrows` and `FinaliseGrows` (blocks are
  only added at the end) with the lemmas on prefixes.  From it follow
  `OneShotTypes`, `ChainIsStandard`, `DigestsAreKnown`, `VerdictIsRight` and
  `ComplaintIsRight` (with `TextSpells` and `BuildsAgree`).  `CallsCountDown` proves
  `CountsDown` from the same invariant, action by action.  `OneShotAssumption`
  fixes the sizes of SHA-256 and of the self-test, and `TableAssumption` that
  the known answers are the reference's.  All of them hold for any set of
  messages with known digests, of any length.
* `HashEqualProofs`.  The sum of the loop is zero up to the one byte that
  differs and its difference from there on; hence `EqualDigestsAccepted` and
  `OneDifferenceNoticed`.  `AcceptsBySum` says what is accepted exactly: the
  loop has the sum of all differences so far, cut down to a byte (`SumInv`,
  with `SumOfRemainders`); that the sums, a recursive function, have values at
  all is `SumsExist`.
* `WordsProofs`.  For all words: `rotr32` is a rotation by any amount it is
  used with (`RotationKeepsEveryBit`), `sha_ch` and `sha_maj` are choice and
  majority bit by bit, and `Add` is the sum modulo 2^32 (`AddIsSum`).  The last goes from a
  column of the sum (`Column`, from the rule for carries `CarryOfColumn`) to
  two, four, eight and sixteen columns and at last two halves.
* `HexStringProofs`.  `BuildsAgree`: both tables write the same two characters
  for every byte.  `TextSpells`: for inputs of every length the text has two
  characters per byte and spells the bytes.

Only model-checked: liveness (`UpdateEnds`, `Returns`), which is out of the
prover's reach; every invariant and action property of a passing run is
proved.  Of `Returns` the part that depends on the code is proved: `StepsLeft`
never goes below zero and every step of a running function lowers it
(`CallsCountDown`), so such a function takes finitely many steps, and `RunsOn`
says that it does not stop before its end.  The last inference, an induction
over a natural number under a temporal operator, is what the installed
provers cannot make.  That `FIPSDigest` gives the known digests is evaluated by
TLC for the messages of the run, and remains an assumption of the theorems.
Because `HMACProofs` covers both builds, only `hmac_sha256` runs
the one with asserts.

## Not modelled

* The builds without self-tests (EMSHA_NO_SELFTEST) and without HexString
  (EMSHA_NO_HEXSTRING): each only leaves a function out or answers
  SelfTestDisabled.
* `uint32ToChunk`, which nothing calls; `Size`, a constant.
* The key arrays on the stack of `HMAC::reset` and `finalResult`; and that
  i_hash keeps a value that depends on the key after `~HMAC`, which wipes
  bytes of the key itself but not what was computed from them.
* A null key that the constructor would read, and buffers shorter than the
  length passed with them: the caller's errors, with no defined outcome.
* Test programs, build files and packaging.

## Plan

Done: 1. `SHA256Context`, `SHA256`, `Hash` and their proofs, the core of the
library; 2. `HashEqual`; 3. `HMAC` over an abstract hash; 4. `HMACSHA256`, the
composition of the two classes, and `ComputeHMAC`; 5. `OneShot`, digest and
self-test; 6. `Words` and `Compression`; 7. `HexString`; 8. the
invariants of `OneShot`, with the reference `FIPS180`; 9. padding is injective,
and standard up to its gap; 10. what
`HashEqual` accepts exactly; with the theorems above.

Next:

11. An abstract specification of `SHA256Digest` and `SHA256SelfTest`, in which
    a call answers in one step, and `OneShot` shown to implement it.
