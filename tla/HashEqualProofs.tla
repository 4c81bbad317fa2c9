-------------------------- MODULE HashEqualProofs --------------------------
(***************************************************************************)
(* What HashEqual does tell apart, for digests of every size: equal        *)
(* digests are accepted, digests that differ in one byte are refused, and  *)
(* accepted in all is what a sum of 8 bits takes for zero.                 *)
(***************************************************************************)
EXTENDS HashEqual, WellFoundedInduction, TLAPS

(* The difference of the digests at byte j. *)
Difference(j) == XorByte(a[j], b[j])

(* The sum so far, when at most byte p differs: nothing before p has been  *)
(* added, and then the difference at p.                                    *)
SumOf(p) == IF i <= p THEN 0 ELSE Difference(p)

Inductive ==
  /\ a \in Digest \cup {NULL} /\ b \in Digest \cup {NULL}
  /\ i \in 0 .. HASH_SIZE /\ res \in Byte
  /\ pc \in {"check", "loop", "done", "aborted"}
  /\ pc = "check" => i = 0 /\ res = 0
  /\ pc = "loop" => a \in Digest /\ b \in Digest
  /\ pc = "loop" /\ a = b => res = 0
  /\ pc = "loop" =>
       \A p \in 0 .. HASH_SIZE - 1 : DifferAt(p) => res = SumOf(p)
  /\ EqualAccepted
  /\ OneDifferenceRefused

(* The exclusive or of two bytes is a byte, zero for equal bytes only, and *)
(* adding it to a sum of zero does not wrap.                               *)
LEMMA DifferenceOfBytes ==
  ASSUME NEW x \in Byte, NEW y \in Byte
  PROVE  /\ XorByte(x, y) \in Byte
         /\ XorByte(x, y) = 0 <=> x = y
         /\ (0 + XorByte(x, y)) % BYTE_MOD = XorByte(x, y)
         /\ \A s \in Byte : (s + 0) % BYTE_MOD = s
         /\ \A s \in Byte : (s + XorByte(x, y)) % BYTE_MOD \in Byte
<1>1. XorByte(x, y) \in Byte /\ (XorByte(x, y) = 0 <=> x = y)  BY XorAssumption
<1>2. \A s \in Byte : s % BYTE_MOD = s
  BY HashEqualAssumption DEF Byte
<1>3. \A s, t \in Byte : (s + t) % BYTE_MOD \in Byte
  BY HashEqualAssumption DEF Byte
<1>4. 0 + XorByte(x, y) = XorByte(x, y) /\ \A s \in Byte : s + 0 = s
  BY <1>1, HashEqualAssumption DEF Byte
<1> QED  BY <1>1, <1>2, <1>3, <1>4

LEMMA InitEstablishes == Init => Inductive
<1> SUFFICES ASSUME Init PROVE Inductive  OBVIOUS
<1>1. 0 \in Byte /\ 0 \in 0 .. HASH_SIZE  BY HashEqualAssumption DEF Byte
<1> QED
  BY <1>1 DEF Init, Inductive, EqualAccepted, OneDifferenceRefused

(* An iteration of the loop adds the difference at byte i. *)
LEMMA IterateKeeps == Inductive /\ Iterate => Inductive'
<1> SUFFICES ASSUME Inductive, Iterate PROVE Inductive'  OBVIOUS
<1>0. pc = "loop" /\ i < HASH_SIZE /\ pc' = pc /\ i' = i + 1
      /\ a' = a /\ b' = b /\ equal' = equal /\ res' = AddDifference(a[i], b[i])
  BY DEF Iterate
<1>1. /\ a \in Digest /\ b \in Digest /\ res \in Byte
      /\ i \in 0 .. HASH_SIZE - 1 /\ i' \in 0 .. HASH_SIZE
  BY <1>0, HashEqualAssumption DEF Inductive
<1>2. \A j \in 0 .. HASH_SIZE - 1 : a[j] \in Byte /\ b[j] \in Byte
  BY <1>1 DEF Digest
<1>3. res' \in Byte
  BY <1>0, <1>1, <1>2, DifferenceOfBytes DEF AddDifference
<1>4. ASSUME a[i] = b[i] PROVE res' = res
  BY <1>0, <1>1, <1>2, <1>4, DifferenceOfBytes DEF AddDifference
<1>5. a = b => res' = 0
  BY <1>0, <1>4 DEF Inductive
<1>6. ASSUME NEW p \in 0 .. HASH_SIZE - 1, DifferAt(p) PROVE res' = SumOf(p)'
  <2>0. res = SumOf(p)  BY <1>0, <1>6 DEF Inductive
  <2>1. CASE i = p
    <3>1. res = 0 /\ SumOf(p)' = XorByte(a[i], b[i])
      BY <1>0, <1>1, <2>0, <2>1 DEF SumOf, Difference
    <3> QED  BY <1>0, <1>1, <1>2, <3>1, DifferenceOfBytes, ZenonT(40) DEF AddDifference
  <2>2. CASE i # p
    <3>1. a[i] = b[i]  BY <1>1, <1>6, <2>2 DEF DifferAt
    <3>2. SumOf(p)' = SumOf(p)  BY <1>0, <1>1, <2>2 DEF SumOf, Difference
    <3> QED  BY <1>4, <2>0, <3>1, <3>2
  <2> QED  BY <2>1, <2>2
<1>7. \A p \in 0 .. HASH_SIZE - 1 : DifferAt(p)' => res' = SumOf(p)'
  <2> TAKE p \in 0 .. HASH_SIZE - 1
  <2>1. DifferAt(p)' => DifferAt(p)  BY <1>0 DEF DifferAt
  <2> QED  BY <1>6, <2>1
<1>8. EqualAccepted' /\ OneDifferenceRefused'
  BY <1>0 DEF EqualAccepted, OneDifferenceRefused
<1> QED
  BY <1>0, <1>1, <1>3, <1>5, <1>7, <1>8 DEF Inductive

(* The sum is the difference at the one byte that differs, and not zero. *)
LEMMA ReturnKeeps == Inductive /\ Return => Inductive'
<1> SUFFICES ASSUME Inductive, Return PROVE Inductive'  OBVIOUS
<1>0. pc = "loop" /\ i = HASH_SIZE /\ pc' = "done" /\ equal' = (res = 0)
      /\ a' = a /\ b' = b /\ i' = i /\ res' = res
  BY DEF Return
<1>1. a \in Digest /\ b \in Digest  BY <1>0 DEF Inductive
<1>2. EqualAccepted'
  <2>1. a = b => res = 0  BY <1>0 DEF Inductive
  <2> QED  BY <1>0, <2>1 DEF EqualAccepted
<1>3. OneDifferenceRefused'
  <2>1. ASSUME NEW p \in 0 .. HASH_SIZE - 1, DifferAt(p) PROVE res # 0
    <3>1. a[p] # b[p] /\ a[p] \in Byte /\ b[p] \in Byte
      BY <1>1, <2>1 DEF DifferAt, Digest
    <3>2. res = XorByte(a[p], b[p])
      BY <1>0, <2>1, HashEqualAssumption DEF Inductive, SumOf, Difference
    <3> QED  BY <3>1, <3>2, DifferenceOfBytes
  <2>2. \A p \in 0 .. HASH_SIZE - 1 : DifferAt(p)' => DifferAt(p)
    BY <1>0 DEF DifferAt
  <2> QED  BY <1>0, <2>1, <2>2 DEF OneDifferenceRefused
<1> QED  BY <1>0, <1>1, <1>2, <1>3 DEF Inductive

LEMMA CheckKeeps == Inductive /\ Check => Inductive'
<1> SUFFICES ASSUME Inductive, Check PROVE Inductive'  OBVIOUS
<1>0. pc = "check" /\ i = 0 /\ res = 0 /\ a' = a /\ b' = b /\ i' = i /\ res' = res
  BY DEF Check, Inductive
<1>1. CASE a # NULL /\ b # NULL
  <2>1. pc' = "loop"  BY <1>1 DEF Check
  <2>2. a \in Digest /\ b \in Digest  BY <1>1 DEF Inductive
  <2>3. \A p \in 0 .. HASH_SIZE - 1 : SumOf(p)' = 0
    BY <1>0, HashEqualAssumption DEF SumOf
  <2> QED  BY <1>0, <2>1, <2>2, <2>3
           DEF Inductive, EqualAccepted, OneDifferenceRefused
<1>2. CASE ~(a # NULL /\ b # NULL)
  <2>1. (pc' = "done" /\ equal' = FALSE) \/ pc' = "aborted"  BY <1>2 DEF Check
  <2> QED  BY <1>0, <1>2, <2>1
           DEF Inductive, EqualAccepted, OneDifferenceRefused
<1> QED  BY <1>1, <1>2

LEMMA Invariance == Spec => []Inductive
<1>1. Inductive /\ [Next]_vars => Inductive'
  <2>1. Inductive /\ UNCHANGED vars => Inductive'
    BY DEF Inductive, vars, EqualAccepted, OneDifferenceRefused,
           DifferAt, SumOf, Difference
  <2> QED  BY <2>1, CheckKeeps, IterateKeeps, ReturnKeeps DEF Next
<1> QED  BY <1>1, InitEstablishes, PTL DEF Spec

(* Equal digests are found equal, whatever their size and bytes. *)
THEOREM EqualDigestsAccepted == Spec => []EqualAccepted
<1>1. Inductive => EqualAccepted  BY DEF Inductive
<1> QED  BY <1>1, Invariance, PTL

(* A change of one byte is always noticed: the sum can wrap to zero only   *)
(* with a second difference.                                               *)
THEOREM OneDifferenceNoticed == Spec => []OneDifferenceRefused
<1>1. Inductive => OneDifferenceRefused  BY DEF Inductive
<1> QED  BY <1>1, Invariance, PTL

-----------------------------------------------------------------------------
(* What is accepted exactly. *)

(* The sums exist: otherwise there would be a least number of terms that   *)
(* has none, and the sum of one term less could be carried on.             *)
LEMMA SumsExist ==
  ASSUME NEW x \in Digest, NEW y \in Digest
  PROVE  \E f \in [0 .. HASH_SIZE -> Nat] :
           /\ f[0] = 0
           /\ \A j \in 1 .. HASH_SIZE : f[j] = f[j - 1] + XorByte(x[j - 1], y[j - 1])
<1> DEFINE D(j) == XorByte(x[j - 1], y[j - 1])
           Good(n, f) == f[0] = 0 /\ \A j \in 1 .. n : f[j] = f[j - 1] + D(j)
           Reached(n) == \E f \in [0 .. HASH_SIZE -> Nat] : Good(n, f)
           Rest == { n \in 0 .. HASH_SIZE : ~Reached(n) }
           Below == { ss \in Nat \X Nat : ss[1] < ss[2] }
<1>0. HASH_SIZE \in Nat /\ BYTE_MOD \in Nat
  BY HashEqualAssumption
<1>1. \A j \in 1 .. HASH_SIZE : D(j) \in Nat
  <2> TAKE j \in 1 .. HASH_SIZE
  <2>1. j - 1 \in 0 .. HASH_SIZE - 1
    BY <1>0
  <2>2. x[j - 1] \in Byte /\ y[j - 1] \in Byte
    BY <2>1 DEF Digest
  <2>3. XorByte(x[j - 1], y[j - 1]) \in Byte
    BY <2>2, XorAssumption
  <2> QED
    BY <1>0, <2>3 DEF Byte
<1> HIDE DEF D
<1>2. Reached(0)
  <2> DEFINE f == [j \in 0 .. HASH_SIZE |-> 0]
  <2>1. f \in [0 .. HASH_SIZE -> Nat] /\ f[0] = 0 /\ 1 .. 0 = {}
    BY <1>0
  <2> HIDE DEF f
  <2> QED
    BY <2>1
<1>3. ASSUME NEW n \in 1 .. HASH_SIZE, Reached(n - 1) PROVE Reached(n)
  <2>1. PICK f \in [0 .. HASH_SIZE -> Nat] : Good(n - 1, f)
    BY <1>3
  <2> DEFINE g == [f EXCEPT ![n] = f[n - 1] + D(n)]
  <2>2. n - 1 \in 0 .. HASH_SIZE /\ n \in 0 .. HASH_SIZE /\ n # 0
    BY <1>0
  <2>3. g \in [0 .. HASH_SIZE -> Nat]
    BY <1>1, <2>2
  <2>4. g[n] = f[n - 1] + D(n) /\ \A j \in 0 .. HASH_SIZE : j # n => g[j] = f[j]
    BY <2>2
  <2> HIDE DEF g
  <2>5. g[0] = 0
    BY <1>0, <2>1, <2>2, <2>4
  <2>6. ASSUME NEW j \in 1 .. n PROVE g[j] = g[j - 1] + D(j)
    <3>1. j \in 0 .. HASH_SIZE /\ j - 1 \in 0 .. HASH_SIZE /\ j - 1 # n
      BY <1>0
    <3>2. CASE j = n
      BY <2>4, <3>1, <3>2
    <3>3. CASE j # n
      <4>1. j \in 1 .. n - 1
        BY <3>3
      <4> QED
        BY <2>1, <2>4, <3>1, <3>3, <4>1
    <3> QED
      BY <3>2, <3>3
  <2> QED
    BY <2>3, <2>5, <2>6
<1> HIDE DEF Reached
<1>4. ASSUME Rest # {} PROVE FALSE
  <2>1. Rest \subseteq Nat /\ IsWellFoundedOn(Below, Nat)
    BY <1>0, NatLessThanWellFounded DEF OpToRel
  <2>2. PICK n \in Rest : \A m \in Rest : ~(<< m, n >> \in Below)
    <3> HIDE DEF Rest, Below
    <3> QED
      BY <1>4, <2>1, WFMin
  <2>3. n \in 1 .. HASH_SIZE
    BY <1>0, <1>2
  <2>4. << n - 1, n >> \in Below /\ n - 1 \in 0 .. HASH_SIZE
    BY <1>0, <2>3
  <2> QED
    BY <1>3, <2>2, <2>3, <2>4
<1>5. Reached(HASH_SIZE)
  BY <1>0, <1>4
<1> QED
  BY <1>5 DEF Reached, D

LEMMA SumSteps ==
  ASSUME NEW x \in Digest, NEW y \in Digest
  PROVE  /\ Sums(x, y)[0] = 0
         /\ \A j \in 0 .. HASH_SIZE - 1 :
              Sums(x, y)[j + 1] = Sums(x, y)[j] + XorByte(x[j], y[j])
<1> DEFINE F(s) == [j \in 0 .. HASH_SIZE |->
                      IF j = 0 THEN 0 ELSE s[j - 1] + XorByte(x[j - 1], y[j - 1])]
           s == CHOOSE t : t = F(t)
<1>0. HASH_SIZE \in Nat
  BY HashEqualAssumption
<1>1. PICK f \in [0 .. HASH_SIZE -> Nat] :
        /\ f[0] = 0
        /\ \A j \in 1 .. HASH_SIZE : f[j] = f[j - 1] + XorByte(x[j - 1], y[j - 1])
  BY SumsExist
<1>2. f = F(f)
  <2>1. \A j \in 0 .. HASH_SIZE :
          f[j] = IF j = 0 THEN 0 ELSE f[j - 1] + XorByte(x[j - 1], y[j - 1])
    BY <1>0, <1>1
  <2> QED
    BY <2>1
<1>3. s = F(s)
  BY <1>2, Zenon
<1>4. Sums(x, y) = s
  BY DEF Sums
<1> HIDE DEF s
<1>5. \A j \in 0 .. HASH_SIZE :
        F(s)[j] = IF j = 0 THEN 0 ELSE s[j - 1] + XorByte(x[j - 1], y[j - 1])
  OBVIOUS
<1> HIDE DEF F
<1>6. \A j \in 0 .. HASH_SIZE :
        s[j] = IF j = 0 THEN 0 ELSE s[j - 1] + XorByte(x[j - 1], y[j - 1])
  BY <1>3, <1>5
<1>7. s[0] = 0
  BY <1>0, <1>6
<1>8. ASSUME NEW j \in 0 .. HASH_SIZE - 1 PROVE s[j + 1] = s[j] + XorByte(x[j], y[j])
  <2>1. j + 1 \in 0 .. HASH_SIZE /\ j + 1 # 0 /\ (j + 1) - 1 = j
    BY <1>0
  <2> QED
    BY <1>6, <2>1
<1> QED
  BY <1>4, <1>7, <1>8

(* A number has one remainder.                                             *)
LEMMA RemainderUnique ==
  ASSUME NEW q \in Nat, NEW n \in Nat, NEW r \in Byte, NEW s \in Byte,
         q * BYTE_MOD + s = n * BYTE_MOD + r
  PROVE  s = r
<1>0. BYTE_MOD \in Nat /\ q * BYTE_MOD \in Nat /\ n * BYTE_MOD \in Nat
  BY HashEqualAssumption
<1>1. ASSUME NEW u \in Nat, NEW v \in Nat, u < v PROVE u * BYTE_MOD + BYTE_MOD <= v * BYTE_MOD
  <2>1. u + 1 <= v
    BY <1>1
  <2>2. (u + 1) * BYTE_MOD <= v * BYTE_MOD
    BY <1>0, <2>1
  <2>3. (u + 1) * BYTE_MOD = u * BYTE_MOD + BYTE_MOD
    BY <1>0
  <2> QED
    BY <2>2, <2>3
<1>2. CASE q < n
  BY <1>0, <1>1, <1>2 DEF Byte
<1>3. CASE n < q
  BY <1>0, <1>1, <1>3 DEF Byte
<1>4. CASE q = n
  BY <1>0, <1>4 DEF Byte
<1> QED
  BY <1>2, <1>3, <1>4

(* Cutting a sum down to a byte after every term is cutting it down once.  *)
LEMMA SumOfRemainders ==
  ASSUME NEW m \in Nat, NEW n \in Nat
  PROVE  ((m % BYTE_MOD) + n) % BYTE_MOD = (m + n) % BYTE_MOD
<1>1. BYTE_MOD \in Nat /\ 1 < BYTE_MOD
  BY HashEqualAssumption
<1>2. ASSUME NEW z \in Nat
      PROVE  /\ z \div BYTE_MOD \in Nat /\ z % BYTE_MOD \in Byte
             /\ z = (z \div BYTE_MOD) * BYTE_MOD + (z % BYTE_MOD)
  BY <1>1 DEF Byte
<1> DEFINE q == m \div BYTE_MOD
           r == m % BYTE_MOD
           k == (r + n) \div BYTE_MOD
           t == (r + n) % BYTE_MOD
           v == (m + n) \div BYTE_MOD
           w == (m + n) % BYTE_MOD
<1>3. q \in Nat /\ r \in Byte /\ m = q * BYTE_MOD + r
  BY <1>2
<1>4. r + n \in Nat /\ m + n \in Nat
  BY <1>1, <1>3 DEF Byte
<1>5. k \in Nat /\ t \in Byte /\ r + n = k * BYTE_MOD + t
  BY <1>2, <1>4
<1>6. v \in Nat /\ w \in Byte /\ m + n = v * BYTE_MOD + w
  BY <1>2, <1>4
<1> HIDE DEF q, r, k, t, v, w
<1>7. (q + k) * BYTE_MOD = q * BYTE_MOD + k * BYTE_MOD
  BY <1>1, <1>3, <1>5
<1>8. /\ q * BYTE_MOD \in Nat /\ k * BYTE_MOD \in Nat /\ v * BYTE_MOD \in Nat
      /\ q + k \in Nat /\ r \in Nat /\ t \in Nat /\ w \in Nat
  BY <1>1, <1>3, <1>5, <1>6 DEF Byte
<1>9. (q + k) * BYTE_MOD + t = v * BYTE_MOD + w
  <2> DEFINE A == q * BYTE_MOD
             C == k * BYTE_MOD
             E == (q + k) * BYTE_MOD
             V == v * BYTE_MOD
  <2>1. /\ A \in Nat /\ C \in Nat /\ V \in Nat
        /\ m = A + r /\ r + n = C + t /\ m + n = V + w /\ E = A + C
    BY <1>3, <1>5, <1>6, <1>7, <1>8
  <2> HIDE DEF A, C, E, V
  <2>2. E + t = V + w
    BY <1>8, <2>1
  <2> QED
    BY <2>2 DEF E, V
<1>10. t = w
  BY <1>5, <1>6, <1>8, <1>9, RemainderUnique
<1> QED
  BY <1>10, Zenon DEF t, r, w

(* The loop has the sum of the bytes so far, cut down to a byte. *)
SumInv ==
  /\ pc = "loop" => /\ Sums(a, b)[i] \in Nat
                    /\ res = Sums(a, b)[i] % BYTE_MOD
  /\ AcceptedBySum

LEMMA SumIterate == Inductive /\ SumInv /\ Iterate => SumInv'
<1> SUFFICES ASSUME Inductive, SumInv, Iterate PROVE SumInv'
  OBVIOUS
<1>0. /\ pc = "loop" /\ i < HASH_SIZE /\ pc' = pc /\ i' = i + 1
      /\ a' = a /\ b' = b /\ equal' = equal /\ res' = AddDifference(a[i], b[i])
  BY DEF Iterate
<1>1. a \in Digest /\ b \in Digest /\ i \in 0 .. HASH_SIZE - 1
  BY <1>0, HashEqualAssumption DEF Inductive
<1> DEFINE S == Sums(a, b)
           x == XorByte(a[i], b[i])
<1>2. S[i] \in Nat /\ res = S[i] % BYTE_MOD
  BY <1>0 DEF SumInv
<1>3. S[i + 1] = S[i] + x
  BY <1>1, SumSteps
<1>4. x \in Nat
  <2>1. a[i] \in Byte /\ b[i] \in Byte
    BY <1>1 DEF Digest
  <2>2. XorByte(a[i], b[i]) \in Byte
    BY <2>1, XorAssumption
  <2> QED
    BY <2>2, HashEqualAssumption DEF Byte
<1>5. res' = (res + x) % BYTE_MOD
  BY <1>0 DEF AddDifference
<1>6. Sums(a, b)' = S
  BY <1>0 DEF Sums
<1> HIDE DEF S, x
<1>7. S[i + 1] \in Nat /\ res' = S[i + 1] % BYTE_MOD
  <2> DEFINE y == S[i]
  <2>1. y \in Nat /\ res = y % BYTE_MOD /\ S[i + 1] = y + x
    BY <1>2, <1>3
  <2> HIDE DEF y
  <2>2. (res + x) % BYTE_MOD = (y + x) % BYTE_MOD
    BY <1>4, <2>1, SumOfRemainders
  <2>3. y + x \in Nat
    BY <1>4, <2>1
  <2> QED
    BY <1>5, <2>1, <2>2, <2>3, Zenon
<1>8. AcceptedBySum'
  BY <1>0 DEF AcceptedBySum
<1> QED
  BY <1>0, <1>6, <1>7, <1>8 DEF SumInv

LEMMA SumStep == Inductive /\ SumInv /\ [Next]_vars => SumInv'
<1> SUFFICES ASSUME Inductive, SumInv, [Next]_vars PROVE SumInv'
  OBVIOUS
<1>1. CASE Check
  <2>1. pc = "check" /\ i = 0 /\ res = 0 /\ a' = a /\ b' = b /\ i' = i /\ res' = res
    BY <1>1 DEF Check, Inductive
  <2>2. CASE a # NULL /\ b # NULL
    <3>1. pc' = "loop" /\ a \in Digest /\ b \in Digest
      BY <1>1, <2>2 DEF Check, Inductive
    <3>2. Sums(a, b)' = Sums(a, b) /\ Sums(a, b)[0] = 0
      BY <2>1, <3>1, SumSteps DEF Sums
    <3>3. 0 \in Nat /\ 0 % BYTE_MOD = 0
      BY HashEqualAssumption
    <3> QED
      BY <2>1, <3>1, <3>2, <3>3 DEF SumInv, AcceptedBySum
  <2>3. CASE ~(a # NULL /\ b # NULL)
    BY <1>1, <2>1, <2>3 DEF Check, SumInv, AcceptedBySum
  <2> QED
    BY <2>2, <2>3
<1>2. CASE Iterate
  BY <1>2, SumIterate
<1>3. CASE Return
  <2>1. /\ pc = "loop" /\ i = HASH_SIZE /\ pc' = "done" /\ equal' = (res = 0)
        /\ a' = a /\ b' = b
    BY <1>3 DEF Return
  <2>2. Sums(a, b)' = Sums(a, b)
    BY <2>1 DEF Sums
  <2> QED
    BY <2>1, <2>2 DEF SumInv, AcceptedBySum
<1>4. CASE UNCHANGED vars
  BY <1>4 DEF vars, SumInv, AcceptedBySum, Sums
<1> QED
  BY <1>1, <1>2, <1>3, <1>4 DEF Next

(* HashEqual accepts exactly the pairs whose differences sum to a multiple *)
(* of the byte size: equal digests, and what the 8-bit sum cannot tell     *)
(* from them.                                                              *)
THEOREM AcceptsBySum == Spec => []AcceptedBySum
<1>1. Init => SumInv
  BY DEF Init, SumInv, AcceptedBySum
<1>2. SumInv => AcceptedBySum
  BY DEF SumInv
<1> QED
  BY <1>1, <1>2, SumStep, Invariance, PTL DEF Spec
=============================================================================
