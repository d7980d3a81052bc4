------------------------------ MODULE Arithmetic ------------------------------
(***************************************************************************)
(* Division with remainder, powers of two, and induction over the natural  *)
(* numbers: what the proofs about words and counters keep needing.         *)
(***************************************************************************)
EXTENDS Integers, WellFoundedInduction, TLAPS

-----------------------------------------------------------------------------
(* Division *)

\* Division with remainder, and that it is unique.
LEMMA Division ==
  ASSUME NEW n \in Nat \ {0}, NEW x \in Int
  PROVE  /\ x \div n \in Int /\ x % n \in 0 .. n - 1
         /\ x = (x \div n) * n + (x % n)
         /\ x \in Nat => x \div n \in Nat
OBVIOUS

LEMMA DivisionUnique ==
  ASSUME NEW n \in Nat \ {0}, NEW q \in Int, NEW r \in 0 .. n - 1
  PROVE  /\ (q * n + r) \div n = q
         /\ (q * n + r) % n = r
<1> DEFINE x == q * n + r
           k == x \div n - q
<1>1. x \in Int /\ q * n \in Int OBVIOUS
<1>2. /\ x \div n \in Int /\ x % n \in 0 .. n - 1
      /\ x = (x \div n) * n + (x % n)
  BY <1>1, Division
<1>3. k \in Int /\ k * n = r - (x % n)
  BY <1>2
<1>4. -n < k * n /\ k * n < n
  BY <1>2, <1>3
<1>5. CASE k >= 1
  <2>1. k * n >= n BY <1>3, <1>5
  <2> QED BY <2>1, <1>4
<1>6. CASE k <= -1
  <2>1. k * n <= -n BY <1>3, <1>6
  <2> QED BY <2>1, <1>4
<1>7. CASE k = 0
  <2>1. x \div n = q BY <1>7, <1>2
  <2>2. x % n = r BY <1>3, <1>7, <1>2
  <2> QED BY <2>1, <2>2
<1> QED BY <1>3, <1>5, <1>6, <1>7

LEMMA SmallRemainder ==
  ASSUME NEW n \in Nat \ {0}, NEW x \in 0 .. n - 1
  PROVE  x % n = x /\ x \div n = 0
<1>1. x = 0 * n + x
  OBVIOUS
<1>2. (0 * n + x) % n = x /\ (0 * n + x) \div n = 0
  BY DivisionUnique
<1> QED
  BY <1>1, <1>2

\* The part of a dividend that its quotient covers.
LEMMA Quotient ==
  ASSUME NEW x \in Nat, NEW n \in Nat \ {0}
  PROVE  /\ x \div n \in Nat
         /\ (x \div n) * n <= x
         /\ x < ((x \div n) + 1) * n
<1> DEFINE q == x \div n
           r == x % n
<1>1. q \in Nat /\ r \in 0 .. n - 1 /\ x = q * n + r
  <2>1. x \in Int
    OBVIOUS
  <2> QED
    BY <2>1, Division
<1> HIDE DEF q, r
<1>2. (q + 1) * n = q * n + n /\ q * n \in Nat
  BY <1>1, SMT
<1>3. q * n <= x /\ x < (q + 1) * n
  BY <1>1, <1>2
<1> QED
  BY <1>1, <1>3 DEF q

\* Multiplication is monotone.
LEMMA ProductGrows ==
  ASSUME NEW a \in Nat, NEW b \in Nat, NEW c \in Nat, a <= b
  PROVE  a * c <= b * c
  BY SMT

-----------------------------------------------------------------------------
(* Powers of two *)

\* Doubling, for the exponents of words of at most 32 bits.
PowerStep(i) == 2 ^ i \in Nat \ {0} /\ 2 ^ (i + 1) = 2 * 2 ^ i

LEMMA PowersOfTwo == (\A i \in 0 .. 31 : PowerStep(i)) /\ 2 ^ 0 = 1
<1>1. /\ PowerStep(0)  /\ PowerStep(1)  /\ PowerStep(2)  /\ PowerStep(3)
      /\ PowerStep(4)  /\ PowerStep(5)  /\ PowerStep(6)  /\ PowerStep(7)
      /\ PowerStep(8)  /\ PowerStep(9)  /\ PowerStep(10) /\ PowerStep(11)
      /\ PowerStep(12) /\ PowerStep(13) /\ PowerStep(14) /\ PowerStep(15)
      /\ PowerStep(16) /\ PowerStep(17) /\ PowerStep(18) /\ PowerStep(19)
      /\ PowerStep(20) /\ PowerStep(21) /\ PowerStep(22) /\ PowerStep(23)
      /\ PowerStep(24) /\ PowerStep(25) /\ PowerStep(26) /\ PowerStep(27)
      /\ PowerStep(28) /\ PowerStep(29) /\ PowerStep(30) /\ PowerStep(31)
  BY DEF PowerStep
<1>2. \A i \in 0 .. 31 : PowerStep(i)
  BY <1>1
<1> QED
  BY <1>2

\* The carry of an address makes its sums a bit wider, and regions double once more.
LEMMA MorePowers == \A i \in 0 .. 34 : PowerStep(i)
<1>1. PowerStep(32) /\ PowerStep(33) /\ PowerStep(34)
  BY DEF PowerStep
<1>2. \A i \in 0 .. 34 : i \in 0 .. 31 \/ i = 32 \/ i = 33 \/ i = 34
  OBVIOUS
<1> QED
  BY <1>1, <1>2, PowersOfTwo

-----------------------------------------------------------------------------
(* Induction *)

\* Induction, with the natural numbers for which the claim fails as a set.
LEMMA Least ==
  ASSUME NEW S \in SUBSET Nat, S # {}
  PROVE  \E n \in S : \A m \in S : n <= m
<1>1. IsWellFoundedOn(OpToRel(<, Nat), Nat)
  BY NatLessThanWellFounded
<1>2. PICK n \in S : \A m \in S : ~(<<m, n>> \in OpToRel(<, Nat))
  BY <1>1, WFMin
<1>3. \A m \in S : ~(m < n)
  BY <1>2 DEF OpToRel
<1> QED
  BY <1>3

LEMMA NoFailure ==
  ASSUME NEW Fails \in SUBSET Nat, 0 \notin Fails,
         \A n \in Nat : n + 1 \in Fails => n \in Fails
  PROVE  Fails = {}
<1> SUFFICES ASSUME Fails # {} PROVE FALSE
  OBVIOUS
<1>1. PICK n \in Fails : \A m \in Fails : n <= m
  BY Least
<1>2. n # 0 /\ n - 1 \in Nat /\ (n - 1) + 1 = n
  BY <1>1
<1>3. n - 1 \in Fails
  BY <1>2
<1> QED
  BY <1>1, <1>3

\* Exponents add up: what a word of several bytes is made of.
LEMMA PowerSum ==
  ASSUME NEW a \in Nat, NEW b \in Nat, a + b <= 32
  PROVE  /\ 2 ^ (a + b) = 2 ^ a * 2 ^ b
         /\ 2 ^ a \in Nat \ {0}
<1> DEFINE Adds(n) == 2 ^ (a + n) = 2 ^ a * 2 ^ n
           Fails == {n \in Nat : a + n <= 32 /\ ~Adds(n)}
<1>1. (\A i \in 0 .. 31 : 2 ^ i \in Nat \ {0} /\ 2 ^ (i + 1) = 2 * 2 ^ i) /\ 2 ^ 0 = 1
  BY PowersOfTwo DEF PowerStep
<1>2. \A i \in 0 .. 32 : 2 ^ i \in Nat \ {0}
  <2>1. 31 \in 0 .. 31 /\ 31 + 1 = 32
    OBVIOUS
  <2>2. 2 ^ (31 + 1) = 2 * 2 ^ 31 /\ 2 ^ 31 \in Nat \ {0}
    BY <1>1, <2>1
  <2>3. 2 ^ 32 \in Nat \ {0}
    BY <2>1, <2>2
  <2>4. \A i \in 0 .. 32 : i \in 0 .. 31 \/ i = 32
    OBVIOUS
  <2> QED
    BY <1>1, <2>3, <2>4
<1>3. Adds(0)
  <2>1. a + 0 = a /\ a \in 0 .. 32
    OBVIOUS
  <2>2. 2 ^ a * 1 = 2 ^ a
    BY <1>2, <2>1
  <2> QED
    BY <1>1, <2>1, <2>2
<1>4. ASSUME NEW n \in Nat, a + (n + 1) <= 32, Adds(n) PROVE Adds(n + 1)
  <2> DEFINE p == 2 ^ a
             q == 2 ^ n
  <2>1. a + n \in 0 .. 31 /\ n \in 0 .. 31 /\ a + (n + 1) = (a + n) + 1 /\ a \in 0 .. 32
    BY <1>4
  <2>2. 2 ^ (a + (n + 1)) = 2 * 2 ^ (a + n) /\ 2 ^ (n + 1) = 2 * q /\ p \in Nat /\ q \in Nat
    BY <1>1, <1>2, <2>1
  <2>3. 2 ^ (a + n) = p * q
    BY <1>4
  <2> HIDE DEF p, q
  <2>4. 2 * (p * q) = p * (2 * q)
    BY <2>2, SMT
  <2> QED
    BY <2>2, <2>3, <2>4 DEF p
<1>5. Fails = {}
  <2> HIDE DEF Adds
  <2>1. 0 \notin Fails /\ \A n \in Nat : n + 1 \in Fails => n \in Fails
    BY <1>3, <1>4
  <2> HIDE DEF Fails
  <2>2. Fails \in SUBSET Nat
    BY DEF Fails
  <2> QED
    BY <2>1, <2>2, NoFailure
<1>6. Adds(b)
  <2> HIDE DEF Adds
  <2> QED
    BY <1>5
<1>7. a \in 0 .. 32
  OBVIOUS
<1> QED
  BY <1>2, <1>6, <1>7
=============================================================================
