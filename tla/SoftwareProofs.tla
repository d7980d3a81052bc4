---------------------------- MODULE SoftwareProofs ----------------------------
(***************************************************************************)
(* What CoreMark and its port do on a core without a divider and with a    *)
(* counter in two halves: the software division returns the quotient and   *)
(* the remainder C defines, the timer measures the time that passes, and   *)
(* an automatic run takes at least ten seconds and at most a hundred, for  *)
(* every width and machine; the simulation of a test of the ISA suite      *)
(* prints the verdict the test has earned; and the merge sort of           *)
(* CoreMark's list is stable and loses no node.                            *)
(***************************************************************************)
EXTENDS SoftDiv, CycleTimer, Calibration, TestEnv, ListSort, Arithmetic,
        SequenceTheorems, FiniteSetTheorems

LEMMA WeightFacts ==
  /\ Bits \in Nat \ {0} /\ W \in Nat \ {0}
  /\ Weight[0] = 1
  /\ \A i \in 0 .. Bits : Weight[i] \in Nat
  /\ \A i \in 0 .. Bits - 1 : Weight[i + 1] = 2 * Weight[i]
  BY SoftDivAssumption DEF W
-----------------------------------------------------------------------------
(* Signs: a signed call divides magnitudes, and what C defines follows from them. *)

Abs(n) == IF n < 0 THEN -n ELSE n

\* The number a function reads in a word.
ReadAs(f, w) == IF f \in {"div", "mod"} THEN AsSigned(w) ELSE w

\* The magnitude of a word is that of the number read; the smallest number's fits.
LEMMA MagnitudeIsAbs ==
  ASSUME NEW f \in Functions, NEW w \in Word
  PROVE  /\ magnitude(f, w) \in Word
         /\ ReadAs(f, w) \in Int
         /\ magnitude(f, w) = Abs(ReadAs(f, w))
         /\ IsNegative(f, w) <=> ReadAs(f, w) < 0
<1>1. W \in Nat \ {0} /\ w \in Nat /\ w < W
  BY WeightFacts DEF Word
<1>2. CASE IsNegative(f, w)
  <2>1. f \in {"div", "mod"} /\ 2 * w >= W /\ w > 0
    BY <1>1, <1>2 DEF IsNegative, AsSigned
  <2>2. W - w \in 0 .. W - 1 /\ 0 - w = (-1) * W + (W - w)
    BY <1>1, <2>1
  <2>3. \A r \in 0 .. W - 1 : ((-1) * W + r) % W = r
    BY <1>1, DivisionUnique
  <2>4. (0 - w) % W = W - w
    BY <2>2, <2>3
  <2>5. ReadAs(f, w) = w - W
    BY <2>1 DEF ReadAs, AsSigned
  <2>6. magnitude(f, w) = W - w
    BY <1>2, <2>4 DEF magnitude, Negated, AsWord
  <2> QED
    BY <1>1, <1>2, <2>1, <2>5, <2>6 DEF Abs, Word
<1>3. CASE ~IsNegative(f, w)
  <2>1. ReadAs(f, w) = w
    BY <1>1, <1>3 DEF ReadAs, IsNegative, AsSigned
  <2> QED
    BY <1>1, <1>3, <2>1 DEF Abs, magnitude, Word
<1> QED
  BY <1>2, <1>3

\* Division of magnitudes gives the truncated quotient and the remainder that goes with
\* it, up to sign.
LEMMA SignsOfResults ==
  ASSUME NEW a \in Int, NEW b \in Int, b # 0,
         NEW quot \in Nat, NEW r \in Nat,
         Abs(a) = quot * Abs(b) + r, r < Abs(b)
  PROVE  /\ Truncated(a, b) = IF (a < 0) # (b < 0) THEN 0 - quot ELSE quot
         /\ a - Truncated(a, b) * b = IF a < 0 THEN 0 - r ELSE r
<1> DEFINE n == Abs(b)
<1>1. n \in Nat \ {0} /\ r \in 0 .. n - 1
  BY DEF Abs
<1>2. Abs(a) \div n = quot
  <2>1. \A z \in 0 .. n - 1 : (quot * n + z) \div n = quot
    BY <1>1, DivisionUnique
  <2> QED
    BY <1>1, <2>1
<1>3. Truncated(a, b) = IF (a < 0) # (b < 0) THEN 0 - quot ELSE quot
  BY <1>2 DEF Truncated, Abs
<1> DEFINE prod == quot * n
<1>4. prod \in Int /\ quot * b = (IF b < 0 THEN -prod ELSE prod) /\ (0 - quot) * b = (IF b < 0 THEN prod ELSE -prod)
  BY DEF Abs
<1>5. Abs(a) = prod + r
  OBVIOUS
<1> HIDE DEF n, prod
<1>6. a - Truncated(a, b) * b = IF a < 0 THEN 0 - r ELSE r
  <2>1. CASE a < 0 /\ b < 0
    BY <1>3, <1>4, <1>5, <2>1 DEF Abs
  <2>2. CASE a < 0 /\ ~(b < 0)
    BY <1>3, <1>4, <1>5, <2>2 DEF Abs
  <2>3. CASE ~(a < 0) /\ b < 0
    BY <1>3, <1>4, <1>5, <2>3 DEF Abs
  <2>4. CASE ~(a < 0) /\ ~(b < 0)
    BY <1>3, <1>4, <1>5, <2>4 DEF Abs
  <2> QED
    BY <2>1, <2>2, <2>3, <2>4
<1> QED
  BY <1>3, <1>6
-----------------------------------------------------------------------------
(* The inductive invariant: the loop's account, and where its operands came from. *)

TypeOK ==
  /\ fn \in Functions /\ args \in Word \X Word
  /\ dividend \in Word /\ divisor \in Word
  /\ quotient \in Nat /\ remainder \in Word
  /\ bit \in -1 .. Bits - 1
  /\ pc \in {"bits", "done"}

DividesMagnitudes ==
  /\ dividend = magnitude(fn, args[1])
  /\ divisor = magnitude(fn, args[2])
  /\ negative = negated(fn, args[1], args[2])

IInv == TypeOK /\ DividesMagnitudes /\ QuotientAndRemainder /\ DividesLikeC

LEMMA InitIInv == DivInit => IInv
<1> SUFFICES ASSUME DivInit PROVE IInv
  OBVIOUS
<1> USE SoftDivAssumption
<1>1. /\ fn \in Functions /\ args \in Word \X Word
      /\ args[1] \in Word /\ args[2] \in Word
  BY DEF DivInit
<1>2. dividend \in Word /\ divisor \in Word
  BY <1>1, MagnitudeIsAbs DEF DivInit
<1>3. TypeOK
  BY <1>1, <1>2 DEF DivInit, TypeOK, Word
<1>4. QuotientAndRemainder
  <2> SUFFICES ASSUME divisor # 0 PROVE dividend < divisor * W
    BY <1>2 DEF DivInit, QuotientAndRemainder, W, Word
  <2>1. /\ divisor \in Nat \ {0} /\ dividend \in Nat /\ dividend < W
        /\ W \in Nat \ {0}
    BY <1>2, WeightFacts DEF Word
  <2>2. divisor * W >= W
    BY <2>1, SMT
  <2> QED
    BY <2>1, <2>2
<1> QED
  BY <1>3, <1>4 DEF DivInit, IInv, DividesMagnitudes, DividesLikeC

\* Taking a multiple of the divisor off keeps the account.
LEMMA BitKeepsAccount ==
  ASSUME IInv, Bit
  PROVE  /\ quotient' \in Nat /\ remainder' \in Word
         /\ dividend = quotient' * divisor + remainder'
         /\ remainder' < divisor * Weight[bit]
<1> DEFINE w == Weight[bit]
           m == divisor * w
<1>1. /\ bit \in 0 .. Bits - 1 /\ w \in Nat \ {0} /\ Weight[bit + 1] = 2 * w
      /\ divisor \in Nat \ {0} /\ dividend \in Nat
      /\ quotient \in Nat /\ remainder \in Nat /\ remainder < W
      /\ dividend = quotient * divisor + remainder
      /\ remainder < divisor * Weight[bit + 1]
      /\ W \in Nat \ {0}
  BY WeightFacts DEF IInv, TypeOK, QuotientAndRemainder, Bit, Word
<1>2. m \in Nat /\ remainder < 2 * m
  <2>1. divisor * (2 * w) = 2 * (divisor * w) /\ divisor * w \in Nat
    BY <1>1, SMT
  <2> QED
    BY <1>1, <2>1
<1> DEFINE t == (W - 1) \div w
<1>3. /\ t \in Nat /\ t * w <= W - 1 /\ W - 1 < (t + 1) * w
  <2>1. W - 1 \in Nat /\ w \in Nat \ {0}
    BY <1>1
  <2> HIDE DEF m, w
  <2> QED
    BY <2>1, Quotient
<1>4. fits(divisor, bit) <=> divisor <= t
  BY DEF fits
<1> HIDE DEF t
<1>5. CASE divisor <= t
  <2>1. m <= t * w
    BY <1>1, <1>3, <1>5, SMT
  <2>2. m \in 0 .. W - 1 /\ m = 0 * W + m
    BY <1>1, <1>2, <1>3, <2>1
  <2>3. \A z \in 0 .. W - 1 : (0 * W + z) % W = z
    BY WeightFacts, DivisionUnique
  <2>4. AsWord(divisor * Weight[bit]) = m
    BY <2>2, <2>3 DEF AsWord
  <2>5. CASE remainder >= m
    <3>1. remainder' = remainder - m /\ quotient' = quotient + w
      BY <1>4, <1>5, <2>4, <2>5 DEF Bit
    <3>2. (quotient + w) * divisor = quotient * divisor + m
      BY <1>1, SMT
    <3> HIDE DEF m
    <3> QED
      BY <1>1, <1>2, <2>5, <3>1, <3>2 DEF Word, m
  <2>6. CASE ~(remainder >= m)
    <3>1. remainder' = remainder /\ quotient' = quotient
      BY <1>4, <1>5, <2>4, <2>6 DEF Bit
    <3> QED
      BY <1>1, <1>2, <2>6, <3>1 DEF Word
  <2> QED
    BY <2>5, <2>6
<1>6. CASE ~(divisor <= t)
  <2>1. remainder' = remainder /\ quotient' = quotient
    BY <1>4, <1>6 DEF Bit
  <2>2. (t + 1) * w <= m
    BY <1>1, <1>3, <1>6, SMT
  <2> QED
    BY <1>1, <1>2, <1>3, <2>1, <2>2 DEF Word
<1> QED
  BY <1>5, <1>6

\* A word is itself, and the negative of one is its negative modulo W.
LEMMA WordIsItself ==
  ASSUME NEW x \in Word
  PROVE  AsWord(x) = x
<1>1. x \in 0 .. W - 1 /\ x = 0 * W + x
  BY WeightFacts DEF Word
<1>2. \A z \in 0 .. W - 1 : (0 * W + z) % W = z
  BY WeightFacts, DivisionUnique
<1> QED
  BY <1>1, <1>2 DEF AsWord

\* At the end of the loop the result is what C defines.
LEMMA ReturnIsRight ==
  ASSUME IInv, Return
  PROVE  DividesLikeC'
<1> DEFINE a == ReadAs(fn, args[1])
           b == ReadAs(fn, args[2])
<1>1. /\ fn \in Functions /\ args[1] \in Word /\ args[2] \in Word
      /\ dividend = Abs(a) /\ divisor = Abs(b) /\ a \in Int /\ b \in Int
      /\ IsNegative(fn, args[1]) <=> a < 0
      /\ IsNegative(fn, args[2]) <=> b < 0
  BY MagnitudeIsAbs DEF IInv, TypeOK, DividesMagnitudes
<1>2. /\ bit = -1 /\ divisor # 0
      /\ dividend \in Word /\ remainder \in Word /\ divisor \in Nat \ {0}
      /\ quotient \in Nat /\ remainder \in Nat
      /\ dividend = quotient * divisor + remainder
      /\ remainder < divisor
  <2>1. bit = -1 /\ divisor \in Nat \ {0} /\ bit + 1 = 0
    BY WeightFacts DEF IInv, TypeOK, Return, Word
  <2>2. dividend = quotient * divisor + remainder /\ remainder < divisor * Weight[0]
    BY <2>1 DEF IInv, QuotientAndRemainder, Return
  <2> QED
    BY <2>1, <2>2, WeightFacts DEF IInv, TypeOK, Word
<1>3. quotient \in Word
  <2>1. quotient * divisor >= quotient
    BY <1>2, SMT
  <2> QED
    BY <1>2, <2>1, WeightFacts DEF Word
<1> HIDE DEF a, b
<1>4. b # 0
  BY <1>1, <1>2 DEF Abs
<1>5. /\ Truncated(a, b) = IF (a < 0) # (b < 0) THEN 0 - quotient ELSE quotient
      /\ a - Truncated(a, b) * b = IF a < 0 THEN 0 - remainder ELSE remainder
  <2>1. Abs(a) = quotient * Abs(b) + remainder /\ remainder < Abs(b)
    BY <1>1, <1>2
  <2>2. a \in Int /\ b \in Int /\ quotient \in Nat /\ remainder \in Nat
    BY <1>1, <1>2
  <2> QED
    BY ONLY <1>4, <2>1, <2>2, SignsOfResults
<1>6. /\ negative = IF fn = "mod" THEN a < 0 ELSE (a < 0) # (b < 0)
      /\ fn \in {"udiv", "umod"} => ~(a < 0) /\ ~(b < 0)
  BY <1>1 DEF IInv, DividesMagnitudes, negated, IsNegative
<1>7. AsWord(quotient) = quotient /\ AsWord(remainder) = remainder
  BY <1>2, <1>3, WordIsItself
<1>8. /\ fn' = fn /\ args' = args
      /\ result' = IF fn \in {"udiv", "div"}
                   THEN IF negative THEN AsWord(0 - quotient) ELSE AsWord(quotient)
                   ELSE IF negative THEN AsWord(0 - remainder) ELSE AsWord(remainder)
  BY <1>7 DEF Return, Negated
<1>9. result' = AsWord(IF fn \in {"udiv", "div"} THEN Truncated(a, b)
                       ELSE a - Truncated(a, b) * b)
  <2>1. CASE fn \in {"udiv", "div"}
    <3>1. negative <=> ((a < 0) # (b < 0))
      BY <1>6, <2>1
    <3> QED
      BY <1>5, <1>8, <2>1, <3>1
  <2>2. CASE fn = "umod"
    <3>1. ~(a < 0) /\ ~(b < 0) /\ fn # "mod"
      BY <1>6, <2>2
    <3>2. ((a < 0) # (b < 0)) = FALSE
      BY <3>1
    <3>3. ~negative
      BY <1>6, <3>1, <3>2
    <3> QED
      BY <1>5, <1>8, <2>2, <3>1, <3>3
  <2>3. CASE fn = "mod"
    <3>1. negative <=> a < 0
      BY <1>6, <2>3
    <3> QED
      BY <1>5, <1>8, <2>3, <3>1
  <2> QED
    BY <1>1, <2>1, <2>2, <2>3 DEF Functions
<1> QED
  BY <1>4, <1>8, <1>9 DEF DividesLikeC, ReadAs, a, b

\* A division by 0 returns what it is defined to.
LEMMA ReturnZeroIsRight ==
  ASSUME IInv, ReturnZeroDivisor
  PROVE  DividesLikeC'
<1> DEFINE a == ReadAs(fn, args[1])
           b == ReadAs(fn, args[2])
<1>1. /\ fn \in Functions /\ args[1] \in Word /\ args[2] \in Word
      /\ dividend = Abs(a) /\ divisor = Abs(b) /\ a \in Int /\ b \in Int
      /\ IsNegative(fn, args[1]) <=> a < 0
      /\ IsNegative(fn, args[2]) <=> b < 0
      /\ dividend \in Word
  BY MagnitudeIsAbs DEF IInv, TypeOK, DividesMagnitudes
<1> HIDE DEF a, b
<1>2. b = 0
  BY <1>1 DEF ReturnZeroDivisor, Abs
<1>3. AsWord(dividend) = dividend /\ AsWord(0) = 0 /\ AsWord(0 - 0) = 0
  <2>1. 0 \in Word
    BY WeightFacts DEF Word
  <2>2. 0 - 0 = 0
    OBVIOUS
  <2> QED
    BY <1>1, <2>1, <2>2, WordIsItself
<1>4. fn \in {"umod", "mod"} => negative = (a < 0)
  BY <1>1, <1>2 DEF IInv, DividesMagnitudes, negated, IsNegative
<1>5. /\ fn' = fn /\ args' = args
      /\ result' = IF fn \in {"udiv", "div"} THEN AsWord(0)
                   ELSE IF negative THEN AsWord(0 - dividend) ELSE AsWord(dividend)
  BY <1>3 DEF ReturnZeroDivisor, Negated
<1>6. a = IF a < 0 THEN 0 - dividend ELSE dividend
  BY <1>1 DEF Abs
<1>7. a - 0 * b = a
  BY <1>1, <1>2
<1>8. result' = AsWord(IF fn \in {"udiv", "div"} THEN 0 ELSE a - 0 * b)
  <2>1. CASE fn \in {"udiv", "div"}
    BY <1>5, <2>1
  <2>2. CASE fn \in {"umod", "mod"}
    BY <1>4, <1>5, <1>6, <1>7, <2>2
  <2> QED
    BY <1>1, <2>1, <2>2 DEF Functions
<1> QED
  BY <1>2, <1>5, <1>8 DEF DividesLikeC, ReadAs, a, b

LEMMA NextIInv == IInv /\ [DivNext]_divVars => IInv'
<1> SUFFICES ASSUME IInv, [DivNext]_divVars PROVE IInv'
  OBVIOUS
<1>1. CASE Bit
  <2>1. /\ quotient' \in Nat /\ remainder' \in Word
        /\ dividend = quotient' * divisor + remainder'
        /\ remainder' < divisor * Weight[bit]
    BY <1>1, BitKeepsAccount
  <2>2. TypeOK' /\ (bit + 1)' = bit
    BY <1>1, <2>1, SoftDivAssumption DEF Bit, IInv, TypeOK
  <2>3. QuotientAndRemainder'
    BY <1>1, <2>1, <2>2 DEF Bit, QuotientAndRemainder
  <2> QED
    BY <1>1, <2>2, <2>3 DEF Bit, IInv, DividesMagnitudes, DividesLikeC
<1>2. CASE Return
  <2>1. DividesLikeC'
    BY <1>2, ReturnIsRight
  <2> QED
    BY <1>2, <2>1 DEF Return, IInv, TypeOK, DividesMagnitudes, QuotientAndRemainder
<1>3. CASE ReturnZeroDivisor
  <2>1. DividesLikeC'
    BY <1>3, ReturnZeroIsRight
  <2> QED
    BY <1>3, <2>1
    DEF ReturnZeroDivisor, IInv, TypeOK, DividesMagnitudes, QuotientAndRemainder
<1>4. CASE UNCHANGED divVars
  BY <1>4 DEF divVars, IInv, TypeOK, DividesMagnitudes, QuotientAndRemainder, DividesLikeC
<1> QED
  BY <1>1, <1>2, <1>3, <1>4 DEF DivNext

LEMMA SpecIInv == DivSpec => []IInv
  BY InitIInv, NextIInv, PTL DEF DivSpec

\* The bits divided so far and the remainder make up the dividend, at every turn of the
\* loop and for every width (soft_div.c:18-31).
THEOREM DivisionKeepsAccount == DivSpec => []QuotientAndRemainder
<1>1. IInv => QuotientAndRemainder
  BY DEF IInv
<1> QED
  BY SpecIInv, <1>1, PTL

\* __udivsi3, __umodsi3, __divsi3 and __modsi3, and the 64-bit functions, return C's
\* quotient and remainder for all operands.
THEOREM DivisionIsC == DivSpec => []DividesLikeC
<1>1. IInv => DividesLikeC
  BY DEF IInv
<1> QED
  BY SpecIInv, <1>1, PTL

-----------------------------------------------------------------------------
(* The timer. *)

\* The values of the counter.
Count == 0 .. Lo * Hi - 1

LEMMA TimerSizes ==
  /\ Lo \in Nat \ {0} /\ Hi \in Nat \ {0} /\ MaxStep \in Nat \ {0}
  /\ Lo * Hi \in Nat \ {0} /\ Lo * (Hi - 1) = Lo * Hi - Lo
  /\ 2 * MaxStep <= Lo * Hi - Lo
<1>1. /\ Lo \in Nat \ {0} /\ Hi \in Nat \ {0} /\ MaxStep \in Nat \ {0}
      /\ 2 * MaxStep <= Lo * (Hi - 1)
  BY TimerAssumption
<1>2. Lo * Hi \in Nat \ {0}
  BY <1>1, SMT
<1>3. Lo * (Hi - 1) = Lo * Hi - Lo
  BY <1>1, SMT
<1> QED
  BY <1>1, <1>2, <1>3

\* Counting on is adding, up to how often the counter goes round.
LEMMA Counting ==
  ASSUME NEW c \in Nat, NEW d \in Nat
  PROVE  /\ counted(c, d) \in Count
         /\ \E k \in Nat : c + d = k * (Lo * Hi) + counted(c, d)
<1> DEFINE m == Lo * Hi
<1>1. m \in Nat \ {0}
  BY TimerSizes
<1> HIDE DEF m
<1> DEFINE x == c + d
           quot == x \div m
           r == x % m
<1>2. x \in Nat /\ x \in Int
  OBVIOUS
<1> HIDE DEF x
<1>3. quot \in Int /\ r \in 0 .. m - 1 /\ x = quot * m + r /\ (x \in Nat => quot \in Nat)
  BY <1>1, <1>2, Division
<1>4. counted(c, d) = r
  BY DEF counted, m, x
<1> HIDE DEF quot, r
<1>5. quot \in Nat /\ c + d = quot * m + r
  BY <1>2, <1>3 DEF x
<1> QED
  BY <1>3, <1>4, <1>5 DEF Count, m

LEMMA CountingUnique ==
  ASSUME NEW c \in Nat, NEW d \in Nat,
         NEW k \in Int, NEW r \in Count, c + d = k * (Lo * Hi) + r
  PROVE  counted(c, d) = r
<1> DEFINE m == Lo * Hi
<1>1. m \in Nat \ {0} /\ r \in 0 .. m - 1
  BY TimerSizes DEF Count
<1>2. c + d = k * m + r
  OBVIOUS
<1>3. counted(c, d) = (c + d) % m
  BY DEF counted
<1> HIDE DEF m
<1>4. (k * m + r) % m = r
  BY <1>1, DivisionUnique
<1> QED
  BY <1>2, <1>3, <1>4

\* Counting in two steps is counting in one.
LEMMA CountingOn ==
  ASSUME NEW c \in Nat, NEW d \in Nat, NEW e \in Nat
  PROVE  counted(counted(c, d), e) = counted(c, d + e)
<1> DEFINE m == Lo * Hi
           a == counted(c, d)
           b == counted(a, e)
<1>1. m \in Nat \ {0}
  BY TimerSizes
<1>2. a \in Count /\ a \in Nat /\ \E k \in Nat : c + d = k * m + a
  <2>1. a \in Count /\ \E k \in Nat : c + d = k * m + a
    BY Counting
  <2> QED
    BY <1>1, <2>1 DEF Count
<1>3. b \in Count /\ \E k \in Nat : a + e = k * m + b
  <2> HIDE DEF a
  <2> QED
    BY <1>2, Counting
<1> HIDE DEF a, b
<1>4. PICK j \in Nat : c + d = j * m + a
  BY <1>2
<1>5. PICK k \in Nat : a + e = k * m + b
  BY <1>3
<1>6. b \in Nat
  BY <1>1, <1>3 DEF Count
<1>7. c + (d + e) = (j + k) * m + b
  <2>1. (j + k) * m = j * m + k * m /\ j * m \in Nat /\ k * m \in Nat
    BY <1>1, SMT
  <2> HIDE DEF m
  <2> QED
    BY <1>2, <1>4, <1>5, <1>6, <2>1
<1>8. counted(c, d + e) = b
  <2>1. j + k \in Int /\ d + e \in Nat
    OBVIOUS
  <2> QED
    BY <1>3, <1>7, <2>1, CountingUnique
<1> QED
  BY <1>8 DEF a, b

\* The upper half is the same at two instants so close together only if the counter has
\* not gone round it in between, and then it was the same in between too.
LEMMA SameUpperHalf ==
  ASSUME NEW c \in Count, NEW d \in 1 .. MaxStep, NEW e \in 1 .. MaxStep,
         c \div Lo = counted(counted(c, d), e) \div Lo
  PROVE  c \div Lo = counted(c, d) \div Lo
<1> DEFINE m == Lo * Hi
           a == counted(c, d)
           b == counted(a, e)
           h == c \div Lo
<1>1. /\ m \in Nat \ {0} /\ Lo \in Nat \ {0} /\ MaxStep \in Nat /\ 2 * MaxStep <= m - Lo
      /\ c \in Nat /\ c < m /\ d \in Nat /\ e \in Nat /\ d <= MaxStep /\ e <= MaxStep
  BY TimerSizes DEF Count
<1>2. a \in Count /\ \E k \in Nat : c + d = k * m + a
  BY <1>1, Counting
<1>3. a \in Nat /\ a < m
  BY <1>1, <1>2 DEF Count
<1>4. b \in Count /\ \E k \in Nat : a + e = k * m + b
  <2> HIDE DEF a
  <2> QED
    BY <1>1, <1>3, Counting
<1>5. b \in Nat /\ b < m /\ b \div Lo = h
  BY <1>1, <1>4 DEF Count
<1> HIDE DEF a, b, h
<1>6. PICK j \in Nat : c + d = j * m + a
  BY <1>2
<1>7. PICK k \in Nat : a + e = k * m + b
  BY <1>4
<1>8. /\ h \in Nat /\ h * Lo <= c /\ c < h * Lo + Lo /\ h * Lo <= b /\ b < h * Lo + Lo
  <2>1. h \in Nat /\ h * Lo <= c /\ c < (h + 1) * Lo
    BY <1>1, Quotient DEF h
  <2>2. h * Lo <= b /\ b < (h + 1) * Lo
    BY <1>1, <1>5, Quotient
  <2>3. (h + 1) * Lo = h * Lo + Lo /\ h * Lo \in Nat
    BY <1>1, <2>1, SMT
  <2> QED
    BY <2>1, <2>2, <2>3
<1>9. /\ j * m \in Nat /\ k * m \in Nat /\ h * Lo \in Nat
      /\ (j >= 1 => j * m >= m) /\ (k >= 1 => k * m >= m)
      /\ (j = 0 => j * m = 0) /\ (k = 0 => k * m = 0)
  BY <1>1, <1>8, SMT
<1> HIDE DEF m
<1>10. j = 0 /\ k = 0
  <2>1. c + d + e = j * m + k * m + b
    BY <1>1, <1>3, <1>5, <1>6, <1>7, <1>9
  <2>2. j * m + k * m < m
    BY <1>1, <1>5, <1>8, <1>9, <2>1
  <2> QED
    BY <1>1, <1>9, <2>2
<1>11. c <= a /\ a <= b
  BY <1>1, <1>3, <1>5, <1>6, <1>7, <1>9, <1>10
<1> DEFINE r == a - h * Lo
<1>12. r \in 0 .. Lo - 1 /\ a = h * Lo + r
  BY <1>1, <1>3, <1>5, <1>8, <1>9, <1>11
<1> HIDE DEF r
<1>13. (h * Lo + r) \div Lo = h
  <2>1. h \in Int /\ Lo \in Nat \ {0}
    BY <1>1, <1>8
  <2> QED
    BY <1>12, <2>1, DivisionUnique
<1>14. a \div Lo = h
  BY <1>12, <1>13
<1> QED
  BY <1>14 DEF a, h

-----------------------------------------------------------------------------
(* The invariant of the timer: where the halves in the registers come from,   *)
(* and how far the counter has come since.                                    *)

TimerTypeOK ==
  /\ mcycle \in Count /\ at_lo \in Count /\ start_time_val \in Count
  /\ since \in Nat /\ elapsed \in Nat
  /\ at \in {"boot", "hi1", "lo", "hi2", "check", "run", "done"}
  /\ reading \in {"start", "stop"}
  /\ at \in {"boot", "run"} => reading = "start"
  /\ at = "done" => reading = "stop"

HalvesRead ==
  /\ at = "lo" =>
       \E c \in Count, d \in 1 .. MaxStep : hi1 = c \div Lo /\ mcycle = counted(c, d)
  /\ at = "hi2" =>
       \E c \in Count, d \in 1 .. MaxStep, e \in 1 .. MaxStep :
         /\ hi1 = c \div Lo /\ at_lo = counted(c, d)
         /\ mcycle = counted(at_lo, e)
  /\ at \in {"hi2", "check"} => lo = at_lo % Lo
  /\ at = "check" /\ hi1 = hi2 => hi1 = at_lo \div Lo

TimeKept ==
  /\ reading = "start" /\ at \in {"hi2", "check"} => mcycle = counted(at_lo, since)
  /\ at = "run" \/ (reading = "stop" /\ at # "done") =>
       mcycle = counted(start_time_val, since)
  /\ reading = "stop" /\ at \in {"hi2", "check", "done"} =>
       at_lo = counted(start_time_val, elapsed)
  /\ at = "done" => stop_time_val = at_lo

TimerInv == TimerTypeOK /\ HalvesRead /\ TimeKept

LEMMA CountSizes ==
  Count \subseteq Nat /\ 0 \in Count
<1>1. Lo * Hi \in Nat \ {0}
  BY TimerSizes
<1> QED
  BY <1>1 DEF Count

LEMMA InitTimer ==
  TimerInit => TimerInv
  BY CountSizes DEF TimerInit, TimerInv, TimerTypeOK, HalvesRead, TimeKept

\* A half is written into the counter (CSR.sv: mcycle, mcycleh).
LEMMA HalvesMakeCount ==
  ASSUME NEW h \in 0 .. Hi - 1, NEW l \in 0 .. Lo - 1
  PROVE  h * Lo + l \in Count
<1>1. Lo \in Nat \ {0} /\ Hi \in Nat \ {0}
  BY TimerSizes
<1>2. h * Lo \in Nat /\ (h + 1) * Lo = h * Lo + Lo /\ (h + 1) * Lo <= Hi * Lo /\ Hi * Lo = Lo * Hi
  <2>1. h \in Nat /\ h + 1 <= Hi
    BY <1>1
  <2> QED
    BY <1>1, <2>1, SMT
<1>3. Lo * Hi \in Nat
  BY TimerSizes
<1> QED
  BY <1>1, <1>2, <1>3 DEF Count

LEMMA CountHasHalves ==
  ASSUME NEW c \in Count
  PROVE  \E h \in 0 .. Hi - 1, l \in 0 .. Lo - 1 :
           c \div Lo = h /\ c % Lo = l /\ c = h * Lo + l
<1>1. /\ Lo \in Nat \ {0} /\ Hi \in Nat \ {0} /\ Lo * Hi \in Nat
      /\ c \in Nat /\ c \in Int /\ c < Lo * Hi
  BY TimerSizes DEF Count
<1> DEFINE h == c \div Lo
           r == c % Lo
<1>2. h \in Int /\ r \in 0 .. Lo - 1 /\ c = h * Lo + r
  BY <1>1, Division
<1>3. h \in Nat /\ h * Lo <= c
  BY <1>1, Quotient
<1> HIDE DEF h, r
<1>4. h < Hi
  <2>1. h >= Hi => h * Lo >= Hi * Lo /\ Hi * Lo = Lo * Hi
    BY <1>1, <1>2, SMT
  <2>2. h * Lo \in Nat
    BY <1>1, <1>2, SMT
  <2> QED
    BY <1>1, <1>2, <1>3, <2>1, <2>2
<1>5. h \in 0 .. Hi - 1
  BY <1>1, <1>2, <1>4
<1>6. c \div Lo = h /\ c % Lo = r
  BY DEF h, r
<1> QED
  BY <1>2, <1>5, <1>6

LEMMA BootWriteTimer ==
  ASSUME TimerInv, NEW v \in BootValues, BootWrite(v)
  PROVE  TimerInv'
<1>1. mcycle \in Count /\ v \in Nat /\ v \in Int /\ Lo \in Nat \ {0} /\ Hi \in Nat \ {0}
  BY TimerAssumption, TimerSizes DEF TimerInv, TimerTypeOK
<1>2. v % Lo \in 0 .. Lo - 1 /\ v % Hi \in 0 .. Hi - 1
  BY <1>1, Division
<1>3. mcycle \div Lo \in 0 .. Hi - 1 /\ mcycle % Lo \in 0 .. Lo - 1
  BY <1>1, CountHasHalves
<1>4. low_written(mcycle, v) \in Count /\ high_written(mcycle, v) \in Count
  BY <1>2, <1>3, HalvesMakeCount DEF low_written, high_written
<1> QED
  BY <1>4 DEF BootWrite, TimerInv, TimerTypeOK, HalvesRead, TimeKept

\* The counter and the cycles counted with it move on together.
LEMMA Passing ==
  ASSUME TimerTypeOK, NEW d \in 1 .. MaxStep, NEW a \in Count,
         NEW n \in Nat, mcycle = counted(a, n), mcycle' = counted(mcycle, d)
  PROVE  mcycle' = counted(a, n + d)
<1>1. a \in Nat /\ d \in Nat
  BY CountSizes, TimerSizes
<1> QED
  BY <1>1, CountingOn

\* Halves that are accepted are those of one count.
LEMMA ReadingIsCount ==
  ASSUME TimerInv
  PROVE  HalvesBelongTogether
<1>1. at_lo \in Count
  BY DEF TimerInv, TimerTypeOK
<1>2. PICK h \in 0 .. Hi - 1, l \in 0 .. Lo - 1 :
        at_lo \div Lo = h /\ at_lo % Lo = l /\ at_lo = h * Lo + l
  BY <1>1, CountHasHalves
<1>3. at = "check" /\ hi1 = hi2 => hi1 = at_lo \div Lo /\ lo = at_lo % Lo
  BY DEF TimerInv, HalvesRead
<1>4. read_cycle64 = hi1 * Lo + lo /\ (retry <=> hi1 # hi2)
  BY DEF read_cycle64, retry
<1>5. ASSUME at = "check", ~retry PROVE read_cycle64 = at_lo
  <2>1. hi1 = h /\ lo = l
    BY <1>2, <1>3, <1>4, <1>5
  <2> QED
    BY <1>2, <1>4, <2>1
<1> QED
  BY <1>5 DEF HalvesBelongTogether

LEMMA StepTimer ==
  ASSUME TimerInv, NEW d \in 1 .. MaxStep,
         \/ StartTime(d) \/ ReadHi1(d) \/ ReadLo(d) \/ ReadHi2(d)
         \/ Retry(d) \/ StartRead(d) \/ Work(d) \/ StopTime(d)
         \/ StopRead(d)
  PROVE  TimerInv'
<1> USE DEF TimerInv
<1>1. /\ d \in Nat /\ mcycle \in Count /\ mcycle \in Nat /\ at_lo \in Nat
      /\ start_time_val \in Nat /\ since \in Nat /\ MaxStep \in Nat
  BY CountSizes, TimerSizes DEF TimerTypeOK
<1>2. mcycle' = counted(mcycle, d) /\ mcycle' \in Count
  <2>1. mcycle' = counted(mcycle, d)
    BY DEF StartTime, ReadHi1, ReadLo, ReadHi2, Retry,
           StartRead, Work, StopTime, StopRead, Passes
  <2> QED
    BY <1>1, <2>1, Counting
<1>3. \A a \in Count : mcycle = counted(a, since) => mcycle' = counted(a, since + d)
  BY <1>1, <1>2, Passing DEF TimerTypeOK
<1> USE DEF Passes
<1>4. CASE StartTime(d)
  BY <1>1, <1>2, <1>4 DEF StartTime, TimerTypeOK, HalvesRead, TimeKept
<1>5. CASE ReadHi1(d)
  <2>1. hi1' = mcycle \div Lo
    BY <1>5 DEF ReadHi1, csr_cycleh
  <2> QED
    BY <1>1, <1>2, <1>3, <1>5, <2>1 DEF ReadHi1, TimerTypeOK, HalvesRead, TimeKept
<1>6. CASE ReadLo(d)
  <2>1. lo' = mcycle % Lo /\ at_lo' = mcycle
    BY <1>6 DEF ReadLo, csr_cycle
  <2>2. HalvesRead'
    BY <1>2, <1>6, <2>1 DEF ReadLo, TimerTypeOK, HalvesRead
  <2> QED
    BY <1>1, <1>2, <1>3, <1>6, <2>1, <2>2 DEF ReadLo, TimerTypeOK, TimeKept
<1>7. CASE ReadHi2(d)
  <2>1. hi2' = mcycle \div Lo
    BY <1>7 DEF ReadHi2, csr_cycleh
  <2>2. PICK c \in Count, f \in 1 .. MaxStep, e \in 1 .. MaxStep :
          /\ hi1 = c \div Lo /\ at_lo = counted(c, f) /\ mcycle = counted(at_lo, e)
    BY <1>7 DEF ReadHi2, HalvesRead
  <2>3. hi1 = hi2' => hi1 = at_lo \div Lo
    BY <2>1, <2>2, SameUpperHalf
  <2>4. HalvesRead'
    BY <1>7, <2>3 DEF ReadHi2, HalvesRead
  <2> QED
    BY <1>1, <1>2, <1>3, <1>7, <2>4 DEF ReadHi2, TimerTypeOK, TimeKept
<1>8. CASE Retry(d)
  BY <1>1, <1>2, <1>3, <1>8 DEF Retry, TimerTypeOK, HalvesRead, TimeKept
<1>9. at = "check" /\ ~retry => read_cycle64 = at_lo
  BY ReadingIsCount DEF HalvesBelongTogether
<1>10. CASE StartRead(d)
  BY <1>1, <1>2, <1>3, <1>9, <1>10 DEF StartRead, TimerTypeOK, HalvesRead, TimeKept
<1>11. CASE Work(d)
  BY <1>1, <1>2, <1>3, <1>11 DEF Work, TimerTypeOK, HalvesRead, TimeKept
<1>12. CASE StopTime(d)
  BY <1>1, <1>2, <1>3, <1>12 DEF StopTime, TimerTypeOK, HalvesRead, TimeKept
<1>13. CASE StopRead(d)
  BY <1>1, <1>2, <1>3, <1>9, <1>13 DEF StopRead, TimerTypeOK, HalvesRead, TimeKept
<1> QED
  BY <1>4, <1>5, <1>6, <1>7, <1>8, <1>10, <1>11, <1>12, <1>13

LEMMA NextTimer ==
  TimerInv /\ [TimerNext]_(timerVars) => TimerInv'
<1> SUFFICES ASSUME TimerInv, [TimerNext]_(timerVars) PROVE TimerInv'
  OBVIOUS
<1>1. CASE TimerNext
  BY <1>1, BootWriteTimer, StepTimer DEF TimerNext
<1>2. CASE UNCHANGED timerVars
  BY <1>2 DEF timerVars, TimerInv, TimerTypeOK, HalvesRead, TimeKept
<1> QED
  BY <1>1, <1>2

\* The difference of two readings is what has passed in between, if that is less than a
\* whole turn of the counter.
LEMMA DifferenceIsElapsed ==
  ASSUME NEW s \in Count, NEW n \in Nat, n < Lo * Hi
  PROVE  (counted(s, n) - s) % (Lo * Hi) = n
<1> DEFINE m == Lo * Hi
           t == counted(s, n)
<1>1. m \in Nat \ {0} /\ s \in Nat /\ s < m /\ n \in 0 .. m - 1
  BY TimerSizes DEF Count
<1>2. t \in Count /\ \E k \in Nat : s + n = k * m + t
  BY <1>1, Counting
<1>3. t \in Nat /\ t < m
  BY <1>1, <1>2 DEF Count
<1> HIDE DEF t
<1>4. PICK k \in Nat : s + n = k * m + t
  BY <1>2
<1>5. (0 - k) * m = 0 - k * m /\ k * m \in Nat
  BY <1>1, SMT
<1> HIDE DEF m
<1>6. t - s = (0 - k) * m + n
  BY <1>1, <1>3, <1>4, <1>5
<1>7. ((0 - k) * m + n) % m = n
  <2>1. 0 - k \in Int
    OBVIOUS
  <2> HIDE DEF m
  <2> DEFINE quot == 0 - k
  <2>2. quot \in Int
    BY <2>1
  <2> HIDE DEF quot
  <2>3. (quot * m + n) % m = n
    BY <1>1, <2>2, DivisionUnique
  <2> QED
    BY <2>3 DEF quot
<1> QED
  BY <1>6, <1>7 DEF m, t

\* For every size of the halves: a reading is the counter at the instant its lower half was
\* read, although the loop only compares two readings of the upper half, and the elapsed
\* time is exact as long as it fits into the counter (core_portme.c:55-67, 91, 130-133).
THEOREM TimeMeasured ==
  TimerSpec => []TimeIsMeasured
<1>1. TimerInv => TimeIsMeasured
  <2> SUFFICES ASSUME TimerInv PROVE HalvesBelongTogether /\ ElapsedIsExact
    BY DEF TimeIsMeasured
  <2>1. HalvesBelongTogether
    BY ReadingIsCount
  <2>2. ElapsedIsExact
    BY DifferenceIsElapsed
       DEF TimerInv, TimerTypeOK, TimeKept, ElapsedIsExact, get_time
  <2> QED
    BY <2>1, <2>2
<1> QED
  BY InitTimer, NextTimer, <1>1, PTL DEF TimerSpec

-----------------------------------------------------------------------------
(* The calibration. *)

\* d seconds, run as often again as they fit into ten, are at least ten seconds
\* (core_main.c:295).
LEMMA TenSecondsReached ==
  ASSUME NEW d \in Nat \ {0}
  PROVE  /\ factor(d) \in Nat \ {0}
         /\ d * factor(d) >= 10
<1> DEFINE quot == 10 \div d
<1>1. quot \in Nat /\ quot * d <= 10 /\ 10 < (quot + 1) * d
  BY Quotient
<1>2. factor(d) = 1 + quot
  BY DEF factor
<1>3. d * (1 + quot) = (quot + 1) * d
  BY <1>1, SMT
<1> HIDE DEF quot
<1> QED
  BY <1>1, <1>2, <1>3, SMT

-----------------------------------------------------------------------------
(* The inductive invariant: what the calibration has measured holds of the    *)
(* iterations it ends with, and the timed run is long enough for it.           *)

CalTypeOK ==
  /\ cost \in Nat \ {0} /\ given \in Nat
  /\ iterations \in Nat /\ secs_passed \in Nat /\ total_time \in Nat
  /\ phase \in Phases

Measured ==
  phase = "calibrate" => secs_passed * TicksPerSec <= iterations * cost

CalibratedRun ==
  phase = "timed" /\ given = 0 => 10 * TicksPerSec <= iterations * cost

ReportedRun ==
  phase = "report" /\ given = 0 => 10 * TicksPerSec <= total_time

CalInv ==
  /\ CalTypeOK /\ Measured /\ CalibratedRun /\ ReportedRun
  /\ phase = "check" => iterations = given /\ secs_passed = 0

LEMMA InitCal ==
  CalibrationInit => CalInv
  BY CalibrationAssumption DEF CalibrationInit, CalInv, CalTypeOK, Measured, CalibratedRun, ReportedRun, Phases

\* What the calibration measured, repeated the number of times it asks for, is ten
\* seconds.
LEMMA SetIterationsCal ==
  ASSUME CalInv, SetIterations
  PROVE  CalInv'
<1> USE CalibrationAssumption
<1> DEFINE f == factor(secs_passed)
<1>1. /\ secs_passed \in Nat \ {0} /\ iterations \in Nat /\ cost \in Nat
      /\ secs_passed * TicksPerSec <= iterations * cost
      /\ TicksPerSec \in Nat
  BY DEF CalInv, CalTypeOK, Measured, SetIterations
<1>2. f \in Nat \ {0} /\ 10 <= secs_passed * f
  BY <1>1, TenSecondsReached
<1> HIDE DEF f
<1>3. 10 * TicksPerSec <= (secs_passed * f) * TicksPerSec
  BY <1>1, <1>2, ProductGrows
<1>4. (secs_passed * TicksPerSec) * f <= (iterations * cost) * f
  BY <1>1, <1>2, ProductGrows
<1>5. /\ (secs_passed * f) * TicksPerSec = (secs_passed * TicksPerSec) * f
      /\ (iterations * cost) * f = (iterations * f) * cost
      /\ iterations * f \in Nat
  BY <1>1, <1>2, SMT
<1>6. 10 * TicksPerSec <= (iterations * f) * cost
  BY <1>1, <1>2, <1>3, <1>4, <1>5
<1>7. iterations' = iterations * f
  BY DEF SetIterations, f
<1>8. CalibratedRun'
  BY <1>6, <1>7 DEF CalibratedRun, SetIterations
<1>9. CalTypeOK'
  BY <1>5, <1>7 DEF CalInv, CalTypeOK, SetIterations, Phases
<1> QED
  BY <1>8, <1>9 DEF CalInv, Measured, ReportedRun, SetIterations

LEMMA NextCal ==
  CalInv /\ [CalibrationNext]_(calibrationVars) => CalInv'
<1> SUFFICES ASSUME CalInv, [CalibrationNext]_(calibrationVars) PROVE CalInv'
  OBVIOUS
<1> USE CalibrationAssumption
<1> USE DEF CalInv, CalTypeOK, Measured, CalibratedRun, ReportedRun, Phases
<1>1. CASE Automatic
  BY <1>1 DEF Automatic
<1>2. CASE Calibrate
  <2> DEFINE ticks == iterations' * cost
  <2>1. iterations' \in Nat /\ ticks \in Nat
    BY <1>2 DEF Calibrate, more
  <2>2. secs_passed' = ticks \div TicksPerSec
    BY <1>2 DEF Calibrate, time_in_secs
  <2>3. secs_passed' \in Nat /\ secs_passed' * TicksPerSec <= ticks
    BY <2>1, <2>2, Quotient
  <2> QED
    BY <1>2, <2>1, <2>3 DEF Calibrate
<1>3. CASE SetIterations
  BY <1>3, SetIterationsCal
<1>4. CASE AsGiven
  BY <1>4 DEF AsGiven
<1>5. CASE Run
  <2>1. total_time' \in Nat
    BY <1>5 DEF Run
  <2> QED
    BY <1>5, <2>1 DEF Run
<1>6. CASE UNCHANGED (calibrationVars)
  BY <1>6 DEF calibrationVars
<1> QED
  BY <1>1, <1>2, <1>3, <1>4, <1>5, <1>6 DEF CalibrationNext

\* An automatic run takes at least ten seconds whatever the clock and the machine: the
\* calibration's rounding (core_main.c:280-296) never makes it an invalid one.
THEOREM AutomaticRunsAreValid ==
  CalibrationSpec => []AutomaticRunIsValid
<1>1. CalInv => AutomaticRunIsValid
  <2> SUFFICES ASSUME CalInv, phase = "report", given = 0
               PROVE  time_in_secs(total_time) >= 10
    BY DEF AutomaticRunIsValid
  <2> DEFINE quot == total_time \div TicksPerSec
  <2>1. /\ total_time \in Nat /\ 10 * TicksPerSec <= total_time
        /\ TicksPerSec \in Nat \ {0}
    BY CalibrationAssumption DEF CalInv, CalTypeOK, ReportedRun
  <2>2. quot \in Nat /\ total_time < (quot + 1) * TicksPerSec
    BY <2>1, Quotient
  <2> HIDE DEF quot
  <2>3. ASSUME quot + 1 <= 10 PROVE FALSE
    <3>1. (quot + 1) * TicksPerSec <= 10 * TicksPerSec
      BY <2>1, <2>2, <2>3, ProductGrows
    <3> QED
      BY <2>1, <2>2, <3>1
  <2>4. quot >= 10
    BY <2>2, <2>3
  <2> QED
    BY <2>4 DEF time_in_secs, quot
<1> QED
  BY InitCal, NextCal, <1>1, PTL DEF CalibrationSpec

-----------------------------------------------------------------------------
(* The same run is not too long: what the loop measured is exact, and was less *)
(* than ten seconds unless the first ten iterations already took as many.       *)

LastMeasure ==
  phase = "calibrate" =>
    \/ iterations = 1 /\ secs_passed = 0
    \/ /\ iterations >= 10 /\ secs_passed = time_in_secs(iterations * cost)
       /\ iterations = 10 \/ iterations * cost < 10 * TicksPerSec

TimedIsShort ==
  phase = "timed" /\ given = 0 /\ time_in_secs(10 * cost) <= 100 =>
    time_in_secs(iterations * cost) <= 100

ShortInv == LastMeasure /\ TimedIsShort /\ AutomaticRunIsShort

\* Up to ten seconds, with the second that rounding cut off, come to at most 22
\* (core_main.c:291-295).
LEMMA AtMost22Seconds ==
  ASSUME NEW d \in 1 .. 10
  PROVE  factor(d) \in Nat \ {0} /\ factor(d) * (d + 1) <= 22
<1> DEFINE quot == 10 \div d
<1>1. quot \in Nat /\ quot * d <= 10
  BY Quotient
<1>2. factor(d) = 1 + quot
  BY DEF factor
<1> HIDE DEF quot
<1>3. CASE d = 1
  BY <1>1, <1>2, <1>3
<1>4. CASE d = 2
  BY <1>1, <1>2, <1>4
<1>5. CASE d = 3
  BY <1>1, <1>2, <1>5
<1>6. CASE d = 4
  BY <1>1, <1>2, <1>6
<1>7. CASE d = 5
  BY <1>1, <1>2, <1>7
<1>8. CASE d = 6
  BY <1>1, <1>2, <1>8
<1>9. CASE d = 7
  BY <1>1, <1>2, <1>9
<1>10. CASE d = 8
  BY <1>1, <1>2, <1>10
<1>11. CASE d = 9
  BY <1>1, <1>2, <1>11
<1>12. CASE d = 10
  BY <1>1, <1>2, <1>12
<1> QED
  BY <1>3, <1>4, <1>5, <1>6, <1>7, <1>8, <1>9, <1>10, <1>11, <1>12

\* Ticks below a number of seconds are fewer seconds.
LEMMA FewerSeconds ==
  ASSUME NEW ticks \in Nat, NEW secs \in Nat, ticks < secs * TicksPerSec
  PROVE  time_in_secs(ticks) \in Nat /\ time_in_secs(ticks) < secs
<1> DEFINE quot == ticks \div TicksPerSec
<1>1. TicksPerSec \in Nat \ {0}
  BY CalibrationAssumption
<1>2. quot \in Nat /\ quot * TicksPerSec <= ticks
  BY <1>1, Quotient
<1> HIDE DEF quot
<1>3. ASSUME secs <= quot PROVE FALSE
  <2>1. secs * TicksPerSec <= quot * TicksPerSec
    BY <1>1, <1>2, <1>3, ProductGrows
  <2> QED
    BY <1>1, <1>2, <2>1
<1>4. quot < secs
  BY <1>2, <1>3
<1> QED
  BY <1>2, <1>4 DEF time_in_secs, quot

\* A turn of the loop that goes on has measured less than a second, so that ten times
\* as many iterations take less than ten.
LEMMA CalibrateIsShort ==
  ASSUME CalInv, ShortInv, Calibrate
  PROVE  LastMeasure'
<1> USE CalibrationAssumption
<1>1. /\ iterations \in Nat /\ cost \in Nat \ {0} /\ secs_passed \in Nat
      /\ phase = "calibrate" /\ secs_passed < 1
      /\ iterations' = iterations * 10 /\ cost' = cost
      /\ secs_passed' = time_in_secs(iterations' * cost)
  BY DEF CalInv, CalTypeOK, Calibrate, more
<1>2. CASE iterations = 1
  BY <1>1, <1>2 DEF LastMeasure
<1>3. CASE iterations >= 10 /\ secs_passed = time_in_secs(iterations * cost)
  <2> DEFINE ticks == iterations * cost
  <2>1. ticks \in Nat /\ (iterations * 10) * cost = 10 * ticks
    BY <1>1, SMT
  <2> HIDE DEF ticks
  <2>2. ticks \div TicksPerSec = 0
    BY <1>1, <1>3 DEF time_in_secs, ticks
  <2>3. ticks < (0 + 1) * TicksPerSec
    BY <2>1, <2>2, Quotient
  <2>4. 10 * ticks < 10 * TicksPerSec
    BY <2>1, <2>3
  <2>5. iterations' * cost' < 10 * TicksPerSec
    BY <1>1, <2>1, <2>4
  <2>6. iterations' >= 10
    BY <1>1, <1>3
  <2> QED
    BY <1>1, <2>5, <2>6 DEF LastMeasure
<1> QED
  BY <1>1, <1>2, <1>3 DEF ShortInv, LastMeasure

\* The number that the loop's end sets makes a run of at most 22 seconds, or of the ten
\* iterations that were timed.
LEMMA SetIterationsIsShort ==
  ASSUME CalInv, ShortInv, SetIterations
  PROVE  TimedIsShort'
<1> USE CalibrationAssumption
<1> DEFINE ticks == iterations * cost
           f     == factor(secs_passed)
<1>1. /\ iterations \in Nat /\ cost \in Nat \ {0} /\ secs_passed \in Nat
      /\ phase = "calibrate" /\ secs_passed >= 1
      /\ iterations' = iterations * f /\ cost' = cost
  BY DEF CalInv, CalTypeOK, SetIterations
<1>2. ticks \in Nat
  BY <1>1
<1>3. /\ secs_passed = ticks \div TicksPerSec
      /\ iterations = 10 \/ ticks < 10 * TicksPerSec
  BY <1>1 DEF ShortInv, LastMeasure, time_in_secs
<1>4. secs_passed * TicksPerSec <= ticks /\ ticks < (secs_passed + 1) * TicksPerSec
  BY <1>1, <1>2, <1>3, Quotient
<1>5. CASE secs_passed <= 10
  <2>1. f \in Nat \ {0} /\ f * (secs_passed + 1) <= 22
    BY <1>1, <1>5, AtMost22Seconds
  <2> HIDE DEF f
  <2>2. (iterations * f) * cost = f * (iterations * cost)
    BY <1>1, <2>1, SMT
  <2>3. (iterations * f) * cost = f * ticks
    BY <2>2
  <2> HIDE DEF ticks
  <2>4. ticks + 1 <= (secs_passed + 1) * TicksPerSec
    BY <1>1, <1>2, <1>4
  <2>5. (ticks + 1) * f <= ((secs_passed + 1) * TicksPerSec) * f
    BY <1>1, <1>2, <2>1, <2>4, ProductGrows
  <2>6. (f * (secs_passed + 1)) * TicksPerSec <= 22 * TicksPerSec
    BY <1>1, <2>1, ProductGrows
  <2>7. /\ ((secs_passed + 1) * TicksPerSec) * f = (f * (secs_passed + 1)) * TicksPerSec
        /\ (ticks + 1) * f = f * ticks + f
        /\ f * ticks \in Nat
    BY <1>1, <1>2, <2>1, SMT
  <2>8. f * ticks < 22 * TicksPerSec
    <3> DEFINE whole   == f * ticks
               rounded == (ticks + 1) * f
               enough  == (f * (secs_passed + 1)) * TicksPerSec
    <3>1. /\ whole \in Nat /\ rounded = whole + f /\ rounded <= enough
          /\ enough <= 22 * TicksPerSec /\ enough \in Nat
      BY <1>1, <2>1, <2>5, <2>6, <2>7
    <3> HIDE DEF whole, rounded, enough
    <3>2. whole < 22 * TicksPerSec
      BY <2>1, <3>1
    <3> QED
      BY <3>2 DEF whole
  <2>9. time_in_secs(f * ticks) \in Nat /\ time_in_secs(f * ticks) < 22
    BY <2>7, <2>8, FewerSeconds
  <2>10. iterations' * cost' = f * ticks
    BY <1>1, <2>3
  <2> QED
    BY <2>9, <2>10 DEF TimedIsShort
<1>6. CASE secs_passed > 10
  <2>1. secs_passed * TicksPerSec >= 11 * TicksPerSec
    BY <1>1, <1>6, ProductGrows
  <2>2. iterations = 10
    BY <1>2, <1>3, <1>4, <2>1
  <2>3. 10 \div secs_passed = 0
    BY <1>1, <1>6, Quotient
  <2>4. f = 1
    BY <1>1, <2>3 DEF factor
  <2>5. iterations' * cost' = 10 * cost
    BY <1>1, <2>2, <2>4
  <2> QED
    BY <1>1, <2>5 DEF TimedIsShort
<1> QED
  BY <1>1, <1>5, <1>6

\* An automatic run takes no more than 100 seconds, unless ten iterations alone do: the
\* loop multiplies by ten before it looks at the clock (core_main.c:280-296).
THEOREM AutomaticRunsAreShort ==
  CalibrationSpec => []AutomaticRunIsShort
<1>1. CalibrationInit => ShortInv
  BY DEF CalibrationInit, ShortInv, LastMeasure, TimedIsShort, AutomaticRunIsShort
<1>2. CalInv /\ ShortInv /\ [CalibrationNext]_(calibrationVars) => ShortInv'
  <2> SUFFICES ASSUME CalInv, ShortInv, [CalibrationNext]_(calibrationVars)
               PROVE  ShortInv'
    OBVIOUS
  <2> USE DEF ShortInv, TimedIsShort, AutomaticRunIsShort
  <2>1. CASE Automatic
    BY <2>1 DEF Automatic, LastMeasure, CalInv
  <2>2. CASE Calibrate
    BY <2>2, CalibrateIsShort DEF Calibrate
  <2>3. CASE SetIterations
    BY <2>3, SetIterationsIsShort DEF SetIterations, LastMeasure
  <2>4. CASE AsGiven
    BY <2>4 DEF AsGiven, LastMeasure, CalInv
  <2>5. CASE Run
    BY <2>5 DEF Run, LastMeasure
  <2>6. CASE UNCHANGED (calibrationVars)
    BY <2>6 DEF calibrationVars, LastMeasure
  <2> QED
    BY <2>1, <2>2, <2>3, <2>4, <2>5, <2>6 DEF CalibrationNext
<1>3. ShortInv => AutomaticRunIsShort
  BY DEF ShortInv
<1> QED
  BY InitCal, NextCal, <1>1, <1>2, <1>3, PTL DEF CalibrationSpec

-----------------------------------------------------------------------------
(* The verdict of the simulation on a test of the suite. *)

\* What a test of the suite is.
LEMMA TestFacts ==
  ASSUME NEW t \in Tests
  PROVE  /\ t.level \in Prv
         /\ t.handler \in {"none", "mtvec_handler", "stvec_handler"}
         /\ t.expects \in Int
         /\ t.tohost \in Words
         /\ t.first \in Nat
         /\ t.stores \subseteq Nat
         /\ t.handler = "stvec_handler" => t.level = PrvS
         /\ 0 \in t.stores \cup {t.first} => \A v \in t.stores : v % 2 = 0
<1>1. t \in TestShape
  BY EnvAssumption
<1>2. \A c \in DOMAIN EncodedCause : EncodedCause[c] \in Int
  BY DEF EncodedCause
<1> QED
  BY <1>1, <1>2, SuiteAssumption DEF TestShape, Prv

\* The CSRs that the boot code writes without a guard accept it in machine mode.
LEMMA UnguardedAccess ==
  ASSUME NEW h, h.priv = PrvM,
         absent \subseteq {"mnstatus", "satp", "pmpaddr0", "pmpcfg0", "medeleg", "mideleg"},
         NEW n \in {"mtvec", "mie", "stvec", "mstatus", "mepc", "medeleg", "mideleg"},
         n \notin absent
  PROVE  ~AccessTraps(h, n)
<1> DEFINE a == [number |-> CoreCsr[n], priv |-> h.priv, write |-> TRUE, sse |-> FALSE, tvm |-> FALSE]
<1>1. n \in DOMAIN CoreCsr
  BY DEF CoreCsr
<1>2. csr_is_implemented(a.number)
  BY <1>1 DEF csr_is_implemented
<1>3. a.number \in {773, 772, 261, 768, 833, 770, 771}
  BY DEF CoreCsr
<1>4. ~(a.priv < lowest_privilege(a.number)) /\ ~read_only(a.number)
  BY <1>3 DEF lowest_privilege, read_only, PrvM
<1>5. ~privileged_illegal(a)
  BY <1>2, <1>4 DEF privileged_illegal, ssp_disabled, PrvM, PrvS
<1> QED
  BY <1>5 DEF AccessTraps

\* The writes of the reset vector.
CsrWrites ==
  {Boot[i] : i \in 1 .. 12}
    \cup {[csr |-> "stvec", value |-> At("stvec_handler")], [csr |-> "medeleg", value |-> DelegatedCauses],
          [csr |-> "mstatus", value |-> PrvU], [csr |-> "mstatus", value |-> test.level],
          [csr |-> "mideleg", value |-> {}], [csr |-> "mepc", value |-> <<"case", 2>>]}

Delegations == IF test.handler = "stvec_handler" THEN 2 ELSE 0

LEMMA BootLength == Boot \in Seq(CsrWrites) /\ Len(Boot) = 12
<1> DEFINE B == Boot
<1>1. Boot = [i \in 1 .. 12 |-> Boot[i]]
  BY DEF Boot
<1>2. \A i \in 1 .. 12 : B[i] \in CsrWrites
  BY DEF CsrWrites
<1> HIDE DEF B
<1>3. B \in [1 .. 12 -> CsrWrites]
  <2>1. B = [i \in 1 .. 12 |-> B[i]]
    BY <1>1 DEF B
  <2> QED
    BY <2>1, <1>2
<1>4. B \in Seq(CsrWrites) /\ Len(B) = 12
  <2> DEFINE S == CsrWrites
  <2> HIDE DEF S
  <2>1. B \in [1 .. 12 -> S]
    BY <1>3 DEF S
  <2>2. [1 .. 12 -> S] \in {[1 .. n -> S] : n \in Nat}
    OBVIOUS
  <2>3. B \in UNION {[1 .. n -> S] : n \in Nat}
    BY <2>1, <2>2
  <2>4. B \in Seq(S)
    BY <2>3, SeqDef
  <2>5. Len(B) \in Nat /\ DOMAIN B = 1 .. Len(B)
    BY <2>4, LenProperties
  <2>6. DOMAIN B = 1 .. 12
    BY <2>1
  <2>7. Len(B) = 12
    <3>1. 1 .. Len(B) = 1 .. 12
      BY <2>5, <2>6
    <3>2. 12 \in 1 .. Len(B) /\ 13 \notin 1 .. Len(B)
      BY <2>5, <3>1
    <3> QED
      BY <2>5, <3>2
  <2> QED
    BY <2>4, <2>7 DEF S
<1> QED
  BY <1>4 DEF B

LEMMA ResetVector ==
  ASSUME test \in Tests
  PROVE  LET d == Delegations
             n == Len(reset_vector)
         IN  /\ n = (IF test.level = PrvU THEN 14 ELSE IF test.level = PrvS THEN 16 ELSE 15) + d
             /\ \A i \in 1 .. 12 : reset_vector[i] = Boot[i]
             /\ d = 2 => /\ reset_vector[13] = [csr |-> "stvec", value |-> At("stvec_handler")]
                         /\ reset_vector[14] = [csr |-> "medeleg", value |-> DelegatedCauses]
             /\ reset_vector[13 + d] = [csr |-> "mstatus", value |-> PrvU]
             /\ test.level # PrvU => reset_vector[14 + d] = [csr |-> "mstatus", value |-> test.level]
             /\ test.level = PrvS => reset_vector[15 + d] = [csr |-> "mideleg", value |-> {}]
             /\ reset_vector[n] = [csr |-> "mepc", value |-> <<"case", 2>>]
<1> DEFINE S == CsrWrites
           A1 == [csr |-> "stvec", value |-> At("stvec_handler")]
           A2 == [csr |-> "medeleg", value |-> DelegatedCauses]
           E1 == [csr |-> "mstatus", value |-> PrvU]
           E2 == [csr |-> "mstatus", value |-> test.level]
           E3 == [csr |-> "mideleg", value |-> {}]
           E4 == [csr |-> "mepc", value |-> <<"case", 2>>]
           D == IF test.handler = "stvec_handler" THEN <<A1, A2>> ELSE << >>
           L == IF test.level = PrvU THEN << >> ELSE <<E2>>
           M == IF test.level = PrvS THEN <<E3>> ELSE << >>
           E == <<E1>> \o L \o M \o <<E4>>
<1>1. reset_vector = Boot \o D \o E
  BY DEF reset_vector, Delegation, Enable
<1>2. A1 \in S /\ A2 \in S /\ E1 \in S /\ E2 \in S /\ E3 \in S /\ E4 \in S
  BY DEF CsrWrites
<1>3. /\ D \in Seq(S) /\ Len(D) = Delegations
      /\ Delegations = 2 => D[1] = A1 /\ D[2] = A2
  <2> HIDE DEF A1, A2, S
  <2> QED
    BY <1>2 DEF Delegations
<1>4. test.level \in Prv /\ PrvU # PrvS
  BY TestFacts DEF PrvU, PrvS
<1>5. /\ E \in Seq(S)
      /\ Len(E) = (IF test.level = PrvU THEN 2 ELSE IF test.level = PrvS THEN 4 ELSE 3)
      /\ E[1] = E1 /\ E[Len(E)] = E4
      /\ test.level # PrvU => E[2] = E2
      /\ test.level = PrvS => E[3] = E3
  <2> HIDE DEF E1, E2, E3, E4, S
  <2> DEFINE EL  == <<E1>> \o L
             ELM == EL \o M
  <2>1. <<E1>> \in Seq(S) /\ Len(<<E1>>) = 1 /\ <<E4>> \in Seq(S) /\ Len(<<E4>>) = 1
    BY <1>2
  <2>2. /\ L \in Seq(S)
        /\ Len(L) = IF test.level = PrvU THEN 0 ELSE 1
        /\ test.level # PrvU => L[1] = E2
    BY <1>2
  <2>3. /\ M \in Seq(S)
        /\ Len(M) = IF test.level = PrvS THEN 1 ELSE 0
        /\ test.level = PrvS => M[1] = E3
    BY <1>2
  <2>4. <<E1>>[1] = E1 /\ <<E4>>[1] = E4
    OBVIOUS
  <2> HIDE DEF L, M
  <2>5. /\ EL \in Seq(S) /\ Len(EL) = 1 + Len(L)
        /\ \A i \in 1 .. 1 + Len(L) : EL[i] = IF i <= 1 THEN <<E1>>[i] ELSE L[i - 1]
    BY <2>1, <2>2, ConcatProperties
  <2>6. EL[1] = E1 /\ (test.level # PrvU => EL[2] = E2)
    BY <2>2, <2>4, <2>5
  <2> HIDE DEF EL
  <2>7. /\ ELM \in Seq(S) /\ Len(ELM) = Len(EL) + Len(M)
        /\ \A i \in 1 .. Len(EL) + Len(M) : ELM[i] = IF i <= Len(EL) THEN EL[i] ELSE M[i - Len(EL)]
    BY <2>3, <2>5, ConcatProperties
  <2>8. /\ ELM[1] = E1 /\ (test.level # PrvU => ELM[2] = E2)
        /\ test.level = PrvS => ELM[3] = E3
    BY <1>4, <2>2, <2>3, <2>5, <2>6, <2>7
  <2> HIDE DEF ELM
  <2>9. /\ ELM \o <<E4>> \in Seq(S) /\ Len(ELM \o <<E4>>) = Len(ELM) + 1
        /\ \A i \in 1 .. Len(ELM) + 1 :
             (ELM \o <<E4>>)[i] = IF i <= Len(ELM) THEN ELM[i] ELSE <<E4>>[i - Len(ELM)]
    BY <2>1, <2>7, ConcatProperties
  <2>10. E = ELM \o <<E4>>
    BY DEF EL, ELM
  <2> HIDE DEF E
  <2>11. Len(ELM) = IF test.level = PrvU THEN 1 ELSE IF test.level = PrvS THEN 3 ELSE 2
    BY <1>4, <2>2, <2>3, <2>5, <2>7
  <2> QED
    BY <1>4, <2>4, <2>8, <2>9, <2>10, <2>11
<1> DEFINE B == Boot
           R == B \o D \o E
<1>6. B \in Seq(S) /\ Len(B) = 12
  BY BootLength
<1> HIDE DEF B, D, E, S
<1>7. /\ Len(R) = 12 + Delegations + Len(E)
      /\ \A i \in 1 .. 12 : R[i] = B[i]
      /\ \A i \in 1 .. Delegations : R[12 + i] = D[i]
      /\ \A i \in 1 .. Len(E) : R[12 + Delegations + i] = E[i]
  <2> DEFINE BD == B \o D
  <2>1. /\ BD \in Seq(S) /\ Len(BD) = 12 + Delegations
        /\ \A i \in 1 .. 12 + Delegations : BD[i] = IF i <= 12 THEN B[i] ELSE D[i - 12]
    <3>1. /\ B \o D \in Seq(S) /\ Len(B \o D) = Len(B) + Len(D)
          /\ \A i \in 1 .. Len(B) + Len(D) :
               (B \o D)[i] = IF i <= Len(B) THEN B[i] ELSE D[i - Len(B)]
      BY <1>3, <1>6, ConcatProperties
    <3> QED
      BY <1>3, <1>6, <3>1
  <2> HIDE DEF BD
  <2>2. /\ Len(BD \o E) = Len(BD) + Len(E)
        /\ \A i \in 1 .. Len(BD) + Len(E) :
             (BD \o E)[i] = IF i <= Len(BD) THEN BD[i] ELSE E[i - Len(BD)]
    BY <1>5, <2>1, ConcatProperties
  <2>3. R = BD \o E
    BY DEF BD
  <2>4. Len(E) \in Nat /\ Delegations \in Nat
    BY <1>5 DEF Delegations
  <2>5. Len(R) = 12 + Delegations + Len(E)
    BY <2>1, <2>2, <2>3, <2>4
  <2>6. \A i \in 1 .. 12 + Delegations : R[i] = BD[i]
    BY <2>1, <2>2, <2>3, <2>4
  <2>7. \A i \in 1 .. Len(E) : R[12 + Delegations + i] = E[i]
    <3> SUFFICES ASSUME NEW i \in 1 .. Len(E) PROVE R[12 + Delegations + i] = E[i]
      OBVIOUS
    <3>1. /\ 12 + Delegations + i \in 1 .. Len(BD) + Len(E)
          /\ ~(12 + Delegations + i <= Len(BD))
          /\ (12 + Delegations + i) - Len(BD) = i
      BY <2>1, <2>4
    <3> QED
      BY <2>2, <2>3, <3>1
  <2>8. \A i \in 1 .. Delegations : R[12 + i] = D[i]
    <3> SUFFICES ASSUME NEW i \in 1 .. Delegations PROVE R[12 + i] = D[i]
      OBVIOUS
    <3>1. 12 + i \in 1 .. 12 + Delegations /\ ~(12 + i <= 12) /\ (12 + i) - 12 = i
      BY <2>4
    <3> QED
      BY <2>1, <2>6, <3>1
  <2> HIDE DEF R
  <2>9. \A i \in 1 .. 12 : R[i] = B[i]
    <3> SUFFICES ASSUME NEW i \in 1 .. 12 PROVE R[i] = B[i]
      OBVIOUS
    <3>1. i \in 1 .. 12 + Delegations /\ i <= 12
      BY <2>4
    <3> QED
      BY <2>1, <2>6, <3>1
  <2> QED
    BY <2>5, <2>7, <2>8, <2>9
<1>8. R = reset_vector
  BY <1>1 DEF B
<1>9. Delegations \in {0, 2}
  BY DEF Delegations
<1> HIDE DEF R, A1, A2, E1, E2, E3, E4
<1>10. /\ \A i \in 1 .. 12 : reset_vector[i] = Boot[i]
       /\ Delegations = 2 => reset_vector[13] = A1 /\ reset_vector[14] = A2
  BY <1>3, <1>7, <1>8, <1>9 DEF B
<1>11. /\ Len(reset_vector)
             = (IF test.level = PrvU THEN 14 ELSE IF test.level = PrvS THEN 16 ELSE 15) + Delegations
       /\ reset_vector[13 + Delegations] = E1
       /\ test.level # PrvU => reset_vector[14 + Delegations] = E2
       /\ test.level = PrvS => reset_vector[15 + Delegations] = E3
       /\ reset_vector[Len(reset_vector)] = E4
  <2> DEFINE n == Len(E)
  <2>1. n \in {2, 3, 4} /\ (test.level # PrvU => 2 \in 1 .. n) /\ (test.level = PrvS => 3 \in 1 .. n)
    BY <1>4, <1>5
  <2>2. \A i \in 1 .. n : reset_vector[12 + Delegations + i] = E[i]
    BY <1>7, <1>8
  <2>3. Len(reset_vector) = 12 + Delegations + n
    BY <1>7, <1>8
  <2>4. E[1] = E1 /\ E[n] = E4
    BY <1>5
  <2>5. 12 + Delegations + 1 = 13 + Delegations /\ 12 + Delegations + 2 = 14 + Delegations
        /\ 12 + Delegations + 3 = 15 + Delegations
    BY <1>9
  <2>6. Len(reset_vector)
          = (IF test.level = PrvU THEN 14 ELSE IF test.level = PrvS THEN 16 ELSE 15) + Delegations
    BY <1>5, <1>9, <2>3
  <2> HIDE DEF n
  <2>7. /\ reset_vector[13 + Delegations] = E1
        /\ test.level # PrvU => reset_vector[14 + Delegations] = E[2]
        /\ test.level = PrvS => reset_vector[15 + Delegations] = E[3]
        /\ reset_vector[Len(reset_vector)] = E[n]
    BY <2>1, <2>2, <2>3, <2>4, <2>5
  <2> QED
    BY <1>5, <2>4, <2>6, <2>7
<1> QED
  BY <1>10, <1>11 DEF A1, A2, E1, E2, E3, E4
EnvLabels ==
  {"start", "boot", "case", "check", "passfail", "pass", "pass_a7", "pass_a0", "fail", "fail_a7",
   "fail_a0", "ecall", "trap_vector", "write_tohost", "mtvec_handler", "stvec_handler"}

\* Nothing has been reported yet.
Fresh == hart.a7 = 0 /\ test_count = 0

\* What stands in a7 is what the test deserves.
Deserved ==
  \/ hart.a7 = PASS_MAGIC /\ complete /\ ~spoilt
  \/ hart.a7 = FAIL_MAGIC /\ spoilt

HartType ==
  [pc : EnvLabels \X Nat, gp : Nat, a7 : Nat, a0 : Nat, priv : Prv, mpp : Prv, mtvec : EnvLabels \X Nat,
   stvec : EnvLabels \X Nat, medeleg : SUBSET Nat, mcause : Nat, scause : Nat, mepc : EnvLabels \X Nat]

EnvTypes ==
  /\ test \in Tests
  /\ absent \in Absences /\ (test.level = PrvS => absent \cap {"medeleg", "mideleg"} = {})
  /\ hart \in HartType
  /\ word \in [Words -> Nat] /\ armed \in [Words -> BOOLEAN]
  /\ test_count \in 0 .. 3
  /\ spoilt \in BOOLEAN /\ complete \in BOOLEAN

\* The trap vector that the boot code has set up before its instruction i.
BootVector(i) ==
  CASE i \in {2, 3}          -> <<"boot", 3>>
    [] i \in {4, 5}          -> <<"boot", 5>>
    [] i \in {6, 7, 8, 9}    -> <<"boot", 8>>
    [] i \in {10, 11, 12}    -> <<"boot", 12>>
    [] OTHER                 -> At("trap_vector")

Delegated == IF test.handler = "stvec_handler" THEN DelegatedCauses ELSE {}

\* Behind the writes of the boot code stands what they wrote.
Booting ==
  hart.pc[1] = "boot" =>
    LET i == hart.pc[2]
        d == Delegations
    IN  /\ i \in 1 .. Len(reset_vector) + 1
        /\ Fresh /\ ~spoilt /\ hart.priv = PrvM
        /\ i > 1 => hart.mtvec = BootVector(i)
        /\ hart.medeleg = IF i > 14 THEN Delegated ELSE {}
        /\ d = 2 /\ i > 13 => hart.stvec = At("stvec_handler")
        /\ test.level = PrvU /\ i > 13 + d => hart.mpp = PrvU
        /\ i > 14 + d => hart.mpp = test.level
        /\ i > Len(reset_vector) => hart.mepc = <<"case", 2>>

\* After the boot code the trap vectors stay.
Prepared ==
  hart.pc[1] # "boot" =>
    /\ hart.mtvec = At("trap_vector")
    /\ hart.medeleg = Delegated
    /\ test.handler = "stvec_handler" => hart.stvec = At("stvec_handler")

\* The level prv of case n; a test of supervisor mode may drop to user mode before the last.
LevelOf(prv, n) == n \in 2 .. Cases /\ (prv = test.level \/ (prv = PrvU /\ n = Cases))

InCase ==
  hart.pc[1] \in {"case", "check"} =>
    /\ Fresh /\ ~spoilt
    /\ LevelOf(hart.priv, hart.pc[2])
    /\ hart.pc[1] = "check" => hart.gp = hart.pc[2]

\* A trap of a case: it spoils the test unless the handler expects it, and the case
\* can be left.
TrapOfCase ==
  /\ Fresh /\ hart.gp >= 2
  /\ LevelOf(hart.mpp, hart.mepc[2])
  /\ hart.mcause \notin {8, 9, 11}
  /\ spoilt = ~Expected(hart.mcause)

InTrap ==
  /\ hart.pc[1] = "trap_vector" => (test_count = 2 /\ Deserved) \/ TrapOfCase
  /\ hart.pc[1] = "mtvec_handler" => TrapOfCase /\ test.handler = "mtvec_handler"
  /\ hart.pc[1] = "stvec_handler" =>
       \/ test_count = 2 /\ Deserved
       \/ Fresh /\ hart.gp >= 2 /\ spoilt /\ hart.scause # 8

AtEnd ==
  /\ hart.pc[1] # "start"
  /\ hart.pc[1] = "passfail" => Fresh /\ ~spoilt /\ hart.gp >= 2
  /\ hart.pc[1] \in {"pass", "pass_a7"} => Fresh /\ complete /\ ~spoilt
  /\ hart.pc[1] \in {"fail", "fail_a7"} => Fresh /\ spoilt /\ hart.gp >= 2
  /\ hart.pc[1] \in {"pass_a0", "fail_a0"} =>
       hart.pc = At(hart.pc[1]) /\ test_count = 0 /\ Deserved
  /\ hart.pc[1] = "ecall" => test_count > 0 /\ Deserved
  /\ hart.pc[1] = "write_tohost" => Fresh /\ spoilt /\ hart.gp % 2 = 1 /\ hart.gp > 2

\* When the third cycle with a magic number has passed, the test has ended.
Reporting == test_count = 3 /\ Deserved /\ hart.pc[1] \notin {"boot", "case", "check"}

Flow == Prepared /\ (Reporting \/ (test_count < 3 /\ Booting /\ InCase /\ InTrap /\ AtEnd))

\* tohost holds nothing but the number of a test that went wrong; the other watched word
\* is no verdict from where the testbench watches it.
WordsAreHonest ==
  /\ word[test.tohost] # 0 => spoilt /\ word[test.tohost] # 1
  /\ \A w \in Words \ {test.tohost} :
       /\ word[w] \in test.stores \cup {test.first}
       /\ armed[w] => 0 \in test.stores \cup {test.first}
       /\ armed[w] \/ word[w] = 0 => word[w] % 2 = 0

\* Together they are inductive.
EnvInv ==
  /\ EnvTypes
  /\ Flow
  /\ test_count = 3 => verdict # Silent
  /\ WordsAreHonest
  /\ VerdictIsRight

LEMMA LevelFacts == PrvU \in Prv /\ PrvS \in Prv /\ PrvM \in Prv /\ PrvU # PrvM /\ PrvS # PrvM /\ PrvU # PrvS
  BY DEF PrvU, PrvS, PrvM, Prv

LEMMA CauseFacts ==
  /\ CoreCause.misaligned_fetch = 0 /\ CoreCause.illegal_instruction = 2
  /\ CoreCause.misaligned_load = 4 /\ CoreCause.misaligned_store = 6
  /\ CoreCause.user_ecall = 8 /\ CoreCause.supervisor_ecall = 9 /\ CoreCause.machine_ecall = 11
  /\ EncodedCause.user_ecall = 8 /\ EncodedCause.supervisor_ecall = 9 /\ EncodedCause.machine_ecall = 11
  BY DEF CoreCause, EncodedCause

LEMMA DelegatedAreNumbers == DelegatedCauses \in SUBSET Nat /\ Delegated \in SUBSET Nat
  BY DEF DelegatedCauses, Delegated, EncodedCause

\* How the testbench counts.
LEMMA CountsMagic ==
  ASSUME EnvInv, verdict = Silent, Watch
  PROVE  /\ test_count \in 0 .. 2 /\ test' = test /\ absent' = absent
         /\ Booting /\ InCase /\ InTrap /\ AtEnd /\ Prepared
         /\ Fresh => test_count' = 0
         /\ Deserved => test_count' = test_count + 1
<1>1. test_count \in 0 .. 3 /\ test_count # 3
  BY DEF EnvInv, EnvTypes
<1> QED
  BY <1>1 DEF EnvInv, Flow, Reporting, Watch, Fresh, Deserved, PASS_MAGIC, FAIL_MAGIC

\* What a step of the program makes of the hart.
Kept == hart' \in HartType /\ Flow' /\ spoilt' \in BOOLEAN /\ complete' \in BOOLEAN /\ (spoilt => spoilt')

\* The parts of a hart.
LEMMA HartFields ==
  ASSUME NEW h \in HartType
  PROVE  /\ h.pc \in EnvLabels \X Nat /\ h.pc[1] \in EnvLabels /\ h.pc[2] \in Nat
         /\ h.gp \in Nat /\ h.a7 \in Nat /\ h.a0 \in Nat
         /\ h.priv \in Prv /\ h.mpp \in Prv
         /\ h.mtvec \in EnvLabels \X Nat /\ h.stvec \in EnvLabels \X Nat /\ h.medeleg \in SUBSET Nat
         /\ h.mcause \in Nat /\ h.scause \in Nat
         /\ h.mepc \in EnvLabels \X Nat /\ h.mepc[1] \in EnvLabels /\ h.mepc[2] \in Nat
  BY DEF HartType

LEMMA Labelled ==
  ASSUME NEW l \in EnvLabels, NEW n \in Nat
  PROVE  <<l, n>> \in EnvLabels \X Nat /\ <<l, n>>[1] = l /\ <<l, n>>[2] = n
  OBVIOUS

LEMMA LabelledAt ==
  ASSUME NEW l \in EnvLabels
  PROVE  At(l) \in EnvLabels \X Nat /\ At(l)[1] = l
  BY Labelled DEF At

\* A jump changes nothing but the program counter.
LEMMA Jump ==
  ASSUME NEW h \in HartType, NEW place \in EnvLabels \X Nat, NEW g, g = [h EXCEPT !.pc = place]
  PROVE  /\ g \in HartType /\ g.pc = place
         /\ g.gp = h.gp /\ g.a7 = h.a7 /\ g.priv = h.priv /\ g.mpp = h.mpp
         /\ g.mtvec = h.mtvec /\ g.stvec = h.stvec /\ g.medeleg = h.medeleg
         /\ g.mcause = h.mcause /\ g.scause = h.scause /\ g.mepc = h.mepc
  BY DEF HartType

\* A trap goes to one of the two vectors.
LEMMA Trapped ==
  ASSUME NEW h \in HartType, NEW c \in Nat, NEW g, g = Trap(h, c)
  PROVE  /\ g \in HartType /\ g.gp = h.gp /\ g.a7 = h.a7
         /\ g.mtvec = h.mtvec /\ g.stvec = h.stvec /\ g.medeleg = h.medeleg
         /\ \/ h.priv # PrvM /\ c \in h.medeleg /\ g.pc = h.stvec /\ g.scause = c
            \/ /\ ~(h.priv # PrvM /\ c \in h.medeleg)
               /\ g.pc = h.mtvec /\ g.mcause = c /\ g.mepc = h.pc /\ g.mpp = h.priv /\ g.priv = PrvM
<1>1. CASE h.priv # PrvM /\ c \in h.medeleg
  BY <1>1, LevelFacts DEF HartType, Trap
<1>2. CASE ~(h.priv # PrvM /\ c \in h.medeleg)
  BY <1>2, LevelFacts DEF HartType, Trap
<1> QED
  BY <1>1, <1>2

LEMMA UnchangedTest == ASSUME test' = test PROVE Delegated' = Delegated /\ Delegations' = Delegations
  BY DEF Delegated, Delegations

\* The state of the trap vectors and of the test outlast every step behind the boot code.
LEMMA StaysPrepared ==
  ASSUME Prepared, test' = test, hart.pc[1] # "boot",
         hart'.mtvec = hart.mtvec, hart'.stvec = hart.stvec, hart'.medeleg = hart.medeleg
  PROVE  Prepared'
  BY UnchangedTest DEF Prepared

\* The third cycle with a magic number in a7.
LEMMA Third ==
  ASSUME EnvInv, verdict = Silent, Watch, test_count = 2, Deserved,
         hart'.a7 = hart.a7, spoilt' = spoilt, complete' = complete,
         hart'.pc[1] \notin {"boot", "case", "check"}
  PROVE  Reporting'
  BY CountsMagic DEF Deserved, Reporting

\* A case, or the drop to user mode, ends in a case, in the failure or behind the last one.
LEMMA KeepsCases ==
  ASSUME EnvInv, verdict = Silent, Watch,
         StartCase \/ CaseHolds \/ CaseFails \/ DropToUser
  PROVE  Kept
<1>1. hart \in HartType /\ spoilt \in BOOLEAN /\ complete \in BOOLEAN
  BY DEF EnvInv, EnvTypes
<1>2. Cases \in Nat \ {0, 1}
  BY EnvAssumption
<1>3. hart.pc[1] \in {"case", "check"}
  BY DEF StartCase, CaseHolds, CaseFails, DropToUser
<1>4. /\ Fresh /\ spoilt = FALSE /\ LevelOf(hart.priv, hart.pc[2])
      /\ hart.pc[1] = "check" => hart.gp = hart.pc[2]
  BY <1>1, <1>3, CountsMagic DEF InCase
<1>5. hart.pc[2] \in Nat /\ hart.gp \in Nat /\ hart.pc[2] >= 2 /\ hart.pc[2] <= Cases
  BY <1>1, <1>2, <1>4, HartFields DEF LevelOf
<1>6. test_count' = 0 /\ test' = test /\ complete' = complete
  BY <1>4, CountsMagic DEF StartCase, CaseHolds, CaseFails, DropToUser, NoEvent
<1>7. CASE StartCase
  <2>1. hart.pc[1] = "case" /\ hart' = [hart EXCEPT !.gp = hart.pc[2], !.pc = <<"check", hart.pc[2]>>]
        /\ spoilt' = spoilt
    BY <1>7 DEF StartCase, NoEvent
  <2>2. "check" \in EnvLabels
    BY DEF EnvLabels
  <2>3. /\ hart' \in HartType /\ hart'.pc[1] = "check" /\ hart'.pc[2] = hart.pc[2] /\ hart'.gp = hart.pc[2]
        /\ hart'.a7 = hart.a7 /\ hart'.priv = hart.priv
        /\ hart'.mtvec = hart.mtvec /\ hart'.stvec = hart.stvec /\ hart'.medeleg = hart.medeleg
    <3> DEFINE n == hart.pc[2]
               place == <<"check", n>>
    <3>1. n \in Nat /\ place \in EnvLabels \X Nat /\ place[1] = "check" /\ place[2] = hart.pc[2]
      BY <1>5, <2>2, Labelled
    <3>2. hart' = [hart EXCEPT !.gp = n, !.pc = place]
      BY <2>1
    <3> HIDE DEF place, n
    <3>3. /\ hart' \in HartType /\ hart'.pc = place /\ hart'.gp = n
          /\ hart'.a7 = hart.a7 /\ hart'.priv = hart.priv
          /\ hart'.mtvec = hart.mtvec /\ hart'.stvec = hart.stvec /\ hart'.medeleg = hart.medeleg
      BY <1>1, <3>1, <3>2 DEF HartType
    <3> QED
      BY <3>1, <3>3 DEF n
  <2>4. Prepared'
    BY <2>1, <2>3, CountsMagic, StaysPrepared
  <2>5. InCase'
    BY <1>4, <1>6, <2>1, <2>3 DEF InCase, LevelOf, Fresh
  <2>6. Booting' /\ InTrap' /\ AtEnd'
    BY <2>3 DEF Booting, InTrap, AtEnd, At
  <2> QED
    BY <1>1, <1>4, <1>6, <2>1, <2>3, <2>4, <2>5, <2>6 DEF Kept, Flow
<1>8. CASE CaseHolds
  <2> DEFINE place == AfterCase(hart.pc[2])
  <2>1. hart.pc[1] = "check" /\ hart' = [hart EXCEPT !.pc = place] /\ spoilt' = spoilt
    BY <1>8 DEF CaseHolds, NoEvent
  <2>2. /\ place \in EnvLabels \X Nat
        /\ \/ hart.pc[2] < Cases /\ place[1] = "case" /\ place[2] = hart.pc[2] + 1
           \/ place[1] = "passfail"
    <3>1. "case" \in EnvLabels /\ "passfail" \in EnvLabels
      BY DEF EnvLabels
    <3> QED
      BY <1>2, <1>5, <3>1, Labelled, LabelledAt DEF AfterCase
  <2> HIDE DEF place
  <2>3. /\ hart' \in HartType /\ hart'.pc = place /\ hart'.gp = hart.gp
        /\ hart'.a7 = hart.a7 /\ hart'.priv = hart.priv
        /\ hart'.mtvec = hart.mtvec /\ hart'.stvec = hart.stvec /\ hart'.medeleg = hart.medeleg
    BY <1>1, <2>1, <2>2, Jump
  <2>4. Prepared'
    BY <2>1, <2>3, CountsMagic, StaysPrepared
  <2>5. InCase' /\ AtEnd'
    BY <1>2, <1>4, <1>5, <1>6, <2>1, <2>2, <2>3 DEF InCase, AtEnd, LevelOf, Fresh, At
  <2>6. Booting' /\ InTrap'
    BY <2>2, <2>3 DEF Booting, InTrap
  <2> QED
    BY <1>1, <1>4, <1>6, <2>1, <2>3, <2>4, <2>5, <2>6 DEF Kept, Flow
<1>9. CASE CaseFails
  <2>1. hart.pc[1] = "check" /\ hart' = [hart EXCEPT !.pc = At("fail")] /\ spoilt' = TRUE
    BY <1>9 DEF CaseFails, Goto
  <2>2. At("fail") \in EnvLabels \X Nat /\ At("fail")[1] = "fail"
    BY LabelledAt DEF EnvLabels
  <2>3. /\ hart' \in HartType /\ hart'.pc[1] = "fail" /\ hart'.gp = hart.gp
        /\ hart'.a7 = hart.a7
        /\ hart'.mtvec = hart.mtvec /\ hart'.stvec = hart.stvec /\ hart'.medeleg = hart.medeleg
    BY <1>1, <2>1, <2>2, Jump
  <2>4. Prepared'
    BY <2>1, <2>3, CountsMagic, StaysPrepared
  <2>5. InCase' /\ Booting' /\ InTrap' /\ AtEnd'
    BY <1>4, <1>5, <1>6, <2>1, <2>3 DEF Booting, InCase, InTrap, AtEnd, Fresh, At
  <2> QED
    BY <1>1, <1>6, <2>1, <2>3, <2>4, <2>5 DEF Kept, Flow
<1>10. CASE DropToUser
  <2>1. hart.pc = <<"case", Cases>> /\ hart' = [hart EXCEPT !.priv = PrvU] /\ spoilt' = spoilt
    BY <1>10 DEF DropToUser, NoEvent
  <2>2. /\ hart' \in HartType /\ hart'.pc = hart.pc /\ hart'.gp = hart.gp
        /\ hart'.a7 = hart.a7 /\ hart'.priv = PrvU
        /\ hart'.mtvec = hart.mtvec /\ hart'.stvec = hart.stvec /\ hart'.medeleg = hart.medeleg
    BY <1>1, <2>1, LevelFacts DEF HartType
  <2>3. hart'.pc[1] = "case" /\ hart'.pc[2] = Cases
    BY <2>1, <2>2
  <2>4. Prepared'
    BY <1>3, <2>2, CountsMagic, StaysPrepared
  <2>5. InCase' /\ Booting' /\ InTrap' /\ AtEnd'
    BY <1>2, <1>4, <1>6, <2>1, <2>2, <2>3 DEF Booting, InCase, InTrap, AtEnd, Fresh, LevelOf, At
  <2> QED
    BY <1>1, <1>6, <2>1, <2>2, <2>4, <2>5 DEF Kept, Flow
<1> QED
  BY <1>7, <1>8, <1>9, <1>10

\* A trap of a case reaches the trap vector, or the supervisor handler and spoils the test.
LEMMA KeepsTraps ==
  ASSUME EnvInv, verdict = Silent, Watch, CaseTraps
  PROVE  Kept
<1>1. hart \in HartType /\ spoilt \in BOOLEAN /\ complete \in BOOLEAN /\ test \in Tests
  BY DEF EnvInv, EnvTypes
<1>2. Cases \in Nat \ {0, 1}
  BY EnvAssumption
<1>3. hart.pc[1] = "check" /\ complete' = complete
  BY DEF CaseTraps
<1>4. Fresh /\ spoilt = FALSE /\ LevelOf(hart.priv, hart.pc[2]) /\ hart.gp = hart.pc[2]
  BY <1>1, <1>3, CountsMagic DEF InCase
<1>5. hart.gp \in Nat /\ hart.gp >= 2
  BY <1>1, <1>2, <1>4, HartFields DEF LevelOf
<1>6. test_count' = 0 /\ test' = test
  BY <1>4, CountsMagic
<1>7. PICK c \in {0, 2, 4, 6} : hart' = Trap(hart, c) /\ spoilt' = (spoilt \/ ~Expected(c))
  BY CauseFacts DEF CaseTraps
<1>8. /\ hart' \in HartType /\ hart'.gp = hart.gp /\ hart'.a7 = hart.a7
      /\ hart'.mtvec = hart.mtvec /\ hart'.stvec = hart.stvec /\ hart'.medeleg = hart.medeleg
      /\ \/ hart.priv # PrvM /\ c \in hart.medeleg /\ hart'.pc = hart.stvec /\ hart'.scause = c
         \/ hart'.pc = hart.mtvec /\ hart'.mcause = c /\ hart'.mepc = hart.pc /\ hart'.mpp = hart.priv
  BY <1>1, <1>7, Trapped
<1>9. /\ hart.mtvec = At("trap_vector") /\ hart.medeleg = Delegated
      /\ test.handler = "stvec_handler" => hart.stvec = At("stvec_handler")
  BY <1>3, CountsMagic DEF Prepared
<1>10. Prepared'
  BY <1>3, <1>6, <1>8, CountsMagic, StaysPrepared
<1>11. CASE c \in hart.medeleg /\ hart'.pc = hart.stvec /\ hart'.scause = c
  <2>1. test.handler = "stvec_handler" /\ hart'.pc = At("stvec_handler")
    BY <1>9, <1>11 DEF Delegated
  <2>2. spoilt' = TRUE
    BY <1>7, <2>1 DEF Expected
  <2>3. hart'.pc[1] = "stvec_handler" /\ hart'.scause # 8
    BY <1>7, <1>11, <2>1 DEF At
  <2>4. Booting' /\ InCase' /\ InTrap' /\ AtEnd'
    BY <1>4, <1>5, <1>6, <1>8, <2>2, <2>3 DEF Booting, InCase, InTrap, AtEnd, Fresh, At
  <2> QED
    BY <1>1, <1>3, <1>6, <1>8, <1>10, <2>2, <2>4 DEF Kept, Flow
<1>12. CASE hart'.pc = hart.mtvec /\ hart'.mcause = c /\ hart'.mepc = hart.pc /\ hart'.mpp = hart.priv
  <2>1. hart'.pc[1] = "trap_vector"
    BY <1>9, <1>12 DEF At
  <2>2. spoilt' = ~Expected(c) /\ Expected(c)' = Expected(c)
    BY <1>4, <1>6, <1>7 DEF Expected
  <2>3. TrapOfCase'
    BY <1>4, <1>5, <1>6, <1>7, <1>8, <1>12, <2>2 DEF TrapOfCase, Fresh, LevelOf, Expected
  <2>4. Booting' /\ InCase' /\ InTrap' /\ AtEnd'
    BY <2>1, <2>3, <1>12, <1>9 DEF Booting, InCase, InTrap, AtEnd, At
  <2>5. spoilt' \in BOOLEAN
    BY <2>2 DEF Expected
  <2> QED
    BY <1>1, <1>3, <1>4, <1>6, <1>8, <1>10, <2>4, <2>5 DEF Kept, Flow
<1> QED
  BY <1>8, <1>11, <1>12

\* Where a case leads that holds.
LEMMA NextCase ==
  ASSUME NEW n \in 2 .. Cases
  PROVE  /\ AfterCase(n) \in EnvLabels \X Nat
         /\ \/ n < Cases /\ AfterCase(n)[1] = "case" /\ AfterCase(n)[2] = n + 1
            \/ AfterCase(n)[1] = "passfail"
<1>1. "case" \in EnvLabels /\ "passfail" \in EnvLabels
  BY DEF EnvLabels
<1>2. Cases \in Nat \ {0, 1} /\ n \in Nat
  BY EnvAssumption
<1> QED
  BY <1>1, <1>2, Labelled, LabelledAt DEF AfterCase

\* The machine handler goes on with the next case if the trap is the expected one.
LEMMA KeepsHandler ==
  ASSUME EnvInv, verdict = Silent, Watch, mtvec_handler
  PROVE  Kept
<1>1. hart \in HartType /\ spoilt \in BOOLEAN /\ complete \in BOOLEAN /\ test \in Tests
  BY DEF EnvInv, EnvTypes
<1>2. Cases \in Nat \ {0, 1}
  BY EnvAssumption
<1>3. hart.pc[1] = "mtvec_handler" /\ complete' = complete /\ spoilt' = spoilt
  BY DEF mtvec_handler, NoEvent, At
<1>4. /\ Fresh /\ hart.gp >= 2 /\ LevelOf(hart.mpp, hart.mepc[2])
      /\ spoilt = ~(hart.mcause = test.expects)
  BY <1>3, CountsMagic DEF InTrap, TrapOfCase, Expected
<1>5. hart.gp \in Nat /\ hart.mepc[2] \in 2 .. Cases
  BY <1>1, <1>4, HartFields DEF LevelOf
<1>6. test_count' = 0 /\ test' = test
  BY <1>4, CountsMagic
<1>7. CASE hart.mcause = test.expects
  <2> DEFINE place == AfterCase(hart.mepc[2])
  <2>1. hart' = [Mret(hart) EXCEPT !.pc = place]
    BY <1>7 DEF mtvec_handler
  <2>2. /\ place \in EnvLabels \X Nat
        /\ \/ hart.mepc[2] < Cases /\ place[1] = "case" /\ place[2] = hart.mepc[2] + 1
           \/ place[1] = "passfail"
    BY <1>5, NextCase
  <2> HIDE DEF place
  <2>3. /\ hart' \in HartType /\ hart'.pc = place /\ hart'.gp = hart.gp
        /\ hart'.a7 = hart.a7 /\ hart'.priv = hart.mpp
        /\ hart'.mtvec = hart.mtvec /\ hart'.stvec = hart.stvec /\ hart'.medeleg = hart.medeleg
    BY <1>1, <2>1, <2>2, LevelFacts DEF HartType, Mret
  <2>4. Prepared'
    BY <1>3, <1>6, <2>3, CountsMagic, StaysPrepared
  <2>5. InCase' /\ AtEnd'
    <3>1. spoilt' = FALSE
      BY <1>1, <1>3, <1>4, <1>7
    <3> QED
      BY <1>2, <1>4, <1>5, <1>6, <2>2, <2>3, <3>1 DEF InCase, AtEnd, LevelOf, Fresh, At
  <2>6. Booting' /\ InTrap'
    BY <2>2, <2>3 DEF Booting, InTrap
  <2> QED
    BY <1>1, <1>3, <1>6, <2>3, <2>4, <2>5, <2>6 DEF Kept, Flow
<1>8. CASE hart.mcause # test.expects
  <2>1. hart' = [hart EXCEPT !.pc = At("fail")]
    BY <1>8 DEF mtvec_handler
  <2>2. At("fail") \in EnvLabels \X Nat /\ At("fail")[1] = "fail"
    BY LabelledAt DEF EnvLabels
  <2>3. /\ hart' \in HartType /\ hart'.pc[1] = "fail" /\ hart'.gp = hart.gp
        /\ hart'.a7 = hart.a7
        /\ hart'.mtvec = hart.mtvec /\ hart'.stvec = hart.stvec /\ hart'.medeleg = hart.medeleg
    BY <1>1, <2>1, <2>2, Jump
  <2>4. Prepared'
    BY <1>3, <1>6, <2>3, CountsMagic, StaysPrepared
  <2>5. InCase' /\ Booting' /\ InTrap' /\ AtEnd'
    <3>1. spoilt' = TRUE
      BY <1>1, <1>3, <1>4, <1>8
    <3> QED
      BY <1>4, <1>5, <1>6, <2>1, <2>3, <3>1 DEF Booting, InCase, InTrap, AtEnd, Fresh, At
  <2> QED
    BY <1>1, <1>3, <1>6, <2>3, <2>4, <2>5 DEF Kept, Flow
<1> QED
  BY <1>7, <1>8

\* The supervisor handler reports again, or fails the test that trapped into it.
LEMMA KeepsSupervisor ==
  ASSUME EnvInv, verdict = Silent, Watch, stvec_handler
  PROVE  Kept
<1>1. hart \in HartType /\ spoilt \in BOOLEAN /\ complete \in BOOLEAN
  BY DEF EnvInv, EnvTypes
<1>2. hart.pc[1] = "stvec_handler" /\ complete' = complete /\ spoilt' = spoilt /\ test' = test
  BY CountsMagic DEF stvec_handler, NoEvent, At
<1> DEFINE l == IF hart.scause = EncodedCause.user_ecall THEN "pass" ELSE "fail"
<1>3. hart' = [hart EXCEPT !.pc = At(l)]
  BY DEF stvec_handler, Goto
<1>4. l \in EnvLabels /\ l \in {"pass", "fail"} /\ (hart.scause # 8 => l = "fail")
  BY CauseFacts DEF EnvLabels
<1> HIDE DEF l
<1>5. /\ hart' \in HartType /\ hart'.pc[1] = l /\ hart'.gp = hart.gp /\ hart'.a7 = hart.a7
      /\ hart'.mtvec = hart.mtvec /\ hart'.stvec = hart.stvec /\ hart'.medeleg = hart.medeleg
  BY <1>1, <1>3, <1>4, LabelledAt, Jump
<1>6. Prepared'
  BY <1>2, <1>5, CountsMagic, StaysPrepared
<1>7. CASE test_count = 2 /\ Deserved
  <2>1. Reporting'
    BY <1>2, <1>4, <1>5, <1>7, Third
  <2> QED
    BY <1>1, <1>2, <1>5, <1>6, <2>1 DEF Kept, Flow
<1>8. CASE Fresh /\ hart.gp >= 2 /\ spoilt /\ hart.scause # 8
  <2>1. hart'.pc[1] = "fail" /\ test_count' = 0
    BY <1>4, <1>5, <1>8, CountsMagic
  <2>2. hart'.pc \notin {At("pass_a0"), At("fail_a0")}
    BY <2>1 DEF At
  <2>3. InCase' /\ Booting' /\ InTrap' /\ AtEnd'
    BY <1>2, <1>5, <1>8, <2>1, <2>2 DEF Booting, InCase, InTrap, AtEnd, Fresh, At
  <2> QED
    BY <1>1, <1>2, <1>5, <1>6, <2>1, <2>3 DEF Kept, Flow
<1> QED
  BY <1>2, <1>7, <1>8, CountsMagic DEF InTrap

\* The macros at the end put into a7 what the test deserves.
LEMMA KeepsEnd ==
  ASSUME EnvInv, verdict = Silent, Watch,
         TEST_PASSFAIL \/ RVTEST_PASS \/ RVTEST_FAIL
  PROVE  Kept
<1>1. hart \in HartType /\ spoilt \in BOOLEAN /\ complete \in BOOLEAN /\ test' = test
  BY CountsMagic DEF EnvInv, EnvTypes
<1>2. hart.gp \in Nat /\ hart.a7 \in Nat /\ PASS_MAGIC \in Nat /\ FAIL_MAGIC \in Nat
  BY <1>1, HartFields DEF PASS_MAGIC, FAIL_MAGIC
<1>3. hart.pc[1] \notin {"boot", "case", "check", "ecall", "trap_vector", "mtvec_handler", "stvec_handler"}
  BY DEF TEST_PASSFAIL, RVTEST_PASS, RVTEST_FAIL, At
<1>4. spoilt' = spoilt
  BY DEF TEST_PASSFAIL, RVTEST_PASS, RVTEST_FAIL, NoEvent
<1>5. \A l \in {"pass", "fail", "pass_a7", "fail_a7", "pass_a0", "fail_a0", "ecall"} :
         At(l) \in EnvLabels \X Nat /\ At(l)[1] = l
  BY LabelledAt DEF EnvLabels
<1> DEFINE Rest ==
  hart'.mtvec = hart.mtvec /\ hart'.stvec = hart.stvec /\ hart'.medeleg = hart.medeleg
<1>6. Rest => Prepared'
  BY <1>1, <1>3, CountsMagic, StaysPrepared
<1>7. CASE TEST_PASSFAIL
  <2>1. hart.pc[1] = "passfail" /\ complete' = TRUE
    BY <1>7 DEF TEST_PASSFAIL, At
  <2>2. Fresh /\ ~spoilt /\ hart.gp >= 2
    BY <2>1, CountsMagic DEF AtEnd
  <2>3. hart' = [hart EXCEPT !.pc = At("pass")]
    BY <1>2, <1>7, <2>2 DEF TEST_PASSFAIL, Goto
  <2>4. hart' \in HartType /\ hart'.pc = At("pass") /\ hart'.a7 = hart.a7 /\ Rest
    BY <1>1, <1>5, <2>3, Jump
  <2>5. InCase' /\ Booting' /\ InTrap' /\ AtEnd' /\ test_count' = 0
    BY <1>4, <2>1, <2>2, <2>4, CountsMagic DEF Booting, InCase, InTrap, AtEnd, Fresh, At
  <2> QED
    BY <1>1, <1>4, <1>6, <2>1, <2>4, <2>5 DEF Kept, Flow
<1>8. CASE hart.pc = At("pass") /\ RVTEST_PASS
  <2>1. hart.pc[1] = "pass" /\ complete' = complete /\ hart' = [hart EXCEPT !.gp = 1, !.pc = At("pass_a7")]
    BY <1>8 DEF RVTEST_PASS, NoEvent, At
  <2>2. Fresh /\ complete /\ ~spoilt
    BY <2>1, CountsMagic DEF AtEnd
  <2>3. hart' \in HartType /\ hart'.pc = At("pass_a7") /\ hart'.a7 = hart.a7 /\ Rest
    <3>1. At("pass_a7") \in EnvLabels \X Nat
      BY <1>5
    <3> QED
      BY <1>1, <2>1, <3>1 DEF HartType
  <2>4. InCase' /\ Booting' /\ InTrap' /\ AtEnd' /\ test_count' = 0
    BY <1>4, <2>1, <2>2, <2>3, CountsMagic DEF Booting, InCase, InTrap, AtEnd, Fresh, At
  <2> QED
    BY <1>1, <1>4, <1>6, <2>1, <2>3, <2>4 DEF Kept, Flow
<1>9. CASE hart.pc = At("pass_a7") /\ RVTEST_PASS
  <2>1. hart.pc[1] = "pass_a7" /\ complete' = complete
        /\ hart' = [hart EXCEPT !.a7 = PASS_MAGIC, !.pc = At("pass_a0")]
    BY <1>9 DEF RVTEST_PASS, NoEvent, At
  <2>2. Fresh /\ complete /\ ~spoilt
    BY <2>1, CountsMagic DEF AtEnd
  <2>3. hart' \in HartType /\ hart'.pc = At("pass_a0") /\ hart'.a7 = PASS_MAGIC /\ Rest
    <3>1. At("pass_a0") \in EnvLabels \X Nat
      BY <1>5
    <3> QED
      BY <1>1, <1>2, <2>1, <3>1 DEF HartType
  <2>4. InCase' /\ Booting' /\ InTrap' /\ AtEnd' /\ test_count' = 0
    BY <1>4, <2>1, <2>2, <2>3, CountsMagic DEF Booting, InCase, InTrap, AtEnd, Fresh, Deserved, At
  <2> QED
    BY <1>1, <1>4, <1>6, <2>1, <2>3, <2>4 DEF Kept, Flow
<1>10. CASE hart.pc = At("fail") /\ RVTEST_FAIL
  <2>1. hart.pc[1] = "fail" /\ complete' = complete
    BY <1>10 DEF RVTEST_FAIL, NoEvent, At
  <2>2. Fresh /\ spoilt /\ hart.gp >= 2
    BY <2>1, CountsMagic DEF AtEnd
  <2>3. hart' = [hart EXCEPT !.gp = 2 * hart.gp + 1, !.pc = At("fail_a7")]
    BY <1>2, <1>10, <2>2 DEF RVTEST_FAIL, At
  <2> DEFINE n == 2 * hart.gp + 1
  <2>4. n \in Nat /\ n >= 2
    BY <1>2, <2>2
  <2> HIDE DEF n
  <2>5. hart' \in HartType /\ hart'.pc = At("fail_a7") /\ hart'.gp = n /\ hart'.a7 = hart.a7 /\ Rest
    <3>1. hart' = [hart EXCEPT !.gp = n, !.pc = At("fail_a7")]
      BY <2>3 DEF n
    <3> QED
      <4>1. At("fail_a7") \in EnvLabels \X Nat
        BY <1>5
      <4> QED
        BY <1>1, <2>4, <3>1, <4>1 DEF HartType
  <2>6. InCase' /\ Booting' /\ InTrap' /\ AtEnd' /\ test_count' = 0
    BY <1>4, <2>1, <2>2, <2>4, <2>5, CountsMagic DEF Booting, InCase, InTrap, AtEnd, Fresh, At
  <2> QED
    BY <1>1, <1>4, <1>6, <2>1, <2>5, <2>6 DEF Kept, Flow
<1>11. CASE hart.pc = At("fail_a7") /\ RVTEST_FAIL
  <2>1. hart.pc[1] = "fail_a7" /\ complete' = complete
        /\ hart' = [hart EXCEPT !.a7 = FAIL_MAGIC, !.pc = At("fail_a0")]
    BY <1>11 DEF RVTEST_FAIL, NoEvent, At
  <2>2. Fresh /\ spoilt
    BY <2>1, CountsMagic DEF AtEnd
  <2>3. hart' \in HartType /\ hart'.pc = At("fail_a0") /\ hart'.a7 = FAIL_MAGIC /\ Rest
    <3>1. At("fail_a0") \in EnvLabels \X Nat
      BY <1>5
    <3> QED
      BY <1>1, <1>2, <2>1, <3>1 DEF HartType
  <2>4. InCase' /\ Booting' /\ InTrap' /\ AtEnd' /\ test_count' = 0
    BY <1>4, <2>1, <2>2, <2>3, CountsMagic DEF Booting, InCase, InTrap, AtEnd, Fresh, Deserved, At
  <2> QED
    BY <1>1, <1>4, <1>6, <2>1, <2>3, <2>4 DEF Kept, Flow
<1>12. CASE (hart.pc = At("pass_a0") /\ RVTEST_PASS) \/ (hart.pc = At("fail_a0") /\ RVTEST_FAIL)
  <2> DEFINE n == IF hart.pc = At("pass_a0") THEN 0 ELSE hart.gp
  <2>1. complete' = complete /\ hart' = [hart EXCEPT !.a0 = n, !.pc = At("ecall")]
    <3>1. CASE hart.pc = At("pass_a0") /\ RVTEST_PASS
      BY <3>1 DEF RVTEST_PASS, NoEvent, At
    <3>2. CASE hart.pc = At("fail_a0") /\ RVTEST_FAIL
      BY <3>2 DEF RVTEST_FAIL, NoEvent, At
    <3> QED
      BY <1>12, <3>1, <3>2
  <2>2. test_count = 0 /\ Deserved
    <3>1. hart.pc[1] \in {"pass_a0", "fail_a0"}
      BY <1>12 DEF At
    <3> QED
      BY <3>1, CountsMagic DEF AtEnd
  <2>3. n \in Nat
    BY <1>2
  <2> HIDE DEF n
  <2>4. hart' \in HartType /\ hart'.pc = At("ecall") /\ hart'.a7 = hart.a7 /\ Rest
    <3>1. At("ecall") \in EnvLabels \X Nat
      BY <1>5
    <3> QED
      BY <1>1, <2>1, <2>3, <3>1 DEF HartType
  <2>5. test_count' = 1 /\ Deserved'
    BY <1>4, <2>1, <2>2, <2>4, CountsMagic DEF Deserved
  <2>6. InCase' /\ Booting' /\ InTrap' /\ AtEnd'
    BY <2>4, <2>5 DEF Booting, InCase, InTrap, AtEnd, At
  <2> QED
    BY <1>1, <1>4, <1>6, <2>1, <2>4, <2>5, <2>6 DEF Kept, Flow
<1> QED
  BY <1>7, <1>8, <1>9, <1>10, <1>11, <1>12 DEF RVTEST_PASS, RVTEST_FAIL

\* The bits that other_exception sets make the number odd.
LEMMA OddNumber ==
  ASSUME NEW gp \in Nat, gp >= 2
  PROVE  other_exception(gp) \in Nat /\ other_exception(gp) % 2 = 1 /\ other_exception(gp) > 2
<1>1. lacking(gp, 1) \in Nat /\ (gp + lacking(gp, 1)) % 2 = 1
  BY DEF lacking
<1>2. \A w \in {8, 16, 32, 256, 1024} : lacking(gp, w) \in {0, w}
  BY DEF lacking
<1> DEFINE a == gp + lacking(gp, 1)
           b == lacking(gp, 8)
           c == lacking(gp, 16)
           d == lacking(gp, 32)
           e == lacking(gp, 256)
           f == lacking(gp, 1024)
<1>3. /\ a \in Nat /\ a >= 2 /\ a % 2 = 1
      /\ b \in {0, 8} /\ c \in {0, 16} /\ d \in {0, 32} /\ e \in {0, 256} /\ f \in {0, 1024}
  BY <1>1, <1>2
<1>4. other_exception(gp) = a + b + c + d + e + f
  BY DEF other_exception
<1> HIDE DEF a, b, c, d, e, f
<1> QED
  BY <1>3, <1>4

\* The ecall of the report: the counter runs while a7 stands.
LEMMA KeepsEcall ==
  ASSUME EnvInv, verdict = Silent, Watch, Ecall
  PROVE  Kept
<1>1. hart \in HartType /\ spoilt \in BOOLEAN /\ complete \in BOOLEAN
  BY DEF EnvInv, EnvTypes
<1>2. hart.pc[1] = "ecall" /\ complete' = complete /\ spoilt' = spoilt /\ test' = test
  BY CountsMagic DEF Ecall, NoEvent, At
<1>3. test_count \in 1 .. 2 /\ Deserved
  BY <1>2, CountsMagic DEF AtEnd
<1> DEFINE c == CASE hart.priv = PrvU -> CoreCause.user_ecall
                  [] hart.priv = PrvS -> CoreCause.supervisor_ecall
                  [] OTHER            -> CoreCause.machine_ecall
<1>4. hart' = Trap(hart, c)
  BY DEF Ecall, ecall
<1>5. c \in Nat
  BY CauseFacts
<1> HIDE DEF c
<1>6. /\ hart' \in HartType /\ hart'.gp = hart.gp /\ hart'.a7 = hart.a7
      /\ hart'.mtvec = hart.mtvec /\ hart'.stvec = hart.stvec /\ hart'.medeleg = hart.medeleg
      /\ (c \in hart.medeleg /\ hart'.pc = hart.stvec) \/ hart'.pc = hart.mtvec
  BY <1>1, <1>4, <1>5, Trapped
<1>7. Prepared /\ Prepared'
  BY <1>2, <1>6, CountsMagic, StaysPrepared
<1>8. hart'.pc[1] \in {"trap_vector", "stvec_handler"}
  <2>1. hart.mtvec = At("trap_vector") /\ (c \in hart.medeleg => hart.stvec = At("stvec_handler"))
    BY <1>2, <1>7 DEF Prepared, Delegated
  <2> QED
    BY <1>6, <2>1 DEF At
<1>9. test_count' = test_count + 1 /\ Deserved'
  BY <1>2, <1>3, <1>6, CountsMagic DEF Deserved
<1>10. CASE test_count = 2
  <2>1. Reporting'
    BY <1>2, <1>3, <1>6, <1>8, <1>10, Third
  <2> QED
    BY <1>1, <1>2, <1>6, <1>7, <2>1 DEF Kept, Flow
<1>11. CASE test_count = 1
  <2>1. test_count' = 2
    BY <1>9, <1>11
  <2>2. Booting' /\ InCase' /\ InTrap' /\ AtEnd'
    BY <1>8, <1>9, <2>1 DEF Booting, InCase, InTrap, AtEnd, At
  <2> QED
    BY <1>1, <1>2, <1>6, <1>7, <2>1, <2>2 DEF Kept, Flow
<1> QED
  BY <1>3, <1>10, <1>11

\* The trap vector: an ecall has been counted already, any other trap is a case's.
LEMMA KeepsVector ==
  ASSUME EnvInv, verdict = Silent, Watch, trap_vector
  PROVE  Kept
<1>1. hart \in HartType /\ spoilt \in BOOLEAN /\ complete \in BOOLEAN
  BY DEF EnvInv, EnvTypes
<1>2. hart.pc[1] = "trap_vector" /\ complete' = complete /\ spoilt' = spoilt /\ test' = test
  BY CountsMagic DEF trap_vector, NoEvent, At
<1>3. \A l \in {"write_tohost", "mtvec_handler"} : At(l) \in EnvLabels \X Nat /\ At(l)[1] = l
  BY LabelledAt DEF EnvLabels
<1> DEFINE Rest ==
  hart'.mtvec = hart.mtvec /\ hart'.stvec = hart.stvec /\ hart'.medeleg = hart.medeleg
           n == other_exception(hart.gp)
           called == \E c \in {"user_ecall", "supervisor_ecall", "machine_ecall"} : hart.mcause = EncodedCause[c]
<1>4. n \in Nat /\ (hart.gp >= 2 => n % 2 = 1 /\ n > 2)
  <2>1. hart.gp \in Nat
    BY <1>1, HartFields
  <2>2. \A w \in {1, 8, 16, 32, 256, 1024} : lacking(hart.gp, w) \in Nat
    BY DEF lacking
  <2>3. n \in Nat
    BY <2>1, <2>2 DEF other_exception
  <2> QED
    BY <2>1, <2>3, OddNumber
<1>5. called <=> hart.mcause \in {8, 9, 11}
  BY CauseFacts
<1>6. hart' = IF called THEN [hart EXCEPT !.pc = At("write_tohost")]
              ELSE IF test.handler = "mtvec_handler" THEN [hart EXCEPT !.pc = At("mtvec_handler")]
              ELSE [hart EXCEPT !.gp = n, !.pc = At("write_tohost")]
  BY DEF trap_vector
<1> HIDE DEF n, called
<1>7. \/ called /\ hart' = [hart EXCEPT !.pc = At("write_tohost")]
      \/ test.handler = "mtvec_handler" /\ hart' = [hart EXCEPT !.pc = At("mtvec_handler")]
      \/ /\ ~called /\ test.handler # "mtvec_handler"
         /\ hart' = [hart EXCEPT !.gp = n, !.pc = At("write_tohost")]
  BY <1>6
<1>8. CASE called /\ hart' = [hart EXCEPT !.pc = At("write_tohost")]
  <2>1. hart' \in HartType /\ hart'.pc = At("write_tohost") /\ hart'.a7 = hart.a7 /\ Rest
    BY <1>1, <1>3, <1>8, Jump
  <2>2. test_count = 2 /\ Deserved
    BY <1>2, <1>5, <1>8, CountsMagic DEF InTrap, TrapOfCase
  <2>3. Reporting'
    BY <1>2, <2>1, <2>2, Third DEF At
  <2>4. Prepared'
    BY <1>2, <2>1, CountsMagic, StaysPrepared
  <2> QED
    BY <1>1, <1>2, <2>1, <2>3, <2>4 DEF Kept, Flow
<1>9. CASE test.handler = "mtvec_handler" /\ hart' = [hart EXCEPT !.pc = At("mtvec_handler")]
  <2>1. /\ hart' \in HartType /\ hart'.pc = At("mtvec_handler") /\ hart'.gp = hart.gp /\ hart'.a7 = hart.a7
        /\ hart'.mpp = hart.mpp /\ hart'.mepc = hart.mepc /\ hart'.mcause = hart.mcause /\ Rest
    BY <1>1, <1>3, <1>9, Jump
  <2>2. Prepared'
    BY <1>2, <2>1, CountsMagic, StaysPrepared
  <2>3. CASE test_count = 2 /\ Deserved
    <3>1. Reporting'
      BY <1>2, <2>1, <2>3, Third DEF At
    <3> QED
      BY <1>1, <1>2, <2>1, <2>2, <3>1 DEF Kept, Flow
  <2>4. CASE TrapOfCase
    <3>1. test_count' = 0
      BY <2>4, CountsMagic DEF TrapOfCase
    <3>2. TrapOfCase'
      BY <1>2, <2>1, <2>4, <3>1 DEF TrapOfCase, Fresh, LevelOf, Expected
    <3>3. Booting' /\ InCase' /\ InTrap' /\ AtEnd'
      BY <1>2, <1>9, <2>1, <3>2 DEF Booting, InCase, InTrap, AtEnd, At
    <3> QED
      BY <1>1, <1>2, <2>1, <2>2, <3>1, <3>3 DEF Kept, Flow
  <2> QED
    BY <1>2, <2>3, <2>4, CountsMagic DEF InTrap
<1>10. CASE /\ ~called /\ test.handler # "mtvec_handler"
            /\ hart' = [hart EXCEPT !.gp = n, !.pc = At("write_tohost")]
  <2>1. hart' \in HartType /\ hart'.pc = At("write_tohost") /\ hart'.gp = n /\ hart'.a7 = hart.a7 /\ Rest
    <3>1. At("write_tohost") \in EnvLabels \X Nat
      BY <1>3
    <3> QED
      BY <1>1, <1>4, <1>10, <3>1 DEF HartType
  <2>2. Prepared'
    BY <1>2, <2>1, CountsMagic, StaysPrepared
  <2>3. CASE test_count = 2 /\ Deserved
    <3>1. Reporting'
      BY <1>2, <2>1, <2>3, Third DEF At
    <3> QED
      BY <1>1, <1>2, <2>1, <2>2, <3>1 DEF Kept, Flow
  <2>4. CASE TrapOfCase
    <3>1. test_count' = 0 /\ spoilt' = TRUE /\ Fresh' /\ n % 2 = 1 /\ n > 2
      BY <1>2, <1>4, <1>10, <2>1, <2>4, CountsMagic DEF TrapOfCase, Expected, Fresh
    <3>2. Booting' /\ InCase' /\ InTrap' /\ AtEnd'
      BY <2>1, <3>1 DEF Booting, InCase, InTrap, AtEnd, At
    <3> QED
      BY <1>1, <1>2, <2>1, <2>2, <3>1, <3>2 DEF Kept, Flow
  <2> QED
    BY <1>2, <2>3, <2>4, CountsMagic DEF InTrap
<1> QED
  BY <1>7, <1>8, <1>9, <1>10

\* Where the hart stands still, a7 is counted if it holds a magic number.
LEMMA KeepsStanding ==
  ASSUME EnvInv, verdict = Silent, Watch, write_tohost \/ Bubble
  PROVE  Kept
<1>1. hart \in HartType /\ spoilt \in BOOLEAN /\ complete \in BOOLEAN
  BY DEF EnvInv, EnvTypes
<1>2. /\ hart' = hart /\ complete' = complete /\ spoilt' = spoilt /\ test' = test
      /\ hart.pc \notin {At("pass_a0"), At("fail_a0")}
  BY CountsMagic DEF write_tohost, Bubble, NoEvent, At
<1>3. Prepared'
  BY <1>2, CountsMagic, UnchangedTest DEF Prepared
<1>4. CASE Fresh
  <2>1. test_count = 0 /\ test_count' = 0
    BY <1>4, CountsMagic DEF Fresh
  <2>2. Delegations' = Delegations /\ Delegated' = Delegated /\ reset_vector' = reset_vector
    BY <1>2, UnchangedTest DEF reset_vector, Delegation, Enable
  <2>3. Booting'
    BY <1>2, <2>1, <2>2, CountsMagic DEF Booting, Fresh
  <2>4. InCase' /\ AtEnd'
    BY <1>2, <1>4, <2>1, CountsMagic DEF InCase, AtEnd, Fresh, LevelOf
  <2>5. TrapOfCase => TrapOfCase'
    BY <1>2, <2>1 DEF TrapOfCase, Fresh, LevelOf, Expected
  <2>6. InTrap'
    BY <1>2, <1>4, <2>1, <2>5, CountsMagic DEF InTrap, Fresh
  <2> QED
    BY <1>1, <1>2, <1>3, <2>1, <2>3, <2>4, <2>6 DEF Kept, Flow
<1>5. CASE Deserved /\ hart.pc[1] \notin {"boot", "case", "check"}
  <2>1. test_count' = test_count + 1 /\ Deserved'
    BY <1>2, <1>5, CountsMagic DEF Deserved
  <2>2. CASE test_count = 2
    <3>1. Reporting'
      BY <1>2, <1>5, <2>2, Third
    <3> QED
      BY <1>1, <1>2, <1>3, <3>1 DEF Kept, Flow
  <2>3. CASE test_count < 2
    <3>1. test_count' < 3 /\ test_count' > 0
      BY <2>1, <2>3, CountsMagic
    <3>2. hart.pc[1] \notin {"passfail", "pass", "pass_a7", "fail", "fail_a7", "write_tohost",
                             "trap_vector", "mtvec_handler", "stvec_handler"}
      BY <1>5, <2>3, CountsMagic
         DEF InTrap, AtEnd, TrapOfCase, Fresh, Deserved, PASS_MAGIC, FAIL_MAGIC
    <3>3. hart.pc[1] \notin {"start", "pass_a0", "fail_a0"}
      BY <1>2, CountsMagic DEF AtEnd
    <3>4. Booting' /\ InCase' /\ InTrap' /\ AtEnd'
      BY <1>2, <1>5, <2>1, <3>1, <3>2, <3>3 DEF Booting, InCase, InTrap, AtEnd
    <3> QED
      BY <1>1, <1>2, <1>3, <3>1, <3>4 DEF Kept, Flow
  <2> QED
    BY <2>2, <2>3, CountsMagic
<1>6. CASE ~Fresh /\ ~(Deserved /\ hart.pc[1] \notin {"boot", "case", "check"})
  <2>1. hart.pc[1] \in EnvLabels
    BY <1>1, HartFields
  <2>2. hart.pc[1] \in {"pass_a0", "fail_a0"}
    BY <1>6, <2>1, CountsMagic DEF Booting, InCase, InTrap, AtEnd, TrapOfCase, EnvLabels
  <2> QED
    BY <1>2, <2>2, CountsMagic DEF AtEnd
<1> QED
  BY <1>4, <1>5, <1>6

\* The entries of the boot code: each guarded access stands behind a write of its way out.
LEMMA BootEntries ==
  /\ \A i \in {1, 3, 5, 9, 12} : Boot[i].csr = "mtvec" /\ Boot[i].value = BootVector(i + 1)
  /\ Boot[2].csr = "mnstatus" /\ Boot[4].csr = "satp" /\ Boot[6].csr = "pmpaddr0" /\ Boot[7].csr = "pmpcfg0"
  /\ Boot[8].csr = "mie" /\ Boot[10].csr = "medeleg" /\ Boot[10].value = {} /\ Boot[11].csr = "mideleg"
<1>1. /\ Boot[1] = [csr |-> "mtvec", value |-> <<"boot", 3>>]
      /\ Boot[3] = [csr |-> "mtvec", value |-> <<"boot", 5>>]
      /\ Boot[5] = [csr |-> "mtvec", value |-> <<"boot", 8>>]
      /\ Boot[9] = [csr |-> "mtvec", value |-> <<"boot", 12>>]
      /\ Boot[12] = [csr |-> "mtvec", value |-> At("trap_vector")]
  BY DEF Boot, after_pmp
<1>2. /\ BootVector(2) = <<"boot", 3>> /\ BootVector(4) = <<"boot", 5>> /\ BootVector(6) = <<"boot", 8>>
      /\ BootVector(10) = <<"boot", 12>> /\ BootVector(13) = At("trap_vector")
  BY DEF BootVector
<1>3. /\ Boot[2].csr = "mnstatus" /\ Boot[4].csr = "satp" /\ Boot[6].csr = "pmpaddr0" /\ Boot[7].csr = "pmpcfg0"
      /\ Boot[8].csr = "mie" /\ Boot[10].csr = "medeleg" /\ Boot[10].value = {} /\ Boot[11].csr = "mideleg"
  BY DEF Boot
<1>4. \A i \in {1, 3, 5, 9, 12} : Boot[i].csr = "mtvec" /\ Boot[i].value = BootVector(i + 1)
  BY <1>1, <1>2
<1> QED
  BY <1>3, <1>4

\* The trap vector between the instructions of the boot code.
LEMMA BootVectors ==
  /\ \A i \in Nat \ {0, 1} : BootVector(i) \in EnvLabels \X Nat
  /\ BootVector(2) = <<"boot", 3>> /\ BootVector(3) = <<"boot", 3>> /\ BootVector(4) = <<"boot", 5>>
  /\ BootVector(5) = <<"boot", 5>> /\ \A i \in {6, 7, 8, 9} : BootVector(i) = <<"boot", 8>>
  /\ \A i \in {10, 11, 12} : BootVector(i) = <<"boot", 12>>
  /\ \A i \in Nat : i > 12 => BootVector(i) = At("trap_vector")
<1>1. "boot" \in EnvLabels /\ At("trap_vector") \in EnvLabels \X Nat
  BY LabelledAt DEF EnvLabels
<1>2. \A k \in Nat : <<"boot", k>> \in EnvLabels \X Nat
  BY <1>1, Labelled
<1> QED
  BY <1>1, <1>2 DEF BootVector

\* The boot code arrives at its next instruction, or behind a guard.
LEMMA BootArrival ==
  ASSUME EnvInv, verdict = Silent, Watch, BootStep, hart.pc[1] = "boot",
         hart' \in HartType, NEW j \in 1 .. Len(reset_vector) + 1, hart'.pc = <<"boot", j>>,
         hart'.a7 = hart.a7, hart'.priv = PrvM,
         j > 1 => hart'.mtvec = BootVector(j),
         hart'.medeleg = IF j > 14 THEN Delegated ELSE {},
         Delegations = 2 /\ j > 13 => hart'.stvec = At("stvec_handler"),
         test.level = PrvU /\ j > 13 + Delegations => hart'.mpp = PrvU,
         j > 14 + Delegations => hart'.mpp = test.level,
         j > Len(reset_vector) => hart'.mepc = <<"case", 2>>
  PROVE  Kept
<1>1. /\ spoilt \in BOOLEAN /\ complete \in BOOLEAN
      /\ spoilt' = spoilt /\ complete' = complete /\ test' = test
  BY CountsMagic DEF EnvInv, EnvTypes, BootStep, NoEvent
<1>2. Fresh /\ ~spoilt /\ test_count' = 0
  BY CountsMagic DEF Booting
<1>3. Delegations' = Delegations /\ Delegated' = Delegated /\ reset_vector' = reset_vector
  BY <1>1, UnchangedTest DEF reset_vector, Delegation, Enable
<1>4. hart'.pc[1] = "boot" /\ hart'.pc[2] = j
  OBVIOUS
<1>5. Fresh' /\ ~spoilt'
  BY <1>1, <1>2 DEF Fresh
<1>6. Booting'
  BY <1>1, <1>3, <1>4, <1>5 DEF Booting
<1>7. Prepared' /\ InCase' /\ InTrap' /\ AtEnd'
  BY <1>4 DEF Prepared, InCase, InTrap, AtEnd
<1> QED
  BY <1>1, <1>2, <1>6, <1>7 DEF Kept, Flow

\* A trap of the boot code goes where the trap vector says.
LEMMA BootTrap ==
  ASSUME NEW h \in HartType, h.priv = PrvM, NEW g
  PROVE  g = Trap(h, 2) =>
           /\ g \in HartType /\ g.pc = h.mtvec /\ g.a7 = h.a7 /\ g.priv = PrvM
           /\ g.mtvec = h.mtvec /\ g.medeleg = h.medeleg
<1> SUFFICES ASSUME g = Trap(h, 2)
             PROVE  /\ g \in HartType /\ g.pc = h.mtvec /\ g.a7 = h.a7 /\ g.priv = PrvM
                    /\ g.mtvec = h.mtvec /\ g.medeleg = h.medeleg
  OBVIOUS
<1> DEFINE c == 2
<1>1. c \in Nat /\ g = Trap(h, c)
  OBVIOUS
<1> HIDE DEF c
<1> QED
  BY <1>1, Trapped

\* An instruction of the boot code takes effect or traps to the end of its guard; MRET enters
\* the first case.
LEMMA KeepsBoot ==
  ASSUME EnvInv, verdict = Silent, Watch, BootStep
  PROVE  Kept
<1> DEFINE i == hart.pc[2]
           d == Delegations
           n == Len(reset_vector)
           w == reset_vector[i]
           onward == <<"boot", i + 1>>
<1>1. /\ hart \in HartType /\ spoilt \in BOOLEAN /\ complete \in BOOLEAN /\ test \in Tests
      /\ spoilt' = spoilt /\ complete' = complete /\ test' = test
  BY CountsMagic DEF EnvInv, EnvTypes, BootStep, NoEvent
<1>2. hart.pc[1] = "boot" /\ i \in Nat /\ test.level \in Prv /\ d \in {0, 2} /\ PrvU # PrvS
  BY <1>1, HartFields, TestFacts, LevelFacts DEF BootStep, Delegations
<1>3. /\ i \in 1 .. n + 1
      /\ Fresh /\ ~spoilt /\ hart.priv = PrvM
      /\ i > 1 => hart.mtvec = BootVector(i)
      /\ hart.medeleg = IF i > 14 THEN Delegated ELSE {}
      /\ d = 2 /\ i > 13 => hart.stvec = At("stvec_handler")
      /\ test.level = PrvU /\ i > 13 + d => hart.mpp = PrvU
      /\ i > 14 + d => hart.mpp = test.level
      /\ i > n => hart.mepc = <<"case", 2>>
  BY <1>2, CountsMagic DEF Booting
<1>4. /\ n = (IF test.level = PrvU THEN 14 ELSE IF test.level = PrvS THEN 16 ELSE 15) + d
      /\ \A k \in 1 .. 12 : reset_vector[k] = Boot[k]
      /\ d = 2 => /\ reset_vector[13] = [csr |-> "stvec", value |-> At("stvec_handler")]
                  /\ reset_vector[14] = [csr |-> "medeleg", value |-> DelegatedCauses]
      /\ reset_vector[13 + d] = [csr |-> "mstatus", value |-> PrvU]
      /\ test.level # PrvU => reset_vector[14 + d] = [csr |-> "mstatus", value |-> test.level]
      /\ test.level = PrvS => reset_vector[15 + d] = [csr |-> "mideleg", value |-> {}]
      /\ reset_vector[n] = [csr |-> "mepc", value |-> <<"case", 2>>]
  BY <1>1, ResetVector
<1>5. n \in 14 .. 18
  BY <1>2, <1>4
<1>6. /\ absent \subseteq {"mnstatus", "satp", "pmpaddr0", "pmpcfg0", "medeleg", "mideleg"}
      /\ test.level = PrvS => "medeleg" \notin absent /\ "mideleg" \notin absent
  BY EnvAssumption DEF EnvInv, EnvTypes
<1>7. onward \in EnvLabels \X Nat
  BY <1>2, Labelled DEF EnvLabels
<1>8. \/ i > n /\ hart' = Mret(hart)
      \/ /\ i \in 1 .. n
         /\ \/ AccessTraps(hart, w.csr) /\ hart' = Trap(hart, 2)
            \/ ~AccessTraps(hart, w.csr) /\ hart' = Written(hart, w, onward)
  <2>1. \/ i > n /\ hart' = Mret(hart)
        \/ /\ i <= n
           /\ hart' = IF AccessTraps(hart, w.csr) THEN Trap(hart, 2) ELSE Written(hart, w, onward)
    BY CauseFacts DEF BootStep
  <2>2. i <= n => i \in 1 .. n
    BY <1>3, <1>5
  <2> QED
    BY <2>1, <2>2
<1>9. ASSUME hart' \in HartType, NEW j \in 1 .. n + 1, hart'.pc = <<"boot", j>>,
             hart'.a7 = hart.a7, hart'.priv = PrvM,
             j > 1 => hart'.mtvec = BootVector(j),
             hart'.medeleg = IF j > 14 THEN Delegated ELSE {},
             d = 2 /\ j > 13 => hart'.stvec = At("stvec_handler"),
             test.level = PrvU /\ j > 13 + d => hart'.mpp = PrvU,
             j > 14 + d => hart'.mpp = test.level,
             j > n => hart'.mepc = <<"case", 2>>
      PROVE  Kept
  BY <1>2, <1>9, BootArrival
<1>10. (d = 2) = (test.handler = "stvec_handler")
  BY DEF Delegations
<1> HIDE DEF i, d, n
<1>11. CASE i > n /\ hart' = Mret(hart)
  <2>2. /\ hart' \in HartType /\ hart'.pc = <<"case", 2>> /\ hart'.priv = test.level /\ hart'.a7 = hart.a7
        /\ hart'.mtvec = hart.mtvec /\ hart'.medeleg = hart.medeleg /\ hart'.stvec = hart.stvec
    <3>1. i > 14 + d /\ i > 14
      BY <1>2, <1>3, <1>4, <1>5, <1>11
    <3>2. hart.mepc = <<"case", 2>> /\ hart.mpp = test.level
      BY <1>3, <1>11, <3>1
    <3> QED
      BY <1>1, <1>11, <3>2, LevelFacts DEF HartType, Mret
  <2>3. hart'.pc[1] = "case" /\ hart'.pc[2] = 2
    BY <2>2
  <2>4. Prepared'
    <3>1. i > 14 /\ hart.mtvec = At("trap_vector") /\ hart.medeleg = Delegated
      BY <1>2, <1>3, <1>5, <1>11, BootVectors
    <3>2. test.handler = "stvec_handler" => hart.stvec = At("stvec_handler")
      BY <1>3, <1>10, <3>1
    <3> QED
      BY <1>1, <2>2, <3>1, <3>2, UnchangedTest DEF Prepared
  <2>5. test_count' = 0
    BY <1>3, CountsMagic
  <2>6. InCase'
    BY <1>1, <1>3, <2>2, <2>3, <2>5, EnvAssumption DEF InCase, Fresh, LevelOf
  <2>7. Booting' /\ InTrap' /\ AtEnd'
    BY <2>3 DEF Booting, InTrap, AtEnd
  <2> QED
    BY <1>1, <2>2, <2>4, <2>5, <2>6, <2>7 DEF Kept, Flow
<1>12. CASE /\ i \in 1 .. n
            /\ \/ AccessTraps(hart, w.csr) /\ hart' = Trap(hart, 2)
               \/ ~AccessTraps(hart, w.csr) /\ hart' = Written(hart, w, onward)
  <2> DEFINE plain == hart' = [hart EXCEPT !.pc = onward]
  <2>2. \A c \in {"mtvec", "mie", "stvec", "mstatus", "mepc", "medeleg", "mideleg"} \ absent :
          ~AccessTraps(hart, c)
    BY <1>3, <1>6, UnguardedAccess
  <2>3. hart' = Trap(hart, 2) =>
          /\ hart' \in HartType /\ hart'.pc = hart.mtvec /\ hart'.a7 = hart.a7 /\ hart'.priv = PrvM
          /\ hart'.mtvec = hart.mtvec /\ hart'.medeleg = hart.medeleg
    BY <1>1, <1>3, BootTrap
  <2>4. plain =>
          /\ hart' \in HartType /\ hart'.pc = onward /\ hart'.a7 = hart.a7 /\ hart'.priv = PrvM
          /\ hart'.mtvec = hart.mtvec /\ hart'.medeleg = hart.medeleg /\ hart'.stvec = hart.stvec
          /\ hart'.mpp = hart.mpp /\ hart'.mepc = hart.mepc
    <3> HIDE DEF onward
    <3> QED
      BY <1>1, <1>3, <1>7, Jump
  <2>5. i + 1 \in 1 .. n + 1 /\ i \in Nat /\ i <= n
    BY <1>5, <1>12
  <2> HIDE DEF plain
  <2>6. CASE i \in {1, 3, 5, 9, 12}
    <3>1. w.csr = "mtvec" /\ w.value = BootVector(i + 1)
      <4>1. i \in 1 .. 12
        BY <2>6
      <4> QED
        BY <1>4, <2>6, <4>1, BootEntries
    <3>2. hart' = [hart EXCEPT !.mtvec = BootVector(i + 1), !.pc = onward]
      <4>1. ~AccessTraps(hart, w.csr)
        BY <1>6, <2>2, <3>1
      <4> QED
        BY <1>12, <3>1, <4>1 DEF Written
    <3>3. /\ hart' \in HartType /\ hart'.pc = onward /\ hart'.a7 = hart.a7 /\ hart'.priv = PrvM
          /\ hart'.mtvec = BootVector(i + 1) /\ hart'.medeleg = hart.medeleg
      <4>1. BootVector(i + 1) \in EnvLabels \X Nat
        BY <2>6, BootVectors
      <4> HIDE DEF onward
      <4> QED
        BY <1>1, <1>3, <1>7, <3>2, <4>1 DEF HartType
    <3>4. i + 1 < 14 /\ i < 13
      BY <2>6
    <3> QED
      BY <1>2, <1>3, <1>5, <2>5, <3>3, <3>4, <1>9
  <2>7. CASE i \in {2, 4, 6, 7, 11}
    <3>1. w.csr \in {"mnstatus", "satp", "pmpaddr0", "pmpcfg0", "mideleg"}
      <4>1. i \in 1 .. 12
        BY <2>7
      <4> QED
        BY <1>4, <2>7, <4>1, BootEntries
    <3>2. hart' = Trap(hart, 2) \/ plain
      BY <1>12, <3>1 DEF Written, plain
    <3>3. CASE plain
      <4>1. BootVector(i + 1) = BootVector(i)
        BY <2>7, BootVectors
      <4>2. i > 1 /\ i + 1 < 13
        BY <2>7
      <4> QED
        BY <1>2, <1>3, <1>5, <2>4, <2>5, <3>3, <4>1, <4>2, <1>9
    <3>4. CASE hart' = Trap(hart, 2)
      <4> DEFINE j == IF i = 2 THEN 3 ELSE IF i = 4 THEN 5 ELSE IF i = 11 THEN 12 ELSE 8
      <4>1. BootVector(i) = <<"boot", j>> /\ BootVector(j) = <<"boot", j>>
        BY <2>7, BootVectors
      <4>2. j \in 3 .. 12 /\ i > 1 /\ i < 12
        BY <2>7
      <4> HIDE DEF j
      <4>3. j \in 1 .. n + 1
        BY <1>5, <4>2
      <4> QED
        BY <1>2, <1>3, <1>5, <2>3, <3>4, <4>1, <4>2, <4>3, <1>9
    <3> QED
      BY <3>2, <3>3, <3>4
  <2>8. CASE i = 8
    <3>1. w.csr = "mie"
      BY <1>4, <2>8, BootEntries
    <3>2. plain
      BY <1>6, <1>12, <2>2, <3>1 DEF Written, plain
    <3>3. BootVector(i + 1) = BootVector(i)
      BY <2>8, BootVectors
    <3> QED
      BY <1>2, <1>3, <1>5, <2>4, <2>5, <2>8, <3>2, <3>3, <1>9
  <2>9. CASE i = 10
    <3>1. w.csr = "medeleg" /\ w.value = {}
      BY <1>4, <2>9, BootEntries
    <3>2. BootVector(10) = <<"boot", 12>> /\ BootVector(11) = <<"boot", 12>> /\ BootVector(12) = <<"boot", 12>>
      BY BootVectors
    <3>3. hart' = Trap(hart, 2) \/ hart' = [hart EXCEPT !.medeleg = {}, !.pc = onward]
      BY <1>12, <3>1 DEF Written
    <3>4. CASE hart' = [hart EXCEPT !.medeleg = {}, !.pc = onward]
      <4>1. /\ hart' \in HartType /\ hart'.pc = onward /\ hart'.a7 = hart.a7 /\ hart'.priv = PrvM
            /\ hart'.mtvec = hart.mtvec /\ hart'.medeleg = {}
        <5> HIDE DEF onward
        <5> QED
          BY <1>1, <1>3, <1>7, <3>4 DEF HartType
      <4> QED
        BY <1>2, <1>3, <1>5, <2>5, <2>9, <3>2, <4>1, <1>9
    <3>5. CASE hart' = Trap(hart, 2)
      <4>1. 12 \in 1 .. n + 1
        BY <1>5
      <4> QED
        BY <1>2, <1>3, <1>5, <2>3, <2>9, <3>2, <3>5, <4>1, <1>9
    <3> QED
      BY <3>3, <3>4, <3>5
  <2>10. CASE i > 12
    <3>1. BootVector(i) = At("trap_vector") /\ BootVector(i + 1) = At("trap_vector")
      BY <2>5, <2>10, BootVectors
    <3>2. hart.mtvec = At("trap_vector") /\ i > 1
      BY <1>3, <2>10, <3>1
    <3>3. CASE d = 2 /\ i = 13
      <4>1. w.csr = "stvec" /\ w.value = At("stvec_handler")
        BY <1>4, <3>3
      <4>2. hart' = [hart EXCEPT !.stvec = At("stvec_handler"), !.pc = onward]
        BY <1>6, <1>12, <2>2, <4>1 DEF Written
      <4>3. /\ hart' \in HartType /\ hart'.pc = onward /\ hart'.a7 = hart.a7 /\ hart'.priv = PrvM
            /\ hart'.mtvec = hart.mtvec /\ hart'.medeleg = hart.medeleg /\ hart'.stvec = At("stvec_handler")
        <5>1. At("stvec_handler") \in EnvLabels \X Nat
          BY LabelledAt DEF EnvLabels
        <5> HIDE DEF onward
        <5> QED
          BY <1>1, <1>3, <1>7, <4>2, <5>1 DEF HartType
      <4> QED
        BY <1>3, <1>4, <1>5, <2>5, <3>1, <3>2, <3>3, <4>3, <1>9
    <3>4. CASE d = 2 /\ i = 14
      <4>1. w.csr = "medeleg" /\ w.value = Delegated
        BY <1>4, <1>10, <3>4 DEF Delegated
      <4>2. "medeleg" \notin absent
        BY <1>1, <1>6, <1>10, <3>4, TestFacts
      <4>3. hart' = [hart EXCEPT !.medeleg = Delegated, !.pc = onward]
        BY <1>12, <2>2, <4>1, <4>2 DEF Written
      <4>4. /\ hart' \in HartType /\ hart'.pc = onward /\ hart'.a7 = hart.a7 /\ hart'.priv = PrvM
            /\ hart'.mtvec = hart.mtvec /\ hart'.medeleg = Delegated /\ hart'.stvec = hart.stvec
        <5> HIDE DEF onward
        <5> QED
          BY <1>1, <1>3, <1>7, <4>3, DelegatedAreNumbers DEF HartType
      <4> QED
        BY <1>3, <1>4, <1>5, <2>5, <3>1, <3>2, <3>4, <4>4, <1>9
    <3>5. d = 0 => Delegated = {}
      BY <1>10 DEF Delegated
    <3>6. CASE i = 13 + d
      <4>1. w.csr = "mstatus" /\ w.value = PrvU
        BY <1>4, <3>6
      <4>2. hart' = [hart EXCEPT !.mpp = PrvU, !.pc = onward]
        BY <1>6, <1>12, <2>2, <4>1 DEF Written
      <4>3. /\ hart' \in HartType /\ hart'.pc = onward /\ hart'.a7 = hart.a7 /\ hart'.priv = PrvM
            /\ hart'.mtvec = hart.mtvec /\ hart'.medeleg = hart.medeleg /\ hart'.stvec = hart.stvec
            /\ hart'.mpp = PrvU
        <5> HIDE DEF onward
        <5> QED
          BY <1>1, <1>3, <1>7, <4>2, LevelFacts DEF HartType
      <4>4. i < n
        BY <1>2, <1>4, <3>6
      <4> QED
        BY <1>2, <1>3, <1>5, <2>5, <3>1, <3>2, <3>5, <3>6, <4>3, <4>4, <1>9
    <3>7. CASE i = 14 + d /\ test.level # PrvU
      <4>1. w.csr = "mstatus" /\ w.value = test.level
        BY <1>4, <3>7
      <4>2. hart' = [hart EXCEPT !.mpp = test.level, !.pc = onward]
        BY <1>6, <1>12, <2>2, <4>1 DEF Written
      <4>3. /\ hart' \in HartType /\ hart'.pc = onward /\ hart'.a7 = hart.a7 /\ hart'.priv = PrvM
            /\ hart'.mtvec = hart.mtvec /\ hart'.medeleg = hart.medeleg /\ hart'.stvec = hart.stvec
            /\ hart'.mpp = test.level
        <5> HIDE DEF onward
        <5> QED
          BY <1>1, <1>2, <1>3, <1>7, <4>2 DEF HartType
      <4>4. i < n
        BY <1>2, <1>4, <3>7
      <4> QED
        BY <1>2, <1>3, <1>5, <2>5, <3>1, <3>2, <3>5, <3>7, <4>3, <4>4, <1>9
    <3>8. CASE i = 15 + d /\ test.level = PrvS
      <4>1. w.csr = "mideleg"
        BY <1>4, <3>8
      <4>2. plain
        BY <1>6, <1>12, <2>2, <3>8, <4>1 DEF Written, plain
      <4>3. i < n
        BY <1>2, <1>4, <3>8
      <4> QED
        BY <1>2, <1>3, <1>5, <2>4, <2>5, <3>1, <3>2, <3>5, <3>8, <4>2, <4>3, <1>9
    <3>9. CASE i = n
      <4>1. w.csr = "mepc" /\ w.value = <<"case", 2>>
        BY <1>4, <3>9
      <4>2. hart' = [hart EXCEPT !.mepc = <<"case", 2>>, !.pc = onward]
        BY <1>6, <1>12, <2>2, <4>1 DEF Written
      <4>3. /\ hart' \in HartType /\ hart'.pc = onward /\ hart'.a7 = hart.a7 /\ hart'.priv = PrvM
            /\ hart'.mtvec = hart.mtvec /\ hart'.medeleg = hart.medeleg /\ hart'.stvec = hart.stvec
            /\ hart'.mpp = hart.mpp /\ hart'.mepc = <<"case", 2>>
        <5> DEFINE place == <<"case", 2>>
        <5>1. place \in EnvLabels \X Nat
          BY Labelled DEF EnvLabels
        <5> HIDE DEF onward, place
        <5>2. hart' = [hart EXCEPT !.mepc = place, !.pc = onward]
          BY <4>2 DEF place
        <5>3. /\ hart' \in HartType /\ hart'.pc = onward /\ hart'.a7 = hart.a7 /\ hart'.priv = PrvM
              /\ hart'.mtvec = hart.mtvec /\ hart'.medeleg = hart.medeleg /\ hart'.stvec = hart.stvec
              /\ hart'.mpp = hart.mpp /\ hart'.mepc = place
          BY <1>1, <1>3, <1>7, <5>1, <5>2 DEF HartType
        <5> QED
          BY <5>3 DEF place
      <4>4. i > 13 + d /\ (i + 1 > 14 + d) /\ (test.level # PrvU => i > 14 + d)
        BY <1>2, <1>4, <3>9
      <4>5. hart.mpp = test.level
        BY <1>2, <1>3, <4>4
      <4> QED
        BY <1>2, <1>3, <1>5, <2>5, <3>1, <3>2, <3>5, <3>9, <4>3, <4>4, <4>5, <1>9
    <3> QED
      <4>1. \/ d = 2 /\ i \in {13, 14}
            \/ i = 13 + d \/ i = 14 + d \/ i = 15 + d \/ i = 16 + d
        BY <1>2, <1>4, <2>5, <2>10
      <4>2. /\ i = 14 + d /\ test.level = PrvU => i = n
            /\ i = 15 + d /\ test.level # PrvS => i = n
            /\ i = 16 + d => i = n
        BY <1>2, <1>4, <2>5
      <4> QED
        BY <4>1, <4>2, <3>3, <3>4, <3>6, <3>7, <3>8, <3>9
  <2> QED
    BY <2>5, <2>6, <2>7, <2>8, <2>9, <2>10, <1>12
<1> QED
  BY <1>8, <1>11, <1>12

-----------------------------------------------------------------------------
(* The two words and the verdict. *)

\* Every step of the program keeps the flow of the test.
LEMMA KeepsFlow ==
  ASSUME EnvInv, EnvNext
  PROVE  Kept
<1>1. verdict = Silent /\ Watch /\ (Retire \/ Bubble)
  BY DEF EnvNext, Cycle, Wait
<1> QED
  BY <1>1, KeepsBoot, KeepsCases, KeepsTraps, KeepsHandler, KeepsSupervisor, KeepsEnd,
     KeepsEcall, KeepsVector, KeepsStanding DEF Retire

\* A step leaves the words, or a case stores data of its test, or a test that went wrong
\* writes its odd number to tohost.
LEMMA Stores ==
  ASSUME EnvInv, EnvNext
  PROVE  \/ word' = word
         \/ \E v \in test.stores, w \in Words \ {test.tohost} : word' = [word EXCEPT ![w] = v]
         \/ \E v \in Nat : /\ word' = [word EXCEPT ![test.tohost] = v]
                           /\ v % 2 = 1 /\ v > 2 /\ spoilt'
<1>1. verdict = Silent /\ Watch /\ (Retire \/ Bubble)
  BY DEF EnvNext, Cycle, Wait
<1>2. CASE write_tohost
  <2>1. hart.pc[1] = "write_tohost" /\ spoilt' = spoilt
    BY <1>2 DEF write_tohost, NoEvent, At
  <2>2. spoilt /\ hart.gp % 2 = 1 /\ hart.gp > 2
    BY <1>1, <2>1, CountsMagic DEF AtEnd
  <2>3. hart.gp \in Nat
    BY HartFields DEF EnvInv, EnvTypes
  <2> QED
    BY <1>2, <2>1, <2>2, <2>3 DEF write_tohost
<1>3. CASE CaseHolds
  BY <1>3 DEF CaseHolds, NoStore
<1>4. CASE Retire /\ ~CaseHolds /\ ~write_tohost
  BY <1>4 DEF Retire, NoStore, BootStep, StartCase, CaseFails, CaseTraps, DropToUser,
              mtvec_handler, stvec_handler, TEST_PASSFAIL, RVTEST_FAIL, RVTEST_PASS, Ecall, trap_vector
<1>5. CASE Bubble
  BY <1>5 DEF Bubble
<1> QED
  BY <1>1, <1>2, <1>3, <1>4, <1>5

\* tohost stays the number of a test that went wrong, and the other word no verdict.
LEMMA KeepsWords ==
  ASSUME EnvInv, EnvNext
  PROVE  word' \in [Words -> Nat] /\ armed' \in [Words -> BOOLEAN] /\ WordsAreHonest'
<1>1. /\ word \in [Words -> Nat] /\ armed \in [Words -> BOOLEAN] /\ WordsAreHonest
      /\ test \in Tests /\ test' = test
      /\ armed' = [w \in Words |-> armed[w] \/ word[w] = 0]
  BY DEF EnvInv, EnvTypes, EnvNext, Cycle, Wait, Watch, arms
<1>2. spoilt => spoilt'
  BY KeepsFlow DEF Kept
<1>3. /\ test.tohost \in Words /\ test.stores \subseteq Nat
      /\ 0 \in test.stores \cup {test.first} => \A v \in test.stores : v % 2 = 0
  BY <1>1, TestFacts
<1>4. /\ word' \in [Words -> Nat]
      /\ word'[test.tohost] # 0 => spoilt' /\ word'[test.tohost] # 1
      /\ \A w \in Words \ {test.tohost} : word'[w] = word[w] \/ word'[w] \in test.stores
  <2>1. CASE word' = word
    BY <1>1, <1>2, <2>1 DEF WordsAreHonest
  <2>2. ASSUME NEW v \in test.stores, NEW w \in Words \ {test.tohost}, word' = [word EXCEPT ![w] = v]
        PROVE  <1>4!1 /\ <1>4!2 /\ <1>4!3
    BY <1>1, <1>2, <1>3, <2>2 DEF WordsAreHonest
  <2>3. ASSUME NEW v \in Nat, word' = [word EXCEPT ![test.tohost] = v],
               v % 2 = 1, v > 2, spoilt'
        PROVE  <1>4!1 /\ <1>4!2 /\ <1>4!3
    BY <1>1, <1>3, <2>3
  <2> QED
    BY <2>1, <2>2, <2>3, Stores
<1>5. armed' \in [Words -> BOOLEAN]
  BY <1>1
<1>6. ASSUME NEW w \in Words \ {test.tohost}
      PROVE  /\ word'[w] \in test.stores \cup {test.first}
             /\ armed'[w] => 0 \in test.stores \cup {test.first}
             /\ armed'[w] \/ word'[w] = 0 => word'[w] % 2 = 0
  <2>1. /\ word[w] \in test.stores \cup {test.first}
        /\ armed[w] => 0 \in test.stores \cup {test.first}
        /\ armed[w] \/ word[w] = 0 => word[w] % 2 = 0
    BY <1>1 DEF WordsAreHonest
  <2>2. armed'[w] = (armed[w] \/ word[w] = 0)
    BY <1>1
  <2>3. armed'[w] => 0 \in test.stores \cup {test.first}
    BY <2>1, <2>2
  <2>4. armed'[w] => word'[w] % 2 = 0
    BY <1>3, <1>4, <2>1, <2>2, <2>3
  <2>5. 0 % 2 = 0
    OBVIOUS
  <2> QED
    BY <1>4, <2>1, <2>3, <2>4, <2>5
<1> QED
  BY <1>1, <1>4, <1>5, <1>6 DEF WordsAreHonest

\* What the testbench prints is right: the third magic number is deserved, and an odd number
\* in an armed word is that of a test that went wrong.
LEMMA Judged ==
  ASSUME EnvInv, EnvNext
  PROVE  VerdictIsRight' /\ (test_count' = 3 => (verdict # Silent)') /\ test_count' \in 0 .. 3
<1>1. /\ test_count \in 0 .. 2 /\ test' = test
      /\ test_count' \in {test_count, test_count + 1}
      /\ verdict' = report(hart', word', armed', test_count')
  BY CountsMagic DEF EnvNext, Cycle, Wait, Watch
<1>2. test_count' \in 0 .. 3
  BY <1>1
<1>3. test_count' = 3 => Deserved'
  BY KeepsFlow DEF Kept, Flow, Reporting
<1>4. /\ word' \in [Words -> Nat] /\ armed' \in [Words -> BOOLEAN] /\ WordsAreHonest'
      /\ test \in Tests /\ test.tohost \in Words
  BY KeepsWords, TestFacts DEF EnvInv, EnvTypes
<1> DEFINE data == tohost_data(word', armed')
<1>5. data = 0 \/ \E w \in Words : armed'[w] /\ data = word'[w]
  BY <1>4 DEF tohost_data, Words
<1>6. data \in Nat /\ (data % 2 = 1 => spoilt' /\ data # 1)
  <2>1. CASE data = 0
    BY <2>1
  <2>2. ASSUME NEW w \in Words, armed'[w], data = word'[w]
        PROVE  data \in Nat /\ (data % 2 = 1 => spoilt' /\ data # 1)
    <3>1. data \in Nat
      BY <1>4, <2>2
    <3>2. CASE w = test.tohost
      <4>1. data # 0 => spoilt' /\ data # 1
        BY <1>1, <1>4, <2>2, <3>2 DEF WordsAreHonest
      <4> HIDE DEF data
      <4>2. data % 2 = 1 => data # 0
        OBVIOUS
      <4> QED
        BY <3>1, <4>1, <4>2
    <3>3. CASE w # test.tohost
      <4>1. data % 2 = 0
        BY <1>1, <1>4, <2>2, <3>3 DEF WordsAreHonest
      <4> HIDE DEF data
      <4> QED
        BY <3>1, <4>1
    <3> QED
      BY <3>2, <3>3
  <2> QED
    BY <1>5, <2>1, <2>2
<1>7. CASE test_count' = 3
  <2>1. \/ hart'.a7 = PASS_MAGIC /\ complete' /\ ~spoilt' /\ verdict' = Verdict("PASS", 0)
        \/ hart'.a7 = FAIL_MAGIC /\ spoilt' /\ verdict' = Verdict("FAIL", hart'.a0)
    BY <1>1, <1>3, <1>7 DEF Deserved, report, decided, PASS_MAGIC, FAIL_MAGIC
  <2> QED
    BY <1>2, <2>1 DEF VerdictIsRight, Verdict, Silent
<1>8. CASE test_count' # 3
  <2>1. \/ data = 1 /\ verdict' = Verdict("PASS", 0)
        \/ data # 1 /\ data % 2 = 1 /\ verdict' = Verdict("FAIL", data \div 2)
        \/ verdict' = Silent
    <3>1. verdict' = CASE data = 1 -> Verdict("PASS", 0)
                       [] data # 1 /\ data % 2 = 1 -> Verdict("FAIL", data \div 2)
                       [] OTHER -> Silent
      BY <1>1, <1>8 DEF report, decided
    <3> HIDE DEF data
    <3> QED
      BY <3>1
  <2>2. data # 1
    <3> HIDE DEF data
    <3> QED
      BY <1>6
  <2> QED
    BY <1>2, <1>6, <1>8, <2>1, <2>2 DEF VerdictIsRight, Verdict, Silent
<1> QED
  BY <1>7, <1>8

\* It holds in the reset state.
LEMMA EnvStarts ==
  ASSUME EnvInit
  PROVE  EnvInv
<1>1. /\ test \in Tests /\ absent \in Absences
      /\ test.level = PrvS => absent \cap {"medeleg", "mideleg"} = {}
      /\ test.first \in Nat /\ test.tohost \in Words
  BY TestFacts DEF EnvInit
<1> DEFINE b == <<"boot", 1>>
           s == At("start")
<1>2. b \in EnvLabels \X Nat /\ b[1] = "boot" /\ b[2] = 1 /\ s \in EnvLabels \X Nat
  BY LabelledAt, Labelled DEF EnvLabels
<1>3. hart = [pc |-> b, gp |-> 0, a7 |-> 0, a0 |-> 0, priv |-> PrvM, mpp |-> PrvM,
              mtvec |-> s, stvec |-> s, medeleg |-> {}, mcause |-> 0, scause |-> 0, mepc |-> s]
  BY DEF EnvInit
<1> HIDE DEF b, s
<1>4. hart \in HartType /\ hart.pc = b /\ hart.a7 = 0 /\ hart.priv = PrvM /\ hart.medeleg = {}
  BY <1>2, <1>3, LevelFacts DEF HartType
<1>5. /\ test_count = 0 /\ spoilt = FALSE /\ complete = FALSE /\ verdict = Silent
      /\ word \in [Words -> Nat] /\ armed \in [Words -> BOOLEAN]
  BY <1>1 DEF EnvInit
<1>6. Len(reset_vector) \in Nat /\ Len(reset_vector) >= 14 /\ Delegations \in {0, 2}
  BY <1>1, ResetVector DEF Delegations
<1>7. Booting
  BY <1>2, <1>4, <1>5, <1>6 DEF Booting, Fresh
<1>8. Prepared /\ InCase /\ InTrap /\ AtEnd
  BY <1>2, <1>4 DEF Prepared, InCase, InTrap, AtEnd
<1>9. WordsAreHonest
  <2>1. word[test.tohost] = 0
    BY <1>1 DEF EnvInit
  <2>2. \A w \in Words \ {test.tohost} : word[w] = test.first /\ armed[w] = FALSE
    BY DEF EnvInit
  <2>3. 0 % 2 = 0
    OBVIOUS
  <2> QED
    BY <2>1, <2>2, <2>3 DEF WordsAreHonest
<1>10. VerdictIsRight
  BY <1>5 DEF VerdictIsRight, Silent
<1>11. EnvTypes
  <2> HIDE DEF b, s
  <2>1. test_count \in 0 .. 3
    BY <1>5
  <2> QED
    BY <1>1, <1>4, <1>5, <2>1 DEF EnvTypes
<1>12. Flow /\ test_count # 3
  BY <1>5, <1>7, <1>8 DEF Flow
<1> QED
  BY <1>9, <1>10, <1>11, <1>12 DEF EnvInv

\* Every cycle keeps it.
LEMMA EnvKeeps ==
  ASSUME EnvInv, EnvNext \/ UNCHANGED envVars
  PROVE  EnvInv'
<1>1. CASE EnvNext
  <2>1. test' = test /\ absent' = absent
    BY <1>1 DEF EnvNext, Cycle, Wait, Watch
  <2>2. EnvTypes'
    BY <1>1, <2>1, KeepsFlow, KeepsWords, Judged DEF EnvTypes, EnvInv, Kept
  <2> QED
    BY <1>1, <2>2, KeepsFlow, KeepsWords, Judged DEF EnvInv, Kept
<1>2. CASE UNCHANGED envVars
  <2>1. Prepared' = Prepared /\ Reporting' = Reporting
    BY <1>2 DEF envVars, Prepared, Delegated, Reporting, Deserved
  <2>2. Booting' = Booting
    BY <1>2 DEF envVars, Booting, Fresh, Delegations, Delegated, reset_vector, Delegation, Enable
  <2>3. InCase' = InCase /\ InTrap' = InTrap
    BY <1>2 DEF envVars, InCase, InTrap, TrapOfCase, Deserved, Fresh, LevelOf, Expected
  <2>4. AtEnd' = AtEnd
    BY <1>2 DEF envVars, AtEnd, Deserved, Fresh
  <2>5. WordsAreHonest' = WordsAreHonest /\ VerdictIsRight' = VerdictIsRight
    BY <1>2 DEF envVars, WordsAreHonest, VerdictIsRight
  <2>6. EnvTypes'
    BY <1>2 DEF envVars, EnvInv, EnvTypes
  <2>7. Flow' /\ (test_count' = 3 => (verdict # Silent)')
    BY <1>2, <2>1, <2>2, <2>3, <2>4 DEF envVars, EnvInv, Flow
  <2> QED
    BY <2>5, <2>6, <2>7 DEF EnvInv
<1> QED
  BY <1>1, <1>2

\* The simulation says PASS only for a test that came to its end with every case right, FAIL
\* only for one that went wrong, and a case runs at its level with its own handlers, for
\* every number of cases, every suite of tests and every set of missing CSRs
\* (riscv_test.h:111-277; tb_Verilator.sv:164-271).
THEOREM VerdictsEarned == EnvSpec => []VerdictsAreEarned
<1>1. EnvInit => EnvInv
  BY EnvStarts
<1>2. EnvInv /\ [EnvNext]_envVars => EnvInv'
  BY EnvKeeps
<1>3. EnvInv => VerdictsAreEarned
  BY DEF EnvInv, Flow, Prepared, Reporting, InCase, LevelOf, Delegated,
         VerdictsAreEarned, CasesRunPrepared
<1> QED
  BY <1>1, <1>2, <1>3, PTL DEF EnvSpec

-----------------------------------------------------------------------------
(* The merge sort.  The list is followed in an order of its nodes, a function that      *)
(* keeps up with the links: taking a node of the second block moves it up in the order. *)
(* A block contains the nodes that stood at its places when the sort began, which is    *)
(* why a node of a first block goes before its equals in the second.                    *)

\* The types of the sort's variables.
SortTypes ==
  /\ len \in Nat /\ key \in [Nodes -> Int]
  /\ next \in [Nodes -> Nodes \cup {NULL}]
  /\ insize \in Nat \ {0} /\ nmerges \in Nat /\ psize \in Nat /\ qsize \in Nat
  /\ compared \in SUBSET Nodes

\* The nodes in an order, each once.
Orders == {s \in [Nodes -> Nodes] : \A i, j \in Nodes : s[i] = s[j] => i = j}

\* The node at a place of an order, or NULL behind it.
Place(s, i) == IF i \in Nodes THEN s[i] ELSE NULL

\* The nodes at the places a to z - 1 are linked to the next one.
Linked(s, a, z) == \A i \in Nodes : a <= i /\ i < z => next[s[i]] = Place(s, i + 1)

\* The order that a stable sort makes.
InOrder(m, n) == key[m] < key[n] \/ (key[m] = key[n] /\ m < n)

\* The node at place i belongs to the places behind a up to z, and it stands before those
\* at the places behind it, up to y.
Stands(s, i, a, z, y) ==
  /\ a < s[i] /\ s[i] <= z
  /\ \A j \in Nodes : i < j /\ j <= y => InOrder(s[i], s[j])

\* The beginnings of blocks of w nodes.
Starts(w) == {k * w : k \in Nat}

\* A block of one node.
Alone(c, w) == w = 1 \/ len = c + 1

\* The nodes of a block have been compared, if there are two of them.
Seen(c, w) == \A n \in Nodes : c < n /\ n <= c + w => n \in compared \/ Alone(c, w)

\* The block of w nodes behind c is sorted: the nodes that began in it, in order.
Sorted(s, c, w) ==
  /\ \A i \in Nodes : c < i /\ i <= c + w => Stands(s, i, c, c + w, c + w)
  /\ Seen(c, w)

\* At the beginning of a pass every block is sorted.
SortedPass(s) ==
  /\ list = Place(s, 1) /\ Linked(s, 1, len + 1)
  /\ \A c \in Starts(insize) : Sorted(s, c, insize)

\* At the end all nodes are one sorted block.
SortedAll(s) ==
  /\ list = Place(s, 1) /\ Linked(s, 1, len + 1)
  /\ Sorted(s, 0, len)

\* The merged list ends at place m.
EndsAt(s, m) ==
  /\ m \in 0 .. len
  /\ m = 0 => list = NULL /\ tail = NULL
  /\ m > 0 => list = s[1] /\ tail = s[m]
  /\ Linked(s, 1, m)

\* Between two merges: m nodes are merged.
Between(s, m) ==
  /\ EndsAt(s, m)
  /\ nmerges = 0 <=> m = 0
  /\ nmerges = 1 => m <= 2 * insize
  /\ m < len => m \in Starts(2 * insize)
  /\ p = Place(s, m + 1) /\ Linked(s, m + 1, len + 1)
  /\ \A c \in Starts(2 * insize) : c < m => Sorted(s, c, 2 * insize)
  /\ \A c \in Starts(insize) : m <= c => Sorted(s, c, insize)

\* Within the merge of the two blocks behind b: the merged list ends at place m, the rest of
\* the first block behind it, and the second block begins behind place r.
Merging(s, m, b) ==
  LET r == m + psize
      y == r + qsize
      e == b + 2 * insize
  IN  /\ EndsAt(s, m) /\ b \in Starts(2 * insize) /\ b < len /\ b <= m
      /\ r <= len /\ y <= e /\ (r < len => y = e)
      /\ nmerges > 0 /\ (nmerges = 1 => b = 0)
      /\ psize > 0 => p = s[m + 1]
      /\ q = Place(s, r + 1)
      /\ Linked(s, m + 1, r) /\ Linked(s, r + 1, len + 1)
      /\ \A i \in Nodes : b < i /\ i <= m => Stands(s, i, b, e, y)
      /\ \A i \in Nodes : m < i /\ i <= r => Stands(s, i, b, b + insize, r)
      /\ \A i \in Nodes : r < i /\ i <= y => Stands(s, i, b + insize, e, y)
      /\ m = b => psize > 0 /\ qsize = insize /\ Seen(b, insize) /\ Seen(b + insize, insize)
      /\ m > b => Seen(b, 2 * insize)
      /\ \A c \in Starts(2 * insize) : c < b => Sorted(s, c, 2 * insize)
      /\ \A c \in Starts(insize) : e <= c => Sorted(s, c, insize)

\* The inductive invariant: an order of the nodes of which the links are the neighbours, except
\* where a list ends; sorted in blocks of insize, and in blocks of twice that where they are merged.
SortInv ==
  /\ SortTypes
  /\ \E s \in Orders :
       \/ stage = "pass" /\ SortedPass(s)
       \/ stage = "done" /\ SortedAll(s)
       \/ stage = "merge" /\ \E m \in 0 .. len : Between(s, m)
       \/ stage = "take" /\ \E m, b \in 0 .. len : Merging(s, m, b)

-----------------------------------------------------------------------------

\* Blocks of two sizes fit into each other.
LEMMA StartFacts ==
  ASSUME NEW w \in Nat \ {0}
  PROVE  /\ 0 \in Starts(w)
         /\ \A c \in Starts(w) : c \in Nat
         /\ \A c \in Starts(2 * w) : c \in Nat /\ c \in Starts(w) /\ c + w \in Starts(w) /\ c + 2 * w \in Starts(2 * w)
         /\ \A c, d \in Starts(w) : c < d => c + w <= d
<1>1. 0 \in Starts(w)
  <2>1. 0 = 0 * w
    OBVIOUS
  <2> QED
    BY <2>1 DEF Starts
<1>2. \A c \in Starts(w) : c \in Nat
  BY SMT DEF Starts
<1>3. ASSUME NEW c \in Starts(2 * w)
      PROVE  c \in Nat /\ c \in Starts(w) /\ c + w \in Starts(w) /\ c + 2 * w \in Starts(2 * w)
  <2>1. PICK k \in Nat : c = k * (2 * w)
    BY DEF Starts
  <2>2. c = (2 * k) * w /\ c + w = (2 * k + 1) * w /\ c + 2 * w = (k + 1) * (2 * w) /\ c \in Nat
    BY <2>1, SMT
  <2>3. 2 * k \in Nat /\ 2 * k + 1 \in Nat /\ k + 1 \in Nat
    OBVIOUS
  <2> QED
    BY <2>2, <2>3 DEF Starts
<1>4. ASSUME NEW c \in Starts(w), NEW d \in Starts(w), c < d
      PROVE  c + w <= d
  <2>1. PICK k \in Nat : c = k * w
    BY DEF Starts
  <2>2. PICK l \in Nat : d = l * w
    BY DEF Starts
  <2>3. k + 1 <= l
    <3>1. l <= k => l * w <= k * w
      BY ProductGrows
    <3>2. k * w \in Nat /\ l * w \in Nat
      BY SMT
    <3> QED
      BY <1>4, <2>1, <2>2, <3>1, <3>2
  <2>4. (k + 1) * w <= l * w
    BY <2>3, ProductGrows
  <2>5. (k + 1) * w = k * w + w
    BY SMT
  <2> QED
    BY <2>1, <2>2, <2>4, <2>5
<1> QED
  BY <1>1, <1>2, <1>3, <1>4

\* An order has every node.
LEMMA OrderFacts ==
  ASSUME len \in Nat, NEW s \in Orders
  PROVE  /\ s \in [Nodes -> Nodes] /\ \A n \in Nodes : n \in Nat /\ n > 0 /\ n <= len /\ n # NULL
         /\ \A i \in Nodes : s[i] \in Nodes
         /\ \A i, j \in Nodes : s[i] = s[j] => i = j
         /\ \A n \in Nodes : \E i \in Nodes : s[i] = n
<1>1. /\ s \in [Nodes -> Nodes] /\ \A n \in Nodes : n \in Nat /\ n > 0 /\ n <= len /\ n # NULL
      /\ \A i, j \in Nodes : s[i] = s[j] => i = j
  BY DEF Orders, Nodes, NULL
<1>2. IsFiniteSet(Nodes)
  BY FS_Interval DEF Nodes
<1>3. s \in Injection(Nodes, Nodes)
  BY <1>1 DEF Injection, IsInjective
<1>4. s \in Surjection(Nodes, Nodes)
  BY <1>2, <1>3, FS_Injection
<1> QED
  BY <1>1, <1>4 DEF Surjection

\* The order of a stable sort is transitive.
LEMMA InOrderTransitive ==
  ASSUME len \in Nat, key \in [Nodes -> Int],
         NEW a \in Nodes, NEW b \in Nodes, NEW c \in Nodes, InOrder(a, b), InOrder(b, c)
  PROVE  InOrder(a, c)
<1>1. key[a] \in Int /\ key[b] \in Int /\ key[c] \in Int /\ a \in Int /\ b \in Int /\ c \in Int
  BY DEF Nodes
<1> QED
  BY <1>1 DEF InOrder

\* Going along the links is going along the order.
LEMMA Follows ==
  ASSUME len \in Nat, next \in [Nodes -> Nodes \cup {NULL}],
         NEW s \in Orders, NEW a \in 1 .. len + 1, NEW z \in 1 .. len + 1, Linked(s, a, z),
         NEW k \in Nat, a + k <= z \/ z = len + 1
  PROVE  along(Place(s, a), k) = Place(s, a + k)
<1> DEFINE n == Place(s, a)
           good(f) == f = [j \in 0 .. k |-> IF j = 0 THEN n ELSE IF f[j - 1] = NULL THEN NULL ELSE next[f[j - 1]]]
           g == [j \in 0 .. k |-> Place(s, a + j)]
           walk == CHOOSE f : good(f)
<1>0. \A i \in Nat : i > 0 /\ i <= len <=> i \in Nodes
  BY DEF Nodes
<1>1. ASSUME NEW j \in 1 .. k
      PROVE  Place(s, a + j) = IF Place(s, a + (j - 1)) = NULL THEN NULL ELSE next[Place(s, a + (j - 1))]
  <2> DEFINE i == a + (j - 1)
  <2>1. i \in Nat /\ i > 0 /\ i >= a /\ a + j = i + 1 /\ a + j \in Nat /\ j <= k
    OBVIOUS
  <2> HIDE DEF i
  <2>2. CASE i <= len
    <3>1. i \in Nodes /\ s[i] # NULL
      BY <1>0, <2>1, <2>2, OrderFacts
    <3>2. i < z
      BY <2>1, <2>2
    <3> QED
      BY <2>1, <3>1, <3>2 DEF Linked, Place, i
  <2>3. CASE i > len
    <3>1. i \notin Nodes /\ i + 1 \notin Nodes
      BY <1>0, <2>1, <2>3
    <3> QED
      BY <2>1, <3>1 DEF Place, i
  <2> QED
    BY <2>1, <2>2, <2>3
<1>2. good(g)
  <2>1. ASSUME NEW j \in 0 .. k
        PROVE  Place(s, a + j) = IF j = 0 THEN n ELSE IF g[j - 1] = NULL THEN NULL ELSE next[g[j - 1]]
    <3>1. CASE j = 0
      <4>1. a + 0 = a
        OBVIOUS
      <4> QED
        BY <3>1, <4>1
    <3>2. CASE j # 0
      <4>1. j \in 1 .. k /\ j - 1 \in 0 .. k
        BY <3>2
      <4>2. g[j - 1] = Place(s, a + (j - 1))
        BY <4>1
      <4> QED
        BY <1>1, <3>2, <4>1, <4>2
    <3> QED
      BY <3>1, <3>2
  <2> QED
    BY <2>1, Zenon
<1>3. good(walk)
  <2> HIDE DEF good, g
  <2> QED
    BY <1>2, Zenon
<1>4. walk[0] = n /\ \A j \in 1 .. k : walk[j] = IF walk[j - 1] = NULL THEN NULL ELSE next[walk[j - 1]]
  <2> HIDE DEF walk, n
  <2>1. walk = [j \in 0 .. k |-> IF j = 0 THEN n ELSE IF walk[j - 1] = NULL THEN NULL ELSE next[walk[j - 1]]]
    BY <1>3
  <2>2. \A j \in 0 .. k : walk[j] = IF j = 0 THEN n ELSE IF walk[j - 1] = NULL THEN NULL ELSE next[walk[j - 1]]
    BY <2>1, Zenon
  <2>3. 0 \in 0 .. k /\ \A j \in 1 .. k : j \in 0 .. k /\ j # 0
    OBVIOUS
  <2> QED
    BY <2>2, <2>3
<1>5. along(n, k) = walk[k]
  BY Zenon DEF along
<1> HIDE DEF walk, good, g, n
<1> DEFINE Fails == {j \in Nat : j <= k /\ walk[j] # Place(s, a + j)}
<1>6. 0 \notin Fails
  <2>1. a + 0 = a
    OBVIOUS
  <2> QED
    BY <1>4, <2>1 DEF n
<1>7. \A j \in Nat : j + 1 \in Fails => j \in Fails
  <2> SUFFICES ASSUME NEW j \in Nat, j + 1 <= k, walk[j] = Place(s, a + j)
               PROVE  walk[j + 1] = Place(s, a + (j + 1))
    OBVIOUS
  <2>1. j + 1 \in 1 .. k /\ (j + 1) - 1 = j
    OBVIOUS
  <2> QED
    BY <1>1, <1>4, <2>1
<1>8. Fails = {}
  <2> HIDE DEF Fails
  <2>1. Fails \in SUBSET Nat
    BY DEF Fails
  <2> QED
    BY <1>6, <1>7, <2>1, NoFailure
<1>9. walk[k] = Place(s, a + k)
  BY <1>8
<1> QED
  BY <1>5, <1>9 DEF n

-----------------------------------------------------------------------------
(* What the steps share. *)

\* Where an order is the same on a block and no node is forgotten, the block stays sorted.
LEMMA StaysSorted ==
  ASSUME len' = len, key' = key, compared \subseteq compared',
         NEW s, NEW t, NEW c \in Nat, NEW w, Sorted(s, c, w),
         \A i \in Nodes : c < i /\ i <= c + w => t[i] = s[i]
  PROVE  Sorted(t, c, w)'
<1>0. \A i \in Nodes : i \in Int
  BY DEF Nodes
<1>1. Nodes' = Nodes /\ \A m, n : InOrder(m, n)' = InOrder(m, n)
  BY DEF Nodes, InOrder
<1>2. Seen(c, w)'
  BY <1>1 DEF Sorted, Seen, Alone
<1>3. ASSUME NEW i \in Nodes, c < i, i <= c + w
      PROVE  Stands(t, i, c, c + w, c + w)'
  <2>1. Stands(s, i, c, c + w, c + w) /\ t[i] = s[i]
    BY <1>3 DEF Sorted
  <2>2. ASSUME NEW j \in Nodes, i < j, j <= c + w
        PROVE  InOrder(t[i], t[j])
    <3>1. c < j
      BY <1>0, <1>3, <2>2
    <3> QED
      BY <2>1, <2>2, <3>1 DEF Stands
  <2> QED
    BY <1>1, <2>1, <2>2 DEF Stands
<1> QED
  BY <1>1, <1>2, <1>3 DEF Sorted

\* A link is set at the end of the merged list.
LEMMA Appended ==
  ASSUME SortTypes, len' = len, NEW s \in Orders, NEW t \in Orders, NEW m \in 0 .. len - 1, EndsAt(s, m),
         \A i \in Nodes : i <= m => t[i] = s[i],
         NEW n, n = t[m + 1], Append1(n, next)
  PROVE  /\ EndsAt(t, m + 1)'
         /\ next' \in [Nodes -> Nodes \cup {NULL}]
         /\ \A d \in Nodes : (m > 0 => d # s[m]) => next'[d] = next[d]
<1>0. len \in Nat /\ m \in Nat /\ m + 1 \in Nodes /\ (m > 0 => m \in Nodes) /\ Nodes' = Nodes
  BY DEF SortTypes, Nodes
<1>1. /\ \A i \in Nodes : s[i] \in Nodes /\ s[i] # NULL /\ t[i] \in Nodes
      /\ \A i, j \in Nodes : s[i] = s[j] => i = j
  BY <1>0, OrderFacts
<1>2. next \in [Nodes -> Nodes \cup {NULL}]
  BY DEF SortTypes
<1>3. CASE m = 0
  <2>1. next' = next /\ list' = n /\ tail' = n
    BY <1>3 DEF Append1, EndsAt
  <2>2. Linked(t, 1, m + 1)'
    BY <1>0, <1>3 DEF Linked, Nodes
  <2>3. m + 1 \in 0 .. len' /\ m + 1 = 1
    BY <1>0, <1>3 DEF Nodes
  <2> QED
    BY <1>2, <1>3, <2>1, <2>2, <2>3 DEF EndsAt
<1>4. CASE m > 0
  <2>1. tail = s[m] /\ list = s[1] /\ Linked(s, 1, m) /\ m \in Nodes /\ 1 \in Nodes /\ t[1] = s[1]
    <3>1. 1 \in Nodes /\ 1 <= m
      BY <1>0, <1>4 DEF Nodes
    <3> QED
      BY <1>0, <1>4, <3>1 DEF EndsAt
  <2>2. next' = [next EXCEPT ![s[m]] = n] /\ list' = list /\ tail' = n
    BY <1>1, <2>1 DEF Append1
  <2>3. next' \in [Nodes -> Nodes \cup {NULL}]
    BY <1>0, <1>1, <1>2, <2>1, <2>2
  <2>4. Linked(t, 1, m + 1)'
    <3> SUFFICES ASSUME NEW i \in Nodes, 1 <= i, i < m + 1
                 PROVE  next'[t[i]] = Place(t, i + 1)'
      BY <1>0 DEF Linked
    <3>1. i <= m /\ i + 1 \in Nodes /\ t[i] = s[i]
      BY <1>0 DEF Nodes
    <3>2. Place(t, i + 1)' = t[i + 1]
      BY <1>0, <3>1 DEF Place
    <3>3. CASE i = m
      BY <1>1, <1>2, <2>1, <2>2, <3>1, <3>2, <3>3
    <3>4. CASE i < m
      <4>1. next[s[i]] = s[i + 1] /\ t[i + 1] = s[i + 1] /\ s[i] # s[m]
        <5>1. i + 1 <= m /\ i # m
          BY <3>4, <1>0 DEF Nodes
        <5> QED
          BY <1>0, <1>1, <2>1, <3>1, <3>4, <5>1 DEF Linked, Place
      <4> QED
        BY <1>1, <1>2, <2>1, <2>2, <3>1, <3>2, <4>1
    <3> QED
      BY <1>0, <3>1, <3>3, <3>4 DEF Nodes
  <2>5. EndsAt(t, m + 1)'
    <3>1. m + 1 \in 0 .. len' /\ m + 1 # 0
      BY <1>0 DEF Nodes
    <3> QED
      BY <2>1, <2>2, <2>4, <3>1 DEF EndsAt
  <2>6. \A d \in Nodes : d # s[m] => next'[d] = next[d]
    BY <1>2, <2>2
  <2> QED
    BY <1>4, <2>3, <2>5, <2>6
<1> QED
  BY <1>0, <1>3, <1>4

\* The node behind place r comes to place m + 1, and those between move up.
Rotated(s, m, r) ==
  [i \in Nodes |-> IF i = m + 1 THEN s[r + 1] ELSE IF m + 1 < i /\ i <= r + 1 THEN s[i - 1] ELSE s[i]]

LEMMA RotatedFacts ==
  ASSUME len \in Nat, NEW s \in Orders, NEW m \in 0 .. len - 1, NEW r \in m .. len - 1,
         NEW t, t = Rotated(s, m, r)
  PROVE  /\ t \in Orders
         /\ m + 1 \in Nodes /\ r + 1 \in Nodes /\ t[m + 1] = s[r + 1]
         /\ \A i \in Nodes : i <= m \/ r + 1 < i => t[i] = s[i]
         /\ \A i \in Nodes : m < i /\ i <= r => i + 1 \in Nodes /\ t[i + 1] = s[i]
         /\ \A i \in Nodes : m + 1 < i /\ i <= r + 1 => i - 1 \in Nodes /\ t[i] = s[i - 1]
<1>1. m + 1 \in Nodes /\ r + 1 \in Nodes /\ m \in Nat /\ r \in Nat /\ m <= r
  BY DEF Nodes
<1>2. \A i \in Nodes : m + 1 < i /\ i <= r + 1 => i - 1 \in Nodes
  BY <1>1 DEF Nodes
<1>3. \A i \in Nodes : m < i /\ i <= r =>
        i + 1 \in Nodes /\ (i + 1) - 1 = i /\ m + 1 < i + 1 /\ i + 1 <= r + 1 /\ i + 1 # m + 1
  BY <1>1 DEF Nodes
<1>4. \A i \in Nodes : i <= m \/ r + 1 < i => i # m + 1 /\ ~(m + 1 < i /\ i <= r + 1)
  BY <1>1 DEF Nodes
<1>5. \A i \in Nodes : t[i] = IF i = m + 1 THEN s[r + 1] ELSE IF m + 1 < i /\ i <= r + 1 THEN s[i - 1] ELSE s[i]
  BY DEF Rotated
<1>6. /\ t[m + 1] = s[r + 1]
      /\ \A i \in Nodes : i <= m \/ r + 1 < i => t[i] = s[i]
      /\ \A i \in Nodes : m < i /\ i <= r => i + 1 \in Nodes /\ t[i + 1] = s[i]
      /\ \A i \in Nodes : m + 1 < i /\ i <= r + 1 => i - 1 \in Nodes /\ t[i] = s[i - 1]
  <2>1. \A i \in Nodes : m + 1 < i => i # m + 1
    BY <1>1 DEF Nodes
  <2>2. \A i \in Nodes : m < i /\ i <= r => t[i + 1] = s[(i + 1) - 1]
    BY <1>3, <1>5
  <2>3. \A i \in Nodes : m < i /\ i <= r => i + 1 \in Nodes /\ t[i + 1] = s[i]
    BY <1>3, <2>2
  <2> QED
    BY <1>1, <1>2, <1>4, <1>5, <2>1, <2>3
<1>7. s \in [Nodes -> Nodes] /\ \A i, j \in Nodes : s[i] = s[j] => i = j
  BY DEF Orders
<1> DEFINE from(i) == IF i = m + 1 THEN r + 1 ELSE IF m + 1 < i /\ i <= r + 1 THEN i - 1 ELSE i
<1>8. \A i \in Nodes : from(i) \in Nodes /\ t[i] = s[from(i)]
  BY <1>1, <1>2, <1>5
<1>9. \A i, j \in Nodes : from(i) = from(j) => i = j
  BY <1>1 DEF Nodes
<1>10. t \in [Nodes -> Nodes]
  <2>1. t = [i \in Nodes |-> t[i]]
    BY DEF Rotated
  <2>2. \A i \in Nodes : t[i] \in Nodes
    <3> HIDE DEF from
    <3> QED
      BY <1>7, <1>8
  <2> QED
    BY <2>1, <2>2
<1>11. \A i, j \in Nodes : t[i] = t[j] => i = j
  <2> HIDE DEF from
  <2> QED
    BY <1>7, <1>8, <1>9
<1>12. t \in Orders
  BY <1>10, <1>11 DEF Orders
<1> QED
  BY <1>1, <1>6, <1>12

\* Where the list and the keys stay, an order says the same; so do the links and blocks.
LEMMA SortKept ==
  ASSUME len' = len, key' = key
  PROVE  /\ Nodes' = Nodes /\ Orders' = Orders
         /\ \A s, i : Place(s, i)' = Place(s, i)
         /\ \A s, i, a, z, y : Stands(s, i, a, z, y)' <=> Stands(s, i, a, z, y)
         /\ next' = next => \A s, a, z : Linked(s, a, z)' <=> Linked(s, a, z)
         /\ compared' = compared =>
              \A s, c, w : (Sorted(s, c, w)' <=> Sorted(s, c, w)) /\ (Seen(c, w)' <=> Seen(c, w))
<1>1. Nodes' = Nodes
  BY DEF Nodes
<1>2. Orders' = Orders
  BY <1>1 DEF Orders
<1>3. \A s, i : Place(s, i)' = Place(s, i)
  BY <1>1 DEF Place
<1>4. \A s, i, a, z, y : Stands(s, i, a, z, y)' <=> Stands(s, i, a, z, y)
  BY <1>1 DEF Stands, InOrder
<1>5. next' = next => \A s, a, z : Linked(s, a, z)' <=> Linked(s, a, z)
  BY <1>1, <1>3 DEF Linked
<1>6. compared' = compared => \A c, w : Seen(c, w)' <=> Seen(c, w)
  BY <1>1 DEF Seen, Alone
<1>7. compared' = compared => \A s, c, w : Sorted(s, c, w)' <=> Sorted(s, c, w)
  BY <1>1, <1>4, <1>6 DEF Sorted
<1> QED
  BY <1>1, <1>2, <1>3, <1>4, <1>5, <1>6, <1>7

\* Behind the list there is no block.
LEMMA SortedBehind ==
  ASSUME len \in Nat, NEW s, NEW c \in Nat, NEW w, len <= c
  PROVE  Sorted(s, c, w)
<1>1. \A i \in Nodes : ~(c < i)
  BY DEF Nodes
<1> QED
  BY <1>1 DEF Sorted, Seen

\* The list in its first order.
LEMMA SortBegins == SortInit => SortInv
<1> SUFFICES ASSUME SortInit PROVE SortInv
  OBVIOUS
<1> DEFINE s == [n \in Nodes |-> n]
<1>1. len \in Nat /\ key \in [Nodes -> Int]
  BY SortAssumption DEF SortInit
<1>2. \A n \in Nodes : n \in Nat /\ n > 0 /\ n <= len /\ n # NULL
        /\ (n # len => n + 1 \in Nodes) /\ (n = len => n + 1 \notin Nodes)
  BY <1>1 DEF Nodes, NULL
<1>3. SortTypes
  BY <1>1, <1>2 DEF SortTypes, SortInit
<1>4. s \in Orders
  BY DEF Orders
<1>5. \A i \in Nodes : s[i] = i
  OBVIOUS
<1> HIDE DEF s
<1>6. Linked(s, 1, len + 1) /\ list = Place(s, 1)
  <2>1. len = 0 <=> 1 \notin Nodes
    BY <1>1 DEF Nodes
  <2> QED
    BY <1>2, <1>5, <2>1 DEF SortInit, Linked, Place
<1>7. insize = 1 /\ stage = "pass"
  BY DEF SortInit
<1>8. ASSUME NEW c \in Starts(1)
      PROVE  Sorted(s, c, 1)
  <2>1. c \in Nat
    BY StartFacts
  <2>2. \A i \in Nodes : c < i /\ i <= c + 1 => Stands(s, i, c, c + 1, c + 1)
    <3>1. \A i, j \in Nodes : ~(c < i /\ i < j /\ j <= c + 1)
      BY <2>1 DEF Nodes
    <3> QED
      BY <1>5, <3>1 DEF Stands
  <2> QED
    BY <2>2 DEF Sorted, Seen, Alone
<1> QED
  BY <1>3, <1>4, <1>6, <1>7, <1>8 DEF SortInv, SortedPass

\* The types where the merges begin and end.
LEMMA SortStepTypes ==
  ASSUME SortTypes, StartPass \/ EndMerge
  PROVE  SortTypes'
<1>1. len' = len /\ Nodes' = Nodes
  BY DEF StartPass, EndMerge, Nodes
<1> QED
  BY <1>1 DEF SortTypes, StartPass, EndMerge

\* A pass starts: nothing is merged, and the blocks are as the last pass left them.
LEMMA StartPassStep == ASSUME SortInv, StartPass PROVE SortInv'
<1>1. SortTypes'
  BY SortStepTypes DEF SortInv
<1>2. PICK s \in Orders : SortedPass(s)
  BY DEF SortInv, StartPass
<1>3. len' = len /\ key' = key /\ next' = next /\ compared' = compared /\ insize' = insize
  BY DEF StartPass
<1>4. len \in Nat /\ insize \in Nat \ {0}
  BY DEF SortInv, SortTypes
<1>5. EndsAt(s, 0)'
  <2>1. Linked(s, 1, 0)'
    <3>1. \A i \in Nodes' : ~(1 <= i /\ i < 0)
      BY <1>3, <1>4 DEF Nodes
    <3> QED
      BY <3>1 DEF Linked
  <2>2. 0 \in 0 .. len'
    BY <1>3, <1>4
  <2> QED
    BY <2>1, <2>2 DEF EndsAt, StartPass
<1>6. Between(s, 0)'
  <2>1. 0 \in Starts(2 * insize)
    <3>1. 2 * insize \in Nat \ {0}
      BY <1>4
    <3> QED
      BY <3>1, StartFacts
  <2>2. p' = Place(s, 0 + 1)' /\ Linked(s, 0 + 1, len + 1)'
    <3>1. list = Place(s, 1) /\ Linked(s, 1, len + 1)
      BY <1>2 DEF SortedPass
    <3>2. Linked(s, 1, len + 1)' /\ Place(s, 1)' = Place(s, 1)
      <4>1. \A a, z : Linked(s, a, z)' <=> Linked(s, a, z)
        BY <1>3, SortKept
      <4> QED
        BY <1>3, <3>1, <4>1, SortKept
    <3>3. 0 + 1 = 1
      OBVIOUS
    <3> QED
      BY <3>1, <3>2, <3>3 DEF StartPass
  <2>3. \A c \in Starts(2 * insize) : ~(c < 0)
    BY <1>4, StartFacts
  <2>4. \A c \in Starts(insize) : Sorted(s, c, insize)'
    <3>1. \A c, w : Sorted(s, c, w)' <=> Sorted(s, c, w)
      BY <1>3, SortKept
    <3> QED
      BY <1>2, <1>3, <3>1 DEF SortedPass
  <2>5. nmerges' = 0 /\ ~(nmerges' = 1)
    BY DEF StartPass
  <2> QED
    BY <1>3, <1>5, <2>1, <2>2, <2>3, <2>4, <2>5 DEF Between
<1>7. s \in Orders' /\ stage' = "merge" /\ 0 \in 0 .. len'
  BY <1>3, <1>4, SortKept DEF StartPass
<1> QED
  BY <1>1, <1>6, <1>7 DEF SortInv

\* A merge starts: stepping insize places along splits the rest behind the first block, or
\* at the end of the list.
LEMMA StartMergeStep == ASSUME SortInv, StartMerge PROVE SortInv'
<1>1. PICK s \in Orders, m \in 0 .. len : Between(s, m)
  BY DEF SortInv, StartMerge
<1>2. len' = len /\ key' = key /\ next' = next /\ compared' = compared /\ insize' = insize
  BY DEF StartMerge
<1>3. SortTypes /\ len \in Nat /\ insize \in Nat \ {0} /\ m \in Nat /\ next \in [Nodes -> Nodes \cup {NULL}]
  BY DEF SortInv, SortTypes
<1>4. \A i : i \in Nodes <=> i \in Nat /\ i > 0 /\ i <= len
  BY <1>3 DEF Nodes
<1>5. \A i \in Nat : Place(s, i) # NULL <=> i \in Nodes
  BY <1>3, OrderFacts DEF Place
<1>6. p = Place(s, m + 1) /\ p = s[m + 1] /\ m + 1 \in Nodes /\ m < len
  <2>1. p = Place(s, m + 1) /\ p # NULL
    BY <1>1 DEF Between, StartMerge
  <2>2. m + 1 \in Nodes
    BY <1>3, <1>5, <2>1
  <2>3. m < len
    BY <1>3, <1>4, <2>2
  <2> QED
    BY <2>1, <2>2, <2>3 DEF Place
<1>7. m \in Starts(2 * insize) /\ m \in Starts(insize) /\ m + insize \in Starts(insize)
  BY <1>1, <1>3, <1>6, StartFacts DEF Between
<1>8. \A k \in Nat : along(p, k) = Place(s, (m + 1) + k)
  <2>1. m + 1 \in 1 .. len + 1 /\ len + 1 \in 1 .. len + 1
    BY <1>3
  <2>2. Linked(s, m + 1, len + 1)
    BY <1>1 DEF Between
  <2> QED
    BY <1>3, <1>6, <2>1, <2>2, Follows
<1> DEFINE w == IF m + insize <= len THEN insize ELSE len - m
<1>9. psize' = w
  <2> DEFINE ends == {k \in 1 .. insize : k = insize \/ along(p, k) = NULL}
  <2>1. ASSUME NEW k \in 1 .. insize
        PROVE  along(p, k) = NULL <=> (m + 1) + k > len
    <3>1. k \in Nat /\ (m + 1) + k \in Nat /\ (m + 1) + k > 0
      BY <1>3
    <3>2. along(p, k) = NULL <=> (m + 1) + k \notin Nodes
      BY <1>5, <1>8, <3>1
    <3> QED
      BY <1>3, <1>4, <3>1, <3>2
  <2>2. w \in ends
    <3>1. w \in 1 .. insize
      BY <1>3, <1>6
    <3>2. w # insize => (m + 1) + w > len
      BY <1>3, <1>6
    <3> HIDE DEF w
    <3> QED
      BY <2>1, <3>1, <3>2
  <2>3. \A k \in ends : w <= k
    <3> SUFFICES ASSUME NEW k \in ends PROVE w <= k
      OBVIOUS
    <3>1. k \in 1 .. insize /\ (k = insize \/ (m + 1) + k > len)
      BY <2>1
    <3> HIDE DEF ends
    <3> QED
      BY <1>3, <1>6, <3>1
  <2>4. ends \in SUBSET Int
    OBVIOUS
  <2>5. psize' = Min(ends)
    BY DEF StartMerge
  <2> HIDE DEF ends, w
  <2>6. \A x \in ends : (\A y \in ends : x =< y) => x = w
    <3> SUFFICES ASSUME NEW x \in ends, \A y \in ends : x =< y PROVE x = w
      OBVIOUS
    <3>1. x <= w /\ w <= x /\ x \in Int /\ w \in Int
      BY <2>2, <2>3, <2>4
    <3> QED
      BY <3>1
  <2>7. Min(ends) = w
    <3>1. \E x \in ends : \A y \in ends : x =< y
      BY <2>2, <2>3
    <3> QED
      BY <2>6, <3>1, Zenon DEF Min
  <2> QED
    BY <2>5, <2>7
<1>10. PICK r \in Nat, y \in Nat, e \in Nat :
       /\ r = m + w /\ y = r + insize /\ e = m + 2 * insize
       /\ w \in Nat /\ w > 0 /\ w <= insize
       /\ m < r /\ r <= m + insize /\ r <= len /\ y <= e
       /\ r < len => w = insize /\ y = e /\ r = m + insize
       /\ r + 1 = (m + 1) + w /\ (w # insize => (m + 1) + insize > len /\ r + 1 > len)
  <2>1. w \in Nat /\ m + w \in Nat /\ (m + w) + insize \in Nat /\ m + 2 * insize \in Nat
    BY <1>3, <1>6
  <2>2. LET r == m + w
            y == r + insize
            e == m + 2 * insize
        IN  /\ w > 0 /\ w <= insize
            /\ m < r /\ r <= m + insize /\ r <= len /\ y <= e
            /\ r < len => w = insize /\ y = e /\ r = m + insize
            /\ r + 1 = (m + 1) + w /\ (w # insize => (m + 1) + insize > len /\ r + 1 > len)
    BY <1>3, <1>6
  <2> HIDE DEF w
  <2> QED
    BY <2>1, <2>2
<1> HIDE DEF w
<1>11. q' = Place(s, r + 1)
  <2>1. q' = Place(s, (m + 1) + insize)
    BY <1>3, <1>8 DEF StartMerge
  <2>2. w # insize => Place(s, (m + 1) + insize) = NULL /\ Place(s, r + 1) = NULL
    BY <1>3, <1>4, <1>10 DEF Place
  <2> QED
    BY <1>10, <2>1, <2>2
<1>12. \A i \in Nodes : ~(m < i /\ i <= m)
  BY <1>3, <1>4
<1>13. \A i \in Nodes : m < i /\ i <= r => Stands(s, i, m, m + insize, r)
  <2>1. Sorted(s, m, insize)
    BY <1>1, <1>3, <1>7 DEF Between
  <2> QED
    BY <1>3, <1>4, <1>10, <2>1 DEF Sorted, Stands
<1>14. \A i \in Nodes : r < i /\ i <= y => Stands(s, i, m + insize, e, y)
  <2> SUFFICES ASSUME NEW i \in Nodes, r < i, i <= y
               PROVE  Stands(s, i, m + insize, e, y)
    OBVIOUS
  <2>1. r < len /\ r = m + insize /\ y = e
    BY <1>3, <1>4, <1>10
  <2>2. (m + insize) + insize = e
    BY <1>3, <1>10
  <2>3. Sorted(s, m + insize, insize)
    BY <1>1, <1>3, <1>7 DEF Between
  <2> QED
    BY <2>1, <2>2, <2>3 DEF Sorted
<1>15. Seen(m, insize) /\ Seen(m + insize, insize)
  BY <1>1, <1>3, <1>7 DEF Between, Sorted
<1>16. /\ \A c \in Starts(2 * insize) : c < m => Sorted(s, c, 2 * insize)
       /\ \A c \in Starts(insize) : e <= c => Sorted(s, c, insize)
  <2>1. \A c \in Starts(insize) : e <= c => m <= c
    <3>1. \A c \in Starts(insize) : c \in Nat
      BY <1>3, StartFacts
    <3> QED
      BY <1>3, <1>10, <3>1
  <2> QED
    BY <1>1, <2>1 DEF Between
<1>17. EndsAt(s, m) /\ Linked(s, m + 1, r) /\ Linked(s, r + 1, len + 1)
  <2>1. EndsAt(s, m) /\ Linked(s, m + 1, len + 1)
    BY <1>1 DEF Between
  <2> QED
    BY <1>3, <1>4, <1>10, <2>1 DEF Linked
<1>18. Merging(s, m, m)'
  <2>1. \A a, z : Linked(s, a, z)' <=> Linked(s, a, z)
    BY <1>2, SortKept
  <2>2. \A c, v : (Sorted(s, c, v)' <=> Sorted(s, c, v)) /\ (Seen(c, v)' <=> Seen(c, v))
    BY <1>2, SortKept
  <2>3. \A i, a, z, v : Stands(s, i, a, z, v)' <=> Stands(s, i, a, z, v)
    BY <1>2, SortKept
  <2>4. Nodes' = Nodes /\ Place(s, r + 1)' = Place(s, r + 1)
    BY <1>2, SortKept
  <2>5. list' = list /\ tail' = tail /\ p' = p /\ qsize' = insize /\ nmerges' = nmerges + 1
    BY DEF StartMerge
  <2>6. EndsAt(s, m)'
    BY <1>2, <1>17, <2>1, <2>5 DEF EndsAt
  <2>7. nmerges' > 0 /\ (nmerges' = 1 => m = 0)
    <3>1. nmerges \in Nat /\ (nmerges = 0 <=> m = 0)
      BY <1>1, <1>3 DEF SortTypes, Between
    <3> QED
      BY <2>5, <3>1
  <2>8. m + psize' = r /\ r + qsize' = y /\ m + 2 * insize' = e /\ psize' > 0 /\ qsize' = insize'
    BY <1>2, <1>9, <1>10, <2>5
  <2>9. m <= m /\ ~(m > m)
    BY <1>3
  <2>10. m \in Starts(2 * insize') /\ r <= len' /\ y <= e /\ (r < len' => y = e) /\ p' = s[m + 1] /\ m < len'
    BY <1>2, <1>6, <1>7, <1>10, <2>5
  <2>11. q' = Place(s, r + 1)'
    BY <1>11, <2>4
  <2>12. Linked(s, m + 1, r)' /\ Linked(s, r + 1, len + 1)'
    <3>1. Linked(s, m + 1, r)' <=> Linked(s, m + 1, r)
      BY <2>1
    <3>2. Linked(s, r + 1, len + 1)' <=> Linked(s, r + 1, len + 1)
      BY <1>2, <2>1
    <3> QED
      BY <1>17, <3>1, <3>2
  <2>13. /\ \A i \in Nodes' : m < i /\ i <= m => Stands(s, i, m, e, y)'
         /\ \A i \in Nodes' : m < i /\ i <= r => Stands(s, i, m, m + insize, r)'
         /\ \A i \in Nodes' : r < i /\ i <= y => Stands(s, i, m + insize, e, y)'
    <3>1. \A i : Stands(s, i, m, m + insize, r)' <=> Stands(s, i, m, m + insize, r)
      BY <1>2, <2>3
    <3>2. \A i : Stands(s, i, m + insize, e, y)' <=> Stands(s, i, m + insize, e, y)
      BY <1>2, <2>3
    <3> QED
      BY <1>12, <1>13, <1>14, <2>4, <3>1, <3>2
  <2>14. Seen(m, insize)' /\ Seen(m + insize, insize)'
    BY <1>2, <1>15, <2>2
  <2>15. /\ \A c \in Starts(2 * insize') : c < m => Sorted(s, c, 2 * insize)'
         /\ \A c \in Starts(insize') : e <= c => Sorted(s, c, insize)'
    BY <1>2, <1>16, <2>2
  <2> QED
    BY <2>6, <2>7, <2>8, <2>9, <2>10, <2>11, <2>12, <2>13, <2>14, <2>15 DEF Merging
<1>19. SortTypes'
  <2>1. psize' \in Nat /\ qsize' \in Nat /\ nmerges' \in Nat /\ Nodes' = Nodes
    BY <1>2, <1>3, <1>9, <1>10, SortKept DEF StartMerge, SortTypes
  <2> QED
    BY <1>2, <1>3, <2>1 DEF SortTypes
<1>20. s \in Orders' /\ stage' = "take" /\ m \in 0 .. len'
  BY <1>2, <1>3, SortKept DEF StartMerge
<1> QED
  BY <1>18, <1>19, <1>20 DEF SortInv

\* A merge ends when both blocks are used up; the second one is, at its size or at the end
\* of the list.
LEMMA EndMergeStep == ASSUME SortInv, EndMerge PROVE SortInv'
<1>1. PICK s \in Orders, m \in 0 .. len, b \in 0 .. len : Merging(s, m, b)
  BY DEF SortInv, EndMerge
<1>2. /\ len' = len /\ key' = key /\ next' = next /\ compared' = compared /\ insize' = insize
      /\ list' = list /\ tail' = tail /\ nmerges' = nmerges /\ p' = q
  BY DEF EndMerge
<1>3. /\ len \in Nat /\ insize \in Nat \ {0} /\ m \in Nat /\ b \in Nat /\ psize \in Nat /\ qsize \in Nat /\ nmerges \in Nat
      /\ 2 * insize \in Nat \ {0}
  BY DEF SortInv, SortTypes
<1>4. \A i : i \in Nodes <=> i \in Nat /\ i > 0 /\ i <= len
  BY <1>3 DEF Nodes
<1>5. PICK y \in Nat, e \in Nat : y = m + qsize /\ e = b + 2 * insize
  BY <1>3
<1>6. psize = 0 /\ m + psize = m
  BY <1>3 DEF EndMerge, more_p
<1>7. /\ EndsAt(s, m) /\ b \in Starts(2 * insize) /\ b < len /\ b <= m
      /\ y <= e /\ (m < len => y = e)
      /\ nmerges > 0 /\ (nmerges = 1 => b = 0)
      /\ q = Place(s, m + 1) /\ Linked(s, m + 1, len + 1)
      /\ \A i \in Nodes : b < i /\ i <= m => Stands(s, i, b, e, y)
      /\ ~(m = b) /\ (m > b => Seen(b, 2 * insize))
      /\ \A c \in Starts(2 * insize) : c < b => Sorted(s, c, 2 * insize)
      /\ \A c \in Starts(insize) : e <= c => Sorted(s, c, insize)
  <2>1. ~(psize > 0)
    BY <1>3, <1>6
  <2> QED
    BY <1>1, <1>5, <1>6, <2>1, Zenon DEF Merging
<1>8. b < m /\ m <= y /\ Seen(b, 2 * insize)
  BY <1>3, <1>5, <1>7
\* The second block is at its end.
<1>9. m = len \/ m = e
  <2>1. CASE qsize = 0
    BY <1>3, <1>5, <1>7, <2>1
  <2>2. CASE q = NULL
    <3>1. m + 1 \notin Nodes
      BY <1>3, <1>7, <2>2, OrderFacts DEF Place
    <3> QED
      BY <1>3, <1>4, <3>1
  <2> QED
    BY <1>3, <2>1, <2>2 DEF EndMerge, more_q
<1>10. Sorted(s, b, 2 * insize)
  <2> SUFFICES ASSUME NEW i \in Nodes, b < i, i <= e
               PROVE  Stands(s, i, b, e, e)
    BY <1>5, <1>8 DEF Sorted
  <2>1. i <= m
    BY <1>3, <1>4, <1>9
  <2>2. \A j \in Nodes : j <= e => j <= y
    BY <1>3, <1>4, <1>8, <1>9
  <2> QED
    BY <1>7, <2>1, <2>2 DEF Stands
<1>11. \A c \in Starts(2 * insize) : c < m => Sorted(s, c, 2 * insize)
  <2> SUFFICES ASSUME NEW c \in Starts(2 * insize), c < m, ~(c < b)
               PROVE  c = b
    BY <1>7, <1>10
  <2>1. c \in Nat /\ (b < c => e <= c)
    BY <1>3, <1>5, <1>7, StartFacts
  <2> QED
    BY <1>3, <1>7, <1>8, <2>1
<1>12. \A c \in Starts(insize) : m <= c => Sorted(s, c, insize)
  <2> SUFFICES ASSUME NEW c \in Starts(insize), m <= c
               PROVE  Sorted(s, c, insize)
    OBVIOUS
  <2>1. c \in Nat
    BY <1>3, StartFacts
  <2>2. CASE m = len
    BY <1>3, <2>1, <2>2, SortedBehind
  <2>3. CASE m = e
    BY <1>7, <2>3
  <2> QED
    BY <1>9, <2>2, <2>3
<1>13. m < len => m \in Starts(2 * insize)
  <2>1. m < len => m = e
    BY <1>3, <1>9
  <2>2. b + 2 * insize \in Starts(2 * insize)
    BY <1>3, <1>7, StartFacts
  <2> QED
    BY <1>5, <2>1, <2>2
<1>14. (nmerges = 0 <=> m = 0) /\ (nmerges = 1 => m <= 2 * insize)
  BY <1>3, <1>5, <1>7, <1>8
<1>15. Between(s, m)'
  <2>1. \A a, z : Linked(s, a, z)' <=> Linked(s, a, z)
    BY <1>2, SortKept
  <2>2. Linked(s, 1, m)' <=> Linked(s, 1, m)
    BY <2>1
  <2>3. Linked(s, m + 1, len + 1)' <=> Linked(s, m + 1, len + 1)
    BY <1>2, <2>1
  <2>4. \A c, v : Sorted(s, c, v)' <=> Sorted(s, c, v)
    BY <1>2, SortKept
  <2>5. EndsAt(s, m)'
    BY <1>2, <1>7, <2>2 DEF EndsAt
  <2>6. Place(s, m + 1)' = Place(s, m + 1)
    BY <1>2, SortKept
  <2>7. \A c : (Sorted(s, c, insize)' <=> Sorted(s, c, insize)) /\ (Sorted(s, c, 2 * insize)' <=> Sorted(s, c, 2 * insize))
    BY <1>2, <2>4
  <2> QED
    BY <1>2, <1>7, <1>11, <1>12, <1>13, <1>14, <2>3, <2>5, <2>6, <2>7 DEF Between
<1>16. SortTypes'
  BY SortStepTypes DEF SortInv
<1>17. s \in Orders' /\ stage' = "merge" /\ m \in 0 .. len'
  BY <1>2, <1>3, SortKept DEF EndMerge
<1> QED
  BY <1>15, <1>16, <1>17 DEF SortInv

\* A pass ends with a list of blocks twice as long, or of a single one.
LEMMA EndPassStep == ASSUME SortInv, EndPass PROVE SortInv'
<1>1. PICK s \in Orders, m \in 0 .. len : Between(s, m)
  BY DEF SortInv, EndPass
<1>2. len' = len /\ key' = key /\ compared' = compared /\ list' = list
  BY DEF EndPass
<1>3. /\ SortTypes /\ len \in Nat /\ insize \in Nat \ {0} /\ m \in Nat /\ nmerges \in Nat
      /\ next \in [Nodes -> Nodes \cup {NULL}] /\ 2 * insize \in Nat \ {0}
  BY DEF SortInv, SortTypes
<1>4. \A i : i \in Nodes <=> i \in Nat /\ i > 0 /\ i <= len
  BY <1>3 DEF Nodes
<1>5. m = len
  <2>1. p = Place(s, m + 1) /\ p = NULL
    BY <1>1 DEF Between, EndPass
  <2>2. m + 1 \notin Nodes
    BY <1>3, <2>1, OrderFacts DEF Place
  <2> QED
    BY <1>3, <1>4, <2>2
<1>6. len > 0 /\ len \in Nodes /\ 1 \in Nodes
  <2>1. m # 0
    BY <1>1 DEF Between, EndsAt, EndPass
  <2> QED
    BY <1>3, <1>4, <1>5, <2>1
<1>7. tail = s[len] /\ list = s[1] /\ Linked(s, 1, len)
  BY <1>1, <1>5, <1>6 DEF Between, EndsAt
<1>8. next' = [next EXCEPT ![s[len]] = NULL] /\ s[len] \in Nodes
  BY <1>3, <1>6, <1>7, OrderFacts DEF EndPass, terminated
<1>9. Linked(s, 1, len + 1)'
  <2>1. Nodes' = Nodes /\ \A i : Place(s, i)' = Place(s, i)
    BY <1>2, SortKept
  <2> SUFFICES ASSUME NEW i \in Nodes PROVE next'[s[i]] = Place(s, i + 1)
    BY <2>1 DEF Linked
  <2>2. s[i] \in Nodes /\ \A j \in Nodes : s[i] = s[j] => i = j
    BY <1>3, OrderFacts
  <2>3. CASE i = len
    <3>1. i + 1 \notin Nodes
      BY <1>3, <1>4, <2>3
    <3> QED
      BY <1>3, <1>8, <2>3, <3>1 DEF Place
  <2>4. CASE i # len
    <3>1. 1 <= i /\ i < len
      BY <1>3, <1>4, <2>4
    <3>2. next[s[i]] = Place(s, i + 1)
      BY <1>7, <3>1 DEF Linked
    <3>3. s[i] # s[len]
      BY <1>6, <2>2, <2>4
    <3> QED
      BY <1>3, <1>8, <2>2, <3>2, <3>3
  <2> QED
    BY <2>3, <2>4
<1>10. list' = Place(s, 1)'
  BY <1>2, <1>6, <1>7, SortKept DEF Place
<1>11. \A c \in Starts(2 * insize) : Sorted(s, c, 2 * insize)
  <2> SUFFICES ASSUME NEW c \in Starts(2 * insize)
               PROVE  Sorted(s, c, 2 * insize)
    OBVIOUS
  <2>1. c \in Nat
    BY <1>3, StartFacts
  <2>2. CASE c < m
    BY <1>1, <2>2 DEF Between
  <2>3. CASE len <= c
    BY <1>3, <2>1, <2>3, SortedBehind
  <2> QED
    BY <1>3, <1>5, <2>1, <2>2, <2>3
<1>12. \A c, v : Sorted(s, c, v)' <=> Sorted(s, c, v)
  BY <1>2, SortKept
<1>13. SortTypes'
  <2>1. next' \in [Nodes -> Nodes \cup {NULL}]
    BY <1>3, <1>8
  <2>2. insize' \in Nat \ {0}
    BY <1>3 DEF EndPass, grown
  <2>3. Nodes' = Nodes /\ nmerges' = nmerges /\ psize' = psize /\ qsize' = qsize
    BY <1>2, SortKept DEF EndPass
  <2> QED
    BY <1>2, <1>3, <2>1, <2>2, <2>3 DEF SortTypes
<1>14. s \in Orders'
  BY <1>2, SortKept
<1>15. CASE one_merge
  <2>1. stage' = "done"
    BY <1>15 DEF EndPass
  <2>2. len <= 2 * insize
    <3>1. nmerges # 0 /\ (nmerges = 1 => m <= 2 * insize)
      BY <1>1, <1>5, <1>6 DEF Between
    <3>2. nmerges = 1
      BY <1>3, <1>15, <3>1 DEF one_merge
    <3> QED
      BY <1>5, <3>1, <3>2
  <2>3. Sorted(s, 0, 2 * insize)
    BY <1>3, <1>11, StartFacts
  <2>4. \A n \in Nodes : n <= 0 + 2 * insize /\ n <= 0 + len
    BY <1>3, <1>4, <2>2
  <2>5. Seen(0, len)
    <3>1. Alone(0, 2 * insize) => Alone(0, len)
      BY <1>3 DEF Alone
    <3> QED
      BY <2>3, <2>4, <3>1 DEF Sorted, Seen
  <2>6. \A i \in Nodes : s[i] \in Nodes
    BY <1>3, OrderFacts
  <2>7. Sorted(s, 0, len)
    BY <2>3, <2>4, <2>5, <2>6 DEF Sorted, Stands
  <2>8. Sorted(s, 0, len)'
    BY <1>2, <1>12, <2>7
  <2> QED
    BY <1>9, <1>10, <1>13, <1>14, <2>1, <2>8 DEF SortInv, SortedAll
<1>16. CASE ~one_merge
  <2>1. stage' = "pass" /\ insize' = 2 * insize
    BY <1>16 DEF EndPass, grown
  <2>2. \A c \in Starts(insize') : Sorted(s, c, insize)'
    BY <1>11, <1>12, <2>1
  <2> QED
    BY <1>9, <1>10, <1>13, <1>14, <2>1, <2>2 DEF SortInv, SortedPass
<1> QED
  BY <1>15, <1>16

\* The first comparison of a merge takes in the only nodes that nothing compared before: those
\* alone in their block, which are its first.
LEMMA FirstCompared ==
  ASSUME SortTypes, NEW s \in Orders, NEW m \in 0 .. len, NEW b \in 0 .. len, Merging(s, m, b),
         len' = len, insize' = insize, compared' \in SUBSET Nodes, compared \subseteq compared',
         psize > 0 /\ more_q => p \in compared' /\ q \in compared'
  PROVE  Seen(b, 2 * insize)'
<1>1. /\ len \in Nat /\ insize \in Nat \ {0} /\ m \in Nat /\ b \in Nat /\ psize \in Nat /\ qsize \in Nat
      /\ Nodes' = Nodes /\ \A i : i \in Nodes <=> i \in Nat /\ i > 0 /\ i <= len
  BY DEF SortTypes, Nodes
<1>2. CASE m > b
  <2>1. Seen(b, 2 * insize)
    BY <1>2 DEF Merging
  <2> QED
    BY <1>1, <2>1 DEF Seen, Alone
<1>3. CASE m = b
  <2> DEFINE r == m + psize
             e == b + 2 * insize
  <2>1. psize > 0 /\ qsize = insize /\ Seen(b, insize) /\ Seen(b + insize, insize)
    BY <1>3 DEF Merging
  <2>2. /\ r <= len /\ r + qsize <= e /\ (r < len => r + qsize = e) /\ p = s[m + 1] /\ q = Place(s, r + 1)
        /\ \A i \in Nodes : m < i /\ i <= r => Stands(s, i, b, b + insize, r)
        /\ \A i \in Nodes : r < i /\ i <= r + qsize => Stands(s, i, b + insize, e, r + qsize)
    BY <2>1 DEF Merging
  <2>3. r \in Nat /\ m < r /\ m + 1 <= r /\ m + 1 \in Nodes /\ r <= b + insize
    BY <1>1, <1>3, <2>1, <2>2
  \* The two heads, if there are two blocks.
  <2>4. ASSUME r < len
        PROVE  /\ p \in compared' /\ q \in compared' /\ p = s[m + 1] /\ q = s[r + 1] /\ p \in Nodes /\ q \in Nodes
               /\ b < p /\ p <= b + insize /\ b + insize < q /\ q <= e
    <3>1. r + 1 \in Nodes /\ r + 1 <= r + qsize
      BY <1>1, <2>1, <2>3, <2>4
    <3>2. q = s[r + 1] /\ q \in Nodes /\ q # NULL /\ s[m + 1] \in Nodes
      BY <1>1, <2>2, <2>3, <3>1, OrderFacts DEF Place
    <3>3. more_q
      BY <1>1, <2>1, <3>2 DEF more_q
    <3>4. Stands(s, m + 1, b, b + insize, r) /\ Stands(s, r + 1, b + insize, e, r + qsize)
      <4>1. m < m + 1 /\ r < r + 1
        BY <1>1, <2>3
      <4> QED
        BY <2>2, <2>3, <3>1, <4>1
    <3> QED
      BY <2>1, <2>2, <3>2, <3>3, <3>4 DEF Stands
  <2> SUFFICES ASSUME NEW n \in Nodes, b < n, n <= e, n \notin compared', len # b + 1
               PROVE  FALSE
    BY <1>1 DEF Seen, Alone
  <2>5. n \notin compared /\ n \in Nat /\ n > 0 /\ n <= len
    BY <1>1
  <2>6. CASE n <= b + insize
    <3>1. insize = 1
      BY <2>1, <2>5, <2>6 DEF Seen, Alone
    <3>2. r < len /\ n = b + 1
      BY <1>1, <2>3, <2>5, <2>6, <3>1
    <3>3. p = n
      BY <1>1, <2>4, <3>1, <3>2
    <3> QED
      BY <2>4, <3>2, <3>3
  <2>7. CASE b + insize < n
    <3>1. insize = 1 \/ len = (b + insize) + 1
      <4>1. (b + insize) + insize = e
        BY <1>1
      <4> QED
        BY <2>1, <2>5, <2>7, <4>1 DEF Seen, Alone
    <3>2. r < len
      BY <1>1, <2>3, <2>5, <2>7
    <3>3. q = n
      BY <1>1, <2>4, <2>5, <2>7, <3>1, <3>2
    <3> QED
      BY <2>4, <3>2, <3>3
  <2> QED
    BY <1>1, <2>5, <2>6, <2>7
<1>4. b <= m
  BY DEF Merging
<1> QED
  BY <1>1, <1>2, <1>3, <1>4

\* A node of the first block is taken, in the place where it stands: it is not behind the head
\* of the second block, and the nodes of the first block began before those of the second.
LEMMA TakeFromPStep == ASSUME SortInv, TakeFromP PROVE SortInv'
<1>1. PICK s \in Orders, m \in 0 .. len, b \in 0 .. len : Merging(s, m, b)
  BY DEF SortInv, TakeFromP
<1>2. /\ len' = len /\ key' = key /\ insize' = insize /\ nmerges' = nmerges
      /\ qsize' = qsize /\ q' = q /\ compared \subseteq compared'
  BY DEF TakeFromP
<1>3. /\ SortTypes /\ len \in Nat /\ insize \in Nat \ {0} /\ m \in Nat /\ b \in Nat /\ psize \in Nat /\ qsize \in Nat
      /\ nmerges \in Nat /\ key \in [Nodes -> Int] /\ next \in [Nodes -> Nodes \cup {NULL}] /\ compared \in SUBSET Nodes
  BY DEF SortInv, SortTypes
<1>4. \A i : i \in Nodes <=> i \in Nat /\ i > 0 /\ i <= len
  BY <1>3 DEF Nodes
<1>5. /\ \A i \in Nodes : s[i] \in Nodes /\ s[i] # NULL
      /\ \A i, j \in Nodes : s[i] = s[j] => i = j
  BY <1>3, OrderFacts
<1>6. PICK r \in Nat, y \in Nat, e \in Nat : r = m + psize /\ y = r + qsize /\ e = b + 2 * insize
  BY <1>3
<1>7. psize > 0
  BY DEF TakeFromP, more_p
<1>8. /\ EndsAt(s, m) /\ b \in Starts(2 * insize) /\ b < len /\ b <= m
      /\ r <= len /\ y <= e /\ (r < len => y = e)
      /\ nmerges > 0 /\ (nmerges = 1 => b = 0)
      /\ p = s[m + 1] /\ q = Place(s, r + 1)
      /\ Linked(s, m + 1, r) /\ Linked(s, r + 1, len + 1)
  BY <1>1, <1>6, <1>7, Zenon DEF Merging
<1>9. /\ \A i \in Nodes : b < i /\ i <= m => Stands(s, i, b, e, y)
      /\ \A i \in Nodes : m < i /\ i <= r => Stands(s, i, b, b + insize, r)
      /\ \A i \in Nodes : r < i /\ i <= y => Stands(s, i, b + insize, e, y)
      /\ \A c \in Starts(2 * insize) : c < b => Sorted(s, c, 2 * insize)
      /\ \A c \in Starts(insize) : e <= c => Sorted(s, c, insize)
  BY <1>1, <1>6, <1>7, Zenon DEF Merging
<1>10. m + 1 \in Nodes /\ m < r /\ m + 1 <= r /\ p \in Nodes /\ m \in 0 .. len - 1 /\ (m > 0 => m \in Nodes)
  <2>1. m + 1 \in Nodes /\ m < r /\ m + 1 <= r /\ m \in 0 .. len - 1 /\ (m > 0 => m \in Nodes)
    BY <1>3, <1>4, <1>6, <1>7, <1>8
  <2> QED
    BY <1>5, <1>8, <2>1
<1>11. /\ EndsAt(s, m + 1)'
       /\ next' \in [Nodes -> Nodes \cup {NULL}]
       /\ \A d \in Nodes : (m > 0 => d # s[m]) => next'[d] = next[d]
  <2>1. Append1(p, next)
    BY DEF TakeFromP
  <2> HIDE DEF Append1, EndsAt
  <2> QED
    BY <1>2, <1>3, <1>8, <1>10, <2>1, Appended
<1>12. Nodes' = Nodes /\ \A i : Place(s, i)' = Place(s, i)
  BY <1>2, SortKept
<1>13. \A i, a, z, v : Stands(s, i, a, z, v)' <=> Stands(s, i, a, z, v)
  BY <1>2, SortKept
<1>14. Linked(s, m + 2, r)' /\ Linked(s, r + 1, len + 1)'
  <2>1. ASSUME NEW i \in Nodes, m < i
        PROVE  next'[s[i]] = next[s[i]]
    <3>1. m > 0 => s[i] # s[m]
      BY <1>3, <1>5, <1>10, <2>1
    <3> QED
      BY <1>5, <1>11, <3>1
  <2>2. \A i \in Nodes : (m + 2 <= i => m < i /\ m + 1 <= i) /\ (r + 1 <= i => m < i)
    BY <1>3, <1>4, <1>10
  <2> QED
    BY <1>2, <1>8, <1>12, <2>1, <2>2 DEF Linked
<1>15. compared' \in SUBSET Nodes /\ (psize > 0 /\ more_q => p \in compared' /\ q \in compared')
  <2>1. more_q => q \in Nodes
    BY <1>3, <1>5, <1>8 DEF more_q, Place
  <2> QED
    BY <1>3, <1>10, <2>1 DEF TakeFromP
<1>16. Seen(b, 2 * insize)'
  BY <1>1, <1>2, <1>3, <1>15, FirstCompared
\* The node that is taken stands before those behind it.
<1>17. Stands(s, m + 1, b, e, y)
  <2>1. Stands(s, m + 1, b, b + insize, r)
    BY <1>3, <1>9, <1>10
  <2>2. b < p /\ p <= b + insize /\ p <= e
    <3>1. b + insize <= e /\ p \in Nat
      BY <1>3, <1>4, <1>6, <1>10
    <3> QED
      BY <1>3, <1>6, <1>8, <2>1, <3>1 DEF Stands
  <2>3. ASSUME NEW j \in Nodes, m + 1 < j, j <= y
        PROVE  InOrder(p, s[j])
    <3>1. CASE j <= r
      BY <1>8, <2>1, <2>3, <3>1 DEF Stands
    <3>2. CASE r < j
      <4>1. r + 1 \in Nodes /\ r + 1 <= y /\ r < r + 1 /\ r + 1 <= j /\ qsize > 0
        BY <1>3, <1>4, <1>6, <2>3, <3>2
      <4>2. q = s[r + 1] /\ q \in Nodes /\ q # NULL
        BY <1>5, <1>8, <4>1 DEF Place
      <4>3. key[p] <= key[q]
        BY <4>1, <4>2 DEF TakeFromP, more_q, first_is_lower
      <4>4. Stands(s, r + 1, b + insize, e, y)
        BY <1>9, <4>1
      <4>5. InOrder(p, q)
        <5>1. p < q
          <6>1. b + insize < q /\ p \in Nat /\ q \in Nat
            BY <1>4, <1>10, <4>2, <4>4 DEF Stands
          <6> QED
            BY <1>3, <2>2, <6>1
        <5>2. key[p] \in Int /\ key[q] \in Int
          BY <1>3, <1>10, <4>2
        <5> QED
          BY <4>3, <5>1, <5>2 DEF InOrder
      <4>6. CASE j = r + 1
        BY <4>2, <4>5, <4>6
      <4>7. CASE j # r + 1
        <5>1. r + 1 < j
          BY <1>3, <1>4, <4>1, <4>7
        <5>2. InOrder(q, s[j])
          BY <2>3, <4>2, <4>4, <5>1 DEF Stands
        <5> QED
          BY <1>3, <1>5, <1>10, <4>2, <4>5, <5>2, InOrderTransitive
      <4> QED
        BY <4>6, <4>7
    <3> QED
      BY <1>3, <1>4, <3>1, <3>2
  <2> QED
    BY <1>8, <2>2, <2>3 DEF Stands
<1>18. Merging(s, m + 1, b)'
  <2>1. (m + 1) + psize' = r /\ r + qsize' = y /\ b + 2 * insize' = e /\ m + 1 # b /\ b <= m + 1 /\ (m + 1) + 1 = m + 2
    BY <1>2, <1>3, <1>6, <1>8 DEF TakeFromP
  <2>2. psize' > 0 => p' = s[m + 2]
    <3> SUFFICES ASSUME psize' > 0 PROVE next[s[m + 1]] = s[m + 2]
      BY <1>8 DEF TakeFromP
    <3>1. m + 1 < r /\ m + 2 \in Nodes /\ (m + 1) + 1 = m + 2
      BY <1>3, <1>4, <1>6, <1>8 DEF TakeFromP
    <3> QED
      BY <1>8, <1>10, <3>1 DEF Linked, Place
  <2>3. q' = Place(s, r + 1)'
    BY <1>2, <1>8, <1>12
  <2>4. \A i \in Nodes : b < i /\ i <= m + 1 => Stands(s, i, b, e, y)
    <3>1. \A i \in Nodes : i <= m + 1 => i <= m \/ i = m + 1
      BY <1>3, <1>4
    <3> QED
      BY <1>9, <1>17, <3>1
  <2>5. \A i \in Nodes : m + 1 < i => m < i
    BY <1>3, <1>4
  <2>6. \A i : /\ Stands(s, i, b, e, y)' <=> Stands(s, i, b, e, y)
               /\ Stands(s, i, b, b + insize, r)' <=> Stands(s, i, b, b + insize, r)
               /\ Stands(s, i, b + insize, e, y)' <=> Stands(s, i, b + insize, e, y)
    BY <1>2, <1>13
  <2>7. /\ \A i \in Nodes' : b < i /\ i <= m + 1 => Stands(s, i, b, e, y)'
        /\ \A i \in Nodes' : m + 1 < i /\ i <= r => Stands(s, i, b, b + insize, r)'
        /\ \A i \in Nodes' : r < i /\ i <= y => Stands(s, i, b + insize, e, y)'
    BY <1>9, <1>12, <2>4, <2>5, <2>6
  <2>8. /\ \A c \in Starts(2 * insize') : c < b => Sorted(s, c, 2 * insize)'
        /\ \A c \in Starts(insize') : e <= c => Sorted(s, c, insize)'
    <3>1. \A c \in Nat : /\ Sorted(s, c, 2 * insize) => Sorted(s, c, 2 * insize)'
                         /\ Sorted(s, c, insize) => Sorted(s, c, insize)'
      BY <1>2, StaysSorted
    <3>2. (\A c \in Starts(2 * insize) : c \in Nat) /\ (\A c \in Starts(insize) : c \in Nat)
      BY <1>3, StartFacts
    <3> QED
      BY <1>2, <1>9, <3>1, <3>2
  <2>9. Linked(s, m + 2, r)' /\ Linked(s, r + 1, len + 1)' /\ EndsAt(s, m + 1)' /\ Seen(b, 2 * insize)'
    BY <1>11, <1>14, <1>16
  <2>10. /\ b \in Starts(2 * insize') /\ b < len' /\ r <= len' /\ y <= e /\ (r < len' => y = e)
         /\ nmerges' > 0 /\ (nmerges' = 1 => b = 0)
    BY <1>2, <1>8
  <2> QED
    BY <2>1, <2>2, <2>3, <2>7, <2>8, <2>9, <2>10 DEF Merging
<1>19. SortTypes'
  <2>1. psize' \in Nat
    BY <1>3, <1>7 DEF TakeFromP
  <2> QED
    BY <1>2, <1>3, <1>11, <1>12, <1>15, <2>1 DEF SortTypes
<1>20. s \in Orders' /\ stage' = "take" /\ m + 1 \in 0 .. len' /\ b \in 0 .. len'
  BY <1>2, <1>3, <1>4, <1>10, SortKept DEF TakeFromP
<1> QED
  BY <1>18, <1>19, <1>20 DEF SortInv

\* A node of the second block is taken: it comes to the end of the merged list, and the rest of
\* the first block moves up.
LEMMA TakeFromQStep == ASSUME SortInv, TakeFromQ PROVE SortInv'
<1>1. PICK s \in Orders, m \in 0 .. len, b \in 0 .. len : Merging(s, m, b)
  BY DEF SortInv, TakeFromQ
<1>2. /\ len' = len /\ key' = key /\ insize' = insize /\ nmerges' = nmerges
      /\ psize' = psize /\ p' = p /\ compared \subseteq compared'
  BY DEF TakeFromQ
<1>3. /\ SortTypes /\ len \in Nat /\ insize \in Nat \ {0} /\ m \in Nat /\ b \in Nat /\ psize \in Nat /\ qsize \in Nat
      /\ nmerges \in Nat /\ key \in [Nodes -> Int] /\ next \in [Nodes -> Nodes \cup {NULL}] /\ compared \in SUBSET Nodes
  BY DEF SortInv, SortTypes
<1>4. \A i : i \in Nodes <=> i \in Nat /\ i > 0 /\ i <= len
  BY <1>3 DEF Nodes
<1>5. /\ \A i \in Nodes : s[i] \in Nodes /\ s[i] # NULL
      /\ \A i, j \in Nodes : s[i] = s[j] => i = j
  BY <1>3, OrderFacts
<1>6. PICK r \in Nat, y \in Nat, e \in Nat : r = m + psize /\ y = r + qsize /\ e = b + 2 * insize
  BY <1>3
<1>7. qsize > 0 /\ q # NULL
  BY DEF TakeFromQ, more_q
<1>8. /\ EndsAt(s, m) /\ b \in Starts(2 * insize) /\ b < len /\ b <= m
      /\ r <= len /\ y <= e /\ (r < len => y = e)
      /\ nmerges > 0 /\ (nmerges = 1 => b = 0)
      /\ (psize > 0 => p = s[m + 1]) /\ q = Place(s, r + 1)
      /\ Linked(s, m + 1, r) /\ Linked(s, r + 1, len + 1)
  BY <1>1, <1>6, <1>7, Zenon DEF Merging
<1>9. /\ \A i \in Nodes : b < i /\ i <= m => Stands(s, i, b, e, y)
      /\ \A i \in Nodes : m < i /\ i <= r => Stands(s, i, b, b + insize, r)
      /\ \A i \in Nodes : r < i /\ i <= y => Stands(s, i, b + insize, e, y)
      /\ \A c \in Starts(2 * insize) : c < b => Sorted(s, c, 2 * insize)
      /\ \A c \in Starts(insize) : e <= c => Sorted(s, c, insize)
  BY <1>1, <1>6, <1>7, Zenon DEF Merging
<1>10. r + 1 \in Nodes /\ q = s[r + 1] /\ q \in Nodes
  BY <1>5, <1>7, <1>8 DEF Place
<1>11. /\ r < len /\ y = e /\ m <= r /\ r < r + 1 /\ r + 1 <= y
       /\ m \in 0 .. len - 1 /\ r \in m .. len - 1 /\ m + 1 \in Nodes /\ (m > 0 => m \in Nodes)
  <2>1. r < len
    BY <1>3, <1>4, <1>10
  <2> QED
    BY <1>3, <1>4, <1>6, <1>7, <1>8, <2>1
<1>12. PICK t \in Orders :
       /\ t[m + 1] = q
       /\ \A i \in Nodes : i <= m \/ r + 1 < i => t[i] = s[i]
       /\ \A i \in Nodes : m < i /\ i <= r => i + 1 \in Nodes /\ t[i + 1] = s[i]
       /\ \A i \in Nodes : m + 1 < i /\ i <= r + 1 => i - 1 \in Nodes /\ t[i] = s[i - 1]
  <2> PICK t : t = Rotated(s, m, r)
    OBVIOUS
  <2>0. len \in Nat /\ m \in 0 .. len - 1 /\ r \in m .. len - 1
    BY <1>3, <1>11
  <2>1. /\ t \in Orders /\ t[m + 1] = s[r + 1]
        /\ \A i \in Nodes : i <= m \/ r + 1 < i => t[i] = s[i]
        /\ \A i \in Nodes : m < i /\ i <= r => i + 1 \in Nodes /\ t[i + 1] = s[i]
        /\ \A i \in Nodes : m + 1 < i /\ i <= r + 1 => i - 1 \in Nodes /\ t[i] = s[i - 1]
    BY <2>0, RotatedFacts
  <2> QED
    BY <1>10, <2>1
<1>13. /\ EndsAt(t, m + 1)'
       /\ next' \in [Nodes -> Nodes \cup {NULL}]
       /\ \A d \in Nodes : (m > 0 => d # s[m]) => next'[d] = next[d]
  <2>1. Append1(q, next)
    BY DEF TakeFromQ
  <2> HIDE DEF Append1, EndsAt
  <2> QED
    BY <1>2, <1>3, <1>8, <1>11, <1>12, <2>1, Appended
<1>14. Nodes' = Nodes /\ \A i : Place(t, i)' = Place(t, i)
  BY <1>2, SortKept
<1>15. \A i, a, z, v : Stands(t, i, a, z, v)' <=> Stands(t, i, a, z, v)
  BY <1>2, SortKept
<1>16. ASSUME NEW i \in Nodes, m < i
       PROVE  next'[s[i]] = next[s[i]]
  <2>1. m > 0 => s[i] # s[m]
    BY <1>3, <1>5, <1>11, <1>16
  <2> QED
    BY <1>5, <1>13, <2>1
<1>17. Linked(t, m + 2, r + 1)'
  <2> SUFFICES ASSUME NEW i \in Nodes, m + 2 <= i, i < r + 1
               PROVE  next'[t[i]] = Place(t, i + 1)
    BY <1>2, <1>14 DEF Linked
  <2>1. i - 1 \in Nodes /\ t[i] = s[i - 1]
    <3>1. m + 1 < i /\ i <= r + 1
      BY <1>3, <1>4
    <3> QED
      BY <1>12, <3>1
  <2>2. m < i - 1 /\ m + 1 <= i - 1 /\ i - 1 < r /\ (i - 1) + 1 = i /\ m < i /\ i <= r
    BY <1>3, <1>4
  <2>3. next'[t[i]] = Place(s, i)
    <3>1. next[s[i - 1]] = Place(s, (i - 1) + 1)
      BY <1>8, <2>1, <2>2 DEF Linked
    <3> QED
      BY <1>16, <2>1, <2>2, <3>1
  <2> QED
    BY <1>12, <2>2, <2>3 DEF Place
<1>18. Linked(t, r + 2, len + 1)'
  <2> SUFFICES ASSUME NEW i \in Nodes, r + 2 <= i, i < len + 1
               PROVE  next'[t[i]] = Place(t, i + 1)
    BY <1>2, <1>14 DEF Linked
  <2>1. r + 1 < i /\ r + 1 <= i /\ m < i /\ r + 1 < i + 1
    BY <1>3, <1>4, <1>11
  <2>2. next'[t[i]] = Place(s, i + 1)
    BY <1>8, <1>12, <1>16, <2>1 DEF Linked
  <2> QED
    BY <1>12, <2>1, <2>2 DEF Place
<1>19. compared' \in SUBSET Nodes /\ (psize > 0 /\ more_q => p \in compared' /\ q \in compared')
  <2>1. psize > 0 => p \in Nodes
    BY <1>5, <1>8, <1>11
  <2> QED
    BY <1>3, <1>10, <2>1 DEF TakeFromQ, more_p
<1>20. Seen(b, 2 * insize)'
  BY <1>1, <1>2, <1>3, <1>19, FirstCompared
\* What is taken stands before the rest of both blocks.
<1>21. b + insize < q /\ q <= e /\ b < q /\ \A j \in Nodes : r + 1 < j /\ j <= y => InOrder(q, s[j])
  <2>1. Stands(s, r + 1, b + insize, e, y)
    BY <1>9, <1>10, <1>11
  <2>2. b + insize < q /\ q <= e /\ \A j \in Nodes : r + 1 < j /\ j <= y => InOrder(q, s[j])
    BY <1>10, <2>1 DEF Stands
  <2>3. q \in Nat
    BY <1>4, <1>10
  <2>4. b < q
    BY <1>3, <2>2, <2>3
  <2> QED
    BY <2>2, <2>4
<1>22. \A j \in Nodes : m < j /\ j <= r => InOrder(q, s[j])
  <2> SUFFICES ASSUME NEW j \in Nodes, m < j, j <= r
               PROVE  InOrder(q, s[j])
    OBVIOUS
  <2>1. psize > 0 /\ p = s[m + 1] /\ p \in Nodes
    <3>1. psize > 0
      BY <1>3, <1>4, <1>6
    <3> QED
      BY <1>5, <1>8, <1>11, <3>1
  <2>2. InOrder(q, p)
    <3>1. ~(key[p] <= key[q])
      BY <2>1 DEF TakeFromQ, more_p, first_is_lower
    <3>2. key[p] \in Int /\ key[q] \in Int
      BY <1>3, <1>10, <2>1
    <3> QED
      BY <3>1, <3>2 DEF InOrder
  <2>3. CASE j = m + 1
    BY <2>1, <2>2, <2>3
  <2>4. CASE j # m + 1
    <3>1. m < m + 1 /\ m + 1 < j /\ m + 1 <= r
      BY <1>3, <1>4, <2>4
    <3>2. InOrder(p, s[j])
      BY <1>9, <1>11, <2>1, <3>1 DEF Stands
    <3> QED
      BY <1>3, <1>5, <1>10, <2>1, <2>2, <3>2, InOrderTransitive
  <2> QED
    BY <2>3, <2>4
<1>23. ASSUME NEW i \in Nodes, b < i, i <= m + 1
       PROVE  Stands(t, i, b, e, y)
  <2>1. CASE i = m + 1
    <3>1. ASSUME NEW j \in Nodes, i < j, j <= y
          PROVE  InOrder(q, t[j])
      <4>1. CASE j <= r + 1
        <5>1. m + 1 < j /\ m < j - 1 /\ j - 1 <= r
          BY <1>3, <1>4, <2>1, <3>1, <4>1
        <5> QED
          BY <1>12, <1>22, <4>1, <5>1
      <4>2. CASE r + 1 < j
        BY <1>12, <1>21, <3>1, <4>2
      <4> QED
        BY <1>3, <1>4, <4>1, <4>2
    <3> QED
      BY <1>12, <1>21, <2>1, <3>1 DEF Stands
  <2>2. CASE i <= m
    <3>1. t[i] = s[i] /\ Stands(s, i, b, e, y)
      BY <1>9, <1>12, <1>23, <2>2
    <3>2. ASSUME NEW j \in Nodes, i < j, j <= y
          PROVE  InOrder(s[i], t[j])
      <4>1. CASE j = m + 1
        <5>1. i < r + 1
          BY <1>3, <1>4, <1>11, <2>2
        <5> QED
          BY <1>10, <1>11, <1>12, <3>1, <4>1, <5>1 DEF Stands
      <4>2. CASE m + 1 < j /\ j <= r + 1
        <5>1. i < j - 1 /\ j - 1 <= y /\ j - 1 \in Nodes /\ t[j] = s[j - 1]
          <6>1. j - 1 \in Nodes /\ t[j] = s[j - 1]
            BY <1>12, <4>2
          <6>2. i < j - 1 /\ j - 1 <= y
            BY <1>3, <1>4, <1>11, <2>2, <4>2, <3>2
          <6> QED
            BY <6>1, <6>2
        <5> QED
          BY <3>1, <5>1 DEF Stands
      <4>3. CASE j <= m \/ r + 1 < j
        BY <1>12, <3>1, <3>2, <4>3 DEF Stands
      <4> QED
        BY <1>3, <1>4, <4>1, <4>2, <4>3
    <3> QED
      BY <3>1, <3>2 DEF Stands
  <2> QED
    BY <1>3, <1>4, <1>23, <2>1, <2>2
<1>24. ASSUME NEW i \in Nodes, m + 1 < i, i <= r + 1
       PROVE  Stands(t, i, b, b + insize, r + 1)
  <2>1. i - 1 \in Nodes /\ t[i] = s[i - 1] /\ m < i - 1 /\ i - 1 <= r
    <3>1. i - 1 \in Nodes /\ t[i] = s[i - 1]
      BY <1>12, <1>24
    <3>2. m < i - 1 /\ i - 1 <= r
      BY <1>3, <1>4, <1>24
    <3> QED
      BY <3>1, <3>2
  <2>2. Stands(s, i - 1, b, b + insize, r)
    BY <1>9, <2>1
  <2>3. ASSUME NEW j \in Nodes, i < j, j <= r + 1
        PROVE  InOrder(t[i], t[j])
    <3>1. m + 1 < j /\ i - 1 < j - 1 /\ j - 1 <= r
      BY <1>3, <1>4, <1>24, <2>3
    <3>2. j - 1 \in Nodes /\ t[j] = s[j - 1]
      BY <1>12, <2>3, <3>1
    <3> QED
      BY <2>1, <2>2, <3>1, <3>2 DEF Stands
  <2> QED
    BY <2>1, <2>2, <2>3 DEF Stands
<1>25. ASSUME NEW i \in Nodes, r + 1 < i, i <= y
       PROVE  Stands(t, i, b + insize, e, y)
  <2>1. Stands(s, i, b + insize, e, y) /\ t[i] = s[i]
    <3>1. r < i
      BY <1>3, <1>4, <1>25
    <3> QED
      BY <1>9, <1>12, <1>25, <3>1
  <2>2. \A j \in Nodes : i < j => t[j] = s[j]
    <3>1. \A j \in Nodes : i < j => r + 1 < j
      BY <1>3, <1>4, <1>25
    <3> QED
      BY <1>12, <3>1
  <2> QED
    BY <2>1, <2>2 DEF Stands
\* The blocks before and behind are as they were.
<1>26. /\ \A c \in Starts(2 * insize) : c < b => Sorted(t, c, 2 * insize)'
       /\ \A c \in Starts(insize) : e <= c => Sorted(t, c, insize)'
  <2>1. ASSUME NEW c \in Starts(2 * insize), c < b
        PROVE  Sorted(t, c, 2 * insize)'
    <3>1. c \in Nat /\ c + 2 * insize <= b
      <4>1. 2 * insize \in Nat \ {0}
        BY <1>3
      <4> QED
        BY <1>8, <2>1, <4>1, StartFacts
    <3>2. \A i \in Nodes : c < i /\ i <= c + 2 * insize => t[i] = s[i]
      <4>1. \A i \in Nodes : c < i /\ i <= c + 2 * insize => i <= m
        BY <1>3, <1>4, <1>8, <3>1
      <4> QED
        BY <1>12, <4>1
    <3>3. Sorted(s, c, 2 * insize)
      BY <1>9, <2>1
    <3> QED
      BY <1>2, <3>1, <3>2, <3>3, StaysSorted
  <2>2. ASSUME NEW c \in Starts(insize), e <= c
        PROVE  Sorted(t, c, insize)'
    <3>1. c \in Nat
      BY <1>3, StartFacts
    <3>2. \A i \in Nodes : c < i /\ i <= c + insize => t[i] = s[i]
      <4>1. \A i \in Nodes : c < i => r + 1 < i
        BY <1>3, <1>4, <1>11, <2>2, <3>1
      <4> QED
        BY <1>12, <4>1
    <3>3. Sorted(s, c, insize)
      BY <1>9, <2>2
    <3> QED
      BY <1>2, <3>1, <3>2, <3>3, StaysSorted
  <2> QED
    BY <2>1, <2>2
<1>27. Merging(t, m + 1, b)'
  <2>1. /\ (m + 1) + psize' = r + 1 /\ (r + 1) + qsize' = y /\ b + 2 * insize' = e
        /\ m + 1 # b /\ b <= m + 1 /\ (m + 1) + 1 = m + 2 /\ (r + 1) + 1 = r + 2
    BY <1>2, <1>3, <1>6, <1>8 DEF TakeFromQ
  <2>2. psize' > 0 => p' = t[m + 2]
    <3> SUFFICES ASSUME psize > 0 PROVE s[m + 1] = t[m + 2]
      BY <1>2, <1>8
    <3>1. m < m + 1 /\ m + 1 <= r /\ (m + 1) + 1 = m + 2
      BY <1>3, <1>6
    <3> QED
      BY <1>11, <1>12, <3>1
  <2>3. q' = Place(t, r + 2)'
    <3>1. q' = next[s[r + 1]]
      BY <1>10 DEF TakeFromQ
    <3>2. next[s[r + 1]] = Place(s, r + 2)
      <4>1. r + 1 <= r + 1 /\ r + 1 < len + 1 /\ (r + 1) + 1 = r + 2
        BY <1>3, <1>11
      <4> QED
        BY <1>8, <1>10, <4>1 DEF Linked
    <3>3. Place(s, r + 2) = Place(t, r + 2)
      <4>1. r + 1 < r + 2
        OBVIOUS
      <4> QED
        BY <1>12, <4>1 DEF Place
    <3> QED
      BY <1>14, <3>1, <3>2, <3>3
  <2>4. \A i : /\ Stands(t, i, b, e, y)' <=> Stands(t, i, b, e, y)
               /\ Stands(t, i, b, b + insize, r + 1)' <=> Stands(t, i, b, b + insize, r + 1)
               /\ Stands(t, i, b + insize, e, y)' <=> Stands(t, i, b + insize, e, y)
    BY <1>2, <1>15
  <2>5. /\ \A i \in Nodes' : b < i /\ i <= m + 1 => Stands(t, i, b, e, y)'
        /\ \A i \in Nodes' : m + 1 < i /\ i <= r + 1 => Stands(t, i, b, b + insize, r + 1)'
        /\ \A i \in Nodes' : r + 1 < i /\ i <= y => Stands(t, i, b + insize, e, y)'
    BY <1>14, <1>23, <1>24, <1>25, <2>4
  <2>6. /\ \A c \in Starts(2 * insize') : c < b => Sorted(t, c, 2 * insize)'
        /\ \A c \in Starts(insize') : e <= c => Sorted(t, c, insize)'
    BY <1>2, <1>26
  <2>7. Linked(t, m + 2, r + 1)' /\ Linked(t, r + 2, len + 1)' /\ EndsAt(t, m + 1)' /\ Seen(b, 2 * insize)'
    BY <1>13, <1>17, <1>18, <1>20
  <2>8. /\ b \in Starts(2 * insize') /\ b < len' /\ r + 1 <= len' /\ y <= e /\ (r + 1 < len' => y = e)
        /\ nmerges' > 0 /\ (nmerges' = 1 => b = 0)
    BY <1>2, <1>3, <1>8, <1>11
  <2> QED
    BY <2>1, <2>2, <2>3, <2>5, <2>6, <2>7, <2>8 DEF Merging
<1>28. SortTypes'
  <2>1. qsize' \in Nat
    BY <1>3, <1>7 DEF TakeFromQ
  <2> QED
    BY <1>2, <1>3, <1>13, <1>14, <1>19, <2>1 DEF SortTypes
<1>29. t \in Orders' /\ stage' = "take" /\ m + 1 \in 0 .. len' /\ b \in 0 .. len'
  BY <1>2, <1>3, <1>4, <1>11, SortKept DEF TakeFromQ
<1> QED
  BY <1>27, <1>28, <1>29 DEF SortInv

\* No step of the sort leaves the invariant.
LEMMA SortSteps == SortInv /\ [SortNext]_sortVars => SortInv'
<1>1. ASSUME SortInv, UNCHANGED sortVars PROVE SortInv'
  <2>1. /\ len' = len /\ key' = key /\ next' = next /\ list' = list /\ p' = p /\ q' = q /\ tail' = tail
        /\ insize' = insize /\ nmerges' = nmerges /\ psize' = psize /\ qsize' = qsize /\ stage' = stage
        /\ compared' = compared
    BY <1>1 DEF sortVars
  <2>2. SortTypes'
    BY <1>1, <2>1 DEF SortInv, SortTypes, Nodes
  <2>3. Nodes' = Nodes /\ Orders' = Orders
    BY <2>1, SortKept
  <2>4. \A s, i : Place(s, i)' = Place(s, i)
    BY <2>1, SortKept
  <2>5. \A s, i, a, z, y : Stands(s, i, a, z, y)' <=> Stands(s, i, a, z, y)
    BY <2>1, SortKept
  <2>6. \A s, a, z : Linked(s, a, z)' <=> Linked(s, a, z)
    BY <2>1, SortKept
  <2>7. \A s, c, w : (Sorted(s, c, w)' <=> Sorted(s, c, w)) /\ (Seen(c, w)' <=> Seen(c, w))
    BY <2>1, SortKept
  <2>8. \A s : (SortedPass(s)' <=> SortedPass(s)) /\ (SortedAll(s)' <=> SortedAll(s))
    BY <2>1, <2>4, <2>6, <2>7 DEF SortedPass, SortedAll
  <2>9. \A s, m : EndsAt(s, m)' <=> EndsAt(s, m)
    BY <2>1, <2>6 DEF EndsAt
  <2>10. \A s, m : Between(s, m)' <=> Between(s, m)
    BY <2>1, <2>4, <2>6, <2>7, <2>9 DEF Between
  <2>11. \A s, m, b : Merging(s, m, b)' <=> Merging(s, m, b)
    <3> SUFFICES ASSUME NEW s, NEW m, NEW b PROVE Merging(s, m, b)' <=> Merging(s, m, b)
      OBVIOUS
    <3>1. \A r, y, e : /\ Linked(s, m + 1, r)' <=> Linked(s, m + 1, r)
                       /\ Linked(s, r + 1, len + 1)' <=> Linked(s, r + 1, len + 1)
                       /\ Place(s, r + 1)' = Place(s, r + 1)
                       /\ \A i : /\ Stands(s, i, b, e, y)' <=> Stands(s, i, b, e, y)
                                 /\ Stands(s, i, b, b + insize, r)' <=> Stands(s, i, b, b + insize, r)
                                 /\ Stands(s, i, b + insize, e, y)' <=> Stands(s, i, b + insize, e, y)
      BY <2>1, <2>4, <2>5, <2>6
    <3>2. /\ EndsAt(s, m)' <=> EndsAt(s, m)
          /\ Seen(b, insize)' <=> Seen(b, insize)
          /\ Seen(b + insize, insize)' <=> Seen(b + insize, insize)
          /\ Seen(b, 2 * insize)' <=> Seen(b, 2 * insize)
          /\ \A c : /\ Sorted(s, c, insize)' <=> Sorted(s, c, insize)
                    /\ Sorted(s, c, 2 * insize)' <=> Sorted(s, c, 2 * insize)
      BY <2>1, <2>7, <2>9
    <3>3. PICK r : r = m + psize
      OBVIOUS
    <3>4. PICK y : y = r + qsize
      OBVIOUS
    <3>5. PICK e : e = b + 2 * insize
      OBVIOUS
    <3> QED
      BY <2>1, <2>3, <3>1, <3>2, <3>3, <3>4, <3>5 DEF Merging
  <2> QED
    BY <1>1, <2>1, <2>2, <2>3, <2>8, <2>10, <2>11 DEF SortInv
<1> QED
  BY <1>1, StartPassStep, StartMergeStep, TakeFromPStep, TakeFromQStep, EndMergeStep, EndPassStep DEF SortNext

-----------------------------------------------------------------------------
(* What the invariant says of the list. *)

\* The nodes at the places a to z.
Span(s, a, z) == {s[i] : i \in a .. z}

\* They are as many as the places.
LEMMA SpanSize ==
  ASSUME len \in Nat, NEW s \in Orders, NEW a \in 1 .. len + 1, NEW z \in (a - 1) .. len
  PROVE  Cardinality(Span(s, a, z)) = z - (a - 1)
<1>1. a \in Int /\ z \in Int /\ \A i \in a .. z : i \in Nodes
  BY DEF Nodes
<1>2. IsFiniteSet(a .. z) /\ Cardinality(a .. z) = z - (a - 1)
  <2>1. Cardinality(a .. z) = IF a > z THEN 0 ELSE z - a + 1
    BY <1>1, FS_Interval
  <2>2. (IF a > z THEN 0 ELSE z - a + 1) = z - (a - 1)
    BY <1>1
  <2> QED
    BY <1>1, <2>1, <2>2, FS_Interval
<1> DEFINE f == [i \in a .. z |-> s[i]]
<1>3. \A i, j \in a .. z : f[i] = f[j] => i = j
  BY <1>1, OrderFacts
<1>4. \A i \in a .. z : f[i] \in Span(s, a, z)
  BY DEF Span
<1>5. \A n \in Span(s, a, z) : \E i \in a .. z : f[i] = n
  BY DEF Span
<1>6. f \in [a .. z -> Span(s, a, z)]
  BY <1>4
<1>7. f \in Bijection(a .. z, Span(s, a, z))
  <2> HIDE DEF f
  <2> QED
    BY <1>3, <1>5, <1>6 DEF Bijection, Injection, Surjection, IsInjective
<1> QED
  BY <1>2, <1>7, FS_Bijection, Zenon DEF ExistsBijection

\* The chain from place a on.
LEMMA ChainIs ==
  ASSUME len \in Nat, next \in [Nodes -> Nodes \cup {NULL}],
         NEW s \in Orders, NEW a \in 1 .. len + 1, NEW z \in (a - 1) .. len, NEW k \in Nat,
         \/ a + k = z + 1 /\ a <= z /\ Linked(s, a, z)
         \/ k = 0 /\ z = a - 1
         \/ z <= (a - 1) + k /\ z = len /\ Linked(s, a, len + 1)
  PROVE  Chain(Place(s, a), k) = Span(s, a, z)
<1>0. a \in Nat /\ z \in Int
  OBVIOUS
<1>1. \A i : i \in Nodes <=> i \in Nat /\ i > 0 /\ i <= len
  BY DEF Nodes
<1>2. \A i \in Nodes : s[i] \in Nodes /\ s[i] # NULL
  BY OrderFacts
<1>3. ASSUME NEW j \in 0 .. k - 1
      PROVE  along(Place(s, a), j) = Place(s, a + j)
  <2>1. \/ a + j <= z /\ a <= z /\ Linked(s, a, z)
        \/ Linked(s, a, len + 1)
    BY <1>0
  <2>2. a <= z => z \in 1 .. len + 1
    BY <1>0
  <2>3. len + 1 \in 1 .. len + 1 /\ j \in Nat
    BY <1>0
  <2> QED
    BY <2>1, <2>2, <2>3, Follows
<1>4. ASSUME NEW n \in Chain(Place(s, a), k)
      PROVE  n \in Span(s, a, z)
  <2>1. PICK j \in 0 .. k - 1 : n = along(Place(s, a), j) /\ n # NULL
    BY DEF Chain
  <2>2. n = Place(s, a + j)
    BY <1>3, <2>1
  <2>3. a + j \in Nodes /\ n = s[a + j]
    BY <2>1, <2>2 DEF Place
  <2>4. a + j \in a .. z
    BY <1>0, <1>1, <2>3
  <2> QED
    BY <2>3, <2>4 DEF Span
<1>5. ASSUME NEW n \in Span(s, a, z)
      PROVE  n \in Chain(Place(s, a), k)
  <2>1. PICK i \in a .. z : n = s[i]
    BY DEF Span
  <2>2. i - a \in 0 .. k - 1 /\ a + (i - a) = i /\ i \in Nodes
    BY <1>0, <1>1
  <2>3. along(Place(s, a), i - a) = n /\ n # NULL
    BY <1>2, <1>3, <2>1, <2>2 DEF Place
  <2> QED
    BY <2>2, <2>3 DEF Chain
<1> QED
  BY <1>4, <1>5

\* The merged list is what stands at the first m places.
LEMMA MergedIs ==
  ASSUME len \in Nat, next \in [Nodes -> Nodes \cup {NULL}], NEW s \in Orders, NEW m \in 0 .. len, EndsAt(s, m)
  PROVE  Merged = Span(s, 1, m)
<1>0. m \in Nat /\ \A i : i \in Nodes <=> i \in Nat /\ i > 0 /\ i <= len
  BY DEF Nodes
<1>1. /\ \A i \in Nodes : s[i] \in Nodes /\ s[i] # NULL
      /\ \A i, j \in Nodes : s[i] = s[j] => i = j
  BY OrderFacts
<1>2. CASE m = 0
  <2>1. Span(s, 1, m) = {}
    BY <1>2 DEF Span
  <2> QED
    BY <1>2, <2>1 DEF EndsAt, Merged
<1>3. CASE m > 0
  <2>1. m \in Nodes /\ 1 \in Nodes
    BY <1>0, <1>3
  <2>2. list = Place(s, 1) /\ tail = s[m] /\ tail # NULL /\ Linked(s, 1, m)
    BY <1>1, <1>3, <2>1 DEF EndsAt, Place
  <2>3. \A j \in 0 .. m - 1 : along(list, j) = s[1 + j] /\ 1 + j \in Nodes
    <3> SUFFICES ASSUME NEW j \in 0 .. m - 1 PROVE along(list, j) = s[1 + j] /\ 1 + j \in Nodes
      OBVIOUS
    <3>1. 1 \in 1 .. len + 1 /\ m \in 1 .. len + 1 /\ j \in Nat /\ 1 + j <= m /\ 1 + j \in Nodes
      BY <1>0, <2>1
    <3>2. along(list, j) = Place(s, 1 + j)
      BY <2>2, <3>1, Follows
    <3> QED
      BY <3>1, <3>2 DEF Place
  <2>4. along(list, m - 1) = tail
    BY <1>0, <1>3, <2>2, <2>3
  <2>5. Merged = {n \in Chain(list, len) :
                    \E j \in 0 .. len - 1 : along(list, j) = n /\ \A k \in 0 .. j - 1 : along(list, k) # tail}
    BY <2>2 DEF Merged
  <2>6. ASSUME NEW n \in Merged
        PROVE  n \in Span(s, 1, m)
    <3>1. PICK j \in 0 .. len - 1 : along(list, j) = n /\ \A k \in 0 .. j - 1 : along(list, k) # tail
      BY <2>5
    <3>2. j <= m - 1
      <4>1. j > m - 1 => m - 1 \in 0 .. j - 1
        BY <1>0, <1>3
      <4> QED
        BY <1>0, <2>4, <3>1, <4>1
    <3>3. j \in 0 .. m - 1 /\ 1 + j \in 1 .. m
      BY <1>0, <3>2
    <3> QED
      BY <2>3, <3>1, <3>3 DEF Span
  <2>7. ASSUME NEW n \in Span(s, 1, m)
        PROVE  n \in Merged
    <3>1. PICK i \in 1 .. m : n = s[i]
      BY DEF Span
    <3>2. i - 1 \in 0 .. m - 1 /\ i - 1 \in 0 .. len - 1 /\ 1 + (i - 1) = i /\ i \in Nodes
      BY <1>0
    <3>3. along(list, i - 1) = n /\ n # NULL
      BY <1>1, <2>3, <3>1, <3>2
    <3>4. \A k \in 0 .. (i - 1) - 1 : along(list, k) # tail
      <4> SUFFICES ASSUME NEW k \in 0 .. (i - 1) - 1 PROVE along(list, k) # tail
        OBVIOUS
      <4>1. k \in 0 .. m - 1 /\ 1 + k # m
        BY <1>0
      <4> QED
        BY <1>1, <2>1, <2>2, <2>3, <4>1
    <3>5. n \in Chain(list, len)
      BY <3>2, <3>3 DEF Chain
    <3> QED
      BY <2>5, <3>2, <3>3, <3>4, <3>5
  <2> QED
    BY <2>6, <2>7
<1> QED
  BY <1>0, <1>2, <1>3

\* The merged list, the first block and the rest share out the places of the order.
LEMMA SortLosesNoNode == SortInv => NoNodeLost
<1> SUFFICES ASSUME SortInv, stage = "take"
             PROVE  /\ Merged \cup Chain(p, psize) \cup Chain(q, len) = Nodes
                    /\ Cardinality(Merged) + Cardinality(Chain(p, psize)) + Cardinality(Chain(q, len)) = len
  BY DEF NoNodeLost
<1>1. PICK s \in Orders, m \in 0 .. len, b \in 0 .. len : Merging(s, m, b)
  BY DEF SortInv
<1>2. len \in Nat /\ m \in Nat /\ psize \in Nat /\ next \in [Nodes -> Nodes \cup {NULL}]
  BY DEF SortInv, SortTypes
<1>3. PICK r \in Nat : r = m + psize
  BY <1>2
<1>4. /\ EndsAt(s, m) /\ r <= len /\ (psize > 0 => p = s[m + 1]) /\ q = Place(s, r + 1)
      /\ Linked(s, m + 1, r) /\ Linked(s, r + 1, len + 1)
  BY <1>1, <1>3, Zenon DEF Merging
<1>5. Merged = Span(s, 1, m)
  BY <1>2, <1>4, MergedIs
<1>6. Chain(p, psize) = Span(s, m + 1, r)
  <2>1. CASE psize = 0
    <3>1. Chain(p, psize) = {}
      <4>1. 0 .. psize - 1 = {}
        BY <2>1
      <4> QED
        BY <4>1 DEF Chain
    <3>2. Span(s, m + 1, r) = {}
      <4>1. (m + 1) .. r = {}
        BY <1>2, <1>3, <2>1
      <4> QED
        BY <4>1 DEF Span
    <3> QED
      BY <3>1, <3>2
  <2>2. CASE psize > 0
    <3>1. m + 1 \in 1 .. len + 1 /\ r \in ((m + 1) - 1) .. len /\ (m + 1) + psize = r + 1 /\ m + 1 <= r /\ m + 1 \in Nodes
      BY <1>2, <1>3, <1>4, <2>2 DEF Nodes
    <3>2. p = Place(s, m + 1)
      BY <1>4, <2>2, <3>1 DEF Place
    <3> QED
      BY <1>2, <1>4, <3>1, <3>2, ChainIs
  <2> QED
    BY <1>2, <2>1, <2>2
<1>7. Chain(q, len) = Span(s, r + 1, len)
  <2>1. r + 1 \in 1 .. len + 1 /\ len \in ((r + 1) - 1) .. len /\ len <= ((r + 1) - 1) + len
    BY <1>2, <1>4
  <2> QED
    BY <1>2, <1>4, <2>1, ChainIs
<1>8. Span(s, 1, m) \cup Span(s, m + 1, r) \cup Span(s, r + 1, len) = Nodes
  <2>1. \A i : i \in Nodes <=> i \in 1 .. m \/ i \in (m + 1) .. r \/ i \in (r + 1) .. len
    BY <1>2, <1>3, <1>4 DEF Nodes
  <2>2. (\A n \in Nodes : \E i \in Nodes : s[i] = n) /\ (\A i \in Nodes : s[i] \in Nodes)
    BY <1>2, OrderFacts
  <2> QED
    BY <2>1, <2>2 DEF Span
<1>9. /\ Cardinality(Span(s, 1, m)) = m
      /\ Cardinality(Span(s, m + 1, r)) = r - m
      /\ Cardinality(Span(s, r + 1, len)) = len - r
  <2>1. 1 \in 1 .. len + 1 /\ m \in (1 - 1) .. len /\ m - (1 - 1) = m
    BY <1>2
  <2>2. m + 1 \in 1 .. len + 1 /\ r \in ((m + 1) - 1) .. len /\ r - ((m + 1) - 1) = r - m
    BY <1>2, <1>3, <1>4
  <2>3. r + 1 \in 1 .. len + 1 /\ len \in ((r + 1) - 1) .. len /\ len - ((r + 1) - 1) = len - r
    BY <1>2, <1>4
  <2>4. Cardinality(Span(s, 1, m)) = m
    BY <1>2, <2>1, SpanSize
  <2>5. Cardinality(Span(s, m + 1, r)) = r - m
    BY <1>2, <2>2, SpanSize
  <2>6. Cardinality(Span(s, r + 1, len)) = len - r
    BY <1>2, <2>3, SpanSize
  <2> QED
    BY <2>4, <2>5, <2>6
<1> QED
  BY <1>2, <1>5, <1>6, <1>7, <1>8, <1>9

\* When the sort ends, the list is a block of all nodes.
LEMMA SortEndsInOrder == SortInv => SortsStably /\ EveryNodeCompared
<1> SUFFICES ASSUME SortInv, stage = "done" PROVE SortsStably /\ EveryNodeCompared
  BY DEF SortsStably, EveryNodeCompared
<1>1. PICK s \in Orders : SortedAll(s)
  BY DEF SortInv
<1>2. len \in Nat /\ next \in [Nodes -> Nodes \cup {NULL}] /\ compared \in SUBSET Nodes /\ key \in [Nodes -> Int]
  BY DEF SortInv, SortTypes
<1>3. list = Place(s, 1) /\ Linked(s, 1, len + 1)
  BY <1>1 DEF SortedAll
<1>4. \A k \in Nat : along(list, k) = Place(s, 1 + k)
  <2>1. 1 \in 1 .. len + 1 /\ len + 1 \in 1 .. len + 1
    BY <1>2
  <2> QED
    BY <1>2, <1>3, <2>1, Follows
<1>5. \A j \in 1 .. len : Result[j] = s[j]
  <2>1. \A j \in 1 .. len : j - 1 \in Nat /\ 1 + (j - 1) = j
    BY <1>2
  <2> QED
    BY <1>4, <2>1 DEF Result, Place, Nodes
<1>6. along(list, len) = NULL
  <2>1. 1 + len \notin Nodes
    BY <1>2 DEF Nodes
  <2> QED
    BY <1>2, <1>4, <2>1 DEF Place
<1>7. {Result[j] : j \in 1 .. len} = Nodes
  <2>1. (\A n \in Nodes : \E i \in Nodes : s[i] = n) /\ (\A i \in Nodes : s[i] \in Nodes)
    BY <1>2, OrderFacts
  <2> QED
    BY <1>5, <2>1 DEF Nodes
<1>8. ASSUME NEW i \in 1 .. len, NEW j \in 1 .. len, i < j
      PROVE  \/ key[Result[i]] < key[Result[j]]
             \/ key[Result[i]] = key[Result[j]] /\ Result[i] < Result[j]
  <2>1. 0 < i /\ i <= 0 + len /\ j <= 0 + len /\ i \in Nodes /\ j \in Nodes
    BY <1>2 DEF Nodes
  <2>2. InOrder(s[i], s[j])
    BY <1>1, <1>8, <2>1 DEF SortedAll, Sorted, Stands
  <2> QED
    BY <1>5, <2>2 DEF InOrder
<1>9. len > 1 => compared = Nodes
  <2>1. ASSUME len > 1, NEW n \in Nodes
        PROVE  n \in compared
    <3>1. 0 < n /\ n <= 0 + len /\ len # 1 /\ len # 0 + 1
      BY <1>2, <2>1 DEF Nodes
    <3> QED
      BY <1>1, <3>1 DEF SortedAll, Sorted, Seen, Alone
  <2> QED
    BY <1>2, <2>1
<1> QED
  BY <1>6, <1>7, <1>8, <1>9 DEF SortsStably, EveryNodeCompared

\* The merge sort of the benchmark is what the list work takes it for, for every list and all
\* keys: no node is lost, the sort is stable, and every node of a list of two or more has been
\* compared when it returns (core_list_join.c:499-595).
THEOREM SortStable == SortSpec => []SortIsStable
<1>1. SortInv => SortIsStable
  BY SortLosesNoNode, SortEndsInOrder DEF SortIsStable
<1> QED
  BY <1>1, SortBegins, SortSteps, PTL DEF SortSpec

=============================================================================
