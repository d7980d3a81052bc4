------------------------------ MODULE UnitProofs ------------------------------
(***************************************************************************)
(* Units of the core on their own: the multiplier computes the products of *)
(* the M extension, for every even number B of half-word values and all    *)
(* operands in flight; the predictors train the entry that predicted and   *)
(* learn a constant branch, for every size of table and history; the data  *)
(* memory is an array of bytes, for every number of words; the access      *)
(* checker decides byte by byte, for every width of addresses.             *)
(***************************************************************************)
EXTENDS Multiplier, Predictors, LoadStore, PmpRef, Arithmetic

-----------------------------------------------------------------------------
(* Arithmetic: registers, halves, and the product of two split numbers. *)

\* A signed register of M values does not change what it can hold (the width of
\* every partial product rests on this).
LEMMA RegisterHolds ==
  ASSUME NEW M \in Nat \ {0}, M % 2 = 0,
         NEW x \in Int, -(M \div 2) <= x, x < M \div 2
  PROVE  SignedReg(x, M) = x
<1>1. M = 2 * (M \div 2) OBVIOUS
<1>2. 0 <= x + M \div 2 /\ x + M \div 2 < M BY <1>1
<1>3. (x + M \div 2) % M = x + M \div 2 BY <1>2
<1> QED BY <1>1, <1>3 DEF SignedReg

LEMMA WordFacts ==
  /\ W \in Nat \ {0} /\ W % 2 = 0 /\ W \div 2 \in Nat /\ W = 2 * (W \div 2)
  /\ W >= 2 * B /\ B >= 2
<1>1. PICK h \in Nat : B = 2 * h /\ h >= 1 BY MulAssumption
<1>2. W = 4 * (h * h) /\ h * h \in Nat /\ h * h >= h BY <1>1 DEF W
<1> QED BY <1>1, <1>2

\* Extending the sign of a word is reading it as a signed number.
LEMMA SignExtension ==
  ASSUME NEW x \in FullWord
  PROVE  /\ sign_extend(x) = Signed(x)
         /\ Signed(x) \in Int /\ -W <= Signed(x) /\ Signed(x) < W
<1> DEFINE h == W \div 2
<1>1. W \in Nat \ {0} /\ h \in Nat /\ W = 2 * h BY WordFacts
<1>2. x \in Nat /\ x < W BY <1>1 DEF FullWord
<1> HIDE DEF h
<1>3. CASE 2 * x >= W
  <2>1. x - h \in 0 .. W - 1 /\ x + h = 1 * W + (x - h) BY <1>1, <1>2, <1>3
  <2>2. \A z \in 0 .. W - 1 : (1 * W + z) % W = z BY <1>1, DivisionUnique
  <2>3. (x + h) % W = x - h BY <2>1, <2>2
  <2> QED BY <2>3, <1>1, <1>2, <1>3 DEF sign_extend, SignedReg, Signed, h
<1>4. CASE 2 * x < W
  <2>1. x + h \in 0 .. W - 1 /\ x + h = 0 * W + (x + h) BY <1>1, <1>2, <1>4
  <2>2. \A z \in 0 .. W - 1 : (0 * W + z) % W = z BY <1>1, DivisionUnique
  <2>3. (x + h) % W = x + h BY <2>1, <2>2
  <2> QED BY <2>3, <1>1, <1>2, <1>4 DEF sign_extend, SignedReg, Signed, h
<1> QED BY <1>1, <1>2, <1>3, <1>4

\* The halves of an extended operand.
LEMMA Halves ==
  ASSUME NEW a \in Int, -W <= a, a < W
  PROVE  /\ upper_half(a) \in Int /\ -B <= upper_half(a) /\ upper_half(a) < B
         /\ lower_half(a) \in Nat /\ lower_half(a) < B
         /\ upper_half(a) * B + lower_half(a) = a
<1> DEFINE q == a \div B
           r == a % B
<1>1. q \in Int /\ r \in 0 .. B - 1 /\ a = q * B + r
  BY MulAssumption, Division
<1>2. B \in Nat \ {0} BY MulAssumption
<1> HIDE DEF q, r
<1>3. q < B
  <2>1. SUFFICES ASSUME q >= B PROVE FALSE BY <1>1, <1>2
  <2>2. q * B >= B * B BY <2>1, <1>1, <1>2
  <2> QED BY <2>2, <1>1, <1>2 DEF W
<1>4. -B <= q
  <2>1. SUFFICES ASSUME q <= -B - 1 PROVE FALSE BY <1>1, <1>2
  <2>2. q * B <= (-B - 1) * B BY <2>1, <1>1, <1>2
  <2>3. (-B - 1) * B = -W - B BY <1>2 DEF W
  <2> QED BY <2>2, <2>3, <1>1, <1>2 DEF W
<1> QED BY <1>1, <1>2, <1>3, <1>4 DEF upper_half, lower_half, q, r

\* Two split numbers multiply as the comment of MUL.sv says (lines 42-51).
LEMMA SplitProduct ==
  ASSUME NEW p \in Int, NEW q \in Int, NEW u \in Int, NEW v \in Int
  PROVE  (p * B + q) * (u * B + v) = p * u * W + (q * u + p * v) * B + q * v
BY MulAssumption DEF W

\* The bounds of the partial products.
LEMMA LowLow ==
  ASSUME NEW q \in Nat, q < B, NEW v \in Nat, v < B
  PROVE  q * v \in Nat /\ q * v < W
<1>1. q * v <= (B - 1) * (B - 1) BY MulAssumption
<1> QED BY <1>1, MulAssumption DEF W

LEMMA LowHigh ==
  ASSUME NEW q \in Nat, q < B, NEW u \in Int, -B <= u, u < B
  PROVE  q * u \in Int /\ -W <= q * u /\ q * u < W
<1>1. q * u <= q * B /\ q * (-B) <= q * u BY MulAssumption
<1>2. q * B < B * B BY MulAssumption
<1>3. q * (-B) = -(q * B) BY MulAssumption
<1> QED BY <1>1, <1>2, <1>3, MulAssumption DEF W

LEMMA HighHigh ==
  ASSUME NEW p \in Int, -B <= p, p < B, NEW u \in Int, -B <= u, u < B
  PROVE  p * u \in Int /\ -W <= p * u /\ p * u <= W
<1>1. (B - p) * (B + u) >= 0 /\ (B + p) * (B - u) >= 0 BY MulAssumption
<1>2. (B - p) * (B - u) >= 0 /\ (B + p) * (B + u) >= 0 BY MulAssumption
<1>3. /\ (B - p) * (B + u) = W + B * u - p * B - p * u
      /\ (B + p) * (B - u) = W - B * u + p * B - p * u
      /\ (B - p) * (B - u) = W - B * u - p * B + p * u
      /\ (B + p) * (B + u) = W + B * u + p * B + p * u
  BY MulAssumption DEF W
<1>4. B * u \in Int /\ p * B \in Int /\ p * u \in Int /\ W \in Int
  BY MulAssumption DEF W
<1> QED BY <1>1, <1>2, <1>3, <1>4

\* The two words of a product of which the low two words are kept.
LEMMA WordsOf ==
  ASSUME NEW P \in Int
  PROVE  /\ (P % (W * W)) % W = P % W
         /\ (P % (W * W)) \div W = (P \div W) % W
<1> DEFINE D == W * W
           k == P \div D
           r == P % D
           u == r \div W
           v == r % W
<1>1. W \in Nat \ {0} BY WordFacts
<1>2. D \in Nat \ {0} BY <1>1
<1>3. k \in Int /\ r \in 0 .. D - 1 /\ P = k * D + r BY <1>2, Division
<1>a. r \in Int BY <1>2, <1>3
<1> HIDE DEF D, k, r
<1>4. u \in Int /\ v \in 0 .. W - 1 /\ r = u * W + v BY <1>1, <1>a, Division
<1> HIDE DEF u, v
<1>5. u \in 0 .. W - 1
  <2>1. u < W
    <3>1. SUFFICES ASSUME u >= W PROVE FALSE BY <1>1, <1>4
    <3>2. u * W >= W * W BY <3>1, <1>1, <1>4
    <3> QED BY <3>2, <1>1, <1>2, <1>3, <1>4 DEF D
  <2>2. u >= 0
    <3>1. SUFFICES ASSUME u <= -1 PROVE FALSE BY <1>1, <1>4
    <3>2. u * W <= -W BY <3>1, <1>1, <1>4
    <3> QED BY <3>2, <1>1, <1>3, <1>4
  <2> QED BY <2>1, <2>2, <1>1, <1>4
<1>6. P = (k * W + u) * W + v BY <1>1, <1>3, <1>4 DEF D
<1>7. k * W + u \in Int BY <1>1, <1>3, <1>4
<1>8. P \div W = k * W + u /\ P % W = v BY ONLY <1>1, <1>4, <1>6, <1>7, DivisionUnique
<1>9. (k * W + u) % W = u BY ONLY <1>1, <1>3, <1>5, DivisionUnique
<1> QED BY <1>8, <1>9 DEF u, v, r, D

-----------------------------------------------------------------------------
(* The inductive invariant, stage by stage. *)

Question == [op : MulOps, x : FullWord, y : FullWord, rd : Rds]

QuestionsOK == \A s \in 1 .. 4 : asked[s] = Nothing \/ asked[s] \in Question

HalfOK(p) == p \in Int /\ -B <= p /\ p < B
LowHalfOK(q) == q \in Nat /\ q < B

Answers(s, m) ==
  /\ s.valid = (m # Nothing)
  /\ s.valid => s.op = m.op /\ s.rd = m.rd

S1OK ==
  /\ Answers(s1, asked[1])
  /\ s1.valid =>
       /\ HalfOK(s1.a_hi) /\ HalfOK(s1.b_hi) /\ LowHalfOK(s1.a_lo) /\ LowHalfOK(s1.b_lo)
       /\ s1.pp_ll = s1.a_lo * s1.b_lo
       /\ (s1.a_hi * B + s1.a_lo) * (s1.b_hi * B + s1.b_lo) = Exact(asked[1])

S2OK ==
  /\ Answers(s2, asked[2])
  /\ s2.valid =>
       /\ HalfOK(s2.a_hi) /\ HalfOK(s2.b_hi) /\ s2.pp_ll \in Int
       /\ s2.pp_lh \in Int /\ -W <= s2.pp_lh /\ s2.pp_lh < W
       /\ s2.pp_hl \in Int /\ -W <= s2.pp_hl /\ s2.pp_hl < W
       /\ s2.a_hi * s2.b_hi * W + (s2.pp_lh + s2.pp_hl) * B + s2.pp_ll = Exact(asked[2])

S3OK ==
  /\ Answers(s3, asked[3])
  /\ s3.valid =>
       /\ s3.pp_ll \in Int /\ s3.pp_mid \in Int /\ s3.pp_hh \in Int
       /\ s3.pp_hh * W + s3.pp_mid * B + s3.pp_ll = Exact(asked[3])

S4OK ==
  /\ Answers(s4, asked[4])
  /\ s4.valid => s4.product = Exact(asked[4]) % (W * W)

MulInv ==
  /\ QuestionsOK
  /\ S1OK /\ S2OK /\ S3OK /\ S4OK

-----------------------------------------------------------------------------

\* What enters the first stage.
LEMMA EnterStage1 ==
  ASSUME NEW m \in Question,
         NEW s, s = Stage1(TRUE, m.op, m.x, m.y, m.rd)
  PROVE  /\ s.valid = TRUE /\ s.op = m.op /\ s.rd = m.rd
         /\ HalfOK(s.a_hi) /\ HalfOK(s.b_hi) /\ LowHalfOK(s.a_lo) /\ LowHalfOK(s.b_lo)
         /\ s.pp_ll = s.a_lo * s.b_lo
         /\ (s.a_hi * B + s.a_lo) * (s.b_hi * B + s.b_lo) = Exact(m)
<1> DEFINE a == src1_signed(m.op, m.x)
           b == src2_signed(m.op, m.y)
<1>1. m.op \in MulOps /\ m.x \in FullWord /\ m.y \in FullWord BY DEF Question
<1>2. W \in Nat \ {0} BY WordFacts
<1>3. a = IF m.op = "MULHU" THEN m.x ELSE Signed(m.x)
  BY <1>1, SignExtension DEF src1_signed, MulOps
<1>4. b = IF m.op \in {"MULHU", "MULHSU"} THEN m.y ELSE Signed(m.y)
  BY <1>1, SignExtension DEF src2_signed, MulOps
<1>5. a \in Int /\ -W <= a /\ a < W BY <1>1, <1>2, <1>3, SignExtension DEF FullWord
<1>6. b \in Int /\ -W <= b /\ b < W BY <1>1, <1>2, <1>4, SignExtension DEF FullWord
<1>7. a * b = Exact(m) BY <1>3, <1>4 DEF Exact
<1>8. /\ s.valid = TRUE /\ s.op = m.op /\ s.rd = m.rd
      /\ s.a_hi = upper_half(a) /\ s.b_hi = upper_half(b)
      /\ s.a_lo = lower_half(a) /\ s.b_lo = lower_half(b)
      /\ s.pp_ll = (lower_half(a) * lower_half(b)) % W
  BY DEF Stage1
<1> HIDE DEF a, b
<1>9. HalfOK(s.a_hi) /\ LowHalfOK(s.a_lo) /\ s.a_hi * B + s.a_lo = a
  BY <1>5, <1>8, Halves DEF HalfOK, LowHalfOK
<1>10. HalfOK(s.b_hi) /\ LowHalfOK(s.b_lo) /\ s.b_hi * B + s.b_lo = b
  BY <1>6, <1>8, Halves DEF HalfOK, LowHalfOK
<1>11. s.pp_ll = s.a_lo * s.b_lo
  <2>1. s.a_lo * s.b_lo \in Nat /\ s.a_lo * s.b_lo < W
    BY <1>9, <1>10, LowLow DEF LowHalfOK
  <2>2. \A z \in Nat : z < W => z % W = z BY <1>2
  <2> QED BY <2>1, <2>2, <1>8
<1> QED BY <1>7, <1>8, <1>9, <1>10, <1>11

LEMMA EnterStage2 ==
  ASSUME S1OK, s1.valid,
         NEW s, s = Stage2(s1)
  PROVE  /\ s.valid = TRUE /\ s.op = s1.op /\ s.rd = s1.rd
         /\ HalfOK(s.a_hi) /\ HalfOK(s.b_hi) /\ s.pp_ll \in Int
         /\ s.pp_lh \in Int /\ -W <= s.pp_lh /\ s.pp_lh < W
         /\ s.pp_hl \in Int /\ -W <= s.pp_hl /\ s.pp_hl < W
         /\ s.a_hi * s.b_hi * W + (s.pp_lh + s.pp_hl) * B + s.pp_ll = Exact(asked[1])
<1>1. W \in Nat \ {0} BY WordFacts
<1>2. /\ HalfOK(s1.a_hi) /\ HalfOK(s1.b_hi) /\ LowHalfOK(s1.a_lo) /\ LowHalfOK(s1.b_lo)
      /\ s1.pp_ll = s1.a_lo * s1.b_lo
      /\ (s1.a_hi * B + s1.a_lo) * (s1.b_hi * B + s1.b_lo) = Exact(asked[1])
      /\ s1.valid = TRUE
  BY DEF S1OK, Answers
<1> DEFINE lh == s1.a_lo * s1.b_hi
           hl == s1.a_hi * s1.b_lo
<1>3. lh \in Int /\ -W <= lh /\ lh < W BY <1>2, LowHigh DEF HalfOK, LowHalfOK
<1>4. hl \in Int /\ -W <= hl /\ hl < W
  <2>1. hl = s1.b_lo * s1.a_hi BY <1>2 DEF HalfOK, LowHalfOK
  <2> QED BY <2>1, <1>2, LowHigh DEF HalfOK, LowHalfOK
<1>5. /\ s.valid = TRUE /\ s.op = s1.op /\ s.rd = s1.rd
      /\ s.a_hi = s1.a_hi /\ s.b_hi = s1.b_hi /\ s.pp_ll = s1.pp_ll
      /\ s.pp_lh = SignedReg(lh, 2 * W) /\ s.pp_hl = SignedReg(hl, 2 * W)
  BY <1>2 DEF Stage2
<1> HIDE DEF lh, hl
<1>6. 2 * W \in Nat \ {0} /\ (2 * W) % 2 = 0 /\ (2 * W) \div 2 = W BY <1>1
<1>7. s.pp_lh = lh /\ s.pp_hl = hl BY <1>3, <1>4, <1>5, <1>6, RegisterHolds
<1>8. (s1.a_hi * B + s1.a_lo) * (s1.b_hi * B + s1.b_lo)
        = s1.a_hi * s1.b_hi * W + (lh + hl) * B + s1.a_lo * s1.b_lo
  <2> DEFINE p == s1.a_hi
             q == s1.a_lo
             u == s1.b_hi
             v == s1.b_lo
  <2>1. p \in Int /\ q \in Int /\ u \in Int /\ v \in Int
    BY <1>2 DEF HalfOK, LowHalfOK
  <2>2. lh = q * u /\ hl = p * v BY DEF lh, hl
  <2> HIDE DEF p, q, u, v
  <2>3. (p * B + q) * (u * B + v) = p * u * W + (q * u + p * v) * B + q * v
    BY <2>1, SplitProduct
  <2>4. (p * B + q) * (u * B + v) = p * u * W + (lh + hl) * B + q * v BY <2>2, <2>3
  <2> QED BY <2>4 DEF p, q, u, v
<1>9. s1.pp_ll \in Int BY <1>2 DEF LowHalfOK
<1> QED BY <1>2, <1>3, <1>4, <1>5, <1>7, <1>8, <1>9

LEMMA EnterStage3 ==
  ASSUME S2OK, s2.valid,
         NEW s, s = Stage3(s2)
  PROVE  /\ s.valid = TRUE /\ s.op = s2.op /\ s.rd = s2.rd
         /\ s.pp_ll \in Int /\ s.pp_mid \in Int /\ s.pp_hh \in Int
         /\ s.pp_hh * W + s.pp_mid * B + s.pp_ll = Exact(asked[2])
<1>1. W \in Nat \ {0} BY WordFacts
<1>2. /\ HalfOK(s2.a_hi) /\ HalfOK(s2.b_hi) /\ s2.pp_ll \in Int
      /\ s2.pp_lh \in Int /\ -W <= s2.pp_lh /\ s2.pp_lh < W
      /\ s2.pp_hl \in Int /\ -W <= s2.pp_hl /\ s2.pp_hl < W
      /\ s2.a_hi * s2.b_hi * W + (s2.pp_lh + s2.pp_hl) * B + s2.pp_ll = Exact(asked[2])
      /\ s2.valid = TRUE
  BY DEF S2OK, Answers
<1> DEFINE mid == s2.pp_lh + s2.pp_hl
           hh == s2.a_hi * s2.b_hi
<1>3. mid \in Int /\ -(2 * W) <= mid /\ mid < 2 * W BY <1>1, <1>2
<1>4. hh \in Int /\ -(2 * W) <= hh /\ hh < 2 * W
  <2>1. hh \in Int /\ -W <= hh /\ hh <= W BY <1>2, HighHigh DEF HalfOK
  <2> QED BY <2>1, <1>1
<1>5. /\ s.valid = TRUE /\ s.op = s2.op /\ s.rd = s2.rd /\ s.pp_ll = s2.pp_ll
      /\ s.pp_mid = SignedReg(mid, 4 * W) /\ s.pp_hh = SignedReg(hh, 4 * W)
  BY <1>2 DEF Stage3
<1> HIDE DEF mid, hh
<1>6. 4 * W \in Nat \ {0} /\ (4 * W) % 2 = 0 /\ (4 * W) \div 2 = 2 * W BY <1>1
<1>7. s.pp_mid = mid /\ s.pp_hh = hh BY <1>3, <1>4, <1>5, <1>6, RegisterHolds
<1> QED BY <1>2, <1>3, <1>4, <1>5, <1>7 DEF mid, hh

LEMMA EnterStage4 ==
  ASSUME S3OK, s3.valid,
         NEW s, s = Stage4(s3)
  PROVE  /\ s.valid = TRUE /\ s.op = s3.op /\ s.rd = s3.rd
         /\ s.product = Exact(asked[3]) % (W * W)
<1>1. W \in Nat \ {0} BY WordFacts
<1>2. /\ s3.pp_ll \in Int /\ s3.pp_mid \in Int /\ s3.pp_hh \in Int
      /\ s3.pp_hh * W + s3.pp_mid * B + s3.pp_ll = Exact(asked[3])
      /\ s3.valid = TRUE
  BY DEF S3OK, Answers
<1>3. s3.pp_ll + s3.pp_mid * B + s3.pp_hh * W = Exact(asked[3])
  BY <1>1, <1>2, MulAssumption
<1> QED BY <1>2, <1>3 DEF Stage4

-----------------------------------------------------------------------------

\* Reset and flush leave no multiplication behind.
LEMMA EmptyInv ==
  ASSUME s1 = Reset1, s2 = Reset2, s3 = Reset3, s4 = Reset4,
         asked = <<Nothing, Nothing, Nothing, Nothing>>
  PROVE  MulInv
<1>1. asked[1] = Nothing /\ asked[2] = Nothing /\ asked[3] = Nothing /\ asked[4] = Nothing
  OBVIOUS
<1>2. /\ Reset1.valid = FALSE /\ Reset2.valid = FALSE
      /\ Reset3.valid = FALSE /\ Reset4.valid = FALSE
  BY DEF Reset1, Reset2, Reset3, Reset4
<1>3. QuestionsOK BY <1>1 DEF QuestionsOK
<1>4. S1OK /\ S2OK BY <1>1, <1>2 DEF S1OK, S2OK, Answers
<1>5. S3OK /\ S4OK BY <1>1, <1>2 DEF S3OK, S4OK, Answers
<1> QED BY <1>3, <1>4, <1>5 DEF MulInv

LEMMA InitInv == MulInit => MulInv
BY EmptyInv DEF MulInit

\* Every stage takes over what the stage before it held.
LEMMA AdvanceInv ==
  ASSUME MulInv, NEW m, Advance(m)
  PROVE  /\ asked' = <<m, asked[1], asked[2], asked[3]>>
         /\ S2OK' /\ S3OK' /\ S4OK'
<1> USE DEF MulInv, Advance, Answers
<1>1. /\ asked' = <<m, asked[1], asked[2], asked[3]>>
      /\ s2' = Stage2(s1) /\ s3' = Stage3(s2) /\ s4' = Stage4(s3)
  OBVIOUS
<1>2. asked'[2] = asked[1] /\ asked'[3] = asked[2] /\ asked'[4] = asked[3]
  BY <1>1
<1>3. s2'.valid = s1.valid /\ s3'.valid = s2.valid /\ s4'.valid = s3.valid
  BY <1>1 DEF Stage2, Stage3, Stage4
<1>4. \A a, b : Exact(a) = Exact(b) \/ a # b OBVIOUS
<1>5. S2OK'
  <2>1. CASE s1.valid
    <3>1. S1OK /\ s1.valid = TRUE BY <2>1 DEF S1OK
    <3> QED BY <3>1, <1>1, <1>2, EnterStage2 DEF S1OK, S2OK, Exact, Signed
  <2>2. CASE ~s1.valid
    BY <2>2, <1>2, <1>3 DEF S1OK, S2OK
  <2> QED BY <2>1, <2>2
<1>6. S3OK'
  <2>1. CASE s2.valid
    <3>1. S2OK /\ s2.valid = TRUE BY <2>1 DEF S2OK
    <3> QED BY <3>1, <1>1, <1>2, EnterStage3 DEF S2OK, S3OK, Exact, Signed
  <2>2. CASE ~s2.valid
    BY <2>2, <1>2, <1>3 DEF S2OK, S3OK
  <2> QED BY <2>1, <2>2
<1>7. S4OK'
  <2>1. CASE s3.valid
    <3>1. S3OK /\ s3.valid = TRUE BY <2>1 DEF S3OK
    <3> QED BY <3>1, <1>1, <1>2, EnterStage4 DEF S3OK, S4OK, Exact, Signed
  <2>2. CASE ~s3.valid
    BY <2>2, <1>2, <1>3 DEF S3OK, S4OK
  <2> QED BY <2>1, <2>2
<1> QED BY <1>1, <1>5, <1>6, <1>7

LEMMA StepInv == MulInv /\ [MulNext]_mulVars => MulInv'
<1> SUFFICES ASSUME MulInv, [MulNext]_mulVars PROVE MulInv'
  OBVIOUS
<1>1. ASSUME NEW op \in MulOps, NEW x \in Operands, NEW y \in Operands, NEW rd \in Rds,
             Start(op, x, y, rd)
      PROVE  MulInv'
  <2> DEFINE m == [op |-> op, x |-> x, y |-> y, rd |-> rd]
  <2>1. m \in Question BY <1>1, MulAssumption DEF Question
  <2>2. Advance(m) /\ s1' = Stage1(TRUE, op, x, y, rd) BY <1>1 DEF Start
  <2>3. m.op = op /\ m.x = x /\ m.y = y /\ m.rd = rd OBVIOUS
  <2>4. m # Nothing BY <2>1 DEF Question, Nothing, MulOps
  <2> HIDE DEF m
  <2>5. asked' = <<m, asked[1], asked[2], asked[3]>> /\ S2OK' /\ S3OK' /\ S4OK'
    BY <2>2, AdvanceInv
  <2>6. QuestionsOK' BY <2>1, <2>5 DEF MulInv, QuestionsOK
  <2>7. S1OK'
    <3>1. asked'[1] = m BY <2>5
    <3>2. s1' = Stage1(TRUE, m.op, m.x, m.y, m.rd) BY <2>2, <2>3
    <3>3. /\ s1'.valid = TRUE /\ s1'.op = m.op /\ s1'.rd = m.rd
          /\ HalfOK(s1'.a_hi) /\ HalfOK(s1'.b_hi) /\ LowHalfOK(s1'.a_lo) /\ LowHalfOK(s1'.b_lo)
          /\ s1'.pp_ll = s1'.a_lo * s1'.b_lo
          /\ (s1'.a_hi * B + s1'.a_lo) * (s1'.b_hi * B + s1'.b_lo) = Exact(m)
      BY <2>1, <3>2, EnterStage1
    <3>4. Exact(asked[1])' = Exact(m) BY <3>1 DEF Exact, Signed
    <3>5. Answers(s1, asked[1])' BY <2>4, <3>1, <3>3 DEF Answers
    <3> QED BY <3>3, <3>4, <3>5 DEF S1OK, HalfOK, LowHalfOK
  <2> QED BY <2>5, <2>6, <2>7 DEF MulInv
<1>2. CASE Bubble
  <2>1. Advance(Nothing) /\ s1' = Reset1 BY <1>2 DEF Bubble
  <2>2. asked' = <<Nothing, asked[1], asked[2], asked[3]>> /\ S2OK' /\ S3OK' /\ S4OK'
    BY <2>1, AdvanceInv
  <2>3. QuestionsOK' BY <2>2 DEF MulInv, QuestionsOK
  <2>4. S1OK'
    <3>1. asked'[1] = Nothing BY <2>2
    <3> QED BY <3>1, <2>1 DEF S1OK, Answers, Reset1
  <2> QED BY <2>2, <2>3, <2>4 DEF MulInv
<1>3. CASE Flush
  <2>1. /\ s1' = Reset1 /\ s2' = Reset2 /\ s3' = Reset3 /\ s4' = Reset4
        /\ asked'[1] = Nothing /\ asked'[2] = Nothing
        /\ asked'[3] = Nothing /\ asked'[4] = Nothing
    BY <1>3 DEF Flush
  <2>2. /\ ~Reset1.valid /\ ~Reset2.valid /\ ~Reset3.valid /\ ~Reset4.valid
        /\ Reset1.valid = FALSE /\ Reset2.valid = FALSE
        /\ Reset3.valid = FALSE /\ Reset4.valid = FALSE
    BY DEF Reset1, Reset2, Reset3, Reset4
  <2>3. QuestionsOK' BY <2>1 DEF QuestionsOK
  <2>4. S1OK' /\ S2OK' BY <2>1, <2>2 DEF S1OK, S2OK, Answers
  <2>5. S3OK' /\ S4OK' BY <2>1, <2>2 DEF S3OK, S4OK, Answers
  <2> QED BY <2>3, <2>4, <2>5 DEF MulInv
<1>4. CASE UNCHANGED mulVars
  BY <1>4 DEF mulVars, MulInv, QuestionsOK, S1OK, S2OK, S3OK, S4OK, Answers, Exact, Signed
<1> QED BY <1>1, <1>2, <1>3, <1>4 DEF MulNext

\* The registers of every stage add up to the product asked for, so no partial
\* product ever outgrows its register (MUL.sv:156-210).
THEOREM PartialProductsFit == MulSpec => []StagesAddUp
<1>1. MulInv => StagesAddUp BY DEF MulInv, S1OK, S2OK, S3OK, StagesAddUp
<1> QED BY <1>1, InitInv, StepInv, PTL DEF MulSpec

\* A multiplication writes the word of the exact product that its operation asks
\* for, to its own register, and nothing else is ever written (MUL.sv:281-301).
THEOREM ProductsAreCorrect == MulSpec => []CorrectProduct
<1>1. MulInv => CorrectProduct
  <2> SUFFICES ASSUME MulInv PROVE CorrectProduct
    OBVIOUS
  <2>1. Answers(s4, asked[4]) /\ (s4.valid => s4.product = Exact(asked[4]) % (W * W))
    BY DEF MulInv, S4OK
  <2>2. asked[4] = Nothing \/ asked[4] \in Question BY DEF MulInv, QuestionsOK
  <2>3. s4.valid <=> Asked(4)
    <3>1. CASE asked[4] = Nothing
      <4>1. Nothing.op = "none" BY DEF Nothing
      <4> QED BY <2>1, <3>1, <4>1 DEF Answers, Asked
    <3>2. CASE asked[4] \in Question
      <4>1. asked[4].op \in MulOps BY <3>2 DEF Question
      <4>2. asked[4].op # "none" BY <4>1 DEF MulOps
      <4>3. asked[4] # Nothing BY <4>2 DEF Nothing
      <4> QED BY <2>1, <4>2, <4>3 DEF Answers, Asked
    <3> QED BY <2>2, <3>1, <3>2
  <2>4. s4.valid => Exact(asked[4]) \in Int
    <3> SUFFICES ASSUME s4.valid PROVE Exact(asked[4]) \in Int
      OBVIOUS
    <3>1. asked[4].x \in FullWord /\ asked[4].y \in FullWord
      BY <2>1, <2>2 DEF Answers, Question
    <3> QED BY <3>1, WordFacts, SignExtension DEF Exact, FullWord
  <2>5. s4.valid =>
          mul_result_o = IF asked[4].op = "MUL" THEN Exact(asked[4]) % W
                                                ELSE (Exact(asked[4]) \div W) % W
    BY <2>1, <2>4, WordsOf DEF mul_result_o, Answers
  <2>6. s4.valid => s4.rd = asked[4].rd BY <2>1 DEF Answers
  <2> QED BY <2>3, <2>5, <2>6 DEF CorrectProduct, mul_rf_we_o
<1> QED BY <1>1, InitInv, StepInv, PTL DEF MulSpec

-----------------------------------------------------------------------------
(* The predictors. *)

LEMMA PredictorSizes ==
  /\ INDEX_BITS \in 1 .. 31 /\ META_BITS \in 1 .. 31
  /\ \A i \in 0 .. 31 : 2 ^ i \in Nat \ {0} /\ 2 ^ (i + 1) = 2 * 2 ^ i
  /\ 2 ^ 0 = 1
  /\ \A i \in 1 .. 31 : 2 ^ i = 2 * 2 ^ (i - 1) /\ 2 ^ i \in Nat \ {0}
<1>1. INDEX_BITS \in 1 .. 31 /\ META_BITS \in 1 .. 31
  BY PredictorAssumption
<1>2. (\A i \in 0 .. 31 : 2 ^ i \in Nat \ {0} /\ 2 ^ (i + 1) = 2 * 2 ^ i) /\ 2 ^ 0 = 1
  BY PowersOfTwo DEF PowerStep
<1>3. ASSUME NEW i \in 1 .. 31 PROVE 2 ^ i = 2 * 2 ^ (i - 1) /\ 2 ^ i \in Nat \ {0}
  <2>1. i - 1 \in 0 .. 31 /\ i \in 0 .. 31 /\ (i - 1) + 1 = i
    OBVIOUS
  <2>2. 2 ^ ((i - 1) + 1) = 2 * 2 ^ (i - 1)
    BY <1>2, <2>1
  <2> QED
    BY <1>2, <2>1, <2>2
<1> QED
  BY <1>1, <1>2, <1>3

-----------------------------------------------------------------------------
(* The index of gshare lies in the table. *)

Differ(a, b, i) == (a \div 2 ^ i) % 2 # (b \div 2 ^ i) % 2

\* The bits below i in which a and b differ, as a number.
Added(a, b, g, i) ==
  IF i = 0 THEN 0 ELSE g[i - 1] + (IF Differ(a, b, i - 1) THEN 2 ^ (i - 1) ELSE 0)

Total(a, b) == CHOOSE g : g = [i \in 0 .. INDEX_BITS |-> Added(a, b, g, i)]

LEMMA XorIsTotal == \A a, b : xor(a, b) = Total(a, b)[INDEX_BITS]
  BY DEF xor, Total, Added, Differ

LEMMA TotalExists ==
  ASSUME NEW a, NEW b
  PROVE  Total(a, b) = [i \in 0 .. INDEX_BITS |-> Added(a, b, Total(a, b), i)]
<1> DEFINE Defined(n) == \E g : g = [i \in 0 .. n |-> Added(a, b, g, i)]
           Fails == {n \in Nat : ~Defined(n)}
<1>1. Defined(0)
  <2> DEFINE g == [i \in 0 .. 0 |-> 0]
  <2>1. g = [i \in 0 .. 0 |-> Added(a, b, g, i)]
    BY DEF Added
  <2> QED
    BY <2>1
<1>2. ASSUME NEW n \in Nat, Defined(n)
      PROVE  Defined(n + 1)
  <2>1. PICK g : g = [i \in 0 .. n |-> Added(a, b, g, i)]
    BY <1>2
  <2> DEFINE h == [i \in 0 .. n + 1 |-> Added(a, b, g, i)]
  <2>2. \A i \in 0 .. n : h[i] = g[i]
    BY <2>1
  <2>3. \A i \in 0 .. n + 1 : i # 0 => i - 1 \in 0 .. n
    OBVIOUS
  <2>4. \A i \in 0 .. n + 1 : Added(a, b, g, i) = Added(a, b, h, i)
    BY <2>2, <2>3 DEF Added
  <2>5. h = [i \in 0 .. n + 1 |-> Added(a, b, h, i)]
    BY <2>4
  <2> QED
    BY <2>5
<1>3. Fails = {}
  <2>1. 0 \notin Fails /\ \A n \in Nat : n + 1 \in Fails => n \in Fails
    BY <1>1, <1>2
  <2> HIDE DEF Fails
  <2>2. Fails \in SUBSET Nat
    BY DEF Fails
  <2> QED
    BY <2>1, <2>2, NoFailure
<1>4. Defined(INDEX_BITS)
  <2>1. INDEX_BITS \in Nat
    BY PredictorSizes
  <2> HIDE DEF Defined
  <2> QED
    BY <1>3, <2>1
<1> QED
  BY <1>4 DEF Total

LEMMA XorInTable ==
  ASSUME NEW a, NEW b
  PROVE  xor(a, b) \in Index
<1> DEFINE t == Total(a, b)
           Small(n) == t[n] \in Nat /\ t[n] < 2 ^ n
           Fails == {n \in Nat : n <= INDEX_BITS /\ ~Small(n)}
<1>1. /\ INDEX_BITS \in 1 .. 31 /\ 2 ^ 0 = 1
      /\ \A i \in 0 .. 31 : 2 ^ i \in Nat \ {0} /\ 2 ^ (i + 1) = 2 * 2 ^ i
  BY PredictorSizes
<1>2. t = [i \in 0 .. INDEX_BITS |-> Added(a, b, t, i)]
  BY TotalExists
<1> HIDE DEF t
<1>3. Small(0)
  BY <1>1, <1>2 DEF Added
<1>4. ASSUME NEW n \in Nat, n + 1 <= INDEX_BITS, Small(n) PROVE Small(n + 1)
  <2>1. n + 1 \in 0 .. INDEX_BITS /\ n \in 0 .. 31 /\ n + 1 # 0 /\ (n + 1) - 1 = n
    BY <1>1, <1>4
  <2>2. t[n + 1] = t[n] + (IF Differ(a, b, n) THEN 2 ^ n ELSE 0)
    BY <1>2, <2>1 DEF Added
  <2>3. 2 ^ n \in Nat /\ 2 ^ (n + 1) = 2 * 2 ^ n
    BY <1>1, <2>1
  <2> QED
    BY <1>4, <2>2, <2>3
<1>5. Fails = {}
  <2>1. 0 \notin Fails /\ \A n \in Nat : n + 1 \in Fails => n \in Fails
    BY <1>1, <1>3, <1>4
  <2> HIDE DEF Fails
  <2>2. Fails \in SUBSET Nat
    BY DEF Fails
  <2> QED
    BY <2>1, <2>2, NoFailure
<1>6. Small(INDEX_BITS)
  BY <1>1, <1>5
<1>7. xor(a, b) = t[INDEX_BITS]
  BY XorIsTotal DEF t
<1> QED
  BY <1>1, <1>6, <1>7 DEF Index

LEMMA EntryInTable ==
  ASSUME NEW p \in Nat, NEW h
  PROVE  entry_of(p, h) \in Index
<1>1. gshare_index(p, h) \in Index
  BY XorInTable DEF gshare_index
<1> DEFINE m == 2 ^ INDEX_BITS
<1>2. m \in Nat \ {0}
  BY PredictorSizes
<1> HIDE DEF m
<1>3. p % m \in 0 .. m - 1
  BY <1>2, Division
<1> QED
  BY <1>1, <1>3 DEF entry_of, Index, m

-----------------------------------------------------------------------------
(* The history as a number. *)

\* The last k outcomes in a history are all t.
Alike(h, t, k) == \E q \in Int : h + (IF t THEN 1 ELSE 0) = q * 2 ^ k

Histories == 0 .. 2 ^ META_BITS - 1

LEMMA PowerDivides ==
  ASSUME NEW k \in 0 .. META_BITS
  PROVE  \E r \in Nat : 2 ^ META_BITS = r * 2 ^ k
<1> DEFINE Divides(n) == \E r \in Nat : 2 ^ META_BITS = r * 2 ^ (META_BITS - n)
           Fails == {n \in Nat : n <= META_BITS /\ ~Divides(n)}
<1>1. /\ META_BITS \in 1 .. 31
      /\ \A i \in 0 .. 31 : 2 ^ i \in Nat \ {0}
      /\ \A i \in 1 .. 31 : 2 ^ i = 2 * 2 ^ (i - 1)
  BY PredictorSizes
<1>2. Divides(0)
  <2>1. 2 ^ META_BITS = 1 * 2 ^ (META_BITS - 0)
    BY <1>1
  <2> QED
    BY <2>1
<1>3. ASSUME NEW n \in Nat, n + 1 <= META_BITS, Divides(n) PROVE Divides(n + 1)
  <2>1. PICK r \in Nat : 2 ^ META_BITS = r * 2 ^ (META_BITS - n)
    BY <1>3
  <2> DEFINE i == META_BITS - n
             p == 2 ^ (i - 1)
  <2>2. i \in 1 .. 31 /\ META_BITS - (n + 1) = i - 1 /\ i - 1 \in 0 .. 31
    BY <1>1, <1>3
  <2>3. 2 ^ i = 2 * p /\ p \in Nat
    BY <1>1, <2>2
  <2> HIDE DEF i, p
  <2>4. r * (2 * p) = (2 * r) * p
    BY <2>3, SMT
  <2>5. 2 ^ META_BITS = (2 * r) * p /\ 2 * r \in Nat
    BY <2>1, <2>3, <2>4 DEF i
  <2> QED
    BY <2>2, <2>5 DEF p
<1>4. Fails = {}
  <2> HIDE DEF Divides
  <2>1. 0 \notin Fails /\ \A n \in Nat : n + 1 \in Fails => n \in Fails
    BY <1>1, <1>2, <1>3
  <2> HIDE DEF Fails
  <2>2. Fails \in SUBSET Nat
    BY DEF Fails
  <2> QED
    BY <2>1, <2>2, NoFailure
<1>5. Divides(META_BITS - k)
  <2>1. META_BITS - k \in Nat /\ META_BITS - k <= META_BITS
    BY <1>1
  <2> HIDE DEF Divides
  <2> QED
    BY <1>4, <2>1
<1>6. META_BITS - (META_BITS - k) = k
  BY <1>1
<1> QED
  BY <1>5, <1>6

\* Of no outcome at all one may say anything.
LEMMA NoneAlike ==
  ASSUME NEW h \in Nat, NEW t \in BOOLEAN
  PROVE  Alike(h, t, 0)
<1> DEFINE q == h + (IF t THEN 1 ELSE 0)
<1>1. q \in Int /\ q = q * 1 /\ 2 ^ 0 = 1
  BY PredictorSizes
<1> HIDE DEF q
<1>2. \E p \in Int : q = p * 2 ^ 0
  BY <1>1
<1> QED
  BY <1>2 DEF Alike, q

\* A history that has all its outcomes alike is known.
Full(t) == IF t THEN 2 ^ META_BITS - 1 ELSE 0

LEMMA AllAlike ==
  ASSUME NEW h \in Histories, NEW t \in BOOLEAN, Alike(h, t, META_BITS)
  PROVE  h = Full(t)
<1> DEFINE m == 2 ^ META_BITS
           o == IF t THEN 1 ELSE 0
<1>1. m \in Nat \ {0} /\ h \in Nat /\ h < m
  BY PredictorSizes DEF Histories
<1>2. PICK q \in Int : h + o = q * m
  BY DEF Alike
<1> HIDE DEF m
<1>3. (q <= 0 => q * m <= 0) /\ (q >= 1 => q * m >= m) /\ (q >= 2 => q * m >= 2 * m) /\ 1 * m = m
  BY <1>1, SMT
<1>4. h = IF t THEN m - 1 ELSE 0
  <2>1. CASE t
    <3>1. h + 1 = q * m
      BY <1>2, <2>1
    <3>2. q = 1
      BY <1>1, <1>3, <3>1
    <3> QED
      BY <1>1, <1>3, <2>1, <3>1, <3>2
  <2>2. CASE ~t
    <3>1. h = q * m
      BY <1>1, <1>2, <2>2
    <3>2. q <= 0
      BY <1>1, <1>3, <3>1
    <3> QED
      BY <1>1, <1>3, <2>2, <3>1, <3>2
  <2> QED
    BY <2>1, <2>2
<1> QED
  BY <1>4 DEF Full, m

Shifted(h, t) == (2 * h + (IF t THEN 1 ELSE 0)) % 2 ^ META_BITS

\* Shifting in one more of the same makes one more alike.
LEMMA OneMoreAlike ==
  ASSUME NEW h \in Histories, NEW t \in BOOLEAN
  PROVE  /\ Shifted(h, t) \in Histories
         /\ \A k \in 0 .. META_BITS - 1 : Alike(h, t, k) => Alike(Shifted(h, t), t, k + 1)
<1> DEFINE m == 2 ^ META_BITS
           o == IF t THEN 1 ELSE 0
           x == 2 * h + o
           g == x % m
           c == x \div m
<1>1. m \in Nat \ {0} /\ h \in Nat /\ o \in Nat /\ x \in Nat /\ x \in Int /\ META_BITS \in 1 .. 31
  BY PredictorSizes DEF Histories
<1>2. g \in 0 .. m - 1 /\ c \in Int /\ x = c * m + g
  <2> HIDE DEF m, x
  <2> QED
    BY <1>1, Division
<1>3. Shifted(h, t) = g
  BY DEF Shifted
<1>4. ASSUME NEW k \in 0 .. META_BITS - 1, Alike(h, t, k) PROVE Alike(g, t, k + 1)
  <2> DEFINE p == 2 ^ k
  <2>1. PICK q \in Int : h + o = q * p
    BY <1>4 DEF Alike
  <2>2. k \in 0 .. 31 /\ k + 1 \in 0 .. META_BITS
    BY <1>1, <1>4
  <2>3. p \in Nat \ {0} /\ 2 ^ (k + 1) = 2 * p
    BY <2>2, PredictorSizes
  <2>4. PICK r \in Nat : m = r * 2 ^ (k + 1)
    BY <2>2, PowerDivides
  <2> HIDE DEF m, p, g, c, o
  <2>5. 2 * (q * p) = q * (2 * p) /\ c * (r * (2 * p)) = (c * r) * (2 * p) /\ c * r \in Int
    BY <1>2, <2>3, <2>4, SMT
  <2>6. (q - c * r) * (2 * p) = q * (2 * p) - (c * r) * (2 * p)
    BY <1>2, <2>3, <2>4, SMT
  <2>7. g + o = (q - c * r) * (2 * p)
    <3>1. 2 * h + o = c * (r * (2 * p)) + g
      BY <1>2, <2>3, <2>4
    <3>2. q * p \in Int /\ c * (r * (2 * p)) \in Int /\ g \in Int
      BY <1>1, <1>2, <2>3, <2>4, SMT
    <3> QED
      BY <1>1, <2>1, <2>5, <2>6, <3>1, <3>2
  <2>8. q - c * r \in Int
    BY <2>5
  <2> QED
    BY <2>3, <2>7, <2>8 DEF Alike, o
<1> QED
  BY <1>2, <1>3, <1>4 DEF Histories

-----------------------------------------------------------------------------
(* What training does to the tables. *)

\* A counter that has been pushed n times towards t from where it was furthest.
Leans(c, t, n) == IF t THEN c >= n ELSE c <= 3 - n

LEMMA CounterLeans ==
  ASSUME NEW c \in 0 .. 3, NEW t \in BOOLEAN
  PROVE  /\ next_counter(c, t) \in 0 .. 3
         /\ Leans(next_counter(c, t), t, 1)
         /\ Leans(c, t, 1) => Leans(next_counter(c, t), t, 2)
<1> DEFINE d == next_counter(c, t)
<1>1. CASE t
  <2>1. d = IF c # 3 THEN c + 1 ELSE c
    BY <1>1 DEF next_counter
  <2>2. \A x, n : Leans(x, t, n) <=> x >= n
    BY <1>1 DEF Leans
  <2> HIDE DEF d
  <2>3. d \in 0 .. 3 /\ d >= 1 /\ (c >= 1 => d >= 2)
    BY <2>1
  <2> QED
    BY <2>2, <2>3 DEF d
<1>2. CASE ~t
  <2>1. d = IF c # 0 THEN c - 1 ELSE c
    BY <1>2 DEF next_counter
  <2>2. \A x, n : Leans(x, t, n) <=> x <= 3 - n
    BY <1>2 DEF Leans
  <2> HIDE DEF d
  <2>3. d \in 0 .. 3 /\ d <= 3 - 1 /\ (c <= 3 - 1 => d <= 3 - 2)
    BY <2>1
  <2> QED
    BY <2>2, <2>3 DEF d
<1> QED
  BY <1>1, <1>2

\* The entry of a branch whose outcomes have all been alike.
Home == entry_of(streak.pc, Full(streak.taken))

TableTypes ==
  /\ BPU_TYPE \in {"NONE", "STATIC", "DYNAMIC_1bit", "GSHARE"}
  /\ table \in [Index -> 0 .. 3]
  /\ ghr \in Histories
  /\ streak.pc \in Nat /\ streak.taken \in BOOLEAN /\ streak.n \in 0 .. META_BITS + 3
  /\ streak = [pc |-> streak.pc, taken |-> streak.taken, n |-> streak.n]

\* The history ends with the outcomes of the streak.
HistoryAlike ==
  BPU_TYPE = "GSHARE" =>
    \A k \in 0 .. META_BITS : k <= streak.n => Alike(ghr, streak.taken, k)

\* Once the history is full of them, two more of them turn the counter.
CounterTurns ==
  BPU_TYPE = "GSHARE" =>
    /\ streak.n >= META_BITS + 2 => Leans(table[Home], streak.taken, 1)
    /\ streak.n >= META_BITS + 3 => Leans(table[Home], streak.taken, 2)

BitSet ==
  BPU_TYPE = "DYNAMIC_1bit" /\ streak.n >= 1 =>
    table[streak.pc % 2 ^ INDEX_BITS] = IF streak.taken THEN 1 ELSE 0

TablesInv == TableTypes /\ HistoryAlike /\ CounterTurns /\ BitSet

StageTypes ==
  /\ id = NoInsn \/ id \in Code
  /\ ex.kind = "branch" => ex.i \in Code /\ ex.meta \in Histories

\* The branch in EX was predicted before the last outcome of the streak.
CarriedAlike ==
  BPU_TYPE = "GSHARE" /\ ex.kind = "branch" =>
    \A k \in 0 .. META_BITS : k < streak.n => Alike(ex.meta, streak.taken, k)

PredictorInv == TablesInv /\ StageTypes /\ CarriedAlike /\ TrainsPredictingEntry

\* The history before this step, seen from the streak after it.
Trails ==
  BPU_TYPE = "GSHARE" =>
    \A k \in 0 .. META_BITS : k < streak'.n => Alike(ghr, streak'.taken, k)

LEMMA Untraining ==
  ASSUME TablesInv, Untrained, UNCHANGED BPU_TYPE
  PROVE  TablesInv' /\ Trails
<1>1. TablesInv'
  BY DEF TablesInv, TableTypes, HistoryAlike, CounterTurns, BitSet, Home, Untrained,
         entry_of, gshare_index, xor
<1>2. Trails
  BY DEF TablesInv, TableTypes, HistoryAlike, Trails, Untrained
<1> QED
  BY <1>1, <1>2

\* The streak goes on, or begins anew.
LEMMA StreakSteps ==
  ASSUME TablesInv, NEW taken \in BOOLEAN, Train(taken),
         ex.i.pc \in Nat
  PROVE  /\ streak'.pc = ex.i.pc /\ streak'.taken = taken
         /\ streak'.n \in 1 .. META_BITS + 3
         /\ streak' = [pc |-> streak'.pc, taken |-> streak'.taken, n |-> streak'.n]
         /\ \/ streak'.n = 1
            \/ /\ streak.pc = ex.i.pc /\ streak.taken = taken
               /\ BPU_TYPE = "GSHARE" => streak'.n = streak.n + 1 \/ streak.n = META_BITS + 3
<1>1. META_BITS \in 1 .. 31
  BY PredictorSizes
<1>2. CASE streak.pc = ex.i.pc /\ streak.taken = taken
  <2> DEFINE m == IF streak.n < LearnWindow THEN streak.n + 1 ELSE streak.n
  <2>1. streak' = [streak EXCEPT !.n = m]
    BY <1>2 DEF Train
  <2>2. streak = [pc |-> streak.pc, taken |-> streak.taken, n |-> streak.n]
    BY DEF TablesInv, TableTypes
  <2>3. /\ m \in 1 .. META_BITS + 3
        /\ BPU_TYPE = "GSHARE" => m = streak.n + 1 \/ streak.n = META_BITS + 3
    BY <1>1 DEF TablesInv, TableTypes, LearnWindow
  <2> HIDE DEF m
  <2>4. streak' = [pc |-> streak.pc, taken |-> streak.taken, n |-> m]
    BY <2>1, <2>2, Zenon
  <2>5. streak'.n = m /\ streak'.pc = ex.i.pc
    BY <1>2, <2>4
  <2>6. streak'.taken = taken
    BY <1>2, <2>4, Zenon
  <2>7. streak' = [pc |-> streak'.pc, taken |-> streak'.taken, n |-> streak'.n]
    BY <1>2, <2>4, <2>5, <2>6, Zenon
  <2> QED
    BY <1>2, <2>3, <2>5, <2>6, <2>7, Zenon
<1>3. CASE ~(streak.pc = ex.i.pc /\ streak.taken = taken)
  <2>1. streak' = [pc |-> ex.i.pc, taken |-> taken, n |-> 1]
    BY <1>3 DEF Train
  <2>2. streak'.n = 1 /\ streak'.pc = ex.i.pc
    BY <2>1
  <2>3. streak'.taken = taken
    BY <2>1, Zenon
  <2>4. streak' = [pc |-> streak'.pc, taken |-> streak'.taken, n |-> streak'.n]
    BY <2>1, <2>2, <2>3, Zenon
  <2>5. 1 \in 1 .. META_BITS + 3
    BY <1>1
  <2> QED
    BY <2>2, <2>3, <2>4, <2>5, Zenon
<1> QED
  BY <1>2, <1>3

\* The entry that is trained is the one of the streak once the history is full of it.
LEMMA Training ==
  ASSUME PredictorInv, ex.kind = "branch",
         NEW taken \in BOOLEAN, Train(taken), UNCHANGED BPU_TYPE
  PROVE  TablesInv' /\ Trails
<1> DEFINE e == update_idx
           g == BPU_TYPE = "GSHARE"
<1>1. META_BITS \in 1 .. 31 /\ ex.i \in Code /\ ex.i.pc \in Nat /\ ex.meta \in Histories
  BY PredictorAssumption, PredictorSizes DEF PredictorInv, StageTypes
<1>2. TablesInv /\ TableTypes /\ HistoryAlike /\ CounterTurns
  BY DEF PredictorInv, TablesInv
<1>3. /\ streak'.pc = ex.i.pc /\ streak'.taken = taken
      /\ streak'.n \in 1 .. META_BITS + 3
      /\ streak' = [pc |-> streak'.pc, taken |-> streak'.taken, n |-> streak'.n]
      /\ \/ streak'.n = 1
         \/ /\ streak.pc = ex.i.pc /\ streak.taken = taken
            /\ g => streak'.n = streak.n + 1 \/ streak.n = META_BITS + 3
  BY <1>1, <1>2, StreakSteps
<1>4. e \in Index
  BY <1>1, EntryInTable DEF update_idx
<1>5. ghr' = IF g THEN Shifted(ghr, taken) ELSE ghr
  BY DEF Train, Shifted
<1>6. /\ Shifted(ghr, taken) \in Histories
      /\ \A k \in 0 .. META_BITS - 1 : Alike(ghr, taken, k) => Alike(Shifted(ghr, taken), taken, k + 1)
  BY <1>2, OneMoreAlike DEF TableTypes
<1>7. \A t \in BOOLEAN, h \in Histories : Alike(h, t, 0)
  BY NoneAlike, PredictorSizes DEF Histories
<1>8. table' = IF Learns THEN [table EXCEPT ![e] = trained(table[e], taken)] ELSE table
  BY DEF Train
<1>9. table[e] \in 0 .. 3
  BY <1>2, <1>4 DEF TableTypes
<1>10. trained(table[e], taken) =
         IF g THEN next_counter(table[e], taken) ELSE IF taken THEN 1 ELSE 0
  BY DEF trained
<1>11. /\ next_counter(table[e], taken) \in 0 .. 3
       /\ Leans(next_counter(table[e], taken), taken, 1)
       /\ Leans(table[e], taken, 1) => Leans(next_counter(table[e], taken), taken, 2)
  BY <1>9, CounterLeans
<1>12. TableTypes'
  <2>1. trained(table[e], taken) \in 0 .. 3
    BY <1>10, <1>11
  <2>2. table' \in [Index -> 0 .. 3]
    BY <1>2, <1>4, <1>8, <2>1 DEF TableTypes
  <2>3. ghr' \in Histories
    BY <1>2, <1>5, <1>6 DEF TableTypes
  <2> QED
    BY <1>1, <1>2, <1>3, <2>2, <2>3 DEF TableTypes, Index, Histories
<1>13. HistoryAlike'
  <2>1. SUFFICES ASSUME g, NEW k \in 0 .. META_BITS, k <= streak'.n
                 PROVE  Alike(ghr', taken, k)
    BY <1>3 DEF HistoryAlike, Alike
  <2>2. CASE k = 0
    BY <1>7, <1>12, <2>2 DEF TableTypes, Histories
  <2>3. CASE k >= 1
    <3>1. k - 1 \in 0 .. META_BITS - 1 /\ (k - 1) + 1 = k
      BY <1>1, <2>3
    <3>2. Alike(ghr, taken, k - 1)
      <4>1. CASE k = 1
        BY <1>2, <1>7, <4>1 DEF TableTypes
      <4>2. CASE k # 1
        <5>1. streak.taken = taken /\ k - 1 <= streak.n /\ k - 1 \in 0 .. META_BITS
          BY <1>1, <1>2, <1>3, <2>1, <2>3, <4>2 DEF TableTypes
        <5> QED
          BY <1>2, <2>1, <5>1 DEF HistoryAlike
      <4> QED
        BY <4>1, <4>2
    <3> QED
      BY <1>5, <1>6, <2>1, <3>1, <3>2
  <2> QED
    BY <2>2, <2>3
<1>14. CounterTurns'
  <2>1. SUFFICES ASSUME g, streak'.n >= META_BITS + 2
                 PROVE  /\ Leans(table'[Home'], taken, 1)
                        /\ streak'.n >= META_BITS + 3 => Leans(table'[Home'], taken, 2)
    BY <1>1, <1>3 DEF CounterTurns, Leans
  <2>2. streak.pc = ex.i.pc /\ streak.taken = taken /\ streak.n >= META_BITS + 1
    BY <1>1, <1>2, <1>3, <2>1 DEF TableTypes
  <2>3. Alike(ex.meta, taken, META_BITS)
    <3>1. META_BITS \in 0 .. META_BITS /\ META_BITS < streak.n
      BY <1>1, <1>2, <2>2 DEF TableTypes
    <3> QED
      BY <2>1, <2>2, <3>1 DEF PredictorInv, CarriedAlike
  <2>4. ex.meta = Full(taken)
    BY <1>1, <2>3, AllAlike
  <2>5. Home' = e /\ Home = e
    <3>1. Home = entry_of(ex.i.pc, Full(taken))
      BY <2>2 DEF Home
    <3>2. Home' = entry_of(ex.i.pc, Full(taken))
      BY <1>3 DEF Home, entry_of, gshare_index, Full
    <3> QED
      BY <2>4, <3>1, <3>2 DEF update_idx
  <2>6. table'[e] = next_counter(table[e], taken)
    BY <1>2, <1>4, <1>8, <1>10, <2>1 DEF TableTypes, Learns
  <2>7. streak'.n >= META_BITS + 3 => Leans(table[e], taken, 1)
    <3>1. streak'.n >= META_BITS + 3 => streak.n >= META_BITS + 2
      BY <1>1, <1>2, <1>3, <2>1 DEF TableTypes
    <3> QED
      BY <1>2, <2>1, <2>2, <2>5, <3>1 DEF CounterTurns
  <2> QED
    BY <1>11, <2>5, <2>6, <2>7
<1>15. BitSet'
  <2>1. SUFFICES ASSUME BPU_TYPE = "DYNAMIC_1bit"
                 PROVE  table'[ex.i.pc % 2 ^ INDEX_BITS] = IF taken THEN 1 ELSE 0
    BY <1>3 DEF BitSet
  <2>2. e = ex.i.pc % 2 ^ INDEX_BITS
    BY <2>1 DEF update_idx, entry_of
  <2> QED
    BY <1>2, <1>4, <1>8, <1>10, <2>1, <2>2 DEF TableTypes, Learns
<1>16. Trails
  <2>1. SUFFICES ASSUME g, NEW k \in 0 .. META_BITS, k < streak'.n
                 PROVE  Alike(ghr, taken, k)
    BY <1>3 DEF Trails
  <2>2. CASE k = 0
    BY <1>2, <1>7, <2>2 DEF TableTypes
  <2>3. CASE k # 0
    <3>1. streak.taken = taken /\ k <= streak.n
      BY <1>1, <1>2, <1>3, <2>1, <2>3 DEF TableTypes
    <3> QED
      BY <1>2, <2>1, <3>1 DEF HistoryAlike
  <2> QED
    BY <2>2, <2>3
<1> QED
  BY <1>12, <1>13, <1>14, <1>15, <1>16 DEF TablesInv

-----------------------------------------------------------------------------
(* The steps of the pipeline. *)

\* Every branch that is resolved trains, and nothing else does.
LEMMA Leaving ==
  ASSUME PredictorInv, UNCHANGED BPU_TYPE, NEW taken \in BOOLEAN,
         Leave(taken) \/ Mispredict(taken) \/ Except
  PROVE  TablesInv' /\ Trails
<1>1. CASE Untrained
  BY <1>1, Untraining DEF PredictorInv
<1>2. CASE ex.kind = "branch" /\ Train(taken)
  BY <1>2, Training
<1> QED
  BY <1>1, <1>2 DEF Leave, Mispredict, Except

LEMMA Emptying ==
  ASSUME TablesInv', id' = NoInsn \/ id' \in Code, ex' = NoInsn
  PROVE  PredictorInv'
<1>1. ex'.kind = "none"
  BY DEF NoInsn
<1> QED
  BY <1>1 DEF PredictorInv, StageTypes, CarriedAlike, TrainsPredictingEntry

\* A branch takes the history along that it was predicted with.
LEMMA Issuing ==
  ASSUME PredictorInv, TablesInv', Trails, UNCHANGED BPU_TYPE,
         Issue, id' = NoInsn \/ id' \in Code
  PROVE  PredictorInv'
<1>1. CASE id = NoInsn
  BY <1>1, Emptying DEF Issue
<1>2. CASE id # NoInsn
  <2>1. /\ ex'.kind = id.kind /\ ex'.i = id /\ ex'.meta = predict_meta
        /\ looked_up' = entry_of(id.pc, ghr)
    BY <1>2 DEF Issue
  <2>2. id \in Code
    BY <1>2 DEF PredictorInv, StageTypes
  <2>3. predict_meta = IF BPU_TYPE = "GSHARE" THEN ghr ELSE 0
    BY DEF predict_meta
  <2>4. predict_meta \in Histories
    BY <2>3, PredictorSizes DEF PredictorInv, TablesInv, TableTypes, Histories
  <2>5. StageTypes'
    BY <2>1, <2>2, <2>4 DEF StageTypes, Histories
  <2>6. CarriedAlike'
    BY <2>1, <2>3 DEF CarriedAlike, Trails, Alike
  <2>7. TrainsPredictingEntry'
    <3>1. (entry_of(ex.i.pc, ex.meta))' = entry_of(id.pc, predict_meta)
      BY <2>1 DEF entry_of, gshare_index, xor
    <3>2. entry_of(id.pc, predict_meta) = entry_of(id.pc, ghr)
      BY <2>3 DEF entry_of
    <3> QED
      BY <2>1, <3>1, <3>2 DEF TrainsPredictingEntry, update_idx
  <2> QED
    BY <2>5, <2>6, <2>7 DEF PredictorInv
<1> QED
  BY <1>1, <1>2

LEMMA PredictorInit == ASSUME BpuInit PROVE PredictorInv
<1>1. META_BITS \in 1 .. 31 /\ 2 ^ META_BITS \in Nat \ {0}
  BY PredictorSizes
<1>2. streak.pc = 0 /\ streak.taken = FALSE /\ streak.n = 0 /\ ex.kind = "none"
  BY DEF BpuInit, NoInsn
<1>3. TableTypes
  <2>1. table \in [Index -> 0 .. 3]
    BY DEF BpuInit
  <2>2. BPU_TYPE \in {"NONE", "STATIC", "DYNAMIC_1bit", "GSHARE"}
    BY PredictorAssumption DEF BpuInit
  <2>3. ghr \in Histories
    BY <1>1 DEF BpuInit, Histories
  <2>4. streak = [pc |-> streak.pc, taken |-> streak.taken, n |-> streak.n]
    BY <1>2, Zenon DEF BpuInit
  <2>5. streak.pc \in Nat /\ streak.n \in 0 .. META_BITS + 3
    BY <1>1, <1>2
  <2>6. streak.taken \in BOOLEAN
    BY <1>2, Zenon
  <2> QED
    BY <2>1, <2>2, <2>3, <2>4, <2>5, <2>6, Zenon DEF TableTypes
<1>4. HistoryAlike
  BY <1>1, <1>2, <1>3, NoneAlike DEF HistoryAlike, TableTypes, Histories
<1>5. CounterTurns /\ BitSet
  BY <1>1, <1>2 DEF CounterTurns, BitSet
<1>6. StageTypes /\ CarriedAlike /\ TrainsPredictingEntry
  BY <1>2 DEF BpuInit, StageTypes, CarriedAlike, TrainsPredictingEntry
<1> QED
  BY <1>3, <1>4, <1>5, <1>6 DEF PredictorInv, TablesInv

LEMMA PredictorStep ==
  ASSUME PredictorInv, [BpuNext]_predictorVars
  PROVE  PredictorInv'
<1>1. CASE UNCHANGED predictorVars
  BY <1>1 DEF predictorVars, PredictorInv, TablesInv, TableTypes, HistoryAlike, CounterTurns,
     BitSet, Home, StageTypes, CarriedAlike, TrainsPredictingEntry, Learns,
     update_idx, entry_of, gshare_index
<1>2. ASSUME NEW taken \in BOOLEAN, UNCHANGED BPU_TYPE, Mispredict(taken) \/ Except
      PROVE  PredictorInv'
  <2>1. TablesInv' /\ FlushStages
    BY <1>2, Leaving DEF Mispredict, Except
  <2> QED
    BY <2>1, Emptying DEF FlushStages
<1>3. ASSUME NEW taken \in BOOLEAN, NEW next \in Code, UNCHANGED BPU_TYPE, Flow(taken, next)
      PROVE  PredictorInv'
  <2>1. TablesInv' /\ Trails
    BY <1>3, Leaving DEF Flow
  <2>2. Issue /\ (id' = NoInsn \/ id' \in Code)
    BY <1>3 DEF Flow, Fetch
  <2> QED
    BY <1>3, <2>1, <2>2, Issuing
<1>4. ASSUME NEW taken \in BOOLEAN, UNCHANGED BPU_TYPE, Hold(taken)
      PROVE  PredictorInv'
  <2>1. TablesInv'
    BY <1>4, Leaving DEF Hold
  <2>2. ex' = NoInsn /\ (id' = NoInsn \/ id' \in Code)
    BY <1>4 DEF Hold, Stall, PredictorInv, StageTypes
  <2> QED
    BY <2>1, <2>2, Emptying
<1> QED
  BY <1>1, <1>2, <1>3, <1>4 DEF BpuNext

\* A streak of LearnWindow has turned the counter it predicts with.
LEMMA LearnsOf == ASSUME PredictorInv PROVE PredictorsLearn
<1>1. META_BITS \in 1 .. 31 /\ TableTypes /\ HistoryAlike /\ CounterTurns /\ BitSet
  BY PredictorSizes DEF PredictorInv, TablesInv
<1>2. ASSUME NEW i \in Code, i.kind = "branch", i.pc = streak.pc,
             BPU_TYPE = "GSHARE", streak.n = META_BITS + 3
      PROVE  predict_taken(i) = streak.taken
  <2> DEFINE c == table[Home]
  <2>1. Alike(ghr, streak.taken, META_BITS)
    <3>1. META_BITS \in 0 .. META_BITS /\ META_BITS <= streak.n
      BY <1>1, <1>2
    <3> QED
      BY <1>1, <1>2, <3>1 DEF HistoryAlike
  <2>2. ghr = Full(streak.taken)
    BY <1>1, <2>1, AllAlike DEF TableTypes
  <2>3. entry_of(i.pc, ghr) = Home
    BY <1>2, <2>2 DEF Home
  <2>4. c \in 0 .. 3
    BY <1>1, EntryInTable DEF TableTypes, Home
  <2>5. Leans(c, streak.taken, 2)
    BY <1>1, <1>2 DEF CounterTurns
  <2>6. predict_taken(i) = (c >= 2)
    BY <1>2, <2>3 DEF predict_taken, predict_branch
  <2> HIDE DEF c
  <2>7. CASE streak.taken = TRUE
    <3>1. c >= 2
      BY <2>5, <2>7 DEF Leans
    <3> QED
      BY <2>6, <2>7, <3>1, Zenon
  <2>8. CASE streak.taken = FALSE
    <3>1. (c >= 2) = FALSE
      <4>1. ~(c >= 2)
        BY <2>4, <2>5, <2>8 DEF Leans
      <4> QED
        BY <4>1
    <3> QED
      BY <2>6, <2>8, <3>1, Zenon
  <2> QED
    BY <1>1, <2>7, <2>8 DEF TableTypes
<1>3. ASSUME NEW i \in Code, i.kind = "branch", i.pc = streak.pc,
             BPU_TYPE = "DYNAMIC_1bit", streak.n = 1
      PROVE  predict_taken(i) = streak.taken
  <2> DEFINE b == table[streak.pc % 2 ^ INDEX_BITS]
  <2>1. b = IF streak.taken THEN 1 ELSE 0
    BY <1>1, <1>3 DEF BitSet
  <2>2. predict_taken(i) = (b = 1)
    BY <1>3 DEF predict_taken, predict_branch, entry_of
  <2> HIDE DEF b
  <2>3. CASE streak.taken = TRUE
    BY <2>1, <2>2, <2>3, Zenon
  <2>4. CASE streak.taken = FALSE
    <3>1. b # 1
      BY <2>1, <2>4
    <3> QED
      BY <2>2, <2>4, <3>1, Zenon
  <2> QED
    BY <1>1, <2>3, <2>4 DEF TableTypes
<1>4. LearnsConstantBranch
  BY <1>2, <1>3 DEF LearnsConstantBranch, Learns, LearnWindow
<1> QED
  BY <1>4 DEF PredictorInv, PredictorsLearn

\* A branch trains the entry it was predicted with, and a branch that has done the same often
\* enough is predicted to: for every size of the table and of the history
\* (Dynamic_Gshare_Predictor.sv:34-66, Dynamic_1bit_Predictor.sv:32-65).
THEOREM PredictionsLearn ==
  BpuSpec => []PredictorsLearn
<1>1. BpuInit => PredictorInv
  BY PredictorInit
<1>2. PredictorInv /\ [BpuNext]_predictorVars => PredictorInv'
  BY PredictorStep
<1>3. PredictorInv => PredictorsLearn
  BY LearnsOf
<1> QED
  BY <1>1, <1>2, <1>3, PTL DEF BpuSpec

-----------------------------------------------------------------------------
(* The data memory: a word is its four bytes. *)

P == 2 ^ BITS
P2 == P * P
P3 == P * P2
P4 == P * P3

Byte == 0 .. P - 1
RamWord == 0 .. P4 - 1
Lanes == [0 .. 3 -> Byte]

LEMMA RamPowers ==
  /\ P \in Nat /\ P >= 2 /\ P = 2 * 2 ^ (BITS - 1) /\ 2 ^ (BITS - 1) \in Nat
  /\ 2 ^ (BITS * 1) = P /\ 2 ^ (BITS * 2) = P2 /\ 2 ^ (BITS * 3) = P3 /\ 2 ^ (BITS * 4) = P4
  /\ 2 ^ (2 * BITS) = P2 /\ 2 ^ (3 * BITS) = P3 /\ 2 ^ (4 * BITS) = P4
  /\ 2 ^ (BITS * 0) = 1
<1>1. BITS \in 1 .. 8
  BY LoadStoreAssumption
<1>2. 2 ^ 0 = 1 /\ 2 ^ 1 = 2
  BY PowersOfTwo
<1>3. P = 2 ^ (BITS - 1) * 2 /\ 2 ^ (BITS - 1) \in Nat \ {0}
  <2>1. BITS - 1 \in Nat /\ 1 \in Nat /\ (BITS - 1) + 1 <= 32 /\ (BITS - 1) + 1 = BITS
    BY <1>1
  <2>2. 2 ^ ((BITS - 1) + 1) = 2 ^ (BITS - 1) * 2 ^ 1 /\ 2 ^ (BITS - 1) \in Nat \ {0}
    BY <2>1, PowerSum
  <2> QED
    BY <1>2, <2>1, <2>2 DEF P
<1>4. P2 = 2 ^ (BITS + BITS)
  <2>1. BITS \in Nat /\ BITS + BITS <= 32
    BY <1>1
  <2> QED
    BY <2>1, PowerSum DEF P, P2
<1>5. P3 = 2 ^ (BITS + (BITS + BITS))
  <2>1. BITS \in Nat /\ BITS + BITS \in Nat /\ BITS + (BITS + BITS) <= 32
    BY <1>1
  <2> QED
    BY <1>4, <2>1, PowerSum DEF P, P3
<1>6. P4 = 2 ^ (BITS + (BITS + (BITS + BITS)))
  <2>1. BITS \in Nat /\ BITS + (BITS + BITS) \in Nat /\ BITS + (BITS + (BITS + BITS)) <= 32
    BY <1>1
  <2> QED
    BY <1>5, <2>1, PowerSum DEF P, P4
<1>7. /\ BITS * 0 = 0 /\ BITS * 1 = BITS /\ BITS * 2 = BITS + BITS /\ 2 * BITS = BITS + BITS
      /\ BITS * 3 = BITS + (BITS + BITS) /\ 3 * BITS = BITS + (BITS + BITS)
      /\ BITS * 4 = BITS + (BITS + (BITS + BITS)) /\ 4 * BITS = BITS + (BITS + (BITS + BITS))
  BY <1>1
<1>8. /\ 2 ^ (BITS * 1) = P /\ 2 ^ (BITS * 2) = P2 /\ 2 ^ (BITS * 3) = P3 /\ 2 ^ (BITS * 4) = P4
      /\ 2 ^ (2 * BITS) = P2 /\ 2 ^ (3 * BITS) = P3 /\ 2 ^ (4 * BITS) = P4
      /\ 2 ^ (BITS * 0) = 1
  BY <1>2, <1>4, <1>5, <1>6, <1>7 DEF P
<1> QED
  BY <1>3, <1>8

\* The sizes as numbers, without what they are made of.
LEMMA RamSizes ==
  /\ P \in Nat \ {0} /\ P2 \in Nat \ {0} /\ P3 \in Nat \ {0} /\ P4 \in Nat \ {0}
  /\ \A x \in Nat : x * P \in Nat /\ x * P2 \in Nat /\ x * P3 \in Nat
  /\ \A x \in Nat : x * P2 = (x * P) * P /\ x * P3 = (x * P2) * P
<1>1. P \in Nat \ {0}
  BY RamPowers
<1>2. P2 \in Nat \ {0}
  BY <1>1, SMT DEF P2
<1>3. P3 \in Nat \ {0}
  BY <1>1, <1>2, SMT DEF P3
<1>4. P4 \in Nat \ {0}
  BY <1>1, <1>3, SMT DEF P4
<1>5. ASSUME NEW x \in Nat
      PROVE  /\ x * P \in Nat /\ x * P2 \in Nat /\ x * P3 \in Nat
             /\ x * P2 = (x * P) * P /\ x * P3 = (x * P2) * P
  <2>1. x * P \in Nat /\ x * P2 \in Nat /\ x * P3 \in Nat
    BY <1>1, <1>2, <1>3, SMT
  <2>2. x * (P * P) = (x * P) * P
    BY <1>1, SMT
  <2>3. x * (P * P2) = (x * P2) * P
    BY <1>1, <1>2, SMT
  <2> QED
    BY <2>1, <2>2, <2>3 DEF P2, P3
<1> QED
  BY <1>1, <1>2, <1>3, <1>4, <1>5

\* A number below b digits of base P, with one more digit on top.
LEMMA OneMoreDigit ==
  ASSUME NEW n \in Nat \ {0}, NEW d \in Byte, NEW r \in 0 .. n - 1
  PROVE  r + d * n \in 0 .. P * n - 1
<1>1. P \in Nat \ {0} /\ d \in Nat /\ d <= P - 1 /\ r \in Nat
  BY RamSizes DEF Byte
<1>2. d * n <= (P - 1) * n /\ d * n \in Nat
  <2>1. P - 1 \in Nat
    BY <1>1
  <2> QED
    BY <1>1, <2>1, ProductGrows
<1>3. (P - 1) * n = P * n - n /\ P * n \in Nat
  BY <1>1, SMT
<1> QED
  BY <1>1, <1>2, <1>3

\* What is in a word that is put together from bytes.
LEMMA Assembled ==
  ASSUME NEW b \in Lanes
  PROVE  /\ word_of(b) \in RamWord
         /\ \A k \in 0 .. 3 : lane(word_of(b), k) = b[k]
         /\ word_of(b) % P2 = b[0] + b[1] * P
         /\ (word_of(b) \div P2) % P2 = b[2] + b[3] * P
<1> DEFINE w == word_of(b)
           r1 == b[0] + b[1] * P
           r2 == r1 + b[2] * P2
           h == b[2] + b[3] * P
           q1 == b[1] + h * P
<1>1. b[0] \in Byte /\ b[1] \in Byte /\ b[2] \in Byte /\ b[3] \in Byte
  BY DEF Lanes
<1>2. /\ b[0] \in Nat /\ b[1] \in Nat /\ b[2] \in Nat /\ b[3] \in Nat
      /\ b[0] \in 0 .. P - 1 /\ b[1] \in 0 .. P - 1 /\ b[2] \in 0 .. P - 1 /\ b[3] \in 0 .. P - 1
  BY <1>1, RamSizes DEF Byte
<1>3. w = b[0] + b[1] * P + b[2] * P2 + b[3] * P3
  BY RamPowers DEF word_of, P
<1>4. r1 \in 0 .. P2 - 1 /\ h \in 0 .. P2 - 1
  <2>1. b[0] + b[1] * P \in 0 .. P * P - 1
    BY <1>1, <1>2, RamSizes, OneMoreDigit
  <2>2. b[2] + b[3] * P \in 0 .. P * P - 1
    BY <1>1, <1>2, RamSizes, OneMoreDigit
  <2> QED
    BY <2>1, <2>2 DEF P2
<1> HIDE DEF r1, h
<1>5. r2 \in 0 .. P3 - 1
  <2>1. r1 + b[2] * P2 \in 0 .. P * P2 - 1
    BY <1>1, <1>4, RamSizes, OneMoreDigit
  <2> QED
    BY <2>1 DEF P3
<1> HIDE DEF r2
<1>6. r2 + b[3] * P3 \in 0 .. P4 - 1
  <2>1. r2 + b[3] * P3 \in 0 .. P * P3 - 1
    BY <1>1, <1>5, RamSizes, OneMoreDigit
  <2> QED
    BY <2>1 DEF P4
<1>7. w = r2 + b[3] * P3
  BY <1>2, <1>3, RamSizes DEF r1, r2
<1>8. w = h * P2 + r1
  <2>1. h * P2 = b[2] * P2 + b[3] * P3
    <3> DEFINE x == b[3]
    <3>1. (b[2] + x * P) * P2 = b[2] * P2 + x * (P * P2)
      BY <1>2, RamSizes, SMT
    <3> QED
      BY <3>1 DEF h, P3
  <2>2. r1 = b[0] + b[1] * P
    BY DEF r1
  <2>3. b[1] * P \in Nat /\ b[2] * P2 \in Nat /\ b[3] * P3 \in Nat
    BY <1>2, RamSizes
  <2> HIDE DEF w
  <2> QED
    BY <1>2, <1>3, <2>1, <2>2, <2>3
<1>9. w = q1 * P + b[0]
  <2>1. h * P2 = (h * P) * P /\ h \in Nat /\ h * P \in Nat
    BY <1>4, RamSizes
  <2>2. (b[1] + h * P) * P = b[1] * P + (h * P) * P
    BY <1>2, <2>1, RamSizes, SMT
  <2>3. r1 = b[0] + b[1] * P /\ q1 = b[1] + h * P
    BY DEF r1
  <2>4. b[1] * P \in Nat /\ (h * P) * P \in Nat /\ r1 \in Nat /\ w = (h * P) * P + r1
    BY <1>2, <1>4, <1>8, <2>1, RamSizes
  <2>5. q1 * P = b[1] * P + (h * P) * P
    BY <2>2, <2>3
  <2> HIDE DEF w, q1
  <2> QED
    BY <1>2, <2>3, <2>4, <2>5
<1>10. q1 \in Nat /\ q1 \in Int
  BY <1>2, <1>4, RamSizes
<1> HIDE DEF w, q1
<1>11. w \div P = q1 /\ w % P = b[0]
  BY <1>2, <1>9, <1>10, RamSizes, DivisionUnique
<1>12. w \div P2 = h /\ w % P2 = r1
  BY <1>4, <1>8, RamSizes, DivisionUnique
<1>13. w \div P3 = b[3]
  <2>1. w = b[3] * P3 + r2 /\ b[3] \in Int
    BY <1>2, <1>5, <1>7, RamSizes
  <2> QED
    BY <1>5, <2>1, RamSizes, DivisionUnique
<1>14. q1 % P = b[1] /\ h % P = b[2] /\ b[3] % P = b[3] /\ h % P2 = h
  <2>1. q1 = h * P + b[1] /\ h = b[3] * P + b[2] /\ h \in Int /\ b[3] \in Int
    BY <1>2, <1>4, RamSizes DEF q1, h
  <2>2. q1 % P = b[1]
    BY <1>2, <2>1, RamSizes, DivisionUnique
  <2>3. h % P = b[2]
    BY <1>2, <2>1, RamSizes, DivisionUnique
  <2>4. \A n \in Nat \ {0} : \A x \in 0 .. n - 1 : x = 0 * n + x
    OBVIOUS
  <2>5. \A n \in Nat \ {0} : \A x \in 0 .. n - 1 : x % n = x
    <3> SUFFICES ASSUME NEW n \in Nat \ {0}, NEW x \in 0 .. n - 1 PROVE x % n = x
      OBVIOUS
    <3>1. (0 * n + x) % n = x
      BY DivisionUnique
    <3> QED
      BY <2>4, <3>1
  <2> QED
    BY <1>2, <1>4, <2>2, <2>3, <2>5, RamSizes
<1>15. /\ lane(w, 0) = (w \div 1) % P /\ lane(w, 1) = (w \div P) % P
       /\ lane(w, 2) = (w \div P2) % P /\ lane(w, 3) = (w \div P3) % P
  BY RamPowers DEF lane, P
<1>16. w \div 1 = w
  BY <1>2, <1>9, <1>10, RamSizes
<1>17. \A k \in 0 .. 3 : lane(w, k) = b[k]
  <2>1. lane(w, 0) = b[0] /\ lane(w, 1) = b[1] /\ lane(w, 2) = b[2] /\ lane(w, 3) = b[3]
    BY <1>11, <1>12, <1>13, <1>14, <1>15, <1>16
  <2> QED
    BY <2>1
<1>18. w \in RamWord
  BY <1>6, <1>7 DEF RamWord
<1> QED
  BY <1>12, <1>14, <1>17, <1>18 DEF w, r1, h

\* A word is put together from its bytes.
LEMMA Disassembled ==
  ASSUME NEW w \in RamWord
  PROVE  \E b \in Lanes : w = word_of(b)
<1> DEFINE q1 == w \div P
           q2 == q1 \div P
           q3 == q2 \div P
           b0 == w % P
           b1 == q1 % P
           b2 == q2 % P
<1>1. w \in Nat /\ w < P4 /\ P \in Nat \ {0}
  BY RamSizes DEF RamWord
<1>2. q1 \in Nat /\ b0 \in Byte /\ w = q1 * P + b0
  <2>1. w \in Int
    BY <1>1
  <2> QED
    BY <1>1, <2>1, Division DEF Byte
<1> HIDE DEF q1, b0
<1>3. q2 \in Nat /\ b1 \in Byte /\ q1 = q2 * P + b1
  <2>1. q1 \in Int
    BY <1>2
  <2> QED
    BY <1>1, <1>2, <2>1, Division DEF Byte
<1> HIDE DEF q2, b1
<1>4. q3 \in Nat /\ b2 \in Byte /\ q2 = q3 * P + b2
  <2>1. q2 \in Int
    BY <1>3
  <2> QED
    BY <1>1, <1>3, <2>1, Division DEF Byte
<1> HIDE DEF q3, b2
<1>5. b0 \in Nat /\ b1 \in Nat /\ b2 \in Nat /\ q3 \in Nat
  BY <1>2, <1>3, <1>4, RamSizes DEF Byte
<1>6. /\ q2 * P = q3 * P2 + b2 * P /\ q2 * P2 = q3 * P3 + b2 * P2
      /\ q1 * P = q2 * P2 + b1 * P
  <2>1. (q3 * P + b2) * P = q3 * (P * P) + b2 * P
    BY <1>1, <1>5, SMT
  <2>2. (q3 * P + b2) * P2 = q3 * (P * P2) + b2 * P2
    BY <1>1, <1>5, RamSizes, SMT
  <2>3. (q2 * P + b1) * P = q2 * (P * P) + b1 * P
    BY <1>1, <1>3, <1>5, SMT
  <2> QED
    BY <1>3, <1>4, <2>1, <2>2, <2>3 DEF P2, P3
<1>7. w = b0 + b1 * P + b2 * P2 + q3 * P3
  <2>1. b1 * P \in Nat /\ b2 * P2 \in Nat /\ q3 * P3 \in Nat
    BY <1>5, RamSizes
  <2> QED
    BY <1>2, <1>5, <1>6, <2>1
<1>8. q3 \in Byte
  <2>1. CASE q3 >= P
    <3>1. P * P3 <= q3 * P3
      BY <1>1, <1>5, <2>1, RamSizes, ProductGrows
    <3>2. b1 * P \in Nat /\ b2 * P2 \in Nat /\ q3 * P3 \in Nat /\ P4 \in Nat
      BY <1>5, RamSizes
    <3>3. P4 <= q3 * P3
      BY <3>1 DEF P4
    <3> QED
      BY <1>1, <1>5, <1>7, <3>2, <3>3
  <2> QED
    BY <1>1, <1>5, <2>1 DEF Byte
<1> DEFINE b == [k \in 0 .. 3 |-> IF k = 0 THEN b0 ELSE IF k = 1 THEN b1 ELSE IF k = 2 THEN b2 ELSE q3]
<1>9. b \in Lanes /\ b[0] = b0 /\ b[1] = b1 /\ b[2] = b2 /\ b[3] = q3
  BY <1>2, <1>3, <1>4, <1>8 DEF Lanes
<1> HIDE DEF b
<1>10. word_of(b) = w
  BY <1>7, <1>9, RamPowers DEF word_of, P
<1> QED
  BY <1>9, <1>10

-----------------------------------------------------------------------------
(* A store: the bytes that are written are those of the data, in their lanes. *)

Aligned(op, addr) == ~misaligned(op, addr)

\* An aligned access stays in its word.
LEMMA Lane ==
  ASSUME NEW op \in Loads \cup Stores, NEW addr \in Address, Aligned(op, addr)
  PROVE  /\ addr \div 4 \in 0 .. Words - 1 /\ addr % 4 \in 0 .. 3
         /\ addr = 4 * (addr \div 4) + (addr % 4)
         /\ (addr % 4) + Size(op) <= 4
         /\ op \in ByteOps => Size(op) = 1
         /\ op \in HalfOps => Size(op) = 2 /\ addr % 4 \in {0, 2}
         /\ op \notin ByteOps \cup HalfOps => Size(op) = 4 /\ addr % 4 = 0
<1>1. Words \in Nat \ {0}
  BY LoadStoreAssumption
<1>2. /\ addr \div 4 \in 0 .. Words - 1 /\ addr % 4 \in 0 .. 3
      /\ addr = 4 * (addr \div 4) + (addr % 4)
  <2> DEFINE q == addr \div 4
             r == addr % 4
  <2>1. addr \in Int /\ 4 \in Nat \ {0} /\ addr \in Nat /\ addr <= 4 * Words - 1
    BY <1>1 DEF Address
  <2>2. q \in Nat /\ r \in 0 .. 4 - 1 /\ addr = q * 4 + r
    BY <2>1, Division
  <2> HIDE DEF q, r
  <2>3. q \in 0 .. Words - 1 /\ r \in 0 .. 3 /\ addr = 4 * q + r
    BY <1>1, <2>1, <2>2
  <2> QED
    BY <2>3 DEF q, r
<1>3. CASE op \in ByteOps
  BY <1>2, <1>3 DEF Size, ByteOps, HalfOps
<1>4. CASE op \in HalfOps
  <2>1. addr % 2 = 0
    BY <1>4 DEF Aligned, misaligned, ByteOps, HalfOps
  <2>2. addr % 4 \in {0, 2}
    BY <1>2, <2>1 DEF Address
  <2> QED
    BY <1>2, <1>4, <2>2 DEF Size, ByteOps, HalfOps
<1>5. CASE op \notin ByteOps \cup HalfOps
  <2>1. addr % 4 = 0
    BY <1>5 DEF Aligned, misaligned
  <2> QED
    BY <1>2, <1>5, <2>1 DEF Size, ByteOps, HalfOps
<1> QED
  BY <1>3, <1>4, <1>5

\* The word that a store of data from lane o on presents to the memory.
InLanes(d, o, n) == [k \in 0 .. 3 |-> IF k - o \in 0 .. n - 1 THEN d[k - o] ELSE 0]

LEMMA StoreLanes ==
  ASSUME NEW op \in Stores, NEW addr \in Address, Aligned(op, addr), NEW data \in RamWord,
         NEW k \in 0 .. 3
  PROVE  /\ k \in wstrb(op, addr) <=> k - (addr % 4) \in 0 .. Size(op) - 1
         /\ k \in wstrb(op, addr) => lane(store_data(op, addr, data), k) = lane(data, k - (addr % 4))
<1> DEFINE o == addr % 4
           n == Size(op)
<1>1. PICK d \in Lanes : data = word_of(d)
  BY Disassembled
<1>2. /\ o \in 0 .. 3 /\ o + n <= 4 /\ n \in {1, 2, 4} /\ o = addr % 4
      /\ op \in ByteOps => n = 1
      /\ op \in HalfOps => n = 2 /\ o \in {0, 2}
      /\ op \notin ByteOps \cup HalfOps => n = 4 /\ o = 0
  BY Lane
<1> HIDE DEF n
<1>3. k \in wstrb(op, addr) <=> k - o \in 0 .. n - 1
  <2>1. CASE op = "SB"
    <3>1. wstrb(op, addr) = {o} /\ n = 1
      BY <1>2, <2>1 DEF wstrb, ByteOps
    <3> QED
      BY <1>2, <3>1
  <2>2. CASE op = "SH"
    <3>1. wstrb(op, addr) = (IF o >= 2 THEN {2, 3} ELSE {0, 1}) /\ n = 2 /\ o \in {0, 2}
      BY <1>2, <2>2 DEF wstrb, HalfOps
    <3>2. o = 0 \/ o = 2
      BY <3>1
    <3> HIDE DEF o
    <3> QED
      BY <3>1, <3>2
  <2>3. CASE op \in {"SW", "SSPUSH"}
    <3>1. wstrb(op, addr) = 0 .. 3 /\ n = 4 /\ o = 0
      BY <1>2, <2>3 DEF wstrb, ByteOps, HalfOps
    <3> QED
      BY <3>1
  <2> QED
    BY <2>1, <2>2, <2>3 DEF Stores
<1>4. /\ d[0] \in Byte /\ d[1] \in Byte /\ d[2] \in Byte /\ d[3] \in Byte /\ 0 \in Byte
      /\ d[0] \in Nat /\ d[1] \in Nat
  BY RamSizes DEF Lanes, Byte
<1> DEFINE s == InLanes(d, o, n)
<1>5. s \in Lanes
  <2>1. \A j \in 0 .. 3 : d[j] \in Byte
    BY DEF Lanes
  <2>2. ASSUME NEW j \in 0 .. 3
        PROVE  (IF j - o \in 0 .. n - 1 THEN d[j - o] ELSE 0) \in Byte
    <3>1. CASE j - o \in 0 .. n - 1
      <4>1. j - o \in 0 .. 3
        BY <1>2, <3>1
      <4> QED
        BY <2>1, <3>1, <4>1
    <3>2. CASE j - o \notin 0 .. n - 1
      BY <1>4, <3>2
    <3> QED
      BY <3>1, <3>2
  <2> QED
    BY <2>2 DEF InLanes, Lanes
<1>6. store_data(op, addr, data) = word_of(s)
  <2>1. CASE op = "SB"
    <3>1. store_data(op, addr, data) = low_bits(data, 1) * 2 ^ (BITS * o) /\ n = 1
      BY <1>2, <2>1 DEF store_data, ByteOps
    <3>2. low_bits(data, 1) = d[0]
      <4>1. BITS * 1 = BITS /\ BITS * 0 = 0 /\ BITS \in Nat
        BY LoadStoreAssumption
      <4>2. lane(data, 0) = (data \div 1) % P
        BY RamPowers DEF lane, P
      <4>3. data \div 1 = data
        BY RamSizes DEF RamWord
      <4> QED
        BY <1>1, <4>1, <4>2, <4>3, Assembled DEF low_bits, P
    <3>3. 2 ^ (BITS * 0) = 1 /\ 2 ^ (BITS * 1) = P /\ 2 ^ (BITS * 2) = P2 /\ 2 ^ (BITS * 3) = P3
      BY RamPowers
    <3>4. word_of(s) = s[0] + s[1] * P + s[2] * P2 + s[3] * P3
      BY RamPowers DEF word_of, P
    <3>5. \A j \in 0 .. 3 : s[j] = IF j = o THEN d[0] ELSE 0
      BY <1>2, <3>1 DEF InLanes
    <3>6. 0 * P = 0 /\ 0 * P2 = 0 /\ 0 * P3 = 0 /\ d[0] * P \in Nat /\ d[0] * P2 \in Nat /\ d[0] * P3 \in Nat
      BY <1>4, RamSizes
    <3>7. o = 0 \/ o = 1 \/ o = 2 \/ o = 3
      BY <1>2
    <3> HIDE DEF s, o
    <3>8. word_of(s) = d[0] * 2 ^ (BITS * o)
      <4>1. CASE o = 0
        <5>1. s[0] = d[0] /\ s[1] = 0 /\ s[2] = 0 /\ s[3] = 0
          BY <3>5, <4>1
        <5> QED
          BY <1>4, <3>3, <3>4, <3>6, <4>1, <5>1
      <4>2. CASE o = 1
        <5>1. s[0] = 0 /\ s[1] = d[0] /\ s[2] = 0 /\ s[3] = 0
          BY <3>5, <4>2
        <5> QED
          BY <1>4, <3>3, <3>4, <3>6, <4>2, <5>1
      <4>3. CASE o = 2
        <5>1. s[0] = 0 /\ s[1] = 0 /\ s[2] = d[0] /\ s[3] = 0
          BY <3>5, <4>3
        <5> QED
          BY <1>4, <3>3, <3>4, <3>6, <4>3, <5>1
      <4>4. CASE o = 3
        <5>1. s[0] = 0 /\ s[1] = 0 /\ s[2] = 0 /\ s[3] = d[0]
          BY <3>5, <4>4
        <5> QED
          BY <1>4, <3>3, <3>4, <3>6, <4>4, <5>1
      <4> QED
        BY <3>7, <4>1, <4>2, <4>3, <4>4
    <3> QED
      BY <3>1, <3>2, <3>8
  <2>2. CASE op = "SH"
    <3>1. /\ store_data(op, addr, data) = low_bits(data, 2) * 2 ^ (BITS * 2 * (o \div 2))
          /\ n = 2 /\ o \in {0, 2}
      BY <1>2, <2>2 DEF store_data, HalfOps
    <3>2. low_bits(data, 2) = d[0] + d[1] * P
      BY <1>1, Assembled, RamPowers DEF low_bits
    <3>3. word_of(s) = s[0] + s[1] * P + s[2] * P2 + s[3] * P3
      BY RamPowers DEF word_of, P
    <3>4. \A j \in 0 .. 3 : s[j] = IF j - o \in 0 .. 1 THEN d[j - o] ELSE 0
      BY <3>1 DEF InLanes
    <3>5. /\ 0 * P = 0 /\ 0 * P2 = 0 /\ 0 * P3 = 0 /\ d[1] * P \in Nat
          /\ d[0] * P2 \in Nat /\ d[1] * P3 \in Nat
      BY <1>4, RamSizes
    <3>6. BITS * 2 * 0 = 0 /\ BITS * 2 * 1 = BITS * 2
      BY LoadStoreAssumption
    <3>7. o = 0 \/ o = 2
      BY <3>1
    <3> HIDE DEF s, o
    <3>8. CASE o = 0
      <4>1. s[0] = d[0] /\ s[1] = d[1] /\ s[2] = 0 /\ s[3] = 0
        BY <3>4, <3>8
      <4>2. o \div 2 = 0
        BY <3>8
      <4>3. 2 ^ (BITS * 2 * (o \div 2)) = 1
        BY <3>6, <4>2, PowersOfTwo
      <4> QED
        BY <1>4, <3>1, <3>2, <3>3, <3>5, <4>1, <4>3
    <3>9. CASE o = 2
      <4>1. s[0] = 0 /\ s[1] = 0 /\ s[2] = d[0] /\ s[3] = d[1]
        BY <3>4, <3>9
      <4>2. o \div 2 = 1
        BY <3>9
      <4>3. 2 ^ (BITS * 2 * (o \div 2)) = P2
        BY <3>6, <4>2, RamPowers
      <4>4. (d[0] + d[1] * P) * P2 = d[0] * P2 + d[1] * P3
        <5>1. (d[0] + d[1] * P) * P2 = d[0] * P2 + d[1] * (P * P2)
          BY <1>4, RamSizes, SMT
        <5> QED
          BY <5>1 DEF P3
      <4> QED
        BY <1>4, <3>1, <3>2, <3>3, <3>5, <4>1, <4>3, <4>4
    <3> QED
      BY <3>7, <3>8, <3>9
  <2>3. CASE op \in {"SW", "SSPUSH"}
    <3>1. store_data(op, addr, data) = data /\ n = 4 /\ o = 0
      BY <1>2, <2>3 DEF store_data, ByteOps, HalfOps
    <3>2. s[0] = d[0] /\ s[1] = d[1] /\ s[2] = d[2] /\ s[3] = d[3]
      BY <3>1 DEF InLanes
    <3> QED
      BY <1>1, <3>1, <3>2 DEF word_of
  <2> QED
    BY <2>1, <2>2, <2>3 DEF Stores
<1>7. ASSUME k \in wstrb(op, addr)
      PROVE  lane(store_data(op, addr, data), k) = lane(data, k - o)
  <2>1. k - o \in 0 .. n - 1 /\ k - o \in 0 .. 3
    BY <1>2, <1>3, <1>7
  <2>2. s[k] = d[k - o]
    BY <2>1 DEF InLanes
  <2>3. lane(word_of(s), k) = s[k] /\ lane(word_of(d), k - o) = d[k - o]
    BY <1>5, <2>1, Assembled
  <2> QED
    BY <1>1, <1>6, <2>2, <2>3
<1>8. n = Size(op)
  BY DEF n
<1> HIDE DEF n, s, o
<1> QED
  BY <1>3, <1>7, <1>8 DEF o

-----------------------------------------------------------------------------
(* A load: the word holds the bytes of the load, and extending their sign is *)
(* adding what lies above them.                                               *)

\* n bytes from lane o on, as a word.
Bytes(b, o, n) == [k \in 0 .. 3 |-> IF k < n THEN b[o + k] ELSE 0]

\* What the reference makes of a value of n bytes.
Extended(op, value, n) ==
  IF lane(value, n - 1) >= 2 ^ (BITS - 1) /\ op \in {"LB", "LH"}
  THEN 2 ^ (4 * BITS) + value - 2 ^ (BITS * n) ELSE value

LEMMA LoadExtends ==
  ASSUME NEW b \in Lanes, NEW op \in Loads, NEW addr \in Address, Aligned(op, addr)
  PROVE  load_data(op, addr, word_of(b))
           = Extended(op, word_of(Bytes(b, addr % 4, Size(op))), Size(op))
<1> DEFINE w == word_of(b)
           o == addr % 4
           n == Size(op)
           c == Bytes(b, o, n)
           value == word_of(c)
           H == 2 ^ (BITS - 1)
<1>1. /\ o \in 0 .. 3 /\ o + n <= 4 /\ o = addr % 4 /\ n = Size(op)
      /\ op \in ByteOps => n = 1
      /\ op \in HalfOps => n = 2 /\ o \in {0, 2}
      /\ op \notin ByteOps \cup HalfOps => n = 4 /\ o = 0
  BY Lane
<1>2. /\ \A j \in 0 .. 3 : b[j] \in Byte
      /\ 0 \in Byte
      /\ \A x \in Byte : x \in Nat /\ x <= P - 1
  BY RamSizes DEF Lanes, Byte
<1> HIDE DEF n
<1>3. c \in Lanes
  <2>1. ASSUME NEW j \in 0 .. 3 PROVE (IF j < n THEN b[o + j] ELSE 0) \in Byte
    <3>1. CASE j < n
      <4>1. n \in Int
        BY DEF n, Size
      <4>2. o + j \in 0 .. 3
        BY <1>1, <3>1, <4>1
      <4> QED
        BY <1>2, <3>1, <4>2
    <3>2. CASE ~(j < n)
      BY <1>2, <3>2
    <3> QED
      BY <3>1, <3>2
  <2> QED
    BY <2>1 DEF Bytes, Lanes
<1>4. value = c[0] + c[1] * P + c[2] * P2 + c[3] * P3 /\ \A j \in 0 .. 3 : lane(value, j) = c[j]
  BY <1>3, RamPowers, Assembled DEF word_of, P
<1>5. \A j \in 0 .. 3 : c[j] = IF j < n THEN b[o + j] ELSE 0
  BY DEF Bytes
<1>6. 0 * P = 0 /\ 0 * P2 = 0 /\ 0 * P3 = 0 /\ \A x \in Nat : x * P \in Nat
  BY RamSizes
<1>7. P = 2 * H /\ H \in Nat /\ P \in Nat /\ P2 \in Nat /\ P4 \in Nat
  BY RamPowers, RamSizes
<1>8. /\ 2 ^ (4 * BITS) = P4 /\ 2 ^ (BITS * 4) = P4 /\ 2 ^ (BITS * 1) = P /\ 2 ^ (BITS * 2) = P2
      /\ 2 ^ BITS = P
  BY RamPowers DEF P
<1> HIDE DEF w, o, c, value, H
<1>9. CASE op \in {"LB", "LBU"}
  <2>1. n = 1
    BY <1>1, <1>9 DEF ByteOps
  <2>2. c[0] = b[o] /\ c[1] = 0 /\ c[2] = 0 /\ c[3] = 0
    <3>1. o + 0 = o /\ 0 \in 0 .. 3 /\ 1 \in 0 .. 3 /\ 2 \in 0 .. 3 /\ 3 \in 0 .. 3
      BY <1>1
    <3>2. c[0] = b[o + 0] /\ c[1] = 0 /\ c[2] = 0 /\ c[3] = 0
      BY <1>5, <2>1, <3>1
    <3> QED
      BY <3>1, <3>2
  <2>3. b[o] \in Nat /\ b[o] <= P - 1
    BY <1>1, <1>2
  <2>4. value = b[o] /\ lane(value, n - 1) = b[o]
    <3>1. lane(value, 0) = b[o] /\ n - 1 = 0
      BY <1>4, <2>1, <2>2
    <3>2. value = b[o]
      BY <1>4, <1>6, <2>2, <2>3
    <3> QED
      BY <3>1, <3>2
  <2>5. low_bits(w \div 2 ^ (BITS * o), 1) = b[o]
    <3>1. lane(w, o) = b[o]
      BY <1>1, Assembled DEF w
    <3>2. BITS * 1 = BITS
      BY LoadStoreAssumption
    <3> QED
      BY <3>1, <3>2 DEF lane, low_bits
  <2>6. load_data(op, addr, w) = IF op = "LB" THEN extend_sign(b[o], 1) ELSE b[o]
    <3>1. o = addr % 4
      BY <1>1
    <3> QED
      BY <1>9, <2>5, <3>1 DEF load_data
  <2>7. extend_sign(b[o], 1) = IF 2 * b[o] >= P THEN b[o] + P4 - P ELSE b[o]
    BY <1>8 DEF extend_sign
  <2>8. Extended(op, value, n) = IF b[o] >= H /\ op = "LB" THEN P4 + b[o] - P ELSE b[o]
    BY <1>8, <1>9, <2>1, <2>4 DEF Extended, H
  <2>9. (2 * b[o] >= P <=> b[o] >= H) /\ b[o] + P4 - P = P4 + b[o] - P
    BY <1>7, <2>3
  <2>10. load_data(op, addr, w) = Extended(op, value, n)
    BY <1>9, <2>6, <2>7, <2>8, <2>9
  <2> QED
    BY <2>10 DEF w, value, c, o, n
<1>10. CASE op \in {"LH", "LHU"}
  <2>1. n = 2 /\ o \in {0, 2}
    BY <1>1, <1>10 DEF HalfOps
  <2> DEFINE x == b[o]
             y == b[o + 1]
             raw == x + y * P
  <2>2. c[0] = x /\ c[1] = y /\ c[2] = 0 /\ c[3] = 0
    <3>1. o + 0 = o /\ 0 \in 0 .. 3 /\ 1 \in 0 .. 3 /\ 2 \in 0 .. 3 /\ 3 \in 0 .. 3
      BY <1>1
    <3>2. c[0] = b[o + 0] /\ c[1] = b[o + 1] /\ c[2] = 0 /\ c[3] = 0
      BY <1>5, <2>1, <3>1
    <3> QED
      BY <3>1, <3>2
  <2>3. x \in Nat /\ x <= P - 1 /\ y \in Nat /\ y <= P - 1
    <3>1. o \in 0 .. 3 /\ o + 1 \in 0 .. 3
      BY <2>1
    <3> QED
      BY <1>2, <3>1
  <2> HIDE DEF x, y
  <2>4. value = raw /\ lane(value, n - 1) = y
    <3>1. lane(value, 1) = y /\ n - 1 = 1
      BY <1>4, <2>1, <2>2
    <3>2. y * P \in Nat
      BY <1>6, <2>3
    <3>3. value = raw
      BY <1>4, <1>6, <2>2, <2>3, <3>2
    <3> QED
      BY <3>1, <3>3
  <2>5. low_bits(w \div 2 ^ (BITS * 2 * (o \div 2)), 2) = raw
    <3>1. BITS * 2 * 0 = 0 /\ BITS * 2 * 1 = BITS * 2
      BY LoadStoreAssumption
    <3>2. w % P2 = b[0] + b[1] * P /\ (w \div P2) % P2 = b[2] + b[3] * P /\ w \in Int
      BY Assembled, RamSizes DEF w, RamWord
    <3>3. CASE o = 0
      <4>1. o \div 2 = 0 /\ w \div 1 = w /\ o + 1 = 1
        BY <3>2, <3>3
      <4>2. 2 ^ (BITS * 2 * (o \div 2)) = 1
        BY <3>1, <4>1, PowersOfTwo
      <4>3. raw = b[0] + b[1] * P
        BY <3>3, <4>1 DEF x, y
      <4> QED
        BY <1>8, <3>2, <4>1, <4>2, <4>3 DEF low_bits
    <3>4. CASE o = 2
      <4>1. o \div 2 = 1 /\ o + 1 = 3
        BY <3>4
      <4>2. 2 ^ (BITS * 2 * (o \div 2)) = P2
        BY <1>8, <3>1, <4>1
      <4>3. raw = b[2] + b[3] * P
        BY <3>4, <4>1 DEF x, y
      <4> QED
        BY <1>8, <3>2, <4>2, <4>3 DEF low_bits
    <3> QED
      BY <2>1, <3>3, <3>4
  <2>6. load_data(op, addr, w) = IF op = "LH" THEN extend_sign(raw, 2) ELSE raw
    <3>1. o = addr % 4
      BY <1>1
    <3> HIDE DEF raw
    <3> QED
      BY <1>10, <2>5, <3>1 DEF load_data
  <2>7. raw \in Nat
    BY <1>6, <2>3
  <2>8. 2 * raw >= P2 <=> y >= H
    <3>1. P2 = 2 * (H * P) /\ H * P \in Nat
      <4>1. (2 * H) * P = 2 * (H * P) /\ H * P \in Nat
        BY <1>7, SMT
      <4> QED
        BY <1>7, <4>1 DEF P2
    <3>2. y * P \in Nat
      BY <1>6, <2>3
    <3>3. CASE y >= H
      <4>1. H * P <= y * P
        BY <1>7, <2>3, <3>3, ProductGrows
      <4> QED
        BY <2>3, <3>1, <3>2, <3>3, <4>1
    <3>4. CASE ~(y >= H)
      <4>1. y + 1 \in Nat /\ y + 1 <= H
        BY <1>7, <2>3, <3>4
      <4>2. (y + 1) * P <= H * P
        BY <1>7, <4>1, ProductGrows
      <4>3. (y + 1) * P = y * P + P
        BY <1>7, <2>3, SMT
      <4> QED
        BY <1>7, <2>3, <3>1, <3>2, <3>4, <4>2, <4>3
    <3> QED
      BY <3>3, <3>4
  <2> HIDE DEF raw
  <2>9. extend_sign(raw, 2) = IF 2 * raw >= P2 THEN raw + P4 - P2 ELSE raw
    BY <1>8 DEF extend_sign
  <2>10. Extended(op, value, n) = IF y >= H /\ op = "LH" THEN P4 + raw - P2 ELSE raw
    BY <1>8, <1>10, <2>1, <2>4 DEF Extended, H
  <2>11. raw + P4 - P2 = P4 + raw - P2
    BY <1>7, <2>7
  <2>12. load_data(op, addr, w) = Extended(op, value, n)
    BY <1>10, <2>6, <2>8, <2>9, <2>10, <2>11
  <2> QED
    BY <2>12 DEF w, value, c, o, n
<1>11. CASE op \in {"LW", "SSPOPCHK"}
  <2>1. n = 4 /\ o = 0
    BY <1>1, <1>11 DEF ByteOps, HalfOps
  <2>2. c[0] = b[0] /\ c[1] = b[1] /\ c[2] = b[2] /\ c[3] = b[3]
    BY <1>5, <2>1
  <2>3. value = w
    BY <2>2 DEF word_of, value, w
  <2>4. load_data(op, addr, w) = w
    BY <1>11 DEF load_data
  <2>5. Extended(op, value, n) = value
    BY <1>11 DEF Extended
  <2>6. load_data(op, addr, w) = Extended(op, value, n)
    BY <2>3, <2>4, <2>5
  <2> QED
    BY <2>6 DEF w, value, c, o, n
<1> QED
  BY <1>9, <1>10, <1>11 DEF Loads

-----------------------------------------------------------------------------
(* The invariant: every word of the memory is the four bytes of the reference, *)
(* the access in MEM is aligned, and what is in WB answers it.                 *)

Row(a) == [k \in 0 .. 3 |-> bytes[4 * a + k]]

NextRow(a) == [k \in 0 .. 3 |-> bytes'[4 * a + k]]

MemInv ==
  /\ bytes \in [Address -> Byte]
  /\ ram_data = [a \in 0 .. Words - 1 |-> word_of(Row(a))]
  /\ \/ mem = NoAccess
     \/ /\ mem.op \in Loads \cup Stores /\ mem.addr \in Address /\ mem.data \in RamWord
        /\ Aligned(mem.op, mem.addr)
  /\ LoadsReturnBytes

LEMMA RowsAreLanes ==
  ASSUME bytes \in [Address -> Byte]
  PROVE  \A a \in 0 .. Words - 1 : Row(a) \in Lanes /\ \A k \in 0 .. 3 : 4 * a + k \in Address
<1>1. \A a \in 0 .. Words - 1 : \A k \in 0 .. 3 : 4 * a + k \in Address
  BY LoadStoreAssumption DEF Address
<1> QED
  BY <1>1 DEF Row, Lanes

\* Both halves of the property follow from the invariant.
LEMMA MemInvSuffices == MemInv => AccessesAreOfBytes
<1> SUFFICES ASSUME MemInv PROVE MemoryIsBytes
  BY DEF MemInv, AccessesAreOfBytes
<1> SUFFICES ASSUME NEW a \in Address PROVE lane(ram_data[a \div 4], a % 4) = bytes[a]
  BY DEF MemoryIsBytes
<1> DEFINE q == a \div 4
           k == a % 4
<1>1. q \in 0 .. Words - 1 /\ k \in 0 .. 3 /\ a = 4 * q + k
  <2> DEFINE op == "LB"
  <2>1. op \in Loads \cup Stores /\ op \in ByteOps /\ op \notin HalfOps
    BY DEF Loads, ByteOps, HalfOps
  <2> HIDE DEF op
  <2>2. Aligned(op, a)
    BY <2>1 DEF Aligned, misaligned
  <2> QED
    BY <2>1, <2>2, Lane DEF q, k
<1> HIDE DEF q, k
<1>2. ram_data[q] = word_of(Row(q)) /\ Row(q) \in Lanes
  BY <1>1, RowsAreLanes DEF MemInv
<1>3. lane(ram_data[q], k) = Row(q)[k]
  BY <1>1, <1>2, Assembled
<1>4. Row(q)[k] = bytes[a]
  BY <1>1 DEF Row
<1> QED
  BY <1>3, <1>4 DEF q, k

LEMMA MemInvHoldsAtReset == MemoryInit => MemInv
<1> SUFFICES ASSUME MemoryInit PROVE MemInv
  OBVIOUS
<1>1. 0 \in Byte /\ 0 * P = 0 /\ 0 * P2 = 0 /\ 0 * P3 = 0
  BY RamSizes DEF Byte
<1>2. bytes = [a \in Address |-> 0] /\ bytes \in [Address -> Byte]
  BY <1>1 DEF MemoryInit
<1>3. ASSUME NEW a \in 0 .. Words - 1 PROVE word_of(Row(a)) = 0
  <2> DEFINE b == Row(a)
  <2>1. \A k \in 0 .. 3 : 4 * a + k \in Address
    BY <1>2, RowsAreLanes
  <2>2. b[0] = 0 /\ b[1] = 0 /\ b[2] = 0 /\ b[3] = 0
    BY <1>2, <2>1 DEF Row
  <2> HIDE DEF b
  <2>3. word_of(b) = b[0] + b[1] * P + b[2] * P2 + b[3] * P3
    BY RamPowers DEF word_of, P
  <2> QED
    BY <1>1, <2>2, <2>3 DEF b
<1>4. ram_data = [a \in 0 .. Words - 1 |-> word_of(Row(a))]
  BY <1>3 DEF MemoryInit
<1>5. mem = NoAccess
  BY DEF MemoryInit
<1>6. LoadsReturnBytes
  BY DEF MemoryInit, LoadsReturnBytes, NoAccess, Loads
<1> QED
  BY <1>2, <1>4, <1>5, <1>6 DEF MemInv

\* A clock edge, whatever is in MEM.
LEMMA EdgeKeepsBytes ==
  ASSUME MemInv, Edge
  PROVE  /\ bytes' \in [Address -> Byte]
         /\ ram_data' = [a \in 0 .. Words - 1 |-> word_of(NextRow(a))]
         /\ LoadsReturnBytes'
<1> USE DEF Edge
<1>1. CASE mem = NoAccess
  <2>1. mem.op = "none" /\ mem.addr = 0 /\ mem.op \notin Loads /\ mem.op \notin Stores
    BY <1>1 DEF NoAccess, Loads, Stores
  <2>2. bytes' = bytes
    <3>1. bytes' = [a \in Address |-> bytes[a]]
      BY <2>1 DEF Reference, BytesAfter
    <3> QED
      BY <3>1 DEF MemInv
  <2>3. wstrb(mem.op, mem.addr) = {}
    BY <2>1 DEF wstrb
  <2>4. mem.addr \div 4 = 0 /\ 0 \in 0 .. Words - 1
    BY <2>1, LoadStoreAssumption
  <2>5. ram_data[0] = word_of(Row(0)) /\ Row(0) \in Lanes
    BY <2>4, RowsAreLanes DEF MemInv
  <2>6. [k \in 0 .. 3 |-> lane(ram_data[0], k)] = Row(0)
    BY <2>5, Assembled DEF Row
  <2>7. ram_data' = [ram_data EXCEPT ![0] = word_of([k \in 0 .. 3 |-> lane(ram_data[0], k)])]
    BY <2>3, <2>4 DEF Memory
  <2>8. ram_data' = ram_data
    BY <2>4, <2>5, <2>6, <2>7 DEF MemInv
  <2>9. \A a : NextRow(a) = Row(a)
    BY <2>2 DEF Row, NextRow, NextRow
  <2>10. ram_data' = [a \in 0 .. Words - 1 |-> word_of(NextRow(a))]
    BY <2>8, <2>9 DEF MemInv
  <2>11. LoadsReturnBytes'
    BY <2>1 DEF LoadsReturnBytes
  <2> QED
    BY <2>2, <2>10, <2>11 DEF MemInv
<1>2. CASE mem # NoAccess
  <2> DEFINE op == mem.op
             addr == mem.addr
             data == mem.data
             n == Size(op)
             q == addr \div 4
             o == addr % 4
  <2>1. op \in Loads \cup Stores /\ addr \in Address /\ data \in RamWord /\ Aligned(op, addr)
    BY <1>2 DEF MemInv
  <2>2. /\ q \in 0 .. Words - 1 /\ o \in 0 .. 3 /\ addr = 4 * q + o /\ o + n <= 4
        /\ n \in {1, 2, 4} /\ q = addr \div 4 /\ o = addr % 4 /\ n = Size(op)
    <3>1. n \in {1, 2, 4}
      BY DEF Size
    <3> QED
      BY <2>1, <3>1, Lane
  <2>3. /\ \A a \in 0 .. Words - 1 : Row(a) \in Lanes /\ ram_data[a] = word_of(Row(a))
        /\ \A a \in 0 .. Words - 1 : \A k \in 0 .. 3 : 4 * a + k \in Address
    BY RowsAreLanes DEF MemInv
  <2> DEFINE lanes == wstrb(op, addr)
             w == store_data(op, addr, data)
             new == [k \in 0 .. 3 |-> IF k \in lanes THEN lane(w, k) ELSE lane(ram_data[q], k)]
  <2>4. bytes' = [a \in Address |->
                    IF op \in Stores /\ a - addr \in 0 .. n - 1 THEN lane(data, a - addr)
                    ELSE bytes[a]]
    BY DEF Reference, BytesAfter
  <2>5. ram_data' = [ram_data EXCEPT ![q] = word_of(new)] /\ spo' = ram_data[q]
    BY DEF Memory
  <2>6. wb' = mem /\ expected' = IF op \in Loads THEN Loaded ELSE 0
    BY DEF Reference
  <2> HIDE DEF n, q, o, lanes, w, new, op, addr, data
  <2>7. bytes' \in [Address -> Byte]
    <3>1. PICK d \in Lanes : data = word_of(d)
      BY <2>1, Disassembled
    <3>2. \A j \in 0 .. 3 : lane(data, j) \in Byte
      BY <3>1, Assembled DEF Lanes
    <3>3. ASSUME NEW a \in Address
          PROVE  (IF op \in Stores /\ a - addr \in 0 .. n - 1 THEN lane(data, a - addr)
                  ELSE bytes[a]) \in Byte
      <4>1. CASE op \in Stores /\ a - addr \in 0 .. n - 1
        <5>1. a - addr \in 0 .. 3
          BY <2>2, <4>1
        <5> QED
          BY <3>2, <4>1, <5>1
      <4>2. CASE ~(op \in Stores /\ a - addr \in 0 .. n - 1)
        BY <4>2 DEF MemInv
      <4> QED
        BY <4>1, <4>2
    <3> QED
      BY <2>4, <3>3
  <2>8. ASSUME NEW a \in 0 .. Words - 1, a # q PROVE NextRow(a) = Row(a)
    <3>1. ASSUME NEW k \in 0 .. 3 PROVE bytes'[4 * a + k] = bytes[4 * a + k]
      <4> DEFINE x == 4 * a + k
      <4>1. x \in Address
        BY <2>3
      <4>2. x - addr \notin 0 .. n - 1
        BY <2>2, <2>8
      <4> HIDE DEF x
      <4>3. bytes'[x] = bytes[x]
        BY <2>4, <4>1, <4>2
      <4> QED
        BY <4>3 DEF x
    <3> QED
      BY <3>1 DEF Row, NextRow
  <2>9. NextRow(q) = new
    <3>1. ASSUME NEW k \in 0 .. 3 PROVE bytes'[4 * q + k] = new[k]
      <4> DEFINE x == 4 * q + k
      <4>1. x \in Address /\ x - addr = k - o
        BY <2>2, <2>3
      <4>2. bytes[x] = lane(ram_data[q], k)
        <5>1. lane(ram_data[q], k) = Row(q)[k]
          BY <2>2, <2>3, Assembled
        <5> QED
          BY <5>1 DEF Row
      <4>3. bytes'[x] = IF op \in Stores /\ k - o \in 0 .. n - 1 THEN lane(data, k - o) ELSE bytes[x]
        <5> HIDE DEF x
        <5> QED
          BY <2>4, <4>1
      <4>4. new[k] = IF k \in lanes THEN lane(w, k) ELSE lane(ram_data[q], k)
        BY DEF new
      <4> HIDE DEF x
      <4>5. ASSUME op \in Stores PROVE bytes'[x] = new[k]
        <5>1. /\ k \in lanes <=> k - o \in 0 .. n - 1
              /\ k \in lanes => lane(w, k) = lane(data, k - o)
          BY <2>1, <2>2, <4>5, StoreLanes DEF lanes, w
        <5> QED
          BY <4>2, <4>3, <4>4, <4>5, <5>1
      <4>6. ASSUME op \notin Stores PROVE bytes'[x] = new[k]
        <5>1. lanes = {}
          BY <4>6 DEF lanes, wstrb, Stores
        <5> QED
          BY <4>2, <4>3, <4>4, <4>6, <5>1
      <4>7. bytes'[x] = new[k]
        BY <4>5, <4>6
      <4> QED
        BY <4>7 DEF x
    <3>2. new = [k \in 0 .. 3 |-> new[k]]
      BY DEF new
    <3> HIDE DEF new
    <3> QED
      BY <3>1, <3>2 DEF Row, NextRow
  <2>10. ram_data' = [a \in 0 .. Words - 1 |-> word_of(NextRow(a))]
    <3>1. ram_data = [a \in 0 .. Words - 1 |-> word_of(Row(a))]
      BY DEF MemInv
    <3>2. ram_data' = [a \in 0 .. Words - 1 |-> IF a = q THEN word_of(new) ELSE word_of(Row(a))]
      BY <2>2, <2>5, <3>1
    <3>3. \A a \in 0 .. Words - 1 :
            (IF a = q THEN word_of(new) ELSE word_of(Row(a))) = word_of(NextRow(a))
      BY <2>8, <2>9
    <3> QED
      BY <3>2, <3>3
  <2>11. LoadsReturnBytes'
    <3> SUFFICES ASSUME op \in Loads PROVE load_data(op, addr, spo') = expected'
      BY <2>6 DEF LoadsReturnBytes, op, addr
    <3> DEFINE b == Row(q)
               c == Bytes(b, o, n)
    <3>1. b \in Lanes /\ spo' = word_of(b)
      BY <2>2, <2>3, <2>5
    <3>2. load_data(op, addr, word_of(b)) = Extended(op, word_of(c), n)
      <4> HIDE DEF b
      <4> QED
        BY <2>1, <2>2, <3>1, LoadExtends
    <3>3. ASSUME NEW k \in 0 .. 3
          PROVE  (IF k < n THEN bytes[addr + k] ELSE 0) = c[k]
      <4>1. CASE k < n
        <5>1. o + k \in 0 .. 3 /\ 4 * q + (o + k) = addr + k
          BY <2>2, <4>1
        <5>2. b[o + k] = bytes[addr + k]
          BY <5>1 DEF Row
        <5> HIDE DEF b
        <5> QED
          BY <4>1, <5>2 DEF Bytes
      <4>2. CASE ~(k < n)
        <5> HIDE DEF b
        <5> QED
          BY <4>2 DEF Bytes
      <4> QED
        BY <4>1, <4>2
    <3>4. [k \in 0 .. 3 |-> IF k < n THEN bytes[addr + k] ELSE 0] = c
      <4>1. c = [k \in 0 .. 3 |-> c[k]]
        BY DEF Bytes
      <4> HIDE DEF c
      <4> QED
        BY <3>3, <4>1
    <3>5. Loaded = Extended(op, word_of(c), n)
      <4> HIDE DEF c
      <4> QED
        BY <2>2, <3>4 DEF Loaded, Extended, op, addr
    <3> QED
      BY <2>6, <3>1, <3>2, <3>5
  <2> QED
    BY <2>7, <2>10, <2>11
<1> QED
  BY <1>1, <1>2

LEMMA MemInvIsInductive == MemInv /\ [MemoryNext]_loadStoreVars => MemInv'
<1> SUFFICES ASSUME MemInv, [MemoryNext]_loadStoreVars PROVE MemInv'
  OBVIOUS
<1>1. CASE UNCHANGED loadStoreVars
  <2>1. UNCHANGED <<ram_data, spo, mem, wb, bytes, expected>>
    BY <1>1 DEF loadStoreVars
  <2>2. ram_data = [a \in 0 .. Words - 1 |-> word_of(Row(a))]
        => ram_data' = [a \in 0 .. Words - 1 |-> word_of(NextRow(a))]
    BY <2>1 DEF Row, NextRow
  <2>3. LoadsReturnBytes'
    BY <2>1 DEF MemInv, LoadsReturnBytes
  <2> QED
    BY <2>1, <2>2, <2>3 DEF MemInv, NextRow, Row
<1>2. ASSUME Edge,
             \/ mem' = NoAccess
             \/ /\ mem'.op \in Loads \cup Stores /\ mem'.addr \in Address
                /\ mem'.data \in RamWord /\ Aligned(mem'.op, mem'.addr)
      PROVE  MemInv'
  <2>1. /\ bytes' \in [Address -> Byte]
        /\ ram_data' = [a \in 0 .. Words - 1 |-> word_of(NextRow(a))]
        /\ LoadsReturnBytes'
    BY <1>2, EdgeKeepsBytes
  <2> QED
    BY <1>2, <2>1 DEF MemInv, NextRow, Row
<1>3. /\ Data \subseteq RamWord /\ 0 \in RamWord /\ Accessed \subseteq Address
  <2>1. 2 ^ (4 * BITS) = P4 /\ P4 \in Nat \ {0}
    BY RamPowers, RamSizes
  <2> QED
    BY <2>1, LoadStoreAssumption DEF RamWord, Address
<1>4. ASSUME NEW op \in Loads \cup Stores, NEW addr \in Accessed, NEW data \in RamWord,
             Access(op, addr, data)
      PROVE  MemInv'
  <2>1. mem' = [op |-> op, addr |-> addr, data |-> data] /\ ~misaligned(op, addr) /\ Edge
    BY <1>4 DEF Access
  <2>2. mem'.op = op /\ mem'.addr = addr /\ mem'.data = data
    BY <2>1
  <2>3. /\ mem'.op \in Loads \cup Stores /\ mem'.addr \in Address
        /\ mem'.data \in RamWord /\ Aligned(mem'.op, mem'.addr)
    BY <1>3, <2>1, <2>2 DEF Aligned
  <2> QED
    BY <1>2, <2>1, <2>3
<1>5. CASE Other
  BY <1>2, <1>5 DEF Other
<1>6. CASE \E op \in Loads, addr \in Accessed : Access(op, addr, 0)
  BY <1>3, <1>4, <1>6
<1>7. CASE \E op \in Stores, addr \in Accessed, data \in Data : Access(op, addr, data)
  BY <1>3, <1>4, <1>7
<1> QED
  BY <1>1, <1>5, <1>6, <1>7 DEF MemoryNext

\* The data memory is an array of bytes, for every number of words, every set of
\* addresses that are accessed and every byte of up to eight bits: an aligned store
\* of any size changes its own bytes only, and a load of any size returns the bytes
\* that the stores before it left, extended as its name says, although the word
\* comes out of the memory an edge later (StoreUnit.sv, DRAM.sv, LoadUnit.sv).
THEOREM MemoryBehavesAsBytes == MemorySpec => []AccessesAreOfBytes
<1>1. MemoryInit => MemInv
  BY MemInvHoldsAtReset
<1>2. MemInv /\ [MemoryNext]_loadStoreVars => MemInv'
  BY MemInvIsInductive
<1>3. MemInv => AccessesAreOfBytes
  BY MemInvSuffices
<1> QED
  BY <1>1, <1>2, <1>3, PTL DEF MemorySpec

-----------------------------------------------------------------------------
(* The access checker: the ones at the low end of an address register. *)

Digit(x, j) == (x \div 2 ^ j) % 2

\* The lowest j bits are ones.
Ones(x, j) == x % 2 ^ j = 2 ^ j - 1

\* A remainder by the next power of two has one more bit.
LEMMA OneMoreBit ==
  ASSUME NEW x \in Nat, NEW j \in 0 .. 33
  PROVE  /\ Digit(x, j) \in {0, 1}
         /\ x % 2 ^ (j + 1) = Digit(x, j) * 2 ^ j + (x % 2 ^ j)
<1> DEFINE m == 2 ^ j
           q == x \div m
           r == x % m
           p == q \div 2
           b == q % 2
<1>1. m \in Nat \ {0} /\ 2 ^ (j + 1) = 2 * m
  <2>1. j \in 0 .. 34
    OBVIOUS
  <2>2. PowerStep(j)
    BY <2>1, MorePowers
  <2> QED
    BY <2>2 DEF PowerStep
<1>2. 2 * m \in Nat \ {0} /\ x \in Int
  BY <1>1
<1> HIDE DEF m
<1>3. q \in Int /\ r \in 0 .. m - 1 /\ x = q * m + r
  BY <1>1, <1>2, Division
<1> HIDE DEF q, r
<1>4. p \in Int /\ b \in {0, 1} /\ q = 2 * p + b
  BY <1>3
<1> HIDE DEF p, b
<1>5. q * m = p * (2 * m) + b * m
  BY <1>1, <1>3, <1>4, SMT
<1>6. b * m = (IF b = 0 THEN 0 ELSE m)
  BY <1>1, <1>4
<1>7. b * m + r \in 0 .. 2 * m - 1
  BY <1>1, <1>3, <1>6
<1>8. x = p * (2 * m) + (b * m + r)
  <2>1. p * (2 * m) \in Int
    BY <1>1, <1>4, SMT
  <2> QED
    BY <1>1, <1>3, <1>5, <1>6, <2>1
<1>9. x % (2 * m) = b * m + r
  <2> DEFINE n == 2 * m
             y == b * m + r
  <2>1. n \in Nat \ {0} /\ y \in 0 .. n - 1 /\ x = p * n + y
    BY <1>2, <1>7, <1>8
  <2> HIDE DEF n, y
  <2>2. x % n = y
    BY <1>4, <2>1, DivisionUnique
  <2> QED
    BY <2>2 DEF n, y
<1>10. Digit(x, j) = b
  BY DEF Digit, b, q, m
<1> QED
  BY <1>1, <1>4, <1>9, <1>10 DEF r, m

LEMMA OnesStep ==
  ASSUME NEW x \in Nat, NEW j \in 0 .. 33
  PROVE  /\ Ones(x, j + 1) <=> Ones(x, j) /\ Digit(x, j) = 1
         /\ x % 2 ^ (j + 1) = 2 ^ j - 1 <=> Ones(x, j) /\ Digit(x, j) = 0
<1> DEFINE m == 2 ^ j
           r == x % m
           b == Digit(x, j)
<1>1. m \in Nat \ {0} /\ 2 ^ (j + 1) = 2 * m
  <2>1. j \in 0 .. 34
    OBVIOUS
  <2>2. PowerStep(j)
    BY <2>1, MorePowers
  <2> QED
    BY <2>2 DEF PowerStep
<1>2. b \in {0, 1} /\ x % 2 ^ (j + 1) = b * m + r
  BY OneMoreBit
<1> HIDE DEF m, b
<1>3. r \in 0 .. m - 1
  <2>1. x \in Int
    OBVIOUS
  <2> QED
    BY <1>1, <2>1, Division
<1>4. b * m + r = (IF b = 0 THEN r ELSE m + r)
  BY <1>1, <1>2, <1>3
<1>5. Ones(x, j) <=> r = m - 1
  BY DEF Ones, m
<1>6. Ones(x, j + 1) <=> b * m + r = 2 * m - 1
  BY <1>1, <1>2 DEF Ones
<1> HIDE DEF r
<1>7. Ones(x, j + 1) <=> Ones(x, j) /\ b = 1
  BY <1>1, <1>2, <1>3, <1>4, <1>5, <1>6
<1>8. b * m + r = m - 1 <=> Ones(x, j) /\ b = 0
  BY <1>1, <1>2, <1>3, <1>4, <1>5
<1> QED
  BY <1>2, <1>7, <1>8 DEF b, m

LEMMA OnesAreDigits ==
  ASSUME NEW x \in Nat
  PROVE  \A j \in 0 .. 34 : Ones(x, j) <=> \A i \in 0 .. j - 1 : Digit(x, i) = 1
<1> DEFINE Agrees(j) == Ones(x, j) <=> \A i \in 0 .. j - 1 : Digit(x, i) = 1
           Fails == {j \in 0 .. 34 : ~Agrees(j)}
<1>1. Agrees(0)
  <2>1. 2 ^ 0 = 1 /\ x % 1 = 0
    BY PowersOfTwo
  <2>2. Ones(x, 0)
    BY <2>1 DEF Ones
  <2> QED
    BY <2>2
<1>2. ASSUME NEW j \in 0 .. 33, Agrees(j) PROVE Agrees(j + 1)
  <2>1. Ones(x, j + 1) <=> Ones(x, j) /\ Digit(x, j) = 1
    BY OnesStep
  <2>2. \A i \in 0 .. (j + 1) - 1 : i \in 0 .. j - 1 \/ i = j
    OBVIOUS
  <2>3. \A i \in 0 .. j - 1 : i \in 0 .. (j + 1) - 1
    OBVIOUS
  <2>4. j \in 0 .. (j + 1) - 1
    OBVIOUS
  <2> QED
    BY <1>2, <2>1, <2>2, <2>3, <2>4
<1> HIDE DEF Agrees
<1>3. 0 \notin Fails /\ \A n \in Nat : n + 1 \in Fails => n \in Fails
  BY <1>1, <1>2
<1>4. Fails \in SUBSET Nat
  OBVIOUS
<1> HIDE DEF Fails
<1>5. Fails = {}
  BY <1>3, <1>4, NoFailure
<1>6. \A j \in 0 .. 34 : Agrees(j)
  BY <1>5 DEF Fails
<1> QED
  BY <1>6 DEF Agrees

\* What the widths are worth.
LEMMA SpaceSizes ==
  /\ XLEN \in 4 .. 32 /\ 2 ^ XLEN \in Nat \ {0} /\ 2 ^ (XLEN - 2) \in Nat \ {0}
  /\ 2 ^ XLEN = 4 * 2 ^ (XLEN - 2) /\ 2 ^ (XLEN + 1) = 2 * 2 ^ XLEN
<1>1. XLEN \in 4 .. 32
  BY XlenAssumption
<1>2. XLEN - 2 \in 0 .. 34 /\ XLEN - 1 \in 0 .. 34 /\ XLEN \in 0 .. 34
  BY <1>1
<1>3. /\ 2 ^ (XLEN - 2) \in Nat \ {0} /\ 2 ^ XLEN \in Nat \ {0}
      /\ 2 ^ ((XLEN - 2) + 1) = 2 * 2 ^ (XLEN - 2) /\ 2 ^ ((XLEN - 1) + 1) = 2 * 2 ^ (XLEN - 1)
      /\ 2 ^ (XLEN + 1) = 2 * 2 ^ XLEN
  BY <1>2, MorePowers DEF PowerStep
<1>4. (XLEN - 2) + 1 = XLEN - 1 /\ (XLEN - 1) + 1 = XLEN
  BY <1>1
<1> QED
  BY <1>1, <1>3, <1>4

\* The encoder that counts the ones finds the one power of two that the address
\* register stands for.
LEMMA TrailingOnes ==
  ASSUME NEW x \in Nat, x < 2 ^ (XLEN - 2)
  PROVE  /\ count_trailing_ones(x) \in 0 .. XLEN - 2
         /\ \A k \in 0 .. XLEN :
              x % 2 ^ (k + 1) = 2 ^ k - 1 <=> k = count_trailing_ones(x)
<1> DEFINE Z == {i \in 0 .. XLEN : i = XLEN \/ i \notin Bits(x)}
           c == count_trailing_ones(x)
<1>1. XLEN \in 4 .. 32
  BY SpaceSizes
<1>2. ASSUME NEW i \in 0 .. XLEN - 1
      PROVE  i \in Z <=> Digit(x, i) # 1
  BY <1>1 DEF Bits, Digit
<1>3. XLEN - 2 \in Z
  <2>1. x \div 2 ^ (XLEN - 2) = 0
    <3> DEFINE n == 2 ^ (XLEN - 2)
    <3>1. n \in Nat \ {0} /\ x \in 0 .. n - 1
      BY SpaceSizes
    <3> HIDE DEF n
    <3>2. x \div n = 0
      BY <3>1, SmallRemainder
    <3> QED
      BY <3>2 DEF n
  <2>2. Digit(x, XLEN - 2) = 0
    BY <2>1 DEF Digit
  <2> QED
    BY <1>1, <1>2, <2>2
<1>4. c \in Z /\ \A i \in Z : c <= i
  <2>1. Z \in SUBSET Nat /\ Z # {}
    BY <1>3
  <2>2. c = Min(Z)
    BY DEF count_trailing_ones
  <2> HIDE DEF Z, c
  <2>3. \E n \in Z : \A i \in Z : n <= i
    BY <2>1, Least
  <2> QED
    BY <2>2, <2>3 DEF Min
<1>5. c \in 0 .. XLEN - 2
  BY <1>1, <1>3, <1>4
<1> HIDE DEF Z, c
<1>6. \A i \in 0 .. c - 1 : Digit(x, i) = 1
  <2> SUFFICES ASSUME NEW i \in 0 .. c - 1 PROVE Digit(x, i) = 1
    OBVIOUS
  <2>1. i \in 0 .. XLEN - 1 /\ ~(c <= i)
    BY <1>1, <1>5
  <2> QED
    BY <1>2, <1>4, <2>1
<1>7. Digit(x, c) # 1
  <2>1. c \in 0 .. XLEN - 1
    BY <1>1, <1>5
  <2> QED
    BY <1>2, <1>4, <2>1
<1>8. ASSUME NEW k \in 0 .. XLEN
      PROVE  x % 2 ^ (k + 1) = 2 ^ k - 1 <=> k = c
  <2>1. k \in 0 .. 33 /\ k \in 0 .. 34
    BY <1>1
  <2>2. x % 2 ^ (k + 1) = 2 ^ k - 1 <=> Ones(x, k) /\ Digit(x, k) = 0
    BY <2>1, OnesStep
  <2>3. Ones(x, k) <=> \A i \in 0 .. k - 1 : Digit(x, i) = 1
    BY <2>1, OnesAreDigits
  <2>4. Digit(x, k) \in {0, 1}
    BY <2>1, OneMoreBit
  <2>5. CASE k = c
    BY <1>6, <1>7, <2>2, <2>3, <2>4, <2>5
  <2>6. CASE k < c
    <3>1. k \in 0 .. c - 1
      BY <1>5, <2>6
    <3>2. Digit(x, k) = 1
      BY <1>6, <3>1
    <3> QED
      BY <2>2, <2>6, <3>2, <1>5
  <2>7. CASE k > c
    <3>1. c \in 0 .. k - 1
      BY <1>5, <2>7
    <3>2. ~Ones(x, k)
      BY <1>7, <2>3, <3>1
    <3> QED
      BY <2>2, <2>7, <3>2, <1>5
  <2> QED
    BY <1>5, <2>5, <2>6, <2>7
<1> QED
  BY <1>5, <1>8 DEF c

-----------------------------------------------------------------------------
(* The comparison of the checker is inclusion of the bytes that are touched. *)

LEMMA InsideIsSubset ==
  ASSUME NEW addr \in Nat, NEW size \in Sizes, NEW low \in Int, NEW high \in Int
  PROVE  inside(addr, size, low, high) <=> (addr .. addr + size - 1) \subseteq low .. high - 1
<1>1. size \in Int /\ size >= 1
  BY DEF Sizes
<1>2. addr \in addr .. addr + size - 1 /\ addr + size - 1 \in addr .. addr + size - 1
  BY <1>1
<1> QED
  BY <1>1, <1>2 DEF inside

\* A NAPOT entry.  An access inside the PMA window ends below the top of the address
\* space, which the entries are that the checker takes for all of it.
LEMMA NapotMatches ==
  ASSUME NEW addr \in AddressSpace, NEW size \in Sizes, NEW x \in AddressSpace,
         x < 2 ^ (XLEN - 2), addr + size - 1 < PmaLimit,
         NEW c, c = count_trailing_ones(x)
  PROVE  /\ napot_all(x)
            \/ inside(addr, size, napot_base(x), napot_base(x) + napot_size(x))
         <=> (addr .. addr + size - 1) \subseteq Region(2 ^ (c + 3), x \div 2 ^ (c + 1))
<1> DEFINE e == 2 ^ c
           s == 2 ^ (c + 3)
           q == x \div 2 ^ (c + 1)
           T == addr .. addr + size - 1
<1>1. /\ XLEN \in 4 .. 32 /\ 2 ^ XLEN \in Nat \ {0} /\ 2 ^ (XLEN - 2) \in Nat \ {0}
      /\ 2 ^ XLEN = 4 * 2 ^ (XLEN - 2) /\ x \in Nat /\ addr \in Nat /\ PmaLimit \in Nat
      /\ PmaLimit <= 2 ^ XLEN /\ size \in Nat
  BY SpaceSizes, PmaAssumption DEF AddressSpace, Sizes
<1>2. c \in 0 .. XLEN - 2 /\ x % 2 ^ (c + 1) = 2 ^ c - 1
  <2>1. c \in 0 .. XLEN - 2 /\ c \in 0 .. XLEN
    BY <1>1, TrailingOnes
  <2> QED
    BY <1>1, <2>1, TrailingOnes
<1>3. e \in Nat \ {0} /\ 2 ^ (c + 1) = 2 * e /\ s = 8 * e
  <2>1. c \in 0 .. 34 /\ c + 1 \in 0 .. 34 /\ c + 2 \in 0 .. 34
    BY <1>1, <1>2
  <2>2. /\ 2 ^ c \in Nat \ {0} /\ 2 ^ (c + 1) = 2 * 2 ^ c /\ 2 ^ ((c + 1) + 1) = 2 * 2 ^ (c + 1)
        /\ 2 ^ ((c + 2) + 1) = 2 * 2 ^ (c + 2)
    BY <2>1, MorePowers DEF PowerStep
  <2>3. (c + 1) + 1 = c + 2 /\ (c + 2) + 1 = c + 3
    BY <1>2
  <2> QED
    BY <2>2, <2>3
<1> HIDE DEF e, s
<1>4. q \in Nat /\ x = q * (2 * e) + (e - 1)
  <2> DEFINE n == 2 * e
  <2>1. n \in Nat \ {0} /\ x \in Int /\ x % n = e - 1 /\ q = x \div n
    BY <1>1, <1>2, <1>3 DEF e
  <2> HIDE DEF n, q
  <2>2. q \in Nat /\ x = q * n + (e - 1)
    BY <1>1, <2>1, Division
  <2> QED
    BY <2>2 DEF n
<1> HIDE DEF q
<1>5. q * (2 * e) \in Nat /\ q * s \in Nat /\ q * s = 4 * (q * (2 * e)) /\ (q + 1) * s = q * s + s
  <2>1. q * (8 * e) = 4 * (q * (2 * e)) /\ q * (2 * e) \in Nat
    BY <1>3, <1>4, SMT
  <2>2. (q + 1) * s = q * s + s
    BY <1>3, <1>4, SMT
  <2> QED
    BY <1>3, <2>1, <2>2
<1>6. napot_base(x) = q * s /\ napot_size(x) = s
  <2>1. Wrap(x * 4) = x * 4
    <3> DEFINE n == 2 ^ XLEN
               y == x * 4
    <3>1. n \in Nat \ {0} /\ y \in 0 .. n - 1
      BY <1>1
    <3> HIDE DEF n, y
    <3>2. y % n = y
      BY <3>1, SmallRemainder
    <3> QED
      BY <3>2 DEF Wrap, n, y
  <2>2. x * 4 = q * s + (4 * e - 4)
    BY <1>3, <1>4, <1>5
  <2>3. (q * s + (4 * e - 4)) % s = 4 * e - 4
    <3> DEFINE r == 4 * e - 4
    <3>1. s \in Nat \ {0} /\ r \in 0 .. s - 1 /\ q \in Int
      BY <1>3, <1>4
    <3> HIDE DEF r
    <3>2. (q * s + r) % s = r
      BY <3>1, DivisionUnique
    <3> QED
      BY <3>2 DEF r
  <2>4. napot_size(x) = s
    BY DEF napot_size, s
  <2>5. (x * 4) - ((x * 4) % s) = q * s
    BY <1>3, <1>5, <2>2, <2>3
  <2> QED
    BY <2>1, <2>4, <2>5 DEF napot_base
<1>7. Region(s, q) = q * s .. q * s + s - 1
  <2>1. Region(s, q) = q * s .. (q + 1) * s - 1
    BY DEF Region
  <2> QED
    BY <1>3, <1>5, <2>1
<1>8. inside(addr, size, q * s, q * s + s) <=> T \subseteq q * s .. q * s + s - 1
  <2> DEFINE low == q * s
             high == q * s + s
  <2>1. low \in Int /\ high \in Int
    BY <1>3, <1>5
  <2> HIDE DEF low, high
  <2>2. inside(addr, size, low, high) <=> (addr .. addr + size - 1) \subseteq low .. high - 1
    BY <1>1, <2>1, InsideIsSubset
  <2>3. high - 1 = q * s + s - 1
    BY <1>3, <1>5 DEF high
  <2> QED
    BY <2>2, <2>3 DEF low, high
<1>9. ASSUME napot_all(x) PROVE T \subseteq Region(s, q)
  <2>1. c = XLEN - 3 \/ c = XLEN - 2
    BY <1>1, <1>2, <1>9 DEF napot_all
  <2>2. 2 * e >= 2 ^ (XLEN - 2)
    <3>1. CASE c = XLEN - 3
      <4>1. c + 1 = XLEN - 2
        BY <1>1, <3>1
      <4> QED
        BY <1>1, <1>3, <4>1
    <3>2. CASE c = XLEN - 2
      BY <1>1, <1>3, <3>2 DEF e
    <3> QED
      BY <2>1, <3>1, <3>2
  <2>3. q = 0
    <3>1. CASE q >= 1
      <4>1. 1 * (2 * e) <= q * (2 * e)
        BY <1>3, <1>4, <3>1, ProductGrows
      <4> QED
        BY <1>1, <1>3, <1>4, <1>5, <2>2, <4>1
    <3> QED
      BY <1>4, <3>1
  <2>4. Region(s, q) = 0 .. s - 1
    BY <1>3, <1>7, <2>3
  <2>5. s >= 2 ^ XLEN
    BY <1>1, <1>3, <2>2
  <2>6. \A t \in T : t \in 0 .. s - 1
    BY <1>1, <1>3, <2>5
  <2> QED
    BY <2>4, <2>6
<1> HIDE DEF T
<1>10. napot_all(x) \/ inside(addr, size, napot_base(x), napot_base(x) + napot_size(x))
         <=> T \subseteq Region(s, q)
  BY <1>6, <1>7, <1>8, <1>9
<1> QED
  BY <1>10 DEF T, s, q

\* Every kind of entry.
LEMMA EntryMatches ==
  ASSUME NEW addr \in AddressSpace, NEW size \in Sizes, NEW cfg, NEW x \in AddressSpace,
         x < 2 ^ (XLEN - 2), addr + size - 1 < PmaLimit, pmp_a(cfg) # 0
  PROVE  pmp_match(addr, size, cfg, x) <=> (addr .. addr + size - 1) \subseteq EntryBytes(cfg, x)
<1> DEFINE T == addr .. addr + size - 1
           a == pmp_a(cfg)
<1>1. /\ XLEN \in 4 .. 32 /\ 2 ^ XLEN \in Nat \ {0} /\ 2 ^ (XLEN - 2) \in Nat \ {0}
      /\ 2 ^ XLEN = 4 * 2 ^ (XLEN - 2) /\ 2 ^ (XLEN + 1) = 2 * 2 ^ XLEN
      /\ x \in Nat /\ addr \in Nat /\ size \in Nat
  BY SpaceSizes DEF AddressSpace, Sizes
<1>2. a = 1 \/ a = 2 \/ a = 3
  BY DEF pmp_a
<1>3. CASE a = 1
  <2>1. tor_top(x) = 4 * x
    <3> DEFINE n == 2 ^ (XLEN + 1)
               y == x * 4
    <3>1. n \in Nat \ {0} /\ y \in 0 .. n - 1
      BY <1>1
    <3> HIDE DEF n, y
    <3>2. y % n = y
      BY <3>1, SmallRemainder
    <3>3. tor_top(x) = y
      BY <3>2 DEF tor_top, n, y
    <3> QED
      BY <1>1, <3>3 DEF y
  <2>2. EntryBytes(cfg, x) = 0 .. 4 * x - 1
    BY <1>3 DEF EntryBytes
  <2>3. pmp_match(addr, size, cfg, x) <=> inside(addr, size, 0, 4 * x)
    BY <1>3, <2>1 DEF pmp_match
  <2>4. inside(addr, size, 0, 4 * x) <=> T \subseteq 0 .. 4 * x - 1
    <3>1. 0 \in Int /\ 4 * x \in Int
      BY <1>1
    <3> QED
      BY <1>1, <3>1, InsideIsSubset
  <2> QED
    BY <2>2, <2>3, <2>4
<1>4. CASE a = 2
  <2>1. na4_base(x) = x * 4
    <3> DEFINE n == 2 ^ (XLEN - 2)
    <3>1. n \in Nat \ {0} /\ x \in 0 .. n - 1
      BY <1>1
    <3> HIDE DEF n
    <3>2. x % n = x
      BY <3>1, SmallRemainder
    <3> QED
      BY <3>2 DEF na4_base, n
  <2>2. EntryBytes(cfg, x) = x * 4 .. (x + 1) * 4 - 1
    BY <1>4 DEF EntryBytes, Region
  <2>3. pmp_match(addr, size, cfg, x) <=> inside(addr, size, x * 4, x * 4 + 4)
    BY <1>4, <2>1 DEF pmp_match
  <2>4. inside(addr, size, x * 4, x * 4 + 4) <=> T \subseteq x * 4 .. (x * 4 + 4) - 1
    <3>1. x * 4 \in Int /\ x * 4 + 4 \in Int
      BY <1>1
    <3> QED
      BY <1>1, <3>1, InsideIsSubset
  <2>5. (x + 1) * 4 - 1 = (x * 4 + 4) - 1
    BY <1>1
  <2> QED
    BY <2>2, <2>3, <2>4, <2>5
<1>5. CASE a = 3
  <2> DEFINE c == count_trailing_ones(x)
  <2>1. c \in 0 .. XLEN /\ \A k \in 0 .. XLEN : x % 2 ^ (k + 1) = 2 ^ k - 1 <=> k = c
    <3>1. c \in 0 .. XLEN - 2
      BY <1>1, TrailingOnes
    <3> QED
      BY <1>1, <3>1, TrailingOnes
  <2> HIDE DEF c
  <2>2. (CHOOSE k \in 0 .. XLEN : x % 2 ^ (k + 1) = 2 ^ k - 1) = c
    BY <2>1
  <2>3. EntryBytes(cfg, x) = Region(2 ^ (c + 3), x \div 2 ^ (c + 1))
    <3> DEFINE k == CHOOSE k \in 0 .. XLEN : x % 2 ^ (k + 1) = 2 ^ k - 1
    <3>1. EntryBytes(cfg, x) = Region(2 ^ (k + 3), x \div 2 ^ (k + 1))
      <4>1. a = 3 /\ a # 0 /\ a # 1 /\ a # 2
        BY <1>5
      <4> QED
        BY <4>1, Zenon DEF EntryBytes
    <3> QED
      BY <2>2, <3>1
  <2>4. pmp_match(addr, size, cfg, x)
          <=> napot_all(x) \/ inside(addr, size, napot_base(x), napot_base(x) + napot_size(x))
    BY <1>5 DEF pmp_match
  <2>5. c = count_trailing_ones(x)
    BY DEF c
  <2> QED
    BY <2>3, <2>4, <2>5, NapotMatches
<1> QED
  BY <1>2, <1>3, <1>4, <1>5

LEMMA PermissionIsNamed ==
  ASSUME NEW access \in AccessKinds, NEW cfg
  PROVE  pmp_perm_ok(access, cfg) <=> Permission(access) \in cfg
<1>1. CASE access = "fetch"
  BY <1>1 DEF pmp_perm_ok, Permission
<1>2. CASE access = "load"
  BY <1>2 DEF pmp_perm_ok, Permission
<1>3. CASE access = "store"
  BY <1>3 DEF pmp_perm_ok, Permission
<1> QED
  BY <1>1, <1>2, <1>3 DEF AccessKinds

\* The window of the PMA is compared first, so whatever is matched lies below its end.
LEMMA WindowFirst ==
  ASSUME NEW q \in Queries
  PROVE  /\ q.addr \in AddressSpace /\ q.size \in Sizes /\ q.paddr \in AddressSpace
         /\ q.access \in AccessKinds
         /\ pma_ok(q.addr, q.size) <=> Touched(q) \subseteq 0 .. PmaLimit - 1
         /\ pma_ok(q.addr, q.size) => q.addr + q.size - 1 < PmaLimit
<1>1. /\ q.addr \in AddressSpace /\ q.size \in Sizes /\ q.paddr \in AddressSpace
      /\ q.access \in AccessKinds
  BY DEF Queries
<1>2. q.addr \in Nat
  BY <1>1, SpaceSizes DEF AddressSpace
<1>3. 0 \in Int /\ PmaLimit \in Int
  BY PmaAssumption
<1>4. inside(q.addr, q.size, 0, PmaLimit)
        <=> (q.addr .. q.addr + q.size - 1) \subseteq 0 .. PmaLimit - 1
  BY <1>1, <1>2, <1>3, InsideIsSubset
<1>5. inside(q.addr, q.size, 0, PmaLimit) => q.addr + q.size - 1 < PmaLimit
  BY DEF inside
<1> QED
  BY <1>1, <1>4, <1>5 DEF pma_ok, Touched

LEMMA DecidesByByte ==
  ASSUME NEW q \in Queries, WithinSpace(q)
  PROVE  access_fault(q.access, q.addr, q.size, q.priv, q.cfg, q.paddr) <=> ~Permitted(q)
<1> DEFINE T == Touched(q)
           fault == access_fault(q.access, q.addr, q.size, q.priv, q.cfg, q.paddr)
           match == pmp_match(q.addr, q.size, q.cfg, q.paddr)
           entry == T \subseteq EntryBytes(q.cfg, q.paddr)
           window == T \subseteq 0 .. PmaLimit - 1
           perm == Permission(q.access) \in q.cfg
<1>1. pma_ok(q.addr, q.size) <=> window
  BY WindowFirst
<1>2. pmp_perm_ok(q.access, q.cfg) <=> perm
  BY WindowFirst, PermissionIsNamed
<1>3. ASSUME window, pmp_a(q.cfg) # 0
      PROVE  match <=> entry
  <2>1. /\ q.addr \in AddressSpace /\ q.size \in Sizes /\ q.paddr \in AddressSpace
        /\ q.addr + q.size - 1 < PmaLimit
    BY <1>1, <1>3, WindowFirst
  <2>2. q.paddr < 2 ^ (XLEN - 2)
    BY DEF WithinSpace
  <2> QED
    BY <1>3, <2>1, <2>2, EntryMatches DEF Touched
<1>4. fault <=> \/ ~pma_ok(q.addr, q.size)
                \/ /\ pmp_a(q.cfg) # 0
                   /\ q.priv # PrvM \/ PmpL \in q.cfg
                   /\ IF match THEN ~pmp_perm_ok(q.access, q.cfg) ELSE q.priv # PrvM
  BY DEF access_fault, pmp_applies
<1>5. Permitted(q) <=> /\ window
                       /\ \/ pmp_a(q.cfg) = 0
                          \/ q.priv = PrvM /\ PmpL \notin q.cfg
                          \/ entry /\ perm
                          \/ q.priv = PrvM /\ ~entry
  BY DEF Permitted
<1> HIDE DEF T, fault, match, entry, window, perm
<1>6. fault <=> ~Permitted(q)
  BY <1>1, <1>2, <1>3, <1>4, <1>5
<1> QED
  BY <1>6 DEF fault

\* The documented encoding of the region of 2^k bytes with index n is the register whose
\* lowest k - 3 bits are ones, below a zero and the index.
LEMMA DocumentedEncoding ==
  ASSUME NEW k \in 3 .. XLEN - 1, NEW n \in 0 .. 2 ^ (XLEN - k) - 1,
         NEW x, x = (n * 2 ^ k) \div 4 + (2 ^ k - 1) \div 8
  PROVE  /\ x \in Nat /\ x < 2 ^ (XLEN - 2)
         /\ count_trailing_ones(x) = k - 3
         /\ x \div 2 ^ ((k - 3) + 1) = n
<1> DEFINE c == k - 3
           e == 2 ^ c
           m == 2 ^ (XLEN - k)
<1>1. c \in 0 .. XLEN - 4 /\ XLEN \in 4 .. 32 /\ c + 3 = k /\ c + 1 = k - 2 /\ c \in 0 .. XLEN
  BY SpaceSizes
<1>2. e \in Nat \ {0} /\ 2 ^ (c + 1) = 2 * e /\ 2 ^ k = 8 * e
  <2>1. c \in 0 .. 34 /\ c + 1 \in 0 .. 34 /\ c + 2 \in 0 .. 34
    BY <1>1
  <2>2. /\ 2 ^ c \in Nat \ {0} /\ 2 ^ (c + 1) = 2 * 2 ^ c /\ 2 ^ ((c + 1) + 1) = 2 * 2 ^ (c + 1)
        /\ 2 ^ ((c + 2) + 1) = 2 * 2 ^ (c + 2)
    BY <2>1, MorePowers DEF PowerStep
  <2>3. (c + 1) + 1 = c + 2 /\ (c + 2) + 1 = k
    BY <1>1
  <2> QED
    BY <2>2, <2>3
<1>3. m \in Nat \ {0} /\ 2 ^ (XLEN - 2) = m * (2 * e)
  <2>1. XLEN - k \in Nat /\ c + 1 \in Nat /\ (XLEN - k) + (c + 1) <= 32
        /\ (XLEN - k) + (c + 1) = XLEN - 2
    BY <1>1
  <2>2. 2 ^ ((XLEN - k) + (c + 1)) = 2 ^ (XLEN - k) * 2 ^ (c + 1) /\ 2 ^ (XLEN - k) \in Nat \ {0}
    BY <2>1, PowerSum
  <2> QED
    BY <1>2, <2>1, <2>2
<1> HIDE DEF e, m
<1>4. n \in Nat /\ n <= m - 1
  BY <1>3 DEF m
<1>5. (n * 2 ^ k) \div 4 = n * (2 * e)
  <2> DEFINE y == n * (2 * e)
  <2>1. n * (8 * e) = 4 * y /\ y \in Nat
    BY <1>2, <1>4, SMT
  <2> HIDE DEF y
  <2>2. (4 * y) \div 4 = y
    BY <2>1
  <2> QED
    BY <1>2, <2>1, <2>2 DEF y
<1>6. (2 ^ k - 1) \div 8 = e - 1
  BY <1>2
<1>7. n * (2 * e) \in Nat /\ x = n * (2 * e) + (e - 1)
  <2>1. n * (2 * e) \in Nat
    BY <1>2, <1>4, SMT
  <2> QED
    BY <1>5, <1>6, <2>1
<1>8. x \in Nat /\ x < 2 ^ (XLEN - 2)
  <2>1. (n + 1) * (2 * e) <= m * (2 * e)
    <3>1. n + 1 \in Nat /\ n + 1 <= m /\ 2 * e \in Nat
      BY <1>2, <1>3, <1>4
    <3> QED
      BY <1>3, <3>1, ProductGrows
  <2>2. (n + 1) * (2 * e) = n * (2 * e) + 2 * e
    BY <1>2, <1>4, SMT
  <2>3. m * (2 * e) \in Nat
    BY <1>2, <1>3, SMT
  <2> QED
    BY <1>2, <1>3, <1>7, <2>1, <2>2, <2>3
<1>9. x \div (2 * e) = n /\ x % (2 * e) = e - 1
  <2> DEFINE d == 2 * e
             r == e - 1
  <2>1. d \in Nat \ {0} /\ r \in 0 .. d - 1 /\ n \in Int /\ x = n * d + r
    BY <1>2, <1>4, <1>7
  <2> HIDE DEF d, r
  <2>2. x \div d = n /\ x % d = r
    BY <2>1, DivisionUnique
  <2> QED
    BY <2>2 DEF d, r
<1>10. x % 2 ^ (c + 1) = 2 ^ c - 1
  BY <1>2, <1>9 DEF e
<1> HIDE DEF c
<1>11. c = count_trailing_ones(x)
  BY <1>1, <1>8, <1>10, TrailingOnes
<1>12. x \div 2 ^ (c + 1) = n
  BY <1>2, <1>9
<1> QED
  BY <1>8, <1>11, <1>12 DEF c

LEMMA OpensTheRegion ==
  ASSUME NEW q \in Queries, NEW k \in 3 .. XLEN - 1, NEW n \in 0 .. 2 ^ (XLEN - k) - 1,
         pmp_a(q.cfg) = 3, q.priv # PrvM,
         q.paddr = (n * 2 ^ k) \div 4 + (2 ^ k - 1) \div 8
  PROVE  access_fault(q.access, q.addr, q.size, q.priv, q.cfg, q.paddr)
           <=> \/ ~(Touched(q) \subseteq Region(2 ^ k, n) \cap (0 .. PmaLimit - 1))
               \/ Permission(q.access) \notin q.cfg
<1> DEFINE x == q.paddr
           c == k - 3
<1>1. x < 2 ^ (XLEN - 2) /\ count_trailing_ones(x) = c /\ x \div 2 ^ (c + 1) = n
  BY DocumentedEncoding
<1>2. c + 3 = k
  BY SpaceSizes
<1> HIDE DEF c
<1>3. access_fault(q.access, q.addr, q.size, q.priv, q.cfg, q.paddr) <=> ~Permitted(q)
  BY <1>1, DecidesByByte DEF WithinSpace
<1>4. ASSUME q.addr + q.size - 1 < PmaLimit
      PROVE  Touched(q) \subseteq EntryBytes(q.cfg, x) <=> Touched(q) \subseteq Region(2 ^ k, n)
  <2>1. q.addr \in AddressSpace /\ q.size \in Sizes /\ x \in AddressSpace /\ pmp_a(q.cfg) # 0
    BY WindowFirst
  <2>2. pmp_match(q.addr, q.size, q.cfg, x) <=> Touched(q) \subseteq EntryBytes(q.cfg, x)
    BY <1>1, <1>4, <2>1, EntryMatches DEF Touched
  <2>3. pmp_match(q.addr, q.size, q.cfg, x)
          <=> napot_all(x) \/ inside(q.addr, q.size, napot_base(x), napot_base(x) + napot_size(x))
    BY DEF pmp_match
  <2>4. napot_all(x) \/ inside(q.addr, q.size, napot_base(x), napot_base(x) + napot_size(x))
          <=> Touched(q) \subseteq Region(2 ^ (c + 3), x \div 2 ^ (c + 1))
    BY <1>1, <1>4, <2>1, NapotMatches DEF Touched
  <2> QED
    BY <1>1, <1>2, <2>2, <2>3, <2>4
<1>5. Touched(q) \subseteq 0 .. PmaLimit - 1 => q.addr + q.size - 1 < PmaLimit
  BY WindowFirst
<1>6. Permitted(q) <=> /\ Touched(q) \subseteq 0 .. PmaLimit - 1
                       /\ Touched(q) \subseteq EntryBytes(q.cfg, x)
                       /\ Permission(q.access) \in q.cfg
  BY DEF Permitted
<1> QED
  BY <1>3, <1>4, <1>5, <1>6

\* For every width of addresses and every PMA window in the address space, the checker
\* faults exactly the accesses that touch a byte outside the window or, where the entry
\* applies, outside the region or without its permission; and the register value that the
\* documentation gives for a region opens that region (PMP_PMA_Checker.sv, README.md:139).
THEOREM CheckerDecidesByByte == CheckerSpec => []CheckerIsExact
<1> DEFINE WellAsked == query = NoQuery \/ query \in Queries
<1>1. CheckerInit => WellAsked
  BY DEF CheckerInit
<1>2. WellAsked /\ [CheckerNext]_query => WellAsked'
  BY DEF CheckerNext, AskChecker, AnswerChecker
<1>3. WellAsked => CheckerIsExact
  <2> SUFFICES ASSUME query \in Queries, query # NoQuery PROVE CheckerIsExact
    BY DEF CheckerIsExact, FaultsExactly, DocumentedRegion
  <2>1. FaultsExactly
    BY DecidesByByte DEF FaultsExactly
  <2>2. DocumentedRegion
    BY OpensTheRegion DEF DocumentedRegion
  <2> QED
    BY <2>1, <2>2 DEF CheckerIsExact
<1> QED
  BY <1>1, <1>2, <1>3, PTL DEF CheckerSpec
=============================================================================
