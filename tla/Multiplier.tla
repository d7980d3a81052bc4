------------------------------ MODULE Multiplier ------------------------------
(***************************************************************************)
(* The four-stage multiplier of EsCute-RV (MUL.sv) with its arithmetic:    *)
(* the operands are extended to one bit more than a word, split into a     *)
(* signed upper and an unsigned lower half, and the product is assembled   *)
(* from four partial products on the way.  Every register is cut to the    *)
(* width it has in the RTL.                                                *)
(*                                                                         *)
(* cancel_rd_i is tied to zero (HazardUnit.sv:184) and left out.           *)
(***************************************************************************)
EXTENDS Integers, FiniteSets

CONSTANTS
  B,             \* the number of values of a half word: 2^16 in the RTL
  Rds,           \* destination registers
  Operands,      \* the operand words that are tried
  MaxInFlight    \* bound: multiplications in the stages at the same time

VARIABLES
  s1, s2, s3, s4,    \* the registers of the four stages
  asked              \* history: the multiplication each stage is working on

mulVars == <<s1, s2, s3, s4, asked>>

W == B * B
FullWord == 0 .. W - 1
MulOps == {"MUL", "MULH", "MULHSU", "MULHU"}

ASSUME MulAssumption ==
  /\ B \in Nat \ {0} /\ B % 2 = 0
  /\ Operands \subseteq FullWord
  /\ MaxInFlight \in Nat

-----------------------------------------------------------------------------

\* A signed register of M values keeps the low bits of x.
SignedReg(x, M) == ((x + M \div 2) % M) - M \div 2

\* sign extension and zero extension of a word by one bit
sign_extend(x) == SignedReg(x, W)

src1_signed(op, x) == IF op \in {"MUL", "MULH", "MULHSU"} THEN sign_extend(x) ELSE x

\* Mutant: the second operand of MULHSU is extended like that of MULH.
src2_signed_MULHSU(op, x) == IF op \in {"MUL", "MULH", "MULHSU"} THEN sign_extend(x) ELSE x

src2_signed(op, x) == IF op \in {"MUL", "MULH"} THEN sign_extend(x) ELSE x

upper_half(x) == x \div B

lower_half(x) == x % B

-----------------------------------------------------------------------------

Stage1(valid, op, x, y, rd) ==
  LET a == src1_signed(op, x)
      b == src2_signed(op, y)
  IN  [valid |-> valid, op |-> op, rd |-> rd,
       a_hi |-> upper_half(a), b_hi |-> upper_half(b),
       a_lo |-> lower_half(a), b_lo |-> lower_half(b),
       pp_ll |-> (lower_half(a) * lower_half(b)) % W]

Stage2(s) ==
  [valid |-> s.valid, op |-> s.op, rd |-> s.rd, a_hi |-> s.a_hi, b_hi |-> s.b_hi,
   pp_ll |-> s.pp_ll,
   pp_lh |-> SignedReg(s.a_lo * s.b_hi, 2 * W),
   pp_hl |-> SignedReg(s.a_hi * s.b_lo, 2 * W)]

\* Mutant: the sum of the cross terms kept in as many bits as each of them.
Stage3_narrow(s) ==
  [valid |-> s.valid, op |-> s.op, rd |-> s.rd, pp_ll |-> s.pp_ll,
   pp_mid |-> SignedReg(s.pp_lh + s.pp_hl, 2 * W),
   pp_hh  |-> SignedReg(s.a_hi * s.b_hi, 4 * W)]

Stage3(s) ==
  [valid |-> s.valid, op |-> s.op, rd |-> s.rd, pp_ll |-> s.pp_ll,
   pp_mid |-> SignedReg(s.pp_lh + s.pp_hl, 4 * W),
   pp_hh  |-> SignedReg(s.a_hi * s.b_hi, 4 * W)]

Stage4(s) ==
  [valid |-> s.valid, op |-> s.op, rd |-> s.rd,
   product |-> (s.pp_ll + s.pp_mid * B + s.pp_hh * W) % (W * W)]

Reset1 == [valid |-> FALSE, op |-> "MUL", rd |-> 0, a_hi |-> 0, b_hi |-> 0,
           a_lo |-> 0, b_lo |-> 0, pp_ll |-> 0]
Reset2 == [valid |-> FALSE, op |-> "MUL", rd |-> 0, a_hi |-> 0, b_hi |-> 0,
           pp_ll |-> 0, pp_lh |-> 0, pp_hl |-> 0]
Reset3 == [valid |-> FALSE, op |-> "MUL", rd |-> 0, pp_ll |-> 0, pp_mid |-> 0, pp_hh |-> 0]
Reset4 == [valid |-> FALSE, op |-> "MUL", rd |-> 0, product |-> 0]

Nothing == [op |-> "none", x |-> 0, y |-> 0, rd |-> 0]

-----------------------------------------------------------------------------

\* Reset leaves what a flush leaves.
MulInit ==
  /\ s1 = Reset1 /\ s2 = Reset2 /\ s3 = Reset3 /\ s4 = Reset4
  /\ asked = <<Nothing, Nothing, Nothing, Nothing>>

mul_stage_busy == <<s1.valid, s2.valid, s3.valid, s4.valid>>

Advance(m) ==
  /\ asked' = <<m, asked[1], asked[2], asked[3]>>
  /\ s2' = Stage2(s1)
  /\ s3' = Stage3(s2)
  /\ s4' = Stage4(s3)

\* A multiplication leaves EX (mul_valid_i).
Start(op, x, y, rd) ==
  /\ Cardinality({s \in 1 .. 3 : mul_stage_busy[s]}) < MaxInFlight
  /\ s1' = Stage1(TRUE, op, x, y, rd)
  /\ Advance([op |-> op, x |-> x, y |-> y, rd |-> rd])

\* Anything else leaves EX: mul_valid_i is low.  The operands latched with it are
\* never read, since every output is gated by the valid bit: taken as zero.
Bubble == s1' = Reset1 /\ Advance(Nothing)

\* flush_i: a redirect from EX.
Flush ==
  /\ s1' = Reset1 /\ s2' = Reset2 /\ s3' = Reset3 /\ s4' = Reset4
  /\ asked' = <<Nothing, Nothing, Nothing, Nothing>>

MulNext ==
  \/ \E op \in MulOps, x \in Operands, y \in Operands, rd \in Rds : Start(op, x, y, rd)
  \/ Bubble
  \/ Flush

MulSpec == MulInit /\ [][MulNext]_mulVars

-----------------------------------------------------------------------------
(* The outputs. *)

mul_result_o == IF s4.op = "MUL" THEN s4.product % W ELSE s4.product \div W

mul_rf_we_o == s4.valid /\ s4.rd # 0

-----------------------------------------------------------------------------
(* What is asked, in the integers' own arithmetic. *)

Signed(x) == IF 2 * x >= W THEN x - W ELSE x

\* The exact product of the M extension: MULHU takes both operands as unsigned,
\* MULHSU the second one.
Exact(m) ==
  (IF m.op = "MULHU" THEN m.x ELSE Signed(m.x)) *
  (IF m.op \in {"MULHU", "MULHSU"} THEN m.y ELSE Signed(m.y))

Asked(s) == asked[s].op # "none"

\* Four clock edges after it left EX, unless a redirect empties the stages, a
\* multiplication writes its own register with the word of the product it asks
\* for, whatever else is in flight (MUL.sv:254, 281-301).
CorrectProduct ==
  /\ mul_rf_we_o <=> Asked(4) /\ asked[4].rd # 0
  /\ mul_rf_we_o =>
       /\ s4.rd = asked[4].rd
       /\ mul_result_o = IF asked[4].op = "MUL" THEN Exact(asked[4]) % W
                                               ELSE (Exact(asked[4]) \div W) % W

\* The registers of every stage still add up to the product asked for: no partial
\* product outgrows the register that holds it (MUL.sv:156-160, 206-210).
StagesAddUp ==
  /\ s1.valid => (s1.a_hi * B + s1.a_lo) * (s1.b_hi * B + s1.b_lo) = Exact(asked[1])
  /\ s2.valid => s2.a_hi * s2.b_hi * W + (s2.pp_lh + s2.pp_hl) * B + s2.pp_ll = Exact(asked[2])
  /\ s3.valid => s3.pp_hh * W + s3.pp_mid * B + s3.pp_ll = Exact(asked[3])
=============================================================================
