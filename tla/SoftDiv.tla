------------------------------- MODULE SoftDiv -------------------------------
(***************************************************************************)
(* Division in software (escute/soft_div.c), for a core that multiplies    *)
(* but does not divide: the calls the compiler makes for / and %.  One     *)
(* action per turn of the loop over the bits; the 32-bit and the 64-bit    *)
(* functions are the same text with another width, Bits.                   *)
(*                                                                         *)
(* __udivsi3 and __umodsi3 share their loop, so a call here keeps both the *)
(* quotient and the remainder and returns the one its function returns.    *)
(***************************************************************************)
EXTENDS Integers

CONSTANTS
  Bits,       \* the width of the operands
  Weight,     \* Weight[i] = 2^i
  Operands    \* pairs of unsigned words the functions are called with

W == Weight[Bits]
Word == 0 .. W - 1

ASSUME SoftDivAssumption ==
  /\ Bits \in Nat \ {0}
  /\ Weight \in [0 .. Bits -> Nat \ {0}]
  /\ Weight[0] = 1
  /\ \A i \in 0 .. Bits - 1 : Weight[i + 1] = 2 * Weight[i]
  /\ Operands \subseteq Word \X Word

VARIABLES
  fn,                     \* the function called
  dividend, divisor,      \* of the unsigned loop
  negative,               \* the result is to be negated
  args,                   \* what the function was called with
  quotient, remainder, bit,
  pc,                     \* "bits", "done"
  result

divVars == <<fn, dividend, divisor, negative, args, quotient, remainder, bit, pc, result>>

Functions == {"udiv", "umod", "div", "mod"}

\* A word read as a signed number, and a number kept in a word.
AsSigned(w) == IF 2 * w >= W THEN w - W ELSE w
AsWord(n) == n % W

\* Negation in a word: the smallest number is its own negative.
Negated(w) == AsWord(0 - w)
IsNegative(f, w) == f \in {"div", "mod"} /\ AsSigned(w) < 0

\* Mutant: only the sign of the dividend counts.
negated_dividend(f, a, b) == IsNegative(f, a)

\* Whether the result changes sign: a quotient with either operand, a remainder with
\* the dividend.
negated(f, a, b) ==
  IF f = "mod" THEN IsNegative(f, a) ELSE IsNegative(f, a) # IsNegative(f, b)

\* The signed functions divide the magnitudes.
magnitude(f, w) == IF IsNegative(f, w) THEN Negated(w) ELSE w

\* Any call, ready to run its loop, or returned because the divisor is 0.
DivInit ==
  /\ fn \in Functions
  /\ args \in Operands
  /\ dividend = magnitude(fn, args[1]) /\ divisor = magnitude(fn, args[2])
  /\ negative = negated(fn, args[1], args[2])
  /\ quotient = 0 /\ remainder = dividend
  /\ bit = Bits - 1
  /\ pc = "bits" /\ result = 0

\* Mutant: the guard lets a shift that overflows through.
fits_unguarded(d, i) == TRUE

\* d << i fits into a word: d is at most the largest word shifted right by i.
fits(d, i) == d <= (W - 1) \div Weight[i]

\* One bit of the quotient.
Bit ==
  LET shifted == AsWord(divisor * Weight[bit])
      take    == fits(divisor, bit) /\ remainder >= shifted
  IN /\ pc = "bits" /\ divisor # 0 /\ bit >= 0
     /\ remainder' = IF take THEN remainder - shifted ELSE remainder
     /\ quotient'  = IF take THEN quotient + Weight[bit] ELSE quotient
     /\ bit' = bit - 1
     /\ UNCHANGED <<fn, dividend, divisor, negative, args, pc, result>>

\* The result takes its sign.
Return ==
  LET r == IF fn \in {"udiv", "div"} THEN quotient ELSE remainder
  IN /\ pc = "bits" /\ divisor # 0 /\ bit < 0
     /\ result' = IF negative THEN Negated(r) ELSE r
     /\ pc' = "done"
     /\ UNCHANGED <<fn, dividend, divisor, negative, args, quotient, remainder, bit>>

\* Division by 0 gives 0, its remainder the dividend.
ReturnZeroDivisor ==
  LET r == IF fn \in {"udiv", "div"} THEN 0 ELSE dividend
  IN /\ pc = "bits" /\ divisor = 0
     /\ result' = IF negative THEN Negated(r) ELSE r
     /\ pc' = "done"
     /\ UNCHANGED <<fn, dividend, divisor, negative, args, quotient, remainder, bit>>

DivNext == Bit \/ Return \/ ReturnZeroDivisor

DivSpec == DivInit /\ [][DivNext]_divVars

-----------------------------------------------------------------------------
(* Properties *)

\* The loop's account: what has been divided so far, with what is left, is the
\* dividend, and what is left is less than the divisor's next multiple
\* (soft_div.c:18-31).
QuotientAndRemainder ==
  pc = "bits" /\ divisor # 0 =>
    /\ dividend = quotient * divisor + remainder
    /\ remainder < divisor * Weight[bit + 1]

\* The quotient a C expression promises: rounded towards 0.  The one quotient that
\* does not fit, of the smallest number by -1, wraps.
Truncated(a, b) ==
  LET Abs(n) == IF n < 0 THEN -n ELSE n
      q      == Abs(a) \div Abs(b)
  IN IF (a < 0) # (b < 0) THEN 0 - q ELSE q

\* Each function returns the quotient or the remainder that C defines for its operands,
\* read as signed or unsigned; by 0 the quotient is 0 and the remainder the dividend
\* (soft_div.c:7-90, 93-187).
DividesLikeC ==
  pc = "done" =>
    LET signed == fn \in {"div", "mod"}
        a == IF signed THEN AsSigned(args[1]) ELSE args[1]
        b == IF signed THEN AsSigned(args[2]) ELSE args[2]
        q == IF b = 0 THEN 0 ELSE Truncated(a, b)
    IN result = AsWord(IF fn \in {"udiv", "div"} THEN q ELSE a - q * b)
=============================================================================
