------------------------------- MODULE EePrintf -------------------------------
(***************************************************************************)
(* CoreMark's formatted output (escute/ee_printf.c): ee_printf, which      *)
(* sends characters to the console as it goes, and ee_vsprintf, the full   *)
(* formatter that came with the port and that nothing calls any more.      *)
(* Both are run on the same format and the same arguments, one conversion  *)
(* a step.                                                                 *)
(*                                                                         *)
(* A format is a sequence of characters ended by "nul"; an argument is a   *)
(* word, a character or a sequence of either.                              *)
(***************************************************************************)
EXTENDS Integers, Sequences, SequencesExt

CONSTANTS
  Bits,      \* width of int, long and pointers: a multiple of 4
  Calls      \* pairs of a format and its arguments, the formats complete

W == 2 ^ Bits

PrintfAssumption ==
  /\ Bits \in Nat \ {0} /\ Bits % 4 = 0
  /\ \A c \in Calls : Len(c[1]) > 0 /\ c[1][Len(c[1])] = "nul"

VARIABLES
  fmt, args,      \* the call
  fn,             \* the function that runs
  k, a,           \* the next character, the next argument
  out,            \* what each function has printed
  field           \* history: the last number, as [text, value, base, width]

printfVars == <<fmt, args, fn, k, a, out, field>>

-----------------------------------------------------------------------------
(* Characters and numbers *)

digits == <<"0", "1", "2", "3", "4", "5", "6", "7", "8", "9", "a", "b", "c", "d", "e", "f">>
upper_digits ==
  <<"0", "1", "2", "3", "4", "5", "6", "7", "8", "9", "A", "B", "C", "D", "E", "F">>

DigitChars == {digits[n] : n \in 1 .. 10}
ValueOf(c) == CHOOSE n \in 0 .. 15 : c \in {digits[n + 1], upper_digits[n + 1]}

Times(n, c) == [j \in 1 .. (IF n > 0 THEN n ELSE 0) |-> c]

\* The first place from j on whose character is not in S: the end of a loop over S.
Past(f, j, S) == CHOOSE m \in j .. Len(f) : f[m] \notin S /\ \A n \in j .. m - 1 : f[n] \in S

skip_atoi(f, from, to) ==
  FoldLeft(LAMBDA n, c : 10 * n + ValueOf(c), 0, SubSeq(f, from, to - 1))

\* A number's digits in a base, without leading zeros.
InBase(num, base, dig) ==
  LET d[n \in 0 .. W - 1] ==
        IF n < base THEN <<dig[n + 1]>> ELSE Append(d[n \div base], dig[(n % base) + 1])
  IN  d[num]

Negative(v) == 2 * v >= W
AsSigned(v) == IF Negative(v) THEN v - W ELSE v

-----------------------------------------------------------------------------
(* ee_printf *)

\* The lowest `width` hexadecimal digits, all of them when no width is given.
print_hex32(v, width) ==
  LET n == IF width = 0 THEN Bits \div 4 ELSE width
  IN  [j \in 1 .. n |-> digits[((v \div (16 ^ (n - j))) % 16) + 1]]

print_udec32(v) == InBase(v, 10, digits)

\* Mutant: the smallest number is taken to have no magnitude.
print_dec32_saturated(v) ==
  IF 2 * v = W THEN <<"-">> \o print_udec32(v - 1)
  ELSE IF Negative(v) THEN <<"-">> \o print_udec32(W - v) ELSE print_udec32(v)

print_dec32(v) ==
  IF Negative(v) THEN <<"-">> \o print_udec32((W - v) % W) ELSE print_udec32(v)

\* What a conversion prints, and whether it takes an argument.
EeText(c, v, width, long) ==
  CASE c = "c" -> <<v>>
    [] c = "s" -> v
    [] c = "x" -> print_hex32(v, width)
    [] c = "u" -> print_udec32(v)
    [] c = "d" -> print_dec32(v)
    [] OTHER   -> IF long THEN <<"%", "l", c>> ELSE <<"%", c>>
EeTakes(c) == c \in {"c", "s", "x", "u", "d"}

EeConversion ==
  LET zero   == IF fmt[k + 1] = "0" THEN k + 2 ELSE k + 1
      widths == Past(fmt, zero, DigitChars)
      width  == skip_atoi(fmt, zero, widths)
      long   == fmt[widths] = "l"
      at     == IF long THEN widths + 1 ELSE widths
      c      == fmt[at]
  IN /\ fn = "ee_printf" /\ fmt[k] = "%"
     /\ IF fmt[k + 1] = "%"
        THEN /\ out' = [out EXCEPT !.ee_printf = Append(@, "%")]
             /\ k' = k + 2 /\ a' = a
        ELSE /\ out' = [out EXCEPT !.ee_printf =
                          @ \o EeText(c, IF EeTakes(c) THEN args[a] ELSE 0, width, long)]
             /\ k' = at + 1
             /\ a' = IF EeTakes(c) THEN a + 1 ELSE a
     /\ UNCHANGED <<fmt, args, fn, field>>

-----------------------------------------------------------------------------
(* ee_vsprintf *)

\* Text of n characters set in a field, padded with blanks before or after it.
Padded(text, size, left) ==
  LET blanks == Times(size - Len(text), " ")
  IN  IF left THEN text \o blanks ELSE blanks \o text

\* Mutant: the smallest number is cut to the largest.
magnitude_cut(num, minus) == IF minus THEN (IF 2 * num = W THEN num - 1 ELSE W - num) ELSE num

\* -num, in a long.
magnitude(num, minus) == IF minus THEN (W - num) % W ELSE num

\* A number: blanks, sign, prefix, zeros, digits, blanks.
number(num, base, size, precision, flags, signed, upper) ==
  LET left   == "-" \in flags
      zeros  == "0" \in flags /\ ~left
      minus  == signed /\ Negative(num)
      sign   == IF ~signed THEN <<>> ELSE IF minus THEN <<"-">>
                ELSE IF "+" \in flags THEN <<"+">> ELSE IF " " \in flags THEN <<" ">> ELSE <<>>
      prefix == IF "#" \notin flags THEN <<>>
                ELSE CASE base = 16 -> <<"0", "x">> [] base = 8 -> <<"0">> [] OTHER -> <<>>
      tmp    == InBase(magnitude(num, minus), base, IF upper THEN upper_digits ELSE digits)
      least  == IF Len(tmp) > precision THEN Len(tmp) ELSE precision
      room   == size - Len(sign) - Len(prefix) - least
  IN  (IF ~zeros /\ ~left THEN Times(room, " ") ELSE <<>>)
      \o sign \o prefix
      \o (IF zeros THEN Times(room, "0") ELSE <<>>)
      \o Times(least - Len(tmp), "0") \o tmp
      \o (IF left THEN Times(room, " ") ELSE <<>>)

\* Six bytes in hexadecimal, and four in decimal.
eaddr(addr, size, flags, upper) ==
  LET dig == IF upper THEN upper_digits ELSE digits
      byte(n) == <<dig[(n \div 16) + 1], dig[(n % 16) + 1]>>
  IN  Padded(FoldLeft(LAMBDA t, n : t \o <<":">> \o byte(n), byte(addr[1]), Tail(addr)),
             size, "-" \in flags)
iaddr(addr, size, flags) ==
  Padded(FoldLeft(LAMBDA t, n : t \o <<".">> \o InBase(n, 10, digits),
                  InBase(addr[1], 10, digits), Tail(addr)),
         size, "-" \in flags)

\* Mutant: the argument of "*" is read again.
Measure_again(j, b) ==
  IF fmt[j] = "*" THEN [value |-> AsSigned(args[b]), at |-> j + 1, arg |-> b]
  ELSE LET e == Past(fmt, j, DigitChars)
       IN  [value |-> IF e = j THEN -1 ELSE skip_atoi(fmt, j, e), at |-> e, arg |-> b]

\* A field width or a precision: digits, or "*" and an argument.
Measure(j, b) ==
  IF fmt[j] = "*" THEN [value |-> AsSigned(args[b]), at |-> j + 1, arg |-> b + 1]
  ELSE LET e == Past(fmt, j, DigitChars)
       IN  [value |-> IF e = j THEN -1 ELSE skip_atoi(fmt, j, e), at |-> e, arg |-> b]

Flags == {"-", "+", " ", "#", "0"}
Numbers == {"o", "x", "X", "d", "i", "u", "p"}
VsTakes(c) == c \in Numbers \cup {"c", "s", "a", "A"}

VsText(c, v, flags, width, precision, long) ==
  LET base == CASE c \in {"x", "X", "p"} -> 16 [] c = "o" -> 8 [] OTHER -> 10
  IN CASE c = "c" -> Padded(<<v>>, width, "-" \in flags)
       [] c = "s" -> Padded(IF precision >= 0 /\ precision < Len(v) THEN SubSeq(v, 1, precision)
                            ELSE v, width, "-" \in flags)
       [] c = "p" /\ width = -1 -> number(v, 16, Bits \div 4, precision, flags \cup {"0"}, FALSE, FALSE)
       [] c \in {"a", "A"} -> IF long THEN eaddr(v, width, flags, c = "A") ELSE iaddr(v, width, flags)
       [] c \in Numbers -> number(v, base, width, precision, flags, c \in {"d", "i"}, c = "X")
       [] c = "%"   -> <<"%">>
       [] c = "nul" -> <<"%">>
       [] OTHER     -> <<"%", c>>

VsConversion ==
  LET past  == Past(fmt, k + 1, Flags)
      wide  == Measure(past, a)
      flags == {fmt[j] : j \in k + 1 .. past - 1} \cup
               (IF fmt[past] = "*" /\ wide.value < 0 THEN {"-"} ELSE {})
      width == IF fmt[past] = "*" /\ wide.value < 0 THEN -wide.value ELSE wide.value
      prec  == IF fmt[wide.at] = "." THEN Measure(wide.at + 1, wide.arg)
               ELSE [value |-> -1, at |-> wide.at, arg |-> wide.arg]
      precision == IF fmt[wide.at] = "." /\ prec.value < 0 THEN 0 ELSE prec.value
      long  == fmt[prec.at] \in {"l", "L"}
      at    == IF long THEN prec.at + 1 ELSE prec.at
      c     == fmt[at]
      text  == VsText(c, IF VsTakes(c) THEN args[prec.arg] ELSE 0, flags, width, precision,
                      fmt[prec.at] = "l")
  IN /\ fn = "ee_vsprintf" /\ fmt[k] = "%"
     /\ out' = [out EXCEPT !.ee_vsprintf = @ \o text]
     /\ k' = IF c = "nul" THEN at ELSE at + 1
     /\ a' = IF VsTakes(c) THEN prec.arg + 1 ELSE prec.arg
     /\ field' = IF c \in Numbers
                 THEN [text |-> text, width |-> width,
                       base |-> CASE c \in {"x", "X", "p"} -> 16 [] c = "o" -> 8 [] OTHER -> 10,
                       value |-> IF c \in {"d", "i"} THEN AsSigned(args[prec.arg])
                                 ELSE args[prec.arg]]
                 ELSE field
     /\ UNCHANGED <<fmt, args, fn>>

-----------------------------------------------------------------------------

Init ==
  /\ \E c \in Calls : fmt = c[1] /\ args = c[2]
  /\ fn = "ee_printf"
  /\ k = 1 /\ a = 1
  /\ out = [ee_printf |-> <<>>, ee_vsprintf |-> <<>>]
  /\ field = [text |-> <<"0">>, value |-> 0, base |-> 10, width |-> -1]

Literal ==
  /\ fmt[k] \notin {"%", "nul"}
  /\ out' = [out EXCEPT ![fn] = Append(@, fmt[k])]
  /\ k' = k + 1
  /\ UNCHANGED <<fmt, args, fn, a, field>>

\* The first function has returned; the other one starts.
Return ==
  /\ fn = "ee_printf" /\ fmt[k] = "nul"
  /\ fn' = "ee_vsprintf" /\ k' = 1 /\ a' = 1
  /\ UNCHANGED <<fmt, args, out, field>>

Next == Literal \/ EeConversion \/ VsConversion \/ Return

Spec == Init /\ [][Next]_printfVars

-----------------------------------------------------------------------------
(* Properties *)

Ended == fn = "ee_vsprintf" /\ fmt[k] = "nul"

\* The conversions CoreMark prints with, as pieces of a format.
Common(f) ==
  \A j \in 1 .. Len(f) - 1 : f[j] = "%" =>
    \/ f[j + 1] \in {"c", "s", "u", "d", "%"}
    \/ f[j + 1] = "l" /\ f[j + 2] = "u"
    \/ f[j + 1] = "0" /\ f[j + 2] = digits[(Bits \div 4) + 1] /\ f[j + 3] = "x"

\* ee_printf prints what the full formatter would, for the conversions CoreMark uses
\* (ee_printf.c:481-578).
SameText == Ended /\ Common(fmt) => out.ee_printf = out.ee_vsprintf

\* The number a text shows, blanks, prefix and all.
Reading(text, base) ==
  LET start == CHOOSE j \in DOMAIN text : text[j] # " " /\ \A m \in 1 .. j - 1 : text[m] = " "
      shown == SelectSeq(text, LAMBDA c : c \notin {" ", "+", "-", "x"})
      value == FoldLeft(LAMBDA n, c : base * n + ValueOf(c), 0, shown)
  IN  IF text[start] = "-" THEN -value ELSE value

\* Every number is printed as it is, with its sign before it, and fills its field
\* (ee_printf.c:54-142).
NumbersReadBack ==
  /\ Reading(field.text, field.base) = field.value
  /\ Len(field.text) >= field.width

\* Each function takes the arguments its format names, no more and no fewer
\* (ee_printf.c:219-405, 481-578).
TakesAllArguments ==
  fmt[k] = "nul" /\ (fn = "ee_vsprintf" \/ Common(fmt)) => a = Len(args) + 1
=============================================================================
