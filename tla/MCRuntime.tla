------------------------------- MODULE MCRuntime -------------------------------
(***************************************************************************)
(* What programs bring along to run on the core: division in software, the *)
(* printf functions, the reading of the cycle counter, and the environment *)
(* of the ISA tests with the testbench that judges them.  One is at work   *)
(* and the others are at rest.                                             *)
(***************************************************************************)
EXTENDS SoftDiv, CycleTimer, TestEnv

VARIABLES
  part,                          \* what is at work
  r1, r2, r3, r4, r5, r6, r7     \* the state of printf

registers == <<r1, r2, r3, r4, r5, r6, r7>>
runtimeVars == <<part, divVars, timerVars, envVars, registers>>

-----------------------------------------------------------------------------
(* Every pair of six-bit operands, with the ends of the range among them.     *)

McWeight == [i \in 0 .. Bits |-> 2 ^ i]
McOperands == Word \X Word

-----------------------------------------------------------------------------
(* Formats of one conversion with everything it may have, and of two.         *)

Values == {0, 9, 10, 127, 128, 129, 255}
Strings == {<<>>, <<"a", "b", "c">>}
Nul == <<"nul">>

FlagSets == {<<>>, <<"-">>, <<"+">>, <<"0">>, <<" ">>, <<"#">>, <<"-", "0">>, <<"0", "+">>, <<"#", "0">>}
Widths == {<<>>, <<"1">>, <<"6">>}
Precisions == {<<>>, <<".">>, <<".", "4">>}

\* Every number with flags, width and precision.
NumberCalls ==
  {<< <<"%">> \o f \o w \o p \o q \o <<c>> \o Nul, <<v>> >> :
     f \in FlagSets, w \in Widths, p \in Precisions, q \in {<<>>, <<"l">>},
     c \in {"o", "x", "X", "d", "i", "u", "p"}, v \in Values}

\* Width and precision as arguments.
StarCalls ==
  {<< <<"%", "*", ".", "*", c>> \o Nul, <<w, p, v>> >> :
     c \in {"d", "x"}, w \in {3, 250}, p \in {2, 251}, v \in Values}

OtherCalls ==
  {<< <<"%">> \o f \o w \o <<"s">> \o Nul, <<s>> >> : f \in FlagSets, w \in Widths, s \in Strings}
  \cup {<< <<"%", ".", "2", "s">> \o Nul, <<s>> >> : s \in Strings}
  \cup {<< <<"%">> \o f \o w \o <<"c">> \o Nul, <<"z">> >> : f \in FlagSets, w \in Widths}
  \cup {<< <<"%", "2", "0", "l", c>> \o Nul, << <<0, 1, 16, 255, 128, 9>> >> >> : c \in {"a", "A"}}
  \cup {<< <<"%", "-", "2", "0", "a">> \o Nul, << <<0, 9, 10, 255>> >> >>}
  \cup {<< <<"x", "%", "%", "%", "q">> \o Nul, <<>> >>, << <<"%", "l", "q">> \o Nul, <<>> >>}

\* What main and check_data_types print with, two at a time.
CommonPieces ==
  {<<"%", "u">>, <<"%", "d">>, <<"%", "l", "u">>, <<"%", "0", "2", "x">>}
CommonCalls ==
  {<< <<"[">> \o p \o <<"]">> \o q \o Nul, <<v, w>> >> :
     p \in CommonPieces, q \in CommonPieces, v \in Values, w \in Values}

McCalls == NumberCalls \cup StarCalls \cup OtherCalls \cup CommonCalls

Printf == INSTANCE EePrintf
  WITH Bits <- 8, Calls <- McCalls,
       fmt <- r1, args <- r2, fn <- r3, k <- r4, a <- r5, out <- r6, field <- r7

ASSUME Printf!PrintfAssumption

-----------------------------------------------------------------------------
(* Lower halves of 16 values, overtaken by no two attempts to read them, and a *)
(* counter that overflows as a whole within the run.                          *)

McBootValues == {2, 13}

-----------------------------------------------------------------------------
(* Tests with two cases, one for each shape that the suite has.               *)

Shape(level, handler, expects, tohost, first, stores) ==
  [level |-> level, handler |-> handler, expects |-> EncodedCause[expects],
   tohost |-> tohost, first |-> first, stores |-> stores]

\* In this order: a user-level store test, with odd data before and after; a test that
\* fills more than a page, so that the other word is code; sw-misaligned, whose data
\* begins with zero and whose aligned store is of an even word; the misaligned loads; the
\* CSR test of supervisor mode.
McTests ==
  {Shape(PrvU, "none", "breakpoint", "0x1000", 7, {5, 6}),
   Shape(PrvU, "none", "breakpoint", "0x2000", 19, {}),
   Shape(PrvM, "mtvec_handler", "misaligned_store", "0x1000", 0, {120}),
   Shape(PrvM, "mtvec_handler", "misaligned_load", "0x1000", 1, {}),
   Shape(PrvS, "stvec_handler", "user_ecall", "0x1000", 1, {})}

McAbsences == SUBSET {"mnstatus", "satp", "pmpaddr0", "pmpcfg0", "medeleg", "mideleg"}

-----------------------------------------------------------------------------

\* A part at rest: one of its initial states.
Undivided == DivInit /\ fn = "udiv" /\ args = <<0, 0>>
Untested  == EnvInit /\ test.level = PrvU /\ test.tohost = "0x1000" /\ absent = {}
Unprinted == r1 = 0 /\ r2 = 0 /\ r3 = 0 /\ r4 = 0 /\ r5 = 0 /\ r6 = 0 /\ r7 = 0

RuntimeInit ==
  /\ TimerInit
  /\ \/ part = "division" /\ DivInit   /\ Untested /\ Unprinted
     \/ part = "printf"   /\ Undivided /\ Untested /\ Printf!Init
     \/ part = "timer"    /\ Undivided /\ Untested /\ Unprinted
     \/ part = "test"     /\ Undivided /\ EnvInit  /\ Unprinted

RuntimeNext ==
  /\ UNCHANGED part
  /\ \/ part = "division" /\ DivNext     /\ UNCHANGED <<timerVars, envVars, registers>>
     \/ part = "printf"   /\ Printf!Next /\ UNCHANGED <<divVars, timerVars, envVars>>
     \/ part = "timer"    /\ TimerNext   /\ UNCHANGED <<divVars, envVars, registers>>
     \/ part = "test"     /\ EnvNext     /\ UNCHANGED <<divVars, timerVars, registers>>

\* The program that reads the counter runs on, its workload may not; the clock ticks.
Fairness ==
  /\ WF_runtimeVars(part = "timer" /\ Reads /\ UNCHANGED <<part, divVars, envVars, registers>>)
  /\ WF_runtimeVars(part = "test" /\ Cycle /\ UNCHANGED <<part, divVars, timerVars, registers>>)

RuntimeSpec == RuntimeInit /\ [][RuntimeNext]_runtimeVars /\ Fairness

-----------------------------------------------------------------------------
(* The properties of printf, and that the others come to an end; the rest is   *)
(* named by the modules of the parts.                                         *)

\* For the conversions CoreMark uses, the small ee_printf prints what the full formatter
\* would (ee_printf.c:481-578).
SameText == part = "printf" => Printf!SameText

\* A number that is printed reads back as the value that was passed, and fills its field
\* (ee_printf.c:54-142).
NumbersReadBack == part = "printf" => Printf!NumbersReadBack

\* A call takes exactly the arguments of its conversions (ee_printf.c:219-405, 481-578).
TakesAllArguments == part = "printf" => Printf!TakesAllArguments

\* Every test ends with a verdict; none is left to the time limit of the simulation
\* (riscv_test.h:193-217; tb_Verilator.sv:239-271).
TestsReport == part = "test" ~> part = "test" /\ Reported

-----------------------------------------------------------------------------
(* What the run checks, one property for each question.                       *)

\* A conversion prints the value it was passed and takes the arguments that are its own, and
\* both formatters print alike what CoreMark prints (ee_printf.c:54-142, 219-405, 481-578).
PrintsItsArguments == SameText /\ NumbersReadBack /\ TakesAllArguments

\* No reading of the counter and no test goes on for ever (core_portme.c:55-67;
\* riscv_test.h:193-217; tb_Verilator.sv:239-271).
ReadingsAndTestsEnd == ReadingEnds /\ TestsReport
=============================================================================
