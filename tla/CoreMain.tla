------------------------------- MODULE CoreMain -------------------------------
(***************************************************************************)
(* A run of CoreMark on the core, from the build's choice of seeds to the  *)
(* word that ends the simulation (coremark/core_main.c, escute/            *)
(* core_portme.c).  The benchmark validates the core it runs on, so what   *)
(* an algorithm computes is right or wrong, freely chosen.  The timing is  *)
(* module Calibration's, the checksum of the parameters module Crc's.      *)
(***************************************************************************)
EXTENDS Integers, Sequences, FiniteSets

CONSTANTS
  RunFlags,        \* PROFILE_RUN, PERFORMANCE_RUN, VALIDATION_RUN as given, or "none"
  DataSizes,       \* TOTAL_DATA_SIZE as given, 0 when it is not
  sizeof,          \* of the port's types and of a pointer
  TicksPerSec, Costs, Given      \* of the timing

CoreMainAssumption ==
  /\ RunFlags \subseteq {"none", "PROFILE", "PERFORMANCE", "VALIDATION"}
  /\ DataSizes \subseteq Nat

VARIABLES
  stage,                       \* where main is
  flag, data_size,             \* how the program was built
  seeds,                       \* seed1, seed2, seed3
  size, memblock,              \* bytes of an algorithm, and where each starts
  i, call,                     \* iterate's loop, and which of its two list runs is next
  crclist, crcmatrix, crcstate,
  crc,                         \* of all results
  seedcrc, fed,                \* the checksum of the parameters, and how many it covers
  known_id, total_errors,
  TOHOST,                      \* the word the testbench watches
  cost, given, iterations, secs_passed, total_time, phase     \* the timing's

timing  == <<cost, given, iterations, secs_passed, total_time, phase>>
results == <<crclist, crcmatrix, crcstate, crc>>
build   == <<flag, data_size, seeds, size, memblock>>
verdict == <<seedcrc, fed, known_id, total_errors, TOHOST>>
mainVars == <<stage, build, i, call, results, verdict, timing>>

Timer == INSTANCE Calibration
Sum   == INSTANCE Crc WITH Bytes <- {}, Words <- {}, Longs <- {}, MaxBits <- 0,
                           crc <- <<0, 0>>, message <- <<<<>>, <<>>>>

Algorithms == 0 .. 2           \* list, matrix, state: all are run, as seed5 is 0

-----------------------------------------------------------------------------
(* The build: the header of the port is included before the one that gives    *)
(* TOTAL_DATA_SIZE its default, so an undefined size counts as 0 there.       *)

run_of(f, d) ==
  IF f # "none" THEN f
  ELSE CASE d = 1200 -> "PROFILE" [] d = 2000 -> "PERFORMANCE" [] OTHER -> "VALIDATION"

get_seed(run) ==
  CASE run = "VALIDATION"  -> <<13333, 13333, 102>>
    [] run = "PERFORMANCE" -> <<0, 0, 102>>
    [] run = "PROFILE"     -> <<8, 8, 8>>

\* Short forms of the two standard runs.
preset(s) ==
  CASE s = <<0, 0, 0>> -> <<0, 0, 102>>
    [] s = <<1, 0, 0>> -> <<13333, 13333, 102>>
    [] OTHER -> s

TOTAL_DATA_SIZE == IF data_size = 0 THEN 2000 ELSE data_size

Init ==
  /\ flag \in RunFlags /\ data_size \in DataSizes
  /\ seeds = get_seed(run_of(flag, data_size))
  /\ size = 0 /\ memblock = [a \in Algorithms |-> 0]
  /\ i = 0 /\ call = 0
  /\ crclist = "unset" /\ crcmatrix = "unset" /\ crcstate = "unset" /\ crc = "unset"
  /\ seedcrc = 0 /\ fed = 0
  /\ known_id = -1 /\ total_errors = 0 /\ TOHOST = 0
  /\ stage = "setup"
  /\ Timer!CalibrationInit

\* Mutant: every algorithm is given the whole block.
share_whole(total) == total

share(total) == total \div Cardinality(Algorithms)

\* The seeds, and the parts of the block; the three initialisations follow.
Setup ==
  /\ stage = "setup"
  /\ seeds' = preset(seeds)
  /\ size' = share(TOTAL_DATA_SIZE)
  /\ memblock' = [a \in Algorithms |-> size' * a]
  /\ stage' = "time"
  /\ UNCHANGED <<flag, data_size, i, call, results, verdict, timing>>

\* The number of iterations is chosen; the runs this takes leave no result, as iterate
\* clears them when it starts.
ChooseIterations ==
  /\ stage = "time"
  /\ \/ Timer!Automatic \/ Timer!Calibrate \/ Timer!SetIterations \/ Timer!AsGiven
  /\ UNCHANGED <<stage, build, i, call, results, verdict>>

\* iterate starts.
StartRun ==
  /\ stage = "time" /\ phase = "timed"
  /\ i' = 0 /\ call' = 0
  /\ crc' = "right" /\ crclist' = "unset" /\ crcmatrix' = "unset" /\ crcstate' = "unset"
  /\ stage' = "iterate"
  /\ UNCHANGED <<build, verdict, timing>>

Outcome(wrong) == IF wrong THEN "wrong" ELSE "right"

\* One run of the list benchmark, with the algorithms in `wrong` miscomputed by the core.
\* The first results of the matrix and of the state algorithm are kept, and the list's
\* after both runs of the first iteration.
BenchList(wrong) ==
  /\ stage = "iterate" /\ i < iterations
  /\ crcmatrix' = IF crcmatrix = "unset" THEN Outcome("matrix" \in wrong) ELSE crcmatrix
  /\ crcstate'  = IF crcstate = "unset" THEN Outcome("state" \in wrong) ELSE crcstate
  /\ crc' = IF wrong = {} THEN crc ELSE "wrong"
  /\ crclist' = IF call = 1 /\ i = 0 THEN crc' ELSE crclist
  /\ call' = 1 - call
  /\ i' = IF call = 1 THEN i + 1 ELSE i
  /\ UNCHANGED <<stage, build, verdict, timing>>

\* The loop ends and the time is taken.
EndRun ==
  /\ stage = "iterate" /\ i = iterations
  /\ Timer!Run
  /\ stage' = "validate"
  /\ UNCHANGED <<build, i, call, results, verdict>>

\* The seeds and the size are summed up, one after the other.
SumParameter ==
  /\ stage = "validate" /\ fed < 4
  /\ fed' = fed + 1
  /\ seedcrc' = Sum!crc16(Append(seeds, size)[fed'], seedcrc)
  /\ UNCHANGED <<stage, build, i, call, results, known_id, total_errors, TOHOST,
                 timing>>

\* Mutant: the results of the small runs are not known.
known_6k(sum) ==
  CASE sum = 35330 -> 0 [] sum = 31493 -> 1 [] sum = 20143 -> 2 [] OTHER -> -1

\* The parameters whose results are known.
known(sum) ==
  CASE sum = 35330 -> 0 [] sum = 31493 -> 1 [] sum = 20143 -> 2
    [] sum = 59893 -> 3 [] sum = 6386 -> 4 [] OTHER -> -1

\* Mutant: the list's result is not looked at.
errors_two == Cardinality({k \in 1 .. 2 : <<crcmatrix, crcstate>>[k] # "right"})

\* Results that differ from the known ones.
errors == Cardinality({k \in 1 .. 3 : <<crclist, crcmatrix, crcstate>>[k] # "right"})

check_data_types ==
  Cardinality({t \in {"ee_u8", "ee_u16", "ee_s16", "ee_s32", "ee_u32", "ee_ptr_int"} :
    sizeof[t] # CASE t = "ee_u8" -> 1 [] t \in {"ee_u16", "ee_s16"} -> 2
                  [] t \in {"ee_s32", "ee_u32"} -> 4 [] OTHER -> sizeof["int *"]})

Validate ==
  /\ stage = "validate" /\ fed = 4
  /\ known_id' = known(seedcrc)
  /\ total_errors' = (IF known_id' >= 0 THEN errors ELSE -1) + check_data_types
  /\ stage' = "exit"
  /\ UNCHANGED <<build, i, call, results, seedcrc, fed, TOHOST, timing>>

\* After the report, in which a run that was too short is pointed out without being an
\* error, exit_sim writes its code: 1 passes, 2 fails.
Exit ==
  /\ stage = "exit"
  /\ TOHOST' = IF total_errors # 0 THEN 2 ELSE 1
  /\ stage' = "end"
  /\ UNCHANGED <<build, i, call, results, seedcrc, fed, known_id, total_errors, timing>>

\* ... and loops.
exit_sim == stage = "end" /\ UNCHANGED mainVars

Next ==
  \/ Setup \/ ChooseIterations \/ StartRun
  \/ \E wrong \in SUBSET {"list", "matrix", "state"} : BenchList(wrong)
  \/ EndRun \/ SumParameter \/ Validate \/ Exit \/ exit_sim

Spec == Init /\ [][Next]_mainVars

-----------------------------------------------------------------------------
(* Properties *)

\* The parameters each known result belongs to, as listed beside the cases
\* (core_main.c:325-353).
Listed ==
  << <<0, 0, 102, 2000>>, <<13333, 13333, 102, 2000>>, <<8, 8, 8, 400>>,
     <<0, 0, 102, 666>>, <<13333, 13333, 102, 666>> >>

Passed == TOHOST = 1

\* The simulation passes only for parameters with known results, which the checksum
\* tells apart, and only if the core computed the first iteration's results right
\* (core_main.c:326-386, 465-477).
PassIsValidated ==
  Passed =>
    /\ known_id >= 0 /\ Append(seeds, size) = Listed[known_id + 1]
    /\ crclist = "right" /\ crcmatrix = "right" /\ crcstate = "right"

\* A right result of a standard run passes (core_main.c:321-386).
RightPasses ==
  stage = "end" /\ crc = "right" /\ Append(seeds, size) \in {Listed[k] : k \in 1 .. 5} => Passed

\* No algorithm's part of the block overlaps another's or leaves the block
\* (core_main.c:233-251).
OwnParts ==
  stage # "setup" =>
    \A a \in Algorithms :
      /\ memblock[a] + size <= TOTAL_DATA_SIZE
      /\ \A b \in Algorithms \ {a} :
           memblock[a] + size <= memblock[b] \/ memblock[b] + size <= memblock[a]
=============================================================================
