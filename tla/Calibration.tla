----------------------------- MODULE Calibration -----------------------------
(***************************************************************************)
(* How main chooses the number of iterations and times the run             *)
(* (core_main.c:274-318): when no number is given it runs ten times as     *)
(* many as before until a second has passed, then as many as take about    *)
(* ten seconds.                                                            *)
(*                                                                         *)
(* Time is counted in ticks.  An iteration takes the same time every time, *)
(* which holds as far as the iterations are identical.                     *)
(***************************************************************************)
EXTENDS Integers

CONSTANTS
  TicksPerSec,    \* EE_TICKS_PER_SEC
  Costs,          \* ticks that an iteration may take
  Given           \* numbers of iterations that may be asked for, 0 for automatic

ASSUME CalibrationAssumption ==
  /\ TicksPerSec \in Nat \ {0}
  /\ Costs \subseteq Nat \ {0}
  /\ Given \subseteq Nat

VARIABLES
  cost, given,          \* the machine, and seed4
  iterations,
  secs_passed,
  total_time,
  phase                 \* "check", "calibrate", "timed", "report"

calibrationVars == <<cost, given, iterations, secs_passed, total_time, phase>>

Phases == {"check", "calibrate", "timed", "report"}

CalibrationInit ==
  /\ cost \in Costs /\ given \in Given
  /\ iterations = given
  /\ secs_passed = 0 /\ total_time = 0
  /\ phase = "check"

time_in_secs(ticks) == ticks \div TicksPerSec

\* The number of iterations is to be found.
Automatic ==
  /\ phase = "check" /\ iterations = 0
  /\ phase' = "calibrate"
  /\ iterations' = 1
  /\ UNCHANGED <<cost, given, secs_passed, total_time>>

\* Mutants: the number does not grow; grows too fast.
more_never(n) == n
more_hundredfold(n) == n * 100

more(n) == n * 10

\* One turn of the loop, with the iterations it runs and times.
Calibrate ==
  /\ phase = "calibrate" /\ secs_passed < 1
  /\ iterations' = more(iterations)
  /\ secs_passed' = time_in_secs(iterations' * cost)
  /\ UNCHANGED <<cost, given, total_time, phase>>

\* Mutant: the quotient is not rounded up.
factor_down(secs) == 10 \div secs

\* How many times longer the run is, from the seconds of the last calibration.
factor(secs) == 1 + (10 \div (IF secs = 0 THEN 1 ELSE secs))

SetIterations ==
  /\ phase = "calibrate" /\ secs_passed >= 1
  /\ phase' = "timed"
  /\ iterations' = iterations * factor(secs_passed)
  /\ UNCHANGED <<cost, given, secs_passed, total_time>>

AsGiven ==
  /\ phase = "check" /\ iterations # 0
  /\ phase' = "timed"
  /\ UNCHANGED <<cost, given, iterations, secs_passed, total_time>>

\* The timed run.
Run ==
  /\ phase = "timed"
  /\ phase' = "report"
  /\ total_time' = iterations * cost
  /\ UNCHANGED <<cost, given, iterations, secs_passed>>

CalibrationNext == Automatic \/ Calibrate \/ SetIterations \/ AsGiven \/ Run

CalibrationSpec == CalibrationInit /\ [][CalibrationNext]_calibrationVars

\* The program runs.
CalibrationFairSpec == CalibrationSpec /\ WF_calibrationVars(CalibrationNext)

-----------------------------------------------------------------------------
(* Properties *)

\* An automatic run takes at least ten seconds, so that its result is valid, whatever
\* the machine (core_main.c:129-131, 288-295; README.md of CoreMark, line 128).
AutomaticRunIsValid ==
  phase = "report" /\ given = 0 => time_in_secs(total_time) >= 10

\* It takes no more than 100 seconds either, unless ten iterations alone do.
AutomaticRunIsShort ==
  phase = "report" /\ given = 0 /\ time_in_secs(10 * cost) <= 100 =>
    time_in_secs(total_time) <= 100

\* A calibration that has begun ends, and the timed run after it (core_main.c:280-295).
CalibrationEnds == phase = "calibrate" ~> phase = "report"
=============================================================================
