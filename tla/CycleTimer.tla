------------------------------ MODULE CycleTimer ------------------------------
(***************************************************************************)
(* Time on EsCute-RV: the counter mcycle (CSR.sv), of which an instruction *)
(* reads one half at a time, and the timer of CoreMark's port              *)
(* (core_portme.c), which reads the halves until the upper one has not     *)
(* changed.                                                                *)
(*                                                                         *)
(* Lo and Hi are the numbers of values of the halves, 2^32 both.  Every    *)
(* instruction takes from one to MaxStep cycles.                           *)
(***************************************************************************)
EXTENDS Integers

CONSTANTS
  Lo, Hi,
  MaxStep,       \* the longest instruction of the reading loop, in cycles
  MaxElapsed,    \* bound: cycles after which the workload ends
  BootValues     \* what boot code may write to a half of the counter

ASSUME TimerAssumption ==
  /\ Lo \in Nat \ {0} /\ Hi \in Nat \ {0} /\ MaxStep \in Nat \ {0}
  /\ 2 * MaxStep <= Lo * (Hi - 1)    \* two instructions do not go round the counter
  /\ MaxElapsed \in Nat /\ MaxElapsed < Lo * Hi
  /\ BootValues \subseteq Nat

VARIABLES
  mcycle,               \* the 64-bit counter
  at,                   \* the next instruction of the program
  reading,              \* which of the two times is being read
  hi1, lo, hi2,         \* registers of read_cycle64
  start_time_val,
  stop_time_val,
  at_lo,                \* history: the counter when lo was read
  since,                \* history: cycles since lo was read for start_time_val
  elapsed               \* history: the same, when lo was read for stop_time_val

timerVars ==
  <<mcycle, at, reading, hi1, lo, hi2, start_time_val, stop_time_val, at_lo, since,
    elapsed>>

-----------------------------------------------------------------------------
(* The counter. *)

\* The register after d clock edges without a write.
counted(c, d) == (c + d) % (Lo * Hi)

\* A write to a half replaces it; that clock edge does not count.
low_written(c, v) == (c \div Lo) * Lo + (v % Lo)
high_written(c, v) == (v % Hi) * Lo + (c % Lo)

csr_cycle == mcycle % Lo
csr_cycleh == mcycle \div Lo

TimerInit ==
  /\ mcycle = 0
  /\ at = "boot" /\ reading = "start"
  /\ hi1 = 0 /\ lo = 0 /\ hi2 = 0
  /\ start_time_val = 0 /\ stop_time_val = 0
  /\ at_lo = 0 /\ since = 0 /\ elapsed = 0

\* An instruction that takes d cycles.
Passes(d) ==
  /\ mcycle' = counted(mcycle, d)
  /\ since' = IF at = "lo" /\ reading = "start" THEN d
              ELSE IF at \in {"boot", "hi1"} /\ reading = "start" THEN 0
              ELSE since + d

BootWrite(v) ==
  /\ at = "boot"
  /\ \/ mcycle' = low_written(mcycle, v)
     \/ mcycle' = high_written(mcycle, v)
  /\ UNCHANGED <<at, reading, hi1, lo, hi2, start_time_val, stop_time_val, at_lo, since, elapsed>>

\* Boot code runs until start_time is called.
StartTime(d) ==
  /\ at = "boot" /\ at' \in {"boot", "hi1"}
  /\ Passes(d)
  /\ UNCHANGED <<reading, hi1, lo, hi2, start_time_val, stop_time_val, at_lo, elapsed>>

ReadHi1(d) ==
  /\ at = "hi1" /\ at' = "lo"
  /\ hi1' = csr_cycleh
  /\ Passes(d)
  /\ UNCHANGED <<reading, lo, hi2, start_time_val, stop_time_val, at_lo, elapsed>>

ReadLo(d) ==
  /\ at = "lo" /\ at' = "hi2"
  /\ lo' = csr_cycle
  /\ at_lo' = mcycle
  /\ elapsed' = IF reading = "stop" THEN since ELSE 0
  /\ Passes(d)
  /\ UNCHANGED <<reading, hi1, hi2, start_time_val, stop_time_val>>

ReadHi2(d) ==
  /\ at = "hi2" /\ at' = "check"
  /\ hi2' = csr_cycleh
  /\ Passes(d)
  /\ UNCHANGED <<reading, hi1, lo, start_time_val, stop_time_val, at_lo, elapsed>>

\* Mutants: the upper halves are not compared; compared the wrong way round.
retry_never == FALSE

retry_inverted == hi1 = hi2

\* Once more if the upper half has changed in between.
retry == hi1 # hi2

Retry(d) ==
  /\ at = "check" /\ at' = "hi1"
  /\ retry
  /\ Passes(d)
  /\ UNCHANGED <<reading, hi1, lo, hi2, start_time_val, stop_time_val, at_lo, elapsed>>

\* GETMYTIME stores the two halves as one number.
read_cycle64 == hi1 * Lo + lo

StartRead(d) ==
  /\ at = "check" /\ reading = "start" /\ at' = "run"
  /\ ~retry
  /\ start_time_val' = read_cycle64
  /\ Passes(d)
  /\ UNCHANGED <<reading, hi1, lo, hi2, stop_time_val, at_lo, elapsed>>

\* The workload, until stop_time is called.
Work(d) ==
  /\ at = "run" /\ since < MaxElapsed
  /\ Passes(d)
  /\ UNCHANGED <<at, reading, hi1, lo, hi2, start_time_val, stop_time_val, at_lo, elapsed>>

StopTime(d) ==
  /\ at = "run" /\ at' = "hi1"
  /\ reading' = "stop"
  /\ Passes(d)
  /\ UNCHANGED <<hi1, lo, hi2, start_time_val, stop_time_val, at_lo, elapsed>>

StopRead(d) ==
  /\ at = "check" /\ reading = "stop" /\ at' = "done"
  /\ ~retry
  /\ stop_time_val' = read_cycle64
  /\ mcycle' = counted(mcycle, d)
  /\ UNCHANGED <<reading, hi1, lo, hi2, start_time_val, at_lo, since, elapsed>>

TimerNext ==
  \/ \E v \in BootValues : BootWrite(v)
  \/ \E d \in 1 .. MaxStep :
       \/ StartTime(d) \/ ReadHi1(d) \/ ReadLo(d) \/ ReadHi2(d) \/ Retry(d)
       \/ StartRead(d) \/ Work(d) \/ StopTime(d) \/ StopRead(d)

TimerSpec == TimerInit /\ [][TimerNext]_timerVars

\* An instruction of a reading.
Reads ==
  \E d \in 1 .. MaxStep :
    \/ ReadHi1(d) \/ ReadLo(d) \/ ReadHi2(d) \/ Retry(d) \/ StartRead(d)
    \/ StopTime(d) \/ StopRead(d)

\* The program keeps executing, and its workload ends.
TimerFairSpec == TimerSpec /\ WF_timerVars(Reads)

-----------------------------------------------------------------------------

\* Mutant: ticks of 32 bits.
get_time_32 == (stop_time_val - start_time_val) % Lo

\* MYTIMEDIFF, as unsigned numbers of 64 bits
get_time == (stop_time_val - start_time_val) % (Lo * Hi)

\* The two halves belong together: the time read is the counter at one instant
\* between the call and its return, though each instruction reads one half and the
\* lower one may overflow in between (core_portme.c:55-67).
HalvesBelongTogether == at = "check" /\ ~retry => read_cycle64 = at_lo

\* The elapsed time is the number of clock edges between the two instants, also when
\* the counter overflows as a whole in between (core_portme.c:91, 130-133).
ElapsedIsExact == at = "done" /\ elapsed < Lo * Hi => get_time = elapsed

\* Both: the time that is reported is a time that passed (core_portme.c:55-67, 91, 130-133).
TimeIsMeasured == HalvesBelongTogether /\ ElapsedIsExact

Begun   == at = "hi1"
Settled == at \in {"run", "done"}

\* The reading loop ends: a lower half lasts longer than two attempts.
ReadingEnds == Begun ~> Settled
=============================================================================
