------------------------------ MODULE MCCoreMark ------------------------------
(***************************************************************************)
(* The parts of CoreMark, each on its own: one part is at work, the        *)
(* registers hold its state, and the others are at rest.                   *)
(***************************************************************************)
EXTENDS Calibration, ListSort

VARIABLES
  part,        \* the part at work
  r1, r2, r3, r4, r5, r6, r7, r8, r9, r10, r11, r12, r13, r14, r15, r16, r17, r18, r19,
  r20, r21, r22, r23                  \* its state, unless it is the calibration or the sort

registers ==
  <<r1, r2, r3, r4, r5, r6, r7, r8, r9, r10, r11, r12, r13, r14, r15, r16, r17, r18, r19,
    r20, r21, r22, r23>>
coreMarkVars == <<part, calibrationVars, sortVars, registers>>

-----------------------------------------------------------------------------

\* Machines of every speed, with a second of 25 ticks.
McCosts == 1 .. 300

-----------------------------------------------------------------------------
(* The sort, on every list of up to six keys.                                 *)

McLengths == 1 .. 6

-----------------------------------------------------------------------------
(* The list benchmark, called with 1 and -1 (core_main.c:90, 92).             *)

List == INSTANCE CoreList
  WITH Blksizes <- {200, 240, 400}, PtrBytes <- {4, 8}, Seeds <- {0, 8, 13333},
       FindNums <- {0, 1, 5}, Calls <- {1, 0 - 1}, Results <- {0, 65}, MaxCalls <- 3,
       blksize <- r1, ptr <- r2, seed <- r3, find_num <- r4, next <- r5, info <- r6,
       data <- r7, list <- r8, memblock <- r9, res_list <- r10, pc <- r11, i <- r12,
       finder <- r13, finder_idx <- r14, want <- r15, retval <- r16, remover <- r17,
       calls <- r18, original <- r19, lastSearch <- r20

-----------------------------------------------------------------------------
(* The state machine, over blocks as core_init_state leaves them and over any *)
(* text of five bytes that begins with a digit or a sign and goes on with     *)
(* digits, signs, dots and exponent marks, before the two zeros that end it.  *)

Alphabet == {50, 45, 46, 101}
McTexts == {t \o <<0, 0>> : t \in {u \in [1 .. 5 -> Alphabet] : u[1] \in {50, 45}}}

State == INSTANCE CoreState
  WITH Sizes <- {12, 13, 19, 30}, Fill <- {0, 8, 18}, Texts <- McTexts,
       Masks <- {8, 21}, Steps <- {3, 6}, MaxCalls <- 2,
       block <- r1, seed1 <- r2, seed2 <- r3, pc <- r4, step <- r5, p <- r6, state <- r7,
       final_counts <- r8, track_counts <- r9, calls <- r10, original <- r11,
       token <- r12, ended <- r13

-----------------------------------------------------------------------------
(* The matrix benchmark, at any alignment of its block.                       *)

Matrix == INSTANCE CoreMatrix
  WITH Blksizes <- {30, 100, 666}, Addresses <- 1000 .. 1003,
       Seeds <- {0, 524296, 873804821}, Vals <- {34, 85, 255}, MaxCalls <- 2,
       blksize <- r1, memblk <- r2, seed <- r3, mat <- r4, mem <- r5, pc <- r6,
       val <- r7, sums <- r8, calls <- r9, initial <- r10, results <- r11

-----------------------------------------------------------------------------
(* The checksum, of two messages of up to 32 bits.                            *)

Sum == INSTANCE Crc
  WITH Bytes <- {0, 52, 129}, Words <- {0, 13333, 32768},
       Longs <- {<<0, 0>>, <<13333, 32768>>}, MaxBits <- 32,
       crc <- r1, message <- r2

-----------------------------------------------------------------------------
(* The builds of the port, on an RV32 core.                                   *)

McRunFlags == {"none", "PROFILE", "PERFORMANCE", "VALIDATION"}
McSizeof ==
  [t \in {"ee_u8", "ee_u16", "ee_s16", "ee_s32", "ee_u32", "ee_ptr_int", "int *"} |->
    CASE t = "ee_u8" -> 1 [] t \in {"ee_u16", "ee_s16"} -> 2 [] OTHER -> 4]

Main == INSTANCE CoreMain
  WITH RunFlags <- McRunFlags, DataSizes <- {0, 1200, 2000, 6000}, sizeof <- McSizeof,
       TicksPerSec <- 2, Costs <- {1, 3, 25}, Given <- {0, 1, 2},
       stage <- r1, flag <- r2, data_size <- r3, seeds <- r4, size <- r5, memblock <- r6,
       i <- r7, call <- r8, crclist <- r9, crcmatrix <- r10, crcstate <- r11, crc <- r12,
       seedcrc <- r13, fed <- r14, known_id <- r15, total_errors <- r16, TOHOST <- r17,
       cost <- r18, given <- r19, iterations <- r20, secs_passed <- r21,
       total_time <- r22, phase <- r23

ASSUME Main!CoreMainAssumption

-----------------------------------------------------------------------------

AtRest21 == r21 = 0 /\ r22 = 0 /\ r23 = 0
AtRest14 == r14 = 0 /\ r15 = 0 /\ r16 = 0 /\ r17 = 0 /\ r18 = 0 /\ r19 = 0 /\ r20 = 0 /\ AtRest21
AtRest12 == r12 = 0 /\ r13 = 0 /\ AtRest14
AtRest3  == r3 = 0 /\ r4 = 0 /\ r5 = 0 /\ r6 = 0 /\ r7 = 0 /\ r8 = 0 /\ r9 = 0 /\ r10 = 0
              /\ r11 = 0 /\ AtRest12

\* The calibration and the sort at rest.
Uncalibrated == CalibrationInit /\ cost = 1 /\ given = 0
Unsorted == len = 1 /\ key = <<1>> /\ SortInit

CoreMarkInit ==
  \/ part = "calibration" /\ CalibrationInit /\ Unsorted /\ r1 = 0 /\ r2 = 0 /\ AtRest3
  \/ part = "sort" /\ SortInit /\ Uncalibrated /\ r1 = 0 /\ r2 = 0 /\ AtRest3
  \/ /\ Uncalibrated /\ Unsorted
     /\ \/ part = "list"   /\ List!Init   /\ AtRest21
        \/ part = "state"  /\ State!Init  /\ AtRest14
        \/ part = "matrix" /\ Matrix!Init /\ AtRest12
        \/ part = "crc"    /\ Sum!Init    /\ AtRest3
        \/ part = "main"   /\ Main!Init

Still21 == UNCHANGED <<r21, r22, r23>>
Still14 == Still21 /\ UNCHANGED <<r14, r15, r16, r17, r18, r19, r20>>
Still12 == Still14 /\ UNCHANGED <<r12, r13>>
Still3  == Still12 /\ UNCHANGED <<r3, r4, r5, r6, r7, r8, r9, r10, r11>>

CoreMarkNext ==
  /\ UNCHANGED part
  /\ \/ part = "calibration" /\ CalibrationNext /\ UNCHANGED <<sortVars, registers>>
     \/ part = "sort" /\ SortNext /\ UNCHANGED <<calibrationVars, registers>>
     \/ /\ UNCHANGED <<calibrationVars, sortVars>>
        /\ \/ part = "list"   /\ List!Next   /\ Still21
           \/ part = "state"  /\ State!Next  /\ Still14
           \/ part = "matrix" /\ Matrix!Next /\ Still12
           \/ part = "crc"    /\ Sum!Next    /\ Still3
           \/ part = "main"   /\ Main!Next

\* What has been called runs until it returns; the state benchmark need not be called.
Fairness ==
  /\ WF_coreMarkVars(part = "calibration" /\ CoreMarkNext)
  /\ WF_coreMarkVars(part = "sort" /\ CoreMarkNext)
  /\ WF_coreMarkVars(part = "state" /\ State!Scan /\ Still14 /\ UNCHANGED <<part, calibrationVars, sortVars>>)

CoreMarkSpec == CoreMarkInit /\ [][CoreMarkNext]_coreMarkVars /\ Fairness

-----------------------------------------------------------------------------
(* The properties of the parts; those of the calibration and of the sort are  *)
(* named by their own modules.                                                *)

\* The list stays one chain of all its nodes, but for one that is removed
\* (core_list_join.c:178-231, 369-371).
OneChain == part = "list" => List!OneChain

\* Headers and items stay inside the block and apart (core_list_join.c:254-260, 345-348).
InBlock == part = "list" => List!InBlock

\* A call leaves the list as it found it, cached results gone
\* (core_list_join.c:156, 222-223).
ListRestored == part = "list" => List!ListRestored

\* The scan never reads behind the block (core_state.c:66, 150).
ScanStaysInBlock == part = "state" => State!ScanStaysInBlock

\* The second pass undoes what the first corrupted (core_state.c:99).
BlockRestored == part = "state" => State!BlockRestored

\* A token is what its text says (core_state.c:34-35, 208-213).
ClassifiesTokens == part = "state" => State!ClassifiesTokens

\* Every scan ends (core_state.c:66-69, 86-89).
ScanEnds == part = "state" /\ State!Scanning ~> part = "state" /\ ~State!Scanning

\* A test leaves A as it found it and never changes B (core_matrix.c:112, 127).
OperandsKept == part = "matrix" => Matrix!OperandsKept

\* The three matrices stay inside the block (core_matrix.c:30, 191-198, 217).
MatricesInBlock == part = "matrix" => Matrix!MatricesInBlock

\* The checksum is the remainder of the message by its polynomial
\* (core_util.c:160-207).
IsRemainder == part = "crc" => Sum!IsRemainder

\* Messages that differ within 16 bits have different checksums (core_main.c:354-385).
DetectsBurst == part = "crc" => Sum!DetectsBurst

\* Only known parameters and right first results pass (core_main.c:326-386, 465-477).
PassIsValidated == part = "main" => Main!PassIsValidated

\* A right result of a standard run passes (core_main.c:321-386).
RightPasses == part = "main" => Main!RightPasses

\* The parts of the block do not overlap (core_main.c:233-251).
OwnParts == part = "main" => Main!OwnParts

-----------------------------------------------------------------------------
(* What the run checks, one property for each question.                       *)

\* The parts of the benchmark share one block without spoiling each other's data or their
\* own: the list stays one chain, matrices and text stay in their place, and every call hands
\* its data back as it found it (core_main.c:233-251, core_list_join.c:130-231,
\* core_state.c:66-99, core_matrix.c:112-127).
DataIsKept ==
  /\ OwnParts
  /\ OneChain /\ InBlock /\ ListRestored
  /\ ScanStaysInBlock /\ BlockRestored
  /\ OperandsKept /\ MatricesInBlock

\* What the parts compute is what they are named for: the class of every token, the remainder
\* of every message, a calibrated run that is not needlessly long, and a verdict that accepts
\* right first results only (core_state.c:194-330, core_util.c:160-207, core_main.c:280-386).
ResultsAreRight ==
  /\ ClassifiesTokens
  /\ IsRemainder /\ DetectsBurst
  /\ AutomaticRunIsShort
  /\ PassIsValidated /\ RightPasses

\* The same call returns the same, however many calls of whatever kind came between: an
\* iteration must compute what the one before it computed (core_list_join.c:395,
\* core_matrix.c:114-117, 302-314).
SameAgain ==
  [][/\ part = "list" => List!SameSearch
     /\ part = "matrix" => Matrix!SameSums]_coreMarkVars

\* The calibration, the sort and every scan end, on every machine and for all data
\* (core_main.c:284-312, core_list_join.c:499-595, core_state.c:66-89).
PartsEnd == CalibrationEnds /\ (part = "sort" ~> Returned) /\ ScanEnds
=============================================================================
