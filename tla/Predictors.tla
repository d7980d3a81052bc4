------------------------------ MODULE Predictors ------------------------------
(***************************************************************************)
(* The branch predictors of EsCute-RV (BPU.sv and its three predictors),   *)
(* with the part of the pipeline that feeds them: a branch is predicted in *)
(* ID with the tables as they are, carries the history it was predicted    *)
(* with to EX, and trains the tables there.  The history only holds        *)
(* outcomes that EX has resolved.                                          *)
(*                                                                         *)
(* An instruction is a record [pc, kind, backward]; pc counts words.  What *)
(* stalls ID, what the outcomes are and what else redirects the fetch is   *)
(* left open.                                                              *)
(***************************************************************************)
EXTENDS Integers

CONSTANTS
  BPU_TYPES,      \* the predictors that a core may be built with
  INDEX_BITS,     \* 8 in CPU_TOP
  META_BITS,      \* 2 in CPU_TOP
  Code            \* the instructions that may be fetched

ASSUME PredictorAssumption ==
  /\ BPU_TYPES \subseteq {"NONE", "STATIC", "DYNAMIC_1bit", "GSHARE"}
  /\ INDEX_BITS \in 1 .. 31 /\ META_BITS \in 1 .. INDEX_BITS
  /\ Code \subseteq [pc : Nat, kind : {"branch", "JAL", "JALR", "other"}, backward : BOOLEAN]

VARIABLES
  BPU_TYPE,  \* the predictor of this core: a parameter of CPU_TOP, never changed
  table,     \* bht_table (bits) or pht_table (2-bit counters)
  ghr,       \* ghr_q: the last META_BITS outcomes, the newest in bit 0
  id,        \* the instruction in ID, or Bubble
  ex,        \* the instruction in EX with its prediction, or Bubble
  looked_up, \* history: the entry the branch in EX was predicted with
  streak     \* history: how often the last branch that trained did the same in a row

predictorVars == <<BPU_TYPE, table, ghr, id, ex, looked_up, streak>>

NoInsn == [kind |-> "none"]

Index == 0 .. 2 ^ INDEX_BITS - 1

-----------------------------------------------------------------------------

xor(a, b) ==
  LET bit(n, i) == (n \div 2 ^ i) % 2
      f[i \in 0 .. INDEX_BITS] ==
        IF i = 0 THEN 0
        ELSE f[i - 1] + (IF bit(a, i - 1) # bit(b, i - 1) THEN 2 ^ (i - 1) ELSE 0)
  IN  f[INDEX_BITS]

\* The entry of a branch: gshare mixes the history into the address.
gshare_index(pc, history) == xor(pc % 2 ^ INDEX_BITS, history)

\* Mutant: the counter goes round.
next_counter_wrapping(counter, taken) == (IF taken THEN counter + 1 ELSE counter + 3) % 4

next_counter(counter, taken) ==
  CASE taken /\ counter # 3 -> counter + 1
    [] ~taken /\ counter # 0 -> counter - 1
    [] OTHER -> counter

entry_of(pc, history) ==
  IF BPU_TYPE = "GSHARE" THEN gshare_index(pc, history) ELSE pc % 2 ^ INDEX_BITS

predict_meta == IF BPU_TYPE = "GSHARE" THEN ghr ELSE 0

predict_branch(i) ==
  CASE BPU_TYPE = "NONE" -> FALSE
    [] BPU_TYPE = "STATIC" -> i.backward
    [] BPU_TYPE = "DYNAMIC_1bit" -> table[entry_of(i.pc, 0)] = 1
    [] BPU_TYPE = "GSHARE" -> table[entry_of(i.pc, ghr)] >= 2

predict_taken(i) ==
  CASE i.kind = "JAL" -> BPU_TYPE # "NONE"
    [] i.kind = "branch" -> predict_branch(i)
    [] OTHER -> FALSE

trained(counter, taken) ==
  IF BPU_TYPE = "GSHARE" THEN next_counter(counter, taken) ELSE IF taken THEN 1 ELSE 0

-----------------------------------------------------------------------------

BpuInit ==
  /\ BPU_TYPE \in BPU_TYPES
  /\ table = [e \in Index |-> IF BPU_TYPE = "GSHARE" THEN 1 ELSE 0]
  /\ ghr = 0
  /\ id = NoInsn
  /\ ex = NoInsn
  /\ looked_up = 0
  /\ streak = [pc |-> 0, taken |-> FALSE, n |-> 0]

\* Mutant: trains the entry of the history as it is now.
update_idx_current_history == entry_of(ex.i.pc, ghr)

\* The branch in EX trains the entry that its own history leads to.
update_idx == entry_of(ex.i.pc, ex.meta)

Learns == BPU_TYPE \in {"DYNAMIC_1bit", "GSHARE"}

\* How many equal outcomes teach the predictor: gshare needs META_BITS outcomes until
\* the history repeats, one more because the branch in ID does not see the one in
\* EX, and two until a counter has changed its mind.
LearnWindow == IF BPU_TYPE = "GSHARE" THEN META_BITS + 3 ELSE 1

\* Train when a branch leaves EX without an exception.
Train(taken) ==
  /\ table' = IF Learns THEN [table EXCEPT ![update_idx] = trained(@, taken)] ELSE table
  /\ ghr' = IF BPU_TYPE = "GSHARE" THEN (2 * ghr + (IF taken THEN 1 ELSE 0)) % 2 ^ META_BITS
                                   ELSE ghr
  /\ streak' = IF streak.pc = ex.i.pc /\ streak.taken = taken
               THEN [streak EXCEPT !.n = IF @ < LearnWindow THEN @ + 1 ELSE @]
               ELSE [pc |-> ex.i.pc, taken |-> taken, n |-> 1]

Untrained == UNCHANGED <<table, ghr, streak>>

\* The instruction in ID moves to EX with its prediction and the history of this cycle.
Issue ==
  /\ ex' = IF id = NoInsn THEN NoInsn
           ELSE [kind |-> id.kind, i |-> id, pred |-> predict_taken(id), meta |-> predict_meta]
  /\ looked_up' = IF id = NoInsn THEN 0 ELSE entry_of(id.pc, ghr)

FlushStages == id' = NoInsn /\ ex' = NoInsn /\ looked_up' = 0

Stall == id' = id /\ ex' = NoInsn /\ looked_up' = 0

\* A predicted-taken instruction empties IF; otherwise the next one arrives.
Fetch(next) == id' = IF id # NoInsn /\ predict_taken(id) THEN NoInsn ELSE next

\* The outcome of the instruction in EX.
Outcome(taken) ==
  CASE ex.kind = "branch" -> taken \in BOOLEAN
    [] ex.kind \in {"JAL", "JALR"} -> taken
    [] OTHER -> ~taken

\* Mispredicted, with no exception: EX trains and redirects.
Mispredict(taken) ==
  /\ ex # NoInsn /\ Outcome(taken) /\ ex.pred # taken
  /\ IF ex.kind = "branch" THEN Train(taken) ELSE Untrained
  /\ FlushStages

\* An exception in EX, or an xRET: redirects, and a branch does not train.
Except == ex # NoInsn /\ Untrained /\ FlushStages

\* No redirect: a correctly predicted instruction, or a bubble, leaves EX.
Leave(taken) ==
  IF ex = NoInsn THEN ~taken /\ Untrained
  ELSE /\ Outcome(taken) /\ ex.pred = taken
       /\ IF ex.kind = "branch" THEN Train(taken) ELSE Untrained

Flow(taken, next) == Leave(taken) /\ Issue /\ Fetch(next)

Hold(taken) == Leave(taken) /\ id # NoInsn /\ Stall

BpuNext ==
  /\ \/ \E taken \in BOOLEAN : Mispredict(taken)
     \/ Except
     \/ \E taken \in BOOLEAN, next \in Code : Flow(taken, next)
     \/ \E taken \in BOOLEAN : Hold(taken)
  /\ UNCHANGED BPU_TYPE

BpuSpec == BpuInit /\ [][BpuNext]_predictorVars

-----------------------------------------------------------------------------

\* A branch trains the entry it was predicted with, though branches before it have
\* changed the history since (Dynamic_Gshare_Predictor.sv:64-66).
TrainsPredictingEntry == ex.kind = "branch" /\ Learns => update_idx = looked_up

\* A branch that has done the same LearnWindow times in a row, whatever the tables
\* held before and whatever was flushed in between, is predicted to do so again
\* (Dynamic_Gshare_Predictor.sv:34-66, 94-98; Dynamic_1bit_Predictor.sv:32-65).
LearnsConstantBranch ==
  Learns /\ streak.n = LearnWindow =>
    \A i \in Code : i.kind = "branch" /\ i.pc = streak.pc => predict_taken(i) = streak.taken

\* A prediction learns from the branch it was made for: the entry that predicted is the one
\* that is trained, and a branch that keeps doing the same is soon predicted to
\* (Dynamic_Gshare_Predictor.sv:34-66, Dynamic_1bit_Predictor.sv:32-65).
PredictorsLearn == TrainsPredictingEntry /\ LearnsConstantBranch
=============================================================================
