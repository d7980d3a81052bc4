----------------------------- MODULE PipelineProofs -----------------------------
(***************************************************************************)
(* Theorems about the pipeline, for every program, every boot state and    *)
(* every width: what its stages hold never overlaps where it must not.     *)
(*                                                                         *)
(* The inductive invariant is IInv.  Its core is InFlightDiscipline: which *)
(* stages may be occupied together.  It needs the control fields typed, a  *)
(* pending landing pad to keep EX empty, and pending to imply enabled.     *)
(* The data fields have an inductive invariant of their own, DInv.         *)
(***************************************************************************)
EXTENDS Pipeline, CsrFileProofs

IInv ==
  /\ ControlTypeOK
  /\ CsrOK(csr)
  /\ ElpOnlyWhereEnabled
  /\ InFlightDiscipline
  /\ NothingRunsBeforeThePad

USE DEF Shadow

-----------------------------------------------------------------------------
(* The wires. *)

\* A redirect comes from an instruction in EX.
LEMMA RedirectFromEX == redirect_from_ex_stage => idex.valid
  BY DEF redirect_from_ex_stage, normal_control_mispredict_EX, exception_valid_EX, xret_EX

\* While a multiplication is under way the front end waits.
LEMMA MulHolds == (opEX = "MUL" \/ mul_busy) => keep_PC
<1>1. opEX = "MUL" \/ mul_busy => mul_in_flight # {}
  BY DEF mul_in_flight, mul_busy
<1> QED
  BY <1>1 DEF keep_PC, hazard, any_hazard, mul_commit_serialize_hazard

\* While a shadow-stack access is in EX, MEM or WB the front end waits.
LEMMA ShadowHolds == shadow_serialize => keep_PC
  BY DEF keep_PC, hazard, any_hazard

\* The exception port is valid exactly when an exception is.
LEMMA ExceptionPort ==
  /\ exception_valid => exception.valid
  /\ ~exception_valid => ~exception.valid
  BY DEF exception, exception_valid, exception_EX, exception_ID, Exc

\* What the pipeline presents to the CSR unit.
LEMMA CsrPorts == Ports(exception, xret, ssp_update, elp_update, csr_write)
<1>1. elp_update.valid => elp_update.expected \in BOOLEAN
  BY DEF elp_update, elp_set_EX
<1>2. csr_write.valid => /\ csr_write.name \in CsrName
                         /\ csr_write.op \in {"RW", "RS", "RC"}
                         /\ csr_write.operand \in SUBSET Bit
  <2>1. SUFFICES ASSUME csr_write.valid
                 PROVE  /\ csr_write.name \in CsrName
                        /\ csr_write.op \in {"RW", "RS", "RC"}
                        /\ csr_write.operand \in SUBSET Bit
    OBVIOUS
  <2>2. idex.valid /\ csr_write_intent(idex.instr) /\ idex.instr.csr \in CsrName
    BY <2>1 DEF csr_write
  <2>3. csr_op(idex.instr) \in {"RW", "RS", "RC"}
    BY <2>2 DEF csr_op, csr_write_intent, CsrOps, CsrRegOps, CsrImmOps
  <2> QED
    BY <2>2, <2>3, BitsType DEF csr_write
<1> QED
  BY <1>1, <1>2 DEF Ports

-----------------------------------------------------------------------------
(* The front end. *)

\* Every clock edge moves the back end.
LEMMA BackEndMoves == Next => BackEnd
  BY DEF Next, Trap, XReturn, Recover, Stall, PredictedFetch, SequentialFetch

\* Either a bubble enters EX, and IF/ID is emptied or kept, or the instruction
\* in ID is issued because nothing redirects or holds the front end.
LEMMA FrontEndMoves ==
  Next => \/ idex' = IDEXBubble /\ (ifid' = IFIDBubble \/ ifid' = ifid)
          \/ /\ ~take_branch_NextPC /\ ~keep_PC
             /\ \/ idex' = Issued(FALSE) /\ ifid' = Fetched
                \/ /\ idex' = Issued(TRUE) /\ ifid' = IFIDBubble
                   /\ ifid.instr.op \in BranchOps \cup {"JAL"}
  BY DEF Next, Trap, XReturn, Recover, Stall, PredictedFetch, SequentialFetch,
         Redirect, may_predict

\* A redirect from EX, or a wait, lets nothing enter EX.
LEMMA EXEmptied ==
  Next /\ (redirect_from_ex_stage \/ keep_PC) => idex' = IDEXBubble
<1>1. redirect_from_ex_stage => take_branch_NextPC
  BY DEF redirect_from_ex_stage, take_branch_NextPC, exception_valid
<1> QED
  BY <1>1, FrontEndMoves

LEMMA BubbleFacts ==
  /\ ~IDEXBubble.valid /\ ~IDEXBubble.pred /\ IDEXBubble.instr = Zero
  /\ ~IFIDBubble.valid /\ ~IFIDBubble.fault /\ IFIDBubble.instr = Zero
  /\ ~EXMEMBubble.valid /\ ~EXMEMBubble.rf_we /\ ~EXMEMBubble.dram_we
  /\ EXMEMBubble.sl = "NOP"
  /\ ~MEMWBBubble.valid /\ ~MEMWBBubble.rf_we /\ MEMWBBubble.sl = "NOP"
  BY DEF IDEXBubble, IFIDBubble, EXMEMBubble, InertEXMEM, MEMWBBubble

\* The all-zero instruction of an empty stage has no effect.
LEMMA ZeroInert ==
  ~rf_we(Zero) /\ ~dram_we(Zero) /\ sl_type(Zero) = "NOP" /\ Zero.op = "ZERO"
  BY DEF rf_we, dram_we, sl_type, Zero, AluOps, JumpOps, CsrOps, CsrRegOps, CsrImmOps, MemOps

LEMMA EffectiveAccess ==
  /\ sl_type_effective_EX \in SlType
  /\ sl_type_effective_EX \in Shadow => shadow_mem_active_EX
  /\ sl_type_effective_EX # "NOP" => opEX \in MemOps \cup Shadow
  BY DEF sl_type_effective_EX, sl_type, SlType, MemOps, opEX

-----------------------------------------------------------------------------
(* Every conjunct of the invariant is preserved. *)

LEMMA InitIInv == Init => IInv
<1> SUFFICES ASSUME Init PROVE IInv
  OBVIOUS
<1>1. PICK b \in Boots : csr = b.csr /\ exmem \in {EXMEMBubble, BootMret}
  BY DEF Init
<1>2. CsrOK(csr) /\ ~csr.elp
  BY <1>1, BootsAssumption DEF CsrOK
<1>3. /\ exmem.valid \in BOOLEAN /\ exmem.rf_we = FALSE /\ exmem.dram_we = FALSE
      /\ exmem.sl = "NOP"
  <2>1. exmem \in {InertEXMEM(v) : v \in BOOLEAN}
    BY <1>1 DEF EXMEMBubble, BootMret
  <2> QED
    BY <2>1 DEF InertEXMEM
<1>4. /\ ifid = IFIDBubble /\ idex = IDEXBubble /\ memwb = MEMWBBubble
      /\ \A s \in 1 .. 4 : mul[s].valid = FALSE
  BY DEF Init, MulIdle
<1>5. ~mul_busy
  BY <1>4 DEF mul_busy, mul_stage_busy
<1>6. ControlTypeOK
  <2>1. {ifid.valid, ifid.fault, idex.valid, idex.pred} \subseteq BOOLEAN
    BY <1>4 DEF IFIDBubble, IDEXBubble
  <2>2. {exmem.valid, exmem.rf_we, exmem.dram_we} \subseteq BOOLEAN
    BY <1>3
  <2>3. {memwb.valid, memwb.rf_we} \subseteq BOOLEAN
    BY <1>4 DEF MEMWBBubble
  <2> QED
    BY <1>2, <1>3, <1>4, <2>1, <2>2, <2>3, BubbleFacts DEF ControlTypeOK, SlType, CsrOK
<1>7. InFlightDiscipline
  BY <1>3, <1>4, <1>5, BubbleFacts, ZeroInert
     DEF InFlightDiscipline, BubblesInert, MulAlone, ShadowAlone, JumpNeverPredicted, opEX
<1> QED
  BY <1>2, <1>4, <1>6, <1>7, BubbleFacts
     DEF IInv, ElpOnlyWhereEnabled, NothingRunsBeforeThePad

LEMMA NextCsrOK == IInv /\ Next => CsrOK(csr') /\ ElpOnlyWhereEnabled'
<1> SUFFICES ASSUME IInv, Next PROVE CsrOK(csr') /\ ElpOnlyWhereEnabled'
  OBVIOUS
<1>1. csr' = CsrNext(csr, exception, xret, ssp_update, elp_update, csr_write)
  BY BackEndMoves DEF BackEnd, StepCsr
<1>2. CsrOK(csr) /\ ElpEnabled(csr)
  BY DEF IInv, ElpEnabled, ElpOnlyWhereEnabled
<1>3. csr.elp => ~csr_write.valid
  BY DEF IInv, NothingRunsBeforeThePad, csr_write
<1>4. elp_update.valid /\ elp_update.expected => current_lpe_enabled(csr)
  BY DEF elp_update, elp_set_EX
<1>5. CsrOK(csr') /\ ElpEnabled(csr')
  BY <1>1, <1>2, <1>3, <1>4, CsrPorts, CsrNextOK, CsrNextElp
<1> QED
  BY <1>5 DEF ElpEnabled, ElpOnlyWhereEnabled

\* What EX/MEM holds next comes from EX.
LEMMA EXMEMNext ==
  ASSUME BackEnd
  PROVE  /\ exmem'.valid => idex.valid
         /\ exmem'.rf_we => rf_we(idex.instr)
         /\ exmem'.sl # "NOP" => exmem'.sl = sl_type_effective_EX
         /\ exmem'.dram_we => dram_we(idex.instr)
         /\ \/ exmem' = EXMEMBubble
            \/ exmem'.valid = idex.valid /\ exmem'.sl = sl_type_effective_EX
<1>1. CASE exmem' = EXMEMBubble
  BY <1>1, BubbleFacts
<1>2. CASE exmem' # EXMEMBubble
  BY <1>2 DEF BackEnd, StepEXMEM
<1> QED
  BY <1>1, <1>2

\* What MEM/WB holds next comes from MEM.
LEMMA MEMWBNext ==
  ASSUME BackEnd
  PROVE  /\ memwb'.valid => exmem.valid
         /\ memwb'.rf_we => exmem.rf_we
         /\ memwb'.sl # "NOP" => memwb'.sl = exmem.sl
         /\ \/ memwb' = MEMWBBubble
            \/ memwb'.valid = exmem.valid /\ memwb'.rf_we = exmem.rf_we /\ memwb'.sl = exmem.sl
<1>1. CASE memwb' = MEMWBBubble
  BY <1>1, BubbleFacts
<1>2. CASE memwb' # MEMWBBubble
  BY <1>2 DEF BackEnd, StepMEMWB
<1> QED
  BY <1>1, <1>2

\* A stage of the multiplier is occupied next when the one before it is, and
\* the first when a multiplication is in EX.
LEMMA MulNext ==
  ASSUME BackEnd
  PROVE  /\ mul'[1].valid => idex.valid /\ opEX = "MUL"
         /\ \A s \in 2 .. 4 : mul'[s].valid => mul[s - 1].valid
         /\ \A s \in 1 .. 4 : mul'[s] = MulIdle \/ mul'[s].valid = TRUE
                             \/ (s > 1 /\ mul'[s] = mul[s - 1])
<1>1. mul' = [s \in 1 .. 4 |->
                IF redirect_from_ex_stage THEN MulIdle
                ELSE IF s > 1 THEN mul[s - 1]
                ELSE IF opEX = "MUL" /\ idex.valid
                     THEN [valid |-> TRUE, rd |-> idex.instr.rd,
                           res |-> Wrap(idex.rd1 * idex.rd2)]
                     ELSE MulIdle]
  BY DEF BackEnd, StepMul
<1>2. ~MulIdle.valid
  BY DEF MulIdle
<1>3. mul'[1].valid => idex.valid /\ opEX = "MUL"
  BY <1>1, <1>2
<1>4. \A s \in 2 .. 4 : mul'[s] = MulIdle \/ mul'[s] = mul[s - 1]
  BY <1>1
<1> QED
  BY <1>1, <1>2, <1>3, <1>4

LEMMA NextControlTypeOK == IInv /\ Next => ControlTypeOK'
<1> SUFFICES ASSUME IInv, Next PROVE ControlTypeOK'
  OBVIOUS
<1>1. BackEnd /\ ControlTypeOK /\ CsrOK(csr)'
  BY BackEndMoves, NextCsrOK DEF IInv
<1>2. ifid'.valid \in BOOLEAN /\ ifid'.fault \in BOOLEAN
  <2>1. ifid' = IFIDBubble \/ ifid' = ifid \/ ifid' = Fetched
    BY FrontEndMoves
  <2>2. Fetched.valid \in BOOLEAN /\ Fetched.fault \in BOOLEAN
    BY DEF Fetched, fetch_access_fault_IF, access_fault
  <2>3. IFIDBubble.valid \in BOOLEAN /\ IFIDBubble.fault \in BOOLEAN
    BY DEF IFIDBubble
  <2> QED
    BY <1>1, <2>1, <2>2, <2>3 DEF ControlTypeOK
<1>3. idex'.valid \in BOOLEAN /\ idex'.pred \in BOOLEAN
  <2>1. \A fired \in BOOLEAN :
          Issued(fired).valid = ifid.valid /\ Issued(fired).pred = fired
    BY DEF Issued
  <2>2. idex' = IDEXBubble \/ \E fired \in BOOLEAN : idex' = Issued(fired)
    BY FrontEndMoves
  <2>3. IDEXBubble.valid \in BOOLEAN /\ IDEXBubble.pred \in BOOLEAN
    BY DEF IDEXBubble
  <2> QED
    BY <1>1, <2>1, <2>2, <2>3 DEF ControlTypeOK
<1>4. /\ {exmem'.valid, exmem'.rf_we, exmem'.dram_we} \subseteq BOOLEAN
      /\ exmem'.sl \in SlType
  <2>1. CASE exmem' = EXMEMBubble
    BY <2>1 DEF EXMEMBubble, InertEXMEM, SlType
  <2>2. CASE exmem' # EXMEMBubble
    <3>1. /\ exmem'.valid = idex.valid /\ exmem'.rf_we = rf_we(idex.instr)
          /\ exmem'.dram_we = dram_we(idex.instr) /\ exmem'.sl = sl_type_effective_EX
      BY <1>1, <2>2 DEF BackEnd, StepEXMEM
    <3>2. rf_we(idex.instr) \in BOOLEAN /\ dram_we(idex.instr) \in BOOLEAN
      BY DEF rf_we, dram_we
    <3> QED
      BY <1>1, <3>1, <3>2, EffectiveAccess DEF ControlTypeOK
  <2> QED
    BY <2>1, <2>2
<1>5. {memwb'.valid, memwb'.rf_we} \subseteq BOOLEAN /\ memwb'.sl \in SlType
  <2>1. CASE memwb' = MEMWBBubble
    BY <2>1 DEF MEMWBBubble, SlType
  <2>2. CASE memwb' # MEMWBBubble
    BY <1>1, <2>2, MEMWBNext DEF ControlTypeOK
  <2> QED
    BY <2>1, <2>2
<1>6. \A s \in 1 .. 4 : mul'[s].valid \in BOOLEAN
  <2>1. \A s \in 1 .. 4 : mul[s].valid \in BOOLEAN
    BY <1>1 DEF ControlTypeOK
  <2>2. \A s \in 1 .. 4 : s > 1 => s - 1 \in 1 .. 4
    OBVIOUS
  <2>3. MulIdle.valid \in BOOLEAN
    BY DEF MulIdle
  <2>4. \A s \in 1 .. 4 : mul'[s] = MulIdle \/ mul'[s].valid = TRUE
                           \/ (s > 1 /\ mul'[s] = mul[s - 1])
    BY <1>1, MulNext
  <2> QED
    BY <2>1, <2>2, <2>3, <2>4
<1> QED
  BY <1>1, <1>2, <1>3, <1>4, <1>5, <1>6 DEF ControlTypeOK, CsrOK

LEMMA NextBubblesInert == IInv /\ Next => BubblesInert'
<1> SUFFICES ASSUME IInv, Next PROVE BubblesInert'
  OBVIOUS
<1>1. BackEnd /\ BubblesInert
  BY BackEndMoves DEF IInv, InFlightDiscipline
<1>2. ~ifid'.valid => ifid'.instr = Zero
  <2>1. Fetched.valid
    BY DEF Fetched
  <2> QED
    BY <1>1, <2>1, FrontEndMoves, BubbleFacts DEF BubblesInert
<1>3. ~idex'.valid => idex'.instr = Zero
  <2>1. \A fired \in BOOLEAN : /\ Issued(fired).valid = ifid.valid
                              /\ Issued(fired).instr = ifid.instr
    BY DEF Issued
  <2>2. idex' = IDEXBubble \/ \E fired \in BOOLEAN : idex' = Issued(fired)
    BY FrontEndMoves
  <2> QED
    BY <1>1, <2>1, <2>2, BubbleFacts DEF BubblesInert
<1>4. ~exmem'.valid => ~exmem'.rf_we /\ ~exmem'.dram_we /\ exmem'.sl = "NOP"
  <2>1. CASE exmem' = EXMEMBubble
    BY <2>1, BubbleFacts
  <2>2. CASE exmem' # EXMEMBubble
    <3> SUFFICES ASSUME ~exmem'.valid
                 PROVE  ~exmem'.rf_we /\ ~exmem'.dram_we /\ exmem'.sl = "NOP"
      OBVIOUS
    <3>1. idex.instr = Zero
      BY <1>1, <2>2, EXMEMNext DEF BubblesInert
    <3>2. sl_type_effective_EX = "NOP"
      BY <3>1, ZeroInert DEF sl_type_effective_EX, opEX
    <3> QED
      BY <1>1, <3>1, <3>2, EXMEMNext, ZeroInert
  <2> QED
    BY <2>1, <2>2
<1>5. ~memwb'.valid => ~memwb'.rf_we /\ memwb'.sl = "NOP"
  BY <1>1, MEMWBNext, BubbleFacts DEF BubblesInert
<1> QED
  BY <1>2, <1>3, <1>4, <1>5 DEF BubblesInert

LEMMA NextMulAlone == IInv /\ Next => MulAlone'
<1> SUFFICES ASSUME IInv, Next PROVE MulAlone'
  OBVIOUS
<1>1. BackEnd /\ BubblesInert /\ MulAlone /\ ShadowAlone
  BY BackEndMoves DEF IInv, InFlightDiscipline
<1>2. \A s \in 1 .. 4 : mul[s].valid => mul_busy
  BY DEF mul_busy, mul_stage_busy
<1>3. mul'[2].valid => mul[1].valid
  BY <1>1, MulNext
<1>4. mul'[3].valid => mul[2].valid
  BY <1>1, MulNext
<1>5. mul'[4].valid => mul[3].valid
  BY <1>1, MulNext
<1>6. mul_busy' => ~idex'.valid
  <2>1. mul_busy' => \E s \in 1 .. 4 : mul'[s].valid
    BY DEF mul_busy, mul_stage_busy
  <2>2. \A s \in 1 .. 4 : s = 1 \/ (s \in 2 .. 4 /\ s - 1 \in 1 .. 4)
    OBVIOUS
  <2>3. \A s \in 1 .. 4 : mul'[s].valid => opEX = "MUL" \/ mul_busy
    BY <1>1, <1>2, <2>2, MulNext
  <2> QED
    BY <2>1, <2>3, MulHolds, EXEmptied, BubbleFacts
<1>7. mul'[1].valid => ~exmem'.rf_we /\ exmem'.sl = "NOP" /\ memwb'.sl \notin Shadow
  <2> SUFFICES ASSUME mul'[1].valid
               PROVE  ~exmem'.rf_we /\ exmem'.sl = "NOP" /\ memwb'.sl \notin Shadow
    OBVIOUS
  <2>1. idex.valid /\ opEX = "MUL"
    BY <1>1, MulNext
  <2>2. ~rf_we(idex.instr) /\ sl_type_effective_EX = "NOP"
    BY <2>1, EffectiveAccess
       DEF rf_we, opEX, AluOps, JumpOps, CsrOps, CsrRegOps, CsrImmOps, MemOps
  <2>3. exmem.sl \notin Shadow
    BY <1>1, <2>1 DEF ShadowAlone
  <2>4. memwb'.sl \notin Shadow
    BY <1>1, <2>3, MEMWBNext
  <2> QED
    BY <1>1, <2>2, <2>4, EXMEMNext
<1>8. mul'[2].valid => ~exmem'.valid /\ ~memwb'.rf_we /\ memwb'.sl = "NOP"
  <2> SUFFICES ASSUME mul'[2].valid
               PROVE  ~exmem'.valid /\ ~memwb'.rf_we /\ memwb'.sl = "NOP"
    OBVIOUS
  <2>1. ~idex.valid /\ ~exmem.rf_we /\ exmem.sl = "NOP"
    BY <1>1, <1>2, <1>3 DEF MulAlone
  <2> QED
    BY <1>1, <2>1, EXMEMNext, MEMWBNext
<1>9. mul'[3].valid \/ mul'[4].valid => ~exmem'.valid /\ ~memwb'.valid
  <2> SUFFICES ASSUME mul'[3].valid \/ mul'[4].valid
               PROVE  ~exmem'.valid /\ ~memwb'.valid
    OBVIOUS
  <2>1. ~idex.valid /\ ~exmem.valid
    BY <1>1, <1>2, <1>4, <1>5 DEF MulAlone
  <2> QED
    BY <1>1, <2>1, EXMEMNext, MEMWBNext
<1> QED
  BY <1>6, <1>7, <1>8, <1>9 DEF MulAlone

LEMMA NextShadowAlone == IInv /\ Next => ShadowAlone'
<1> SUFFICES ASSUME IInv, Next PROVE ShadowAlone'
  OBVIOUS
<1>1. BackEnd /\ BubblesInert /\ ShadowAlone
  BY BackEndMoves DEF IInv, InFlightDiscipline
<1>2. exmem'.sl \in Shadow => ~idex'.valid
  <2>1. exmem'.sl \in Shadow => shadow_mem_active_EX
    BY <1>1, EXMEMNext, EffectiveAccess
  <2>2. shadow_mem_active_EX => keep_PC
    BY ShadowHolds DEF shadow_serialize
  <2> QED
    BY <2>1, <2>2, EXEmptied, BubbleFacts
<1>3. memwb'.sl \in Shadow => ~idex'.valid /\ ~exmem'.valid
  <2> SUFFICES ASSUME memwb'.sl \in Shadow PROVE ~idex'.valid /\ ~exmem'.valid
    OBVIOUS
  <2>1. exmem.sl \in Shadow
    BY <1>1, MEMWBNext
  <2>2. exmem.valid /\ ~idex.valid
    BY <1>1, <2>1 DEF BubblesInert, ShadowAlone
  <2>3. keep_PC
    BY <2>1, <2>2, ShadowHolds DEF shadow_serialize
  <2> QED
    BY <1>1, <2>2, <2>3, EXEmptied, BubbleFacts, EXMEMNext
<1> QED
  BY <1>2, <1>3 DEF ShadowAlone

LEMMA NextJumpNeverPredicted == IInv /\ Next => JumpNeverPredicted'
<1> SUFFICES ASSUME Next PROVE JumpNeverPredicted'
  OBVIOUS
<1>1. idex' = IDEXBubble => ~idex'.pred
  BY BubbleFacts
<1>2. idex' = Issued(FALSE) => ~idex'.pred
  BY DEF Issued
<1>3. idex' = Issued(TRUE) /\ ifid.instr.op \in BranchOps \cup {"JAL"} => idex'.instr.op # "JALR"
  BY DEF Issued, BranchOps
<1> QED
  BY <1>1, <1>2, <1>3, FrontEndMoves DEF JumpNeverPredicted, opEX

-----------------------------------------------------------------------------
(* Landing pads. *)

\* An exception found in ID that neither redirects nor waits is taken.
LEMMA CandidateResolved ==
  id_exception_candidate_ID =>
    take_branch_NextPC \/ sspopchk_fault_WB \/ keep_PC
<1>1. id_exception_candidate_ID /\ ~redirect_from_ex_stage /\ ~sspopchk_fault_WB
        => id_exception_wait \/ id_exception_ready
  BY DEF id_exception_wait, id_exception_ready
<1>2. id_exception_wait => keep_PC
  BY DEF keep_PC
<1>3. id_exception_ready => exception_valid
  BY DEF id_exception_ready, id_exception_candidate_ID, exception_valid,
         instr_fault_effective_ID, software_check_effective_ID, illegal_instr_effective_ID
<1>4. redirect_from_ex_stage \/ exception_valid => take_branch_NextPC
  BY DEF redirect_from_ex_stage, take_branch_NextPC, exception_valid
<1> QED
  BY <1>1, <1>2, <1>3, <1>4

\* An instruction issued while a landing pad is pending is the LPAD that
\* answers it, and it clears ELP in the same cycle.
LEMMA IssuedPadAnswers ==
  ASSUME IInv, csr.elp, ifid.valid, ~take_branch_NextPC, ~keep_PC
  PROVE  /\ elp_update.valid /\ ~elp_update.expected
         /\ ~ssp_update.valid /\ xret = "none"
<1>1. ~idex.valid /\ current_lpe_enabled(csr)
  BY DEF IInv, NothingRunsBeforeThePad, ElpOnlyWhereEnabled
<1>2. ~redirect_from_ex_stage /\ ~sspopchk_fault_WB
  BY DEF redirect_from_ex_stage, take_branch_NextPC, exception_valid
<1>3. ~id_exception_candidate_ID /\ ~id_exception_wait
  BY <1>2, CandidateResolved DEF keep_PC
<1>4. lpad_pass_ID
  BY <1>1, <1>3 DEF id_exception_candidate_ID, software_check_exception_ID,
                    instr_access_fault_exception_ID
<1>5. ~mul_commit_serialize_active /\ ~shadow_serialize
  BY MulHolds, ShadowHolds DEF mul_commit_serialize_active
<1>6. ~flushes_id_exception_ID
  BY <1>2, <1>3, <1>5 DEF flushes_id_exception_ID
<1>7. elp_update.valid /\ ~elp_update.expected
  BY <1>1, <1>4, <1>6 DEF elp_update, elp_set_EX
<1>8. ~sspush_EX /\ ~sspopchk_success_WB
  BY <1>1, <1>5 DEF sspush_EX, shadow_mem_active_EX, sspopchk_success_WB, sspopchk_WB,
                    shadow_serialize
<1>9. ~ssp_update.valid
  BY <1>8 DEF ssp_update
<1> QED
  BY <1>1, <1>7, <1>9 DEF xret, xret_EX

LEMMA NextPadFirst == IInv /\ Next => NothingRunsBeforeThePad'
<1> SUFFICES ASSUME IInv, Next, csr'.elp PROVE ~idex'.valid
  BY DEF NothingRunsBeforeThePad
<1>1. csr' = CsrNext(csr, exception, xret, ssp_update, elp_update, csr_write)
  BY BackEndMoves DEF BackEnd, StepCsr
<1>2. /\ ~exception.valid
      /\ \/ xret \in {"mret", "sret"}
         \/ ~ssp_update.valid /\ elp_update.valid /\ elp_update.expected
         \/ csr.elp /\ (ssp_update.valid \/ ~elp_update.valid)
  BY <1>1, CsrPorts, CsrNextPending DEF IInv
<1>3. CASE xret \in {"mret", "sret"}
  <2>1. redirect_from_ex_stage
    BY <1>3 DEF xret, redirect_from_ex_stage
  <2> QED
    BY <2>1, EXEmptied, BubbleFacts
<1>4. CASE elp_update.valid /\ elp_update.expected
  <2>1. idex.valid /\ opEX = "JALR"
    BY <1>4 DEF elp_update, elp_set_EX
  <2>2. ~idex.pred /\ take_branch_normal /\ idex.pred \in BOOLEAN
    BY <2>1 DEF IInv, InFlightDiscipline, JumpNeverPredicted, take_branch_normal, JumpOps,
                ControlTypeOK
  <2>3. redirect_from_ex_stage
    BY <2>1, <2>2 DEF redirect_from_ex_stage, normal_control_mispredict_EX
  <2> QED
    BY <2>3, EXEmptied, BubbleFacts
<1>5. CASE csr.elp /\ (ssp_update.valid \/ ~elp_update.valid)
  <2>1. CASE idex' = IDEXBubble
    BY <2>1, BubbleFacts
  <2>2. CASE idex' # IDEXBubble
    <3>1. ~take_branch_NextPC /\ ~keep_PC /\ idex'.valid = ifid.valid
      BY <2>2, FrontEndMoves DEF Issued
    <3>2. ~ifid.valid
      BY <1>5, <3>1, IssuedPadAnswers
    <3> QED
      BY <3>1, <3>2
  <2> QED
    BY <2>1, <2>2
<1> QED
  BY <1>2, <1>3, <1>4, <1>5

-----------------------------------------------------------------------------
(* The data.  Typing every word is inductive by itself once the instructions  *)
(* in ID and EX are known to be encodable.                                     *)

DInv ==
  /\ DataTypeOK
  /\ rom \in Programs
  /\ Encodable(ifid.instr) /\ Encodable(idex.instr)

LEMMA ZeroEncodable == Encodable(Zero)
<1>1. Zero \in Instruction
  <2>1. "ZERO" \in Ops /\ 0 \in Reg /\ 0 \in Int /\ 0 \in Nat /\ "none" \in STRING \cup {"none"}
    BY DEF Ops, Reg
  <2> QED
    BY <2>1 DEF Instruction, Zero
<1>2. Zero.op \notin {"LUI", "JAL"} \cup BranchOps
  BY DEF Zero, BranchOps
<1> QED
  BY <1>1, <1>2 DEF Encodable

LEMMA IndexType ==
  ASSUME NEW a \in Int
  PROVE  IndexOf(a) \in WordIndex
<1>1. PmaLimit \div 4 \in Nat \ {0}
  BY PmaAssumption
<1> DEFINE k == PmaLimit \div 4
           q == a \div 4
<1>2. q \in Int
  OBVIOUS
<1> HIDE DEF k, q
<1>3. q % k \in 0 .. (k - 1)
  BY <1>1, <1>2 DEF k
<1> QED
  BY <1>3 DEF IndexOf, WordIndex, k, q

LEMMA Words ==
  ASSUME DInv
  PROVE  /\ {pc, ifid.pc, idex.pc, idex.rd1, idex.rd2, idex.ptarget, exmem.pc, exmem.wd,
             exmem.rd2, exmem.addr, memwb.pc, memwb.wd, spo} \subseteq Word
         /\ {pc, ifid.pc, idex.pc, idex.rd1, idex.rd2, exmem.addr} \subseteq Int
         /\ ifid.instr.imm \in Int /\ idex.instr.imm \in Int
         /\ ifid.instr \in Instruction /\ idex.instr \in Instruction
<1>1. DataTypeOK /\ ifid.instr \in Instruction /\ idex.instr \in Instruction
  BY DEF DInv, Encodable
<1>2. ifid.instr.imm \in Int /\ idex.instr.imm \in Int
  BY <1>1 DEF Instruction
<1>3. Word \subseteq Int
  BY WordFacts
<1> QED
  BY <1>1, <1>2, <1>3 DEF DataTypeOK

\* What the stages compute are words.
LEMMA EXWords ==
  ASSUME DInv
  PROVE  /\ alu_result_EX \in Word /\ branch_target_EX \in Word
         /\ branch_target_normal \in Word
         /\ shadow_addr_EX \in Word /\ rf_wd_EX \in Word
<1>1. /\ {idex.rd1, idex.rd2, idex.pc} \subseteq Word \cap Int
      /\ idex.instr.imm \in Int /\ (opEX = "LUI" => idex.instr.imm \in Word)
  BY Words DEF DInv, Encodable, opEX
<1>2. /\ Wrap(idex.rd1 + idex.rd2) \in Word /\ Wrap(idex.rd1 + idex.instr.imm) \in Word
      /\ Wrap(idex.pc + idex.instr.imm) \in Word /\ Wrap(idex.pc + 4) \in Word
      /\ 0 \in Word
  BY <1>1, WordFacts
<1>3. alu_result_EX \in Word /\ branch_target_EX \in Word
  BY <1>2 DEF alu_result_EX, branch_target_EX
<1>4. alu_result_EX - (alu_result_EX % 2) \in Word
  BY <1>3, WordFacts DEF Word
<1>5. branch_target_normal \in Word
  BY <1>3, <1>4 DEF branch_target_normal
<1>6. ssp_value \in Word
  BY ValueType DEF ssp_value
<1>7. Wrap(ssp_value - 4) \in Word
  BY <1>6, WordFacts
<1>8. shadow_addr_EX \in Word
  BY <1>6, <1>7 DEF shadow_addr_EX
<1>9. wd_sel(idex.instr) = "IEXT" => opEX = "LUI"
  BY DEF wd_sel, opEX
<1>10. Value(csr_rdata(csr, idex.instr.csr)) \in Word
  BY ValueType
<1>11. rf_wd_EX \in Word
  BY <1>1, <1>2, <1>3, <1>6, <1>9, <1>10 DEF rf_wd_EX
<1> QED
  BY <1>3, <1>5, <1>8, <1>11

LEMMA WBWords ==
  ASSUME DInv
  PROVE  rf_wd_WB \in Word /\ commit.wd \in Word
<1>1. rf_wd_WB \in Word
  BY DEF DInv, DataTypeOK, rf_wd_WB, load_data_WB
<1>2. mul[4].res \in Word /\ 0 \in Word
  BY WordFacts DEF DInv, DataTypeOK
<1> QED
  BY <1>1, <1>2 DEF commit

LEMMA IssuedWords ==
  ASSUME DInv, NEW fired \in BOOLEAN
  PROVE  /\ Issued(fired).pc \in Word /\ Issued(fired).instr = ifid.instr
         /\ Issued(fired).rd1 \in Word /\ Issued(fired).rd2 \in Word
         /\ Issued(fired).ptarget \in Word
<1>1. \A r : rf_read(r) \in Word
  BY WordFacts DEF rf_read, DInv, DataTypeOK
<1>2. stageEX.wd \in Word /\ stageMEM.wd \in Word /\ stageWB.wd \in Word
  BY EXWords, WBWords DEF stageEX, stageMEM, stageWB, DInv, DataTypeOK
<1>3. \A used, r : forward(used, r, stageEX, stageMEM, stageWB, rf_read(r)) \in Word
  BY <1>1, <1>2 DEF forward
<1>4. ifid.pc \in Word /\ ifid.pc \in Int /\ ifid.instr.imm \in Int
  BY Words
<1>5. Wrap(ifid.pc + ifid.instr.imm) \in Word
  BY <1>4, WordFacts
<1> QED
  BY <1>3, <1>4, <1>5 DEF Issued

LEMMA FetchedWords ==
  ASSUME DInv
  PROVE  Fetched.pc \in Word /\ Encodable(Fetched.instr)
<1>1. pc \in Word
  BY DEF DInv, DataTypeOK
<1>2. IndexOf(pc) \in WordIndex
  BY <1>1, IndexType, WordFacts
<1> QED
  BY <1>1, <1>2, ProgramsAssumption DEF DInv, Fetched

LEMMA InitDInv == Init => DInv
<1> SUFFICES ASSUME Init PROVE DInv
  OBVIOUS
<1>1. PICK b \in Boots : pc = b.pc /\ rf = b.rf /\ exmem \in {EXMEMBubble, BootMret}
  BY DEF Init
<1>2. pc \in Word /\ rf \in [Regs -> Word]
  BY <1>1, BootsAssumption
<1>3. /\ rom \in Programs /\ ifid = IFIDBubble /\ idex = IDEXBubble /\ memwb = MEMWBBubble
      /\ spo = 0 /\ mul = [s \in 1 .. 4 |-> MulIdle] /\ dram = [a \in WordIndex |-> 0]
  BY DEF Init
<1>4. {exmem.pc, exmem.wd, exmem.rd2, exmem.addr} \subseteq Word
  BY <1>1, WordFacts DEF EXMEMBubble, BootMret, InertEXMEM
<1>5. {ifid.pc, idex.pc, idex.rd1, idex.rd2, idex.ptarget, memwb.pc, memwb.wd, spo}
        \subseteq Word
  BY <1>3, WordFacts DEF IFIDBubble, IDEXBubble, MEMWBBubble
<1>6. ifid.instr = Zero /\ idex.instr = Zero
  BY <1>3 DEF IFIDBubble, IDEXBubble
<1>7. (\A s \in 1 .. 4 : mul[s].res \in Word) /\ dram \in [WordIndex -> Word]
  BY <1>3, WordFacts DEF MulIdle
<1>8. Encodable(ifid.instr) /\ Encodable(idex.instr)
  BY <1>6, ZeroEncodable
<1>9. DataTypeOK
  BY <1>2, <1>4, <1>5, <1>7, <1>8 DEF DataTypeOK, Encodable
<1> QED
  BY <1>3, <1>8, <1>9 DEF DInv

LEMMA NextDInv ==
  ASSUME DInv, Next
  PROVE  DInv'
<1>1. BackEnd /\ rom' = rom
  BY BackEndMoves DEF BackEnd
<1>2. pc' \in Word
  <2>1. trap_target(csr, exception.cause) \in Word
    BY ValueType DEF trap_target
  <2>2. \A n : Value(csr.reg[n]) \in Word
    BY ValueType
  <2>3. /\ Wrap(idex.pc + 4) \in Word /\ Wrap(pc + 4) \in Word
        /\ Wrap(ifid.pc + ifid.instr.imm) \in Word /\ pc \in Word
    BY Words, WordFacts
  <2>4. branch_target_normal \in Word
    BY EXWords
  <2> QED
    BY <2>1, <2>2, <2>3, <2>4
       DEF Next, Trap, XReturn, Recover, Stall, PredictedFetch, SequentialFetch, Redirect
<1>3. ifid'.pc \in Word /\ Encodable(ifid'.instr)
  <2>1. ifid' = IFIDBubble \/ ifid' = ifid \/ ifid' = Fetched
    BY FrontEndMoves
  <2>2. IFIDBubble.pc \in Word /\ IFIDBubble.instr = Zero
    BY WordFacts DEF IFIDBubble
  <2>3. ifid.pc \in Word /\ Encodable(ifid.instr)
    BY DEF DInv, DataTypeOK
  <2> QED
    BY <2>1, <2>2, <2>3, FetchedWords, ZeroEncodable
<1>4. {idex'.pc, idex'.rd1, idex'.rd2, idex'.ptarget} \subseteq Word /\ Encodable(idex'.instr)
  <2>1. CASE idex' = IDEXBubble
    <3>1. {IDEXBubble.pc, IDEXBubble.rd1, IDEXBubble.rd2, IDEXBubble.ptarget} \subseteq Word
      BY WordFacts DEF IDEXBubble
    <3> QED
      BY <2>1, <3>1, BubbleFacts, ZeroEncodable
  <2>2. CASE idex' # IDEXBubble
    <3>1. PICK fired \in BOOLEAN : idex' = Issued(fired)
      BY <2>2, FrontEndMoves
    <3>2. Encodable(ifid.instr)
      BY DEF DInv
    <3>3. Issued(fired).instr = ifid.instr /\ {Issued(fired).pc, Issued(fired).rd1,
             Issued(fired).rd2, Issued(fired).ptarget} \subseteq Word
      BY IssuedWords
    <3> QED
      BY <3>1, <3>2, <3>3
  <2> QED
    BY <2>1, <2>2
<1>5. {exmem'.pc, exmem'.wd, exmem'.rd2, exmem'.addr} \subseteq Word
  <2>1. CASE exmem' = EXMEMBubble
    BY <2>1, WordFacts DEF EXMEMBubble, InertEXMEM
  <2>2. CASE exmem' # EXMEMBubble
    <3>1. /\ exmem'.pc = idex.pc /\ exmem'.wd = rf_wd_EX /\ exmem'.rd2 = idex.rd2
          /\ exmem'.addr \in {shadow_addr_EX, alu_result_EX}
      BY <1>1, <2>2 DEF BackEnd, StepEXMEM
    <3>2. idex.pc \in Word /\ idex.rd2 \in Word
      BY Words
    <3>3. {shadow_addr_EX, alu_result_EX, rf_wd_EX} \subseteq Word
      BY EXWords
    <3> QED
      BY <3>1, <3>2, <3>3
  <2> QED
    BY <2>1, <2>2
<1>6. {memwb'.pc, memwb'.wd} \subseteq Word
  <2>1. CASE memwb' = MEMWBBubble
    BY <2>1, WordFacts DEF MEMWBBubble
  <2>2. CASE memwb' # MEMWBBubble
    BY <1>1, <2>2 DEF BackEnd, StepMEMWB, DInv, DataTypeOK
  <2> QED
    BY <2>1, <2>2
<1>7. spo' \in Word /\ dram' \in [WordIndex -> Word]
  <2>1. IndexOf(exmem.addr) \in WordIndex
    BY Words, IndexType
  <2>2. DRAM_input_data \in Word /\ dram \in [WordIndex -> Word]
    BY DEF DRAM_input_data, DInv, DataTypeOK
  <2>3. dram' = ram_data_next /\ spo' = dram[IndexOf(exmem.addr)]
    BY <1>1 DEF BackEnd, StepMemory
  <2> QED
    BY <2>1, <2>2, <2>3 DEF ram_data_next
<1>8. \A s \in 1 .. 4 : mul'[s].res \in Word
  <2>1. Wrap(idex.rd1 * idex.rd2) \in Word
    <3>1. idex.rd1 \in Int /\ idex.rd2 \in Int
      BY Words
    <3>2. idex.rd1 * idex.rd2 \in Int
      BY <3>1
    <3> QED
      BY <3>2, WordFacts
  <2>2. MulIdle.res \in Word
    BY WordFacts DEF MulIdle
  <2>3. \A s \in 1 .. 4 : mul[s].res \in Word
    BY DEF DInv, DataTypeOK
  <2>4. mul' = [s \in 1 .. 4 |->
                IF redirect_from_ex_stage THEN MulIdle
                ELSE IF s > 1 THEN mul[s - 1]
                ELSE IF opEX = "MUL" /\ idex.valid
                     THEN [valid |-> TRUE, rd |-> idex.instr.rd,
                           res |-> Wrap(idex.rd1 * idex.rd2)]
                     ELSE MulIdle]
    BY <1>1 DEF BackEnd, StepMul
  <2> DEFINE product == Wrap(idex.rd1 * idex.rd2)
  <2>5. product \in Word
    BY <2>1
  <2>6. mul' = [s \in 1 .. 4 |->
                IF redirect_from_ex_stage THEN MulIdle
                ELSE IF s > 1 THEN mul[s - 1]
                ELSE IF opEX = "MUL" /\ idex.valid
                     THEN [valid |-> TRUE, rd |-> idex.instr.rd, res |-> product]
                     ELSE MulIdle]
    BY <2>4
  <2> HIDE DEF product
  <2>7. \A s \in 1 .. 4 : s > 1 => s - 1 \in 1 .. 4
    OBVIOUS
  <2> QED
    BY <2>2, <2>3, <2>5, <2>6, <2>7
<1>9. rf' \in [Regs -> Word]
  BY <1>1, WBWords DEF BackEnd, StepRegisterF, DInv, DataTypeOK
<1>10. DataTypeOK'
  BY <1>2, <1>3, <1>4, <1>5, <1>6, <1>7, <1>8, <1>9 DEF DataTypeOK, Encodable
<1> QED
  BY <1>1, <1>3, <1>4, <1>10 DEF DInv

LEMMA StutterDInv == DInv /\ UNCHANGED vars => DInv'
  BY DEF DInv, DataTypeOK, vars

LEMMA DataInvariance == Spec => []DInv
<1>1. DInv /\ [Next]_vars => DInv'
  BY NextDInv, StutterDInv
<1> QED
  BY <1>1, InitDInv, PTL DEF Spec

-----------------------------------------------------------------------------
(* The theorems. *)

LEMMA StutterIInv == IInv /\ UNCHANGED vars => IInv'
  BY DEF IInv, vars, ControlTypeOK, CsrOK, ElpOnlyWhereEnabled, InFlightDiscipline,
         BubblesInert, MulAlone, ShadowAlone, JumpNeverPredicted, NothingRunsBeforeThePad,
         opEX, mul_busy, mul_stage_busy

LEMMA NextIInv == IInv /\ [Next]_vars => IInv'
<1>1. IInv /\ Next => IInv'
  BY NextControlTypeOK, NextCsrOK, NextBubblesInert, NextMulAlone, NextShadowAlone,
     NextJumpNeverPredicted, NextPadFirst
     DEF IInv, InFlightDiscipline
<1> QED
  BY <1>1, StutterIInv

LEMMA Invariance == Spec => []IInv
  BY InitIInv, NextIInv, PTL DEF Spec

\* The control state of the pipeline is well formed, whatever the program.
THEOREM ControlTypeCorrect == Spec => []ControlTypeOK
<1>1. IInv => ControlTypeOK
  BY DEF IInv
<1> QED
  BY <1>1, Invariance, PTL

\* Instructions in flight never overlap where they share a resource.
THEOREM InFlightDisciplineHolds == Spec => []InFlightDiscipline
<1>1. IInv => InFlightDiscipline
  BY DEF IInv
<1> QED
  BY <1>1, Invariance, PTL

\* The pipeline and the multiplier never commit in the same cycle.
THEOREM CommitNeverConflicts == Spec => []CommitPortExclusive
<1>1. IInv => CommitPortExclusive
  BY DEF IInv, InFlightDiscipline, MulAlone, BubblesInert, CommitPortExclusive, mul_rf_we_o
<1> QED
  BY <1>1, Invariance, PTL

\* A redirect never destroys an older multiplication.
THEOREM RedirectNeverKillsOlderMul == Spec => []RedirectSparesOlderMul
<1>1. IInv => RedirectSparesOlderMul
  BY RedirectFromEX DEF IInv, InFlightDiscipline, MulAlone, RedirectSparesOlderMul
<1> QED
  BY <1>1, Invariance, PTL

\* The trap of a failed shadow-stack check finds nothing younger to undo.
THEOREM PopCheckTrapsPrecisely == Spec => []PopCheckTrapPrecise
<1>1. IInv => PopCheckTrapPrecise
  <2> SUFFICES ASSUME IInv, sspopchk_fault_WB
               PROVE  ~idex.valid /\ ~exmem.valid /\ ~mul_busy
    BY DEF PopCheckTrapPrecise
  <2>1. memwb.valid /\ memwb.sl = "SSPOPCHK"
    BY DEF sspopchk_fault_WB, sspopchk_WB
  <2>2. ~idex.valid /\ ~exmem.valid
    BY <2>1 DEF IInv, InFlightDiscipline, ShadowAlone
  <2>3. \A s \in 1 .. 4 : ~mul[s].valid
    BY <2>1 DEF IInv, InFlightDiscipline, MulAlone
  <2> QED
    BY <2>2, <2>3 DEF mul_busy, mul_stage_busy
<1> QED
  BY <1>1, Invariance, PTL

\* SSPUSH and SSPOPCHK never update ssp in the same cycle.
THEOREM SspNeverContended == Spec => []SspPortExclusive
<1>1. IInv => SspPortExclusive
  BY DEF IInv, InFlightDiscipline, ShadowAlone, SspPortExclusive, sspush_EX,
         shadow_mem_active_EX, sspopchk_WB
<1> QED
  BY <1>1, Invariance, PTL

\* Nothing executes between an indirect jump and its landing pad.
THEOREM PadComesFirst == Spec => []NothingRunsBeforeThePad
<1>1. IInv => NothingRunsBeforeThePad
  BY DEF IInv
<1> QED
  BY <1>1, Invariance, PTL

\* A landing pad is pending only where landing pads are enabled.
THEOREM ElpStaysEnabled == Spec => []ElpOnlyWhereEnabled
<1>1. IInv => ElpOnlyWhereEnabled
  BY DEF IInv
<1> QED
  BY <1>1, Invariance, PTL

\* Every control and data field of the core keeps its type, for every program:
\* no address leaves the words, no instruction but an encodable one is decoded.
THEOREM TypeCorrect == Spec => []TypeOK
<1>1. DInv => DataTypeOK
  BY DEF DInv
<1>2. IInv => ControlTypeOK
  BY DEF IInv
<1> QED
  BY <1>1, <1>2, Invariance, DataInvariance, PTL DEF TypeOK
=============================================================================
