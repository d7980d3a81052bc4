------------------------------- MODULE Pipeline -------------------------------
(***************************************************************************)
(* The five-stage EsCute-RV core (CPU_TOP.sv with PC, the four pipeline    *)
(* registers, RegisterF, MUL, DRAM, LoadUnit, StoreUnit, NextPC_Generator  *)
(* and the BPU's interface).  One step is one rising clock edge.           *)
(*                                                                         *)
(* The definitions between the variables and the actions are the core's    *)
(* combinational wires under their RTL names, as state functions of the    *)
(* registers.  What a clock edge does to the front end (PC, IF/ID, ID/EX)  *)
(* is one of six mutually exclusive actions; the back end (EX/MEM, MEM/WB, *)
(* multiplier, register file, memory, CSRs) moves in all of them.          *)
(***************************************************************************)
EXTENDS PmpPma, HazardUnit

CONSTANTS
  Regs,         \* the general registers the programs use
  Programs,     \* the possible contents of the instruction memory
  Boots,        \* where execution starts: [csr, rf, pc]
  BpuEnabled    \* BPU_TYPE # NONE

\* The memories have PmaLimit bytes; the address of a word wraps at their size.
WordIndex == 0 .. (PmaLimit \div 4 - 1)
IndexOf(addr) == (addr \div 4) % (PmaLimit \div 4)

ASSUME RegsAssumption == Regs \subseteq Reg /\ {0, 7} \subseteq Regs

\* The immediates of an instruction: LUI's is a whole word (the ID adder's), and
\* the offsets of JAL and the branches have no lowest bit.
Encodable(i) ==
  /\ i \in Instruction
  /\ i.op = "LUI" => i.imm \in Word
  /\ i.op \in BranchOps \cup {"JAL"} => i.imm % 2 = 0

\* The programs read no general registers but Regs.
ReadsRegs(i) ==
  /\ rs1_used(i) => i.rs1 \in Regs
  /\ rs2_used(i) => i.rs2 \in Regs

ASSUME ProgramsAssumption ==
  /\ Programs \subseteq [WordIndex -> Instruction]
  /\ \A p \in Programs, a \in WordIndex : Encodable(p[a]) /\ ReadsRegs(p[a])

\* Execution starts at reset, or after boot code that left no landing pad open
\* and returned to an aligned address; CSR.sv keeps mepc and sepc aligned.
ASSUME BootsAssumption ==
  /\ Boots \subseteq [pc : Word, csr : CsrState, rf : [Regs -> Word]]
  /\ \A b \in Boots :
       /\ b.pc % 4 = 0
       /\ ~b.csr.elp
       /\ MppOf(b.csr.reg["mstatus"]) \in Prv
       /\ b.csr.reg["mepc"] \cap {0, 1} = {} /\ b.csr.reg["sepc"] \cap {0, 1} = {}

VARIABLES
  rom,      \* instruction memory; never written
  pc,       \* program counter of IF
  ifid,     \* IF/ID register
  idex,     \* ID/EX register
  exmem,    \* EX/MEM register
  memwb,    \* MEM/WB register
  spo,      \* output register of the synchronous data memory
  mul,      \* the four stages of the multiplier
  rf,       \* register file
  dram,     \* data memory
  csr       \* the CSR unit

vars == <<rom, pc, ifid, idex, exmem, memwb, spo, mul, rf, dram, csr>>

-----------------------------------------------------------------------------
(* Empty registers: what reset and a flush leave behind. *)

IFIDBubble == [valid |-> FALSE, pc |-> 0, instr |-> Zero, fault |-> FALSE]

IDEXBubble == [valid |-> FALSE, pc |-> 0, instr |-> Zero, rd1 |-> 0, rd2 |-> 0,
               pred |-> FALSE, ptarget |-> 0]

InertEXMEM(v) == [valid |-> v, pc |-> 0, rf_we |-> FALSE, rd |-> 0, wd |-> 0,
                  load |-> FALSE, dram_we |-> FALSE, sl |-> "NOP", addr |-> 0,
                  rd2 |-> 0]

EXMEMBubble == InertEXMEM(FALSE)

MEMWBBubble == [valid |-> FALSE, pc |-> 0, rf_we |-> FALSE, rd |-> 0, wd |-> 0,
                load |-> FALSE, sl |-> "NOP"]

\* rd and the operands of an idle stage are never looked at.
MulIdle == [valid |-> FALSE, rd |-> 0, res |-> 0]

Shadow == {"SSPUSH", "SSPOPCHK"}

Bit1(w) == (w \div 2) % 2 = 1

-----------------------------------------------------------------------------
(* WB: load data, SSPOPCHK verdict, the single commit port. *)

load_data_WB == spo

sspopchk_WB == memwb.valid /\ memwb.sl = "SSPOPCHK"
sspopchk_fault_WB   == sspopchk_WB /\ load_data_WB # memwb.wd
sspopchk_success_WB == sspopchk_WB /\ load_data_WB = memwb.wd

rf_wd_WB == IF memwb.load THEN load_data_WB ELSE memwb.wd

\* Mutant of mul_stage_busy: the first stage is forgotten.
mul_stage_busy_from_2 == {s \in 2 .. 4 : mul[s].valid}

mul_stage_busy == {s \in 1 .. 4 : mul[s].valid}
mul_busy    == mul_stage_busy # {}
mul_rf_we_o == mul[4].valid /\ mul[4].rd # 0

commit ==
  IF memwb.rf_we      THEN [we |-> TRUE, rd |-> memwb.rd, wd |-> rf_wd_WB]
  ELSE IF mul_rf_we_o THEN [we |-> TRUE, rd |-> mul[4].rd, wd |-> mul[4].res]
  ELSE [we |-> FALSE, rd |-> 0, wd |-> 0]

rf_read(r) == IF r \in Regs \ {0} THEN rf[r] ELSE 0

-----------------------------------------------------------------------------
(* EX: operands, targets, memory access, exceptions. *)

opEX == idex.instr.op

alu_result_EX ==
  CASE opEX = "ADD" -> Wrap(idex.rd1 + idex.rd2)
    [] opEX \in {"ADDI", "LW", "SW", "JALR"} -> Wrap(idex.rd1 + idex.instr.imm)
    [] OTHER -> 0

branch_target_EX == Wrap(idex.pc + idex.instr.imm)

take_branch_normal ==
  \/ opEX \in JumpOps
  \/ opEX = "BEQ" /\ idex.rd1 = idex.rd2
  \/ opEX = "BNE" /\ idex.rd1 # idex.rd2

branch_target_normal ==
  IF opEX = "JALR" THEN alu_result_EX - (alu_result_EX % 2) ELSE branch_target_EX

current_sse_enabled == shadow_stack_enabled(csr)

shadow_mem_active_EX == idex.valid /\ current_sse_enabled /\ opEX \in Shadow

sl_type_effective_EX ==
  IF opEX \in Shadow /\ ~shadow_mem_active_EX THEN "NOP" ELSE sl_type(idex.instr)

ssp_value == Value(csr.reg["ssp"])

shadow_addr_EX == IF opEX = "SSPUSH" THEN Wrap(ssp_value - 4) ELSE ssp_value

mem_addr_EX == IF shadow_mem_active_EX THEN shadow_addr_EX ELSE alu_result_EX

data_fault_EX(access) ==
  access_fault(access, mem_addr_EX, 4, csr.priv,
               csr.reg["pmpcfg0"], Value(csr.reg["pmpaddr0"]))

load_access_fault_EX ==
  idex.valid /\ sl_type_effective_EX \in {"LW", "SSPOPCHK"} /\ data_fault_EX("load")

store_access_fault_EX ==
  idex.valid /\ sl_type_effective_EX \in {"SW", "SSPUSH"} /\ data_fault_EX("store")

instr_misaligned_EX ==
  \/ opEX = "JALR" /\ Bit1(alu_result_EX)
  \/ take_branch_normal /\ opEX # "JALR" /\ Bit1(branch_target_normal)

load_misaligned_EX  == sl_type_effective_EX = "LW" /\ alu_result_EX % 4 # 0
store_misaligned_EX == sl_type_effective_EX = "SW" /\ alu_result_EX % 4 # 0
shadow_access_fault_EX == shadow_mem_active_EX /\ shadow_addr_EX % 4 # 0

exception_valid_EX ==
  /\ idex.valid
  /\ \/ instr_misaligned_EX
     \/ load_misaligned_EX
     \/ store_misaligned_EX
     \/ load_access_fault_EX
     \/ store_access_fault_EX
     \/ shadow_access_fault_EX
     \/ opEX = "ECALL"

normal_control_mispredict_EX ==
  /\ idex.valid
  /\ \/ idex.pred # take_branch_normal
     \/ idex.pred /\ take_branch_normal /\ idex.ptarget # branch_target_normal

xret_EX == idex.valid /\ opEX \in {"MRET", "SRET"}

redirect_from_ex_stage ==
  normal_control_mispredict_EX \/ exception_valid_EX \/ xret_EX

rf_wd_EX ==
  IF shadow_mem_active_EX
  THEN IF opEX = "SSPUSH" THEN idex.rd2 ELSE idex.rd1
  ELSE CASE wd_sel(idex.instr) = "ALU"  -> alu_result_EX
         [] wd_sel(idex.instr) = "PC4"  -> Wrap(idex.pc + 4)
         [] wd_sel(idex.instr) = "IEXT" -> idex.instr.imm
         [] wd_sel(idex.instr) = "CSR"  -> Value(csr_rdata(csr, idex.instr.csr))
         [] wd_sel(idex.instr) = "SSP"  -> IF current_sse_enabled THEN ssp_value ELSE 0
         [] OTHER -> 0

\* The three producers the hazard unit looks at.
stageEX  == [we |-> rf_we(idex.instr), rd |-> idex.instr.rd, wd |-> rf_wd_EX,
             load |-> opEX = "LW"]
stageMEM == [we |-> exmem.rf_we, rd |-> exmem.rd, wd |-> exmem.wd, load |-> exmem.load]
stageWB  == [we |-> memwb.rf_we, rd |-> memwb.rd, wd |-> rf_wd_WB, load |-> memwb.load]

-----------------------------------------------------------------------------
(* ID: landing pads, exceptions found at decode, hazards. *)

\* Mutant of fetch_access_fault_IF: fetches are checked as if in M mode.
fetch_access_fault_IF_as_M ==
  access_fault("fetch", pc, 4, PrvM,
               csr.reg["pmpcfg0"], Value(csr.reg["pmpaddr0"]))

fetch_access_fault_IF ==
  access_fault("fetch", pc, 4, csr.priv,
               csr.reg["pmpcfg0"], Value(csr.reg["pmpaddr0"]))

x7_effective_ID ==
  IF stageEX.we /\ stageEX.rd = 7        THEN stageEX.wd
  ELSE IF stageMEM.we /\ stageMEM.rd = 7 THEN stageMEM.wd
  ELSE IF commit.we /\ commit.rd = 7     THEN commit.wd
  ELSE rf[7]

\* The upper 20 bits of a 32-bit label.
LabelOf(w) == w \div 4096

lpad_pass_ID ==
  /\ ifid.instr.op = "LPAD"
  /\ ifid.pc % 4 = 0
  /\ ifid.instr.imm \in {0, LabelOf(x7_effective_ID)}

\* Mutant of csr_illegal: the privilege level is not compared.
csr_illegal_at_no_level(i) ==
  /\ i.op \in CsrOps
  /\ \/ i.csr \notin CsrName
     \/ csr_write_intent(i) /\ CsrReadOnly(i.csr)
     \/ i.csr = "ssp" /\ csr.priv # PrvM /\ ~current_sse_enabled
     \/ i.csr = "satp" /\ csr.priv = PrvS /\ TVM \in csr.reg["mstatus"]

csr_illegal(i) ==
  /\ i.op \in CsrOps
  /\ \/ i.csr \notin CsrName
     \/ csr.priv < CsrPriv(i.csr)
     \/ csr_write_intent(i) /\ CsrReadOnly(i.csr)
     \/ i.csr = "ssp" /\ csr.priv # PrvM /\ ~current_sse_enabled
     \/ i.csr = "satp" /\ csr.priv = PrvS /\ TVM \in csr.reg["mstatus"]

privileged_illegal_instr_ID ==
  \/ csr_illegal(ifid.instr)
  \/ ifid.instr.op = "MRET" /\ csr.priv # PrvM
  \/ /\ ifid.instr.op = "SRET"
     /\ \/ csr.priv = PrvU
        \/ csr.priv = PrvS /\ TSR \in csr.reg["mstatus"]

instr_access_fault_exception_ID == ifid.valid /\ ifid.fault

software_check_exception_ID ==
  /\ ifid.valid /\ ~ifid.fault
  /\ current_lpe_enabled(csr)
  /\ csr.elp
  /\ ~lpad_pass_ID

illegal_instr_exception_ID ==
  /\ ifid.valid /\ ~ifid.fault
  /\ is_illegal_instr(ifid.instr) \/ privileged_illegal_instr_ID

id_exception_candidate_ID ==
  \/ instr_access_fault_exception_ID
  \/ software_check_exception_ID
  \/ illegal_instr_exception_ID

\* Mutant of older_pipeline_active: ID counts itself as older.
older_pipeline_active_with_ID ==
  ifid.valid \/ idex.valid \/ exmem.valid \/ memwb.valid \/ mul_busy \/ mul_rf_we_o

older_pipeline_active ==
  idex.valid \/ exmem.valid \/ memwb.valid \/ mul_busy \/ mul_rf_we_o

\* Mutant of id_exception_wait: an instruction in WB counts as done.
id_exception_wait_not_for_WB ==
  /\ id_exception_candidate_ID
  /\ idex.valid \/ exmem.valid \/ mul_busy
  /\ ~redirect_from_ex_stage
  /\ ~sspopchk_fault_WB

id_exception_wait ==
  /\ id_exception_candidate_ID
  /\ older_pipeline_active
  /\ ~redirect_from_ex_stage
  /\ ~sspopchk_fault_WB

id_exception_ready ==
  /\ id_exception_candidate_ID
  /\ ~older_pipeline_active
  /\ ~redirect_from_ex_stage
  /\ ~sspopchk_fault_WB

\* Mutant of shadow_serialize: only EX is looked at.
shadow_serialize_EX_only == shadow_mem_active_EX

shadow_serialize ==
  \/ shadow_mem_active_EX
  \/ exmem.valid /\ exmem.sl \in Shadow
  \/ memwb.valid /\ memwb.sl \in Shadow

\* Mutants of mul_in_flight: EX is forgotten; the valid bits are not looked at.
mul_in_flight_past_EX == {mul[s].rd : s \in mul_stage_busy}

mul_in_flight_idle_too ==
  {mul[s].rd : s \in 1 .. 4} \cup (IF opEX = "MUL" THEN {idex.instr.rd} ELSE {})

mul_in_flight ==
  {mul[s].rd : s \in mul_stage_busy} \cup
  (IF opEX = "MUL" THEN {idex.instr.rd} ELSE {})

hazard == any_hazard(ifid.instr, stageEX, stageMEM, mul_in_flight,
                     mul[1].valid, shadow_serialize)

mul_commit_serialize_active == opEX = "MUL" \/ mul_busy

flushes_id_exception_ID ==
  \/ redirect_from_ex_stage
  \/ sspopchk_fault_WB
  \/ id_exception_wait
  \/ mul_commit_serialize_active
  \/ shadow_serialize

keep_PC == hazard \/ id_exception_wait

-----------------------------------------------------------------------------
(* Exceptions, in the order of the priority multiplexer. *)

Exc(at, cause, tval) == [valid |-> TRUE, pc |-> at, cause |-> cause, tval |-> tval]

instr_fault_effective_ID == instr_access_fault_exception_ID /\ id_exception_ready
software_check_effective_ID ==
  software_check_exception_ID /\ id_exception_ready /\ ~instr_access_fault_exception_ID
illegal_instr_effective_ID ==
  /\ illegal_instr_exception_ID /\ id_exception_ready
  /\ ~instr_access_fault_exception_ID /\ ~software_check_exception_ID

exception_valid ==
  \/ sspopchk_fault_WB
  \/ exception_valid_EX
  \/ instr_fault_effective_ID
  \/ software_check_effective_ID
  \/ illegal_instr_effective_ID

EcallCause == CASE csr.priv = PrvU -> 8 [] csr.priv = PrvS -> 9 [] OTHER -> 11

exception_EX ==
  IF instr_misaligned_EX         THEN Exc(idex.pc, 0, branch_target_normal)
  ELSE IF load_misaligned_EX     THEN Exc(idex.pc, 4, alu_result_EX)
  ELSE IF store_misaligned_EX    THEN Exc(idex.pc, 6, mem_addr_EX)
  ELSE IF load_access_fault_EX   THEN Exc(idex.pc, 5, mem_addr_EX)
  ELSE IF store_access_fault_EX  THEN Exc(idex.pc, 7, mem_addr_EX)
  ELSE IF shadow_access_fault_EX THEN Exc(idex.pc, 7, shadow_addr_EX)
  ELSE Exc(idex.pc, EcallCause, 0)

exception_ID ==
  IF instr_fault_effective_ID         THEN Exc(ifid.pc, 1, ifid.pc)
  ELSE IF software_check_effective_ID THEN Exc(ifid.pc, 18, 2)
  ELSE Exc(ifid.pc, 2, ifid.instr.enc)

exception ==
  IF sspopchk_fault_WB       THEN Exc(memwb.pc, 18, 3)
  ELSE IF exception_valid_EX THEN exception_EX
  ELSE IF exception_valid    THEN exception_ID
  ELSE [valid |-> FALSE, pc |-> 0, cause |-> 0, tval |-> 0]

-----------------------------------------------------------------------------
(* The other ports of the CSR unit. *)

xret == IF ~xret_EX THEN "none" ELSE IF opEX = "MRET" THEN "mret" ELSE "sret"

sspush_EX == shadow_mem_active_EX /\ opEX = "SSPUSH"

ssp_update ==
  [valid |-> (sspush_EX /\ ~shadow_access_fault_EX) \/ sspopchk_success_WB,
   data  |-> IF sspush_EX THEN shadow_addr_EX ELSE Wrap(ssp_value + 4)]

\* Mutant of elp_set_EX: the link register is looked for in rd.
elp_set_EX_by_rd ==
  /\ idex.valid
  /\ current_lpe_enabled(csr)
  /\ opEX = "JALR"
  /\ idex.instr.rd \notin {1, 5, 7}
  /\ ~exception_valid_EX

\* An indirect jump that is neither a return nor software guarded.
elp_set_EX ==
  /\ idex.valid
  /\ current_lpe_enabled(csr)
  /\ opEX = "JALR"
  /\ idex.instr.rs1 \notin {1, 5, 7}
  /\ ~exception_valid_EX

elp_update ==
  [valid    |-> \/ elp_set_EX
                \/ lpad_pass_ID /\ ifid.valid /\ ~flushes_id_exception_ID,
   expected |-> elp_set_EX]

csr_write ==
  IF idex.valid /\ csr_write_intent(idex.instr) /\ idex.instr.csr \in CsrName
  THEN [valid |-> TRUE, name |-> idex.instr.csr, op |-> csr_op(idex.instr),
        operand |-> Bits(IF opEX \in CsrImmOps THEN idex.instr.rs1 ELSE idex.rd1)]
  ELSE [valid |-> FALSE, name |-> "none", op |-> "RW", operand |-> {}]

-----------------------------------------------------------------------------
(* The back end: what every clock edge does behind ID/EX. *)

\* Mutant of StepEXMEM: the instruction that traps in EX moves on.
StepEXMEM_unflushed ==
  exmem' =
    IF sspopchk_fault_WB THEN EXMEMBubble
    ELSE [valid   |-> idex.valid,
          pc      |-> idex.pc,
          rf_we   |-> rf_we(idex.instr),
          rd      |-> idex.instr.rd,
          wd      |-> rf_wd_EX,
          load    |-> opEX = "LW",
          dram_we |-> dram_we(idex.instr),
          sl      |-> sl_type_effective_EX,
          addr    |-> IF shadow_mem_active_EX THEN shadow_addr_EX ELSE alu_result_EX,
          rd2     |-> idex.rd2]

StepEXMEM ==
  exmem' =
    IF exception_valid_EX \/ sspopchk_fault_WB THEN EXMEMBubble
    ELSE [valid   |-> idex.valid,
          pc      |-> idex.pc,
          rf_we   |-> rf_we(idex.instr),
          rd      |-> idex.instr.rd,
          wd      |-> rf_wd_EX,
          load    |-> opEX = "LW",
          dram_we |-> dram_we(idex.instr),
          sl      |-> sl_type_effective_EX,
          addr    |-> IF shadow_mem_active_EX THEN shadow_addr_EX ELSE alu_result_EX,
          rd2     |-> idex.rd2]

\* StoreUnit enables no byte lane when the access type is not a store.
wstrb_MEM == exmem.dram_we /\ exmem.sl \in {"SW", "SSPUSH"}

DRAM_input_data == IF exmem.sl = "SSPUSH" THEN exmem.wd ELSE exmem.rd2

ram_data_next ==
  IF wstrb_MEM THEN [dram EXCEPT ![IndexOf(exmem.addr)] = DRAM_input_data] ELSE dram

StepMemory ==
  /\ dram' = ram_data_next
  /\ spo' = dram[IndexOf(exmem.addr)]

StepMEMWB ==
  memwb' =
    IF sspopchk_fault_WB THEN MEMWBBubble
    ELSE [valid |-> exmem.valid, pc |-> exmem.pc, rf_we |-> exmem.rf_we,
          rd |-> exmem.rd, wd |-> exmem.wd, load |-> exmem.load, sl |-> exmem.sl]

\* Mutants of StepMul: the product is not cut to XLEN bits; the stages stall
\* with the front end.
StepMul_full_product ==
  mul' = [s \in 1 .. 4 |->
            IF redirect_from_ex_stage THEN MulIdle
            ELSE IF s > 1 THEN mul[s - 1]
            ELSE IF opEX = "MUL" /\ idex.valid
                 THEN [valid |-> TRUE, rd |-> idex.instr.rd, res |-> idex.rd1 * idex.rd2]
                 ELSE MulIdle]

StepMul_stalling ==
  mul' = [s \in 1 .. 4 |->
            IF redirect_from_ex_stage THEN MulIdle
            ELSE IF keep_PC /\ mul_busy THEN mul[s]
            ELSE IF s > 1 THEN mul[s - 1]
            ELSE IF opEX = "MUL" /\ idex.valid
                 THEN [valid |-> TRUE, rd |-> idex.instr.rd,
                       res |-> Wrap(idex.rd1 * idex.rd2)]
                 ELSE MulIdle]

\* A redirect from EX empties the multiplier.
StepMul ==
  mul' = [s \in 1 .. 4 |->
            IF redirect_from_ex_stage THEN MulIdle
            ELSE IF s > 1 THEN mul[s - 1]
            ELSE IF opEX = "MUL" /\ idex.valid
                 THEN [valid |-> TRUE, rd |-> idex.instr.rd,
                       res |-> Wrap(idex.rd1 * idex.rd2)]
                 ELSE MulIdle]

StepRegisterF ==
  rf' = IF commit.we /\ commit.rd \in Regs \ {0}
        THEN [rf EXCEPT ![commit.rd] = commit.wd]
        ELSE rf

StepCsr == csr' = CsrNext(csr, exception, xret, ssp_update, elp_update, csr_write)

BackEnd ==
  /\ StepEXMEM
  /\ StepMemory
  /\ StepMEMWB
  /\ StepMul
  /\ StepRegisterF
  /\ StepCsr
  /\ UNCHANGED rom

-----------------------------------------------------------------------------
(* The front end. *)

\* Load IF/ID from the instruction memory.
Fetched ==
  [valid |-> TRUE, pc |-> pc, instr |-> rom[IndexOf(pc)], fault |-> fetch_access_fault_IF]

\* Load ID/EX; fired says that ID redirected the fetch to a predicted target.
Issued(fired) ==
  LET i == ifid.instr
  IN  [valid |-> ifid.valid, pc |-> ifid.pc, instr |-> i,
       rd1 |-> forward(rs1_used(i), i.rs1, stageEX, stageMEM, stageWB, rf_read(i.rs1)),
       rd2 |-> forward(rs2_used(i), i.rs2, stageEX, stageMEM, stageWB, rf_read(i.rs2)),
       pred |-> fired,
       ptarget |-> Wrap(ifid.pc + i.imm)]

\* Mutant of Redirect: the instruction behind the redirect stays in ID.
Redirect_keeps_IFID(target) ==
  /\ pc' = target
  /\ UNCHANGED ifid
  /\ idex' = IDEXBubble

Redirect(target) ==
  /\ pc' = target
  /\ ifid' = IFIDBubble
  /\ idex' = IDEXBubble

\* An exception from WB, EX or ID.
Trap ==
  /\ exception_valid
  /\ Redirect(trap_target(csr, exception.cause))
  /\ BackEnd

\* MRET or SRET in EX.
XReturn ==
  /\ ~exception_valid
  /\ xret_EX
  /\ Redirect(Value(csr.reg[IF opEX = "MRET" THEN "mepc" ELSE "sepc"]))
  /\ BackEnd

\* A branch, JAL or JALR in EX whose fetch went the wrong way.
Recover ==
  /\ ~exception_valid
  /\ ~xret_EX
  /\ normal_control_mispredict_EX
  /\ Redirect(IF take_branch_normal THEN branch_target_normal ELSE Wrap(idex.pc + 4))
  /\ BackEnd

take_branch_NextPC == exception_valid \/ xret_EX \/ normal_control_mispredict_EX

\* The instruction in ID waits; a bubble enters EX.
Stall ==
  /\ ~take_branch_NextPC
  /\ keep_PC
  /\ idex' = IDEXBubble
  /\ UNCHANGED <<pc, ifid>>
  /\ BackEnd

\* Mutant of may_predict: JALR is predicted too.
may_predict_JALR ==
  /\ BpuEnabled
  /\ ifid.valid /\ ~ifid.fault
  /\ ifid.instr.op \in BranchOps \cup JumpOps

\* The predictor may call any conditional branch taken: which ones is the
\* business of the predictor chosen by BPU_TYPE.  JAL is always predicted,
\* JALR never.
may_predict ==
  /\ BpuEnabled
  /\ ifid.valid /\ ~ifid.fault
  /\ ifid.instr.op \in BranchOps \cup {"JAL"}

PredictedFetch ==
  /\ ~take_branch_NextPC
  /\ ~keep_PC
  /\ may_predict
  /\ pc' = Wrap(ifid.pc + ifid.instr.imm)
  /\ ifid' = IFIDBubble
  /\ idex' = Issued(TRUE)
  /\ BackEnd

SequentialFetch ==
  /\ ~take_branch_NextPC
  /\ ~keep_PC
  /\ ~(may_predict /\ ifid.instr.op = "JAL")
  /\ pc' = Wrap(pc + 4)
  /\ ifid' = Fetched
  /\ idex' = Issued(FALSE)
  /\ BackEnd

-----------------------------------------------------------------------------

\* The MRET that ended the boot code, one cycle after it redirected the fetch.
BootMret == InertEXMEM(TRUE)

Init ==
  /\ rom \in Programs
  /\ \E b \in Boots :
       /\ pc = b.pc
       /\ csr = b.csr
       /\ rf = b.rf
       /\ exmem = IF b.csr = ResetCsr THEN EXMEMBubble ELSE BootMret
  /\ ifid = IFIDBubble
  /\ idex = IDEXBubble
  /\ memwb = MEMWBBubble
  /\ spo = 0
  /\ mul = [s \in 1 .. 4 |-> MulIdle]
  /\ dram = [a \in WordIndex |-> 0]

Next ==
  \/ Trap
  \/ XReturn
  \/ Recover
  \/ Stall
  \/ PredictedFetch
  \/ SequentialFetch

Spec == Init /\ [][Next]_vars

\* The clock keeps ticking.
FairSpec == Spec /\ WF_vars(Next)

-----------------------------------------------------------------------------
(* Type invariant. *)

SlType == {"NOP", "LW", "SW", "SSPUSH", "SSPOPCHK"}

\* Every control field of the pipeline registers has its type: valid bits and
\* enables are Booleans, access types are known, and the CSR file is well formed.
ControlTypeOK ==
  /\ {ifid.valid, ifid.fault, idex.valid, idex.pred} \subseteq BOOLEAN
  /\ {exmem.valid, exmem.rf_we, exmem.dram_we} \subseteq BOOLEAN
  /\ {memwb.valid, memwb.rf_we} \subseteq BOOLEAN
  /\ {exmem.sl, memwb.sl} \subseteq SlType
  /\ \A s \in 1 .. 4 : mul[s].valid \in BOOLEAN
  /\ csr \in CsrState

\* Every data field is a word of XLEN bits, every instruction a known one.
DataTypeOK ==
  /\ {ifid.instr, idex.instr} \subseteq Instruction
  /\ {pc, ifid.pc, idex.pc, idex.rd1, idex.rd2, idex.ptarget, exmem.pc,
      exmem.wd, exmem.rd2, exmem.addr, memwb.pc, memwb.wd, spo} \subseteq Word
  /\ \A s \in 1 .. 4 : mul[s].res \in Word
  /\ rf \in [Regs -> Word]
  /\ dram \in [WordIndex -> Word]

TypeOK == ControlTypeOK /\ DataTypeOK

-----------------------------------------------------------------------------
(* Safety. *)

\* The pipeline and the multiplier never want the register file's only write
\* port in the same cycle (the assertion of CPU_TOP.sv:1154): the loser's
\* result would be dropped without a trace.
CommitPortExclusive == ~(memwb.rf_we /\ mul_rf_we_o)

\* A redirect in EX empties the whole multiplier, so it must never find an
\* older multiplication there: that instruction has retired from the pipeline
\* and only the multiplier still knows its result.
RedirectSparesOlderMul == redirect_from_ex_stage => ~mul_busy

\* When SSPOPCHK fails in WB, everything behind it is still undone: nothing is
\* in EX, MEM or the multiplier that the trap would have to take back.
PopCheckTrapPrecise ==
  sspopchk_fault_WB => ~idex.valid /\ ~exmem.valid /\ ~mul_busy

\* SSPUSH (in EX) and SSPOPCHK (in WB) share one update port of ssp and never
\* use it in the same cycle; the multiplexer would drop one of the updates.
SspPortExclusive == ~(sspush_EX /\ sspopchk_WB)

\* While a landing pad is expected, no instruction is in EX: nothing executes
\* between an indirect jump (or the xRET that restored ELP) and the landing
\* pad that answers it.
NothingRunsBeforeThePad == csr.elp => ~idex.valid

\* ELP is never pending where landing pads are switched off: no software-check
\* could answer it there, and it would resurface after a later mode change.
ElpOnlyWhereEnabled == csr.elp => current_lpe_enabled(csr)

\* EX never holds an instruction from an address its privilege level may not
\* fetch from under the PMP entry in force.
ExecutesOnlyPermitted ==
  idex.valid => ~access_fault("fetch", idex.pc, 4, csr.priv,
                              csr.reg["pmpcfg0"], Value(csr.reg["pmpaddr0"]))

\* What theorems assume where ExecutesOnlyPermitted has to hold in M mode too: no
\* program of the memory writes the PMP entry, the boot code has set it.
PmpLeftToBoot ==
  \A p \in Programs, a \in WordIndex :
    csr_write_intent(p[a]) => p[a].csr \notin {"pmpcfg0", "pmpaddr0"}

\* A CSR write in EX is not crowded out by the landing-pad and shadow-stack
\* ports that come before it in the CSR unit's if/else chain.
CsrWriteNotDropped == csr_write.valid => ~elp_update.valid /\ ~ssp_update.valid

\* The fetch address is always aligned (the debug assertion of
\* CPU_TOP.sv:1163).
FetchAligned == pc % 4 = 0

-----------------------------------------------------------------------------
(* How instructions in flight keep out of each other's way: the invariant    *)
(* the safety properties rest on (PipelineProofs).                           *)

BubblesInert ==
  /\ ~ifid.valid  => ifid.instr = Zero
  /\ ~idex.valid  => idex.instr = Zero
  /\ ~exmem.valid => ~exmem.rf_we /\ ~exmem.dram_we /\ exmem.sl = "NOP"
  /\ ~memwb.valid => ~memwb.rf_we /\ memwb.sl = "NOP"

\* Behind a multiplication nothing enters EX, and ahead of it the shadow stack
\* is quiet; from its third stage on it is alone in the machine.
MulAlone ==
  /\ mul_busy => ~idex.valid
  /\ mul[1].valid => ~exmem.rf_we /\ exmem.sl = "NOP" /\ memwb.sl \notin Shadow
  /\ mul[2].valid => ~exmem.valid /\ ~memwb.rf_we /\ memwb.sl = "NOP"
  /\ mul[3].valid \/ mul[4].valid => ~exmem.valid /\ ~memwb.valid

ShadowAlone ==
  /\ exmem.sl \in Shadow => ~idex.valid
  /\ memwb.sl \in Shadow => ~idex.valid /\ ~exmem.valid

JumpNeverPredicted == opEX = "JALR" => ~idex.pred

\* The instructions in flight never overlap where they share a resource: an
\* empty stage does nothing, a multiplication and a shadow-stack access travel
\* alone, and an indirect jump always redirects the fetch.
InFlightDiscipline ==
  BubblesInert /\ MulAlone /\ ShadowAlone /\ JumpNeverPredicted

-----------------------------------------------------------------------------
(* Liveness. *)

Stalling == ~take_branch_NextPC /\ keep_PC

\* No hazard feeds itself: every stall of the front end ends.
StallsEnd == []<>~Stalling

\* An exception found in ID, held back until older instructions have drained,
\* is eventually taken or flushed.
HeldExceptionResolved == id_exception_candidate_ID ~> ~ifid.valid
=============================================================================
