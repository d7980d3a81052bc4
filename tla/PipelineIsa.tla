------------------------------ MODULE PipelineIsa ------------------------------
(***************************************************************************)
(* The pipeline implements the architectural machine Isa.                  *)
(*                                                                         *)
(* An instruction counts as executed when it leaves EX, so the abstract    *)
(* state is the concrete one with the work still in MEM, WB and the        *)
(* multiplier completed.  There are three exceptions.  An SSPOPCHK counts  *)
(* as executed when WB has compared; an instruction that traps in ID, when *)
(* it traps; and an LPAD clears ELP when it leaves ID, one cycle before it *)
(* counts, so the history variable paid remembers the debt.                *)
(***************************************************************************)
EXTENDS Pipeline

VARIABLE paid     \* the LPAD now in EX has cleared ELP

hvars == <<vars, paid>>

InitH == Init /\ paid = FALSE

NextH ==
  /\ Next
  /\ paid' = (/\ csr.elp
              /\ ifid.instr.op = "LPAD"
              /\ idex'.valid)

SpecH     == InitH /\ [][NextH]_hvars
FairSpecH == SpecH /\ WF_hvars(NextH)

-----------------------------------------------------------------------------
(* The refinement mapping. *)

\* The value the write in MEM will carry once it reaches the register file.
wd_MEM_done == IF exmem.load THEN dram[IndexOf(exmem.addr)] ELSE exmem.wd

pc_abs ==
  IF exmem.valid /\ exmem.sl = "SSPOPCHK"      THEN exmem.pc
  ELSE IF memwb.valid /\ memwb.sl = "SSPOPCHK" THEN memwb.pc
  ELSE IF idex.valid THEN idex.pc
  ELSE IF ifid.valid THEN ifid.pc
  ELSE pc

\* The multiplication in flight that writes register r, if there is one.
mul_to(r) == {mul[s] : s \in {t \in mul_stage_busy : mul[t].rd = r}}

\* Writes on their way to register r, the youngest first: nothing enters EX
\* behind a multiplication, so MEM and WB only hold what is older.
rf_abs ==
  [r \in DOMAIN rf |->
     IF r = 0 THEN rf[r]
     ELSE IF mul_to(r) # {} THEN (CHOOSE m \in mul_to(r) : TRUE).res
     ELSE IF exmem.rf_we /\ exmem.rd = r THEN wd_MEM_done
     ELSE IF memwb.rf_we /\ memwb.rd = r THEN rf_wd_WB
     ELSE rf[r]]

dram_abs == ram_data_next

csr_abs == [csr EXCEPT !.elp = csr.elp \/ paid]

Arch == INSTANCE Isa WITH pc <- pc_abs, rf <- rf_abs, dram <- dram_abs, csr <- csr_abs

\* Every step of the clock is one instruction of Isa, or none: the initial
\* states correspond, and what the software sees changes by whole instructions.
ImplementsIsa == Arch!Init /\ [][Arch!Next]_(Arch!vars)

\* Some instruction is about to leave EX, SSPOPCHK to be decided, or a trap to
\* be taken: the machine goes on executing instructions for ever.
Retiring == idex.valid \/ sspopchk_WB \/ exception_valid
RetiresForever == []<>Retiring

-----------------------------------------------------------------------------
(* What makes the mapping work: the invariant PipelineIsaProofs rests on.     *)

\* The instruction behind the one in EX, if nothing redirects the fetch.
fetch_pc == IF ifid.valid THEN ifid.pc ELSE pc

\* What the software sees in a register once everything in flight has landed.
X_abs(r) == IF r \in Regs \ {0} THEN rf_abs[r] ELSE 0

Faults_abs(access, addr) ==
  access_fault(access, addr, 4, csr.priv, csr.reg["pmpcfg0"], Value(csr.reg["pmpaddr0"]))

\* The stages hold consecutive instructions of the program, up to a prediction.
ProgramOrder ==
  /\ ifid.valid => ifid.instr = rom[IndexOf(ifid.pc)] /\ pc = Wrap(ifid.pc + 4)
  /\ idex.valid => idex.instr = rom[IndexOf(idex.pc)]
  /\ idex.valid /\ ~idex.pred => fetch_pc = Wrap(idex.pc + 4)
  /\ idex.valid /\ idex.pred =>
       /\ ~ifid.valid /\ opEX \in BranchOps \cup {"JAL"}
       /\ pc = idex.ptarget /\ idex.ptarget = branch_target_EX

\* Only behind a taken branch can the fetch address be misaligned.
AddressesAligned ==
  /\ idex.valid => idex.pc % 4 = 0
  /\ ~idex.valid => fetch_pc % 4 = 0
  /\ csr.reg["mepc"] \cap {0, 1} = {} /\ csr.reg["sepc"] \cap {0, 1} = {}

\* What was forwarded to EX is what every older instruction left behind.
OperandsForwarded ==
  idex.valid => /\ rs1_used(idex.instr) => idex.rd1 = X_abs(idex.instr.rs1)
                /\ rs2_used(idex.instr) => idex.rd2 = X_abs(idex.instr.rs2)

LegalInEX == idex.valid => ~is_illegal_instr(idex.instr)

OneMultiplication == \A s, t \in mul_stage_busy : s = t

\* A pop of the shadow stack on its way to WB finds there what it asked for in EX.
PopUnderWay(stage) ==
  /\ rom[IndexOf(stage.pc)].op = "SSPOPCHK"
  /\ ~Faults_abs("fetch", stage.pc)
  /\ stage.wd = X_abs(rom[IndexOf(stage.pc)].rs1)
  /\ fetch_pc = Wrap(stage.pc + 4)
  /\ ssp_value % 4 = 0 /\ ~Faults_abs("load", ssp_value)

PopsUnderWay ==
  /\ exmem.sl = "SSPOPCHK" => PopUnderWay(exmem) /\ exmem.addr = ssp_value
  /\ memwb.sl = "SSPOPCHK" => PopUnderWay(memwb) /\ spo = dram_abs[IndexOf(ssp_value)]

\* The landing pad that has cleared ELP is in EX, and its label is the right one.
PadPaid ==
  /\ paid => /\ idex.valid /\ opEX = "LPAD"
             /\ idex.instr.imm \in {0, LabelOf(X_abs(7))}
  /\ csr.elp => ~exmem.load

RefinementInv ==
  /\ ProgramOrder
  /\ AddressesAligned
  /\ OperandsForwarded
  /\ LegalInEX
  /\ OneMultiplication
  /\ PopsUnderWay
  /\ PadPaid

\* A landing pad whose ELP update would crowd out the CSR write in front of it.
NoPadBehindWrite ==
  \A p \in Programs, a \in WordIndex :
    csr_write_intent(p[a]) => p[IndexOf(Wrap(4 * a + 4))].op # "LPAD"

\* The programs whose instructions the core executes one by one.  The other two
\* kinds are those of the disagreements LostWrite and StaleVerdict (MCFindings).
PrecisePrograms == PmpLeftToBoot /\ NoPadBehindWrite
=============================================================================
