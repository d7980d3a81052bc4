---------------------------------- MODULE Isa ----------------------------------
(***************************************************************************)
(* What the core promises its software: the registers, memory and CSRs     *)
(* change as if instructions executed one at a time, in program order,     *)
(* each either completing or trapping with no other effect.  No pipeline,  *)
(* no prediction, no multiplier latency.  Pipeline is shown to implement   *)
(* this machine (PipelineIsa).                                             *)
(***************************************************************************)
EXTENDS PmpPma, Decoder

CONSTANT Regs      \* the general registers the programs use

VARIABLES rom, pc, rf, dram, csr

vars == <<rom, pc, rf, dram, csr>>

Slots == 0 .. (PmaLimit \div 4 - 1)
Slot(addr) == (addr \div 4) % (PmaLimit \div 4)

Instr == rom[Slot(pc)]
op    == Instr.op
X(r)  == IF r \in Regs \ {0} THEN rf[r] ELSE 0
src1  == X(Instr.rs1)
src2  == X(Instr.rs2)

Faults(access, addr) ==
  access_fault(access, addr, 4, csr.priv,
               csr.reg["pmpcfg0"], Value(csr.reg["pmpaddr0"]))

ssp == Value(csr.reg["ssp"])

-----------------------------------------------------------------------------
(* Conditions checked before an instruction executes, in this order. *)

FetchFaults == Faults("fetch", pc)

LabelMatches == Instr.imm = 0 \/ Instr.imm = X(7) \div 4096

\* After an indirect jump only a matching LPAD may execute.
PadMissing ==
  /\ csr.elp /\ current_lpe_enabled(csr)
  /\ ~(op = "LPAD" /\ LabelMatches)

NoPrivilege ==
  \/ /\ op \in CsrOps
     /\ \/ Instr.csr \notin CsrName
        \/ csr.priv < CsrPriv(Instr.csr)
        \/ CsrReadOnly(Instr.csr) /\ csr_write_intent(Instr)
        \/ Instr.csr = "ssp" /\ csr.priv # PrvM /\ ~shadow_stack_enabled(csr)
        \/ Instr.csr = "satp" /\ csr.priv = PrvS /\ TVM \in csr.reg["mstatus"]
  \/ op = "MRET" /\ csr.priv # PrvM
  \/ op = "SRET" /\ csr.priv = PrvU
  \/ op = "SRET" /\ csr.priv = PrvS /\ TSR \in csr.reg["mstatus"]

Illegal == is_illegal_instr(Instr) \/ NoPrivilege

Executes(ops) ==
  /\ ~FetchFaults
  /\ ~PadMissing
  /\ ~Illegal
  /\ op \in ops

-----------------------------------------------------------------------------
(* How an instruction ends. *)

Take(cause, tval) ==
  /\ csr' = TrapEntry(csr, [pc |-> pc, cause |-> cause, tval |-> tval])
  /\ pc' = trap_target(csr, cause)
  /\ UNCHANGED <<rom, rf, dram>>

SetRd(w) == rf' = IF Instr.rd \in Regs \ {0} THEN [rf EXCEPT ![Instr.rd] = w] ELSE rf

Goto(target) == pc' = target /\ UNCHANGED rom

NextInstr == Goto(Wrap(pc + 4))

-----------------------------------------------------------------------------

FetchFault == FetchFaults /\ Take(1, pc)

LandingPadFault == ~FetchFaults /\ PadMissing /\ Take(18, 2)

IllegalInstruction == ~FetchFaults /\ ~PadMissing /\ Illegal /\ Take(2, Instr.enc)

Compute ==
  /\ Executes(AluOps \cup {"MUL", "SSRDP", "FENCE"})
  /\ IF op = "FENCE" THEN UNCHANGED rf
     ELSE SetRd(CASE op = "ADD"   -> Wrap(src1 + src2)
                  [] op = "ADDI"  -> Wrap(src1 + Instr.imm)
                  [] op = "LUI"   -> Instr.imm
                  [] op = "MUL"   -> Wrap(src1 * src2)
                  [] op = "SSRDP" -> IF shadow_stack_enabled(csr) THEN ssp ELSE 0)
  /\ NextInstr
  /\ UNCHANGED <<dram, csr>>

Branch ==
  /\ Executes(BranchOps)
  /\ LET taken  == (op = "BEQ") = (src1 = src2)
         target == Wrap(pc + Instr.imm)
     IN  IF taken /\ target % 4 # 0
         THEN Take(0, target)
         ELSE /\ Goto(IF taken THEN target ELSE Wrap(pc + 4))
              /\ UNCHANGED <<rf, dram, csr>>

\* An indirect jump through any register but x1, x5, x7 expects a landing pad.
Jump ==
  /\ Executes(JumpOps)
  /\ LET sum    == Wrap(IF op = "JALR" THEN src1 + Instr.imm ELSE pc + Instr.imm)
         target == IF op = "JALR" THEN sum - (sum % 2) ELSE sum
     IN  IF target % 4 # 0
         THEN Take(0, target)
         ELSE /\ SetRd(Wrap(pc + 4))
              /\ Goto(target)
              /\ csr' = IF /\ op = "JALR"
                           /\ Instr.rs1 \notin {1, 5, 7}
                           /\ current_lpe_enabled(csr)
                        THEN [csr EXCEPT !.elp = TRUE] ELSE csr
              /\ UNCHANGED dram

Load ==
  /\ Executes({"LW"})
  /\ LET a == Wrap(src1 + Instr.imm)
     IN  IF a % 4 # 0 THEN Take(4, a)
         ELSE IF Faults("load", a) THEN Take(5, a)
         ELSE /\ SetRd(dram[Slot(a)])
              /\ NextInstr
              /\ UNCHANGED <<dram, csr>>

Store ==
  /\ Executes({"SW"})
  /\ LET a == Wrap(src1 + Instr.imm)
     IN  IF a % 4 # 0 THEN Take(6, a)
         ELSE IF Faults("store", a) THEN Take(7, a)
         ELSE /\ dram' = [dram EXCEPT ![Slot(a)] = src2]
              /\ NextInstr
              /\ UNCHANGED <<rf, csr>>

CsrAccess ==
  /\ Executes(CsrOps)
  /\ LET old     == csr_rdata(csr, Instr.csr)
         operand == Bits(IF op \in CsrImmOps THEN Instr.rs1 ELSE src1)
     IN  /\ IF Instr.rd # 0 THEN SetRd(Value(old)) ELSE UNCHANGED rf
         /\ csr' = IF csr_write_intent(Instr)
                   THEN CsrWrite(csr, Instr.csr,
                                 csr_new_value(csr, Instr.csr, csr_op(Instr), operand))
                   ELSE csr
  /\ NextInstr
  /\ UNCHANGED dram

EnvironmentCall ==
  /\ Executes({"ECALL"})
  /\ Take(CASE csr.priv = PrvU -> 8 [] csr.priv = PrvS -> 9 [] OTHER -> 11, 0)

TrapReturn ==
  /\ Executes({"MRET", "SRET"})
  /\ csr' = IF op = "MRET" THEN Mret(csr) ELSE Sret(csr)
  /\ Goto(Value(csr.reg[IF op = "MRET" THEN "mepc" ELSE "sepc"]))
  /\ UNCHANGED <<rf, dram>>

LandingPad ==
  /\ Executes({"LPAD"})
  /\ csr' = [csr EXCEPT !.elp = FALSE]
  /\ NextInstr
  /\ UNCHANGED <<rf, dram>>

\* With the shadow stack off, SSPUSH and SSPOPCHK do nothing.
ShadowIdle ==
  /\ Executes({"SSPUSH", "SSPOPCHK"})
  /\ ~shadow_stack_enabled(csr)
  /\ NextInstr
  /\ UNCHANGED <<rf, dram, csr>>

ShadowPush ==
  /\ Executes({"SSPUSH"})
  /\ shadow_stack_enabled(csr)
  /\ LET a == Wrap(ssp - 4)
     IN  IF Faults("store", a) \/ a % 4 # 0 THEN Take(7, a)
         ELSE /\ dram' = [dram EXCEPT ![Slot(a)] = src2]
              /\ csr' = [csr EXCEPT !.reg["ssp"] = Bits(a)]
              /\ NextInstr
              /\ UNCHANGED rf

ShadowPopCheck ==
  /\ Executes({"SSPOPCHK"})
  /\ shadow_stack_enabled(csr)
  /\ IF Faults("load", ssp) THEN Take(5, ssp)
     ELSE IF ssp % 4 # 0 THEN Take(7, ssp)
     ELSE IF dram[Slot(ssp)] # src1 THEN Take(18, 3)
     ELSE /\ csr' = [csr EXCEPT !.reg["ssp"] = Bits(Wrap(ssp + 4))]
          /\ NextInstr
          /\ UNCHANGED <<rf, dram>>

-----------------------------------------------------------------------------

\* Any program, from any state in which no landing pad is expected.
Init ==
  /\ rom \in [Slots -> Instruction]
  /\ pc \in Word
  /\ rf \in [Regs -> Word]
  /\ csr \in CsrState /\ ~csr.elp
  /\ dram = [a \in Slots |-> 0]

Next ==
  \/ FetchFault      \/ LandingPadFault \/ IllegalInstruction
  \/ Compute         \/ Branch          \/ Jump
  \/ Load            \/ Store           \/ CsrAccess
  \/ EnvironmentCall \/ TrapReturn      \/ LandingPad
  \/ ShadowIdle      \/ ShadowPush      \/ ShadowPopCheck

Spec == Init /\ [][Next]_vars /\ WF_vars(Next)
=============================================================================
