-------------------------------- MODULE Decoder --------------------------------
(***************************************************************************)
(* Instructions and the control signals EsCute-RV derives from them        *)
(* (Decoder.sv).  An instruction is a record of its fields; op stands for  *)
(* a whole encoding class: one member for each class the control treats    *)
(* differently (one ALU operation, one multiplication, word accesses).     *)
(***************************************************************************)
EXTENDS Integers

\* LUI stands for LUI and, with AUIPC, for every result taken from the ID adder.
AluOps    == {"ADD", "ADDI", "LUI"}
JumpOps   == {"JAL", "JALR"}
BranchOps == {"BEQ", "BNE"}
MemOps    == {"LW", "SW"}
CsrRegOps == {"CSRRW", "CSRRS", "CSRRC"}
CsrImmOps == {"CSRRWI", "CSRRSI", "CSRRCI"}
CsrOps    == CsrRegOps \cup CsrImmOps
SystemOps == {"ECALL", "MRET", "SRET"}
CfiOps    == {"LPAD", "SSPUSH", "SSPOPCHK", "SSRDP"}

\* "ZERO" is the all-zero word a flush leaves behind; "ILLEGAL" any other
\* encoding the decoder rejects.
Ops == AluOps \cup JumpOps \cup BranchOps \cup MemOps \cup CsrOps \cup SystemOps
         \cup CfiOps \cup {"MUL", "FENCE", "ZERO", "ILLEGAL"}

Reg == 0 .. 31

\* The CSR an instruction names, or "none" where its address is no CSR's.
Instruction == [op : Ops, rd : Reg, rs1 : Reg, rs2 : Reg, imm : Int,
                csr : STRING \cup {"none"}, enc : Nat]

\* enc is the encoding itself, which only mtval/stval of an illegal
\* instruction show; rs1 is also the zimm field of the CSR immediate forms.
Zero == [op |-> "ZERO", rd |-> 0, rs1 |-> 0, rs2 |-> 0, imm |-> 0,
         csr |-> "none", enc |-> 0]

-----------------------------------------------------------------------------

rs1_used(i) ==
  i.op \notin {"LUI", "JAL", "ZERO", "LPAD", "SSPUSH", "SSRDP"}
                \cup CsrImmOps \cup SystemOps

rs2_used(i) == i.op \in {"ADD", "MUL", "SW", "SSPUSH"} \cup BranchOps

\* The multiplier writes its own result, so MUL does not set rf_we.
rf_we(i) ==
  \/ i.op \in AluOps \cup JumpOps \cup {"LW", "SSRDP"}
  \/ i.op \in CsrOps /\ i.rd # 0

dram_we(i) == i.op \in {"SW", "SSPUSH"}

wd_sel(i) ==
  CASE i.op = "MUL"       -> "MUL"
    [] i.op = "SSRDP"     -> "SSP"
    [] i.op = "LW"        -> "DRAM"
    [] i.op \in JumpOps   -> "PC4"
    [] i.op = "LUI"       -> "IEXT"
    [] i.op \in CsrOps \cup {"SSPUSH", "SSPOPCHK"} -> "CSR"
    [] OTHER              -> "ALU"

sl_type(i) == IF i.op \in MemOps \cup {"SSPUSH", "SSPOPCHK"} THEN i.op ELSE "NOP"

is_illegal_instr(i) ==
  \/ i.op \in {"ILLEGAL", "ZERO"}
  \/ i.op = "SSRDP" /\ i.rd = 0

csr_op(i) ==
  CASE i.op \in {"CSRRW", "CSRRWI"} -> "RW"
    [] i.op \in {"CSRRS", "CSRRSI"} -> "RS"
    [] i.op \in {"CSRRC", "CSRRCI"} -> "RC"

\* CSRRS and CSRRC with x0 (or a zero immediate) only read.
csr_write_intent(i) ==
  /\ i.op \in CsrOps
  /\ i.op \in {"CSRRW", "CSRRWI"} \/ i.rs1 # 0
=============================================================================
