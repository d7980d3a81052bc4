------------------------------ MODULE InsnDecode ------------------------------
(***************************************************************************)
(* The decoder at the level of instruction words (Decoder.sv).  A word is  *)
(* the record of its fields; each output is derived from opcode, funct3    *)
(* and funct7 by its own case statement, as in the RTL.  Words follow one  *)
(* another on the input, without history.                                 *)
(*                                                                         *)
(* Two references judge it: the encodings of the instructions              *)
(* (data/isa/env/encoding.h), and module Decoder, whose classes of         *)
(* instructions the pipeline is modelled with.                             *)
(***************************************************************************)
EXTENDS Integers, FiniteSets

CONSTANT Words       \* words the decoder is given

VARIABLE instr

D == INSTANCE Decoder

-----------------------------------------------------------------------------
(* Recognising instructions *)

OPCODE ==
  [RTYPE |-> 51, ITYPE |-> 19, BTYPE |-> 99, JAL |-> 111, JALR |-> 103, STYPE |-> 35,
   AUIPC |-> 23, LUI |-> 55, LTYPE |-> 3, ZICSR |-> 115, FENCE |-> 15, ZERO |-> 0]

imm12(w) == 32 * w.funct7 + w.rs2

is_mul_funct3(w) == w.funct3 \in 0 .. 3
is_lpad(w)   == w.opcode = OPCODE.AUIPC /\ w.rd = 0
is_sspush(w) ==
  w.opcode = OPCODE.ZICSR /\ w.funct3 = 4 /\ w.funct7 = 103 /\ w.rs1 = 0 /\ w.rd = 0

\* Mutant: a read of the pointer into x0 is a check of an entry.
is_ssrdp_encoding_x0(w) ==
  w.opcode = OPCODE.ZICSR /\ w.funct3 = 4 /\ imm12(w) = 3292 /\ w.rs1 = 0 /\ w.rd # 0

is_ssrdp_encoding(w) ==
  w.opcode = OPCODE.ZICSR /\ w.funct3 = 4 /\ imm12(w) = 3292 /\ w.rs1 = 0

is_ssrdp(w)    == is_ssrdp_encoding(w) /\ w.rd # 0
is_sspopchk(w) ==
  /\ ~is_ssrdp_encoding(w)
  /\ w.opcode = OPCODE.ZICSR /\ w.funct3 = 4 /\ imm12(w) = 3292 /\ w.rd = 0
is_mul(w) == w.opcode = OPCODE.RTYPE /\ w.funct7 = 1 /\ is_mul_funct3(w)

SystemWord(w, n) == imm12(w) = n /\ w.rs1 = 0 /\ w.rd = 0
is_system(w) == w.opcode = OPCODE.ZICSR /\ w.funct3 = 0
is_ecall(w) == is_system(w) /\ SystemWord(w, 0)
is_mret(w)  == is_system(w) /\ SystemWord(w, 770)
is_sret(w)  == is_system(w) /\ SystemWord(w, 258)
is_csr_instr(w) ==
  /\ w.opcode = OPCODE.ZICSR /\ w.funct3 # 0
  /\ ~(is_sspush(w) \/ is_sspopchk(w) \/ is_ssrdp_encoding(w))

-----------------------------------------------------------------------------
(* Outputs *)

\* Mutant: the immediate of a CSR instruction is taken for a register.
csr_use_imm_never(w) == FALSE

csr_use_imm(w) == w.opcode = OPCODE.ZICSR /\ w.funct3 \in 4 .. 7

rs1_used(w) ==
  \/ is_sspopchk(w)
  \/ /\ ~(is_lpad(w) \/ is_sspush(w) \/ is_ssrdp_encoding(w))
     /\ w.opcode \notin {OPCODE.LUI, OPCODE.AUIPC, OPCODE.JAL, OPCODE.ZERO}
     /\ ~csr_use_imm(w) /\ ~is_system(w)

rs2_used(w) ==
  is_sspush(w) \/ w.opcode \in {OPCODE.RTYPE, OPCODE.BTYPE, OPCODE.STYPE}

wd_sel(w) ==
  CASE is_mul(w)   -> "MUL"
    [] is_ssrdp(w) -> "SSP"
    [] is_lpad(w)  -> "ALU"
    [] OTHER ->
       CASE w.opcode \in {OPCODE.LTYPE}             -> "DRAM"
         [] w.opcode \in {OPCODE.JAL, OPCODE.JALR}  -> "PC4"
         [] w.opcode \in {OPCODE.LUI, OPCODE.AUIPC} -> "IEXT"
         [] w.opcode = OPCODE.ZICSR /\ w.funct3 # 0 -> "CSR"
         [] OTHER -> "ALU"

rf_we(w) ==
  /\ ~is_mul(w)
  /\ \/ is_ssrdp(w)
     \/ /\ ~(is_lpad(w) \/ is_sspush(w) \/ is_sspopchk(w))
        /\ \/ w.opcode \in {OPCODE.RTYPE, OPCODE.ITYPE, OPCODE.LTYPE, OPCODE.LUI,
                            OPCODE.AUIPC, OPCODE.JAL, OPCODE.JALR}
           \/ w.opcode = OPCODE.ZICSR /\ w.funct3 # 0 /\ w.rd # 0

dram_we(w) == w.opcode = OPCODE.STYPE \/ is_sspush(w)

\* Mutant: the subtraction is looked for in the immediate forms as well.
subtracts_itype(w) == w.funct7 = 32

subtracts(w) == w.opcode = OPCODE.RTYPE /\ w.funct7 = 32

alu_op(w) ==
  CASE w.opcode \in {OPCODE.RTYPE, OPCODE.ITYPE} ->
         (CASE w.funct3 = 0 -> IF subtracts(w) THEN "SUB" ELSE "ADD"
            [] w.funct3 = 1 -> "SLL" [] w.funct3 = 2 -> "SLT" [] w.funct3 = 3 -> "SLTU"
            [] w.funct3 = 4 -> "XOR"
            [] w.funct3 = 5 -> IF w.funct7 = 32 THEN "SRA" ELSE "SRL"
            [] w.funct3 = 6 -> "OR"  [] w.funct3 = 7 -> "AND")
    [] w.opcode = OPCODE.BTYPE -> IF w.funct3 \in {6, 7} THEN "SLTU" ELSE "SUB"
    [] w.opcode \in {OPCODE.JAL, OPCODE.LUI}    -> "RIGHT"
    [] w.opcode \in {OPCODE.JALR, OPCODE.AUIPC} -> "ADD"
    [] OTHER -> "NOP"

sl_type(w) ==
  CASE is_sspush(w)   -> "SSPUSH"
    [] is_sspopchk(w) -> "SSPOPCHK"
    [] w.opcode = OPCODE.LTYPE ->
         (CASE w.funct3 = 0 -> "LB" [] w.funct3 = 1 -> "LH" [] w.funct3 = 2 -> "LW"
            [] w.funct3 = 4 -> "LBU" [] w.funct3 = 5 -> "LHU" [] OTHER -> "NOP")
    [] w.opcode = OPCODE.STYPE ->
         (CASE w.funct3 = 0 -> "SB" [] w.funct3 = 1 -> "SH" [] w.funct3 = 2 -> "SW"
            [] OTHER -> "NOP")
    [] OTHER -> "NOP"

is_illegal_instr(w) ==
  CASE w.opcode \in {OPCODE.LUI, OPCODE.AUIPC, OPCODE.JAL, OPCODE.FENCE} -> FALSE
    [] w.opcode = OPCODE.JALR  -> w.funct3 # 0
    [] w.opcode = OPCODE.BTYPE -> w.funct3 \in {2, 3}
    [] w.opcode = OPCODE.LTYPE -> w.funct3 \in {3, 6, 7}
    [] w.opcode = OPCODE.STYPE -> w.funct3 \in 3 .. 7
    [] w.opcode = OPCODE.ITYPE ->
         \/ w.funct3 = 1 /\ w.funct7 # 0
         \/ w.funct3 = 5 /\ w.funct7 \notin {0, 32}
    [] w.opcode = OPCODE.RTYPE ->
         IF w.funct7 = 1 THEN ~is_mul_funct3(w)
         ELSE w.funct7 \notin (IF w.funct3 \in {0, 5} THEN {0, 32} ELSE {0})
    [] w.opcode = OPCODE.ZICSR ->
         /\ ~(is_sspush(w) \/ is_sspopchk(w) \/ is_ssrdp(w))
         /\ \/ is_ssrdp_encoding(w)
            \/ w.funct3 = 0 /\ ~(is_ecall(w) \/ is_mret(w) \/ is_sret(w))
            \/ w.funct3 = 4
    [] OTHER -> TRUE

-----------------------------------------------------------------------------

Opcodes == {w.opcode : w \in Words}

Init == instr \in Words

\* Another word comes, of another format.
Next ==
  \E op \in Opcodes \ {instr.opcode} :
    LET w == [instr EXCEPT !.opcode = op] IN w \in Words /\ instr' = w

Spec == Init /\ [][Next]_instr

-----------------------------------------------------------------------------
(* The instructions of RV32I, Zmmul and Zicsr with their encodings: opcode,    *)
(* funct3 and funct7, or the 12 bit immediate when every bit is given.         *)

I(name, opcode) == [name |-> name, opcode |-> opcode, funct3 |-> 0 .. 7, funct7 |-> 0 .. 127]
F3(name, opcode, f3) == [I(name, opcode) EXCEPT !.funct3 = {f3}]
F7(name, opcode, f3, f7) == [F3(name, opcode, f3) EXCEPT !.funct7 = {f7}]

Encodings ==
  {I("LUI", 55), I("AUIPC", 23), I("JAL", 111), F3("JALR", 103, 0),
   F3("BEQ", 99, 0), F3("BNE", 99, 1), F3("BLT", 99, 4), F3("BGE", 99, 5),
   F3("BLTU", 99, 6), F3("BGEU", 99, 7),
   F3("LB", 3, 0), F3("LH", 3, 1), F3("LW", 3, 2), F3("LBU", 3, 4), F3("LHU", 3, 5),
   F3("SB", 35, 0), F3("SH", 35, 1), F3("SW", 35, 2),
   F3("ADDI", 19, 0), F3("SLTI", 19, 2), F3("SLTIU", 19, 3), F3("XORI", 19, 4),
   F3("ORI", 19, 6), F3("ANDI", 19, 7),
   F7("SLLI", 19, 1, 0), F7("SRLI", 19, 5, 0), F7("SRAI", 19, 5, 32),
   F7("ADD", 51, 0, 0), F7("SUB", 51, 0, 32), F7("SLL", 51, 1, 0), F7("SLT", 51, 2, 0),
   F7("SLTU", 51, 3, 0), F7("XOR", 51, 4, 0), F7("SRL", 51, 5, 0), F7("SRA", 51, 5, 32),
   F7("OR", 51, 6, 0), F7("AND", 51, 7, 0),
   F7("MUL", 51, 0, 1), F7("MULH", 51, 1, 1), F7("MULHSU", 51, 2, 1), F7("MULHU", 51, 3, 1),
   F3("FENCE", 15, 0), F3("FENCE_I", 15, 1),
   F3("CSRRW", 115, 1), F3("CSRRS", 115, 2), F3("CSRRC", 115, 3),
   F3("CSRRWI", 115, 5), F3("CSRRSI", 115, 6), F3("CSRRCI", 115, 7)}

Named(w) ==
  {e.name : e \in {x \in Encodings :
      x.opcode = w.opcode /\ w.funct3 \in x.funct3 /\ w.funct7 \in x.funct7}}
  \cup (IF is_system(w) /\ SystemWord(w, 0) THEN {"ECALL"} ELSE {})
  \cup (IF is_system(w) /\ SystemWord(w, 770) THEN {"MRET"} ELSE {})
  \cup (IF is_system(w) /\ SystemWord(w, 258) THEN {"SRET"} ELSE {})
  \cup (IF is_sspush(w) THEN {"SSPUSH"} ELSE {})
  \cup (IF w.opcode = 115 /\ w.funct3 = 4 /\ imm12(w) = 3292
        THEN (IF w.rs1 = 0 /\ w.rd # 0 THEN {"SSRDP"} ELSE {})
             \cup (IF w.rs1 # 0 /\ w.rd = 0 THEN {"SSPOPCHK"} ELSE {})
        ELSE {})

\* Reserved encodings of FENCE, which the decoder takes as FENCE (Decoder.sv:504-507).
ReservedFence(w) == w.opcode = 15 /\ w.funct3 \notin {0, 1}

\* A word is legal exactly if it is the encoding of an instruction, and of one only
\* (Decoder.sv:378-519).
LegalIffEncoded ==
  ~ReservedFence(instr) =>
    Cardinality(Named(instr)) = IF is_illegal_instr(instr) THEN 0 ELSE 1

\* The ALU performs the operation the encoding names, with or without an immediate; only
\* the shifts look at the upper bits of an immediate (Decoder.sv:206-288).
AluDoesWhatIsNamed ==
  \A n \in Named(instr) :
    /\ n \in {"ADD", "SUB", "SLL", "SLT", "SLTU", "XOR", "SRL", "SRA", "OR", "AND"} =>
         alu_op(instr) = n
    /\ \A p \in {<<"ADDI", "ADD">>, <<"SLTI", "SLT">>, <<"SLTIU", "SLTU">>, <<"XORI", "XOR">>,
                 <<"ORI", "OR">>, <<"ANDI", "AND">>, <<"SLLI", "SLL">>, <<"SRLI", "SRL">>,
                 <<"SRAI", "SRA">>} : n = p[1] => alu_op(instr) = p[2]

-----------------------------------------------------------------------------
(* The classes of module Decoder *)

OpOf(w) ==
  CASE is_illegal_instr(w) -> IF w.opcode = OPCODE.ZERO THEN "ZERO" ELSE "ILLEGAL"
    [] is_mul(w)      -> "MUL"
    [] is_lpad(w)     -> "LPAD"
    [] is_sspush(w)   -> "SSPUSH"
    [] is_sspopchk(w) -> "SSPOPCHK"
    [] is_ssrdp(w)    -> "SSRDP"
    [] is_ecall(w)    -> "ECALL"
    [] is_mret(w)     -> "MRET"
    [] is_sret(w)     -> "SRET"
    [] OTHER ->
       CASE w.opcode = OPCODE.RTYPE -> "ADD"
         [] w.opcode = OPCODE.ITYPE -> "ADDI"
         [] w.opcode \in {OPCODE.LUI, OPCODE.AUIPC} -> "LUI"
         [] w.opcode = OPCODE.JAL   -> "JAL"
         [] w.opcode = OPCODE.JALR  -> "JALR"
         [] w.opcode = OPCODE.BTYPE -> "BEQ"
         [] w.opcode = OPCODE.LTYPE -> "LW"
         [] w.opcode = OPCODE.STYPE -> "SW"
         [] w.opcode = OPCODE.FENCE -> "FENCE"
         [] OTHER -> << "CSRRW", "CSRRS", "CSRRC", "", "CSRRWI", "CSRRSI", "CSRRCI" >>[w.funct3]

Abstract(w) == [D!Zero EXCEPT !.op = OpOf(w), !.rd = w.rd, !.rs1 = w.rs1, !.rs2 = w.rs2]

\* What the pipeline is modelled with, by class of instruction, is what the decoder says of
\* every legal word of the class: the registers it reads and writes, where its result comes
\* from, and what it does to memory (Decoder.sv:91-202, 293-322).
ClassesAreDecoded ==
  LET a == Abstract(instr)
  IN  OpOf(instr) # "ILLEGAL" =>
        /\ rs1_used(instr) = D!rs1_used(a) /\ rs2_used(instr) = D!rs2_used(a)
        /\ rf_we(instr) = D!rf_we(a) /\ dram_we(instr) = D!dram_we(a)
        /\ (rf_we(instr) \/ is_mul(instr)) => wd_sel(instr) = D!wd_sel(a)
        /\ sl_type(instr) # "NOP" <=> D!sl_type(a) # "NOP"
        /\ is_csr_instr(instr) <=> a.op \in D!CsrOps
=============================================================================
