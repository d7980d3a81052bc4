---------------------------------- MODULE Asm ----------------------------------
(***************************************************************************)
(* An assembler for the programs the model-checking modules enumerate, and *)
(* the CSR states in which they start.                                     *)
(***************************************************************************)
EXTENDS PipelineCsr

R(op_, rd, rs1, rs2) == [Zero EXCEPT !.op = op_, !.rd = rd, !.rs1 = rs1, !.rs2 = rs2]
I(op_, rd, rs1, imm) == [Zero EXCEPT !.op = op_, !.rd = rd, !.rs1 = rs1, !.imm = imm]

Li(rd, w)            == I("ADDI", rd, 0, w)
Add(rd, rs1, rs2)    == R("ADD", rd, rs1, rs2)
Mul(rd, rs1, rs2)    == R("MUL", rd, rs1, rs2)
Lw(rd, rs1, imm)     == I("LW", rd, rs1, imm)
Sw(rs2, rs1, imm)    == [I("SW", 0, rs1, imm) EXCEPT !.rs2 = rs2]
Beq(rs1, rs2, imm)   == [I("BEQ", 0, rs1, imm) EXCEPT !.rs2 = rs2]
Bne(rs1, rs2, imm)   == [I("BNE", 0, rs1, imm) EXCEPT !.rs2 = rs2]
Jal(rd, imm)         == I("JAL", rd, 0, imm)
Jalr(rd, rs1, imm)   == I("JALR", rd, rs1, imm)
Csrr(op_, rd, name, src) == [R(op_, rd, src, 0) EXCEPT !.csr = name]
Op(op_)              == R(op_, 0, 0, 0)
Bad                  == [Op("ILLEGAL") EXCEPT !.enc = 11]
Lpad(label)          == [Op("LPAD") EXCEPT !.imm = label]
Sspush(rs2)          == R("SSPUSH", 0, 0, rs2)
Sspopchk(rs1)        == R("SSPOPCHK", 0, rs1, 0)
Ssrdp(rd)            == R("SSRDP", rd, 0, 0)

Halt == Jal(0, 0)

\* The memory image: the body from word 0, the handler from word base, and
\* Halt everywhere else.
Image(body, base, handler) ==
  [w \in WordIndex |->
     IF w + 1 \in DOMAIN body THEN body[w + 1]
     ELSE IF w - base + 1 \in DOMAIN handler THEN handler[w - base + 1]
     ELSE Halt]

Bodies(alphabet, n) == [1 .. n -> alphabet]

\* A CSR file after boot code wrote the given values and executed MRET.
AfterBoot(values, priv) ==
  Mret([ResetCsr EXCEPT
          !.reg = [n \in StoredCsr |->
                     IF n \in DOMAIN values THEN values[n]
                     ELSE IF n = "mstatus" THEN MppEncode(priv)
                     ELSE ResetCsr.reg[n]]])

RegFile(x) == [r \in Regs |-> IF r \in DOMAIN x THEN x[r] ELSE 0]
=============================================================================
