-------------------------------- MODULE MCMachine --------------------------------
(* M mode: CSR writes followed at once by what depends on them, and landing  *)
(* pads switched on by the program itself.                                   *)
EXTENDS Asm, TLC

McRegs == {0, 1, 7, 10}

Alphabet ==
  {Csrr("CSRRW", 0, "mseccfg", 10), Csrr("CSRRC", 7, "mseccfg", 10),
   Csrr("CSRRW", 1, "mepc", 7), Csrr("CSRRSI", 0, "mstatus", 8),
   Csrr("CSRRS", 10, "mstatus", 0), Csrr("CSRRWI", 0, "mtvec", 16),
   Jalr(0, 10, 0), Jal(1, 4), Op("ECALL"), Op("MRET"), Lw(7, 0, 0), Add(10, 1, 7)}

McPrograms ==
  {Image(body, 4, <<Lpad(0), Csrr("CSRRWI", 0, "mepc", 8), Csrr("CSRRW", 0, "mstatush", 0), Op("MRET")>>) :
     body \in Bodies(Alphabet, 3)}

McBoots ==
  {[pc |-> 0,
    csr |-> AfterBoot("mtvec" :> Bits(20) @@ "mseccfg" :> m @@ "menvcfg" :> {LPE}, PrvM),
    rf |-> RegFile(1 :> 1016 @@ 7 :> 8 @@ 10 :> 1024)] : m \in {{}, {MLPE}}}

\* The hypothesis of the theorem PipelineImplementsIsa.
ASSUME ProgramsArePrecise == PrecisePrograms
=============================================================================
