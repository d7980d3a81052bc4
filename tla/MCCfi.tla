--------------------------------- MODULE MCCfi ---------------------------------
(* Landing pads and the shadow stack in U and S mode, with a multiplication  *)
(* and traps in their way: three free instructions and a fixed tail.         *)
EXTENDS Asm, Sequences, TLC

McRegs == {0, 1, 7, 10}

Alphabet ==
  {Lpad(1), Lpad(2), Sspush(1), Sspush(7), Sspopchk(1), Ssrdp(7), Mul(1, 1, 7),
   Jalr(1, 10, 0), Jalr(0, 1, 0), Jalr(0, 10, 4), Bad, Beq(0, 7, 8)}

McPrograms ==
  {Image(body \o <<Lpad(0), Sspopchk(1), Halt>>, 6,
         <<Csrr("CSRRWI", 0, "mepc", 12), Op("MRET")>>) :
     body \in Bodies(Alphabet, 3)}

Both == {LPE, SSE}

Boot(priv, menvcfg, senvcfg) ==
  [pc |-> 0,
   csr |-> AfterBoot("mtvec" :> Bits(24) @@ "ssp" :> Bits(8) @@
                     "menvcfg" :> menvcfg @@ "senvcfg" :> senvcfg, priv),
   rf |-> RegFile(1 :> 8 @@ 7 :> 4096 @@ 10 :> 8)]

McBoots == {Boot(PrvU, Both, Both), Boot(PrvS, Both, {}), Boot(PrvU, {SSE}, {LPE})}

\* The hypothesis of the theorem PipelineImplementsIsa.
ASSUME ProgramsArePrecise == PrecisePrograms
=============================================================================
