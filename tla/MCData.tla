--------------------------------- MODULE MCData ---------------------------------
(* Data hazards: every four-instruction program over a small alphabet.       *)
EXTENDS Asm, TLC

McRegs == {0, 1, 7}

Alphabet ==
  {Li(1, 4), Add(7, 1, 7), Lw(1, 0, 4), Lw(7, 1, 0), Sw(7, 0, 4),
   Mul(1, 1, 7), Mul(0, 7, 7), Beq(1, 7, 8), Jal(1, 8)}

McPrograms == {Image(body, 6, <<>>) : body \in Bodies(Alphabet, 4)}

McBoots ==
  {[pc |-> 0, csr |-> AfterBoot("mtvec" :> Bits(24), PrvM), rf |-> RegFile(7 :> 3)]}

\* The hypothesis of the theorem PipelineImplementsIsa.
ASSUME ProgramsArePrecise == PrecisePrograms
=============================================================================
