--------------------------------- MODULE MCTrap ---------------------------------
(* Traps, returns and CSR accesses below M mode, with and without PMP. *)
EXTENDS Asm, TLC

McRegs == {0, 1, 7}

Alphabet ==
  {Op("ECALL"), Op("SRET"), Op("MRET"), Bad, Lw(1, 1, 4), Sw(1, 0, 20), Jalr(1, 1, 0),
   Csrr("CSRRS", 1, "sepc", 0), Csrr("CSRRW", 7, "sstatus", 1), Ssrdp(1), Op("FENCE")}

\* Word 4 is the supervisor's trap handler and word 6 the machine's.
Handlers ==
  <<Csrr("CSRRWI", 0, "sepc", 12), Op("SRET"), Csrr("CSRRWI", 0, "mepc", 12), Op("MRET")>>

McPrograms == {Image(body, 4, Handlers) : body \in Bodies(Alphabet, 3)}

Vectors == "mtvec" :> Bits(24) @@ "stvec" :> Bits(16)

\* The three words of the body are readable and executable, nothing else is.
BodyOnly == "pmpcfg0" :> {PmpR, PmpX, 3} @@ "pmpaddr0" :> Bits(3)

Boot(values, priv, x1) ==
  [pc |-> 0, csr |-> AfterBoot(values, priv), rf |-> RegFile(1 :> x1)]

McBoots ==
  {Boot("medeleg" :> {2, 4, 8} @@ Vectors, PrvU, 10),
   Boot(BodyOnly @@ Vectors, PrvU, 16),
   Boot("mstatus" :> MppEncode(PrvS) \cup {TSR, SPELP} @@ "medeleg" :> {5} @@
        "menvcfg" :> {LPE, SSE} @@ "ssp" :> {4} @@ Vectors, PrvS, 64)}

\* The hypothesis of the theorems PipelineImplementsIsa and OnlyPermittedExecutes.
ASSUME ProgramsArePrecise == PrecisePrograms
=============================================================================
