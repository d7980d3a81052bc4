------------------------------- MODULE MCFindings -------------------------------
(* Three one-program instances, for what the documentation and an assertion  *)
(* of the core say and the core does not do.                                 *)
EXTENDS Asm, TLC

McRegs == {0, 1, 7}

Only(body) == {Image(body, 6, <<>>)}

Boot(values, x1) ==
  {[pc |-> 0, csr |-> AfterBoot("mtvec" :> Bits(24) @@ values, PrvM), rf |-> RegFile(1 :> x1)]}

\* A function whose landing pad follows a CSR write of the code that falls into it.
WriteThenPad == Only(<<Csrr("CSRRWI", 0, "mscratch", 5), Lpad(0)>>)
PlainBoot    == Boot("mscratch" :> {}, 0)

\* JAL to an address that is 2 modulo 4.
HalfWordJump == Only(<<Jal(1, 6)>>)

\* M mode locks an entry that matches everything and forbids it to execute.
LockItself == Only(<<Csrr("CSRRW", 0, "pmpcfg0", 1), Op("FENCE"), Op("FENCE")>>)
LockBoot   == Boot("pmpaddr0" :> Bits(8), Value({PmpR, PmpL, 3}))
=============================================================================
