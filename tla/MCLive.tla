--------------------------------- MODULE MCLive ---------------------------------
(* Everything that can make the front end wait, in every order.              *)
EXTENDS Asm, TLC

McRegs == {0, 1, 7}

Alphabet ==
  {Lw(1, 0, 4), Add(7, 1, 7), Mul(1, 1, 7), Sspush(1), Sspopchk(7), Bad, Op("ECALL"),
   Beq(1, 7, -4), Jalr(0, 7, 0), Lpad(0)}

McPrograms ==
  {Image(body, 6, <<Csrr("CSRRWI", 0, "mepc", 8), Op("MRET")>>) : body \in Bodies(Alphabet, 3)}

McBoots ==
  {[pc |-> 0,
    csr |-> AfterBoot("mtvec" :> Bits(24) @@ "ssp" :> Bits(8) @@
                      "menvcfg" :> {LPE, SSE}, PrvS),
    rf |-> RegFile(7 :> 8)]}
=============================================================================
