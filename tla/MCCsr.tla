--------------------------------- MODULE MCCsr ---------------------------------
(* Two causes, one of which can be delegated, and for every register that    *)
(* steers the others the writes that make a difference.                      *)
EXTENDS Csr

McExceptions == {[valid |-> TRUE, pc |-> 4, cause |-> c, tval |-> 0] : c \in {2, 8}}

W(name, op, operand) == [valid |-> TRUE, name |-> name, op |-> op, operand |-> operand]

McWrites ==
  {W("mstatus", "RW", {SIE, 12}), W("mstatus", "RS", MppBits), W("mstatus", "RC", {11}),
   W("sstatus", "RS", {MIE, SPELP, SIE}), W("sstatus", "RC", Bit),
   W("mstatush", "RS", Bit), W("medeleg", "RW", {8}), W("mideleg", "RW", {1}),
   W("sie", "RW", {1, 3}), W("mseccfg", "RW", Bit), W("menvcfg", "RS", {LPE, SSE}),
   W("senvcfg", "RW", Bit), W("senvcfg", "RC", {LPE}),
   W("pmpcfg0", "RW", {PmpW, PmpL}), W("pmpcfg0", "RC", {PmpL}), W("pmpaddr0", "RS", {3})}

McPointers == {8}
=============================================================================
