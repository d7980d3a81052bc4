-------------------------------- MODULE PmpPma --------------------------------
(***************************************************************************)
(* The combinational access checker of EsCute-RV (PMP_PMA_Checker.sv): one *)
(* physical-memory-attribute window [0, PmaLimit) and one PMP entry.  The  *)
(* pipeline instantiates it twice, for fetches (IF) and for data (EX).     *)
(* XLEN stands for the RTL's 32: operands have XLEN bits, sums XLEN + 1.   *)
(***************************************************************************)
EXTENDS CsrFile

CONSTANT PmaLimit      \* PMA_LOW_MEM_LIMIT: first byte address past the memory

ASSUME PmaAssumption ==
  PmaLimit \in Nat \ {0} /\ PmaLimit % 4 = 0 /\ PmaLimit <= 2 ^ XLEN

-----------------------------------------------------------------------------

\* The 2-bit A field: 0 off, 1 TOR, 2 NA4, 3 NAPOT.
pmp_a(cfg) == (IF 3 \in cfg THEN 1 ELSE 0) + (IF 4 \in cfg THEN 2 ELSE 0)

count_trailing_ones(paddr) ==
  LET zero == {i \in 0 .. XLEN : i = XLEN \/ i \notin Bits(paddr)}
  IN  Min(zero)

napot_all(paddr) == count_trailing_ones(paddr) >= XLEN - 3

\* Mutant: a NAPOT region of half the size.
napot_size_short(paddr) == 2 ^ (count_trailing_ones(paddr) + 2)

napot_size(paddr) == 2 ^ (count_trailing_ones(paddr) + 3)

napot_base(paddr) ==
  LET low == Wrap(paddr * 4) IN low - (low % napot_size(paddr))

na4_base(paddr) == (paddr % 2 ^ (XLEN - 2)) * 4

tor_top(paddr) == (paddr * 4) % 2 ^ (XLEN + 1)

\* Mutant: the end of the access loses its carry.
inside_wrapped(addr, bytes, low, high) == addr >= low /\ Wrap(addr + bytes - 1) < high

inside(addr, bytes, low, high) == addr >= low /\ addr + bytes - 1 < high

pma_ok(addr, bytes) == inside(addr, bytes, 0, PmaLimit)

pmp_match(addr, bytes, cfg, paddr) ==
  CASE pmp_a(cfg) = 0 -> FALSE
    [] pmp_a(cfg) = 1 -> inside(addr, bytes, 0, tor_top(paddr))
    [] pmp_a(cfg) = 2 -> inside(addr, bytes, na4_base(paddr), na4_base(paddr) + 4)
    [] pmp_a(cfg) = 3 ->
         \/ napot_all(paddr)
         \/ inside(addr, bytes, napot_base(paddr), napot_base(paddr) + napot_size(paddr))

pmp_perm_ok(access, cfg) ==
  CASE access = "fetch" -> PmpX \in cfg
    [] access = "load"  -> PmpR \in cfg
    [] access = "store" -> PmpW \in cfg

pmp_applies(priv, cfg) == priv # PrvM \/ PmpL \in cfg

access_fault(access, addr, bytes, priv, cfg, paddr) ==
  \/ ~pma_ok(addr, bytes)
  \/ /\ pmp_a(cfg) # 0
     /\ pmp_applies(priv, cfg)
     /\ IF pmp_match(addr, bytes, cfg, paddr) THEN ~pmp_perm_ok(access, cfg)
                                              ELSE priv # PrvM
=============================================================================
