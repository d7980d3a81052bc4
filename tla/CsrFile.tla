------------------------------- MODULE CsrFile -------------------------------
(***************************************************************************)
(* The control and status registers of EsCute-RV (CSR.sv) as operators on  *)
(* one record, shared by the stand-alone model of the CSR unit (Csr), the  *)
(* pipeline (Pipeline) and the architectural machine (Isa).                *)
(*                                                                         *)
(* A CSR value is the set of the positions of its 1 bits, so the RTL's     *)
(* masks are intersections, CSRRS is a union and CSRRC a difference.       *)
(* mcycle, a free-running counter, has a module of its own, CycleTimer.    *)
(***************************************************************************)
EXTENDS Integers, FiniteSets, FiniteSetsExt, Levels

CONSTANT XLEN     \* width of a general register; CSRs are always 32 bits wide

ASSUME XlenAssumption == XLEN \in 4 .. 32

-----------------------------------------------------------------------------
(* Words and their bits. *)

Bit  == 0 .. 31
Word == 0 .. (2 ^ XLEN - 1)

Wrap(n) == n % (2 ^ XLEN)

Bits(w) == {i \in 0 .. (XLEN - 1) : (w \div (2 ^ i)) % 2 = 1}

Value(b) == MapThenSumSet(LAMBDA i : 2 ^ i, b \cap (0 .. (XLEN - 1)))

-----------------------------------------------------------------------------
(* The bits of the status and configuration registers. *)

SIE == 1
MIE == 3
SPIE == 5
MPIE == 7
SPP == 8
MppBits == {11, 12}
TVM == 20
TSR == 22
SPELP == 23
MPELP == 9                    \* in mstatush
LPE == 2
SSE == 3   \* in menvcfg and senvcfg
MLPE == 10                    \* in mseccfg
PmpR == 0
PmpW == 1
PmpX == 2
PmpL == 7
PmpA == {3, 4}

MstatusMask  == {SIE, MIE, SPIE, MPIE, SPP, TVM, 21, TSR, SPELP} \cup MppBits
MstatushMask == {MPELP}
SstatusMask  == {SIE, SPIE, SPP, SPELP}
EnvcfgMask   == {LPE, SSE}
MseccfgMask  == {MLPE}
PmpcfgMask   == {PmpR, PmpW, PmpX, PmpL} \cup PmpA

\* CSRs with storage of their own.
MachineCsr == {"mstatus", "mstatush", "mtvec", "mepc", "mcause", "mscratch",
               "mtval", "mie", "mip", "misa", "medeleg", "mideleg", "menvcfg",
               "mseccfg", "mcounteren", "mnstatus", "pmpcfg0", "pmpaddr0"}
SupervisorCsr == {"stvec", "sepc", "scause", "sscratch", "stval", "satp",
                  "senvcfg", "scounteren"}
StoredCsr == MachineCsr \cup SupervisorCsr \cup {"ssp"}

\* Views of other registers, and registers that read as zero.
ViewCsr == {"sstatus", "sie", "sip"}
ZeroCsr == {"mvendorid", "marchid", "mimpid", "mhartid"}

CsrName == StoredCsr \cup ViewCsr \cup ZeroCsr

\* csr_addr[9:8]: the lowest privilege that may access the CSR.
CsrPriv(name) ==
  IF name \in MachineCsr \cup ZeroCsr THEN PrvM
  ELSE IF name \in SupervisorCsr \cup ViewCsr THEN PrvS
  ELSE PrvU

\* csr_addr[11:10] = 2'b11
CsrReadOnly(name) == name \in ZeroCsr

CsrState == [reg : [StoredCsr -> SUBSET Bit], priv : Prv, elp : BOOLEAN]

-----------------------------------------------------------------------------
(* Combinational views (senvcfg_view, current_sse_enabled, ...). *)

\* Mutant of MppOf: the two bits of MPP swapped.
MppOf_swapped(mstatus) ==
  (IF 12 \in mstatus THEN 1 ELSE 0) + (IF 11 \in mstatus THEN 2 ELSE 0)

MppOf(mstatus) ==
  (IF 11 \in mstatus THEN 1 ELSE 0) + (IF 12 \in mstatus THEN 2 ELSE 0)

MppEncode(p) == (IF p \in {1, 3} THEN {11} ELSE {}) \cup
                (IF p \in {2, 3} THEN {12} ELSE {})

compose_senvcfg(menvcfg, senvcfg) ==
  (senvcfg \cap EnvcfgMask) \ (IF SSE \in menvcfg THEN {} ELSE {SSE})

shadow_stack_enabled(c) ==
  \/ /\ c.priv = PrvS
     /\ SSE \in c.reg["menvcfg"]
  \/ /\ c.priv = PrvU
     /\ SSE \in c.reg["menvcfg"]
     /\ SSE \in compose_senvcfg(c.reg["menvcfg"], c.reg["senvcfg"])

landing_pad_enabled(priv, reg) ==
  \/ priv = PrvM /\ MLPE \in reg["mseccfg"]
  \/ priv = PrvS /\ LPE \in reg["menvcfg"]
  \/ priv = PrvU /\ LPE \in reg["senvcfg"]

current_lpe_enabled(c) == landing_pad_enabled(c.priv, c.reg)

take_delegated_trap(c, cause) ==
  c.priv # PrvM /\ cause \in c.reg["medeleg"]

align(v) == v \ {0, 1}

trap_target(c, cause) ==
  Value(align(IF take_delegated_trap(c, cause) THEN c.reg["stvec"]
                                               ELSE c.reg["mtvec"]))

csr_rdata(c, name) ==
  CASE name = "senvcfg" -> compose_senvcfg(c.reg["menvcfg"], c.reg["senvcfg"])
    [] name = "sstatus" -> c.reg["mstatus"] \cap SstatusMask
    [] name = "sie"     -> c.reg["mie"] \cap c.reg["mideleg"]
    [] name = "sip"     -> c.reg["mip"] \cap c.reg["mideleg"]
    [] name \in StoredCsr \ {"senvcfg"} -> c.reg[name]
    [] name \notin StoredCsr \cup ViewCsr -> {}

\* op is the two low bits of funct3; the operand is rs1 or the zimm field.
csr_new_value(c, name, op, operand) ==
  CASE op = "RW" -> operand
    [] op = "RS" -> csr_rdata(c, name) \cup operand
    [] op = "RC" -> csr_rdata(c, name) \ operand

-----------------------------------------------------------------------------
(* The branches of the clocked process, in the order of its if/else chain. *)

ResetCsr ==
  [reg  |-> [n \in StoredCsr |-> CASE n = "mstatus" -> {11, 12}
                                   [] n = "misa"    -> {8, 18, 20, 30}
                                   [] OTHER         -> {}],
   priv |-> PrvM, elp |-> FALSE]

If(cond, bit) == IF cond THEN {bit} ELSE {}

\* Mutants of DelegatedTrap: SPP is set but never cleared; ELP is not saved.
DelegatedTrap_stale_SPP(c, e) ==
  LET ms == c.reg["mstatus"]
  IN  [reg  |-> [c.reg EXCEPT
                   !["sepc"]    = align(Bits(e.pc)),
                   !["scause"]  = Bits(e.cause),
                   !["stval"]   = Bits(e.tval),
                   !["mstatus"] = (ms \ {SIE, SPIE, SPELP})
                                    \cup If(SIE \in ms, SPIE)
                                    \cup If(c.priv = PrvS, SPP)
                                    \cup If(c.elp, SPELP)],
       priv |-> PrvS,
       elp  |-> FALSE]

DelegatedTrap_loses_ELP(c, e) ==
  LET ms == c.reg["mstatus"]
  IN  [reg  |-> [c.reg EXCEPT
                   !["sepc"]    = align(Bits(e.pc)),
                   !["scause"]  = Bits(e.cause),
                   !["stval"]   = Bits(e.tval),
                   !["mstatus"] = (ms \ {SIE, SPIE, SPP, SPELP})
                                    \cup If(SIE \in ms, SPIE)
                                    \cup If(c.priv = PrvS, SPP)],
       priv |-> PrvS,
       elp  |-> FALSE]

DelegatedTrap(c, e) ==
  LET ms == c.reg["mstatus"]
  IN  [reg  |-> [c.reg EXCEPT
                   !["sepc"]    = align(Bits(e.pc)),
                   !["scause"]  = Bits(e.cause),
                   !["stval"]   = Bits(e.tval),
                   !["mstatus"] = (ms \ {SIE, SPIE, SPP, SPELP})
                                    \cup If(SIE \in ms, SPIE)
                                    \cup If(c.priv = PrvS, SPP)
                                    \cup If(c.elp, SPELP)],
       priv |-> PrvS,
       elp  |-> FALSE]

\* Mutant of MachineTrap: ELP is saved but not cleared.
MachineTrap_keeps_ELP(c, e) ==
  LET ms == c.reg["mstatus"]
  IN  [reg  |-> [c.reg EXCEPT
                   !["mepc"]     = align(Bits(e.pc)),
                   !["mcause"]   = Bits(e.cause),
                   !["mtval"]    = Bits(e.tval),
                   !["mstatus"]  = (ms \ ({MIE, MPIE} \cup MppBits))
                                     \cup If(MIE \in ms, MPIE)
                                     \cup MppEncode(c.priv),
                   !["mstatush"] = (c.reg["mstatush"] \ {MPELP}) \cup If(c.elp, MPELP)],
       priv |-> PrvM,
       elp  |-> c.elp]

MachineTrap(c, e) ==
  LET ms == c.reg["mstatus"]
  IN  [reg  |-> [c.reg EXCEPT
                   !["mepc"]     = align(Bits(e.pc)),
                   !["mcause"]   = Bits(e.cause),
                   !["mtval"]    = Bits(e.tval),
                   !["mstatus"]  = (ms \ ({MIE, MPIE} \cup MppBits))
                                     \cup If(MIE \in ms, MPIE)
                                     \cup MppEncode(c.priv),
                   !["mstatush"] = (c.reg["mstatush"] \ {MPELP}) \cup If(c.elp, MPELP)],
       priv |-> PrvM,
       elp  |-> FALSE]

TrapEntry(c, e) ==
  IF take_delegated_trap(c, e.cause) THEN DelegatedTrap(c, e)
                                     ELSE MachineTrap(c, e)

\* Mutant of Mret: ELP comes back even where landing pads are off.
Mret_ungated(c) ==
  LET ms     == c.reg["mstatus"]
      mh     == c.reg["mstatush"]
      target == MppOf(ms)
  IN  [reg  |-> [c.reg EXCEPT
                   !["mstatus"]  = (ms \ ({MIE} \cup MppBits)) \cup If(MPIE \in ms, MIE)
                                     \cup {MPIE},
                   !["mstatush"] = mh \ {MPELP}],
       priv |-> target,
       elp  |-> MPELP \in mh]

Mret(c) ==
  LET ms     == c.reg["mstatus"]
      mh     == c.reg["mstatush"]
      target == MppOf(ms)
  IN  [reg  |-> [c.reg EXCEPT
                   !["mstatus"]  = (ms \ ({MIE} \cup MppBits)) \cup If(MPIE \in ms, MIE)
                                     \cup {MPIE},
                   !["mstatush"] = mh \ {MPELP}],
       priv |-> target,
       elp  |-> landing_pad_enabled(target, c.reg) /\ MPELP \in mh]

Sret(c) ==
  LET ms     == c.reg["mstatus"]
      target == IF SPP \in ms THEN PrvS ELSE PrvU
  IN  [reg  |-> [c.reg EXCEPT
                   !["mstatus"] = (ms \ {SIE, SPP, SPELP}) \cup If(SPIE \in ms, SIE)
                                    \cup {SPIE}],
       priv |-> target,
       elp  |-> landing_pad_enabled(target, c.reg) /\ SPELP \in ms]

\* Mutant of sanitize_mstatus: the reserved MPP encoding passes.
sanitize_mstatus_reserved(v) == v \cap MstatusMask

sanitize_mstatus(v) ==
  LET s == v \cap MstatusMask
  IN  IF MppOf(s) = 2 THEN s \ MppBits ELSE s

update_sstatus_view(mstatus, v) == (mstatus \ SstatusMask) \cup (v \cap SstatusMask)

sanitize_pmpcfg0(v) ==
  LET cfg == v \cap PmpcfgMask
  IN  IF PmpW \in cfg /\ PmpR \notin cfg THEN cfg \ {PmpW} ELSE cfg

\* Mutant of delegated_merge: the written value is not masked.
delegated_merge_unmasked(c, m, v) == (c.reg[m] \ c.reg["mideleg"]) \cup v

delegated_merge(c, m, v) ==
  (c.reg[m] \ c.reg["mideleg"]) \cup (v \cap c.reg["mideleg"])

\* Mutant of pmp_locked: L does not bind M mode.
pmp_locked_below_M(c) == c.priv # PrvM /\ PmpL \in c.reg["pmpcfg0"]

pmp_locked(c) == PmpL \in c.reg["pmpcfg0"]

\* The CSRs that do not simply store what is written.
MaskedCsr ==
  ViewCsr \cup {"mstatus", "mstatush", "menvcfg", "senvcfg", "mseccfg", "mtvec", "stvec",
               "mepc", "sepc", "pmpcfg0", "pmpaddr0", "misa"}

\* The register a CSR write lands in, and the value it takes there.
WrittenReg(name) ==
  CASE name = "sstatus" -> "mstatus"
    [] name = "sie"     -> "mie"
    [] name = "sip"     -> "mip"
    [] name \notin ViewCsr -> name

WrittenValue(c, name, v) ==
  CASE name = "sstatus"  -> update_sstatus_view(c.reg["mstatus"], v)
    [] name = "sie"      -> delegated_merge(c, "mie", v)
    [] name = "sip"      -> delegated_merge(c, "mip", v)
    [] name = "mstatus"  -> sanitize_mstatus(v)
    [] name = "mstatush" -> v \cap MstatushMask
    [] name = "menvcfg"  -> v \cap EnvcfgMask
    [] name = "senvcfg"  -> compose_senvcfg(c.reg["menvcfg"], v)
    [] name = "mseccfg"  -> v \cap MseccfgMask
    [] name \in {"mtvec", "stvec", "mepc", "sepc"} -> align(v)
    [] name = "pmpcfg0"  -> IF pmp_locked(c) THEN c.reg[name] ELSE sanitize_pmpcfg0(v)
    [] name = "pmpaddr0" -> IF pmp_locked(c) THEN c.reg[name] ELSE v
    [] name = "misa"     -> c.reg[name]
    [] name \notin MaskedCsr -> v

SetReg(c, n, v) == [reg |-> [c.reg EXCEPT ![n] = v], priv |-> c.priv, elp |-> c.elp]

CsrWrite(c, name, v) ==
  IF name \in ZeroCsr THEN c
  ELSE SetReg(c, WrittenReg(name), WrittenValue(c, name, v))

\* Inputs of one clock edge: e the exception, x the xRET ("none", "mret" or
\* "sret"), s and l the shadow-stack and landing-pad update ports, w the write.
CsrNext(c, e, x, s, l, w) ==
  IF e.valid          THEN TrapEntry(c, e)
  ELSE IF x = "mret"  THEN Mret(c)
  ELSE IF x = "sret"  THEN Sret(c)
  ELSE IF s.valid     THEN SetReg(c, "ssp", Bits(s.data))
  ELSE IF l.valid     THEN [reg |-> c.reg, priv |-> c.priv, elp |-> l.expected]
  ELSE IF w.valid     THEN CsrWrite(c, w.name, csr_new_value(c, w.name, w.op, w.operand))
  ELSE c
=============================================================================
