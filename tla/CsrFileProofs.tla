----------------------------- MODULE CsrFileProofs -----------------------------
(***************************************************************************)
(* What the branches of the CSR unit's clocked process preserve, proved    *)
(* for every CSR file, and what the words it exchanges with the core are   *)
(* worth: the lemmas behind the theorems about the stand-alone unit        *)
(* (CsrProofs) and the pipeline (PipelineProofs).                          *)
(***************************************************************************)
EXTENDS CsrFile, Arithmetic, FiniteSetTheorems

\* A CSR file whose MPP names an existing privilege level.
CsrOK(c) == c \in CsrState /\ MppOf(c.reg["mstatus"]) \in Prv

ElpEnabled(c) == c.elp => current_lpe_enabled(c)

\* The bits of a word are positions of a 32-bit register.
LEMMA BitsType == \A w : Bits(w) \subseteq Bit
  BY XlenAssumption DEF Bits, Bit

\* A file is well formed when its registers, privilege level and ELP are.
LEMMA CsrStateFields ==
  \A c : c \in CsrState => /\ c.reg \in [StoredCsr -> SUBSET Bit]
                           /\ c.priv \in Prv
                           /\ c.elp \in BOOLEAN
                           /\ c = [reg |-> c.reg, priv |-> c.priv, elp |-> c.elp]
  BY DEF CsrState

\* Every register the branches name is one of the stored ones.
LEMMA StoredNames ==
  {"mstatus", "mstatush", "mtvec", "mepc", "mcause", "mtval", "mie", "mip",
   "misa", "medeleg", "mideleg", "menvcfg", "senvcfg", "mseccfg", "pmpcfg0",
   "pmpaddr0", "sepc", "scause", "stval", "stvec", "ssp"} \subseteq StoredCsr
  BY DEF StoredCsr, MachineCsr, SupervisorCsr

\* Encoding a privilege level in MPP and reading it back gives it again.
LEMMA MppRoundTrip ==
  ASSUME NEW m, NEW p \in Prv, m \cap MppBits = MppEncode(p)
  PROVE  MppOf(m) = p
  BY DEF MppOf, MppBits, MppEncode, Prv, PrvU, PrvS, PrvM

LEMMA MppOfType == \A m : MppOf(m) \in 0 .. 3
  BY DEF MppOf

\* MPP depends on bits 11 and 12 only.
LEMMA MppFrame ==
  ASSUME NEW m, NEW n, m \cap MppBits = n \cap MppBits
  PROVE  MppOf(m) = MppOf(n)
  BY DEF MppOf, MppBits

-----------------------------------------------------------------------------
(* Every branch keeps the file well formed and MPP legal. *)

\* Reset leaves a well-formed file with MPP = M.
LEMMA ResetCsrOK == CsrOK(ResetCsr) /\ ~ResetCsr.elp /\ ResetCsr.priv = PrvM
<1>1. ResetCsr \in CsrState
  BY DEF ResetCsr, CsrState, Bit, Prv, PrvU, PrvS, PrvM
<1>2. ResetCsr.reg["mstatus"] = {11, 12}
  BY StoredNames DEF ResetCsr
<1>3. MppOf({11, 12}) = 3
  BY DEF MppOf
<1> QED
  BY <1>1, <1>2, <1>3 DEF CsrOK, ResetCsr, Prv, PrvU, PrvS, PrvM

\* A delegated trap enters S mode with no landing pad pending.
LEMMA DelegatedTrapOK ==
  ASSUME NEW c, CsrOK(c), NEW e
  PROVE  CsrOK(DelegatedTrap(c, e)) /\ ~DelegatedTrap(c, e).elp
<1> DEFINE t == DelegatedTrap(c, e)
<1> DEFINE ms == (c.reg["mstatus"] \ {SIE, SPIE, SPP, SPELP})
                   \cup If(SIE \in c.reg["mstatus"], SPIE)
                   \cup If(c.priv = PrvS, SPP)
                   \cup If(c.elp, SPELP)
<1> DEFINE r1 == [c.reg EXCEPT !["sepc"] = align(Bits(e.pc))]
<1> DEFINE r2 == [r1 EXCEPT !["scause"] = Bits(e.cause)]
<1> DEFINE r3 == [r2 EXCEPT !["stval"] = Bits(e.tval)]
<1> DEFINE r4 == [r3 EXCEPT !["mstatus"] = ms]
<1>1. c.reg \in [StoredCsr -> SUBSET Bit]
  BY CsrStateFields DEF CsrOK
<1>2. ms \in SUBSET Bit
  <2>1. c.reg["mstatus"] \in SUBSET Bit
    BY <1>1, StoredNames
  <2>2. {SIE, SPIE, SPP, SPELP} \subseteq Bit
    BY DEF Bit, SIE, SPIE, SPP, SPELP
  <2> QED
    BY <2>1, <2>2 DEF If
<1>3. /\ align(Bits(e.pc)) \in SUBSET Bit
      /\ Bits(e.cause) \in SUBSET Bit
      /\ Bits(e.tval) \in SUBSET Bit
  BY BitsType DEF align
<1>4. t = [reg |-> r4, priv |-> PrvS, elp |-> FALSE]
  BY DEF DelegatedTrap
<1>5. ms \cap MppBits = c.reg["mstatus"] \cap MppBits
  BY DEF MppBits, SIE, SPIE, SPP, SPELP, If
<1> HIDE DEF t, ms
<1>6. r4 \in [StoredCsr -> SUBSET Bit] /\ r4["mstatus"] = ms
  <2>1. r1 \in [StoredCsr -> SUBSET Bit]
    BY <1>1, <1>3, StoredNames
  <2>2. r2 \in [StoredCsr -> SUBSET Bit]
    BY <2>1, <1>3, StoredNames
  <2>3. r3 \in [StoredCsr -> SUBSET Bit]
    BY <2>2, <1>3, StoredNames
  <2> QED
    BY <2>3, <1>2, StoredNames
<1> HIDE DEF r4
<1>7. t \in CsrState /\ t.reg["mstatus"] = ms /\ ~t.elp
  BY <1>4, <1>6 DEF CsrState, Prv
<1>8. MppOf(ms) \in Prv
  BY <1>5, MppFrame DEF CsrOK
<1> QED
  BY <1>7, <1>8 DEF CsrOK, t

\* A trap to M mode saves the privilege level in MPP.
LEMMA MachineTrapOK ==
  ASSUME NEW c, CsrOK(c), NEW e
  PROVE  CsrOK(MachineTrap(c, e)) /\ ~MachineTrap(c, e).elp
<1> DEFINE t == MachineTrap(c, e)
<1> DEFINE ms == (c.reg["mstatus"] \ ({MIE, MPIE} \cup MppBits))
                   \cup If(MIE \in c.reg["mstatus"], MPIE)
                   \cup MppEncode(c.priv)
<1> DEFINE mh == (c.reg["mstatush"] \ {MPELP}) \cup If(c.elp, MPELP)
<1> DEFINE r1 == [c.reg EXCEPT !["mepc"] = align(Bits(e.pc))]
<1> DEFINE r2 == [r1 EXCEPT !["mcause"] = Bits(e.cause)]
<1> DEFINE r3 == [r2 EXCEPT !["mtval"] = Bits(e.tval)]
<1> DEFINE r4 == [r3 EXCEPT !["mstatus"] = ms]
<1> DEFINE r5 == [r4 EXCEPT !["mstatush"] = mh]
<1>1. c.reg \in [StoredCsr -> SUBSET Bit] /\ c.priv \in Prv
  BY CsrStateFields DEF CsrOK
<1>2. ms \in SUBSET Bit /\ mh \in SUBSET Bit
  <2>1. c.reg["mstatus"] \in SUBSET Bit /\ c.reg["mstatush"] \in SUBSET Bit
    BY <1>1, StoredNames
  <2>2. {MIE, MPIE, MPELP} \subseteq Bit
    BY DEF Bit, MIE, MPIE, MPELP
  <2>3. MppEncode(c.priv) \subseteq Bit
    BY DEF MppEncode, Bit
  <2> QED
    BY <2>1, <2>2, <2>3 DEF If
<1>3. /\ align(Bits(e.pc)) \in SUBSET Bit
      /\ Bits(e.cause) \in SUBSET Bit
      /\ Bits(e.tval) \in SUBSET Bit
  BY BitsType DEF align
<1>4. t = [reg |-> r5, priv |-> PrvM, elp |-> FALSE]
  BY DEF MachineTrap
<1>5. ms \cap MppBits = MppEncode(c.priv)
  BY DEF MppBits, MIE, MPIE, If, MppEncode
<1> HIDE DEF t, ms, mh
<1>6. r5 \in [StoredCsr -> SUBSET Bit] /\ r5["mstatus"] = ms
  <2>1. r1 \in [StoredCsr -> SUBSET Bit]
    BY <1>1, <1>3, StoredNames
  <2>2. r2 \in [StoredCsr -> SUBSET Bit]
    BY <2>1, <1>3, StoredNames
  <2>3. r3 \in [StoredCsr -> SUBSET Bit]
    BY <2>2, <1>3, StoredNames
  <2>4. r4 \in [StoredCsr -> SUBSET Bit] /\ r4["mstatus"] = ms
    BY <2>3, <1>2, StoredNames
  <2> QED
    BY <2>4, <1>2, StoredNames
<1> HIDE DEF r5
<1>7. t \in CsrState /\ t.reg["mstatus"] = ms /\ ~t.elp
  BY <1>4, <1>6 DEF CsrState, Prv
<1>8. MppOf(ms) = c.priv
  BY <1>1, <1>5, MppRoundTrip
<1> QED
  BY <1>1, <1>7, <1>8 DEF CsrOK, t

LEMMA TrapEntryOK ==
  ASSUME NEW c, CsrOK(c), NEW e
  PROVE  CsrOK(TrapEntry(c, e)) /\ ~TrapEntry(c, e).elp
  BY DelegatedTrapOK, MachineTrapOK DEF TrapEntry

\* MRET returns to the level in MPP and leaves U mode there; a landing pad is
\* pending afterwards only if the level returned to has them enabled.
LEMMA MretOK ==
  ASSUME NEW c, CsrOK(c)
  PROVE  CsrOK(Mret(c)) /\ ElpEnabled(Mret(c))
<1> DEFINE t == Mret(c)
<1> DEFINE target == MppOf(c.reg["mstatus"])
<1> DEFINE ms == (c.reg["mstatus"] \ ({MIE} \cup MppBits))
                   \cup If(MPIE \in c.reg["mstatus"], MIE) \cup {MPIE}
<1> DEFINE mh == c.reg["mstatush"] \ {MPELP}
<1> DEFINE r1 == [c.reg EXCEPT !["mstatus"] = ms]
<1> DEFINE r2 == [r1 EXCEPT !["mstatush"] = mh]
<1> DEFINE elp == landing_pad_enabled(target, c.reg) /\ MPELP \in c.reg["mstatush"]
<1>1. c.reg \in [StoredCsr -> SUBSET Bit] /\ target \in Prv
  BY CsrStateFields DEF CsrOK
<1>2. ms \in SUBSET Bit /\ mh \in SUBSET Bit
  <2>1. c.reg["mstatus"] \in SUBSET Bit /\ c.reg["mstatush"] \in SUBSET Bit
    BY <1>1, StoredNames
  <2>2. {MIE, MPIE} \subseteq Bit
    BY DEF Bit, MIE, MPIE
  <2> QED
    BY <2>1, <2>2 DEF If
<1>3. t = [reg |-> r2, priv |-> target, elp |-> elp]
  BY DEF Mret
<1>4. MppOf(ms) = 0
  BY DEF MppOf, MppBits, MIE, MPIE, If
<1>5. elp \in BOOLEAN
  BY DEF landing_pad_enabled
<1> HIDE DEF t, ms, mh, target, elp
<1>6. r1 \in [StoredCsr -> SUBSET Bit] /\ r1["mstatus"] = ms
  BY <1>1, <1>2, StoredNames
<1>7. /\ r2 \in [StoredCsr -> SUBSET Bit]
      /\ r2["mstatus"] = ms
      /\ \A n \in {"mseccfg", "menvcfg", "senvcfg"} : r2[n] = c.reg[n]
  BY <1>1, <1>2, <1>6, StoredNames
<1> HIDE DEF r2
<1>8. t \in CsrState /\ t.reg = r2 /\ t.priv = target /\ t.elp = elp
  BY <1>1, <1>3, <1>5, <1>7 DEF CsrState
<1>9. landing_pad_enabled(target, r2) = landing_pad_enabled(target, c.reg)
  BY <1>7 DEF landing_pad_enabled
<1>10. ElpEnabled(t)
  BY <1>8, <1>9 DEF ElpEnabled, current_lpe_enabled, elp
<1> QED
  BY <1>4, <1>7, <1>8, <1>10 DEF CsrOK, t, Prv, PrvU

\* The same for SRET and SPP; MPP is not touched.
LEMMA SretOK ==
  ASSUME NEW c, CsrOK(c)
  PROVE  CsrOK(Sret(c)) /\ ElpEnabled(Sret(c))
<1> DEFINE t == Sret(c)
<1> DEFINE target == IF SPP \in c.reg["mstatus"] THEN PrvS ELSE PrvU
<1> DEFINE ms == (c.reg["mstatus"] \ {SIE, SPP, SPELP})
                   \cup If(SPIE \in c.reg["mstatus"], SIE) \cup {SPIE}
<1> DEFINE r == [c.reg EXCEPT !["mstatus"] = ms]
<1> DEFINE elp == landing_pad_enabled(target, c.reg) /\ SPELP \in c.reg["mstatus"]
<1>1. c.reg \in [StoredCsr -> SUBSET Bit] /\ target \in Prv
  BY CsrStateFields DEF CsrOK, Prv
<1>2. ms \in SUBSET Bit
  <2>1. c.reg["mstatus"] \in SUBSET Bit
    BY <1>1, StoredNames
  <2>2. {SIE, SPIE} \subseteq Bit
    BY DEF Bit, SIE, SPIE
  <2> QED
    BY <2>1, <2>2 DEF If
<1>3. t = [reg |-> r, priv |-> target, elp |-> elp]
  BY DEF Sret
<1>4. ms \cap MppBits = c.reg["mstatus"] \cap MppBits
  BY DEF MppBits, SIE, SPIE, SPP, SPELP, If
<1>5. elp \in BOOLEAN
  BY DEF landing_pad_enabled
<1> HIDE DEF t, ms, target, elp
<1>6. /\ r \in [StoredCsr -> SUBSET Bit]
      /\ r["mstatus"] = ms
      /\ \A n \in {"mseccfg", "menvcfg", "senvcfg"} : r[n] = c.reg[n]
  BY <1>1, <1>2, StoredNames
<1> HIDE DEF r
<1>7. t \in CsrState /\ t.reg = r /\ t.priv = target /\ t.elp = elp
  BY <1>1, <1>3, <1>5, <1>6 DEF CsrState
<1>8. landing_pad_enabled(target, r) = landing_pad_enabled(target, c.reg)
  BY <1>6 DEF landing_pad_enabled
<1>9. ElpEnabled(t)
  BY <1>7, <1>8 DEF ElpEnabled, current_lpe_enabled, elp
<1>10. MppOf(ms) \in Prv
  BY <1>4, MppFrame DEF CsrOK
<1> QED
  BY <1>6, <1>7, <1>9, <1>10 DEF CsrOK, t

\* What CSRRW, CSRRS and CSRRC compute from a legal operand is a CSR value.
LEMMA NewValueType ==
  ASSUME NEW c, CsrOK(c), NEW name \in CsrName, NEW op \in {"RW", "RS", "RC"},
         NEW operand \in SUBSET Bit
  PROVE  csr_new_value(c, name, op, operand) \in SUBSET Bit
<1>1. c.reg \in [StoredCsr -> SUBSET Bit]
  BY CsrStateFields DEF CsrOK
<1>2. csr_rdata(c, name) \in SUBSET Bit
  <2>1. \A n \in StoredCsr : c.reg[n] \in SUBSET Bit
    BY <1>1
  <2>2. compose_senvcfg(c.reg["menvcfg"], c.reg["senvcfg"]) \in SUBSET Bit
    BY <2>1, StoredNames DEF compose_senvcfg
  <2>3. /\ c.reg["mstatus"] \cap SstatusMask \in SUBSET Bit
        /\ c.reg["mie"] \cap c.reg["mideleg"] \in SUBSET Bit
        /\ c.reg["mip"] \cap c.reg["mideleg"] \in SUBSET Bit
    BY <2>1, StoredNames
  <2>4. CASE name = "senvcfg"
    BY <2>2, <2>4 DEF csr_rdata
  <2>5. CASE name \in ViewCsr
    <3>1. name \notin StoredCsr
      BY <2>5 DEF ViewCsr, StoredCsr, MachineCsr, SupervisorCsr
    <3> QED
      BY <2>3, <2>5, <3>1 DEF csr_rdata, ViewCsr
  <2>6. CASE name \in StoredCsr \ {"senvcfg"}
    <3>1. name \notin {"senvcfg", "sstatus", "sie", "sip"}
      BY <2>6 DEF StoredCsr, MachineCsr, SupervisorCsr
    <3>2. csr_rdata(c, name) = c.reg[name]
      BY <2>6, <3>1 DEF csr_rdata
    <3> QED
      BY <2>1, <2>6, <3>2
  <2>7. CASE name \notin StoredCsr \cup ViewCsr
    <3>1. name \notin {"senvcfg", "sstatus", "sie", "sip"} /\ name \notin StoredCsr \ {"senvcfg"}
      BY <2>7, StoredNames DEF ViewCsr
    <3>2. csr_rdata(c, name) = {}
      BY <2>7, <3>1 DEF csr_rdata
    <3> QED
      BY <3>2
  <2> QED
    BY <2>4, <2>5, <2>6, <2>7
<1> QED
  BY <1>2 DEF csr_new_value

\* A CSR write of any value stores a legal one: MPP = 2 becomes U mode.
LEMMA WrittenValueOK ==
  ASSUME NEW c, CsrOK(c), NEW name \in CsrName \ ZeroCsr, NEW v \in SUBSET Bit
  PROVE  /\ WrittenReg(name) \in StoredCsr
         /\ WrittenValue(c, name, v) \in SUBSET Bit
         /\ WrittenReg(name) = "mstatus" => MppOf(WrittenValue(c, name, v)) \in Prv
<1>1. \A n \in StoredCsr : c.reg[n] \in SUBSET Bit
  BY CsrStateFields DEF CsrOK
<1>2. CASE name = "mstatus"
  <2>1. WrittenReg(name) = "mstatus" /\ WrittenValue(c, name, v) = sanitize_mstatus(v)
    BY <1>2 DEF WrittenReg, WrittenValue, MaskedCsr, ViewCsr
  <2>2. sanitize_mstatus(v) \in SUBSET Bit
    BY DEF sanitize_mstatus
  <2>3. MppOf(sanitize_mstatus(v)) \in Prv
    <3> DEFINE s == v \cap MstatusMask
    <3>1. CASE MppOf(s) = 2
      <4>1. sanitize_mstatus(v) = s \ MppBits
        BY <3>1 DEF sanitize_mstatus
      <4>2. MppOf(s \ MppBits) = 0
        BY DEF MppOf, MppBits
      <4> QED
        BY <4>1, <4>2 DEF Prv, PrvU
    <3>2. CASE MppOf(s) # 2
      <4>1. sanitize_mstatus(v) = s
        BY <3>2 DEF sanitize_mstatus
      <4> QED
        BY <4>1, <3>2, MppOfType DEF Prv, PrvU, PrvS, PrvM
    <3> QED
      BY <3>1, <3>2
  <2> QED
    BY <2>1, <2>2, <2>3, StoredNames
<1>3. CASE name = "sstatus"
  <2> DEFINE w == update_sstatus_view(c.reg["mstatus"], v)
  <2>1. WrittenReg(name) = "mstatus" /\ WrittenValue(c, name, v) = w
    BY <1>3 DEF WrittenReg, WrittenValue, MaskedCsr, ViewCsr
  <2>2. w \in SUBSET Bit
    BY <1>1, StoredNames DEF update_sstatus_view
  <2>3. w \cap MppBits = c.reg["mstatus"] \cap MppBits
    BY DEF update_sstatus_view, SstatusMask, MppBits, SIE, SPIE, SPP, SPELP
  <2>4. MppOf(w) \in Prv
    BY <2>3, MppFrame DEF CsrOK
  <2> QED
    BY <2>1, <2>2, <2>4, StoredNames
<1>4. CASE name \in {"sie", "sip"}
  <2>1. /\ delegated_merge(c, "mie", v) \in SUBSET Bit
        /\ delegated_merge(c, "mip", v) \in SUBSET Bit
    BY <1>1, StoredNames DEF delegated_merge
  <2>2. /\ WrittenReg(name) \in {"mie", "mip"}
        /\ WrittenValue(c, name, v) \in SUBSET Bit
    BY <1>4, <2>1 DEF WrittenReg, WrittenValue, MaskedCsr, ViewCsr
  <2> QED
    BY <2>2, StoredNames
<1>5. CASE name \in MaskedCsr \ (ViewCsr \cup {"mstatus"})
  <2>1. /\ v \cap MstatushMask \in SUBSET Bit
        /\ v \cap EnvcfgMask \in SUBSET Bit
        /\ v \cap MseccfgMask \in SUBSET Bit
        /\ compose_senvcfg(c.reg["menvcfg"], v) \in SUBSET Bit
        /\ align(v) \in SUBSET Bit
        /\ sanitize_pmpcfg0(v) \in SUBSET Bit
    BY DEF compose_senvcfg, align, sanitize_pmpcfg0
  <2>2. \A n \in {"pmpcfg0", "pmpaddr0", "misa"} : c.reg[n] \in SUBSET Bit
    BY <1>1, StoredNames
  <2>3. WrittenReg(name) = name /\ name # "mstatus" /\ name \in StoredCsr
    BY <1>5, StoredNames DEF WrittenReg, MaskedCsr, ViewCsr
  <2>4. WrittenValue(c, name, v) \in SUBSET Bit
    BY <1>5, <2>1, <2>2 DEF WrittenValue, MaskedCsr, ViewCsr
  <2> QED
    BY <2>3, <2>4
<1>6. CASE name \notin MaskedCsr
  <2>1. WrittenValue(c, name, v) = v
    BY <1>6 DEF WrittenValue, MaskedCsr, ViewCsr
  <2>2. WrittenReg(name) = name /\ name # "mstatus" /\ name \in StoredCsr
    BY <1>6 DEF WrittenReg, MaskedCsr, ViewCsr, CsrName
  <2> QED
    BY <2>1, <2>2
<1> QED
  BY <1>2, <1>3, <1>4, <1>5, <1>6 DEF ViewCsr

LEMMA CsrWriteOK ==
  ASSUME NEW c, CsrOK(c), NEW name \in CsrName, NEW v \in SUBSET Bit
  PROVE  CsrOK(CsrWrite(c, name, v)) /\ CsrWrite(c, name, v).elp = c.elp
<1>1. CASE name \in ZeroCsr
  BY <1>1 DEF CsrWrite
<1>2. CASE name \notin ZeroCsr
  <2> DEFINE n == WrittenReg(name)
  <2> DEFINE w == WrittenValue(c, name, v)
  <2>1. n \in StoredCsr /\ w \in SUBSET Bit /\ (n = "mstatus" => MppOf(w) \in Prv)
    BY <1>2, WrittenValueOK
  <2>2. CsrWrite(c, name, v) = SetReg(c, n, w)
    BY <1>2 DEF CsrWrite
  <2> HIDE DEF n, w
  <2>3. c \in CsrState /\ c.reg \in [StoredCsr -> SUBSET Bit]
    BY CsrStateFields DEF CsrOK
  <2>4. [c.reg EXCEPT ![n] = w] \in [StoredCsr -> SUBSET Bit]
    BY <2>1, <2>3
  <2>5. MppOf([c.reg EXCEPT ![n] = w]["mstatus"]) \in Prv
    BY <2>1, <2>3, StoredNames DEF CsrOK
  <2> QED
    BY <2>2, <2>3, <2>4, <2>5 DEF CsrOK, CsrState, SetReg
<1> QED
  BY <1>1, <1>2

-----------------------------------------------------------------------------
(* A whole clock edge. *)

\* What the pipeline presents on the ports of the unit.
Ports(e, x, s, l, w) ==
  /\ l.valid => l.expected \in BOOLEAN
  /\ w.valid => /\ w.name \in CsrName
                /\ w.op \in {"RW", "RS", "RC"}
                /\ w.operand \in SUBSET Bit

\* Every clock edge keeps the file well formed and MPP legal.
LEMMA CsrNextOK ==
  ASSUME NEW c, CsrOK(c), NEW e, NEW x, NEW s, NEW l, NEW w, Ports(e, x, s, l, w)
  PROVE  CsrOK(CsrNext(c, e, x, s, l, w))
<1>1. /\ CsrOK(TrapEntry(c, e)) /\ CsrOK(Mret(c)) /\ CsrOK(Sret(c))
  BY TrapEntryOK, MretOK, SretOK
<1>2. /\ c \in CsrState /\ c.reg \in [StoredCsr -> SUBSET Bit]
      /\ MppOf(c.reg["mstatus"]) \in Prv
  BY CsrStateFields DEF CsrOK
<1>3. CsrOK(SetReg(c, "ssp", Bits(s.data)))
  <2>1. /\ [c.reg EXCEPT !["ssp"] = Bits(s.data)] \in [StoredCsr -> SUBSET Bit]
        /\ [c.reg EXCEPT !["ssp"] = Bits(s.data)]["mstatus"] = c.reg["mstatus"]
    BY <1>2, BitsType, StoredNames
  <2> QED
    BY <1>2, <2>1, CsrStateFields DEF CsrOK, CsrState, SetReg
<1>4. l.valid => CsrOK([reg |-> c.reg, priv |-> c.priv, elp |-> l.expected])
  BY <1>2, CsrStateFields DEF CsrOK, CsrState, Ports
<1>5. w.valid => CsrOK(CsrWrite(c, w.name, csr_new_value(c, w.name, w.op, w.operand)))
  BY CsrWriteOK, NewValueType DEF Ports
<1> QED
  BY <1>1, <1>3, <1>4, <1>5 DEF CsrNext

\* The enables of landing pads do not depend on ssp.
LEMMA SspKeepsEnables ==
  ASSUME NEW c, CsrOK(c), NEW v \in SUBSET Bit
  PROVE  /\ SetReg(c, "ssp", v).elp = c.elp
         /\ current_lpe_enabled(SetReg(c, "ssp", v)) = current_lpe_enabled(c)
<1>1. \A n \in {"mseccfg", "menvcfg", "senvcfg"} : [c.reg EXCEPT !["ssp"] = v][n] = c.reg[n]
  BY CsrStateFields, StoredNames DEF CsrOK
<1> QED
  BY <1>1 DEF SetReg, current_lpe_enabled, landing_pad_enabled

\* If a landing pad is only ever demanded where landing pads are enabled, and
\* nothing is written while one is pending, pending implies enabled.
LEMMA CsrNextElp ==
  ASSUME NEW c, CsrOK(c), ElpEnabled(c),
         NEW e, NEW x, NEW s, NEW l, NEW w, Ports(e, x, s, l, w),
         c.elp => ~w.valid,
         l.valid /\ l.expected => current_lpe_enabled(c)
  PROVE  ElpEnabled(CsrNext(c, e, x, s, l, w))
<1>1. ElpEnabled(TrapEntry(c, e)) /\ ElpEnabled(Mret(c)) /\ ElpEnabled(Sret(c))
  BY TrapEntryOK, MretOK, SretOK DEF ElpEnabled
<1>2. ElpEnabled(SetReg(c, "ssp", Bits(s.data)))
  BY BitsType, SspKeepsEnables DEF ElpEnabled
<1>3. l.valid => ElpEnabled([reg |-> c.reg, priv |-> c.priv, elp |-> l.expected])
  BY DEF ElpEnabled, current_lpe_enabled
<1>4. w.valid => ElpEnabled(CsrWrite(c, w.name, csr_new_value(c, w.name, w.op, w.operand)))
  BY CsrWriteOK, NewValueType DEF Ports, ElpEnabled
<1> QED
  BY <1>1, <1>2, <1>3, <1>4 DEF CsrNext

\* How a landing pad can be pending after a clock edge: an xRET restored it, an
\* indirect jump demanded it, or it was pending and nothing answered it.
LEMMA CsrNextPending ==
  ASSUME NEW c, CsrOK(c), NEW e, NEW x, NEW s, NEW l, NEW w, Ports(e, x, s, l, w),
         CsrNext(c, e, x, s, l, w).elp
  PROVE  /\ ~e.valid
         /\ \/ x \in {"mret", "sret"}
            \/ ~s.valid /\ l.valid /\ l.expected
            \/ c.elp /\ (s.valid \/ ~l.valid)
<1>1. ~e.valid
  BY TrapEntryOK DEF CsrNext
<1>2. CASE x \in {"mret", "sret"}
  BY <1>1, <1>2
<1>3. CASE x \notin {"mret", "sret"} /\ s.valid
  BY <1>1, <1>3, BitsType, SspKeepsEnables DEF CsrNext
<1>4. CASE x \notin {"mret", "sret"} /\ ~s.valid /\ l.valid
  BY <1>1, <1>4 DEF CsrNext
<1>5. CASE x \notin {"mret", "sret"} /\ ~s.valid /\ ~l.valid
  <2>1. w.valid => CsrWrite(c, w.name, csr_new_value(c, w.name, w.op, w.operand)).elp = c.elp
    BY CsrWriteOK, NewValueType DEF Ports
  <2> QED
    BY <1>1, <1>5, <2>1 DEF CsrNext
<1> QED
  BY <1>2, <1>3, <1>4, <1>5

-----------------------------------------------------------------------------
(* The PMP entry. *)

PmpRegs == {"pmpcfg0", "pmpaddr0"}

SamePmp(c, d) == \A n \in PmpRegs : d.reg[n] = c.reg[n]

\* Traps and returns leave the PMP entry alone.
LEMMA TrapsKeepPmp ==
  ASSUME NEW c, CsrOK(c), NEW e
  PROVE  SamePmp(c, TrapEntry(c, e)) /\ SamePmp(c, Mret(c)) /\ SamePmp(c, Sret(c))
<1>1. c.reg \in [StoredCsr -> SUBSET Bit] /\ PmpRegs \subseteq StoredCsr
  BY CsrStateFields, StoredNames DEF CsrOK, PmpRegs
<1>2. SamePmp(c, DelegatedTrap(c, e))
  BY <1>1 DEF SamePmp, DelegatedTrap, PmpRegs
<1>3. SamePmp(c, MachineTrap(c, e))
  BY <1>1 DEF SamePmp, MachineTrap, PmpRegs
<1>4. SamePmp(c, Mret(c))
  BY <1>1 DEF SamePmp, Mret, PmpRegs
<1>5. SamePmp(c, Sret(c))
  BY <1>1 DEF SamePmp, Sret, PmpRegs
<1> QED
  BY <1>2, <1>3, <1>4, <1>5 DEF TrapEntry

\* A CSR write changes no PMP register once the entry is locked.
LEMMA WritesKeepLockedPmp ==
  ASSUME NEW c, CsrOK(c), pmp_locked(c), NEW name \in CsrName, NEW v \in SUBSET Bit
  PROVE  SamePmp(c, CsrWrite(c, name, v))
<1>1. c.reg \in [StoredCsr -> SUBSET Bit] /\ PmpRegs \subseteq StoredCsr
  BY CsrStateFields, StoredNames DEF CsrOK, PmpRegs
<1>2. CASE name \in ZeroCsr
  BY <1>2 DEF CsrWrite, SamePmp
<1>3. CASE name \in PmpRegs
  <2>1. /\ name \notin ZeroCsr /\ WrittenReg(name) = name
        /\ WrittenValue(c, name, v) = c.reg[name]
    BY <1>3 DEF PmpRegs, ZeroCsr, WrittenReg, WrittenValue, MaskedCsr, ViewCsr
  <2>2. CsrWrite(c, name, v).reg = [c.reg EXCEPT ![name] = c.reg[name]]
    BY <2>1 DEF CsrWrite, SetReg
  <2> QED
    BY <1>1, <2>2 DEF SamePmp
<1>4. CASE name \notin ZeroCsr \cup PmpRegs
  <2>1. WrittenReg(name) \notin PmpRegs
    BY <1>4 DEF PmpRegs, WrittenReg, ViewCsr
  <2>2. CsrWrite(c, name, v).reg = [c.reg EXCEPT ![WrittenReg(name)] = WrittenValue(c, name, v)]
    BY <1>4 DEF CsrWrite, SetReg
  <2> QED
    BY <1>1, <2>1, <2>2 DEF SamePmp
<1> QED
  BY <1>2, <1>3, <1>4

-----------------------------------------------------------------------------
(* The value of a set of bits: the recursion of Value is well defined, and  *)
(* the order in which it takes the bits does not matter.                    *)

Pick(s) == CHOOSE x \in s : TRUE

Summed(g, s) == IF s = {} THEN 0 ELSE 2 ^ Pick(s) + g[s \ {Pick(s)}]

Sum(S) == CHOOSE g : g = [s \in SUBSET S |-> Summed(g, s)]

LEMMA ValueIsSum ==
  ASSUME NEW b
  PROVE  Value(b) = Sum(b \cap (0 .. (XLEN - 1)))[b \cap (0 .. (XLEN - 1))]
  BY DEF Value, MapThenSumSet, MapThenFoldSet, Sum, Summed, Pick

LEMMA PickIn == \A s : s # {} => Pick(s) \in s
  BY DEF Pick

\* Sets of at most n bits.
Small(S, n) == {s \in SUBSET S : Cardinality(s) <= n}

LEMMA BitSets ==
  ASSUME NEW s \in SUBSET Bit
  PROVE  IsFiniteSet(s) /\ Cardinality(s) \in Nat /\ (Cardinality(s) = 0 <=> s = {})
<1>1. IsFiniteSet(Bit)
  <2>1. 0 \in Int /\ 31 \in Int
    OBVIOUS
  <2>2. IsFiniteSet(0 .. 31)
    BY <2>1, FS_Interval, Zenon
  <2> QED
    BY <2>2 DEF Bit
<1>2. IsFiniteSet(s)
  BY <1>1, FS_Subset
<1> QED
  BY <1>2, FS_CardinalityType, FS_EmptySet

LEMMA BitRemoved ==
  ASSUME NEW s \in SUBSET Bit, NEW x \in s
  PROVE  s \ {x} \in SUBSET Bit /\ Cardinality(s \ {x}) = Cardinality(s) - 1
  BY BitSets, FS_RemoveElement

LEMMA SumExists ==
  ASSUME NEW S \in SUBSET Bit
  PROVE  \A s \in SUBSET S : Sum(S)[s] = Summed(Sum(S), s)
<1> DEFINE Defined(n) == \E g : g = [s \in Small(S, n) |-> Summed(g, s)]
           Fails == {n \in Nat : ~Defined(n)}
<1>1. Defined(0)
  <2>1. \A s \in Small(S, 0) : s = {}
    <3> SUFFICES ASSUME NEW s \in Small(S, 0) PROVE s = {}
      OBVIOUS
    <3>1. s \in SUBSET Bit /\ Cardinality(s) <= 0
      BY DEF Small
    <3> QED
      BY <3>1, BitSets
  <2> DEFINE g == [s \in Small(S, 0) |-> 0]
  <2>2. g = [s \in Small(S, 0) |-> Summed(g, s)]
    BY <2>1 DEF Summed
  <2> QED
    BY <2>2
<1>2. ASSUME NEW n \in Nat, Defined(n)
      PROVE  Defined(n + 1)
  <2>1. PICK g : g = [s \in Small(S, n) |-> Summed(g, s)]
    BY <1>2
  <2> DEFINE h == [s \in Small(S, n + 1) |-> Summed(g, s)]
  <2>2. \A s \in Small(S, n) : s \in Small(S, n + 1) /\ h[s] = g[s]
    <3>1. \A s \in Small(S, n) : s \in SUBSET Bit /\ Cardinality(s) \in Nat
      BY BitSets DEF Small
    <3> QED
      BY <2>1, <3>1 DEF Small
  <2>3. ASSUME NEW s \in Small(S, n + 1), s # {}
        PROVE  s \ {Pick(s)} \in Small(S, n)
    <3>1. s \in SUBSET S /\ Cardinality(s) <= n + 1 /\ Pick(s) \in s
      BY <2>3, PickIn DEF Small
    <3>2. Cardinality(s) \in Nat /\ Cardinality(s \ {Pick(s)}) = Cardinality(s) - 1
      BY <3>1, BitSets, BitRemoved
    <3>3. Cardinality(s \ {Pick(s)}) <= n /\ s \ {Pick(s)} \in SUBSET S
      BY <3>1, <3>2
    <3> QED
      BY <3>3 DEF Small
  <2>4. \A s \in Small(S, n + 1) : Summed(g, s) = Summed(h, s)
    BY <2>2, <2>3 DEF Summed
  <2>5. h = [s \in Small(S, n + 1) |-> Summed(h, s)]
    BY <2>4
  <2> QED
    BY <2>5
<1>3. Fails = {}
  <2>1. 0 \notin Fails
    BY <1>1
  <2>2. \A n \in Nat : n + 1 \in Fails => n \in Fails
    BY <1>2
  <2> HIDE DEF Fails
  <2>3. Fails \in SUBSET Nat
    BY DEF Fails
  <2> QED
    BY <2>1, <2>2, <2>3, NoFailure
<1>4. Defined(Cardinality(S))
  <2>1. Cardinality(S) \in Nat
    BY BitSets
  <2> QED
    BY <1>3, <2>1
<1>5. Small(S, Cardinality(S)) = SUBSET S
  <2>1. \A s \in SUBSET S : Cardinality(s) <= Cardinality(S)
    BY BitSets, FS_Subset
  <2> QED
    BY <2>1 DEF Small
<1>6. \E g : g = [s \in SUBSET S |-> Summed(g, s)]
  BY <1>4, <1>5
<1>7. Sum(S) = [s \in SUBSET S |-> Summed(Sum(S), s)]
  BY <1>6 DEF Sum
<1> QED
  BY <1>7

LEMMA SumType ==
  ASSUME NEW S \in SUBSET Bit
  PROVE  \A s \in SUBSET S : Sum(S)[s] \in Nat
<1> DEFINE Fails == {n \in Nat : \E s \in SUBSET S : Cardinality(s) = n /\ Sum(S)[s] \notin Nat}
<1>1. 0 \notin Fails
  <2>1. \A s \in SUBSET S : Cardinality(s) = 0 => s = {}
    BY BitSets
  <2>2. Sum(S)[{}] = 0
    BY SumExists DEF Summed
  <2> QED
    BY <2>1, <2>2
<1>2. ASSUME NEW n \in Nat, n + 1 \in Fails
      PROVE  n \in Fails
  <2>1. PICK s \in SUBSET S : Cardinality(s) = n + 1 /\ Sum(S)[s] \notin Nat
    BY <1>2
  <2>2. s # {}
    BY <2>1, BitSets
  <2>3. Pick(s) \in s /\ Pick(s) \in Bit
    BY <2>2, PickIn
  <2>4. Sum(S)[s] = 2 ^ Pick(s) + Sum(S)[s \ {Pick(s)}]
    BY <2>2, SumExists DEF Summed
  <2>5. 2 ^ Pick(s) \in Nat
    BY <2>3, PowersOfTwo DEF PowerStep, Bit
  <2>6. Sum(S)[s \ {Pick(s)}] \notin Nat
    BY <2>1, <2>4, <2>5
  <2>7. Cardinality(s \ {Pick(s)}) = Cardinality(s) - 1
    BY <2>3, BitRemoved
  <2>8. Cardinality(s \ {Pick(s)}) = n /\ s \ {Pick(s)} \in SUBSET S
    BY <2>1, <2>7
  <2> QED
    BY <2>6, <2>8
<1>3. Fails = {}
  <2>1. Fails \in SUBSET Nat
    OBVIOUS
  <2>2. \A n \in Nat : n + 1 \in Fails => n \in Fails
    BY <1>2
  <2> HIDE DEF Fails
  <2> QED
    BY <1>1, <2>1, <2>2, NoFailure
<1>4. \A s \in SUBSET S : Cardinality(s) \in Nat
  BY BitSets
<1> QED
  BY <1>3, <1>4

\* Any bit may be added last.
LEMMA SumRemove ==
  ASSUME NEW S \in SUBSET Bit
  PROVE  \A s \in SUBSET S : \A y \in s : Sum(S)[s] = 2 ^ y + Sum(S)[s \ {y}]
<1> DEFINE Good(s) == \A y \in s : Sum(S)[s] = 2 ^ y + Sum(S)[s \ {y}]
           Fails == {n \in Nat : \E s \in SUBSET S : Cardinality(s) = n /\ ~Good(s)}
<1>1. 0 \notin Fails
  <2>1. \A s \in SUBSET S : Cardinality(s) = 0 => s = {}
    BY BitSets
  <2> QED
    BY <2>1
<1>2. ASSUME NEW n \in Nat, n + 1 \in Fails
      PROVE  n \in Fails
  <2>1. PICK s \in SUBSET S : Cardinality(s) = n + 1 /\ ~Good(s)
    BY <1>2
  <2> SUFFICES ASSUME n \notin Fails PROVE Good(s)
    BY <2>1
  <2>2. \A t \in SUBSET S : Cardinality(t) = n => Good(t)
    OBVIOUS
  <2> SUFFICES ASSUME NEW y \in s PROVE Sum(S)[s] = 2 ^ y + Sum(S)[s \ {y}]
    OBVIOUS
  <2> DEFINE x == Pick(s)
  <2>3. x \in s /\ Sum(S)[s] = 2 ^ x + Sum(S)[s \ {x}]
    BY PickIn, SumExists DEF Summed
  <2> HIDE DEF x
  <2>4. CASE x = y
    BY <2>3, <2>4
  <2>5. CASE x # y
    <3>1. s \ {x} \in SUBSET S /\ s \ {y} \in SUBSET S
      OBVIOUS
    <3>2. Cardinality(s \ {x}) = n /\ Cardinality(s \ {y}) = n
      <4>1. Cardinality(s \ {x}) = Cardinality(s) - 1 /\ Cardinality(s \ {y}) = Cardinality(s) - 1
        BY <2>3, BitRemoved
      <4> QED
        BY <2>1, <4>1
    <3>3. Good(s \ {x}) /\ Good(s \ {y})
      BY <2>2, <3>1, <3>2
    <3>4. y \in s \ {x} /\ x \in s \ {y} /\ (s \ {x}) \ {y} = (s \ {y}) \ {x}
      BY <2>3, <2>5
    <3>5. /\ Sum(S)[s \ {x}] = 2 ^ y + Sum(S)[(s \ {x}) \ {y}]
          /\ Sum(S)[s \ {y}] = 2 ^ x + Sum(S)[(s \ {x}) \ {y}]
      BY <3>3, <3>4
    <3>6. /\ Sum(S)[(s \ {x}) \ {y}] \in Nat
          /\ 2 ^ x \in Nat /\ 2 ^ y \in Nat
      <4>1. (s \ {x}) \ {y} \in SUBSET S /\ x \in Bit /\ y \in Bit
        BY <2>3
      <4> QED
        BY <4>1, SumType, PowersOfTwo DEF PowerStep, Bit
    <3> QED
      BY <2>3, <3>5, <3>6
  <2> QED
    BY <2>4, <2>5
<1>3. Fails = {}
  <2>1. Fails \in SUBSET Nat
    OBVIOUS
  <2>2. \A n \in Nat : n + 1 \in Fails => n \in Fails
    BY <1>2
  <2> HIDE DEF Fails
  <2> QED
    BY <1>1, <2>1, <2>2, NoFailure
<1>4. \A s \in SUBSET S : Cardinality(s) \in Nat
  BY BitSets
<1> QED
  BY <1>3, <1>4

\* The bits below n make a number below 2^n.
LEMMA SumBound ==
  ASSUME NEW S \in SUBSET Bit
  PROVE  \A n \in 0 .. 32 : \A s \in SUBSET S : s \subseteq 0 .. (n - 1) => Sum(S)[s] < 2 ^ n
<1> DEFINE Bounded(n) == \A s \in SUBSET S : s \subseteq 0 .. (n - 1) => Sum(S)[s] < 2 ^ n
           Fails == {n \in 0 .. 32 : ~Bounded(n)}
<1>1. 0 \notin Fails
  <2>1. \A s \in SUBSET S : s \subseteq 0 .. (0 - 1) => s = {}
    OBVIOUS
  <2>2. Sum(S)[{}] = 0
    BY SumExists DEF Summed
  <2>3. 2 ^ 0 = 1
    BY PowersOfTwo DEF Bit
  <2> QED
    BY <2>1, <2>2, <2>3
<1>2. ASSUME NEW n \in Nat, n + 1 \in Fails
      PROVE  n \in Fails
  <2>1. n \in Bit /\ n \in 0 .. 32
    BY <1>2 DEF Bit
  <2>2. PICK s \in SUBSET S : s \subseteq 0 .. n /\ ~(Sum(S)[s] < 2 ^ (n + 1))
    BY <1>2
  <2> SUFFICES ASSUME Bounded(n) PROVE Sum(S)[s] < 2 ^ (n + 1)
    BY <2>1, <2>2
  <2>3. 2 ^ n \in Nat \ {0} /\ 2 ^ (n + 1) = 2 * 2 ^ n
    BY <2>1, PowersOfTwo DEF PowerStep, Bit
  <2>4. s \ {n} \in SUBSET S /\ s \ {n} \subseteq 0 .. (n - 1)
    BY <2>2
  <2>5. Sum(S)[s \ {n}] < 2 ^ n
    BY <2>4
  <2>6. Sum(S)[s \ {n}] \in Nat
    BY <2>4, SumType
  <2>7. CASE n \in s
    <3>1. Sum(S)[s] = 2 ^ n + Sum(S)[s \ {n}]
      BY <2>7, SumRemove
    <3> QED
      BY <2>3, <2>5, <2>6, <3>1
  <2>8. CASE n \notin s
    <3>1. s \ {n} = s
      BY <2>8
    <3>2. Sum(S)[s] < 2 ^ n /\ Sum(S)[s] \in Nat
      BY <2>5, <2>6, <3>1, Zenon
    <3> QED
      BY <2>3, <3>2
  <2> QED
    BY <2>7, <2>8
<1>3. Fails = {}
  <2>1. Fails \in SUBSET Nat
    OBVIOUS
  <2>2. \A n \in Nat : n + 1 \in Fails => n \in Fails
    BY <1>2
  <2> HIDE DEF Fails
  <2> QED
    BY <1>1, <2>1, <2>2, NoFailure
<1> QED
  BY <1>3

\* A word is what its bits are worth, and no more than XLEN bits can be.
LEMMA ValueType == \A b : Value(b) \in Word
<1> SUFFICES ASSUME NEW b PROVE Value(b) \in Word
  OBVIOUS
<1> DEFINE S == b \cap (0 .. (XLEN - 1))
<1>1. S \in SUBSET Bit /\ S \subseteq 0 .. (XLEN - 1) /\ XLEN \in 0 .. 32
  BY XlenAssumption DEF Bit
<1>2. Value(b) = Sum(S)[S]
  BY ValueIsSum
<1> HIDE DEF S
<1>3. Sum(S)[S] \in Nat /\ Sum(S)[S] < 2 ^ XLEN
  BY <1>1, SumType, SumBound
<1>4. 2 ^ XLEN \in Nat
  <2>1. XLEN - 1 \in Bit /\ XLEN = (XLEN - 1) + 1
    BY <1>1, XlenAssumption DEF Bit
  <2>2. 2 ^ (XLEN - 1) \in Nat /\ 2 ^ ((XLEN - 1) + 1) = 2 * 2 ^ (XLEN - 1)
    BY <2>1, PowersOfTwo DEF PowerStep, Bit
  <2> QED
    BY <2>1, <2>2
<1> QED
  BY <1>2, <1>3, <1>4 DEF Word

\* Arithmetic on addresses: a word has at least four bits, so cutting to a word
\* keeps an address aligned.
LEMMA WordFacts ==
  /\ 2 ^ XLEN \in Nat \ {0} /\ (2 ^ XLEN) % 4 = 0
  /\ 0 \in Word /\ Word \subseteq Nat
  /\ \A n \in Int : Wrap(n) \in Word
<1>1. XLEN - 2 \in Bit /\ XLEN - 1 \in Bit
  BY XlenAssumption DEF Bit
<1>2. /\ 2 ^ (XLEN - 2) \in Nat \ {0} /\ 2 ^ ((XLEN - 2) + 1) = 2 * 2 ^ (XLEN - 2)
      /\ 2 ^ ((XLEN - 1) + 1) = 2 * 2 ^ (XLEN - 1)
  BY <1>1, PowersOfTwo DEF PowerStep, Bit
<1>3. XLEN - 1 = (XLEN - 2) + 1 /\ XLEN = (XLEN - 1) + 1
  BY XlenAssumption
<1>4. 2 ^ XLEN = 4 * 2 ^ (XLEN - 2)
  BY <1>2, <1>3
<1>5. 2 ^ XLEN \in Nat \ {0} /\ (2 ^ XLEN) % 4 = 0
  BY <1>2, <1>4
<1> QED
  BY <1>5 DEF Word, Wrap
\* A value whose two lowest bits are clear is a multiple of four.
LEMMA ValueAligned ==
  ASSUME NEW b, b \cap {0, 1} = {}
  PROVE  Value(b) % 4 = 0
<1> DEFINE S == b \cap (0 .. (XLEN - 1))
<1>1. S \in SUBSET Bit /\ S \cap {0, 1} = {}
  BY XlenAssumption DEF Bit
<1>2. Value(b) = Sum(S)[S]
  BY ValueIsSum
<1> HIDE DEF S
<1> DEFINE Fails == {n \in Nat : \E s \in SUBSET S : Cardinality(s) = n /\ Sum(S)[s] % 4 # 0}
<1>3. 0 \notin Fails
  <2>1. \A s \in SUBSET S : Cardinality(s) = 0 => s = {}
    BY <1>1, BitSets
  <2>2. Sum(S)[{}] = 0
    BY <1>1, SumExists DEF Summed
  <2> QED
    BY <2>1, <2>2
<1>4. ASSUME NEW n \in Nat, n + 1 \in Fails
      PROVE  n \in Fails
  <2>1. PICK s \in SUBSET S : Cardinality(s) = n + 1 /\ Sum(S)[s] % 4 # 0
    BY <1>4
  <2>2. s # {}
    BY <1>1, <2>1, BitSets
  <2> DEFINE x == Pick(s)
  <2>3. x \in s /\ Sum(S)[s] = 2 ^ x + Sum(S)[s \ {x}]
    BY <1>1, <2>2, PickIn, SumExists DEF Summed
  <2> HIDE DEF x
  <2>4. 2 ^ x \in Nat /\ 2 ^ x % 4 = 0
    <3>1. x \in 2 .. 31 /\ x - 2 \in Bit /\ x - 1 \in Bit
      BY <1>1, <2>3 DEF Bit
    <3>2. /\ 2 ^ (x - 2) \in Nat /\ 2 ^ ((x - 2) + 1) = 2 * 2 ^ (x - 2)
          /\ 2 ^ ((x - 1) + 1) = 2 * 2 ^ (x - 1)
      BY <3>1, PowersOfTwo DEF PowerStep, Bit
    <3>3. (x - 2) + 1 = x - 1 /\ (x - 1) + 1 = x
      BY <3>1
    <3> QED
      BY <3>2, <3>3
  <2>5. s \ {x} \in SUBSET S /\ Cardinality(s \ {x}) = n
    <3>1. Cardinality(s \ {x}) = Cardinality(s) - 1
      BY <1>1, <2>3, BitRemoved
    <3> QED
      BY <2>1, <3>1
  <2>6. Sum(S)[s \ {x}] \in Nat
    BY <1>1, <2>5, SumType
  <2>7. Sum(S)[s \ {x}] % 4 # 0
    BY <2>1, <2>3, <2>4, <2>6
  <2> QED
    BY <2>5, <2>7
<1>5. Fails = {}
  <2>1. Fails \in SUBSET Nat
    OBVIOUS
  <2>2. \A n \in Nat : n + 1 \in Fails => n \in Fails
    BY <1>4
  <2> HIDE DEF Fails
  <2> QED
    BY <1>3, <2>1, <2>2, NoFailure
<1>6. Cardinality(S) \in Nat
  BY <1>1, BitSets
<1> QED
  BY <1>2, <1>5, <1>6

LEMMA WrapAligned ==
  ASSUME NEW n \in Int
  PROVE  /\ n % 4 = 0 => Wrap(n) % 4 = 0
         /\ n % 2 = 0 => Wrap(n) % 2 = 0
<1> DEFINE m == 2 ^ XLEN
           k == m \div 4
           q == n \div m
<1>1. m \in Nat \ {0} /\ k \in Nat /\ m = 4 * k
  BY WordFacts
<1>2. Wrap(n) = n % m
  BY DEF Wrap
<1> HIDE DEF m, k
<1>3. q \in Int /\ n % m = n - m * q
  BY <1>1
<1> HIDE DEF q
<1>4. m * q = 4 * (k * q) /\ k * q \in Int
  BY <1>1, <1>3
<1> QED
  BY <1>2, <1>3, <1>4
=============================================================================
