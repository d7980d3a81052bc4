------------------------------- MODULE CsrProofs -------------------------------
(* Theorems about the CSR unit, for every set of exceptions and CSR writes.  *)
EXTENDS Csr, CsrFileProofs

Inv == CsrOK(csr) /\ ElpEnabled(csr)

LEMMA InitInv == Init => Inv
  BY ResetCsrOK DEF Init, Inv, ElpEnabled

LEMMA NextInv == Inv /\ [Next]_csr => Inv'
<1> SUFFICES ASSUME Inv, [Next]_csr PROVE Inv'
  OBVIOUS
<1> USE DEF Inv
<1>1. CASE Reset
  BY <1>1, ResetCsrOK DEF Reset, ElpEnabled
<1>2. ASSUME NEW e \in Exceptions, Exception(e) PROVE Inv'
  <2>1. Ports(e, "none", NoSsp, NoElp, NoWrite)
    BY DEF Ports, NoElp, NoWrite
  <2> QED
    BY <1>2, <2>1, CsrNextOK, CsrNextElp DEF Exception, NoElp, NoWrite
<1>3. CASE MachineReturn
  <2>1. Ports(NoException, "mret", NoSsp, NoElp, NoWrite)
    BY DEF Ports, NoElp, NoWrite
  <2> QED
    BY <1>3, <2>1, CsrNextOK, CsrNextElp DEF MachineReturn, NoElp, NoWrite
<1>4. CASE SupervisorReturn
  <2>1. Ports(NoException, "sret", NoSsp, NoElp, NoWrite)
    BY DEF Ports, NoElp, NoWrite
  <2> QED
    BY <1>4, <2>1, CsrNextOK, CsrNextElp DEF SupervisorReturn, NoElp, NoWrite
<1>5. ASSUME NEW p \in Pointers, SspUpdate(p) PROVE Inv'
  <2> DEFINE s == [valid |-> TRUE, data |-> p]
  <2>1. Ports(NoException, "none", s, NoElp, NoWrite)
    BY DEF Ports, NoElp, NoWrite
  <2> QED
    BY <1>5, <2>1, CsrNextOK, CsrNextElp DEF SspUpdate, NoElp, NoWrite
<1>6. CASE IndirectJump
  <2> DEFINE l == [valid |-> TRUE, expected |-> TRUE]
  <2>1. Ports(NoException, "none", NoSsp, l, NoWrite) /\ current_lpe_enabled(csr)
    BY <1>6 DEF Ports, NoWrite, IndirectJump
  <2> QED
    BY <1>6, <2>1, CsrNextOK, CsrNextElp DEF IndirectJump, NoWrite
<1>7. CASE LandingPad
  <2> DEFINE l == [valid |-> TRUE, expected |-> FALSE]
  <2>1. Ports(NoException, "none", NoSsp, l, NoWrite)
    BY DEF Ports, NoWrite
  <2> QED
    BY <1>7, <2>1, CsrNextOK, CsrNextElp DEF LandingPad, NoWrite
<1>8. ASSUME NEW w \in Writes, Write(w) PROVE Inv'
  <2>1. Ports(NoException, "none", NoSsp, NoElp, w)
    BY PortsAssumption DEF Ports, NoElp
  <2> QED
    BY <1>8, <2>1, CsrNextOK, CsrNextElp DEF Write, NoElp
<1>9. CASE UNCHANGED csr
  BY <1>9
<1> QED
  BY <1>1, <1>2, <1>3, <1>4, <1>5, <1>6, <1>7, <1>8, <1>9 DEF Next

LEMMA Invariance == Spec => []Inv
  BY InitInv, NextInv, PTL DEF Spec

\* The CSR file stays well formed, whatever is written and trapped.
THEOREM CsrTypeCorrect == Spec => []CsrTypeOK
<1>1. Inv => CsrTypeOK
  BY DEF Inv, CsrOK, CsrTypeOK
<1> QED
  BY <1>1, Invariance, PTL

\* MRET never enters a privilege level that does not exist.
THEOREM MppStaysLegal == Spec => []MppLegal
<1>1. Inv => MppLegal
  BY DEF Inv, CsrOK, MppLegal
<1> QED
  BY <1>1, Invariance, PTL

\* A landing pad is pending only where landing pads are enabled.
THEOREM ElpStaysEnabled == Spec => []ElpOnlyWhereEnabled
<1>1. Inv => ElpOnlyWhereEnabled
  BY DEF Inv, ElpEnabled, ElpOnlyWhereEnabled
<1> QED
  BY <1>1, Invariance, PTL

-----------------------------------------------------------------------------
(* The PMP lock. *)

LEMMA NextKeepsLock == Inv /\ [Next]_csr => [LockKept]_csr
<1> SUFFICES ASSUME Inv, Next, PmpL \in csr.reg["pmpcfg0"], csr' # ResetCsr
             PROVE  SamePmp(csr, csr')
  BY DEF LockKept, SamePmp, PmpRegs
<1>1. CsrOK(csr) /\ csr.reg \in [StoredCsr -> SUBSET Bit] /\ PmpRegs \subseteq StoredCsr
  BY CsrStateFields, StoredNames DEF Inv, CsrOK, PmpRegs
<1>2. CASE Reset
  BY <1>2 DEF Reset
<1>3. ASSUME NEW e \in Exceptions, Exception(e) PROVE SamePmp(csr, csr')
  <2>1. e.valid
    BY PortsAssumption
  <2> QED
    BY <1>1, <1>3, <2>1, TrapsKeepPmp DEF Exception, CsrNext
<1>4. CASE MachineReturn
  BY <1>1, <1>4, TrapsKeepPmp DEF MachineReturn, CsrNext, NoException
<1>5. CASE SupervisorReturn
  BY <1>1, <1>5, TrapsKeepPmp DEF SupervisorReturn, CsrNext, NoException
<1>6. ASSUME NEW p \in Pointers, SspUpdate(p) PROVE SamePmp(csr, csr')
  <2>1. csr' = SetReg(csr, "ssp", Bits(p))
    BY <1>6 DEF SspUpdate, CsrNext, NoException
  <2> QED
    BY <1>1, <2>1 DEF SetReg, SamePmp, PmpRegs
<1>7. CASE IndirectJump
  BY <1>7 DEF IndirectJump, CsrNext, NoException, NoSsp, SamePmp
<1>8. CASE LandingPad
  BY <1>8 DEF LandingPad, CsrNext, NoException, NoSsp, SamePmp
<1>9. ASSUME NEW w \in Writes, Write(w) PROVE SamePmp(csr, csr')
  <2>1. /\ w.valid /\ w.name \in CsrName
        /\ csr_new_value(csr, w.name, w.op, w.operand) \in SUBSET Bit
    BY <1>1, PortsAssumption, NewValueType
  <2>2. csr' = CsrWrite(csr, w.name, csr_new_value(csr, w.name, w.op, w.operand))
    BY <1>9, <2>1 DEF Write, CsrNext, NoException, NoSsp, NoElp
  <2> QED
    BY <1>1, <2>1, <2>2, WritesKeepLockedPmp DEF pmp_locked
<1> QED
  BY <1>2, <1>3, <1>4, <1>5, <1>6, <1>7, <1>8, <1>9 DEF Next

\* A locked PMP entry stays as it is until reset.
THEOREM PmpLockHolds == Spec => PmpSticky
  BY Invariance, NextKeepsLock, PTL DEF Spec, PmpSticky
-----------------------------------------------------------------------------
(* A trap and the return from its handler. *)

EnableRegs == {"mseccfg", "menvcfg", "senvcfg"}

\* What a delegated trap leaves for SRET.
LEMMA DelegatedTrapFields ==
  ASSUME NEW c, CsrOK(c), NEW e
  PROVE  LET t == DelegatedTrap(c, e)
         IN  /\ t.priv = PrvS
             /\ t.reg["mstatus"] = (c.reg["mstatus"] \ {SIE, SPIE, SPP, SPELP})
                                     \cup If(SIE \in c.reg["mstatus"], SPIE)
                                     \cup If(c.priv = PrvS, SPP)
                                     \cup If(c.elp, SPELP)
             /\ t.reg["scause"] = Bits(e.cause)
             /\ \A n \in EnableRegs : t.reg[n] = c.reg[n]
<1>1. c.reg \in [StoredCsr -> SUBSET Bit] /\ EnableRegs \subseteq StoredCsr
  BY CsrStateFields, StoredNames DEF CsrOK, EnableRegs
<1> QED
  BY <1>1, StoredNames DEF DelegatedTrap, EnableRegs

\* What a trap to M mode leaves for MRET.
LEMMA MachineTrapFields ==
  ASSUME NEW c, CsrOK(c), NEW e
  PROVE  LET t == MachineTrap(c, e)
         IN  /\ t.priv = PrvM
             /\ t.reg["mstatus"] = (c.reg["mstatus"] \ ({MIE, MPIE} \cup MppBits))
                                     \cup If(MIE \in c.reg["mstatus"], MPIE)
                                     \cup MppEncode(c.priv)
             /\ t.reg["mstatush"] = (c.reg["mstatush"] \ {MPELP}) \cup If(c.elp, MPELP)
             /\ t.reg["mcause"] = Bits(e.cause)
             /\ \A n \in EnableRegs : t.reg[n] = c.reg[n]
<1>1. c.reg \in [StoredCsr -> SUBSET Bit] /\ EnableRegs \subseteq StoredCsr
  BY CsrStateFields, StoredNames DEF CsrOK, EnableRegs
<1> QED
  BY <1>1, StoredNames DEF MachineTrap, EnableRegs

\* MPP holds the level that a trap to M mode came from.
LEMMA MachineTrapMpp ==
  ASSUME NEW c, CsrOK(c), NEW e
  PROVE  MppOf(MachineTrap(c, e).reg["mstatus"]) = c.priv
<1> DEFINE m == MachineTrap(c, e).reg["mstatus"]
<1>1. m = (c.reg["mstatus"] \ ({MIE, MPIE} \cup MppBits))
            \cup If(MIE \in c.reg["mstatus"], MPIE) \cup MppEncode(c.priv)
  BY MachineTrapFields
<1> HIDE DEF m
<1>2. m \cap MppBits = MppEncode(c.priv)
  BY <1>1 DEF If, MPIE, MppBits, MppEncode
<1>3. c.priv \in Prv
  BY CsrStateFields DEF CsrOK
<1>4. MppOf(m) = c.priv
  BY <1>2, <1>3, MppRoundTrip
<1> QED
  BY <1>4 DEF m

\* Landing pads are enabled at a level as the three enable registers say.
LEMMA EnablesDecide ==
  ASSUME NEW r, NEW q, NEW level, \A n \in EnableRegs : r[n] = q[n]
  PROVE  landing_pad_enabled(level, r) <=> landing_pad_enabled(level, q)
  BY DEF landing_pad_enabled, EnableRegs

\* SRET undoes a delegated trap.
LEMMA SretUndoes ==
  ASSUME NEW c, CsrOK(c), ElpEnabled(c), NEW e, c.priv # PrvM
  PROVE  LET back == Sret(DelegatedTrap(c, e))
         IN  /\ back.priv = c.priv
             /\ back.elp = c.elp
             /\ (SIE \in back.reg["mstatus"]) = (SIE \in c.reg["mstatus"])
<1> DEFINE t == DelegatedTrap(c, e)
<1> DEFINE ms == t.reg["mstatus"]
<1>1. CsrOK(t)
  BY DelegatedTrapOK
<1>2. c.priv \in Prv /\ c.elp \in BOOLEAN
  BY CsrStateFields DEF CsrOK
<1>3. /\ \A n \in EnableRegs : t.reg[n] = c.reg[n]
      /\ ms = (c.reg["mstatus"] \ {SIE, SPIE, SPP, SPELP})
                 \cup If(SIE \in c.reg["mstatus"], SPIE)
                 \cup If(c.priv = PrvS, SPP)
                 \cup If(c.elp, SPELP)
  BY DelegatedTrapFields
<1> HIDE DEF t, ms
<1>4. /\ SPP \in ms <=> c.priv = PrvS
      /\ SPELP \in ms <=> c.elp
      /\ SPIE \in ms <=> SIE \in c.reg["mstatus"]
  BY <1>3 DEF If, SIE, SPIE, SPP, SPELP
<1>5. /\ Sret(t).priv = IF SPP \in ms THEN PrvS ELSE PrvU
      /\ Sret(t).elp = (landing_pad_enabled(Sret(t).priv, t.reg) /\ SPELP \in ms)
  BY DEF Sret, ms
<1>6. Sret(t).reg["mstatus"] = (ms \ {SIE, SPP, SPELP}) \cup If(SPIE \in ms, SIE) \cup {SPIE}
  BY <1>1, CsrStateFields, StoredNames DEF Sret, CsrOK, ms
<1>7. Sret(t).priv = c.priv
  BY <1>2, <1>4, <1>5 DEF Prv, PrvU, PrvS, PrvM
<1>8. Sret(t).elp = c.elp
  <2>1. landing_pad_enabled(c.priv, t.reg) <=> landing_pad_enabled(c.priv, c.reg)
    BY <1>3, EnablesDecide
  <2>2. c.elp => landing_pad_enabled(c.priv, c.reg)
    BY DEF ElpEnabled, current_lpe_enabled
  <2> QED
    BY <1>2, <1>4, <1>5, <1>7, <2>1, <2>2
<1>9. SIE \in Sret(t).reg["mstatus"] <=> SIE \in c.reg["mstatus"]
  BY <1>4, <1>6 DEF If, SIE, SPIE
<1> QED
  BY <1>7, <1>8, <1>9 DEF t

\* MRET undoes a trap to M mode.
LEMMA MretUndoes ==
  ASSUME NEW c, CsrOK(c), ElpEnabled(c), NEW e
  PROVE  LET back == Mret(MachineTrap(c, e))
         IN  /\ back.priv = c.priv
             /\ back.elp = c.elp
             /\ (MIE \in back.reg["mstatus"]) = (MIE \in c.reg["mstatus"])
<1> DEFINE t == MachineTrap(c, e)
<1> DEFINE ms == t.reg["mstatus"]
<1> DEFINE mh == t.reg["mstatush"]
<1>1. CsrOK(t)
  BY MachineTrapOK
<1>2. c.priv \in Prv /\ c.elp \in BOOLEAN
  BY CsrStateFields DEF CsrOK
<1>3. /\ \A n \in EnableRegs : t.reg[n] = c.reg[n]
      /\ ms = (c.reg["mstatus"] \ ({MIE, MPIE} \cup MppBits))
                 \cup If(MIE \in c.reg["mstatus"], MPIE)
                 \cup MppEncode(c.priv)
      /\ mh = (c.reg["mstatush"] \ {MPELP}) \cup If(c.elp, MPELP)
  BY MachineTrapFields
<1>4. MppOf(ms) = c.priv
  BY MachineTrapMpp
<1> HIDE DEF t, ms, mh
<1>5. /\ MPELP \in mh <=> c.elp
      /\ MPIE \in ms <=> MIE \in c.reg["mstatus"]
  BY <1>3 DEF If, MIE, MPIE, MPELP, MppBits, MppEncode
<1>6. /\ Mret(t).priv = MppOf(ms)
      /\ Mret(t).elp = (landing_pad_enabled(MppOf(ms), t.reg) /\ MPELP \in mh)
  BY DEF Mret, ms, mh
<1>7. Mret(t).reg["mstatus"] = (ms \ ({MIE} \cup MppBits)) \cup If(MPIE \in ms, MIE) \cup {MPIE}
  BY <1>1, CsrStateFields, StoredNames DEF Mret, CsrOK, ms
<1>8. Mret(t).elp = c.elp
  <2>1. landing_pad_enabled(c.priv, t.reg) <=> landing_pad_enabled(c.priv, c.reg)
    BY <1>3, EnablesDecide
  <2>2. c.elp => landing_pad_enabled(c.priv, c.reg)
    BY DEF ElpEnabled, current_lpe_enabled
  <2> QED
    BY <1>2, <1>4, <1>5, <1>6, <2>1, <2>2
<1>9. MIE \in Mret(t).reg["mstatus"] <=> MIE \in c.reg["mstatus"]
  BY <1>5, <1>7 DEF If, MIE, MPIE
<1> QED
  BY <1>4, <1>6, <1>8, <1>9 DEF t

\* A trap at any moment and the return from its handler restore the privilege level, the
\* interrupt enable and the pending landing pad.
THEOREM TrapsAreUndone == Spec => []TrapReturnRoundTrip
<1>1. Inv => TrapReturnRoundTrip
  <2> SUFFICES ASSUME Inv, NEW e \in Exceptions
               PROVE  LET t    == TrapEntry(csr, e)
                          back == IF t.priv = PrvS THEN Sret(t) ELSE Mret(t)
                          ie   == IF t.priv = PrvS THEN SIE ELSE MIE
                      IN  /\ back.priv = csr.priv
                          /\ back.elp = csr.elp
                          /\ (ie \in back.reg["mstatus"]) = (ie \in csr.reg["mstatus"])
    BY DEF TrapReturnRoundTrip
  <2>1. CsrOK(csr) /\ ElpEnabled(csr)
    BY DEF Inv
  <2>2. CASE take_delegated_trap(csr, e.cause)
    <3>1. TrapEntry(csr, e) = DelegatedTrap(csr, e) /\ csr.priv # PrvM
      BY <2>2 DEF TrapEntry, take_delegated_trap
    <3>2. DelegatedTrap(csr, e).priv = PrvS
      BY <2>1, DelegatedTrapFields
    <3> QED
      BY <2>1, <3>1, <3>2, SretUndoes
  <2>3. CASE ~take_delegated_trap(csr, e.cause)
    <3>1. TrapEntry(csr, e) = MachineTrap(csr, e)
      BY <2>3 DEF TrapEntry
    <3>2. MachineTrap(csr, e).priv = PrvM /\ PrvM # PrvS
      BY <2>1, MachineTrapFields DEF PrvM, PrvS
    <3> QED
      BY <2>1, <3>1, <3>2, MretUndoes
  <2> QED
    BY <2>2, <2>3
<1> QED
  BY <1>1, Invariance, PTL
-----------------------------------------------------------------------------
(* The privilege level, and the machine registers below M mode. *)

\* A step of the unit is one branch of its process.
LEMMA WriteBranch ==
  ASSUME NEW w \in Writes, Write(w)
  PROVE  /\ w.name \in CsrName /\ MayWrite(w.name)
         /\ csr' = CsrWrite(csr, w.name, csr_new_value(csr, w.name, w.op, w.operand))
<1>1. w.valid /\ w.name \in CsrName
  BY PortsAssumption
<1> QED
  BY <1>1 DEF Write, CsrNext, NoException, NoSsp, NoElp

LEMMA ExceptionBranch ==
  ASSUME NEW e \in Exceptions, Exception(e)
  PROVE  csr' = TrapEntry(csr, e)
<1>1. e.valid
  BY PortsAssumption
<1> QED
  BY <1>1 DEF Exception, CsrNext

LEMMA SretBranch ==
  ASSUME SupervisorReturn
  PROVE  csr' = Sret(csr) /\ csr.priv # PrvU
  BY DEF SupervisorReturn, CsrNext, NoException

LEMMA SspBranch ==
  ASSUME NEW p \in Pointers, SspUpdate(p)
  PROVE  csr' = SetReg(csr, "ssp", Bits(p))
  BY DEF SspUpdate, CsrNext, NoException

LEMMA ElpBranch ==
  ASSUME IndirectJump \/ LandingPad
  PROVE  csr'.reg = csr.reg /\ csr'.priv = csr.priv
  BY DEF IndirectJump, LandingPad, CsrNext, NoException, NoSsp

LEMMA NextRisesByTrap == Inv /\ [Next]_csr => [RiseIsTrap]_csr
<1> SUFFICES ASSUME Inv, Next, csr'.priv > csr.priv, csr' # ResetCsr
             PROVE  \E e \in Exceptions : EntersBy(e)
  BY DEF RiseIsTrap
<1>1. CsrOK(csr) /\ csr.priv \in Prv
  BY CsrStateFields DEF Inv, CsrOK
<1>2. CASE Reset
  BY <1>2 DEF Reset
<1>3. ASSUME NEW e \in Exceptions, Exception(e) PROVE EntersBy(e)
  <2>1. csr' = TrapEntry(csr, e)
    BY <1>3, ExceptionBranch
  <2>2. CASE take_delegated_trap(csr, e.cause)
    <3>1. csr' = DelegatedTrap(csr, e)
      BY <2>1, <2>2 DEF TrapEntry
    <3>2. /\ csr'.priv = PrvS
          /\ csr'.reg["scause"] = Bits(e.cause)
      BY <1>1, <3>1, DelegatedTrapFields
    <3>3. csr'.reg["mstatus"] = (csr.reg["mstatus"] \ {SIE, SPIE, SPP, SPELP})
                                  \cup If(SIE \in csr.reg["mstatus"], SPIE)
                                  \cup If(csr.priv = PrvS, SPP)
                                  \cup If(csr.elp, SPELP)
      BY <1>1, <3>1, DelegatedTrapFields
    <3>4. SPP \in csr'.reg["mstatus"] <=> csr.priv = PrvS
      BY <3>3 DEF If, SIE, SPIE, SPP, SPELP
    <3> QED
      BY <2>2, <3>2, <3>4 DEF EntersBy
  <2>3. CASE ~take_delegated_trap(csr, e.cause)
    <3>1. csr' = MachineTrap(csr, e)
      BY <2>1, <2>3 DEF TrapEntry
    <3>2. csr'.priv = PrvM /\ csr'.reg["mcause"] = Bits(e.cause)
      BY <1>1, <3>1, MachineTrapFields
    <3>3. MppOf(csr'.reg["mstatus"]) = csr.priv
      BY <1>1, <3>1, MachineTrapMpp
    <3> QED
      BY <2>3, <3>2, <3>3 DEF EntersBy
  <2> QED
    BY <2>2, <2>3
<1>4. CASE MachineReturn
  <2>1. csr' = Mret(csr) /\ csr.priv = PrvM
    BY <1>4 DEF MachineReturn, CsrNext, NoException
  <2>2. csr'.priv = MppOf(csr.reg["mstatus"])
    BY <2>1 DEF Mret
  <2> QED
    BY <1>1, <2>1, <2>2 DEF CsrOK, Prv, PrvU, PrvS, PrvM
<1>5. CASE SupervisorReturn
  <2>1. csr'.priv \in {PrvU, PrvS} /\ csr.priv # PrvU
    BY <1>5, SretBranch DEF Sret
  <2> QED
    BY <1>1, <2>1 DEF Prv, PrvU, PrvS, PrvM
<1>6. ASSUME NEW p \in Pointers, SspUpdate(p) PROVE FALSE
  <2>1. csr'.priv = csr.priv
    BY <1>6, SspBranch DEF SetReg
  <2> QED
    BY <1>1, <2>1 DEF Prv, PrvU, PrvS, PrvM
<1>7. CASE IndirectJump \/ LandingPad
  <2>1. csr'.priv = csr.priv
    BY <1>7, ElpBranch
  <2> QED
    BY <1>1, <2>1 DEF Prv, PrvU, PrvS, PrvM
<1>8. ASSUME NEW w \in Writes, Write(w) PROVE FALSE
  <2>1. csr'.priv = csr.priv
    BY <1>8, WriteBranch DEF CsrWrite, SetReg
  <2> QED
    BY <1>1, <2>1 DEF Prv, PrvU, PrvS, PrvM
<1> QED
  BY <1>2, <1>3, <1>4, <1>5, <1>6, <1>7, <1>8 DEF Next

\* The privilege level rises only by a trap, which records where it came from.
THEOREM LevelRisesByTrap == Spec => RiseOnlyByTrap
  BY Invariance, NextRisesByTrap, PTL DEF Spec, RiseOnlyByTrap

\* What may be written below M mode lands in a machine register only through a view of it.
LEMMA WritesKeepMachineState ==
  ASSUME NEW c, CsrOK(c), c.priv # PrvM, NEW name \in CsrName, NEW v \in SUBSET Bit,
         c.priv >= CsrPriv(name), NEW m \in MachineCsr
  PROVE  CsrWrite(c, name, v).reg[m] \ (CASE m = "mstatus"        -> SstatusMask
                                          [] m \in {"mie", "mip"} -> c.reg["mideleg"]
                                          [] OTHER                -> {})
           = c.reg[m] \ (CASE m = "mstatus"        -> SstatusMask
                           [] m \in {"mie", "mip"} -> c.reg["mideleg"]
                           [] OTHER                -> {})
<1>1. /\ c.reg \in [StoredCsr -> SUBSET Bit] /\ c.priv \in Prv
      /\ m \in StoredCsr
  BY CsrStateFields DEF CsrOK, StoredCsr
<1>2. name \notin MachineCsr \cup ZeroCsr
  BY <1>1 DEF CsrPriv, Prv, PrvU, PrvS, PrvM
<1>3. CsrWrite(c, name, v).reg = [c.reg EXCEPT ![WrittenReg(name)] = WrittenValue(c, name, v)]
  BY <1>2 DEF CsrWrite, SetReg
<1>4. CASE name = "sstatus"
  <2>1. /\ WrittenReg(name) = "mstatus"
        /\ WrittenValue(c, name, v) = (c.reg["mstatus"] \ SstatusMask) \cup (v \cap SstatusMask)
    BY <1>4 DEF WrittenReg, WrittenValue, update_sstatus_view, ViewCsr, MaskedCsr
  <2> QED
    BY <1>1, <1>3, <2>1
<1>5. CASE name = "sie"
  <2>1. /\ WrittenReg(name) = "mie"
        /\ WrittenValue(c, name, v)
             = (c.reg["mie"] \ c.reg["mideleg"]) \cup (v \cap c.reg["mideleg"])
    BY <1>5 DEF WrittenReg, WrittenValue, delegated_merge, ViewCsr, MaskedCsr
  <2> QED
    BY <1>1, <1>3, <2>1
<1>6. CASE name = "sip"
  <2>1. /\ WrittenReg(name) = "mip"
        /\ WrittenValue(c, name, v)
             = (c.reg["mip"] \ c.reg["mideleg"]) \cup (v \cap c.reg["mideleg"])
    BY <1>6 DEF WrittenReg, WrittenValue, delegated_merge, ViewCsr, MaskedCsr
  <2> QED
    BY <1>1, <1>3, <2>1
<1>7. CASE name \notin ViewCsr
  <2>1. WrittenReg(name) = name
    BY <1>7 DEF WrittenReg, ViewCsr
  <2>2. WrittenReg(name) # m
    BY <1>2, <2>1
  <2> QED
    BY <1>1, <1>3, <2>2
<1> QED
  BY <1>4, <1>5, <1>6, <1>7 DEF ViewCsr

LEMMA NextKeepsMachineState == Inv /\ [Next]_csr => [MachineStateKept]_csr
<1> SUFFICES ASSUME Inv, Next, csr.priv # PrvM, csr'.priv # PrvM, NEW m \in MachineCsr
             PROVE  csr'.reg[m] \ SharedBits(m) = csr.reg[m] \ SharedBits(m)
  BY DEF MachineStateKept
<1>1. /\ CsrOK(csr) /\ csr.reg \in [StoredCsr -> SUBSET Bit]
      /\ m \in StoredCsr /\ "mstatus" \in StoredCsr
  BY CsrStateFields, StoredNames DEF Inv, CsrOK, StoredCsr
<1>2. CASE Reset
  BY <1>2, ResetCsrOK DEF Reset
<1>3. ASSUME NEW e \in Exceptions, Exception(e)
      PROVE  csr'.reg[m] \ SharedBits(m) = csr.reg[m] \ SharedBits(m)
  <2>1. csr' = DelegatedTrap(csr, e)
    <3>1. MachineTrap(csr, e).priv = PrvM
      BY <1>1, MachineTrapFields
    <3> QED
      BY <1>3, <3>1, ExceptionBranch DEF TrapEntry
  <2>2. CASE m = "mstatus"
    <3>1. csr'.reg["mstatus"] = (csr.reg["mstatus"] \ {SIE, SPIE, SPP, SPELP})
                                  \cup If(SIE \in csr.reg["mstatus"], SPIE)
                                  \cup If(csr.priv = PrvS, SPP)
                                  \cup If(csr.elp, SPELP)
      BY <1>1, <2>1, DelegatedTrapFields
    <3> QED
      BY <2>2, <3>1 DEF SharedBits, SstatusMask, If
  <2>3. CASE m # "mstatus"
    <3>1. m \notin {"sepc", "scause", "stval"}
      BY DEF MachineCsr
    <3>2. csr'.reg[m] = csr.reg[m]
      BY <1>1, <2>1, <2>3, <3>1 DEF DelegatedTrap
    <3> QED
      BY <3>2
  <2> QED
    BY <2>2, <2>3
<1>4. CASE MachineReturn
  BY <1>4 DEF MachineReturn
<1>5. CASE SupervisorReturn
  <2> DEFINE ms == csr.reg["mstatus"]
  <2>1. csr'.reg = [csr.reg EXCEPT
                      !["mstatus"] = (ms \ {SIE, SPP, SPELP}) \cup If(SPIE \in ms, SIE)
                                       \cup {SPIE}]
    BY <1>5, SretBranch DEF Sret
  <2>2. CASE m = "mstatus"
    <3>1. csr'.reg[m] = (ms \ {SIE, SPP, SPELP}) \cup If(SPIE \in ms, SIE) \cup {SPIE}
      BY <1>1, <2>1, <2>2
    <3> QED
      BY <2>2, <3>1 DEF SharedBits, SstatusMask, If
  <2>3. CASE m # "mstatus"
    BY <1>1, <2>1, <2>3
  <2> QED
    BY <2>2, <2>3
<1>6. ASSUME NEW p \in Pointers, SspUpdate(p)
      PROVE  csr'.reg[m] \ SharedBits(m) = csr.reg[m] \ SharedBits(m)
  <2>1. csr'.reg = [csr.reg EXCEPT !["ssp"] = Bits(p)]
    BY <1>6, SspBranch DEF SetReg
  <2>2. m # "ssp"
    BY DEF MachineCsr
  <2> QED
    BY <1>1, <2>1, <2>2
<1>7. CASE IndirectJump \/ LandingPad
  BY <1>7, ElpBranch
<1>8. ASSUME NEW w \in Writes, Write(w)
      PROVE  csr'.reg[m] \ SharedBits(m) = csr.reg[m] \ SharedBits(m)
  <2>1. csr_new_value(csr, w.name, w.op, w.operand) \in SUBSET Bit
    BY <1>1, PortsAssumption, NewValueType
  <2>2. csr.priv >= CsrPriv(w.name) /\ w.name \in CsrName
    BY <1>8, WriteBranch DEF MayWrite
  <2> QED
    BY <1>1, <1>8, <2>1, <2>2, WriteBranch, WritesKeepMachineState DEF SharedBits
<1> QED
  BY <1>2, <1>3, <1>4, <1>5, <1>6, <1>7, <1>8 DEF Next

\* Below M mode only the supervisor's view of the machine registers changes.
THEOREM MachineStateStaysIsolated == Spec => MachineStateIsolated
  BY Invariance, NextKeepsMachineState, PTL DEF Spec, MachineStateIsolated
=============================================================================
