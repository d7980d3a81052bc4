--------------------------- MODULE PipelineCsrProofs ---------------------------
(***************************************************************************)
(* The pipeline keeps to what the stand-alone model of the CSR unit        *)
(* assumes of its user, for every program: from reset on, the theorems of  *)
(* CsrProofs hold of the CSR unit inside the core.                         *)
(*                                                                         *)
(* IInv says what is in flight together.  Two parts are added to it: what  *)
(* decode let through is still allowed when EX performs it, although older *)
(* instructions write CSRs in between, and a pop of the shadow stack that  *)
(* is under way finds the shadow stack enabled.                            *)
(*                                                                         *)
(* On the same invariant rests what is proved about fetch permissions: the *)
(* verdict reached in IF still holds in EX, with one exception (M mode     *)
(* locking the entry on itself) that the run stale_verdict shows.          *)
(***************************************************************************)
EXTENDS PipelineCsr, PipelineProofs

USE DEF Shadow

-----------------------------------------------------------------------------
(* The instance of Csr has operators of its own; they are those of CsrFile.   *)

LEMMA UnitTraps ==
  ASSUME NEW c, NEW e
  PROVE  Unit!TrapEntry(c, e) = TrapEntry(c, e)
<1>1. \A n : Unit!Bits(n) = Bits(n)
  BY DEF Unit!Bits, Bits
<1>2. \A v : Unit!align(v) = align(v)
  BY DEF Unit!align, align
<1>3. \A a, b : Unit!If(a, b) = If(a, b)
  BY DEF Unit!If, If
<1>4. \A p : Unit!MppEncode(p) = MppEncode(p)
  BY DEF Unit!MppEncode, MppEncode
<1>5. Unit!DelegatedTrap(c, e) = DelegatedTrap(c, e)
  BY <1>1, <1>2, <1>3, <1>4
     DEF Unit!DelegatedTrap, Unit!SIE, Unit!SPIE, Unit!SPP, Unit!SPELP, Unit!PrvS,
         DelegatedTrap, SIE, SPIE, SPP, SPELP, PrvS
<1>6. Unit!MachineTrap(c, e) = MachineTrap(c, e)
  BY <1>1, <1>2, <1>3, <1>4
     DEF Unit!MachineTrap, Unit!MIE, Unit!MPIE, Unit!MppBits, Unit!MPELP, Unit!PrvM,
         MachineTrap, MIE, MPIE, MppBits, MPELP, PrvM
<1>7. Unit!take_delegated_trap(c, e.cause) = take_delegated_trap(c, e.cause)
  BY DEF Unit!take_delegated_trap, take_delegated_trap, Unit!PrvM, PrvM
<1> QED
  BY <1>5, <1>6, <1>7 DEF Unit!TrapEntry, TrapEntry

LEMMA UnitReturns ==
  ASSUME NEW c
  PROVE  Unit!Mret(c) = Mret(c) /\ Unit!Sret(c) = Sret(c)
<1>1. \A p, r : Unit!landing_pad_enabled(p, r) = landing_pad_enabled(p, r)
  BY DEF Unit!landing_pad_enabled, Unit!PrvM, Unit!PrvS, Unit!PrvU, Unit!MLPE, Unit!LPE,
         landing_pad_enabled, PrvM, PrvS, PrvU, MLPE, LPE
<1>2. \A a, b : Unit!If(a, b) = If(a, b)
  BY DEF Unit!If, If
<1>3. \A m : Unit!MppOf(m) = MppOf(m)
  BY DEF Unit!MppOf, MppOf
<1>4. Unit!Mret(c) = Mret(c)
  BY <1>1, <1>2, <1>3
     DEF Unit!Mret, Unit!MIE, Unit!MPIE, Unit!MppBits, Unit!MPELP,
         Mret, MIE, MPIE, MppBits, MPELP
<1>5. Unit!Sret(c) = Sret(c)
  BY <1>1, <1>2
     DEF Unit!Sret, Unit!SIE, Unit!SPIE, Unit!SPP, Unit!SPELP, Unit!PrvS, Unit!PrvU,
         Sret, SIE, SPIE, SPP, SPELP, PrvS, PrvU
<1> QED
  BY <1>4, <1>5

LEMMA UnitNames ==
  /\ Unit!MachineCsr = MachineCsr /\ Unit!SupervisorCsr = SupervisorCsr
  /\ Unit!StoredCsr = StoredCsr /\ Unit!ViewCsr = ViewCsr /\ Unit!ZeroCsr = ZeroCsr
  /\ Unit!MaskedCsr = MaskedCsr
  BY DEF Unit!MachineCsr, Unit!SupervisorCsr, Unit!StoredCsr, Unit!ViewCsr, Unit!ZeroCsr,
         Unit!MaskedCsr,
         MachineCsr, SupervisorCsr, StoredCsr, ViewCsr, ZeroCsr, MaskedCsr

LEMMA UnitMasks ==
  /\ Unit!SstatusMask = SstatusMask /\ Unit!MstatusMask = MstatusMask
  /\ Unit!MstatushMask = MstatushMask /\ Unit!EnvcfgMask = EnvcfgMask
  /\ Unit!MseccfgMask = MseccfgMask /\ Unit!PmpcfgMask = PmpcfgMask
  /\ Unit!MppBits = MppBits /\ Unit!SSE = SSE /\ Unit!PmpW = PmpW
  /\ Unit!PmpR = PmpR /\ Unit!PmpL = PmpL
  BY DEF Unit!SstatusMask, Unit!MstatusMask, Unit!MstatushMask, Unit!EnvcfgMask,
         Unit!MseccfgMask, Unit!PmpcfgMask, Unit!MppBits, Unit!SIE, Unit!MIE, Unit!SPIE,
         Unit!MPIE, Unit!SPP, Unit!TVM, Unit!TSR, Unit!SPELP, Unit!MPELP, Unit!LPE, Unit!SSE,
         Unit!MLPE, Unit!PmpR, Unit!PmpW, Unit!PmpX, Unit!PmpL, Unit!PmpA,
         SstatusMask, MstatusMask, MstatushMask, EnvcfgMask, MseccfgMask, PmpcfgMask,
         MppBits, SIE, MIE, SPIE, MPIE, SPP, TVM, TSR, SPELP, MPELP, LPE, SSE, MLPE,
         PmpR, PmpW, PmpX, PmpL, PmpA

LEMMA UnitWrites ==
  ASSUME NEW c, NEW name, NEW op, NEW operand
  PROVE  /\ Unit!csr_new_value(c, name, op, operand) = csr_new_value(c, name, op, operand)
         /\ \A v : Unit!CsrWrite(c, name, v) = CsrWrite(c, name, v)
<1>1. \A m, v : Unit!compose_senvcfg(m, v) = compose_senvcfg(m, v)
  BY UnitMasks DEF Unit!compose_senvcfg, compose_senvcfg
<1>2. Unit!csr_rdata(c, name) = csr_rdata(c, name)
  BY <1>1, UnitMasks, UnitNames DEF Unit!csr_rdata, csr_rdata
<1>3. Unit!csr_new_value(c, name, op, operand) = csr_new_value(c, name, op, operand)
  BY <1>2 DEF Unit!csr_new_value, csr_new_value
<1>4. /\ \A v : Unit!sanitize_mstatus(v) = sanitize_mstatus(v)
      /\ \A v : Unit!sanitize_pmpcfg0(v) = sanitize_pmpcfg0(v)
  <2>1. \A m : Unit!MppOf(m) = MppOf(m)
    BY DEF Unit!MppOf, MppOf
  <2> QED
    BY <2>1, UnitMasks
       DEF Unit!sanitize_mstatus, Unit!sanitize_pmpcfg0, sanitize_mstatus, sanitize_pmpcfg0
<1>5. /\ \A m, v : Unit!update_sstatus_view(m, v) = update_sstatus_view(m, v)
      /\ \A m, v : Unit!delegated_merge(c, m, v) = delegated_merge(c, m, v)
      /\ \A v : Unit!align(v) = align(v)
      /\ Unit!pmp_locked(c) = pmp_locked(c)
  BY UnitMasks
     DEF Unit!update_sstatus_view, Unit!delegated_merge, Unit!align, Unit!pmp_locked,
         update_sstatus_view, delegated_merge, align, pmp_locked
<1>6. Unit!WrittenReg(name) = WrittenReg(name)
  BY UnitNames DEF Unit!WrittenReg, WrittenReg
<1>7. \A v : Unit!WrittenValue(c, name, v) = WrittenValue(c, name, v)
  BY <1>1, <1>4, <1>5, UnitMasks, UnitNames DEF Unit!WrittenValue, WrittenValue
<1>8. \A n, v : Unit!SetReg(c, n, v) = SetReg(c, n, v)
  BY DEF Unit!SetReg, SetReg
<1> QED
  BY <1>3, <1>6, <1>7, <1>8, UnitNames DEF Unit!CsrWrite, CsrWrite

LEMMA UnitNext ==
  ASSUME NEW c, NEW e, NEW x, NEW s, NEW l, NEW w
  PROVE  Unit!CsrNext(c, e, x, s, l, w) = CsrNext(c, e, x, s, l, w)
<1>1. Unit!SetReg(c, "ssp", Unit!Bits(s.data)) = SetReg(c, "ssp", Bits(s.data))
  BY DEF Unit!SetReg, Unit!Bits, SetReg, Bits
<1> QED
  BY <1>1, UnitTraps, UnitReturns, UnitWrites DEF Unit!CsrNext, CsrNext

LEMMA UnitGuards ==
  /\ \A c : Unit!shadow_stack_enabled(c) = shadow_stack_enabled(c)
  /\ \A c : Unit!current_lpe_enabled(c) = current_lpe_enabled(c)
  /\ \A name : Unit!CsrPriv(name) = CsrPriv(name) /\ Unit!CsrReadOnly(name) = CsrReadOnly(name)
  /\ Unit!PrvM = PrvM /\ Unit!PrvS = PrvS /\ Unit!PrvU = PrvU
  /\ Unit!TSR = TSR /\ Unit!TVM = TVM
  BY UnitNames, UnitMasks
     DEF Unit!shadow_stack_enabled, Unit!current_lpe_enabled, Unit!landing_pad_enabled,
         Unit!compose_senvcfg, Unit!CsrPriv, Unit!CsrReadOnly, Unit!PrvM, Unit!PrvS,
         Unit!PrvU, Unit!TSR, Unit!TVM, Unit!MLPE, Unit!LPE,
         shadow_stack_enabled, current_lpe_enabled, landing_pad_enabled,
         compose_senvcfg, CsrPriv, CsrReadOnly, PrvM, PrvS, PrvU, TSR, TVM, MLPE, LPE
-----------------------------------------------------------------------------
(* What decode lets through, and what cannot take it back. *)

\* The checks of decode, for an instruction and a CSR file.
MayRun(i, c) ==
  /\ i.op \in CsrOps =>
       /\ i.csr \in CsrName
       /\ c.priv >= CsrPriv(i.csr)
       /\ csr_write_intent(i) => ~CsrReadOnly(i.csr)
       /\ i.csr = "ssp" => c.priv = PrvM \/ shadow_stack_enabled(c)
       /\ i.csr = "satp" => ~(c.priv = PrvS /\ TVM \in c.reg["mstatus"])
  /\ i.op = "MRET" => c.priv = PrvM
  /\ i.op = "SRET" => c.priv # PrvU /\ ~(c.priv = PrvS /\ TSR \in c.reg["mstatus"])

\* Two files that these checks, and the shadow stack, cannot tell apart.
SameRights(c, d) ==
  /\ d.priv = c.priv
  /\ c.priv = PrvS =>
       /\ d.reg["menvcfg"] = c.reg["menvcfg"]
       /\ TSR \in d.reg["mstatus"] <=> TSR \in c.reg["mstatus"]
       /\ TVM \in d.reg["mstatus"] <=> TVM \in c.reg["mstatus"]
  /\ c.priv = PrvU =>
       d.reg["menvcfg"] = c.reg["menvcfg"] /\ d.reg["senvcfg"] = c.reg["senvcfg"]

LEMMA SameRightsRun ==
  ASSUME NEW i, NEW c, NEW d, c.priv \in Prv, SameRights(c, d), MayRun(i, c)
  PROVE  MayRun(i, d)
<1>1. shadow_stack_enabled(d) <=> shadow_stack_enabled(c)
  BY DEF SameRights, shadow_stack_enabled, PrvU, PrvS
<1>2. d.priv = c.priv
  BY DEF SameRights
<1>3. c.priv = PrvS => /\ TSR \in d.reg["mstatus"] <=> TSR \in c.reg["mstatus"]
                       /\ TVM \in d.reg["mstatus"] <=> TVM \in c.reg["mstatus"]
  BY DEF SameRights
<1> QED
  BY <1>1, <1>2, <1>3 DEF MayRun

\* No write takes back what the level it is made at allows.
LEMMA WritesKeepRights ==
  ASSUME NEW c, CsrOK(c), NEW name \in CsrName, NEW v, c.priv >= CsrPriv(name)
  PROVE  SameRights(c, CsrWrite(c, name, v))
<1>1. /\ c.reg \in [StoredCsr -> SUBSET Bit] /\ c.priv \in Prv
      /\ {"menvcfg", "senvcfg", "mstatus"} \subseteq StoredCsr
  BY CsrStateFields, StoredNames DEF CsrOK
<1>2. CASE name \in ZeroCsr
  BY <1>2 DEF CsrWrite, SameRights
<1>3. CASE c.priv = PrvM
  BY <1>3 DEF CsrWrite, SetReg, SameRights, PrvM, PrvS, PrvU
<1>4. CASE name \notin ZeroCsr /\ c.priv # PrvM
  <2> DEFINE d == CsrWrite(c, name, v)
  <2>1. /\ d.priv = c.priv
        /\ d.reg = [c.reg EXCEPT ![WrittenReg(name)] = WrittenValue(c, name, v)]
    BY <1>4 DEF CsrWrite, SetReg
  <2>2. name \notin MachineCsr
    BY <1>1, <1>4 DEF CsrPriv, Prv, PrvU, PrvS, PrvM
  <2>3. WrittenReg(name) # "menvcfg"
    BY <2>2 DEF WrittenReg, ViewCsr, MachineCsr
  <2>4. d.reg["menvcfg"] = c.reg["menvcfg"]
    BY <1>1, <2>1, <2>3
  <2>5. CASE c.priv = PrvS
    <3>1. CASE name = "sstatus"
      <4>1. d.reg["mstatus"] = (c.reg["mstatus"] \ SstatusMask) \cup (v \cap SstatusMask)
        BY <1>1, <2>1, <3>1
           DEF WrittenReg, WrittenValue, update_sstatus_view, ViewCsr, MaskedCsr
      <4>2. TSR \notin SstatusMask /\ TVM \notin SstatusMask
        BY DEF SstatusMask, TSR, TVM, SIE, SPIE, SPP, SPELP
      <4> QED
        BY <2>1, <2>4, <2>5, <4>1, <4>2 DEF SameRights, PrvS, PrvU
    <3>2. CASE name # "sstatus"
      <4>1. WrittenReg(name) # "mstatus"
        BY <2>2, <3>2 DEF WrittenReg, ViewCsr, MachineCsr
      <4>2. d.reg["mstatus"] = c.reg["mstatus"]
        BY <1>1, <2>1, <4>1
      <4> QED
        BY <2>1, <2>4, <2>5, <4>2 DEF SameRights, PrvS, PrvU
    <3> QED
      BY <3>1, <3>2
  <2>6. CASE c.priv = PrvU
    <3>1. name \notin SupervisorCsr \cup ViewCsr
      BY <2>2, <2>6, <1>4 DEF CsrPriv, PrvU, PrvS, PrvM
    <3>2. WrittenReg(name) # "senvcfg"
      BY <3>1 DEF WrittenReg, ViewCsr, SupervisorCsr
    <3>3. d.reg["senvcfg"] = c.reg["senvcfg"]
      BY <1>1, <2>1, <3>2
    <3> QED
      BY <2>1, <2>4, <2>6, <3>3 DEF SameRights, PrvS, PrvU
  <2> QED
    BY <1>1, <1>4, <2>5, <2>6 DEF Prv
<1> QED
  BY <1>2, <1>3, <1>4

LEMMA QuietNextKeepsRights ==
  ASSUME NEW c, CsrOK(c), NEW e, NEW s, NEW l, NEW w, ~e.valid,
         w.valid => w.name \in CsrName /\ c.priv >= CsrPriv(w.name)
  PROVE  SameRights(c, CsrNext(c, e, "none", s, l, w))
<1>1. SameRights(c, c)
  BY DEF SameRights
<1>2. SameRights(c, SetReg(c, "ssp", Bits(s.data)))
  <2>1. \A n \in {"menvcfg", "senvcfg", "mstatus"} :
          [c.reg EXCEPT !["ssp"] = Bits(s.data)][n] = c.reg[n]
    BY CsrStateFields, StoredNames DEF CsrOK
  <2> QED
    BY <2>1 DEF SetReg, SameRights
<1>3. SameRights(c, [reg |-> c.reg, priv |-> c.priv, elp |-> l.expected])
  BY DEF SameRights
<1>4. w.valid => SameRights(c, CsrWrite(c, w.name, csr_new_value(c, w.name, w.op, w.operand)))
  BY WritesKeepRights
<1> QED
  BY <1>1, <1>2, <1>3, <1>4 DEF CsrNext

-----------------------------------------------------------------------------
(* The invariant. *)

ExMayRun == idex.valid => MayRun(idex.instr, csr)

PopCheckEnabled ==
  exmem.sl = "SSPOPCHK" \/ memwb.sl = "SSPOPCHK" => ~csr.elp /\ shadow_stack_enabled(csr)

CInv == IInv /\ ExMayRun /\ PopCheckEnabled

LEMMA InitCInv == Init => CInv
<1> SUFFICES ASSUME Init PROVE ExMayRun /\ PopCheckEnabled
  BY InitIInv DEF CInv
<1>1. ~idex.valid /\ memwb.sl = "NOP"
  BY BubbleFacts DEF Init
<1>2. exmem \in {InertEXMEM(v) : v \in BOOLEAN}
  BY DEF Init, EXMEMBubble, BootMret
<1>3. exmem.sl = "NOP"
  BY <1>2 DEF InertEXMEM
<1> QED
  BY <1>1, <1>3 DEF ExMayRun, PopCheckEnabled

\* What is issued has passed the checks of decode.
LEMMA IssuedMayRun ==
  ASSUME csr.priv \in Prv, ifid.valid, ~take_branch_NextPC, ~keep_PC
  PROVE  MayRun(ifid.instr, csr)
<1>1. ~sspopchk_fault_WB
  BY DEF take_branch_NextPC, exception_valid
<1>2. ~id_exception_candidate_ID
  BY <1>1, CandidateResolved
<1>3. ~privileged_illegal_instr_ID
  BY <1>2 DEF id_exception_candidate_ID, illegal_instr_exception_ID,
              instr_access_fault_exception_ID
<1>4. ~csr_illegal(ifid.instr)
  BY <1>3 DEF privileged_illegal_instr_ID
<1>5. /\ ifid.instr.op = "MRET" => csr.priv = PrvM
      /\ ifid.instr.op = "SRET" =>
           csr.priv # PrvU /\ ~(csr.priv = PrvS /\ TSR \in csr.reg["mstatus"])
  BY <1>3 DEF privileged_illegal_instr_ID
<1>6. \A name : csr.priv >= CsrPriv(name) \/ csr.priv < CsrPriv(name)
  BY DEF Prv, PrvU, PrvS, PrvM, CsrPriv
<1> QED
  BY <1>4, <1>5, <1>6 DEF MayRun, csr_illegal, current_sse_enabled

\* The redirects of EX, the exceptions and the xRETs, are off when EX is filled.
LEMMA IssueIsQuiet ==
  ASSUME Next, idex'.valid
  PROVE  /\ ~take_branch_NextPC /\ ~keep_PC
         /\ ifid.valid /\ idex'.instr = ifid.instr
         /\ ~exception.valid /\ xret = "none"
<1>1. ~take_branch_NextPC /\ ~keep_PC /\ (idex' = Issued(FALSE) \/ idex' = Issued(TRUE))
  BY FrontEndMoves, BubbleFacts
<1>2. ifid.valid /\ idex'.instr = ifid.instr
  BY <1>1 DEF Issued
<1>3. ~exception.valid /\ xret = "none"
  BY <1>1, ExceptionPort DEF take_branch_NextPC, xret
<1> QED
  BY <1>1, <1>2, <1>3

\* A write in EX is one that decode let through.
LEMMA WriteMayRun ==
  ASSUME ExMayRun, csr_write.valid
  PROVE  /\ csr_write.name \in CsrName
         /\ csr.priv >= CsrPriv(csr_write.name)
         /\ ~CsrReadOnly(csr_write.name)
         /\ csr_write.name = "ssp" => csr.priv = PrvM \/ shadow_stack_enabled(csr)
         /\ csr_write.name = "satp" => ~(csr.priv = PrvS /\ TVM \in csr.reg["mstatus"])
<1>1. /\ idex.valid /\ csr_write_intent(idex.instr) /\ idex.instr.csr \in CsrName
      /\ csr_write.name = idex.instr.csr
  BY DEF csr_write
<1>2. idex.instr.op \in CsrOps
  BY <1>1 DEF csr_write_intent, CsrOps, CsrRegOps, CsrImmOps
<1> QED
  BY <1>1, <1>2 DEF ExMayRun, MayRun

LEMMA NextExMayRun == CInv /\ Next => ExMayRun'
<1> SUFFICES ASSUME CInv, Next, idex'.valid PROVE MayRun(idex'.instr, csr')
  BY DEF ExMayRun
<1>1. CsrOK(csr) /\ ExMayRun
  BY DEF CInv, IInv
<1>2. csr.priv \in Prv
  BY <1>1, CsrStateFields DEF CsrOK
<1>3. MayRun(idex'.instr, csr)
  BY <1>2, IssueIsQuiet, IssuedMayRun
<1>4. csr' = CsrNext(csr, exception, "none", ssp_update, elp_update, csr_write)
  BY BackEndMoves, IssueIsQuiet DEF BackEnd, StepCsr
<1>5. csr_write.valid => csr_write.name \in CsrName /\ csr.priv >= CsrPriv(csr_write.name)
  BY <1>1, WriteMayRun
<1>6. SameRights(csr, csr')
  BY <1>1, <1>4, <1>5, IssueIsQuiet, QuietNextKeepsRights
<1> QED
  BY <1>2, <1>3, <1>6, SameRightsRun

\* While a shadow-stack access is under way and makes no request of its own,
\* the CSR unit gets none.
LEMMA ShadowQuiet ==
  ASSUME BackEnd, shadow_serialize, older_pipeline_active, ~exception_valid_EX,
         ~sspopchk_WB, ~xret_EX, ~sspush_EX, ~elp_set_EX, ~csr_write.valid
  PROVE  csr' = csr
<1>1. ~exception_valid
  BY DEF exception_valid, sspopchk_fault_WB, instr_fault_effective_ID,
         software_check_effective_ID, illegal_instr_effective_ID, id_exception_ready
<1>2. ~exception.valid /\ xret = "none"
  BY <1>1, ExceptionPort DEF xret
<1>3. ~ssp_update.valid
  BY DEF ssp_update, sspopchk_success_WB
<1>4. ~elp_update.valid
  BY DEF elp_update, flushes_id_exception_ID
<1> QED
  BY <1>2, <1>3, <1>4 DEF BackEnd, StepCsr, CsrNext

LEMMA NextPopCheckEnabled == CInv /\ Next => PopCheckEnabled'
<1> SUFFICES ASSUME CInv, Next PROVE PopCheckEnabled'
  OBVIOUS
<1>1. BackEnd /\ BubblesInert /\ ShadowAlone /\ NothingRunsBeforeThePad /\ PopCheckEnabled
  BY BackEndMoves DEF CInv, IInv, InFlightDiscipline
<1>2. CASE exmem'.sl = "SSPOPCHK"
  <2>1. exmem' # EXMEMBubble /\ sl_type_effective_EX = "SSPOPCHK"
    BY <1>1, <1>2, EXMEMNext, BubbleFacts
  <2>2. ~exception_valid_EX
    BY <1>1, <2>1 DEF BackEnd, StepEXMEM
  <2>3. shadow_mem_active_EX /\ opEX = "SSPOPCHK"
    BY <2>1, EffectiveAccess DEF sl_type_effective_EX, sl_type, opEX, MemOps
  <2>4. idex.valid /\ current_sse_enabled /\ ~csr.elp
    BY <1>1, <2>3 DEF shadow_mem_active_EX, NothingRunsBeforeThePad
  <2>5. shadow_serialize /\ older_pipeline_active /\ ~sspopchk_WB
    BY <1>1, <2>3, <2>4 DEF shadow_serialize, older_pipeline_active, sspopchk_WB, ShadowAlone
  <2>6. ~xret_EX /\ ~sspush_EX /\ ~elp_set_EX
    BY <2>3 DEF xret_EX, sspush_EX, elp_set_EX
  <2>7. ~csr_write.valid
    BY <2>3 DEF csr_write, csr_write_intent, CsrOps, CsrRegOps, CsrImmOps, opEX
  <2>8. csr' = csr
    BY <1>1, <2>2, <2>5, <2>6, <2>7, ShadowQuiet
  <2> QED
    BY <2>4, <2>8 DEF PopCheckEnabled, current_sse_enabled
<1>3. CASE memwb'.sl = "SSPOPCHK"
  <2>1. exmem.sl = "SSPOPCHK"
    BY <1>1, <1>3, MEMWBNext
  <2>2. exmem.valid /\ ~idex.valid /\ memwb.sl \notin Shadow
    BY <1>1, <2>1 DEF BubblesInert, ShadowAlone
  <2>3. shadow_serialize /\ older_pipeline_active /\ ~sspopchk_WB
    BY <2>1, <2>2 DEF shadow_serialize, older_pipeline_active, sspopchk_WB
  <2>4. ~exception_valid_EX /\ ~xret_EX /\ ~sspush_EX /\ ~elp_set_EX /\ ~csr_write.valid
    BY <2>2 DEF exception_valid_EX, xret_EX, sspush_EX, shadow_mem_active_EX, elp_set_EX,
                csr_write
  <2>5. csr' = csr
    BY <1>1, <2>3, <2>4, ShadowQuiet
  <2> QED
    BY <1>1, <2>1, <2>5 DEF PopCheckEnabled
<1> QED
  BY <1>2, <1>3 DEF PopCheckEnabled

LEMMA NextCInv == CInv /\ [Next]_vars => CInv'
<1>1. CInv /\ UNCHANGED vars => CInv'
  BY StutterIInv DEF CInv, ExMayRun, PopCheckEnabled, vars
<1> QED
  BY <1>1, NextIInv, NextExMayRun, NextPopCheckEnabled DEF CInv

LEMMA CInvariance == Spec => []CInv
  BY InitCInv, NextCInv, PTL DEF Spec

-----------------------------------------------------------------------------
(* One lemma for each kind of request. *)

LEMMA TrapUses ==
  ASSUME BackEnd, exception.valid
  PROVE  UnitStep
<1>1. csr' = CsrNext(csr, exception, "none", Unit!NoSsp, Unit!NoElp, Unit!NoWrite)
  BY DEF BackEnd, StepCsr, CsrNext
<1> QED
  BY <1>1, UnitNext DEF UnitStep, Unit!Exception

LEMMA ReturnUses ==
  ASSUME CInv, BackEnd, ~exception.valid, xret # "none"
  PROVE  UnitStep
<1>1. /\ idex.valid /\ ~csr.elp /\ MayRun(idex.instr, csr)
      /\ \/ xret = "mret" /\ idex.instr.op = "MRET"
         \/ xret = "sret" /\ idex.instr.op = "SRET"
  BY DEF xret, xret_EX, opEX, CInv, IInv, ExMayRun, NothingRunsBeforeThePad
<1>2. ~Unit!NoException.valid
  BY DEF Unit!NoException
<1>3. csr' = CsrNext(csr, Unit!NoException, xret, Unit!NoSsp, Unit!NoElp, Unit!NoWrite)
  BY <1>1, <1>2 DEF BackEnd, StepCsr, CsrNext
<1>4. CASE xret = "mret"
  BY <1>1, <1>3, <1>4, UnitNext, UnitGuards DEF UnitStep, Unit!MachineReturn, MayRun
<1>5. CASE xret = "sret"
  BY <1>1, <1>3, <1>5, UnitNext, UnitGuards DEF UnitStep, Unit!SupervisorReturn, MayRun
<1> QED
  BY <1>1, <1>4, <1>5

LEMMA SspUses ==
  ASSUME CInv, BackEnd, ~exception.valid, xret = "none", ssp_update.valid
  PROVE  UnitStep
<1>1. ~csr.elp /\ shadow_stack_enabled(csr)
  BY DEF ssp_update, sspush_EX, shadow_mem_active_EX, current_sse_enabled,
         sspopchk_success_WB, sspopchk_WB, CInv, IInv, PopCheckEnabled,
         NothingRunsBeforeThePad
<1> DEFINE s == [valid |-> TRUE, data |-> ssp_update.data]
<1>2. ~Unit!NoException.valid
  BY DEF Unit!NoException
<1>3. csr' = CsrNext(csr, Unit!NoException, "none", s, Unit!NoElp, Unit!NoWrite)
  BY <1>2 DEF BackEnd, StepCsr, CsrNext
<1> QED
  BY <1>1, <1>3, UnitNext, UnitGuards DEF UnitStep, Unit!SspUpdate

LEMMA PadUses ==
  ASSUME CInv, BackEnd, ~exception.valid, xret = "none", ~ssp_update.valid, elp_update.valid
  PROVE  UnitStep
<1>1. ~Unit!NoException.valid /\ ~Unit!NoSsp.valid
  BY DEF Unit!NoException, Unit!NoSsp
<1>2. elp_update.expected \in BOOLEAN
  BY CsrPorts DEF Ports
<1> DEFINE l == [valid |-> TRUE, expected |-> elp_update.expected]
<1>3. csr' = CsrNext(csr, Unit!NoException, "none", Unit!NoSsp, l, Unit!NoWrite)
  BY <1>1 DEF BackEnd, StepCsr, CsrNext
<1>4. CASE elp_update.expected
  <2>1. idex.valid /\ current_lpe_enabled(csr) /\ ~csr.elp
    BY <1>4 DEF elp_update, elp_set_EX, CInv, IInv, NothingRunsBeforeThePad
  <2>2. l = [valid |-> TRUE, expected |-> TRUE]
    BY <1>2, <1>4
  <2> QED
    BY <1>3, <2>1, <2>2, UnitNext, UnitGuards DEF UnitStep, Unit!IndirectJump
<1>5. CASE ~elp_update.expected
  <2>1. l = [valid |-> TRUE, expected |-> FALSE]
    BY <1>2, <1>5
  <2> QED
    BY <1>3, <2>1, UnitNext DEF UnitStep, Unit!LandingPad
<1> QED
  BY <1>4, <1>5

LEMMA WriteUses ==
  ASSUME CInv, BackEnd, ~exception.valid, xret = "none", ~ssp_update.valid,
         ~elp_update.valid, csr_write.valid
  PROVE  UnitStep
<1>1. ~csr.elp
  BY DEF csr_write, CInv, IInv, NothingRunsBeforeThePad
<1>2. ~Unit!NoException.valid /\ ~Unit!NoSsp.valid /\ ~Unit!NoElp.valid
  BY DEF Unit!NoException, Unit!NoSsp, Unit!NoElp
<1>3. csr' = CsrNext(csr, Unit!NoException, "none", Unit!NoSsp, Unit!NoElp, csr_write)
  BY <1>2 DEF BackEnd, StepCsr, CsrNext
<1>4. Unit!MayWrite(csr_write.name)
  BY WriteMayRun, UnitGuards DEF CInv, Unit!MayWrite
<1> QED
  BY <1>1, <1>3, <1>4, UnitNext DEF UnitStep, Unit!Write

LEMMA StepUses == CInv /\ [Next]_vars => [UnitStep]_csr
<1>1. CASE UNCHANGED vars
  BY <1>1 DEF vars
<1>2. ASSUME CInv, Next
      PROVE  UnitStep \/ csr' = csr
  <2>1. BackEnd
    BY <1>2, BackEndMoves
  <2>2. CASE exception.valid
    BY <2>1, <2>2, TrapUses
  <2>3. CASE ~exception.valid /\ xret # "none"
    BY <1>2, <2>1, <2>3, ReturnUses
  <2>4. CASE ~exception.valid /\ xret = "none" /\ ssp_update.valid
    BY <1>2, <2>1, <2>4, SspUses
  <2>5. CASE ~exception.valid /\ xret = "none" /\ ~ssp_update.valid /\ elp_update.valid
    BY <1>2, <2>1, <2>5, PadUses
  <2>6. CASE /\ ~exception.valid /\ xret = "none" /\ ~ssp_update.valid
             /\ ~elp_update.valid /\ csr_write.valid
    BY <1>2, <2>1, <2>6, WriteUses
  <2>7. CASE /\ ~exception.valid /\ xret = "none" /\ ~ssp_update.valid
             /\ ~elp_update.valid /\ ~csr_write.valid
    BY <2>1, <2>7 DEF BackEnd, StepCsr, CsrNext
  <2> QED
    BY <2>2, <2>3, <2>4, <2>5, <2>6, <2>7
<1> QED
  BY <1>1, <1>2

\* Whatever the program, every change of the CSRs inside the core is a request
\* the stand-alone model of the CSR unit allows: what is in flight can lose no
\* right on its way from decode to EX, and none but a trap or the landing pad
\* itself reaches the unit while one is expected.
THEOREM CsrUnitUsedAsAssumed == Spec => UsesCsrUnit
  BY CInvariance, StepUses, PTL DEF Spec, UsesCsrUnit

-----------------------------------------------------------------------------
(* Fetch permissions.  The verdict is reached in IF and carried to ID, so it  *)
(* must still be right when the instruction is issued and while it is in EX,  *)
(* although older instructions write CSRs in between.                         *)

fetch_fault(addr) ==
  access_fault("fetch", addr, 4, csr.priv, csr.reg["pmpcfg0"], Value(csr.reg["pmpaddr0"]))

\* What IF/ID and ID/EX carry is what the checker would say now.
VerdictsCurrent ==
  /\ ifid.valid => (ifid.fault <=> fetch_fault(ifid.pc))
  /\ idex.valid => ~fetch_fault(idex.pc)

\* Whatever is in the front end after a clock edge, that edge was no trap and no return.
LEMMA StayIsQuiet ==
  ASSUME Next, ifid'.valid \/ idex'.valid
  PROVE  ~exception.valid /\ xret = "none"
<1>1. ~exception_valid /\ ~xret_EX
  BY BubbleFacts DEF Next, Trap, XReturn, Recover, Stall, PredictedFetch, SequentialFetch,
                     Redirect, take_branch_NextPC
<1> QED
  BY <1>1, ExceptionPort DEF xret

\* A clock edge without trap or return writes the PMP entry only by a CSR write.
LEMMA QuietNextKeepsPmp ==
  ASSUME NEW c, CsrOK(c), NEW e, NEW s, NEW l, NEW w, ~e.valid,
         w.valid => w.name \in CsrName \ PmpRegs
  PROVE  SamePmp(c, CsrNext(c, e, "none", s, l, w))
<1>1. c.reg \in [StoredCsr -> SUBSET Bit] /\ PmpRegs \subseteq StoredCsr
  BY CsrStateFields, StoredNames DEF CsrOK, PmpRegs
<1>2. SamePmp(c, c) /\ SamePmp(c, [reg |-> c.reg, priv |-> c.priv, elp |-> l.expected])
  BY DEF SamePmp
<1>3. SamePmp(c, SetReg(c, "ssp", Bits(s.data)))
  BY <1>1 DEF SamePmp, SetReg, PmpRegs
<1>4. ASSUME w.valid, NEW v PROVE SamePmp(c, CsrWrite(c, w.name, v))
  <2>1. CASE w.name \in ZeroCsr
    BY <2>1 DEF CsrWrite, SamePmp
  <2>2. CASE w.name \notin ZeroCsr
    <3>1. WrittenReg(w.name) \notin PmpRegs
      BY <1>4 DEF PmpRegs, WrittenReg, ViewCsr
    <3>2. CsrWrite(c, w.name, v).reg = [c.reg EXCEPT ![WrittenReg(w.name)] = WrittenValue(c, w.name, v)]
      BY <2>2 DEF CsrWrite, SetReg
    <3> QED
      BY <1>1, <3>1, <3>2 DEF SamePmp
  <2> QED
    BY <2>1, <2>2
<1> QED
  BY <1>2, <1>3, <1>4 DEF CsrNext

LEMMA QuietNextKeepsLevel ==
  ASSUME NEW c, NEW e, NEW s, NEW l, NEW w, ~e.valid
  PROVE  CsrNext(c, e, "none", s, l, w).priv = c.priv
  BY DEF CsrNext, SetReg, CsrWrite

\* A lock is not undone.
LEMMA QuietNextKeepsLock ==
  ASSUME NEW c, CsrOK(c), NEW e, NEW s, NEW l, NEW w, ~e.valid, pmp_locked(c),
         w.valid => /\ w.name \in CsrName /\ w.op \in {"RW", "RS", "RC"}
                    /\ w.operand \in SUBSET Bit
  PROVE  pmp_locked(CsrNext(c, e, "none", s, l, w))
<1>1. CASE w.valid => w.name \notin PmpRegs
  BY <1>1, QuietNextKeepsPmp DEF pmp_locked, SamePmp, PmpRegs
<1>2. CASE w.valid /\ w.name \in PmpRegs
  <2> DEFINE v == csr_new_value(c, w.name, w.op, w.operand)
  <2>1. v \in SUBSET Bit
    BY <1>2, NewValueType
  <2>2. SamePmp(c, CsrWrite(c, w.name, v))
    BY <1>2, <2>1, WritesKeepLockedPmp
  <2>3. \/ CsrNext(c, e, "none", s, l, w) = CsrWrite(c, w.name, v)
        \/ CsrNext(c, e, "none", s, l, w) = SetReg(c, "ssp", Bits(s.data))
        \/ CsrNext(c, e, "none", s, l, w) = [reg |-> c.reg, priv |-> c.priv, elp |-> l.expected]
    BY <1>2 DEF CsrNext
  <2>4. c.reg \in [StoredCsr -> SUBSET Bit]
    BY CsrStateFields DEF CsrOK
  <2>5. pmp_locked(CsrWrite(c, w.name, v))
    BY <2>2 DEF pmp_locked, SamePmp, PmpRegs
  <2>6. pmp_locked(SetReg(c, "ssp", Bits(s.data)))
    BY <2>4, StoredNames DEF pmp_locked, SetReg
  <2>7. pmp_locked([reg |-> c.reg, priv |-> c.priv, elp |-> l.expected])
    BY DEF pmp_locked
  <2> HIDE DEF v
  <2> QED
    BY <2>3, <2>5, <2>6, <2>7
<1> QED
  BY <1>1, <1>2

\* What the checker says is kept, and so is what the front end carries.
LEMMA NextVerdicts ==
  ASSUME Next, VerdictsCurrent,
         ifid'.valid \/ idex'.valid => \A a : fetch_fault(a)' <=> fetch_fault(a)
  PROVE  VerdictsCurrent'
<1>1. ASSUME ifid'.valid PROVE ifid'.fault <=> fetch_fault(ifid'.pc)
  <2>1. ifid' = ifid \/ ifid' = Fetched
    BY <1>1, FrontEndMoves, BubbleFacts
  <2>2. Fetched.fault <=> fetch_fault(Fetched.pc)
    BY DEF Fetched, fetch_access_fault_IF, fetch_fault
  <2> QED
    BY <1>1, <2>1, <2>2 DEF VerdictsCurrent
<1>2. ASSUME idex'.valid PROVE ~fetch_fault(idex'.pc)
  <2>1. /\ ifid.valid /\ ~take_branch_NextPC /\ ~keep_PC
        /\ idex'.pc = ifid.pc
    BY <1>2, IssueIsQuiet, FrontEndMoves, BubbleFacts DEF Issued
  <2>2. ~id_exception_candidate_ID
    BY <2>1, CandidateResolved DEF take_branch_NextPC, exception_valid
  <2>3. ~ifid.fault
    BY <2>1, <2>2 DEF id_exception_candidate_ID, instr_access_fault_exception_ID
  <2> QED
    BY <2>1, <2>3 DEF VerdictsCurrent
<1> QED
  BY <1>1, <1>2 DEF VerdictsCurrent

\* After a quiet clock edge the checker says what it said before, unless the PMP
\* entry was written.
LEMMA FaultsKeptByWrites ==
  ASSUME CInv, Next, ~exception.valid, xret = "none",
         csr_write.valid => csr_write.name \notin PmpRegs
  PROVE  \A a : fetch_fault(a)' <=> fetch_fault(a)
<1>1. CsrOK(csr) /\ ExMayRun
  BY DEF CInv, IInv
<1>2. csr' = CsrNext(csr, exception, "none", ssp_update, elp_update, csr_write)
  BY BackEndMoves DEF BackEnd, StepCsr
<1>3. csr'.priv = csr.priv
  BY <1>2, QuietNextKeepsLevel
<1>4. csr_write.valid => csr_write.name \in CsrName \ PmpRegs
  BY <1>1, WriteMayRun
<1>5. SamePmp(csr, csr')
  BY <1>1, <1>2, <1>4, QuietNextKeepsPmp
<1> QED
  BY <1>3, <1>5 DEF fetch_fault, SamePmp, PmpRegs

\* M mode is not bound by an entry that is not locked, and no write unlocks one.
LEMMA FaultsKeptUnlocked ==
  ASSUME CInv, Next, ~exception.valid, xret = "none",
         csr'.priv = PrvM, PmpL \notin csr'.reg["pmpcfg0"]
  PROVE  /\ \A a : fetch_fault(a)' <=> fetch_fault(a)
         /\ PmpL \notin csr.reg["pmpcfg0"]
<1>1. CsrOK(csr)
  BY DEF CInv, IInv
<1>2. csr' = CsrNext(csr, exception, "none", ssp_update, elp_update, csr_write)
  BY BackEndMoves DEF BackEnd, StepCsr
<1>3. csr'.priv = csr.priv
  BY <1>2, QuietNextKeepsLevel
<1>4. csr_write.valid => /\ csr_write.name \in CsrName /\ csr_write.op \in {"RW", "RS", "RC"}
                         /\ csr_write.operand \in SUBSET Bit
  BY CsrPorts DEF Ports
<1>5. ~pmp_locked(csr)
  BY <1>1, <1>2, <1>4, QuietNextKeepsLock DEF pmp_locked
<1> QED
  BY <1>3, <1>5 DEF fetch_fault, access_fault, pmp_applies, pmp_locked

\* Below M mode, and in M mode while the entry is not locked, no write of a program
\* can reach a verdict that is under way.
MachineUnbound == csr.priv # PrvM \/ PmpL \notin csr.reg["pmpcfg0"]

LEMMA MachineUnboundStep ==
  ASSUME CInv, Next, MachineUnbound => VerdictsCurrent, MachineUnbound'
  PROVE  VerdictsCurrent'
<1>1. CASE ~ifid'.valid /\ ~idex'.valid
  BY <1>1 DEF VerdictsCurrent
<1>2. CASE ifid'.valid \/ idex'.valid
  <2>1. ~exception.valid /\ xret = "none"
    BY <1>2, StayIsQuiet
  <2>2. csr' = CsrNext(csr, exception, "none", ssp_update, elp_update, csr_write)
    BY <2>1, BackEndMoves DEF BackEnd, StepCsr
  <2>3. csr'.priv = csr.priv /\ CsrOK(csr) /\ ExMayRun
    BY <2>1, <2>2, QuietNextKeepsLevel DEF CInv, IInv
  <2>4. CASE csr'.priv = PrvM
    <3>1. PmpL \notin csr'.reg["pmpcfg0"]
      BY <2>4 DEF MachineUnbound
    <3>2. PmpL \notin csr.reg["pmpcfg0"] /\ \A a : fetch_fault(a)' <=> fetch_fault(a)
      BY <2>1, <2>4, <3>1, FaultsKeptUnlocked
    <3> QED
      BY <3>2, NextVerdicts DEF MachineUnbound
  <2>5. CASE csr'.priv # PrvM
    <3>1. MachineUnbound
      BY <2>3, <2>5 DEF MachineUnbound
    <3>2. csr_write.valid => csr_write.name \notin PmpRegs
      <4>1. csr.priv \in Prv
        BY <2>3, CsrStateFields DEF CsrOK
      <4>2. csr_write.valid => csr.priv >= CsrPriv(csr_write.name)
        BY <2>3, WriteMayRun
      <4>3. \A n \in PmpRegs : CsrPriv(n) = PrvM
        BY DEF PmpRegs, CsrPriv, MachineCsr
      <4> QED
        BY <2>3, <2>5, <4>1, <4>2, <4>3 DEF Prv, PrvU, PrvS, PrvM
    <3>3. \A a : fetch_fault(a)' <=> fetch_fault(a)
      BY <2>1, <3>2, FaultsKeptByWrites
    <3> QED
      BY <3>1, <3>3, NextVerdicts
  <2> QED
    BY <2>4, <2>5
<1> QED
  BY <1>1, <1>2

LEMMA EmptyVerdicts == Init => VerdictsCurrent
  BY BubbleFacts DEF Init, VerdictsCurrent

LEMMA StutterVerdicts ==
  UNCHANGED vars => (VerdictsCurrent' <=> VerdictsCurrent) /\ (MachineUnbound' <=> MachineUnbound)
  BY DEF vars, VerdictsCurrent, MachineUnbound, fetch_fault

LEMMA VerdictsDecide == VerdictsCurrent => ExecutesOnlyPermitted
  BY DEF VerdictsCurrent, ExecutesOnlyPermitted, fetch_fault

\* Whatever the program writes, and wherever the write is when the instructions
\* behind it are fetched, EX holds none from an address that its mode may not
\* fetch from: the window between the check in IF and the execution is harmless
\* below M mode, and in M mode as long as no lock closes there.
THEOREM FetchesStayPermitted == Spec => [](MachineUnbound => ExecutesOnlyPermitted)
<1>1. Init => (MachineUnbound => VerdictsCurrent)
  BY EmptyVerdicts
<1>2. CInv /\ (MachineUnbound => VerdictsCurrent) /\ [Next]_vars
        => (MachineUnbound => VerdictsCurrent)'
  BY MachineUnboundStep, StutterVerdicts
<1>3. (MachineUnbound => VerdictsCurrent) => (MachineUnbound => ExecutesOnlyPermitted)
  BY VerdictsDecide
<1> QED
  BY <1>1, <1>2, <1>3, CInvariance, PTL DEF Spec

-----------------------------------------------------------------------------
(* With the PMP entry left to the boot code the caveat about M mode goes.     *)

\* What is in ID and EX came from the memory.
Loaded(i) == i = Zero \/ \E a \in WordIndex : i = rom[a]

FromMemory == Loaded(ifid.instr) /\ Loaded(idex.instr)

LEMMA NextFromMemory == DInv /\ FromMemory /\ Next => FromMemory'
<1> SUFFICES ASSUME DInv, FromMemory, Next PROVE FromMemory'
  OBVIOUS
<1>1. rom' = rom
  BY BackEndMoves DEF BackEnd
<1>2. Loaded(Fetched.instr)
  <2>1. IndexOf(pc) \in WordIndex
    BY Words, IndexType
  <2> QED
    BY <2>1 DEF Fetched, Loaded
<1>3. Loaded(ifid'.instr)
  BY <1>2, FrontEndMoves, BubbleFacts DEF FromMemory, Loaded
<1>4. Loaded(idex'.instr)
  <2>1. \A fired \in BOOLEAN : Issued(fired).instr = ifid.instr
    BY DEF Issued
  <2>2. idex' = IDEXBubble \/ \E fired \in BOOLEAN : idex' = Issued(fired)
    BY FrontEndMoves
  <2> QED
    BY <2>1, <2>2, BubbleFacts DEF FromMemory, Loaded
<1> QED
  BY <1>1, <1>3, <1>4 DEF FromMemory, Loaded

LEMMA InitFromMemory == Init => FromMemory
  BY BubbleFacts DEF Init, FromMemory, Loaded

LEMMA StutterFromMemory == FromMemory /\ UNCHANGED vars => FromMemory'
  BY DEF FromMemory, Loaded, vars

LEMMA MemoryInvariance == Spec => []FromMemory
<1>1. DInv /\ FromMemory /\ [Next]_vars => FromMemory'
  BY NextFromMemory, StutterFromMemory
<1> QED
  BY <1>1, InitFromMemory, DataInvariance, PTL DEF Spec

LEMMA NoPmpWrite ==
  ASSUME PmpLeftToBoot, DInv, FromMemory, csr_write.valid
  PROVE  csr_write.name \notin PmpRegs
<1>1. csr_write_intent(idex.instr) /\ csr_write.name = idex.instr.csr
  BY DEF csr_write
<1>2. idex.instr # Zero
  BY <1>1 DEF csr_write_intent, CsrOps, CsrRegOps, CsrImmOps, Zero
<1> QED
  BY <1>1, <1>2 DEF PmpLeftToBoot, PmpRegs, DInv, FromMemory, Loaded

LEMMA BootPmpStep ==
  ASSUME PmpLeftToBoot, CInv, DInv, FromMemory, Next, VerdictsCurrent
  PROVE  VerdictsCurrent'
<1>1. CASE ~ifid'.valid /\ ~idex'.valid
  BY <1>1 DEF VerdictsCurrent
<1>2. CASE ifid'.valid \/ idex'.valid
  <2>1. ~exception.valid /\ xret = "none"
    BY <1>2, StayIsQuiet
  <2>2. csr_write.valid => csr_write.name \notin PmpRegs
    BY NoPmpWrite
  <2>3. \A a : fetch_fault(a)' <=> fetch_fault(a)
    BY <2>1, <2>2, FaultsKeptByWrites
  <2> QED
    BY <2>3, NextVerdicts
<1> QED
  BY <1>1, <1>2

\* If the programs leave the PMP entry to the boot code, nothing is ever executed
\* from an address its mode may not fetch from, locked entry or not.
THEOREM OnlyPermittedExecutes ==
  ASSUME PmpLeftToBoot
  PROVE  Spec => []ExecutesOnlyPermitted
<1>1. CInv /\ DInv /\ FromMemory /\ VerdictsCurrent /\ [Next]_vars => VerdictsCurrent'
  BY BootPmpStep, StutterVerdicts
<1> QED
  BY <1>1, EmptyVerdicts, VerdictsDecide, CInvariance, DataInvariance, MemoryInvariance, PTL
     DEF Spec
=============================================================================
