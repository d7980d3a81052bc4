--------------------------- MODULE PipelineIsaProofs ---------------------------
(***************************************************************************)
(* The pipeline implements the architectural machine Isa, for every        *)
(* program that PrecisePrograms admits, every boot state and every width.  *)
(*                                                                         *)
(* The argument has three steps.  RefinementInv, the invariant about what  *)
(* the stages hold, is shown to be preserved by every clock edge, part by  *)
(* part.  The mapped registers, memory, CSRs and program counter are shown *)
(* to change at an edge only by what leaves EX or WB or traps.  Then each  *)
(* kind of instruction that can do so is matched with the action of Isa    *)
(* that executes it, and an edge at which none does, with a stutter.       *)
(***************************************************************************)
EXTENDS PipelineCsrProofs

USE DEF Shadow

-----------------------------------------------------------------------------
(* The instance of Isa has operators of its own; they are those of the core.  *)

LEMMA ArchNames ==
  /\ Arch!MachineCsr = MachineCsr /\ Arch!SupervisorCsr = SupervisorCsr
  /\ Arch!StoredCsr = StoredCsr /\ Arch!ViewCsr = ViewCsr /\ Arch!ZeroCsr = ZeroCsr
  /\ Arch!CsrName = CsrName /\ Arch!MaskedCsr = MaskedCsr
  BY DEF Arch!MachineCsr, Arch!SupervisorCsr, Arch!StoredCsr, Arch!ViewCsr, Arch!ZeroCsr,
         Arch!CsrName, Arch!MaskedCsr,
         MachineCsr, SupervisorCsr, StoredCsr, ViewCsr, ZeroCsr, CsrName, MaskedCsr

LEMMA ArchBits ==
  /\ Arch!SIE = SIE /\ Arch!MIE = MIE /\ Arch!SPIE = SPIE /\ Arch!MPIE = MPIE
  /\ Arch!SPP = SPP /\ Arch!TVM = TVM /\ Arch!TSR = TSR /\ Arch!SPELP = SPELP
  /\ Arch!MPELP = MPELP /\ Arch!LPE = LPE /\ Arch!SSE = SSE /\ Arch!MLPE = MLPE
  /\ Arch!PmpR = PmpR /\ Arch!PmpW = PmpW /\ Arch!PmpX = PmpX /\ Arch!PmpL = PmpL
  /\ Arch!MppBits = MppBits /\ Arch!PrvU = PrvU /\ Arch!PrvS = PrvS /\ Arch!PrvM = PrvM
  BY DEF Arch!SIE, Arch!MIE, Arch!SPIE, Arch!MPIE, Arch!SPP, Arch!TVM, Arch!TSR, Arch!SPELP,
         Arch!MPELP, Arch!LPE, Arch!SSE, Arch!MLPE, Arch!PmpR, Arch!PmpW, Arch!PmpX,
         Arch!PmpL, Arch!MppBits, Arch!PrvU, Arch!PrvS, Arch!PrvM,
         SIE, MIE, SPIE, MPIE, SPP, TVM, TSR, SPELP, MPELP, LPE, SSE, MLPE,
         PmpR, PmpW, PmpX, PmpL, MppBits, PrvU, PrvS, PrvM

LEMMA ArchMasks ==
  /\ Arch!SstatusMask = SstatusMask /\ Arch!MstatusMask = MstatusMask
  /\ Arch!MstatushMask = MstatushMask /\ Arch!EnvcfgMask = EnvcfgMask
  /\ Arch!MseccfgMask = MseccfgMask /\ Arch!PmpcfgMask = PmpcfgMask
<1>1. Arch!PmpA = PmpA
  BY DEF Arch!PmpA, PmpA
<1> QED
  BY <1>1, ArchBits
     DEF Arch!SstatusMask, Arch!MstatusMask, Arch!MstatushMask, Arch!EnvcfgMask,
         Arch!MseccfgMask, Arch!PmpcfgMask,
         SstatusMask, MstatusMask, MstatushMask, EnvcfgMask, MseccfgMask, PmpcfgMask

LEMMA ArchNumbers ==
  /\ \A n : Arch!Wrap(n) = Wrap(n) /\ Arch!Bits(n) = Bits(n) /\ Arch!Value(n) = Value(n)
  /\ \A n : Arch!Slot(n) = IndexOf(n)
<1>1. \A n : Arch!Wrap(n) = Wrap(n)
  BY DEF Arch!Wrap, Wrap
<1>2. \A n : Arch!Bits(n) = Bits(n)
  BY DEF Arch!Bits, Bits
<1>3. \A n : Arch!Value(n) = Value(n)
  BY DEF Arch!Value, Value, Arch!MapThenSumSet, MapThenSumSet,
         Arch!MapThenFoldSet, MapThenFoldSet
<1>4. \A n : Arch!Slot(n) = IndexOf(n)
  BY DEF Arch!Slot, IndexOf
<1> QED
  BY <1>1, <1>2, <1>3, <1>4

LEMMA ArchFields ==
  /\ \A v : Arch!align(v) = align(v)
  /\ \A a, b : Arch!If(a, b) = If(a, b)
  /\ \A p : Arch!MppEncode(p) = MppEncode(p)
  /\ \A m : Arch!MppOf(m) = MppOf(m)
  /\ \A c, n : Arch!take_delegated_trap(c, n) = take_delegated_trap(c, n)
  /\ \A p, r : Arch!landing_pad_enabled(p, r) = landing_pad_enabled(p, r)
  /\ \A m, v : Arch!compose_senvcfg(m, v) = compose_senvcfg(m, v)
  BY ArchBits, ArchMasks
     DEF Arch!align, Arch!If, Arch!MppEncode, Arch!MppOf, Arch!take_delegated_trap,
         Arch!landing_pad_enabled, Arch!compose_senvcfg,
         align, If, MppEncode, MppOf, take_delegated_trap, landing_pad_enabled,
         compose_senvcfg

LEMMA ArchTraps ==
  ASSUME NEW c, NEW e
  PROVE  Arch!TrapEntry(c, e) = TrapEntry(c, e)
<1>1. Arch!DelegatedTrap(c, e) = DelegatedTrap(c, e)
  BY ArchFields, ArchNumbers, ArchBits DEF Arch!DelegatedTrap, DelegatedTrap
<1>2. Arch!MachineTrap(c, e) = MachineTrap(c, e)
  BY ArchFields, ArchNumbers, ArchBits DEF Arch!MachineTrap, MachineTrap
<1> QED
  BY <1>1, <1>2, ArchFields DEF Arch!TrapEntry, TrapEntry

LEMMA ArchReturns ==
  ASSUME NEW c
  PROVE  Arch!Mret(c) = Mret(c) /\ Arch!Sret(c) = Sret(c)
  BY ArchFields, ArchBits DEF Arch!Mret, Mret, Arch!Sret, Sret

LEMMA ArchGuards ==
  /\ \A c : Arch!shadow_stack_enabled(c) = shadow_stack_enabled(c)
  /\ \A c : Arch!current_lpe_enabled(c) = current_lpe_enabled(c)
  /\ \A c, n : Arch!trap_target(c, n) = trap_target(c, n)
  /\ \A n : Arch!CsrPriv(n) = CsrPriv(n) /\ Arch!CsrReadOnly(n) = CsrReadOnly(n)
  BY ArchFields, ArchBits, ArchNames, ArchNumbers
     DEF Arch!shadow_stack_enabled, Arch!current_lpe_enabled, Arch!trap_target,
         Arch!CsrPriv, Arch!CsrReadOnly,
         shadow_stack_enabled, current_lpe_enabled, trap_target, CsrPriv, CsrReadOnly

LEMMA ArchWrites ==
  ASSUME NEW c, NEW name
  PROVE  /\ Arch!csr_rdata(c, name) = csr_rdata(c, name)
         /\ \A op, w : Arch!csr_new_value(c, name, op, w) = csr_new_value(c, name, op, w)
         /\ \A v : Arch!CsrWrite(c, name, v) = CsrWrite(c, name, v)
<1>1. Arch!csr_rdata(c, name) = csr_rdata(c, name)
  BY ArchFields, ArchMasks, ArchNames DEF Arch!csr_rdata, csr_rdata
<1>2. \A op, w : Arch!csr_new_value(c, name, op, w) = csr_new_value(c, name, op, w)
  BY <1>1 DEF Arch!csr_new_value, csr_new_value
<1>3. /\ \A v : Arch!sanitize_mstatus(v) = sanitize_mstatus(v)
      /\ \A v : Arch!sanitize_pmpcfg0(v) = sanitize_pmpcfg0(v)
  BY ArchFields, ArchMasks, ArchBits
     DEF Arch!sanitize_mstatus, Arch!sanitize_pmpcfg0, sanitize_mstatus, sanitize_pmpcfg0
<1>4. /\ \A m, v : Arch!update_sstatus_view(m, v) = update_sstatus_view(m, v)
      /\ \A m, v : Arch!delegated_merge(c, m, v) = delegated_merge(c, m, v)
      /\ Arch!pmp_locked(c) = pmp_locked(c)
  BY ArchMasks, ArchBits
     DEF Arch!update_sstatus_view, Arch!delegated_merge, Arch!pmp_locked,
         update_sstatus_view, delegated_merge, pmp_locked
<1>5. Arch!WrittenReg(name) = WrittenReg(name)
  BY ArchNames DEF Arch!WrittenReg, WrittenReg
<1>6. \A v : Arch!WrittenValue(c, name, v) = WrittenValue(c, name, v)
  BY <1>3, <1>4, ArchFields, ArchMasks, ArchNames DEF Arch!WrittenValue, WrittenValue
<1>7. \A n, v : Arch!SetReg(c, n, v) = SetReg(c, n, v)
  BY DEF Arch!SetReg, SetReg
<1> QED
  BY <1>1, <1>2, <1>5, <1>6, <1>7, ArchNames DEF Arch!CsrWrite, CsrWrite

LEMMA ArchAccess ==
  ASSUME NEW access, NEW addr, NEW priv, NEW cfg, NEW paddr
  PROVE  Arch!access_fault(access, addr, 4, priv, cfg, paddr)
           = access_fault(access, addr, 4, priv, cfg, paddr)
<1>1. Arch!pmp_a(cfg) = pmp_a(cfg) /\ Arch!pmp_applies(priv, cfg) = pmp_applies(priv, cfg)
  BY ArchBits DEF Arch!pmp_a, pmp_a, Arch!pmp_applies, pmp_applies
<1>2. Arch!pmp_perm_ok(access, cfg) = pmp_perm_ok(access, cfg)
  BY ArchBits DEF Arch!pmp_perm_ok, pmp_perm_ok
<1>3. \A a, n, l, h : Arch!inside(a, n, l, h) = inside(a, n, l, h)
  BY DEF Arch!inside, inside
<1>4. Arch!count_trailing_ones(paddr) = count_trailing_ones(paddr)
  BY ArchNumbers DEF Arch!count_trailing_ones, count_trailing_ones, Arch!Min, Min
<1>5. /\ Arch!napot_all(paddr) = napot_all(paddr)
      /\ Arch!napot_size(paddr) = napot_size(paddr)
      /\ Arch!napot_base(paddr) = napot_base(paddr)
      /\ Arch!na4_base(paddr) = na4_base(paddr)
      /\ Arch!tor_top(paddr) = tor_top(paddr)
  BY <1>4, ArchNumbers
     DEF Arch!napot_all, Arch!napot_size, Arch!napot_base, Arch!na4_base, Arch!tor_top,
         napot_all, napot_size, napot_base, na4_base, tor_top
<1>6. Arch!pmp_match(addr, 4, cfg, paddr) = pmp_match(addr, 4, cfg, paddr)
  BY <1>1, <1>3, <1>5 DEF Arch!pmp_match, pmp_match
<1>7. Arch!pma_ok(addr, 4) = pma_ok(addr, 4)
  BY <1>3 DEF Arch!pma_ok, pma_ok
<1> QED
  BY <1>1, <1>2, <1>6, <1>7, ArchBits DEF Arch!access_fault, access_fault

LEMMA ArchDecode ==
  /\ Arch!AluOps = AluOps /\ Arch!JumpOps = JumpOps /\ Arch!BranchOps = BranchOps
  /\ Arch!CsrImmOps = CsrImmOps /\ Arch!CsrOps = CsrOps
  /\ \A i : Arch!is_illegal_instr(i) = is_illegal_instr(i)
  /\ \A i : Arch!csr_op(i) = csr_op(i)
  /\ \A i : Arch!csr_write_intent(i) = csr_write_intent(i)
<1>1. /\ Arch!AluOps = AluOps /\ Arch!JumpOps = JumpOps /\ Arch!BranchOps = BranchOps
      /\ Arch!CsrImmOps = CsrImmOps /\ Arch!CsrOps = CsrOps
  BY DEF Arch!AluOps, Arch!JumpOps, Arch!BranchOps, Arch!CsrImmOps, Arch!CsrRegOps,
         Arch!CsrOps, AluOps, JumpOps, BranchOps, CsrImmOps, CsrRegOps, CsrOps
<1> QED
  BY <1>1 DEF Arch!is_illegal_instr, Arch!csr_op, Arch!csr_write_intent,
              is_illegal_instr, csr_op, csr_write_intent
-----------------------------------------------------------------------------
(* The clock edge.  The invariants of the other theorems are at hand.         *)

HInv == CInv /\ DInv /\ FromMemory /\ VerdictsCurrent

\* The front end is redirected, held, or moves on, with a prediction or without.
LEMMA FrontEnd ==
  Next => \/ /\ take_branch_NextPC
             /\ ifid' = IFIDBubble /\ idex' = IDEXBubble
          \/ /\ ~take_branch_NextPC /\ keep_PC
             /\ idex' = IDEXBubble /\ pc' = pc /\ ifid' = ifid
          \/ /\ ~take_branch_NextPC /\ ~keep_PC
             /\ ifid.valid /\ ifid.instr.op \in BranchOps \cup {"JAL"}
             /\ pc' = Wrap(ifid.pc + ifid.instr.imm)
             /\ ifid' = IFIDBubble /\ idex' = Issued(TRUE)
          \/ /\ ~take_branch_NextPC /\ ~keep_PC
             /\ pc' = Wrap(pc + 4)
             /\ ifid' = Fetched /\ idex' = Issued(FALSE)
  BY DEF Next, Trap, XReturn, Recover, Stall, PredictedFetch, SequentialFetch,
         Redirect, may_predict, take_branch_NextPC

LEMMA RedirectTarget ==
  Next /\ take_branch_NextPC =>
    pc' = IF exception_valid THEN trap_target(csr, exception.cause)
          ELSE IF xret_EX THEN Value(csr.reg[IF opEX = "MRET" THEN "mepc" ELSE "sepc"])
          ELSE IF take_branch_normal THEN branch_target_normal ELSE Wrap(idex.pc + 4)
  BY DEF Next, Trap, XReturn, Recover, Stall, PredictedFetch, SequentialFetch,
         Redirect, take_branch_NextPC

\* Without a redirect the front end keeps the address it is at.
LEMMA FetchPcKept ==
  ASSUME Next, ~take_branch_NextPC
  PROVE  (IF idex'.valid THEN idex'.pc ELSE fetch_pc') = fetch_pc
<1>1. Issued(TRUE).valid = ifid.valid /\ Issued(TRUE).pc = ifid.pc
  BY DEF Issued
<1>2. Issued(FALSE).valid = ifid.valid /\ Issued(FALSE).pc = ifid.pc
  BY DEF Issued
<1>3. Fetched.valid /\ Fetched.pc = pc
  BY DEF Fetched
<1> QED
  BY <1>1, <1>2, <1>3, FrontEnd, BubbleFacts DEF fetch_pc

\* What is issued was in ID and found nothing to complain of there.
LEMMA IssueFacts ==
  ASSUME Next, idex'.valid
  PROVE  /\ ifid.valid /\ ~take_branch_NextPC /\ ~keep_PC
         /\ ~id_exception_candidate_ID
         /\ idex' = Issued(idex'.pred)
<1>1. /\ ~take_branch_NextPC /\ ~keep_PC
      /\ idex' = Issued(TRUE) \/ idex' = Issued(FALSE)
  BY FrontEnd, BubbleFacts
<1>2. ifid.valid /\ idex' = Issued(idex'.pred)
  BY <1>1 DEF Issued
<1>3. ~id_exception_candidate_ID
  BY <1>1, CandidateResolved DEF take_branch_NextPC, exception_valid
<1> QED
  BY <1>1, <1>2, <1>3

LEMMA NextProgramOrder == ProgramOrder /\ Next => ProgramOrder'
<1> SUFFICES ASSUME ProgramOrder, Next PROVE ProgramOrder'
  OBVIOUS
<1>1. rom' = rom
  BY BackEndMoves DEF BackEnd
<1>2. Fetched.pc = pc /\ Fetched.instr = rom[IndexOf(pc)] /\ Fetched.valid
  BY DEF Fetched
<1>3. ASSUME ifid'.valid
      PROVE  ifid'.instr = rom[IndexOf(ifid'.pc)] /\ pc' = Wrap(ifid'.pc + 4)
  BY <1>2, <1>3, FrontEnd, BubbleFacts DEF ProgramOrder
<1>4. ASSUME idex'.valid
      PROVE  /\ idex'.instr = rom[IndexOf(idex'.pc)]
             /\ ~idex'.pred => fetch_pc' = Wrap(idex'.pc + 4)
             /\ idex'.pred => /\ ~ifid'.valid /\ idex'.instr.op \in BranchOps \cup {"JAL"}
                              /\ pc' = idex'.ptarget
                              /\ idex'.ptarget = Wrap(idex'.pc + idex'.instr.imm)
  <2>1. /\ ifid.valid
        /\ ifid.instr = rom[IndexOf(ifid.pc)] /\ pc = Wrap(ifid.pc + 4)
    BY <1>4, IssueFacts DEF ProgramOrder
  <2>2. \A fired \in BOOLEAN : LET i == Issued(fired) IN
          /\ i.instr = ifid.instr /\ i.pc = ifid.pc /\ i.pred = fired
          /\ i.ptarget = Wrap(ifid.pc + ifid.instr.imm)
    BY DEF Issued
  <2>3. CASE /\ pc' = Wrap(ifid.pc + ifid.instr.imm) /\ ifid.instr.op \in BranchOps \cup {"JAL"}
             /\ ifid' = IFIDBubble /\ idex' = Issued(TRUE)
    BY <2>1, <2>2, <2>3, BubbleFacts
  <2>4. CASE pc' = Wrap(pc + 4) /\ ifid' = Fetched /\ idex' = Issued(FALSE)
    <3>1. fetch_pc' = pc
      BY <1>2, <2>4 DEF fetch_pc
    <3> QED
      BY <2>1, <2>2, <2>4, <3>1
  <2> QED
    BY <1>4, <2>3, <2>4, FrontEnd, BubbleFacts
<1> QED
  BY <1>1, <1>3, <1>4 DEF ProgramOrder, branch_target_EX, opEX

-----------------------------------------------------------------------------
(* Addresses.                                                                  *)

EpcsAligned(r) == r["mepc"] \cap {0, 1} = {} /\ r["sepc"] \cap {0, 1} = {}

LEMMA AlignClears == \A v : align(v) \cap {0, 1} = {}
  BY DEF align

\* A register file whose return addresses are aligned, and one update of it.
AlignedFile(r) == DOMAIN r = StoredCsr /\ EpcsAligned(r)

LEMMA EpcsKept ==
  ASSUME NEW r, AlignedFile(r), NEW n, NEW v, n \in {"mepc", "sepc"} => v \cap {0, 1} = {}
  PROVE  AlignedFile([r EXCEPT ![n] = v])
  BY StoredNames DEF AlignedFile, EpcsAligned

LEMMA TrapEpcs ==
  ASSUME NEW c, AlignedFile(c.reg), NEW e
  PROVE  AlignedFile(DelegatedTrap(c, e).reg) /\ AlignedFile(MachineTrap(c, e).reg)
<1>1. ASSUME NEW ms PROVE AlignedFile([c.reg EXCEPT !["sepc"]    = align(Bits(e.pc)),
                                                   !["scause"]  = Bits(e.cause),
                                                   !["stval"]   = Bits(e.tval),
                                                   !["mstatus"] = ms])
  <2> DEFINE r1 == [c.reg EXCEPT !["sepc"] = align(Bits(e.pc))]
             r2 == [r1 EXCEPT !["scause"] = Bits(e.cause)]
             r3 == [r2 EXCEPT !["stval"] = Bits(e.tval)]
             r4 == [r3 EXCEPT !["mstatus"] = ms]
  <2>1. AlignedFile(r1)
    BY EpcsKept, AlignClears
  <2> HIDE DEF r1
  <2>2. AlignedFile(r2)
    BY <2>1, EpcsKept
  <2> HIDE DEF r2
  <2>3. AlignedFile(r3)
    BY <2>2, EpcsKept
  <2> HIDE DEF r3
  <2>4. AlignedFile(r4)
    BY <2>3, EpcsKept
  <2> QED
    BY <2>4 DEF r1, r2, r3
<1>2. ASSUME NEW ms, NEW mh
      PROVE  AlignedFile([c.reg EXCEPT !["mepc"]     = align(Bits(e.pc)),
                                       !["mcause"]   = Bits(e.cause),
                                       !["mtval"]    = Bits(e.tval),
                                       !["mstatus"]  = ms,
                                       !["mstatush"] = mh])
  <2> DEFINE r1 == [c.reg EXCEPT !["mepc"] = align(Bits(e.pc))]
             r2 == [r1 EXCEPT !["mcause"] = Bits(e.cause)]
             r3 == [r2 EXCEPT !["mtval"] = Bits(e.tval)]
             r4 == [r3 EXCEPT !["mstatus"] = ms]
             r5 == [r4 EXCEPT !["mstatush"] = mh]
  <2>1. AlignedFile(r1)
    BY EpcsKept, AlignClears
  <2> HIDE DEF r1
  <2>2. AlignedFile(r2)
    BY <2>1, EpcsKept
  <2> HIDE DEF r2
  <2>3. AlignedFile(r3)
    BY <2>2, EpcsKept
  <2> HIDE DEF r3
  <2>4. AlignedFile(r4)
    BY <2>3, EpcsKept
  <2> HIDE DEF r4
  <2>5. AlignedFile(r5)
    BY <2>4, EpcsKept
  <2> QED
    BY <2>5 DEF r1, r2, r3, r4
<1> QED
  BY <1>1, <1>2 DEF DelegatedTrap, MachineTrap

LEMMA WriteEpcs ==
  ASSUME NEW c, AlignedFile(c.reg), NEW name \in CsrName, NEW v
  PROVE  AlignedFile(CsrWrite(c, name, v).reg)
<1>1. CASE name \in ZeroCsr
  BY <1>1 DEF CsrWrite
<1>2. CASE name \notin ZeroCsr
  <2>1. CsrWrite(c, name, v).reg = [c.reg EXCEPT ![WrittenReg(name)] = WrittenValue(c, name, v)]
    BY <1>2 DEF CsrWrite, SetReg
  <2>2. WrittenReg(name) \in {"mepc", "sepc"} => name \in {"mepc", "sepc"}
    BY DEF WrittenReg, ViewCsr
  <2>3. name \in {"mepc", "sepc"} => WrittenValue(c, name, v) = align(v)
    BY DEF WrittenValue, MaskedCsr, ViewCsr
  <2>4. WrittenReg(name) \in {"mepc", "sepc"} => WrittenValue(c, name, v) \cap {0, 1} = {}
    BY <2>2, <2>3, AlignClears
  <2> QED
    BY <2>1, <2>4, EpcsKept
<1> QED
  BY <1>1, <1>2

LEMMA CsrNextEpc ==
  ASSUME NEW c, AlignedFile(c.reg), NEW e, NEW x, NEW s, NEW l, NEW w,
         w.valid => w.name \in CsrName
  PROVE  AlignedFile(CsrNext(c, e, x, s, l, w).reg)
<1>1. AlignedFile(TrapEntry(c, e).reg)
  BY TrapEpcs DEF TrapEntry
<1>2. AlignedFile(Mret(c).reg) /\ AlignedFile(Sret(c).reg)
  BY StoredNames DEF AlignedFile, EpcsAligned, Mret, Sret
<1>3. AlignedFile(SetReg(c, "ssp", Bits(s.data)).reg)
  BY EpcsKept DEF SetReg
<1>4. AlignedFile([reg |-> c.reg, priv |-> c.priv, elp |-> l.expected].reg)
  OBVIOUS
<1>5. w.valid => \A v : AlignedFile(CsrWrite(c, w.name, v).reg)
  BY WriteEpcs
<1> QED
  BY <1>1, <1>2, <1>3, <1>4, <1>5 DEF CsrNext

\* The offsets of JAL and the branches being even, their targets are misaligned
\* only by their second bit, which EX checks.
LEMMA TargetAligned ==
  ASSUME DInv, idex.valid, idex.pc % 4 = 0, take_branch_normal
  PROVE  instr_misaligned_EX <=> branch_target_normal % 4 # 0
<1>1. idex.pc \in Int /\ idex.instr.imm \in Int /\ alu_result_EX \in Int
  <2>1. alu_result_EX \in Word /\ Word \subseteq Int
    BY EXWords, WordFacts
  <2> QED
    BY <2>1, Words
<1>2. CASE opEX = "JALR"
  <2>1. branch_target_normal = alu_result_EX - (alu_result_EX % 2)
    BY <1>2 DEF branch_target_normal
  <2> QED
    BY <1>1, <1>2, <2>1 DEF instr_misaligned_EX, Bit1
<1>3. CASE opEX # "JALR"
  <2>1. opEX \in BranchOps \cup {"JAL"}
    BY <1>3 DEF take_branch_normal, JumpOps, BranchOps
  <2>2. idex.instr.imm % 2 = 0
    BY <2>1 DEF DInv, Encodable, opEX
  <2> DEFINE sum == idex.pc + idex.instr.imm
  <2>3. sum \in Int /\ sum % 2 = 0
    BY <1>1, <2>2
  <2>4. branch_target_normal = Wrap(sum)
    BY <1>3 DEF branch_target_normal, branch_target_EX
  <2> HIDE DEF sum
  <2>5. branch_target_normal % 2 = 0 /\ branch_target_normal \in Int
    <3>1. Wrap(sum) \in Word /\ Word \subseteq Int
      BY <2>3, WordFacts
    <3>2. Wrap(sum) % 2 = 0
      BY <2>3, WrapAligned
    <3> QED
      BY <2>4, <3>1, <3>2
  <2>6. Bit1(branch_target_normal) <=> branch_target_normal % 4 # 0
    BY <2>5 DEF Bit1
  <2> QED
    BY <1>3, <2>6 DEF instr_misaligned_EX
<1> QED
  BY <1>2, <1>3

\* As long as nothing redirects it, the fetch is at an aligned address.
LEMMA QuietFetchAligned ==
  ASSUME DInv, IInv, ProgramOrder, AddressesAligned, ~take_branch_NextPC
  PROVE  fetch_pc % 4 = 0
<1>1. CASE ~idex.valid
  BY <1>1 DEF AddressesAligned
<1>2. CASE idex.valid /\ ~idex.pred
  <2>1. idex.pc % 4 = 0 /\ idex.pc \in Int /\ fetch_pc = Wrap(idex.pc + 4)
    BY <1>2, Words DEF AddressesAligned, ProgramOrder
  <2>2. idex.pc + 4 \in Int /\ (idex.pc + 4) % 4 = 0
    BY <2>1
  <2> QED
    BY <2>1, <2>2, WrapAligned
<1>3. CASE idex.valid /\ idex.pred
  <2>1. fetch_pc = idex.ptarget /\ idex.pc % 4 = 0
    BY <1>3 DEF ProgramOrder, AddressesAligned, fetch_pc
  <2>2. ~normal_control_mispredict_EX /\ ~exception_valid_EX
    BY DEF take_branch_NextPC, exception_valid
  <2>3. take_branch_normal /\ idex.ptarget = branch_target_normal
    BY <1>3, <2>2 DEF normal_control_mispredict_EX, IInv, ControlTypeOK, take_branch_normal
  <2>4. ~instr_misaligned_EX
    BY <1>3, <2>2 DEF exception_valid_EX
  <2> QED
    BY <1>3, <2>1, <2>3, <2>4, TargetAligned
<1> QED
  BY <1>1, <1>2, <1>3

LEMMA NextAddressesAligned ==
  ASSUME CInv, DInv, ProgramOrder, AddressesAligned, Next
  PROVE  AddressesAligned'
<1>1. AlignedFile(csr.reg)
  <2>1. csr.reg \in [StoredCsr -> SUBSET Bit]
    BY CsrStateFields DEF CInv, IInv, CsrOK
  <2> QED
    BY <2>1 DEF AddressesAligned, EpcsAligned, AlignedFile
<1>2. EpcsAligned(csr'.reg)
  <2>1. csr' = CsrNext(csr, exception, xret, ssp_update, elp_update, csr_write)
    BY BackEndMoves DEF BackEnd, StepCsr
  <2>2. csr_write.valid => csr_write.name \in CsrName
    BY CsrPorts DEF Ports
  <2> QED
    BY <1>1, <2>1, <2>2, CsrNextEpc DEF AlignedFile
<1>3. CASE ~take_branch_NextPC
  <2>1. fetch_pc % 4 = 0
    BY <1>3, QuietFetchAligned DEF CInv
  <2> QED
    BY <1>2, <1>3, <2>1, FetchPcKept DEF AddressesAligned, EpcsAligned
<1>4. CASE take_branch_NextPC
  <2>1. ~idex'.valid /\ fetch_pc' = pc'
    BY <1>4, FrontEnd, BubbleFacts DEF fetch_pc
  <2>2. trap_target(csr, exception.cause) % 4 = 0
    BY ValueAligned, AlignClears DEF trap_target
  <2>3. Value(csr.reg["mepc"]) % 4 = 0 /\ Value(csr.reg["sepc"]) % 4 = 0
    BY <1>1, ValueAligned DEF AlignedFile, EpcsAligned
  <2>4. ASSUME ~exception_valid, ~xret_EX
        PROVE  /\ take_branch_normal => branch_target_normal % 4 = 0
               /\ Wrap(idex.pc + 4) % 4 = 0
    <3>1. idex.valid /\ ~exception_valid_EX
      BY <1>4, <2>4 DEF take_branch_NextPC, normal_control_mispredict_EX, exception_valid
    <3>2. ~instr_misaligned_EX /\ idex.pc % 4 = 0 /\ idex.pc \in Int
      BY <3>1, Words DEF exception_valid_EX, AddressesAligned
    <3>3. idex.pc + 4 \in Int /\ (idex.pc + 4) % 4 = 0
      BY <3>2
    <3> QED
      BY <3>1, <3>2, <3>3, WrapAligned, TargetAligned
  <2>5. pc' % 4 = 0
    BY <1>4, <2>2, <2>3, <2>4, RedirectTarget
  <2> QED
    BY <1>2, <2>1, <2>5 DEF AddressesAligned, EpcsAligned
<1> QED
  BY <1>3, <1>4
-----------------------------------------------------------------------------
(* The registers as the software sees them.                                    *)

product == Wrap(idex.rd1 * idex.rd2)

MulInEX == idex.valid /\ opEX = "MUL"

\* Behind the multiplier: what MEM, WB and the register file make of register r.
Landing(r) ==
  IF exmem.rf_we /\ exmem.rd = r THEN wd_MEM_done
  ELSE IF memwb.rf_we /\ memwb.rd = r THEN rf_wd_WB
  ELSE rf[r]

LEMMA MulStep ==
  ASSUME BackEnd
  PROVE  mul' = [s \in 1 .. 4 |->
                   IF redirect_from_ex_stage THEN MulIdle
                   ELSE IF s > 1 THEN mul[s - 1]
                   ELSE IF MulInEX THEN [valid |-> TRUE, rd |-> idex.instr.rd, res |-> product]
                   ELSE MulIdle]
<1>1. mul' = [s \in 1 .. 4 |->
                IF redirect_from_ex_stage THEN MulIdle
                ELSE IF s > 1 THEN mul[s - 1]
                ELSE IF opEX = "MUL" /\ idex.valid
                     THEN [valid |-> TRUE, rd |-> idex.instr.rd,
                           res |-> Wrap(idex.rd1 * idex.rd2)]
                     ELSE MulIdle]
  BY DEF BackEnd, StepMul
<1> QED
  BY <1>1, Zenon DEF MulInEX, product

\* A multiplication neither traps nor redirects.
LEMMA MulQuiet ==
  ASSUME IInv, ProgramOrder, MulInEX
  PROVE  ~redirect_from_ex_stage
<1>1. opEX = "MUL" /\ idex.valid
  BY DEF MulInEX
<1>2. ~take_branch_normal /\ ~instr_misaligned_EX
  BY <1>1 DEF take_branch_normal, instr_misaligned_EX, JumpOps
<1>3. idex.pred = FALSE
  BY <1>1 DEF ProgramOrder, BranchOps, IInv, ControlTypeOK
<1>4. sl_type_effective_EX = "NOP" /\ ~shadow_mem_active_EX
  BY <1>1 DEF sl_type_effective_EX, sl_type, shadow_mem_active_EX, MemOps, opEX
<1>5. ~exception_valid_EX
  BY <1>1, <1>2, <1>4
     DEF exception_valid_EX, load_misaligned_EX, store_misaligned_EX, load_access_fault_EX,
         store_access_fault_EX, shadow_access_fault_EX
<1>6. take_branch_normal = FALSE
  BY <1>2 DEF take_branch_normal
<1> QED
  BY <1>1, <1>3, <1>5, <1>6
     DEF redirect_from_ex_stage, normal_control_mispredict_EX, xret_EX

\* A multiplication in the multiplier moves on by one stage, alone; otherwise one
\* enters it from EX, or none.
LEMMA MulFlow ==
  ASSUME IInv, ProgramOrder, Next
  PROVE  /\ mul_busy => /\ ~idex.valid /\ ~mul'[1].valid
                        /\ \A s \in 1 .. 3 : mul'[s + 1] = mul[s]
         /\ ~mul_busy => \A s \in 2 .. 4 : ~mul'[s].valid
         /\ ~MulInEX => ~mul'[1].valid
         /\ MulInEX => mul'[1] = [valid |-> TRUE, rd |-> idex.instr.rd, res |-> product]
<1>1. mul' = [s \in 1 .. 4 |->
                IF redirect_from_ex_stage THEN MulIdle
                ELSE IF s > 1 THEN mul[s - 1]
                ELSE IF MulInEX THEN [valid |-> TRUE, rd |-> idex.instr.rd, res |-> product]
                ELSE MulIdle]
  BY MulStep, BackEndMoves
<1>2. ~MulIdle.valid
  BY DEF MulIdle
<1>3. mul_busy => ~idex.valid
  BY DEF IInv, InFlightDiscipline, MulAlone
<1>4. ~MulInEX => ~mul'[1].valid
  BY <1>1, <1>2
<1>5. ~mul_busy => \A s \in 1 .. 4 : ~mul[s].valid
  BY DEF mul_busy, mul_stage_busy
<1>6. ~mul_busy => \A s \in 2 .. 4 : ~mul'[s].valid
  BY <1>1, <1>2, <1>5
<1>7. MulInEX => mul'[1] = [valid |-> TRUE, rd |-> idex.instr.rd, res |-> product]
  BY <1>1, MulQuiet
<1>8. mul_busy => \A s \in 1 .. 3 : mul'[s + 1] = mul[s]
  <2>1. mul_busy => ~redirect_from_ex_stage
    BY <1>3, RedirectFromEX
  <2> QED
    BY <1>1, <2>1
<1> QED
  BY <1>3, <1>4, <1>6, <1>7, <1>8 DEF MulInEX

LEMMA NextOneMultiplication ==
  ASSUME IInv, ProgramOrder, OneMultiplication, Next
  PROVE  OneMultiplication'
<1> SUFFICES ASSUME NEW s \in 1 .. 4, NEW t \in 1 .. 4, mul'[s].valid, mul'[t].valid
             PROVE  s = t
  BY DEF OneMultiplication, mul_stage_busy
<1>1. CASE ~mul_busy
  <2>1. \A n \in 1 .. 4 : n = 1 \/ n \in 2 .. 4
    OBVIOUS
  <2> QED
    BY <1>1, <2>1, MulFlow
<1>2. CASE mul_busy
  <2>1. s \in 2 .. 4 /\ t \in 2 .. 4
    BY <1>2, MulFlow
  <2>2. /\ s - 1 \in 1 .. 3 /\ t - 1 \in 1 .. 3 /\ (s - 1) + 1 = s /\ (t - 1) + 1 = t
        /\ s - 1 \in 1 .. 4 /\ t - 1 \in 1 .. 4
    BY <2>1
  <2>3. mul[s - 1].valid /\ mul[t - 1].valid
    BY <1>2, <2>2, MulFlow
  <2>4. s - 1 = t - 1
    BY <2>2, <2>3 DEF OneMultiplication, mul_stage_busy
  <2> QED
    BY <2>2, <2>4
<1> QED
  BY <1>1, <1>2

\* The abstract register is the product under way to it, or what lands there.
LEMMA RfAbsIs ==
  ASSUME OneMultiplication, DOMAIN rf = Regs, NEW r \in Regs \ {0}
  PROVE  /\ \A s \in 1 .. 4 : mul[s].valid /\ mul[s].rd = r => rf_abs[r] = mul[s].res
         /\ (\A s \in 1 .. 4 : mul[s].valid => mul[s].rd # r) => rf_abs[r] = Landing(r)
<1>1. rf_abs[r] = IF mul_to(r) # {} THEN (CHOOSE m \in mul_to(r) : TRUE).res ELSE Landing(r)
  BY DEF rf_abs, Landing
<1>2. ASSUME NEW s \in 1 .. 4, mul[s].valid, mul[s].rd = r
      PROVE  rf_abs[r] = mul[s].res
  <2>1. mul_to(r) = {mul[s]}
    BY <1>2 DEF mul_to, OneMultiplication, mul_stage_busy
  <2> QED
    BY <1>1, <2>1
<1>3. (\A s \in 1 .. 4 : mul[s].valid => mul[s].rd # r) => mul_to(r) = {}
  BY DEF mul_to, mul_stage_busy
<1> QED
  BY <1>1, <1>2, <1>3

LEMMA RfAbsIsNext ==
  ASSUME OneMultiplication', DOMAIN rf' = Regs, NEW r \in Regs \ {0}
  PROVE  /\ \A s \in 1 .. 4 : mul'[s].valid /\ mul'[s].rd = r => rf_abs'[r] = mul'[s].res
         /\ (\A s \in 1 .. 4 : mul'[s].valid => mul'[s].rd # r) => rf_abs'[r] = Landing(r)'
<1>1. rf_abs'[r] = IF mul_to(r)' # {} THEN (CHOOSE m \in mul_to(r)' : TRUE).res ELSE Landing(r)'
  BY DEF rf_abs, Landing
<1>2. ASSUME NEW s \in 1 .. 4, mul'[s].valid, mul'[s].rd = r
      PROVE  rf_abs'[r] = mul'[s].res
  <2>1. mul_to(r)' = {mul'[s]}
    BY <1>2 DEF mul_to, OneMultiplication, mul_stage_busy
  <2> QED
    BY <1>1, <2>1
<1>3. (\A s \in 1 .. 4 : mul'[s].valid => mul'[s].rd # r) => mul_to(r)' = {}
  BY DEF mul_to, mul_stage_busy
<1> QED
  BY <1>1, <1>2, <1>3

\* MEM and WB move on; a result of the multiplier may be committed past them.
LEMMA LandingNext ==
  ASSUME IInv, BackEnd, DOMAIN rf = Regs, NEW r \in Regs \ {0}
  PROVE  /\ ~(mul[4].valid /\ mul[4].rd = r) =>
              Landing(r)' = IF exmem'.rf_we /\ exmem'.rd = r THEN wd_MEM_done' ELSE Landing(r)
         /\ mul[4].valid /\ mul[4].rd = r => Landing(r)' = mul[4].res
<1>1. BubblesInert /\ ShadowAlone /\ MulAlone
  BY DEF IInv, InFlightDiscipline
<1>2. exmem.valid => ~sspopchk_fault_WB
  BY <1>1 DEF ShadowAlone, sspopchk_fault_WB, sspopchk_WB
<1>3. CASE exmem.rf_we /\ exmem.rd = r
  <2>1. memwb' = [valid |-> exmem.valid, pc |-> exmem.pc, rf_we |-> exmem.rf_we,
                  rd |-> exmem.rd, wd |-> exmem.wd, load |-> exmem.load, sl |-> exmem.sl]
    BY <1>1, <1>2, <1>3 DEF BackEnd, StepMEMWB, BubblesInert
  <2>2. spo' = dram[IndexOf(exmem.addr)]
    BY DEF BackEnd, StepMemory
  <2>3. rf_wd_WB' = wd_MEM_done
    BY <2>1, <2>2 DEF rf_wd_WB, load_data_WB, wd_MEM_done
  <2>4. ~mul[4].valid
    BY <1>1, <1>3 DEF MulAlone, BubblesInert
  <2> QED
    BY <1>3, <2>1, <2>3, <2>4 DEF Landing
<1>4. CASE ~(exmem.rf_we /\ exmem.rd = r)
  <2>1. ~(memwb'.rf_we /\ memwb'.rd = r)
    BY <1>4, BubbleFacts DEF BackEnd, StepMEMWB
  <2>2. rf' = IF commit.we /\ commit.rd \in Regs \ {0}
              THEN [rf EXCEPT ![commit.rd] = commit.wd] ELSE rf
    BY DEF BackEnd, StepRegisterF
  <2>3. CASE memwb.rf_we
    <3>1. commit = [we |-> TRUE, rd |-> memwb.rd, wd |-> rf_wd_WB]
      BY <2>3 DEF commit
    <3>2. rf'[r] = IF memwb.rd = r THEN rf_wd_WB ELSE rf[r]
      BY <2>2, <3>1
    <3>3. ~mul[4].valid
      BY <1>1, <2>3 DEF MulAlone, BubblesInert
    <3> QED
      BY <1>4, <2>1, <2>3, <3>2, <3>3 DEF Landing
  <2>4. CASE ~memwb.rf_we /\ mul_rf_we_o
    <3>1. commit = [we |-> TRUE, rd |-> mul[4].rd, wd |-> mul[4].res]
      BY <2>4 DEF commit
    <3>2. rf'[r] = IF mul[4].rd = r THEN mul[4].res ELSE rf[r]
      BY <2>2, <3>1
    <3>3. mul[4].valid => ~exmem.valid /\ ~idex.valid
      BY <1>1 DEF MulAlone, mul_busy, mul_stage_busy
    <3>4. ~idex.valid => ~exmem'.rf_we
      BY <1>1, EXMEMNext, ZeroInert DEF BubblesInert
    <3> QED
      BY <1>4, <2>1, <2>4, <3>2, <3>3, <3>4 DEF Landing, mul_rf_we_o
  <2>5. CASE ~memwb.rf_we /\ ~mul_rf_we_o
    <3>1. ~commit.we
      BY <2>5 DEF commit
    <3> QED
      BY <1>4, <2>1, <2>2, <2>5, <3>1 DEF Landing, mul_rf_we_o
  <2> QED
    BY <2>3, <2>4, <2>5
<1> QED
  BY <1>3, <1>4

LEMMA Domains ==
  ASSUME DInv, Next
  PROVE  DOMAIN rf = Regs /\ DOMAIN rf' = Regs
<1>1. DInv'
  BY NextDInv
<1> QED
  BY <1>1 DEF DInv, DataTypeOK

\* One clock edge changes an abstract register only by what leaves EX.
LEMMA RfAbsNext ==
  ASSUME IInv, DInv, ProgramOrder, OneMultiplication, Next, NEW r \in Regs \ {0}
  PROVE  rf_abs'[r] = IF MulInEX /\ idex.instr.rd = r THEN product
                      ELSE IF exmem'.rf_we /\ exmem'.rd = r THEN wd_MEM_done'
                      ELSE rf_abs[r]
<1>1. BackEnd /\ DOMAIN rf = Regs /\ DOMAIN rf' = Regs /\ OneMultiplication'
  BY BackEndMoves, Domains, NextOneMultiplication
<1>2. BubblesInert /\ MulAlone
  BY DEF IInv, InFlightDiscipline
<1>3. ~idex.valid => ~exmem'.rf_we
  BY <1>1, <1>2, EXMEMNext, ZeroInert DEF BubblesInert
<1>4. CASE ~mul_busy
  <2>1. \A s \in 1 .. 4 : ~mul[s].valid
    BY <1>4 DEF mul_busy, mul_stage_busy
  <2>2. rf_abs[r] = Landing(r)
    BY <1>1, <2>1, RfAbsIs
  <2>3. Landing(r)' = IF exmem'.rf_we /\ exmem'.rd = r THEN wd_MEM_done' ELSE Landing(r)
    BY <1>1, <2>1, LandingNext
  <2>4. \A s \in 1 .. 4 : s # 1 => ~mul'[s].valid
    BY <1>4, MulFlow
  <2>5. CASE MulInEX /\ idex.instr.rd = r
    <3>1. mul'[1] = [valid |-> TRUE, rd |-> idex.instr.rd, res |-> product]
      BY <2>5, MulFlow
    <3>2. mul'[1].valid /\ mul'[1].rd = r /\ mul'[1].res = product /\ 1 \in 1 .. 4
      BY <2>5, <3>1
    <3>3. rf_abs'[r] = mul'[1].res
      BY <1>1, <3>2, RfAbsIsNext
    <3> QED
      BY <2>5, <3>2, <3>3
  <2>6. CASE ~(MulInEX /\ idex.instr.rd = r)
    <3>1. mul'[1].valid => mul'[1].rd # r
      BY <2>6, MulFlow
    <3>2. rf_abs'[r] = Landing(r)'
      BY <1>1, <2>4, <3>1, RfAbsIsNext
    <3> QED
      BY <2>2, <2>3, <2>6, <3>2
  <2> QED
    BY <2>5, <2>6
<1>5. CASE mul_busy
  <2>1. ~idex.valid /\ ~mul'[1].valid /\ (\A s \in 1 .. 3 : mul'[s + 1] = mul[s])
    BY <1>5, MulFlow
  <2>2. ~MulInEX /\ ~exmem'.rf_we
    BY <1>3, <2>1 DEF MulInEX
  <2>3. PICK s \in 1 .. 4 : mul[s].valid
    BY <1>5 DEF mul_busy, mul_stage_busy
  <2>4. \A t \in 1 .. 4 : mul[t].valid => t = s
    BY <2>3 DEF OneMultiplication, mul_stage_busy
  <2>5. \A t \in 1 .. 4 : t = 1 \/ (t - 1 \in 1 .. 3 /\ t - 1 \in 1 .. 4 /\ (t - 1) + 1 = t)
    OBVIOUS
  <2>6. \A t \in 1 .. 4 : t # 1 => mul'[t] = mul[t - 1]
    BY <2>1, <2>5
  <2>7. CASE mul[s].rd = r /\ s # 4
    <3>1. s + 1 \in 1 .. 4 /\ s \in 1 .. 3
      BY <2>7
    <3>2. mul'[s + 1] = mul[s]
      BY <2>1, <3>1
    <3> QED
      BY <1>1, <2>2, <2>3, <2>7, <3>1, <3>2, RfAbsIs, RfAbsIsNext
  <2>8. CASE mul[s].rd = r /\ s = 4
    <3>1. \A t \in 1 .. 4 : ~mul'[t].valid
      BY <2>1, <2>4, <2>5, <2>6, <2>8
    <3>2. rf_abs'[r] = Landing(r)'
      BY <1>1, <3>1, RfAbsIsNext
    <3>3. Landing(r)' = mul[4].res
      BY <1>1, <2>3, <2>8, LandingNext
    <3>4. rf_abs[r] = mul[4].res
      BY <1>1, <2>3, <2>8, RfAbsIs
    <3> QED
      BY <2>2, <3>2, <3>3, <3>4
  <2>9. CASE mul[s].rd # r
    <3>1. \A t \in 1 .. 4 : mul[t].valid => mul[t].rd # r
      BY <2>4, <2>9
    <3>2. \A t \in 1 .. 4 : mul'[t].valid => mul'[t].rd # r
      BY <2>1, <2>5, <2>6, <3>1
    <3>3. rf_abs'[r] = Landing(r)' /\ rf_abs[r] = Landing(r)
      BY <1>1, <3>1, <3>2, RfAbsIs, RfAbsIsNext
    <3>4. 4 \in 1 .. 4
      OBVIOUS
    <3>5. Landing(r)' = Landing(r)
      BY <1>1, <2>2, <3>1, <3>4, LandingNext
    <3> QED
      BY <2>2, <3>3, <3>5
  <2> QED
    BY <2>7, <2>8, <2>9
<1> QED
  BY <1>4, <1>5
-----------------------------------------------------------------------------
(* Forwarding. *)

\* What leaves EX for MEM, when nothing there traps.
LEMMA LeavesEX ==
  ASSUME BackEnd, ~exception_valid_EX, ~sspopchk_fault_WB
  PROVE  exmem' = [valid   |-> idex.valid,
                   pc      |-> idex.pc,
                   rf_we   |-> rf_we(idex.instr),
                   rd      |-> idex.instr.rd,
                   wd      |-> rf_wd_EX,
                   load    |-> opEX = "LW",
                   dram_we |-> dram_we(idex.instr),
                   sl      |-> sl_type_effective_EX,
                   addr    |-> IF shadow_mem_active_EX THEN shadow_addr_EX ELSE alu_result_EX,
                   rd2     |-> idex.rd2]
  BY DEF BackEnd, StepEXMEM

LEMMA NoMulMoves ==
  ASSUME ~keep_PC
  PROVE  ~mul_busy /\ opEX # "MUL" /\ ~shadow_serialize
  BY MulHolds, ShadowHolds

\* The operand that the instruction in ID takes with it is what the software sees in
\* the register once the instruction now in EX has left it.
LEMMA ForwardedRight ==
  ASSUME IInv, DInv, ProgramOrder, OneMultiplication, Next, ~take_branch_NextPC, ~keep_PC,
         NEW r \in Regs,
         \/ rs1_used(ifid.instr) /\ r = ifid.instr.rs1
         \/ rs2_used(ifid.instr) /\ r = ifid.instr.rs2
  PROVE  forward(TRUE, r, stageEX, stageMEM, stageWB, rf_read(r)) = X_abs(r)'
<1>1. ~exception_valid_EX /\ ~sspopchk_fault_WB /\ BackEnd
  BY BackEndMoves DEF take_branch_NextPC, exception_valid
<1>2. ~mul_busy /\ opEX # "MUL"
  BY NoMulMoves
<1>3. \A s \in 1 .. 4 : ~mul[s].valid
  BY <1>2 DEF mul_busy, mul_stage_busy
<1>4. ~load_use_hazard(ifid.instr, stageEX, stageMEM)
  BY DEF keep_PC, hazard, any_hazard
<1>5. CASE r = 0
  BY <1>5 DEF forward, RAW, rf_read, X_abs
<1>6. CASE r # 0
  <2>1. \A stage \in {stageEX, stageMEM} : stage.we /\ stage.rd = r => ~stage.load
    BY <1>4, <1>6 DEF load_use_hazard, RAW
  <2>2. X_abs(r)' = rf_abs'[r] /\ rf_read(r) = rf[r]
    BY <1>6 DEF X_abs, rf_read
  <2>3. rf_abs'[r] = IF exmem'.rf_we /\ exmem'.rd = r THEN wd_MEM_done' ELSE rf_abs[r]
    BY <1>2, <1>6, RfAbsNext DEF MulInEX
  <2>4. CASE stageEX.we /\ stageEX.rd = r
    <3>1. (opEX = "LW") = FALSE
      BY <2>1, <2>4 DEF stageEX
    <3>2. exmem'.rf_we /\ exmem'.rd = r /\ exmem'.load = FALSE /\ exmem'.wd = rf_wd_EX
      <4>1. rf_we(idex.instr) = TRUE /\ idex.instr.rd = r
        BY <2>4 DEF stageEX, rf_we
      <4>2. /\ exmem'.rf_we = rf_we(idex.instr) /\ exmem'.rd = idex.instr.rd
            /\ exmem'.wd = rf_wd_EX
        BY <1>1, LeavesEX
      <4>3. exmem'.load = FALSE
        BY <1>1, <3>1 DEF BackEnd, StepEXMEM
      <4> QED
        BY <4>1, <4>2, <4>3
    <3>3. wd_MEM_done' = rf_wd_EX
      BY <3>2 DEF wd_MEM_done
    <3> QED
      BY <1>6, <2>2, <2>3, <2>4, <3>2, <3>3 DEF forward, RAW, stageEX
  <2>5. CASE ~(stageEX.we /\ stageEX.rd = r)
    <3>1. ~(exmem'.rf_we /\ exmem'.rd = r)
      BY <1>1, <2>5, LeavesEX DEF stageEX
    <3>2. rf_abs[r] = Landing(r)
      BY <1>3, <1>6, RfAbsIs, Domains
    <3>3. forward(TRUE, r, stageEX, stageMEM, stageWB, rf_read(r))
            = IF stageMEM.we /\ stageMEM.rd = r THEN stageMEM.wd
              ELSE IF stageWB.we /\ stageWB.rd = r THEN stageWB.wd ELSE rf[r]
      BY <1>6, <2>2, <2>5 DEF forward, RAW
    <3>4. stageMEM.we /\ stageMEM.rd = r => stageMEM.wd = wd_MEM_done
      BY <2>1 DEF stageMEM, wd_MEM_done
    <3> QED
      BY <2>2, <2>3, <3>1, <3>2, <3>3, <3>4 DEF Landing, stageMEM, stageWB
  <2> QED
    BY <2>4, <2>5
<1> QED
  BY <1>5, <1>6

\* The instructions of a program read no registers but Regs.
LEMMA FetchedReadRegs ==
  ASSUME DInv, FromMemory
  PROVE  ReadsRegs(ifid.instr) /\ ReadsRegs(idex.instr)
<1>1. ReadsRegs(Zero)
  BY DEF ReadsRegs, rs1_used, rs2_used, Zero, BranchOps
<1> QED
  BY <1>1, ProgramsAssumption DEF FromMemory, Loaded, DInv

LEMMA NextOperandsForwarded ==
  ASSUME IInv, DInv, FromMemory, ProgramOrder, OneMultiplication, Next
  PROVE  OperandsForwarded'
<1> SUFFICES ASSUME idex'.valid
             PROVE  /\ rs1_used(idex.instr)' => idex'.rd1 = X_abs(idex.instr.rs1)'
                    /\ rs2_used(idex.instr)' => idex'.rd2 = X_abs(idex.instr.rs2)'
  BY DEF OperandsForwarded
<1>1. ~take_branch_NextPC /\ ~keep_PC /\ idex' = Issued(idex'.pred)
  BY IssueFacts
<1>2. /\ idex'.instr = ifid.instr
      /\ idex'.rd1 = forward(rs1_used(ifid.instr), ifid.instr.rs1, stageEX, stageMEM, stageWB,
                             rf_read(ifid.instr.rs1))
      /\ idex'.rd2 = forward(rs2_used(ifid.instr), ifid.instr.rs2, stageEX, stageMEM, stageWB,
                             rf_read(ifid.instr.rs2))
  BY <1>1 DEF Issued
<1>3. ReadsRegs(ifid.instr)
  BY FetchedReadRegs
<1>4. ASSUME rs1_used(idex.instr)' PROVE idex'.rd1 = X_abs(idex.instr.rs1)'
  <2>1. rs1_used(ifid.instr) /\ rs1_used(ifid.instr) = TRUE
    BY <1>2, <1>4 DEF rs1_used
  <2>2. PICK r \in Regs : r = ifid.instr.rs1
    BY <1>3, <2>1 DEF ReadsRegs
  <2>3. forward(TRUE, r, stageEX, stageMEM, stageWB, rf_read(r)) = X_abs(r)'
    BY <1>1, <2>1, <2>2, ForwardedRight
  <2>4. idex'.rd1 = X_abs(r)' /\ r = idex'.instr.rs1
    BY <1>2, <2>1, <2>2, <2>3
  <2> QED
    BY <2>4 DEF X_abs
<1>5. ASSUME rs2_used(idex.instr)' PROVE idex'.rd2 = X_abs(idex.instr.rs2)'
  <2>1. rs2_used(ifid.instr) /\ rs2_used(ifid.instr) = TRUE
    BY <1>2, <1>5 DEF rs2_used
  <2>2. PICK r \in Regs : r = ifid.instr.rs2
    BY <1>3, <2>1 DEF ReadsRegs
  <2>3. forward(TRUE, r, stageEX, stageMEM, stageWB, rf_read(r)) = X_abs(r)'
    BY <1>1, <2>1, <2>2, ForwardedRight
  <2>4. idex'.rd2 = X_abs(r)' /\ r = idex'.instr.rs2
    BY <1>2, <2>1, <2>2, <2>3
  <2> QED
    BY <2>4 DEF X_abs
<1> QED
  BY <1>4, <1>5

LEMMA NextLegalInEX == Next => LegalInEX'
<1> SUFFICES ASSUME Next, idex'.valid PROVE ~is_illegal_instr(idex'.instr)
  BY DEF LegalInEX
<1>1. ifid.valid /\ ~id_exception_candidate_ID /\ idex'.instr = ifid.instr
  BY IssueFacts DEF Issued
<1> QED
  BY <1>1 DEF id_exception_candidate_ID, illegal_instr_exception_ID,
              instr_access_fault_exception_ID

-----------------------------------------------------------------------------
(* Pops of the shadow stack, and landing pads.                                 *)

\* A pop in EX that does not trap, or in MEM, leaves everything but the pipeline alone.
LEMMA QuietPop ==
  ASSUME CInv, BackEnd,
         \/ shadow_mem_active_EX /\ opEX = "SSPOPCHK" /\ ~exception_valid_EX
         \/ exmem.sl = "SSPOPCHK"
  PROVE  csr' = csr /\ ~exception_valid /\ ~xret_EX /\ keep_PC
<1>1. BubblesInert /\ ShadowAlone
  BY DEF CInv, IInv, InFlightDiscipline
<1>2. shadow_serialize /\ older_pipeline_active /\ ~sspopchk_WB
  BY <1>1 DEF shadow_serialize, shadow_mem_active_EX, older_pipeline_active, sspopchk_WB,
              ShadowAlone, BubblesInert
<1>3. exmem.sl = "SSPOPCHK" => ~idex.valid
  BY <1>1 DEF ShadowAlone
<1>4. ~exception_valid_EX /\ ~xret_EX /\ ~sspush_EX /\ ~elp_set_EX
  BY <1>3 DEF exception_valid_EX, xret_EX, sspush_EX, shadow_mem_active_EX, elp_set_EX
<1>5. ~csr_write.valid
  BY <1>3 DEF csr_write, csr_write_intent, CsrOps, CsrRegOps, CsrImmOps, opEX
<1>6. csr' = csr
  BY <1>2, <1>4, <1>5, ShadowQuiet
<1>7. ~exception_valid
  BY <1>2, <1>4 DEF exception_valid, sspopchk_fault_WB, instr_fault_effective_ID,
         software_check_effective_ID, illegal_instr_effective_ID, id_exception_ready
<1> QED
  BY <1>2, <1>4, <1>6, <1>7, ShadowHolds

LEMMA NoPops == Init => exmem.sl = "NOP" /\ memwb.sl = "NOP"
<1> SUFFICES ASSUME Init PROVE exmem.sl = "NOP" /\ memwb.sl = "NOP"
  OBVIOUS
<1>1. exmem \in {InertEXMEM(v) : v \in BOOLEAN} /\ memwb = MEMWBBubble
  BY DEF Init, EXMEMBubble, BootMret
<1> QED
  BY <1>1, BubbleFacts DEF InertEXMEM

\* An active shadow-stack access in EX neither branches nor was predicted to.
LEMMA ShadowStraight ==
  ASSUME IInv, ProgramOrder, shadow_mem_active_EX
  PROVE  /\ ~normal_control_mispredict_EX /\ ~xret_EX /\ idex.pred = FALSE
         /\ ~rf_we(idex.instr) /\ ~MulInEX /\ fetch_pc = Wrap(idex.pc + 4)
<1>1. idex.valid /\ opEX \in Shadow
  BY DEF shadow_mem_active_EX
<1>2. idex.pred = FALSE
  BY <1>1 DEF ProgramOrder, BranchOps, IInv, ControlTypeOK
<1>3. take_branch_normal = FALSE
  BY <1>1 DEF take_branch_normal, JumpOps
<1> QED
  BY <1>1, <1>2, <1>3
     DEF normal_control_mispredict_EX, xret_EX, rf_we, opEX, MulInEX, ProgramOrder,
         AluOps, JumpOps, CsrOps, CsrRegOps, CsrImmOps

\* Nothing but a store in MEM changes the memory.
LEMMA MemoryAhead ==
  ASSUME BackEnd
  PROVE  dram' = dram_abs /\ (~exmem'.dram_we => dram_abs' = dram_abs)
<1>1. dram' = ram_data_next
  BY DEF BackEnd, StepMemory
<1>2. ~exmem'.dram_we => ram_data_next' = dram'
  BY DEF ram_data_next, wstrb_MEM
<1> QED
  BY <1>1, <1>2 DEF dram_abs

\* A pop enters MEM.
LEMMA PopEntersMEM ==
  ASSUME CInv, DInv, VerdictsCurrent, RefinementInv, Next, exmem'.sl = "SSPOPCHK"
  PROVE  PopUnderWay(exmem)' /\ exmem'.addr = ssp_value'
<1>1. BackEnd /\ IInv /\ rom' = rom
  BY BackEndMoves DEF CInv, BackEnd
<1>2. exmem' # EXMEMBubble /\ sl_type_effective_EX = "SSPOPCHK"
  BY <1>1, EXMEMNext, BubbleFacts
<1>3. ~exception_valid_EX /\ ~sspopchk_fault_WB
  BY <1>1, <1>2 DEF BackEnd, StepEXMEM
<1>4. shadow_mem_active_EX /\ opEX = "SSPOPCHK" /\ idex.valid
  BY <1>2, EffectiveAccess
     DEF sl_type_effective_EX, sl_type, opEX, MemOps, shadow_mem_active_EX
<1>5. csr' = csr /\ ~exception_valid /\ ~xret_EX /\ keep_PC
  BY <1>1, <1>3, <1>4, QuietPop
<1>6. fetch_pc' = Wrap(idex.pc + 4)
  <2>1. fetch_pc = Wrap(idex.pc + 4) /\ ~normal_control_mispredict_EX
    BY <1>1, <1>4, ShadowStraight DEF RefinementInv
  <2>2. ~take_branch_NextPC
    BY <1>5, <2>1 DEF take_branch_NextPC
  <2> QED
    BY <1>5, <2>1, <2>2, FrontEnd DEF fetch_pc
<1>7. /\ exmem'.pc = idex.pc /\ exmem'.wd = idex.rd1 /\ exmem'.addr = ssp_value
      /\ ~exmem'.rf_we
  <2>1. ~rf_we(idex.instr)
    BY <1>1, <1>4, ShadowStraight DEF RefinementInv
  <2> QED
    BY <1>1, <1>3, <1>4, <2>1, LeavesEX DEF rf_wd_EX, shadow_addr_EX
<1>8. idex.instr = rom[IndexOf(idex.pc)] /\ idex.rd1 = X_abs(idex.instr.rs1)
  BY <1>4 DEF RefinementInv, ProgramOrder, OperandsForwarded, rs1_used, opEX, CsrImmOps, SystemOps
<1>9. \A r : X_abs(r)' = X_abs(r)
  <2>1. ~MulInEX
    BY <1>4 DEF MulInEX
  <2>2. \A r \in Regs \ {0} : rf_abs'[r] = rf_abs[r]
    BY <1>1, <1>7, <2>1, RfAbsNext DEF RefinementInv
  <2> QED
    BY <2>2 DEF X_abs
<1>10. ssp_value % 4 = 0 /\ ~Faults_abs("load", ssp_value) /\ ~Faults_abs("fetch", idex.pc)
  <2>1. ~shadow_access_fault_EX /\ ~load_access_fault_EX
    BY <1>3, <1>4 DEF exception_valid_EX
  <2>2. shadow_addr_EX = ssp_value /\ mem_addr_EX = ssp_value
    BY <1>4 DEF shadow_addr_EX, mem_addr_EX
  <2> QED
    BY <1>2, <1>4, <2>1, <2>2
       DEF shadow_access_fault_EX, load_access_fault_EX, data_fault_EX, Faults_abs,
           VerdictsCurrent, fetch_fault
<1>11. ssp_value' = ssp_value /\ \A a, n : Faults_abs(a, n)' = Faults_abs(a, n)
  BY <1>5 DEF ssp_value, Faults_abs
<1> QED
  BY <1>1, <1>4, <1>6, <1>7, <1>8, <1>9, <1>10, <1>11 DEF PopUnderWay, opEX

\* A pop moves from MEM to WB, and the memory answers it.
LEMMA PopEntersWB ==
  ASSUME CInv, DInv, RefinementInv, Next, memwb'.sl = "SSPOPCHK"
  PROVE  PopUnderWay(memwb)' /\ spo' = dram_abs'[IndexOf(ssp_value')]
<1>1. BackEnd /\ IInv /\ BubblesInert /\ ShadowAlone /\ rom' = rom
  BY BackEndMoves DEF CInv, IInv, InFlightDiscipline, BackEnd
<1>2. exmem.sl = "SSPOPCHK"
  BY <1>1, MEMWBNext
<1>3. ~idex.valid /\ exmem.valid /\ memwb.sl \notin Shadow
  BY <1>1, <1>2 DEF BubblesInert, ShadowAlone
<1>4. memwb'.pc = exmem.pc /\ memwb'.wd = exmem.wd
  BY <1>1, <1>3 DEF BackEnd, StepMEMWB, sspopchk_fault_WB, sspopchk_WB
<1>5. csr' = csr /\ ~exception_valid /\ ~xret_EX /\ keep_PC
  BY <1>1, <1>2, QuietPop
<1>6. ~take_branch_NextPC
  BY <1>3, <1>5 DEF take_branch_NextPC, normal_control_mispredict_EX
<1>7. fetch_pc' = fetch_pc
  BY <1>5, <1>6, FrontEnd DEF fetch_pc
<1>8. ~exmem'.rf_we /\ ~exmem'.dram_we /\ ~MulInEX
  BY <1>1, <1>3, EXMEMNext, ZeroInert DEF BubblesInert, MulInEX
<1>9. \A r : X_abs(r)' = X_abs(r)
  <2>1. \A r \in Regs \ {0} : rf_abs'[r] = rf_abs[r]
    BY <1>1, <1>8, RfAbsNext DEF RefinementInv
  <2> QED
    BY <2>1 DEF X_abs
<1>10. PopUnderWay(exmem) /\ exmem.addr = ssp_value
  BY <1>2 DEF RefinementInv, PopsUnderWay
<1>11. ssp_value' = ssp_value /\ \A a, n : Faults_abs(a, n)' = Faults_abs(a, n)
  BY <1>5 DEF ssp_value, Faults_abs
<1>12. spo' = dram_abs'[IndexOf(ssp_value')]
  <2>1. spo' = dram[IndexOf(exmem.addr)]
    BY <1>1 DEF BackEnd, StepMemory
  <2>2. dram_abs = dram
    BY <1>2 DEF dram_abs, ram_data_next, wstrb_MEM
  <2> QED
    BY <1>1, <1>8, <1>10, <1>11, <2>1, <2>2, MemoryAhead
<1> QED
  BY <1>1, <1>4, <1>7, <1>9, <1>10, <1>11, <1>12 DEF PopUnderWay

LEMMA NextPopsUnderWay ==
  ASSUME CInv, DInv, VerdictsCurrent, RefinementInv, Next
  PROVE  PopsUnderWay'
  BY PopEntersMEM, PopEntersWB DEF PopsUnderWay

\* With EX empty, x7 of the label check is the x7 that the software sees.
LEMMA LabelRight ==
  ASSUME IInv, DInv, OneMultiplication, ~idex.valid, ~mul_busy, ~exmem.load
  PROVE  x7_effective_ID = X_abs(7)
<1>1. 7 \in Regs \ {0}
  BY RegsAssumption
<1>2. ~stageEX.we
  BY ZeroInert DEF stageEX, IInv, InFlightDiscipline, BubblesInert
<1>3. \A s \in 1 .. 4 : ~mul[s].valid
  BY DEF mul_busy, mul_stage_busy
<1>4. DOMAIN rf = Regs
  BY DEF DInv, DataTypeOK
<1>5. X_abs(7) = Landing(7)
  BY <1>1, <1>3, <1>4, RfAbsIs DEF X_abs
<1>6. 4 \in 1 .. 4
  OBVIOUS
<1>7. commit = IF memwb.rf_we THEN [we |-> TRUE, rd |-> memwb.rd, wd |-> rf_wd_WB]
               ELSE [we |-> FALSE, rd |-> 0, wd |-> 0]
  BY <1>3, <1>6 DEF commit, mul_rf_we_o
<1> QED
  BY <1>2, <1>5, <1>7 DEF x7_effective_ID, Landing, stageMEM, wd_MEM_done

LEMMA NextPadPaid ==
  ASSUME CInv, DInv, RefinementInv, NextH
  PROVE  PadPaid'
<1>1. Next /\ BackEnd /\ IInv
  BY BackEndMoves DEF NextH, CInv
<1>2. ASSUME paid'
      PROVE  /\ idex'.valid /\ idex'.instr.op = "LPAD"
             /\ idex'.instr.imm \in {0, LabelOf(X_abs(7)')}
  <2>1. csr.elp /\ ifid.instr.op = "LPAD" /\ idex'.valid
    BY <1>2 DEF NextH
  <2>2. /\ ifid.valid /\ ~take_branch_NextPC /\ ~keep_PC /\ ~id_exception_candidate_ID
        /\ idex'.instr = ifid.instr
    BY <1>1, <2>1, IssueFacts DEF Issued
  <2>3. ~idex.valid /\ current_lpe_enabled(csr) /\ ~exmem.load
    BY <1>1, <2>1 DEF IInv, NothingRunsBeforeThePad, ElpOnlyWhereEnabled, RefinementInv, PadPaid
  <2>4. lpad_pass_ID
    BY <2>1, <2>2, <2>3 DEF id_exception_candidate_ID, software_check_exception_ID,
                            instr_access_fault_exception_ID
  <2>5. ~mul_busy
    BY <2>2, NoMulMoves
  <2>6. x7_effective_ID = X_abs(7)
    BY <1>1, <2>3, <2>5, LabelRight DEF RefinementInv
  <2>7. X_abs(7)' = X_abs(7)
    <3>1. ~exmem'.rf_we /\ ~MulInEX /\ 7 \in Regs \ {0}
      BY <1>1, <2>3, EXMEMNext, ZeroInert, RegsAssumption
         DEF IInv, InFlightDiscipline, BubblesInert, MulInEX
    <3>2. rf_abs'[7] = rf_abs[7]
      BY <1>1, <3>1, RfAbsNext DEF RefinementInv
    <3> QED
      BY <3>1, <3>2 DEF X_abs
  <2> QED
    BY <2>1, <2>2, <2>4, <2>6, <2>7 DEF lpad_pass_ID
<1>3. ASSUME csr'.elp PROVE ~exmem'.load
  <2>1. csr' = CsrNext(csr, exception, xret, ssp_update, elp_update, csr_write) /\ CsrOK(csr)
    BY <1>1 DEF BackEnd, StepCsr, IInv
  <2>2. \/ xret \in {"mret", "sret"}
        \/ elp_update.valid /\ elp_update.expected
        \/ csr.elp
    BY <1>3, <2>1, CsrPorts, CsrNextPending
  <2>3. (opEX = "LW") = FALSE
    <3>1. csr.elp => opEX = "ZERO"
      BY <1>1, ZeroInert
         DEF IInv, NothingRunsBeforeThePad, InFlightDiscipline, BubblesInert, opEX
    <3> QED
      BY <2>2, <3>1 DEF xret, xret_EX, elp_update, elp_set_EX
  <2>4. exmem' = EXMEMBubble \/ exmem'.load = FALSE
    BY <1>1, <2>3 DEF BackEnd, StepEXMEM
  <2> QED
    BY <2>4 DEF EXMEMBubble, InertEXMEM
<1> QED
  BY <1>2, <1>3 DEF PadPaid, opEX

-----------------------------------------------------------------------------
(* The invariant holds throughout. *)

LEMMA InitRefinementInv == InitH => RefinementInv
<1> SUFFICES ASSUME InitH PROVE RefinementInv
  OBVIOUS
<1>1. Init /\ paid = FALSE
  BY DEF InitH
<1>2. PICK b \in Boots : pc = b.pc /\ csr = b.csr
  BY <1>1 DEF Init
<1>3. ~idex.valid /\ ~ifid.valid /\ exmem.sl = "NOP" /\ memwb.sl = "NOP"
  BY <1>1, NoPops, BubbleFacts DEF Init
<1>4. pc % 4 = 0 /\ ~csr.elp /\ csr.reg["mepc"] \cap {0, 1} = {} /\ csr.reg["sepc"] \cap {0, 1} = {}
  BY <1>2, BootsAssumption
<1>5. mul_stage_busy = {}
  BY <1>1 DEF Init, mul_stage_busy, MulIdle
<1> QED
  BY <1>1, <1>3, <1>4, <1>5
     DEF RefinementInv, ProgramOrder, AddressesAligned, fetch_pc, OperandsForwarded, LegalInEX,
         OneMultiplication, PopsUnderWay, PadPaid

LEMMA NextRefinementInv ==
  ASSUME HInv, RefinementInv, NextH
  PROVE  RefinementInv'
<1>1. /\ Next /\ IInv /\ CInv /\ DInv /\ FromMemory /\ VerdictsCurrent
      /\ ProgramOrder /\ AddressesAligned /\ OneMultiplication
  BY DEF NextH, HInv, CInv, RefinementInv
<1>2. ProgramOrder' /\ AddressesAligned'
  BY <1>1, NextProgramOrder, NextAddressesAligned
<1>3. OperandsForwarded' /\ LegalInEX' /\ OneMultiplication'
  BY <1>1, NextOperandsForwarded, NextLegalInEX, NextOneMultiplication
<1>4. PopsUnderWay' /\ PadPaid'
  BY <1>1, NextPopsUnderWay, NextPadPaid
<1> QED
  BY <1>2, <1>3, <1>4 DEF RefinementInv

LEMMA HistoryStep == [NextH]_hvars => [Next]_vars
  BY DEF NextH, hvars

LEMMA StutterRefinementInv == RefinementInv /\ UNCHANGED hvars => RefinementInv'
<1> SUFFICES ASSUME RefinementInv, UNCHANGED hvars PROVE RefinementInv'
  OBVIOUS
<1> USE DEF hvars, vars
<1>1. /\ fetch_pc' = fetch_pc /\ ssp_value' = ssp_value /\ opEX' = opEX
      /\ branch_target_EX' = branch_target_EX /\ dram_abs' = dram_abs /\ spo' = spo
      /\ mul_stage_busy' = mul_stage_busy
  BY DEF fetch_pc, ssp_value, opEX, branch_target_EX, dram_abs, ram_data_next, wstrb_MEM,
         DRAM_input_data, mul_stage_busy
<1>2. rf_abs' = rf_abs
  BY DEF rf_abs, mul_to, mul_stage_busy, wd_MEM_done, rf_wd_WB, load_data_WB
<1>3. \A r : X_abs(r)' = X_abs(r)
  BY <1>2 DEF X_abs
<1>4. \A a, n : Faults_abs(a, n)' = Faults_abs(a, n)
  BY DEF Faults_abs
<1>5. ProgramOrder' /\ AddressesAligned'
  BY <1>1 DEF RefinementInv, ProgramOrder, AddressesAligned
<1>6. OperandsForwarded'
  BY <1>3 DEF RefinementInv, OperandsForwarded
<1>7. LegalInEX' /\ OneMultiplication'
  BY <1>1 DEF RefinementInv, LegalInEX, OneMultiplication
<1>8. PopsUnderWay'
  BY <1>1, <1>3, <1>4 DEF RefinementInv, PopsUnderWay, PopUnderWay
<1>9. PadPaid'
  BY <1>1, <1>3 DEF RefinementInv, PadPaid
<1> QED
  BY <1>5, <1>6, <1>7, <1>8, <1>9 DEF RefinementInv

LEMMA InitHInv == InitH => HInv
  BY InitCInv, InitDInv, InitFromMemory, EmptyVerdicts DEF InitH, HInv

LEMMA NextHInv ==
  ASSUME PmpLeftToBoot
  PROVE  HInv /\ [NextH]_hvars => HInv'
<1>1. HInv /\ Next => HInv'
  BY NextCInv, NextDInv, NextFromMemory, BootPmpStep DEF HInv
<1>2. HInv /\ UNCHANGED vars => HInv'
  BY NextCInv, StutterDInv, StutterFromMemory, StutterVerdicts DEF HInv
<1> QED
  BY <1>1, <1>2, HistoryStep

LEMMA RefinementInvariance ==
  ASSUME PmpLeftToBoot
  PROVE  SpecH => [](HInv /\ RefinementInv)
<1>1. InitH => HInv /\ RefinementInv
  BY InitHInv, InitRefinementInv
<1>2. HInv /\ RefinementInv /\ [NextH]_hvars => (HInv /\ RefinementInv)'
  BY NextHInv, NextRefinementInv, StutterRefinementInv
<1> QED
  BY <1>1, <1>2, PTL DEF SpecH

-----------------------------------------------------------------------------
(* The abstract state, before and after a clock edge.                          *)

LEMMA CsrAbs ==
  ASSUME csr \in CsrState
  PROVE  /\ csr_abs.reg = csr.reg /\ csr_abs.priv = csr.priv
         /\ csr_abs.elp <=> csr.elp \/ paid
         /\ ~paid => csr_abs = csr
         /\ [csr_abs EXCEPT !.elp = FALSE] = [csr EXCEPT !.elp = FALSE]
  BY DEF csr_abs, CsrState

LEMMA CsrAbsNext ==
  ASSUME csr' \in CsrState
  PROVE  /\ ~paid' => csr_abs' = csr'
         /\ csr_abs' = [reg |-> csr'.reg, priv |-> csr'.priv, elp |-> csr'.elp \/ paid']
  BY DEF csr_abs, CsrState

\* What the abstract machine sees when no pop is on its way is in EX or before it.
front_pc == IF idex.valid THEN idex.pc ELSE fetch_pc

LEMMA PcAbs ==
  ASSUME IInv
  PROVE  pc_abs = IF exmem.sl = "SSPOPCHK" THEN exmem.pc
                  ELSE IF memwb.sl = "SSPOPCHK" THEN memwb.pc ELSE front_pc
  BY DEF IInv, InFlightDiscipline, BubblesInert, pc_abs, front_pc, fetch_pc

LEMMA PcAbsNext ==
  ASSUME IInv, Next
  PROVE  /\ pc_abs' = IF exmem'.sl = "SSPOPCHK" THEN exmem'.pc
                      ELSE IF memwb'.sl = "SSPOPCHK" THEN memwb'.pc ELSE front_pc'
         /\ front_pc' = IF take_branch_NextPC THEN pc' ELSE fetch_pc
<1>1. IInv'
  BY NextIInv
<1>2. pc_abs' = IF exmem'.sl = "SSPOPCHK" THEN exmem'.pc
                ELSE IF memwb'.sl = "SSPOPCHK" THEN memwb'.pc ELSE front_pc'
  BY <1>1 DEF IInv, InFlightDiscipline, BubblesInert, pc_abs, front_pc, fetch_pc
<1>3. ~take_branch_NextPC => front_pc' = fetch_pc
  BY FetchPcKept DEF front_pc
<1>4. take_branch_NextPC => front_pc' = pc'
  BY FrontEnd, BubbleFacts DEF front_pc, fetch_pc
<1> QED
  BY <1>2, <1>3, <1>4

\* Where a pop is.
LEMMA PopMoves ==
  ASSUME IInv, BackEnd
  PROVE  /\ memwb'.sl = "SSPOPCHK" <=> exmem.sl = "SSPOPCHK"
         /\ exmem'.sl = "SSPOPCHK" <=>
              shadow_mem_active_EX /\ opEX = "SSPOPCHK" /\ ~exception_valid_EX
         /\ exmem.sl = "SSPOPCHK" => ~idex.valid
         /\ memwb.sl = "SSPOPCHK" => ~idex.valid /\ ~exmem.valid /\ exmem.sl = "NOP"
         /\ memwb.sl = "SSPOPCHK" <=> sspopchk_WB
<1>1. BubblesInert /\ ShadowAlone
  BY DEF IInv, InFlightDiscipline
<1>2. /\ exmem.sl = "SSPOPCHK" => ~idex.valid /\ ~sspopchk_WB
      /\ memwb.sl = "SSPOPCHK" => ~idex.valid /\ ~exmem.valid /\ exmem.sl = "NOP"
      /\ memwb.sl = "SSPOPCHK" <=> sspopchk_WB
  BY <1>1 DEF ShadowAlone, BubblesInert, sspopchk_WB
<1>3. memwb'.sl = "SSPOPCHK" <=> exmem.sl = "SSPOPCHK"
  <2>1. ~sspopchk_fault_WB => memwb'.sl = exmem.sl
    BY DEF BackEnd, StepMEMWB
  <2>2. sspopchk_fault_WB => memwb'.sl = "NOP"
    BY BubbleFacts DEF BackEnd, StepMEMWB
  <2> QED
    BY <1>2, <2>1, <2>2 DEF sspopchk_fault_WB
<1>4. exmem'.sl = "SSPOPCHK" <=>
        shadow_mem_active_EX /\ opEX = "SSPOPCHK" /\ ~exception_valid_EX
  <2>1. exception_valid_EX \/ sspopchk_fault_WB => exmem'.sl = "NOP"
    BY BubbleFacts DEF BackEnd, StepEXMEM
  <2>2. ~exception_valid_EX /\ ~sspopchk_fault_WB => exmem'.sl = sl_type_effective_EX
    BY DEF BackEnd, StepEXMEM
  <2>3. sl_type_effective_EX = "SSPOPCHK" <=> shadow_mem_active_EX /\ opEX = "SSPOPCHK"
    BY DEF sl_type_effective_EX, sl_type, opEX, MemOps, shadow_mem_active_EX
  <2>4. shadow_mem_active_EX => ~sspopchk_fault_WB
    BY <1>2 DEF shadow_mem_active_EX, sspopchk_fault_WB
  <2> QED
    BY <2>1, <2>2, <2>3, <2>4
<1> QED
  BY <1>2, <1>3, <1>4

\* What the abstract machine is about to execute, and its view of the operands.
LEMMA ArchNow ==
  ASSUME csr \in CsrState
  PROVE  /\ Arch!Instr = rom[IndexOf(pc_abs)]
         /\ Arch!op = rom[IndexOf(pc_abs)].op
         /\ Arch!src1 = X_abs(rom[IndexOf(pc_abs)].rs1)
         /\ Arch!src2 = X_abs(rom[IndexOf(pc_abs)].rs2)
         /\ \A r : Arch!X(r) = X_abs(r)
         /\ \A a, n : Arch!Faults(a, n) = Faults_abs(a, n)
         /\ Arch!ssp = ssp_value
<1>1. Arch!Instr = rom[IndexOf(pc_abs)]
  BY ArchNumbers DEF Arch!Instr
<1>2. \A r : Arch!X(r) = X_abs(r)
  BY DEF Arch!X, X_abs
<1>3. \A a, n : Arch!Faults(a, n) = Faults_abs(a, n)
  BY ArchAccess, ArchNumbers, CsrAbs DEF Arch!Faults, Faults_abs
<1>4. Arch!ssp = ssp_value
  BY ArchNumbers, CsrAbs DEF Arch!ssp, ssp_value
<1> QED
  BY <1>1, <1>2, <1>3, <1>4 DEF Arch!op, Arch!src1, Arch!src2

\* The registers change by at most one write.
LEMMA RfAbsWrite ==
  ASSUME IInv, DInv, BackEnd, DOMAIN rf' = Regs, NEW rd, NEW w,
         \A r \in Regs \ {0} : rf_abs'[r] = IF r = rd THEN w ELSE rf_abs[r]
  PROVE  rf_abs' = IF rd \in Regs \ {0} THEN [rf_abs EXCEPT ![rd] = w] ELSE rf_abs
<1>1. DOMAIN rf = Regs /\ rf \in [Regs -> Word] /\ 0 \in Regs
  BY RegsAssumption DEF DInv, DataTypeOK
<1>2. rf'[0] = rf[0]
  BY <1>1 DEF BackEnd, StepRegisterF
<1>3. rf_abs[0] = rf[0] /\ rf_abs'[0] = rf'[0]
  BY <1>1 DEF rf_abs
<1>4. \A r \in Regs : rf_abs'[r] = IF r = rd /\ r # 0 THEN w ELSE rf_abs[r]
  BY <1>2, <1>3
<1>5. rf_abs = [r \in Regs |-> rf_abs[r]] /\ rf_abs' = [r \in Regs |-> rf_abs'[r]]
  BY <1>1 DEF rf_abs
<1> HIDE DEF rf_abs
<1>6. CASE rd \in Regs \ {0}
  <2>1. [rf_abs EXCEPT ![rd] = w] = [r \in Regs |-> IF r = rd THEN w ELSE rf_abs[r]]
    BY <1>5, <1>6
  <2> QED
    BY <1>4, <1>5, <1>6, <2>1
<1>7. CASE rd \notin Regs \ {0}
  BY <1>4, <1>5, <1>7
<1> QED
  BY <1>6, <1>7

-----------------------------------------------------------------------------
(* One clock edge, case by case. *)

Edge == HInv /\ RefinementInv /\ NextH

LEMMA EdgeFacts ==
  ASSUME Edge
  PROVE  /\ Next /\ BackEnd /\ IInv /\ CInv /\ DInv /\ VerdictsCurrent
         /\ BubblesInert /\ ShadowAlone /\ MulAlone /\ ProgramOrder /\ OneMultiplication
         /\ csr \in CsrState /\ csr' \in CsrState /\ rom' = rom
         /\ DOMAIN rf = Regs /\ DOMAIN rf' = Regs
         /\ csr' = CsrNext(csr, exception, xret, ssp_update, elp_update, csr_write)
         /\ paid' = (csr.elp /\ ifid.instr.op = "LPAD" /\ idex'.valid)
         /\ paid => idex.valid /\ opEX = "LPAD"
<1>1. /\ Next /\ BackEnd /\ IInv /\ CInv /\ DInv /\ VerdictsCurrent
      /\ ProgramOrder /\ OneMultiplication /\ PadPaid
  BY BackEndMoves DEF Edge, HInv, CInv, NextH, RefinementInv
<1>2. csr' \in CsrState
  <2>1. IInv'
    BY <1>1, NextIInv
  <2> QED
    BY <2>1 DEF IInv, ControlTypeOK
<1>3. csr \in CsrState /\ BubblesInert /\ ShadowAlone /\ MulAlone
  BY <1>1 DEF IInv, ControlTypeOK, InFlightDiscipline
<1>4. /\ rom' = rom
      /\ csr' = CsrNext(csr, exception, xret, ssp_update, elp_update, csr_write)
  BY <1>1 DEF BackEnd, StepCsr
<1>5. paid' = (csr.elp /\ ifid.instr.op = "LPAD" /\ idex'.valid)
  BY DEF Edge, NextH
<1>6. paid => idex.valid /\ opEX = "LPAD"
  BY <1>1 DEF PadPaid
<1> QED
  BY <1>1, <1>2, <1>3, <1>4, <1>5, <1>6, Domains

LEMMA RfKept ==
  ASSUME Edge, ~MulInEX, ~exmem'.rf_we
  PROVE  rf_abs' = rf_abs
<1>1. \A r \in Regs \ {0} : rf_abs'[r] = IF r = 0 THEN 0 ELSE rf_abs[r]
  BY EdgeFacts, RfAbsNext
<1>2. rf_abs' = IF 0 \in Regs \ {0} THEN [rf_abs EXCEPT ![0] = 0] ELSE rf_abs
  BY <1>1, EdgeFacts, RfAbsWrite
<1> QED
  BY <1>2

LEMMA RfSet ==
  ASSUME Edge, NEW w,
         \/ MulInEX /\ w = product
         \/ ~MulInEX /\ exmem'.rf_we /\ exmem'.rd = idex.instr.rd /\ w = wd_MEM_done'
  PROVE  rf_abs' = IF idex.instr.rd \in Regs \ {0}
                   THEN [rf_abs EXCEPT ![idex.instr.rd] = w] ELSE rf_abs
<1>1. MulInEX => ~exmem'.rf_we
  BY EdgeFacts, EXMEMNext
     DEF MulInEX, rf_we, opEX, AluOps, JumpOps, CsrOps, CsrRegOps, CsrImmOps
<1>2. \A r \in Regs \ {0} : rf_abs'[r] = IF r = idex.instr.rd THEN w ELSE rf_abs[r]
  BY <1>1, EdgeFacts, RfAbsNext
<1> QED
  BY <1>2, EdgeFacts, RfAbsWrite

LEMMA TrapRecord ==
  ASSUME NEW c, NEW at, NEW cause, NEW tval
  PROVE  TrapEntry(c, Exc(at, cause, tval))
           = TrapEntry(c, [pc |-> at, cause |-> cause, tval |-> tval])
  BY DEF TrapEntry, DelegatedTrap, MachineTrap, Exc

\* A trap of the core is a trap of the abstract machine.
LEMMA TakesTrap ==
  ASSUME Edge, exception_valid, ~paid, ~exmem'.rf_we, ~exmem'.dram_we, ~MulInEX,
         exmem'.sl # "SSPOPCHK", memwb'.sl # "SSPOPCHK",
         NEW cause, NEW tval, exception = Exc(pc_abs, cause, tval)
  PROVE  Arch!Take(cause, tval)
<1>1. take_branch_NextPC
  BY DEF take_branch_NextPC
<1>2. ~paid'
  BY <1>1, EdgeFacts, FrontEnd, BubbleFacts
<1>3. csr_abs' = csr' /\ csr_abs = csr
  BY <1>2, EdgeFacts, CsrAbs, CsrAbsNext
<1>4. csr' = TrapEntry(csr, [pc |-> pc_abs, cause |-> cause, tval |-> tval])
  BY EdgeFacts, ExceptionPort, TrapRecord DEF CsrNext
<1>5. pc_abs' = trap_target(csr, cause)
  <2>1. pc' = trap_target(csr, exception.cause)
    BY <1>1, EdgeFacts, RedirectTarget
  <2> QED
    BY <1>1, <2>1, EdgeFacts, PcAbsNext DEF Exc
<1>6. rf_abs' = rf_abs
  BY RfKept
<1>7. dram_abs' = dram_abs
  BY EdgeFacts, MemoryAhead
<1> QED
  BY <1>3, <1>4, <1>5, <1>6, <1>7, EdgeFacts, ArchTraps, ArchGuards DEF Arch!Take

\* An instruction whose checks are all passed.
LEMMA MayExecute ==
  ASSUME csr \in CsrState, NEW i, i = rom[IndexOf(pc_abs)],
         ~Faults_abs("fetch", pc_abs), ~is_illegal_instr(i), MayRun(i, csr),
         csr.elp \/ paid => i.op = "LPAD" /\ i.imm \in {0, LabelOf(X_abs(7))},
         NEW ops, i.op \in ops
  PROVE  Arch!Executes(ops)
<1>1. Arch!Instr = i /\ Arch!op = i.op /\ \A r : Arch!X(r) = X_abs(r)
  BY ArchNow
<1>2. ~Arch!FetchFaults
  BY ArchNow DEF Arch!FetchFaults
<1>3. ~Arch!PadMissing
  BY <1>1, CsrAbs DEF Arch!PadMissing, Arch!LabelMatches, LabelOf
<1>4. ~Arch!NoPrivilege
  <2>1. csr_abs.priv = csr.priv /\ csr_abs.reg = csr.reg /\ csr.priv \in Prv
    BY CsrAbs DEF CsrState
  <2>2. Arch!shadow_stack_enabled(csr_abs) = shadow_stack_enabled(csr)
    BY <2>1, ArchGuards DEF shadow_stack_enabled
  <2>3. \A n : ~(csr.priv < CsrPriv(n)) <=> csr.priv >= CsrPriv(n)
    <3>1. \A n : CsrPriv(n) \in Prv
      BY DEF CsrPriv, Prv
    <3> QED
      BY <2>1, <3>1 DEF Prv, PrvU, PrvS, PrvM
  <2>4. ASSUME i.op \in CsrOps
        PROVE  ~(\/ Arch!Instr.csr \notin Arch!CsrName
                 \/ csr_abs.priv < Arch!CsrPriv(Arch!Instr.csr)
                 \/ Arch!CsrReadOnly(Arch!Instr.csr) /\ Arch!csr_write_intent(Arch!Instr)
                 \/ /\ Arch!Instr.csr = "ssp" /\ csr_abs.priv # Arch!PrvM
                    /\ ~Arch!shadow_stack_enabled(csr_abs)
                 \/ /\ Arch!Instr.csr = "satp" /\ csr_abs.priv = Arch!PrvS
                    /\ Arch!TVM \in csr_abs.reg["mstatus"])
    <3>1. /\ i.csr \in CsrName /\ csr.priv >= CsrPriv(i.csr)
          /\ csr_write_intent(i) => ~CsrReadOnly(i.csr)
          /\ i.csr = "ssp" => csr.priv = PrvM \/ shadow_stack_enabled(csr)
          /\ i.csr = "satp" => ~(csr.priv = PrvS /\ TVM \in csr.reg["mstatus"])
      BY <2>4 DEF MayRun
    <3>2. Arch!csr_write_intent(i) = csr_write_intent(i)
      BY ArchDecode
    <3> QED
      BY <1>1, <2>1, <2>2, <2>3, <3>1, <3>2, ArchNames, ArchBits, ArchGuards
  <2>5. ~(i.op = "MRET" /\ csr.priv # PrvM) /\ ~(i.op = "SRET" /\ csr.priv = PrvU)
        /\ ~(i.op = "SRET" /\ csr.priv = PrvS /\ TSR \in csr.reg["mstatus"])
    BY DEF MayRun
  <2> QED
    BY <1>1, <2>1, <2>4, <2>5, ArchBits, ArchDecode DEF Arch!NoPrivilege
<1>5. ~Arch!Illegal
  BY <1>1, <1>4, ArchDecode DEF Arch!Illegal
<1> QED
  BY <1>1, <1>2, <1>3, <1>5 DEF Arch!Executes

-----------------------------------------------------------------------------
(* Pops. *)

\* In MEM a pop is no longer in EX and not yet executed.
LEMMA PopInMEM ==
  ASSUME Edge, exmem.sl = "SSPOPCHK"
  PROVE  UNCHANGED Arch!vars
<1>1. /\ csr' = csr /\ ~exception_valid /\ ~xret_EX /\ ~csr.elp
      /\ ~idex.valid /\ memwb'.sl = "SSPOPCHK" /\ exmem'.sl # "SSPOPCHK"
  BY EdgeFacts, QuietPop, PopMoves DEF CInv, PopCheckEnabled, shadow_mem_active_EX
<1>2. ~exmem'.rf_we /\ ~exmem'.dram_we /\ ~MulInEX
  BY <1>1, EdgeFacts, EXMEMNext, ZeroInert DEF BubblesInert, MulInEX
<1>3. rf_abs' = rf_abs /\ dram_abs' = dram_abs
  BY <1>2, EdgeFacts, RfKept, MemoryAhead
<1>4. csr_abs' = csr_abs
  BY <1>1, EdgeFacts, CsrAbs, CsrAbsNext
<1>5. pc_abs' = pc_abs
  <2>1. memwb'.pc = exmem.pc
    <3>1. ~sspopchk_fault_WB
      BY EdgeFacts, PopMoves DEF sspopchk_fault_WB
    <3> QED
      BY <3>1, EdgeFacts DEF BackEnd, StepMEMWB
  <2> QED
    BY <1>1, <2>1, EdgeFacts, PcAbs, PcAbsNext
<1> QED
  BY <1>3, <1>4, <1>5, EdgeFacts DEF Arch!vars

\* In WB it is decided.
LEMMA PopInWB ==
  ASSUME Edge, memwb.sl = "SSPOPCHK"
  PROVE  Arch!ShadowPopCheck
<1>1. /\ sspopchk_WB /\ ~idex.valid /\ ~exmem.valid /\ exmem.sl = "NOP" /\ ~paid
      /\ ~csr.elp /\ shadow_stack_enabled(csr) /\ pc_abs = memwb.pc
  BY EdgeFacts, PopMoves, PcAbs DEF CInv, PopCheckEnabled
<1>2. /\ PopUnderWay(memwb) /\ spo = dram_abs[IndexOf(ssp_value)]
  BY DEF Edge, RefinementInv, PopsUnderWay
<1>3. csr_abs = csr /\ ~paid'
  BY <1>1, EdgeFacts, CsrAbs
<1>4. Arch!Executes({"SSPOPCHK"}) /\ Arch!src1 = memwb.wd /\ Arch!ssp = ssp_value
  <2> DEFINE i == rom[IndexOf(pc_abs)]
  <2>1. i.op = "SSPOPCHK" /\ ~Faults_abs("fetch", pc_abs) /\ memwb.wd = X_abs(i.rs1)
    BY <1>1, <1>2 DEF PopUnderWay
  <2>2. ~is_illegal_instr(i) /\ MayRun(i, csr)
    BY <2>1 DEF is_illegal_instr, MayRun, CsrOps, CsrRegOps, CsrImmOps
  <2>3. Arch!Executes({"SSPOPCHK"})
    BY <1>1, <2>1, <2>2, EdgeFacts, MayExecute
  <2> QED
    BY <2>1, <2>3, EdgeFacts, ArchNow
<1>5. Arch!shadow_stack_enabled(csr_abs)
  BY <1>1, <1>3, ArchGuards
<1>6. ~Arch!Faults("load", Arch!ssp) /\ Arch!ssp % 4 = 0
  BY <1>2, <1>4, EdgeFacts, ArchNow DEF PopUnderWay
<1>7. dram_abs[Arch!Slot(Arch!ssp)] = spo
  BY <1>2, <1>4, ArchNumbers
<1>8. /\ ~exmem'.rf_we /\ ~exmem'.dram_we /\ ~MulInEX
      /\ exmem'.sl # "SSPOPCHK" /\ memwb'.sl # "SSPOPCHK"
  BY <1>1, EdgeFacts, EXMEMNext, ZeroInert, PopMoves
     DEF BubblesInert, MulInEX, shadow_mem_active_EX
<1>9. CASE spo # memwb.wd
  <2>1. exception_valid /\ exception = Exc(pc_abs, 18, 3)
    BY <1>1, <1>9 DEF exception_valid, exception, sspopchk_fault_WB, load_data_WB
  <2>2. Arch!Take(18, 3)
    BY <1>1, <1>8, <2>1, TakesTrap
  <2> QED
    BY <1>4, <1>5, <1>6, <1>7, <1>9, <2>2 DEF Arch!ShadowPopCheck
<1>10. CASE spo = memwb.wd
  <2>1. sspopchk_success_WB /\ ~sspopchk_fault_WB /\ older_pipeline_active
    BY <1>1, <1>10, EdgeFacts
       DEF sspopchk_success_WB, sspopchk_fault_WB, load_data_WB, older_pipeline_active,
           sspopchk_WB
  <2>2. ~exception_valid /\ ~xret_EX /\ ~normal_control_mispredict_EX
    BY <1>1, <2>1
       DEF exception_valid, exception_valid_EX, xret_EX, normal_control_mispredict_EX,
           instr_fault_effective_ID, software_check_effective_ID,
           illegal_instr_effective_ID, id_exception_ready
  <2>3. ssp_update.valid /\ ssp_update.data = Wrap(ssp_value + 4)
    BY <1>1, <2>1 DEF ssp_update, sspush_EX, shadow_mem_active_EX
  <2>4. csr' = SetReg(csr, "ssp", Bits(Wrap(ssp_value + 4)))
    BY <2>2, <2>3, EdgeFacts, ExceptionPort DEF CsrNext, xret
  <2>5. csr_abs' = [csr_abs EXCEPT !.reg["ssp"] = Bits(Wrap(ssp_value + 4))]
    <3>1. csr_abs' = csr'
      BY <1>3, EdgeFacts, CsrAbsNext
    <3> QED
      BY <1>3, <2>4, <3>1, EdgeFacts DEF SetReg, CsrState
  <2>6. pc_abs' = Wrap(pc_abs + 4)
    <3>1. fetch_pc = Wrap(memwb.pc + 4) /\ ~take_branch_NextPC
      BY <1>2, <2>2 DEF PopUnderWay, take_branch_NextPC
    <3> QED
      BY <1>1, <1>8, <3>1, EdgeFacts, PcAbsNext
  <2>7. rf_abs' = rf_abs /\ dram_abs' = dram_abs /\ rom' = rom
    BY <1>8, EdgeFacts, RfKept, MemoryAhead
  <2> QED
    BY <1>4, <1>5, <1>6, <1>7, <1>10, <2>5, <2>6, <2>7, ArchNumbers
       DEF Arch!ShadowPopCheck, Arch!NextInstr, Arch!Goto
<1> QED
  BY <1>9, <1>10

-----------------------------------------------------------------------------
(* EX is empty: the instruction in ID traps, or nothing is executed. *)

NoPop == exmem.sl # "SSPOPCHK" /\ memwb.sl # "SSPOPCHK"

LEMMA EmptyEX ==
  ASSUME Edge, ~idex.valid, NoPop
  PROVE  /\ idex.instr = Zero /\ opEX = "ZERO" /\ ~MulInEX /\ ~shadow_mem_active_EX
         /\ ~exmem'.rf_we /\ ~exmem'.dram_we
         /\ exmem'.sl # "SSPOPCHK" /\ memwb'.sl # "SSPOPCHK"
         /\ ~redirect_from_ex_stage /\ ~exception_valid_EX /\ ~xret_EX
         /\ ~sspopchk_WB /\ ~paid /\ csr_abs = csr /\ pc_abs = fetch_pc
<1>1. idex.instr = Zero /\ ~paid
  BY EdgeFacts DEF BubblesInert
<1>2. ~exmem'.rf_we /\ ~exmem'.dram_we
  BY <1>1, EdgeFacts, EXMEMNext, ZeroInert
<1>3. ~shadow_mem_active_EX /\ ~exception_valid_EX /\ ~xret_EX /\ ~MulInEX
  BY DEF shadow_mem_active_EX, exception_valid_EX, xret_EX, MulInEX
<1>4. ~redirect_from_ex_stage
  BY RedirectFromEX
<1>5. exmem'.sl # "SSPOPCHK" /\ memwb'.sl # "SSPOPCHK" /\ ~sspopchk_WB
  BY <1>3, EdgeFacts, PopMoves DEF NoPop
<1>6. pc_abs = fetch_pc
  BY EdgeFacts, PcAbs DEF NoPop, front_pc
<1>7. csr_abs = csr
  BY <1>1, EdgeFacts, CsrAbs
<1> QED
  BY <1>1, <1>2, <1>3, <1>4, <1>5, <1>6, <1>7, ZeroInert DEF opEX

\* Decode and the abstract machine agree on what is illegal.
LEMMA IllegalAgrees ==
  ASSUME csr \in CsrState, ifid.instr = rom[IndexOf(pc_abs)]
  PROVE  Arch!Illegal <=> is_illegal_instr(ifid.instr) \/ privileged_illegal_instr_ID
<1> DEFINE i == ifid.instr
<1>1. Arch!Instr = i /\ Arch!op = i.op
  BY ArchNow
<1>2. csr_abs.priv = csr.priv /\ csr_abs.reg = csr.reg
  BY CsrAbs
<1>3. Arch!shadow_stack_enabled(csr_abs) = shadow_stack_enabled(csr)
  BY <1>2, ArchGuards DEF shadow_stack_enabled
<1>4. /\ Arch!csr_write_intent(i) = csr_write_intent(i) /\ Arch!CsrOps = CsrOps
      /\ Arch!is_illegal_instr(i) = is_illegal_instr(i)
  BY ArchDecode
<1>5. /\ Arch!CsrName = CsrName /\ Arch!CsrPriv(i.csr) = CsrPriv(i.csr)
      /\ Arch!CsrReadOnly(i.csr) = CsrReadOnly(i.csr)
      /\ Arch!PrvM = PrvM /\ Arch!PrvS = PrvS /\ Arch!PrvU = PrvU
      /\ Arch!TVM = TVM /\ Arch!TSR = TSR
  BY ArchNames, ArchGuards, ArchBits
<1> HIDE DEF i
<1>6. Arch!NoPrivilege <=>
        \/ /\ i.op \in CsrOps
           /\ \/ i.csr \notin CsrName
              \/ csr.priv < CsrPriv(i.csr)
              \/ CsrReadOnly(i.csr) /\ csr_write_intent(i)
              \/ i.csr = "ssp" /\ csr.priv # PrvM /\ ~shadow_stack_enabled(csr)
              \/ i.csr = "satp" /\ csr.priv = PrvS /\ TVM \in csr.reg["mstatus"]
        \/ i.op = "MRET" /\ csr.priv # PrvM
        \/ i.op = "SRET" /\ csr.priv = PrvU
        \/ i.op = "SRET" /\ csr.priv = PrvS /\ TSR \in csr.reg["mstatus"]
  BY <1>1, <1>2, <1>3, <1>4, <1>5 DEF Arch!NoPrivilege
<1>7. Arch!NoPrivilege <=>
        \/ csr_illegal(i)
        \/ i.op = "MRET" /\ csr.priv # PrvM
        \/ i.op = "SRET" /\ (csr.priv = PrvU \/ (csr.priv = PrvS /\ TSR \in csr.reg["mstatus"]))
  BY <1>6 DEF csr_illegal, current_sse_enabled
<1>8. Arch!NoPrivilege <=> privileged_illegal_instr_ID
  BY <1>7 DEF privileged_illegal_instr_ID, i
<1> QED
  BY <1>1, <1>4, <1>8 DEF Arch!Illegal, i

\* ... and on whether the landing pad is missing.
LEMMA PadAgrees ==
  ASSUME Edge, ~idex.valid, NoPop, ~mul_busy, ifid.valid
  PROVE  Arch!PadMissing <=> csr.elp /\ current_lpe_enabled(csr) /\ ~lpad_pass_ID
<1>1. ifid.instr = rom[IndexOf(pc_abs)] /\ pc_abs = ifid.pc /\ csr_abs = csr
  BY EdgeFacts, EmptyEX DEF ProgramOrder, fetch_pc
<1>2. Arch!Instr = ifid.instr /\ Arch!op = ifid.instr.op /\ Arch!X(7) = X_abs(7)
  BY <1>1, EdgeFacts, ArchNow
<1>3. csr.elp => x7_effective_ID = X_abs(7)
  BY EdgeFacts, LabelRight DEF Edge, RefinementInv, PadPaid
<1>4. ifid.pc % 4 = 0
  BY DEF Edge, RefinementInv, AddressesAligned, fetch_pc
<1>5. csr.elp => (lpad_pass_ID <=> Arch!op = "LPAD" /\ Arch!LabelMatches)
  BY <1>2, <1>3, <1>4 DEF lpad_pass_ID, LabelOf, Arch!LabelMatches
<1>6. Arch!current_lpe_enabled(csr_abs) = current_lpe_enabled(csr)
  BY <1>1, ArchGuards
<1> QED
  BY <1>1, <1>5, <1>6 DEF Arch!PadMissing

LEMMA TrapInID ==
  ASSUME Edge, ~idex.valid, NoPop, exception_valid
  PROVE  Arch!FetchFault \/ Arch!LandingPadFault \/ Arch!IllegalInstruction
<1>1. ~exception_valid_EX /\ ~sspopchk_fault_WB
  BY EmptyEX DEF sspopchk_fault_WB
<1>2. /\ id_exception_ready /\ exception = exception_ID
      /\ \/ instr_fault_effective_ID
         \/ software_check_effective_ID
         \/ illegal_instr_effective_ID
  BY <1>1 DEF exception_valid, exception, instr_fault_effective_ID,
              software_check_effective_ID, illegal_instr_effective_ID
<1>3. ~mul_busy /\ ifid.valid
  BY <1>2 DEF id_exception_ready, older_pipeline_active, id_exception_candidate_ID,
              instr_access_fault_exception_ID, software_check_exception_ID,
              illegal_instr_exception_ID
<1>4. pc_abs = ifid.pc /\ ifid.instr = rom[IndexOf(pc_abs)]
  BY <1>3, EdgeFacts, EmptyEX DEF ProgramOrder, fetch_pc
<1>5. Arch!FetchFaults <=> ifid.fault
  BY <1>3, <1>4, EdgeFacts, ArchNow
     DEF Arch!FetchFaults, Faults_abs, VerdictsCurrent, fetch_fault
<1>6. Arch!PadMissing <=> csr.elp /\ current_lpe_enabled(csr) /\ ~lpad_pass_ID
  BY <1>3, PadAgrees
<1>7. Arch!Illegal <=> is_illegal_instr(ifid.instr) \/ privileged_illegal_instr_ID
  BY <1>4, EdgeFacts, IllegalAgrees
<1>8. \A cause, tval : exception = Exc(pc_abs, cause, tval) => Arch!Take(cause, tval)
  BY EmptyEX, TakesTrap
<1>9. CASE instr_fault_effective_ID
  <2>1. exception = Exc(pc_abs, 1, pc_abs) /\ ifid.fault
    BY <1>2, <1>4, <1>9
       DEF exception_ID, instr_fault_effective_ID, instr_access_fault_exception_ID
  <2> QED
    BY <1>5, <1>8, <2>1 DEF Arch!FetchFault
<1>10. CASE ~instr_fault_effective_ID /\ software_check_effective_ID
  <2>1. exception = Exc(pc_abs, 18, 2)
    BY <1>2, <1>4, <1>10 DEF exception_ID
  <2>2. ~ifid.fault /\ Arch!PadMissing
    BY <1>6, <1>10 DEF software_check_effective_ID, software_check_exception_ID
  <2> QED
    BY <1>5, <1>8, <2>1, <2>2 DEF Arch!LandingPadFault
<1>11. CASE ~instr_fault_effective_ID /\ ~software_check_effective_ID
  <2>1. exception = Exc(pc_abs, 2, ifid.instr.enc)
    BY <1>2, <1>4, <1>11 DEF exception_ID
  <2>2. ~ifid.fault /\ Arch!Illegal /\ ~Arch!PadMissing
    BY <1>2, <1>3, <1>6, <1>7, <1>11
       DEF illegal_instr_effective_ID, illegal_instr_exception_ID, software_check_exception_ID
  <2>3. Arch!Instr.enc = ifid.instr.enc
    BY <1>4, EdgeFacts, ArchNow
  <2> QED
    BY <1>5, <1>8, <2>1, <2>2, <2>3 DEF Arch!IllegalInstruction
<1> QED
  BY <1>9, <1>10, <1>11

\* A landing pad that has cleared ELP has left ID.
LEMMA PadLeaves ==
  ASSUME Next, lpad_pass_ID, ifid.valid, ~flushes_id_exception_ID, ~take_branch_NextPC
  PROVE  idex'.valid
<1>1. /\ ifid.instr.op = "LPAD" /\ ~id_exception_wait /\ ~mul_busy /\ opEX # "MUL"
      /\ ~shadow_serialize
  BY DEF lpad_pass_ID, flushes_id_exception_ID, mul_commit_serialize_active
<1>2. ~rs1_used(ifid.instr) /\ ~rs2_used(ifid.instr)
  BY <1>1 DEF rs1_used, rs2_used, BranchOps
<1>3. mul_in_flight = {}
  BY <1>1 DEF mul_in_flight, mul_busy
<1>4. ~hazard
  BY <1>1, <1>2, <1>3
     DEF hazard, any_hazard, load_use_hazard, RAW, mul_use_hazard, mul_struct_hazard,
         mul_waw_hazard, mul_commit_serialize_hazard
<1>5. idex' = Issued(TRUE) \/ idex' = Issued(FALSE)
  BY <1>1, <1>4, FrontEnd DEF keep_PC
<1> QED
  BY <1>5 DEF Issued

LEMMA WaitInID ==
  ASSUME Edge, ~idex.valid, NoPop, ~exception_valid
  PROVE  UNCHANGED Arch!vars
<1>1. ~take_branch_NextPC
  BY EmptyEX DEF take_branch_NextPC, normal_control_mispredict_EX
<1>2. pc_abs' = pc_abs
  BY <1>1, EmptyEX, EdgeFacts, PcAbsNext
<1>3. rf_abs' = rf_abs /\ dram_abs' = dram_abs
  BY EmptyEX, EdgeFacts, RfKept, MemoryAhead
<1>4. csr' = IF elp_update.valid THEN [reg |-> csr.reg, priv |-> csr.priv, elp |-> FALSE]
             ELSE csr
  <2>1. ~exception.valid /\ xret = "none"
    BY EmptyEX, ExceptionPort DEF xret
  <2>2. ~ssp_update.valid
    BY EmptyEX DEF ssp_update, sspush_EX, sspopchk_success_WB
  <2>3. ~csr_write.valid /\ elp_update.expected = FALSE
    BY DEF csr_write, elp_update, elp_set_EX
  <2> QED
    BY <2>1, <2>2, <2>3, EdgeFacts DEF CsrNext
<1>5. csr_abs' = csr_abs
  <2>1. CASE ~csr.elp
    <3>1. csr' = csr /\ ~paid'
      BY <1>4, <2>1, EdgeFacts DEF CsrState
    <3> QED
      BY <3>1, EdgeFacts, EmptyEX, CsrAbsNext
  <2>2. CASE csr.elp
    <3>1. elp_update.valid <=> lpad_pass_ID /\ ifid.valid /\ ~flushes_id_exception_ID
      BY DEF elp_update, elp_set_EX
    <3>2. elp_update.valid => idex'.valid
      BY <1>1, <3>1, EdgeFacts, PadLeaves
    <3>3. idex'.valid => elp_update.valid
      BY <2>2, EdgeFacts, IssueFacts, IssuedPadAnswers
    <3>4. elp_update.valid => ifid.instr.op = "LPAD"
      BY <3>1 DEF lpad_pass_ID
    <3>5. CASE elp_update.valid
      <4>1. csr'.elp = FALSE /\ csr'.reg = csr.reg /\ csr'.priv = csr.priv
        BY <1>4, <3>5
      <4>2. paid'
        BY <2>2, <3>2, <3>4, <3>5, EdgeFacts
      <4>3. csr_abs' = [reg |-> csr.reg, priv |-> csr.priv, elp |-> TRUE]
        BY <4>1, <4>2, EdgeFacts, CsrAbsNext
      <4>4. csr = [reg |-> csr.reg, priv |-> csr.priv, elp |-> TRUE]
        BY <2>2, EdgeFacts DEF CsrState
      <4> QED
        BY <4>3, <4>4, EmptyEX
    <3>6. CASE ~elp_update.valid
      <4>1. csr' = csr /\ ~paid'
        BY <1>4, <3>3, <3>6, EdgeFacts
      <4> QED
        BY <4>1, EdgeFacts, EmptyEX, CsrAbsNext
    <3> QED
      BY <3>5, <3>6
  <2> QED
    BY <2>1, <2>2
<1> QED
  BY <1>2, <1>3, <1>5, EdgeFacts DEF Arch!vars

-----------------------------------------------------------------------------
(* EX is not empty. *)

LEMMA InEX ==
  ASSUME Edge, idex.valid
  PROVE  /\ NoPop /\ pc_abs = idex.pc /\ memwb'.sl # "SSPOPCHK" /\ ~sspopchk_WB
         /\ ~csr.elp /\ csr_abs' = csr' /\ (opEX # "LPAD" => ~paid /\ csr_abs = csr)
         /\ exception_valid <=> exception_valid_EX
         /\ exception_valid_EX => exception = exception_EX
         /\ rom[IndexOf(pc_abs)] = idex.instr /\ Arch!Instr = idex.instr /\ Arch!op = opEX
         /\ Arch!src1 = X_abs(idex.instr.rs1) /\ Arch!src2 = X_abs(idex.instr.rs2)
         /\ rs1_used(idex.instr) => Arch!src1 = idex.rd1
         /\ rs2_used(idex.instr) => Arch!src2 = idex.rd2
         /\ \A ops : opEX \in ops => Arch!Executes(ops)
<1>1. NoPop /\ ~sspopchk_WB /\ memwb'.sl # "SSPOPCHK"
  BY EdgeFacts, PopMoves DEF NoPop
<1>2. pc_abs = idex.pc
  BY <1>1, EdgeFacts, PcAbs DEF NoPop, front_pc
<1>3. ~csr.elp /\ ~paid'
  BY EdgeFacts DEF IInv, NothingRunsBeforeThePad
<1>4. csr_abs' = csr' /\ (opEX # "LPAD" => ~paid /\ csr_abs = csr)
  BY <1>3, EdgeFacts, CsrAbs, CsrAbsNext
<1>5. ~id_exception_ready /\ ~sspopchk_fault_WB
  BY <1>1 DEF id_exception_ready, older_pipeline_active, sspopchk_fault_WB
<1>6. /\ exception_valid <=> exception_valid_EX
      /\ exception_valid_EX => exception = exception_EX
  BY <1>5 DEF exception_valid, exception, instr_fault_effective_ID,
              software_check_effective_ID, illegal_instr_effective_ID
<1>7. rom[IndexOf(pc_abs)] = idex.instr /\ Arch!Instr = idex.instr /\ Arch!op = opEX
  BY <1>2, EdgeFacts, ArchNow DEF ProgramOrder, opEX
<1>8. Arch!src1 = X_abs(idex.instr.rs1) /\ Arch!src2 = X_abs(idex.instr.rs2)
  BY <1>7, EdgeFacts, ArchNow
<1>9. /\ rs1_used(idex.instr) => Arch!src1 = idex.rd1
      /\ rs2_used(idex.instr) => Arch!src2 = idex.rd2
  BY <1>8 DEF Edge, RefinementInv, OperandsForwarded
<1>10. ASSUME NEW ops, opEX \in ops PROVE Arch!Executes(ops)
  <2>1. ~Faults_abs("fetch", pc_abs)
    BY <1>2, EdgeFacts DEF VerdictsCurrent, fetch_fault, Faults_abs
  <2>2. ~is_illegal_instr(idex.instr) /\ MayRun(idex.instr, csr)
    BY EdgeFacts DEF Edge, RefinementInv, LegalInEX, CInv, ExMayRun
  <2>3. csr.elp \/ paid => idex.instr.op = "LPAD" /\ idex.instr.imm \in {0, LabelOf(X_abs(7))}
    BY <1>3 DEF Edge, RefinementInv, PadPaid, opEX
  <2> QED
    BY <1>7, <1>10, <2>1, <2>2, <2>3, EdgeFacts, MayExecute DEF opEX
<1> QED
  BY <1>1, <1>2, <1>3, <1>4, <1>6, <1>7, <1>8, <1>9, <1>10

-----------------------------------------------------------------------------
(* Traps in EX. *)

LEMMA TakesTrapInEX ==
  ASSUME Edge, idex.valid, exception_valid_EX, opEX # "LPAD",
         NEW cause, NEW tval, exception_EX = Exc(idex.pc, cause, tval)
  PROVE  Arch!Take(cause, tval)
<1>1. exmem' = EXMEMBubble
  BY EdgeFacts DEF BackEnd, StepEXMEM
<1>2. ~MulInEX
  BY EdgeFacts, MulQuiet DEF redirect_from_ex_stage
<1> QED
  BY <1>1, <1>2, BubbleFacts, InEX, TakesTrap

\* The kind of access of an instruction in EX.
LEMMA AccessInEX ==
  ASSUME idex.valid
  PROVE  /\ opEX \in MemOps => sl_type_effective_EX = opEX /\ ~shadow_mem_active_EX
         /\ shadow_mem_active_EX => sl_type_effective_EX = opEX
         /\ opEX \notin MemOps /\ ~shadow_mem_active_EX => sl_type_effective_EX = "NOP"
  BY DEF sl_type_effective_EX, sl_type, opEX, MemOps, shadow_mem_active_EX

LEMMA TrapKinds ==
  ASSUME idex.valid, exception_valid_EX
  PROVE  \/ opEX \in BranchOps \cup JumpOps
         \/ opEX \in MemOps
         \/ shadow_mem_active_EX
         \/ opEX = "ECALL"
<1>1. instr_misaligned_EX => opEX \in BranchOps \cup JumpOps
  BY DEF instr_misaligned_EX, take_branch_normal, BranchOps, JumpOps
<1>2. sl_type_effective_EX # "NOP" => opEX \in MemOps \/ shadow_mem_active_EX
  BY AccessInEX
<1> QED
  BY <1>1, <1>2 DEF exception_valid_EX, load_misaligned_EX, store_misaligned_EX,
                    load_access_fault_EX, store_access_fault_EX, shadow_access_fault_EX

\* Only jumps and branches are misaligned in their target.
LEMMA NoMisalignedTarget ==
  ASSUME opEX \notin BranchOps \cup JumpOps
  PROVE  ~instr_misaligned_EX /\ ~take_branch_normal
  BY DEF instr_misaligned_EX, take_branch_normal, BranchOps, JumpOps

LEMMA AlignedInEX ==
  ASSUME Edge, idex.valid
  PROVE  take_branch_normal => (instr_misaligned_EX <=> branch_target_normal % 4 # 0)
<1>1. idex.pc % 4 = 0 /\ DInv
  BY EdgeFacts DEF Edge, RefinementInv, AddressesAligned
<1> QED
  BY <1>1, TargetAligned

LEMMA BranchTraps ==
  ASSUME Edge, idex.valid, exception_valid_EX, opEX \in BranchOps
  PROVE  Arch!Branch
<1>1. instr_misaligned_EX
  <2>1. sl_type_effective_EX = "NOP" /\ ~shadow_mem_active_EX /\ opEX # "ECALL"
    BY AccessInEX DEF BranchOps, MemOps, shadow_mem_active_EX
  <2> QED
    BY <2>1 DEF exception_valid_EX, load_misaligned_EX, store_misaligned_EX,
                load_access_fault_EX, store_access_fault_EX, shadow_access_fault_EX
<1>2. take_branch_normal
  BY <1>1 DEF instr_misaligned_EX, BranchOps
<1>3. Arch!Take(0, branch_target_EX) /\ branch_target_EX % 4 # 0
  <2>1. branch_target_normal = branch_target_EX /\ opEX # "LPAD"
    BY DEF branch_target_normal, BranchOps
  <2>2. exception_EX = Exc(idex.pc, 0, branch_target_EX)
    BY <1>1, <2>1 DEF exception_EX
  <2> QED
    BY <1>1, <1>2, <2>1, <2>2, TakesTrapInEX, AlignedInEX
<1>4. Arch!Executes(Arch!BranchOps)
  BY InEX, ArchDecode
<1>5. Arch!Wrap(pc_abs + Arch!Instr.imm) = branch_target_EX
  BY InEX, ArchNumbers DEF branch_target_EX
<1>6. (Arch!op = "BEQ") = (Arch!src1 = Arch!src2)
  <2>1. rs1_used(idex.instr) /\ rs2_used(idex.instr)
    BY DEF rs1_used, rs2_used, opEX, BranchOps, CsrImmOps, SystemOps
  <2>2. Arch!op = opEX /\ Arch!src1 = idex.rd1 /\ Arch!src2 = idex.rd2
    BY <2>1, InEX
  <2> QED
    BY <1>2, <2>2 DEF take_branch_normal, BranchOps, JumpOps
<1> QED
  BY <1>3, <1>4, <1>5, <1>6 DEF Arch!Branch

\* The target of a jump, in the words of the abstract machine.
LEMMA JumpTarget ==
  ASSUME Edge, idex.valid, opEX \in JumpOps
  PROVE  LET sum == Arch!Wrap(IF Arch!op = "JALR" THEN Arch!src1 + Arch!Instr.imm
                              ELSE pc_abs + Arch!Instr.imm)
         IN  (IF Arch!op = "JALR" THEN sum - (sum % 2) ELSE sum) = branch_target_normal
<1>1. CASE opEX = "JALR"
  <2>1. rs1_used(idex.instr)
    BY <1>1 DEF rs1_used, opEX, CsrImmOps, SystemOps
  <2>2. alu_result_EX = Wrap(idex.rd1 + idex.instr.imm)
    BY <1>1 DEF alu_result_EX
  <2> QED
    BY <1>1, <2>1, <2>2, InEX, ArchNumbers DEF branch_target_normal
<1>2. CASE opEX # "JALR"
  BY <1>2, InEX, ArchNumbers DEF branch_target_normal, branch_target_EX
<1> QED
  BY <1>1, <1>2

LEMMA JumpTraps ==
  ASSUME Edge, idex.valid, exception_valid_EX, opEX \in JumpOps
  PROVE  Arch!Jump
<1>1. instr_misaligned_EX
  <2>1. sl_type_effective_EX = "NOP" /\ ~shadow_mem_active_EX /\ opEX # "ECALL"
    BY AccessInEX DEF JumpOps, MemOps, shadow_mem_active_EX
  <2> QED
    BY <2>1 DEF exception_valid_EX, load_misaligned_EX, store_misaligned_EX,
                load_access_fault_EX, store_access_fault_EX, shadow_access_fault_EX
<1>2. take_branch_normal /\ opEX # "LPAD"
  BY DEF take_branch_normal, JumpOps
<1>3. exception_EX = Exc(idex.pc, 0, branch_target_normal)
  BY <1>1 DEF exception_EX
<1>4. Arch!Take(0, branch_target_normal) /\ branch_target_normal % 4 # 0
  BY <1>1, <1>2, <1>3, TakesTrapInEX, AlignedInEX
<1>5. Arch!Executes(Arch!JumpOps)
  BY InEX, ArchDecode
<1> QED
  BY <1>4, <1>5, JumpTarget DEF Arch!Jump

LEMMA LoadTraps ==
  ASSUME Edge, idex.valid, exception_valid_EX, opEX = "LW"
  PROVE  Arch!Load
<1>1. /\ sl_type_effective_EX = "LW" /\ ~shadow_mem_active_EX /\ ~instr_misaligned_EX
      /\ rs1_used(idex.instr)
  BY AccessInEX, NoMisalignedTarget
     DEF MemOps, BranchOps, JumpOps, rs1_used, opEX, CsrImmOps, SystemOps
<1>2. Arch!Wrap(Arch!src1 + Arch!Instr.imm) = alu_result_EX /\ mem_addr_EX = alu_result_EX
  BY <1>1, InEX, ArchNumbers DEF alu_result_EX, mem_addr_EX
<1>3. /\ load_misaligned_EX <=> alu_result_EX % 4 # 0
      /\ load_access_fault_EX <=> Arch!Faults("load", alu_result_EX)
      /\ load_misaligned_EX \/ load_access_fault_EX
      /\ ~store_misaligned_EX
  BY <1>1, <1>2, EdgeFacts, ArchNow
     DEF load_misaligned_EX, load_access_fault_EX, store_misaligned_EX,
         store_access_fault_EX, shadow_access_fault_EX, exception_valid_EX,
         data_fault_EX, Faults_abs
<1>4. Arch!Executes({"LW"})
  BY InEX
<1>5. CASE load_misaligned_EX
  <2>1. exception_EX = Exc(idex.pc, 4, alu_result_EX)
    BY <1>1, <1>5 DEF exception_EX
  <2>2. Arch!Take(4, alu_result_EX)
    BY <2>1, TakesTrapInEX
  <2> QED
    BY <1>2, <1>3, <1>4, <1>5, <2>2 DEF Arch!Load
<1>6. CASE ~load_misaligned_EX
  <2>1. exception_EX = Exc(idex.pc, 5, alu_result_EX)
    BY <1>1, <1>2, <1>3, <1>6 DEF exception_EX
  <2>2. Arch!Take(5, alu_result_EX)
    BY <2>1, TakesTrapInEX
  <2> QED
    BY <1>2, <1>3, <1>4, <1>6, <2>2 DEF Arch!Load
<1> QED
  BY <1>5, <1>6

LEMMA StoreTraps ==
  ASSUME Edge, idex.valid, exception_valid_EX, opEX = "SW"
  PROVE  Arch!Store
<1>1. /\ sl_type_effective_EX = "SW" /\ ~shadow_mem_active_EX /\ ~instr_misaligned_EX
      /\ rs1_used(idex.instr)
  BY AccessInEX, NoMisalignedTarget
     DEF MemOps, BranchOps, JumpOps, rs1_used, opEX, CsrImmOps, SystemOps
<1>2. Arch!Wrap(Arch!src1 + Arch!Instr.imm) = alu_result_EX /\ mem_addr_EX = alu_result_EX
  BY <1>1, InEX, ArchNumbers DEF alu_result_EX, mem_addr_EX
<1>3. /\ store_misaligned_EX <=> alu_result_EX % 4 # 0
      /\ store_access_fault_EX <=> Arch!Faults("store", alu_result_EX)
      /\ store_misaligned_EX \/ store_access_fault_EX
      /\ ~load_misaligned_EX /\ ~load_access_fault_EX
  BY <1>1, <1>2, EdgeFacts, ArchNow
     DEF load_misaligned_EX, load_access_fault_EX, store_misaligned_EX,
         store_access_fault_EX, shadow_access_fault_EX, exception_valid_EX,
         data_fault_EX, Faults_abs
<1>4. Arch!Executes({"SW"})
  BY InEX
<1>5. CASE store_misaligned_EX
  <2>1. exception_EX = Exc(idex.pc, 6, alu_result_EX)
    BY <1>1, <1>2, <1>3, <1>5 DEF exception_EX
  <2>2. Arch!Take(6, alu_result_EX)
    BY <2>1, TakesTrapInEX
  <2> QED
    BY <1>2, <1>3, <1>4, <1>5, <2>2 DEF Arch!Store
<1>6. CASE ~store_misaligned_EX
  <2>1. exception_EX = Exc(idex.pc, 7, alu_result_EX)
    BY <1>1, <1>2, <1>3, <1>6 DEF exception_EX
  <2>2. Arch!Take(7, alu_result_EX)
    BY <2>1, TakesTrapInEX
  <2> QED
    BY <1>2, <1>3, <1>4, <1>6, <2>2 DEF Arch!Store
<1> QED
  BY <1>5, <1>6

LEMMA CallTraps ==
  ASSUME Edge, idex.valid, opEX = "ECALL"
  PROVE  Arch!EnvironmentCall
<1>1. exception_valid_EX
  BY DEF exception_valid_EX
<1>2. sl_type_effective_EX = "NOP" /\ ~shadow_mem_active_EX /\ ~instr_misaligned_EX
  BY AccessInEX, NoMisalignedTarget DEF MemOps, BranchOps, JumpOps, shadow_mem_active_EX
<1>3. exception_EX = Exc(idex.pc, EcallCause, 0)
  BY <1>2 DEF exception_EX, load_misaligned_EX, store_misaligned_EX,
              load_access_fault_EX, store_access_fault_EX, shadow_access_fault_EX
<1>4. Arch!Take(EcallCause, 0)
  BY <1>1, <1>3, TakesTrapInEX
<1>5. csr_abs.priv = csr.priv
  BY EdgeFacts, CsrAbs
<1>6. EcallCause = CASE csr_abs.priv = Arch!PrvU -> 8 [] csr_abs.priv = Arch!PrvS -> 9
                   [] OTHER -> 11
  BY <1>5, ArchBits DEF EcallCause
<1>7. Arch!Executes({"ECALL"})
  BY InEX
<1> QED
  BY <1>4, <1>6, <1>7 DEF Arch!EnvironmentCall

LEMMA PushTraps ==
  ASSUME Edge, idex.valid, exception_valid_EX, shadow_mem_active_EX, opEX = "SSPUSH"
  PROVE  Arch!ShadowPush
<1>1. sl_type_effective_EX = "SSPUSH" /\ ~instr_misaligned_EX
  BY AccessInEX, NoMisalignedTarget DEF BranchOps, JumpOps
<1>2. /\ Arch!Wrap(Arch!ssp - 4) = shadow_addr_EX /\ mem_addr_EX = shadow_addr_EX
      /\ Arch!shadow_stack_enabled(csr_abs)
  <2>1. csr_abs = csr /\ Arch!ssp = ssp_value
    BY InEX, EdgeFacts, ArchNow
  <2> QED
    BY <2>1, ArchNumbers, ArchGuards
       DEF shadow_addr_EX, mem_addr_EX, shadow_mem_active_EX, current_sse_enabled
<1>3. Arch!Faults("store", shadow_addr_EX) \/ shadow_addr_EX % 4 # 0
  BY <1>1, <1>2, EdgeFacts, ArchNow
     DEF load_misaligned_EX, load_access_fault_EX, store_misaligned_EX,
         store_access_fault_EX, shadow_access_fault_EX, exception_valid_EX,
         data_fault_EX, Faults_abs
<1>4. exception_EX = Exc(idex.pc, 7, shadow_addr_EX)
  BY <1>1, <1>2
     DEF exception_EX, load_misaligned_EX, load_access_fault_EX, store_misaligned_EX,
         store_access_fault_EX, shadow_access_fault_EX, exception_valid_EX
<1>5. Arch!Take(7, shadow_addr_EX) /\ Arch!Executes({"SSPUSH"})
  BY <1>4, TakesTrapInEX, InEX
<1> QED
  BY <1>2, <1>3, <1>5 DEF Arch!ShadowPush

LEMMA PopTraps ==
  ASSUME Edge, idex.valid, exception_valid_EX, shadow_mem_active_EX, opEX = "SSPOPCHK"
  PROVE  Arch!ShadowPopCheck
<1>1. sl_type_effective_EX = "SSPOPCHK" /\ ~instr_misaligned_EX
  BY AccessInEX, NoMisalignedTarget DEF BranchOps, JumpOps
<1>2. /\ Arch!ssp = ssp_value /\ shadow_addr_EX = ssp_value /\ mem_addr_EX = ssp_value
      /\ Arch!shadow_stack_enabled(csr_abs)
  <2>1. csr_abs = csr /\ Arch!ssp = ssp_value
    BY InEX, EdgeFacts, ArchNow
  <2> QED
    BY <2>1, ArchGuards DEF shadow_addr_EX, mem_addr_EX, shadow_mem_active_EX, current_sse_enabled
<1>3. /\ load_access_fault_EX <=> Arch!Faults("load", ssp_value)
      /\ ~load_access_fault_EX => ssp_value % 4 # 0
      /\ ~load_misaligned_EX /\ ~store_misaligned_EX /\ ~store_access_fault_EX
  BY <1>1, <1>2, EdgeFacts, ArchNow
     DEF load_misaligned_EX, load_access_fault_EX, store_misaligned_EX,
         store_access_fault_EX, shadow_access_fault_EX, exception_valid_EX,
         data_fault_EX, Faults_abs
<1>4. Arch!Executes({"SSPOPCHK"})
  BY InEX
<1>5. CASE load_access_fault_EX
  <2>1. exception_EX = Exc(idex.pc, 5, ssp_value)
    BY <1>1, <1>2, <1>3, <1>5 DEF exception_EX
  <2>2. Arch!Take(5, ssp_value)
    BY <2>1, TakesTrapInEX
  <2> QED
    BY <1>2, <1>3, <1>4, <1>5, <2>2 DEF Arch!ShadowPopCheck
<1>6. CASE ~load_access_fault_EX
  <2>1. exception_EX = Exc(idex.pc, 7, ssp_value)
    BY <1>1, <1>2, <1>3, <1>6 DEF exception_EX, shadow_access_fault_EX
  <2>2. Arch!Take(7, ssp_value)
    BY <2>1, TakesTrapInEX
  <2> QED
    BY <1>2, <1>3, <1>4, <1>6, <2>2 DEF Arch!ShadowPopCheck
<1> QED
  BY <1>5, <1>6

-----------------------------------------------------------------------------
(* What leaves EX without a trap. *)

Completes ==
  /\ Edge /\ idex.valid /\ ~exception_valid_EX /\ ~xret_EX
  /\ ~(shadow_mem_active_EX /\ opEX = "SSPOPCHK")

\* A pop that finds no fault goes on to MEM, and is executed there no more than here.
LEMMA PopLeavesEX ==
  ASSUME Edge, idex.valid, ~exception_valid_EX, shadow_mem_active_EX, opEX = "SSPOPCHK"
  PROVE  UNCHANGED Arch!vars
<1>1. exmem'.sl = "SSPOPCHK" /\ csr' = csr
  BY EdgeFacts, PopMoves, QuietPop
<1>2. exmem'.pc = idex.pc /\ ~exmem'.rf_we /\ ~exmem'.dram_we /\ ~MulInEX
  <2>1. ~rf_we(idex.instr) /\ ~MulInEX
    BY EdgeFacts, ShadowStraight
  <2>2. ~dram_we(idex.instr)
    BY DEF dram_we, opEX
  <2>3. ~sspopchk_fault_WB
    BY InEX DEF sspopchk_fault_WB
  <2> QED
    BY <2>1, <2>2, <2>3, EdgeFacts, LeavesEX, EXMEMNext
<1>3. pc_abs' = pc_abs
  BY <1>1, <1>2, InEX, EdgeFacts, PcAbsNext
<1>4. csr_abs' = csr_abs
  BY <1>1, InEX
<1>5. rf_abs' = rf_abs /\ dram_abs' = dram_abs
  BY <1>2, EdgeFacts, RfKept, MemoryAhead
<1> QED
  BY <1>3, <1>4, <1>5, EdgeFacts DEF Arch!vars

LEMMA CompletesFacts ==
  ASSUME Completes
  PROVE  /\ Edge /\ idex.valid /\ ~exception_valid /\ ~exception_valid_EX /\ ~xret_EX
         /\ exmem' = [valid   |-> idex.valid,
                      pc      |-> idex.pc,
                      rf_we   |-> rf_we(idex.instr),
                      rd      |-> idex.instr.rd,
                      wd      |-> rf_wd_EX,
                      load    |-> opEX = "LW",
                      dram_we |-> dram_we(idex.instr),
                      sl      |-> sl_type_effective_EX,
                      addr    |-> IF shadow_mem_active_EX THEN shadow_addr_EX
                                  ELSE alu_result_EX,
                      rd2     |-> idex.rd2]
         /\ exmem'.sl # "SSPOPCHK" /\ rom' = rom
         /\ exmem'.rf_we = rf_we(idex.instr)
         /\ (opEX = "LW" => exmem'.load = TRUE) /\ (opEX # "LW" => exmem'.load = FALSE)
<1>1. Edge /\ idex.valid /\ ~exception_valid_EX /\ ~xret_EX
  BY DEF Completes
<1>2. ~sspopchk_fault_WB /\ ~exception_valid /\ BackEnd /\ IInv
  BY <1>1, InEX, EdgeFacts DEF sspopchk_fault_WB
<1>3. exmem'.sl # "SSPOPCHK"
  BY <1>1, <1>2, PopMoves DEF Completes
<1>4. exmem'.rf_we = rf_we(idex.instr)
  BY <1>1, <1>2, LeavesEX
<1>5. ASSUME opEX # "LW" PROVE exmem'.load = FALSE
  <2>1. (opEX = "LW") = FALSE
    BY <1>5
  <2> QED
    BY <1>1, <1>2, <2>1 DEF BackEnd, StepEXMEM
<1>6. ASSUME opEX = "LW" PROVE exmem'.load = TRUE
  <2>1. (opEX = "LW") = TRUE
    BY <1>6
  <2> QED
    BY <1>1, <1>2, <2>1 DEF BackEnd, StepEXMEM
<1> QED
  BY <1>1, <1>2, <1>3, <1>4, <1>5, <1>6, LeavesEX, EdgeFacts

\* It is followed by the instruction at its target, or the next one.
LEMMA RetirePc ==
  ASSUME Completes
  PROVE  pc_abs' = IF take_branch_normal THEN branch_target_normal ELSE Wrap(idex.pc + 4)
<1>1. Edge /\ idex.valid /\ ~exception_valid /\ ~xret_EX /\ exmem'.sl # "SSPOPCHK"
  BY CompletesFacts
<1>2. pc_abs' = IF take_branch_NextPC THEN pc' ELSE fetch_pc
  BY <1>1, InEX, EdgeFacts, PcAbsNext
<1>3. CASE take_branch_NextPC
  BY <1>1, <1>2, <1>3, EdgeFacts, RedirectTarget
<1>4. CASE ~take_branch_NextPC
  <2>1. ~normal_control_mispredict_EX /\ idex.pred \in BOOLEAN /\ take_branch_normal \in BOOLEAN
    BY <1>4, EdgeFacts, <1>1 DEF take_branch_NextPC, IInv, ControlTypeOK, take_branch_normal
  <2>2. CASE idex.pred
    <3>1. take_branch_normal /\ idex.ptarget = branch_target_normal
      BY <1>1, <2>1, <2>2 DEF normal_control_mispredict_EX
    <3>2. fetch_pc = idex.ptarget
      BY <1>1, <2>2, EdgeFacts DEF ProgramOrder, fetch_pc
    <3> QED
      BY <1>2, <1>4, <3>1, <3>2
  <2>3. CASE ~idex.pred
    <3>1. ~take_branch_normal
      BY <1>1, <2>1, <2>3 DEF normal_control_mispredict_EX
    <3>2. fetch_pc = Wrap(idex.pc + 4)
      BY <1>1, <2>3, EdgeFacts DEF ProgramOrder
    <3> QED
      BY <1>2, <1>4, <3>1, <3>2
  <2> QED
    BY <2>2, <2>3
<1> QED
  BY <1>3, <1>4

LEMMA RetireStraight ==
  ASSUME Completes, opEX \notin BranchOps \cup JumpOps
  PROVE  Arch!NextInstr
<1>1. pc_abs' = Wrap(idex.pc + 4)
  BY RetirePc, NoMisalignedTarget
<1> QED
  BY <1>1, CompletesFacts, InEX, ArchNumbers DEF Arch!NextInstr, Arch!Goto

\* The CSR unit hears of a shadow-stack push, an indirect jump or a write, or of nothing.
LEMMA RetireCsr ==
  ASSUME Completes
  PROVE  /\ csr_abs' = csr'
         /\ csr' = IF sspush_EX THEN SetReg(csr, "ssp", Bits(shadow_addr_EX))
                   ELSE IF elp_set_EX THEN [reg |-> csr.reg, priv |-> csr.priv, elp |-> TRUE]
                   ELSE IF csr_write.valid /\ ~elp_update.valid
                   THEN CsrWrite(csr, csr_write.name,
                                 csr_new_value(csr, csr_write.name, csr_write.op, csr_write.operand))
                   ELSE csr
<1>1. ~exception.valid /\ xret = "none" /\ Edge /\ idex.valid /\ ~exception_valid_EX
  BY CompletesFacts, ExceptionPort DEF xret
<1>2. csr_abs' = csr' /\ ~csr.elp /\ ~sspopchk_WB
  BY <1>1, InEX
<1>3. ssp_update.valid <=> sspush_EX
  <2>1. sspush_EX => ~shadow_access_fault_EX
    BY <1>1 DEF exception_valid_EX
  <2> QED
    BY <1>2, <2>1 DEF ssp_update, sspopchk_success_WB
<1>4. sspush_EX => ssp_update.data = shadow_addr_EX
  BY DEF ssp_update
<1>5. /\ elp_update.expected = elp_set_EX /\ (elp_set_EX => elp_update.valid)
      /\ elp_set_EX \in BOOLEAN
  BY DEF elp_update, elp_set_EX
<1>6. ~elp_set_EX =>
        [reg |-> csr.reg, priv |-> csr.priv, elp |-> elp_update.expected] = csr
  <2>1. csr.elp = FALSE
    BY <1>1, <1>2, EdgeFacts DEF CsrState
  <2>2. csr = [reg |-> csr.reg, priv |-> csr.priv, elp |-> FALSE]
    BY <1>1, <2>1, EdgeFacts DEF CsrState
  <2>3. ~elp_set_EX => elp_update.expected = FALSE
    BY <1>5
  <2> QED
    BY <2>2, <2>3
<1>7. elp_set_EX => elp_update.expected = TRUE
  BY <1>5
<1>8. csr' = IF ssp_update.valid THEN SetReg(csr, "ssp", Bits(ssp_update.data))
             ELSE IF elp_update.valid
             THEN [reg |-> csr.reg, priv |-> csr.priv, elp |-> elp_update.expected]
             ELSE IF csr_write.valid
             THEN CsrWrite(csr, csr_write.name,
                           csr_new_value(csr, csr_write.name, csr_write.op, csr_write.operand))
             ELSE csr
  BY <1>1, EdgeFacts DEF CsrNext
<1>9. CASE sspush_EX
  BY <1>2, <1>3, <1>4, <1>8, <1>9
<1>10. CASE ~sspush_EX /\ elp_set_EX
  BY <1>2, <1>3, <1>5, <1>7, <1>8, <1>10
<1>11. CASE ~sspush_EX /\ ~elp_set_EX
  BY <1>2, <1>3, <1>6, <1>8, <1>11
<1> QED
  BY <1>9, <1>10, <1>11

LEMMA RetireCsrKept ==
  ASSUME Completes, ~csr_write.valid, ~sspush_EX, ~elp_set_EX
  PROVE  csr_abs' = csr
  BY RetireCsr

\* What it writes to its register, if it writes one.
LEMMA RetireRd ==
  ASSUME Completes, rf_we(idex.instr), opEX # "LW"
  PROVE  Arch!SetRd(rf_wd_EX)
<1>1. ~MulInEX
  BY DEF MulInEX, rf_we, opEX, AluOps, JumpOps, CsrOps, CsrRegOps, CsrImmOps
<1>2. rf_we(idex.instr) = TRUE
  BY DEF rf_we
<1>3. exmem'.rd = idex.instr.rd /\ exmem'.wd = rf_wd_EX
  BY CompletesFacts
<1>4. exmem'.load = FALSE
  BY CompletesFacts
<1>5. exmem'.rf_we /\ wd_MEM_done' = rf_wd_EX
  <2>1. exmem'.rf_we = TRUE
    BY <1>2, CompletesFacts
  <2> QED
    BY <1>3, <1>4, <2>1 DEF wd_MEM_done
<1>6. rf_abs' = IF idex.instr.rd \in Regs \ {0}
                THEN [rf_abs EXCEPT ![idex.instr.rd] = rf_wd_EX] ELSE rf_abs
  BY <1>1, <1>3, <1>5, CompletesFacts, RfSet
<1> QED
  BY <1>6, CompletesFacts, InEX DEF Arch!SetRd

LEMMA RetireNoRd ==
  ASSUME Completes, ~rf_we(idex.instr), opEX # "MUL"
  PROVE  rf_abs' = rf_abs
<1>1. ~exmem'.rf_we /\ ~MulInEX /\ Edge
  BY CompletesFacts DEF MulInEX
<1> QED
  BY <1>1, RfKept

LEMMA RetireNoStore ==
  ASSUME Completes, ~dram_we(idex.instr)
  PROVE  dram_abs' = dram_abs
<1>1. ~exmem'.dram_we /\ BackEnd
  BY CompletesFacts, EdgeFacts
<1> QED
  BY <1>1, MemoryAhead

LEMMA RetireStore ==
  ASSUME Completes, dram_we(idex.instr), sl_type_effective_EX \in {"SW", "SSPUSH"}
  PROVE  dram_abs' = [dram_abs EXCEPT ![IndexOf(exmem'.addr)] =
                        IF sl_type_effective_EX = "SSPUSH" THEN rf_wd_EX ELSE idex.rd2]
<1>1. dram_we(idex.instr) = TRUE
  BY DEF dram_we
<1>2. /\ exmem'.dram_we = TRUE /\ exmem'.sl = sl_type_effective_EX
      /\ exmem'.wd = rf_wd_EX /\ exmem'.rd2 = idex.rd2
  BY <1>1, CompletesFacts
<1>3. dram' = dram_abs
  BY CompletesFacts, EdgeFacts, MemoryAhead
<1> QED
  BY <1>2, <1>3 DEF dram_abs, ram_data_next, wstrb_MEM, DRAM_input_data

-----------------------------------------------------------------------------
(* One lemma for each kind of instruction. *)

LEMMA QuietOps ==
  ASSUME Completes, opEX \notin CsrOps \cup {"SSPUSH", "JALR"}
  PROVE  csr_abs' = csr
<1>1. ~csr_write.valid
  BY DEF csr_write, csr_write_intent, opEX
<1>2. ~sspush_EX /\ ~elp_set_EX
  BY DEF sspush_EX, elp_set_EX
<1> QED
  BY <1>1, <1>2, RetireCsrKept

LEMMA Computes ==
  ASSUME Completes, opEX \in AluOps \cup {"MUL", "SSRDP", "FENCE"}
  PROVE  Arch!Compute
<1>1. /\ opEX \notin CsrOps \cup {"SSPUSH", "JALR", "LPAD", "LW"} \cup BranchOps \cup JumpOps
      /\ ~shadow_mem_active_EX
  BY DEF AluOps, CsrOps, CsrRegOps, CsrImmOps, BranchOps, JumpOps, shadow_mem_active_EX
<1>2. Edge /\ idex.valid
  BY CompletesFacts
<1>3. Arch!NextInstr /\ csr_abs' = csr_abs
  BY <1>1, <1>2, RetireStraight, QuietOps, InEX
<1>4. dram_abs' = dram_abs
  <2>1. ~dram_we(idex.instr)
    BY DEF dram_we, opEX, AluOps
  <2> QED
    BY <2>1, RetireNoStore
<1>5. Arch!Executes(Arch!AluOps \cup {"MUL", "SSRDP", "FENCE"}) /\ Arch!op = opEX
  BY <1>2, InEX, ArchDecode
<1>6. CASE opEX = "FENCE"
  <2>1. ~rf_we(idex.instr)
    BY <1>6 DEF rf_we, opEX, AluOps, JumpOps, CsrOps, CsrRegOps, CsrImmOps
  <2>2. rf_abs' = rf_abs
    BY <1>6, <2>1, RetireNoRd
  <2> QED
    BY <1>3, <1>4, <1>5, <1>6, <2>2 DEF Arch!Compute
<1>7. CASE opEX = "MUL"
  <2>1. MulInEX /\ rs1_used(idex.instr) /\ rs2_used(idex.instr)
    BY <1>2, <1>7 DEF MulInEX, rs1_used, rs2_used, opEX, CsrImmOps, SystemOps
  <2>2. rf_abs' = IF idex.instr.rd \in Regs \ {0}
                  THEN [rf_abs EXCEPT ![idex.instr.rd] = product] ELSE rf_abs
    BY <1>2, <2>1, RfSet
  <2>3. product = Arch!Wrap(Arch!src1 * Arch!src2)
    BY <1>2, <2>1, InEX, ArchNumbers DEF product
  <2>4. Arch!SetRd(Arch!Wrap(Arch!src1 * Arch!src2))
    BY <1>2, <2>2, <2>3, InEX DEF Arch!SetRd
  <2> QED
    BY <1>3, <1>4, <1>5, <1>7, <2>4 DEF Arch!Compute
<1>8. CASE opEX \in AluOps \cup {"SSRDP"}
  <2>1. rf_we(idex.instr) /\ opEX # "FENCE" /\ opEX # "LW"
    BY <1>8 DEF rf_we, opEX, AluOps
  <2>2. Arch!SetRd(rf_wd_EX)
    BY <2>1, RetireRd
  <2>3. CASE opEX = "ADD"
    <3>1. rs1_used(idex.instr) /\ rs2_used(idex.instr)
      BY <2>3 DEF rs1_used, rs2_used, opEX, CsrImmOps, SystemOps
    <3>2. rf_wd_EX = Wrap(idex.rd1 + idex.rd2)
      BY <1>1, <2>3
         DEF rf_wd_EX, wd_sel, opEX, alu_result_EX, JumpOps, CsrOps, CsrRegOps, CsrImmOps
    <3>3. rf_wd_EX = Arch!Wrap(Arch!src1 + Arch!src2)
      BY <1>2, <3>1, <3>2, InEX, ArchNumbers
    <3> QED
      BY <1>3, <1>4, <1>5, <2>2, <2>3, <3>3 DEF Arch!Compute
  <2>4. CASE opEX = "ADDI"
    <3>1. rs1_used(idex.instr)
      BY <2>4 DEF rs1_used, opEX, CsrImmOps, SystemOps
    <3>2. rf_wd_EX = Wrap(idex.rd1 + idex.instr.imm)
      BY <1>1, <2>4
         DEF rf_wd_EX, wd_sel, opEX, alu_result_EX, JumpOps, CsrOps, CsrRegOps, CsrImmOps
    <3>3. rf_wd_EX = Arch!Wrap(Arch!src1 + Arch!Instr.imm)
      BY <1>2, <3>1, <3>2, InEX, ArchNumbers
    <3> QED
      BY <1>3, <1>4, <1>5, <2>2, <2>4, <3>3 DEF Arch!Compute
  <2>5. CASE opEX = "LUI"
    <3>1. rf_wd_EX = idex.instr.imm
      BY <1>1, <2>5 DEF rf_wd_EX, wd_sel, opEX, JumpOps, CsrOps, CsrRegOps, CsrImmOps
    <3>2. rf_wd_EX = Arch!Instr.imm
      BY <1>2, <3>1, InEX
    <3> QED
      BY <1>3, <1>4, <1>5, <2>2, <2>5, <3>2 DEF Arch!Compute
  <2>6. CASE opEX = "SSRDP"
    <3>1. rf_wd_EX = IF current_sse_enabled THEN ssp_value ELSE 0
      BY <1>1, <2>6 DEF rf_wd_EX, wd_sel, opEX
    <3>2. rf_wd_EX = IF Arch!shadow_stack_enabled(csr_abs) THEN Arch!ssp ELSE 0
      BY <1>1, <1>2, <3>1, InEX, EdgeFacts, ArchNow, ArchGuards DEF current_sse_enabled
    <3> QED
      BY <1>3, <1>4, <1>5, <2>2, <2>6, <3>2 DEF Arch!Compute
  <2> QED
    BY <1>8, <2>3, <2>4, <2>5, <2>6 DEF AluOps
<1> QED
  BY <1>6, <1>7, <1>8

LEMMA Branches ==
  ASSUME Completes, opEX \in BranchOps
  PROVE  Arch!Branch
<1>1. /\ opEX \notin CsrOps \cup {"SSPUSH", "JALR", "LPAD", "MUL"} /\ ~rf_we(idex.instr)
      /\ ~dram_we(idex.instr) /\ rs1_used(idex.instr) /\ rs2_used(idex.instr)
  BY DEF CsrOps, CsrRegOps, CsrImmOps, BranchOps, JumpOps, AluOps, SystemOps,
         rf_we, dram_we, rs1_used, rs2_used, opEX
<1>2. Edge /\ idex.valid /\ ~exception_valid_EX
  BY CompletesFacts
<1>3. rf_abs' = rf_abs /\ dram_abs' = dram_abs /\ csr_abs' = csr_abs /\ rom' = rom
  BY <1>1, <1>2, RetireNoRd, RetireNoStore, QuietOps, InEX, EdgeFacts
<1>4. take_branch_normal <=> ((Arch!op = "BEQ") = (Arch!src1 = Arch!src2))
  <2>1. Arch!op = opEX /\ Arch!src1 = idex.rd1 /\ Arch!src2 = idex.rd2
    BY <1>1, <1>2, InEX
  <2> QED
    BY <2>1 DEF take_branch_normal, BranchOps, JumpOps
<1>5. /\ branch_target_normal = branch_target_EX
      /\ Arch!Wrap(pc_abs + Arch!Instr.imm) = branch_target_EX
  BY <1>1, <1>2, InEX, ArchNumbers DEF branch_target_EX, branch_target_normal
<1>6. ~(take_branch_normal /\ branch_target_EX % 4 # 0)
  <2>1. ~instr_misaligned_EX
    BY <1>2 DEF exception_valid_EX
  <2> QED
    BY <1>2, <1>5, <2>1, AlignedInEX
<1>7. pc_abs' = IF take_branch_normal THEN branch_target_EX ELSE Arch!Wrap(pc_abs + 4)
  BY <1>2, <1>5, RetirePc, InEX, ArchNumbers
<1>8. Arch!Executes(Arch!BranchOps)
  BY <1>2, InEX, ArchDecode
<1> QED
  BY <1>3, <1>4, <1>5, <1>6, <1>7, <1>8 DEF Arch!Branch, Arch!Goto

LEMMA ElpSet ==
  \A c \in CsrState : \A e : [c EXCEPT !.elp = e] = [reg |-> c.reg, priv |-> c.priv, elp |-> e]
  BY DEF CsrState

LEMMA Jumps ==
  ASSUME Completes, opEX \in JumpOps
  PROVE  Arch!Jump
<1>1. /\ opEX \notin CsrOps \cup {"SSPUSH", "LPAD", "MUL", "LW"} /\ rf_we(idex.instr)
      /\ ~dram_we(idex.instr) /\ ~shadow_mem_active_EX /\ take_branch_normal
  BY DEF CsrOps, CsrRegOps, CsrImmOps, JumpOps, rf_we, dram_we, opEX, shadow_mem_active_EX,
         take_branch_normal
<1>2. Edge /\ idex.valid /\ ~exception_valid_EX
  BY CompletesFacts
<1>3. branch_target_normal % 4 = 0
  <2>1. ~instr_misaligned_EX
    BY <1>2 DEF exception_valid_EX
  <2> QED
    BY <1>1, <1>2, <2>1, AlignedInEX
<1>4. Arch!SetRd(Arch!Wrap(pc_abs + 4))
  <2>1. rf_wd_EX = Wrap(idex.pc + 4)
    BY <1>1 DEF rf_wd_EX, wd_sel, opEX, JumpOps
  <2> QED
    BY <1>1, <1>2, <2>1, RetireRd, InEX, ArchNumbers
<1>5. Arch!Goto(branch_target_normal)
  BY <1>1, <1>2, RetirePc, EdgeFacts DEF Arch!Goto
<1>6. csr_abs' = IF /\ Arch!op = "JALR"
                    /\ Arch!Instr.rs1 \notin {1, 5, 7}
                    /\ Arch!current_lpe_enabled(csr_abs)
                 THEN [csr_abs EXCEPT !.elp = TRUE] ELSE csr_abs
  <2>1. csr_abs = csr /\ Arch!op = opEX /\ Arch!Instr = idex.instr
    BY <1>1, <1>2, InEX
  <2>2. elp_set_EX <=> opEX = "JALR" /\ idex.instr.rs1 \notin {1, 5, 7} /\ current_lpe_enabled(csr)
    BY <1>2 DEF elp_set_EX
  <2>3. ~sspush_EX /\ ~csr_write.valid
    BY <1>1 DEF sspush_EX, csr_write, csr_write_intent, opEX
  <2>4. csr_abs' = IF elp_set_EX THEN [reg |-> csr.reg, priv |-> csr.priv, elp |-> TRUE] ELSE csr
    BY <2>3, RetireCsr
  <2>5. [csr EXCEPT !.elp = TRUE] = [reg |-> csr.reg, priv |-> csr.priv, elp |-> TRUE]
    <3>1. csr \in CsrState
      BY <1>2, EdgeFacts
    <3> QED
      BY <3>1, ElpSet
  <2> QED
    BY <2>1, <2>2, <2>4, <2>5, ArchGuards
<1>7. dram_abs' = dram_abs
  BY <1>1, RetireNoStore
<1>8. Arch!Executes(Arch!JumpOps)
  BY <1>2, InEX, ArchDecode
<1> QED
  BY <1>2, <1>3, <1>4, <1>5, <1>6, <1>7, <1>8, JumpTarget DEF Arch!Jump

LEMMA Loads ==
  ASSUME Completes, opEX = "LW"
  PROVE  Arch!Load
<1>1. /\ rs1_used(idex.instr) /\ rf_we(idex.instr) /\ ~dram_we(idex.instr)
      /\ opEX \notin CsrOps \cup {"SSPUSH", "JALR", "LPAD", "MUL"} \cup BranchOps \cup JumpOps
      /\ ~MulInEX
  BY DEF rs1_used, rf_we, dram_we, opEX, CsrOps, CsrRegOps, CsrImmOps, SystemOps, BranchOps,
         JumpOps, MulInEX
<1>2. Edge /\ idex.valid /\ ~exception_valid_EX
  BY CompletesFacts
<1>3. sl_type_effective_EX = "LW" /\ ~shadow_mem_active_EX
  BY <1>2, AccessInEX DEF MemOps
<1>4. Arch!Wrap(Arch!src1 + Arch!Instr.imm) = alu_result_EX /\ mem_addr_EX = alu_result_EX
  BY <1>1, <1>2, <1>3, InEX, ArchNumbers DEF alu_result_EX, mem_addr_EX
<1>5. alu_result_EX % 4 = 0 /\ ~Arch!Faults("load", alu_result_EX)
  BY <1>2, <1>3, <1>4, EdgeFacts, ArchNow
     DEF exception_valid_EX, load_misaligned_EX, load_access_fault_EX, data_fault_EX, Faults_abs
<1>6. Arch!SetRd(dram_abs[Arch!Slot(alu_result_EX)])
  <2>1. rf_we(idex.instr) = TRUE /\ (opEX = "LW") = TRUE
    BY <1>1 DEF rf_we
  <2>2. exmem'.rd = idex.instr.rd /\ exmem'.addr = alu_result_EX
    BY <1>3, CompletesFacts
  <2>3. exmem'.rf_we = TRUE
    BY <2>1, CompletesFacts
  <2>4. exmem'.load = TRUE
    BY <1>2, <2>1, CompletesFacts
  <2>5. wd_MEM_done' = dram'[IndexOf(exmem'.addr)]
    BY <2>4 DEF wd_MEM_done, IndexOf
  <2>6. wd_MEM_done' = dram_abs[IndexOf(alu_result_EX)]
    BY <1>2, <2>2, <2>5, EdgeFacts, MemoryAhead
  <2>7. rf_abs' = IF idex.instr.rd \in Regs \ {0}
                  THEN [rf_abs EXCEPT ![idex.instr.rd] = dram_abs[IndexOf(alu_result_EX)]]
                  ELSE rf_abs
    BY <1>1, <1>2, <2>2, <2>3, <2>6, RfSet
  <2> QED
    BY <1>2, <2>7, InEX, ArchNumbers DEF Arch!SetRd
<1>7. Arch!NextInstr /\ dram_abs' = dram_abs /\ csr_abs' = csr_abs
  BY <1>1, <1>2, RetireStraight, RetireNoStore, QuietOps, InEX
<1>8. Arch!Executes({"LW"})
  BY <1>2, InEX
<1> QED
  BY <1>4, <1>5, <1>6, <1>7, <1>8 DEF Arch!Load

LEMMA Stores ==
  ASSUME Completes, opEX = "SW"
  PROVE  Arch!Store
<1>1. /\ rs1_used(idex.instr) /\ rs2_used(idex.instr) /\ ~rf_we(idex.instr)
      /\ dram_we(idex.instr)
      /\ opEX \notin CsrOps \cup {"SSPUSH", "JALR", "LPAD", "MUL"} \cup BranchOps \cup JumpOps
  BY DEF rs1_used, rs2_used, rf_we, dram_we, opEX, CsrOps, CsrRegOps, CsrImmOps, SystemOps,
         BranchOps, JumpOps, AluOps
<1>2. Edge /\ idex.valid /\ ~exception_valid_EX
  BY CompletesFacts
<1>3. sl_type_effective_EX = "SW" /\ ~shadow_mem_active_EX
  BY <1>2, AccessInEX DEF MemOps
<1>4. Arch!Wrap(Arch!src1 + Arch!Instr.imm) = alu_result_EX /\ mem_addr_EX = alu_result_EX
  BY <1>1, <1>2, <1>3, InEX, ArchNumbers DEF alu_result_EX, mem_addr_EX
<1>5. alu_result_EX % 4 = 0 /\ ~Arch!Faults("store", alu_result_EX)
  BY <1>2, <1>3, <1>4, EdgeFacts, ArchNow
     DEF exception_valid_EX, store_misaligned_EX, store_access_fault_EX, data_fault_EX, Faults_abs
<1>6. dram_abs' = [dram_abs EXCEPT ![Arch!Slot(alu_result_EX)] = Arch!src2]
  <2>1. exmem'.addr = alu_result_EX /\ Arch!src2 = idex.rd2
    BY <1>1, <1>2, <1>3, CompletesFacts, InEX
  <2> QED
    BY <1>1, <1>3, <2>1, RetireStore, ArchNumbers
<1>7. Arch!NextInstr /\ rf_abs' = rf_abs /\ csr_abs' = csr_abs
  BY <1>1, <1>2, RetireStraight, RetireNoRd, QuietOps, InEX
<1>8. Arch!Executes({"SW"})
  BY <1>2, InEX
<1> QED
  BY <1>4, <1>5, <1>6, <1>7, <1>8 DEF Arch!Store

\* The address of an instruction that may be fetched does not wrap at the memory's size.
LEMMA AlignedIndex ==
  ASSUME Edge, idex.valid
  PROVE  4 * IndexOf(idex.pc) = idex.pc /\ IndexOf(idex.pc) \in WordIndex
<1>1. idex.pc % 4 = 0
  BY DEF Edge, RefinementInv, AddressesAligned
<1>2. idex.pc \in Nat
  BY EdgeFacts, Words, WordFacts
<1>3. idex.pc + 4 - 1 < PmaLimit
  BY EdgeFacts DEF VerdictsCurrent, fetch_fault, access_fault, pma_ok, inside
<1>4. PmaLimit \in Nat \ {0} /\ PmaLimit % 4 = 0
  BY PmaAssumption
<1> DEFINE k == PmaLimit \div 4
           q == idex.pc \div 4
<1>5. k \in Nat \ {0} /\ q \in Nat /\ PmaLimit = 4 * k /\ idex.pc = 4 * q /\ q < k
  BY <1>1, <1>2, <1>3, <1>4
<1> HIDE DEF k, q
<1>6. q % k = q
  BY <1>5
<1> QED
  BY <1>5, <1>6 DEF IndexOf, WordIndex, k, q

LEMMA PadNotBehindWrite ==
  ASSUME NoPadBehindWrite, Edge, idex.valid, csr_write_intent(idex.instr)
  PROVE  ~elp_update.valid
<1>1. ~elp_set_EX
  BY DEF elp_set_EX, csr_write_intent, CsrOps, CsrRegOps, CsrImmOps, opEX
<1>2. ASSUME lpad_pass_ID, ifid.valid PROVE FALSE
  <2>1. /\ idex.instr = rom[IndexOf(idex.pc)] /\ ifid.instr = rom[IndexOf(ifid.pc)]
        /\ ifid.pc = Wrap(idex.pc + 4)
    BY <1>2, EdgeFacts DEF ProgramOrder, fetch_pc
  <2>2. rom \in Programs
    BY EdgeFacts DEF DInv
  <2>3. rom[IndexOf(Wrap(idex.pc + 4))].op # "LPAD"
    BY <2>1, <2>2, AlignedIndex DEF NoPadBehindWrite
  <2> QED
    BY <1>2, <2>1, <2>3 DEF lpad_pass_ID
<1> QED
  BY <1>1, <1>2 DEF elp_update

LEMMA CsrAccesses ==
  ASSUME NoPadBehindWrite, Completes, opEX \in CsrOps
  PROVE  Arch!CsrAccess
<1>1. /\ opEX \notin {"LW", "MUL", "SSPUSH", "SSPOPCHK", "JALR", "LPAD", "SSRDP", "LUI"}
      /\ opEX \notin BranchOps \cup JumpOps \cup AluOps
      /\ ~dram_we(idex.instr) /\ ~shadow_mem_active_EX /\ ~sspush_EX /\ ~elp_set_EX
  BY DEF CsrOps, CsrRegOps, CsrImmOps, BranchOps, JumpOps, AluOps, dram_we, opEX,
         shadow_mem_active_EX, sspush_EX, elp_set_EX
<1>2. Edge /\ idex.valid
  BY CompletesFacts
<1>3. /\ csr_abs = csr /\ Arch!Instr = idex.instr /\ Arch!op = opEX
      /\ Arch!Executes(Arch!CsrOps)
  BY <1>1, <1>2, InEX, ArchDecode
<1>4. Arch!NextInstr /\ dram_abs' = dram_abs
  BY <1>1, RetireStraight, RetireNoStore
<1> DEFINE name == idex.instr.csr
           old  == csr_rdata(csr, name)
<1>5. Arch!csr_rdata(csr_abs, Arch!Instr.csr) = old
  BY <1>3, ArchWrites
<1>6. IF Arch!Instr.rd # 0 THEN Arch!SetRd(Arch!Value(old)) ELSE rf_abs' = rf_abs
  <2>1. CASE idex.instr.rd # 0
    <3>1. rf_we(idex.instr)
      BY <2>1 DEF rf_we, opEX
    <3>2. rf_wd_EX = Value(old)
      BY <1>1 DEF rf_wd_EX, wd_sel, opEX
    <3> QED
      BY <1>1, <1>3, <2>1, <3>1, <3>2, RetireRd, ArchNumbers
  <2>2. CASE idex.instr.rd = 0
    <3>1. ~rf_we(idex.instr)
      BY <1>1, <2>2 DEF rf_we, opEX
    <3> QED
      BY <1>1, <1>3, <2>2, <3>1, RetireNoRd
  <2> QED
    BY <2>1, <2>2
<1> DEFINE operand == Bits(IF opEX \in CsrImmOps THEN idex.instr.rs1 ELSE idex.rd1)
<1>7. Arch!Bits(IF Arch!op \in Arch!CsrImmOps THEN Arch!Instr.rs1 ELSE Arch!src1) = operand
  <2>1. opEX \notin CsrImmOps => rs1_used(idex.instr)
    BY DEF rs1_used, opEX, CsrOps, CsrRegOps, CsrImmOps, SystemOps
  <2>2. opEX \notin CsrImmOps => Arch!src1 = idex.rd1
    BY <1>2, <2>1, InEX
  <2> QED
    BY <1>3, <2>2, ArchNumbers, ArchDecode
<1>8. csr_abs' = IF csr_write_intent(idex.instr)
                 THEN CsrWrite(csr, name,
                               csr_new_value(csr, name, csr_op(idex.instr), operand))
                 ELSE csr
  <2>1. CASE csr_write_intent(idex.instr)
    <3>1. name \in CsrName
      BY <1>2, EdgeFacts DEF CInv, ExMayRun, MayRun, opEX
    <3>2. csr_write = [valid |-> TRUE, name |-> name, op |-> csr_op(idex.instr),
                       operand |-> operand]
      BY <1>2, <2>1, <3>1 DEF csr_write
    <3>3. ~elp_update.valid
      BY <1>2, <2>1, PadNotBehindWrite
    <3>4. csr_abs' = CsrWrite(csr, csr_write.name, csr_new_value(csr, csr_write.name,
                                                     csr_write.op, csr_write.operand))
      BY <1>1, <3>2, <3>3, RetireCsr
    <3> QED
      BY <2>1, <3>2, <3>4
  <2>2. CASE ~csr_write_intent(idex.instr)
    <3>1. ~csr_write.valid
      BY <2>2 DEF csr_write
    <3> QED
      BY <1>1, <2>2, <3>1, RetireCsrKept
  <2> QED
    BY <2>1, <2>2
<1> HIDE DEF name, old, operand
<1>9. csr_abs' = IF Arch!csr_write_intent(Arch!Instr)
                 THEN Arch!CsrWrite(csr_abs, Arch!Instr.csr,
                        Arch!csr_new_value(csr_abs, Arch!Instr.csr, Arch!csr_op(Arch!Instr),
                                           operand))
                 ELSE csr_abs
  BY <1>3, <1>8, ArchWrites, ArchDecode DEF name
<1> QED
  BY <1>3, <1>4, <1>5, <1>6, <1>7, <1>9 DEF Arch!CsrAccess

LEMMA LandingPads ==
  ASSUME Completes, opEX = "LPAD"
  PROVE  Arch!LandingPad
<1>1. /\ ~dram_we(idex.instr) /\ ~rf_we(idex.instr)
      /\ opEX \notin CsrOps \cup {"SSPUSH", "JALR", "MUL"} \cup BranchOps \cup JumpOps
  BY DEF CsrOps, CsrRegOps, CsrImmOps, BranchOps, JumpOps, AluOps, dram_we, rf_we, opEX
<1>2. Edge /\ idex.valid
  BY CompletesFacts
<1>3. Arch!NextInstr /\ dram_abs' = dram_abs /\ rf_abs' = rf_abs /\ csr_abs' = csr
  BY <1>1, RetireStraight, RetireNoStore, RetireNoRd, QuietOps
<1>4. csr = [csr_abs EXCEPT !.elp = FALSE]
  <2>1. csr \in CsrState /\ ~csr.elp
    BY <1>2, EdgeFacts, InEX
  <2>2. [csr_abs EXCEPT !.elp = FALSE] = [csr EXCEPT !.elp = FALSE]
    BY <2>1, CsrAbs
  <2>3. [csr EXCEPT !.elp = FALSE] = [reg |-> csr.reg, priv |-> csr.priv, elp |-> FALSE]
    BY <2>1, ElpSet
  <2>4. csr = [reg |-> csr.reg, priv |-> csr.priv, elp |-> FALSE]
    BY <2>1 DEF CsrState
  <2> QED
    BY <2>2, <2>3, <2>4
<1>5. Arch!Executes({"LPAD"})
  BY <1>2, InEX
<1> QED
  BY <1>3, <1>4, <1>5 DEF Arch!LandingPad

\* The shadow stack is off.
LEMMA ShadowIdles ==
  ASSUME Completes, opEX \in {"SSPUSH", "SSPOPCHK"}, ~shadow_mem_active_EX
  PROVE  Arch!ShadowIdle
<1>1. /\ ~rf_we(idex.instr) /\ sl_type_effective_EX = "NOP"
      /\ opEX \notin CsrOps \cup {"JALR", "MUL"} \cup BranchOps \cup JumpOps
      /\ ~sspush_EX /\ ~elp_set_EX /\ ~csr_write.valid
  BY DEF CsrOps, CsrRegOps, CsrImmOps, BranchOps, JumpOps, AluOps, rf_we, opEX,
         sl_type_effective_EX, sspush_EX, elp_set_EX, csr_write, csr_write_intent
<1>2. Edge /\ idex.valid
  BY CompletesFacts
<1>3. ~shadow_stack_enabled(csr) /\ csr_abs = csr /\ Arch!Executes({"SSPUSH", "SSPOPCHK"})
  BY <1>2, InEX DEF shadow_mem_active_EX, current_sse_enabled
<1>4. dram_abs' = dram_abs
  <2>1. exmem'.sl = "NOP"
    BY <1>1, CompletesFacts
  <2>2. dram' = dram_abs
    BY <1>2, EdgeFacts, MemoryAhead
  <2> QED
    BY <2>1, <2>2 DEF dram_abs, ram_data_next, wstrb_MEM
<1>5. Arch!NextInstr /\ rf_abs' = rf_abs /\ csr_abs' = csr_abs
  BY <1>1, <1>3, RetireStraight, RetireNoRd, RetireCsrKept
<1> QED
  BY <1>3, <1>4, <1>5, ArchGuards DEF Arch!ShadowIdle

LEMMA Pushes ==
  ASSUME Completes, opEX = "SSPUSH", shadow_mem_active_EX
  PROVE  Arch!ShadowPush
<1>1. /\ ~rf_we(idex.instr) /\ dram_we(idex.instr) /\ rs2_used(idex.instr) /\ sspush_EX
      /\ opEX \notin CsrOps \cup {"JALR", "MUL", "LPAD"} \cup BranchOps \cup JumpOps
  BY DEF CsrOps, CsrRegOps, CsrImmOps, BranchOps, JumpOps, AluOps, rf_we, dram_we, opEX,
         rs2_used, sspush_EX
<1>2. Edge /\ idex.valid /\ ~exception_valid_EX
  BY CompletesFacts
<1>3. sl_type_effective_EX = "SSPUSH"
  BY <1>2, AccessInEX
<1>4. /\ csr_abs = csr /\ Arch!ssp = ssp_value /\ Arch!src2 = idex.rd2
      /\ Arch!Executes({"SSPUSH"}) /\ shadow_stack_enabled(csr)
  BY <1>1, <1>2, InEX, EdgeFacts, ArchNow DEF shadow_mem_active_EX, current_sse_enabled
<1>5. Arch!Wrap(Arch!ssp - 4) = shadow_addr_EX /\ mem_addr_EX = shadow_addr_EX
  BY <1>4, ArchNumbers DEF shadow_addr_EX, mem_addr_EX
<1>6. ~Arch!Faults("store", shadow_addr_EX) /\ shadow_addr_EX % 4 = 0
  <2>1. ~store_access_fault_EX /\ ~shadow_access_fault_EX
    BY <1>2 DEF exception_valid_EX
  <2> QED
    BY <1>2, <1>3, <1>5, <2>1, EdgeFacts, ArchNow
       DEF store_access_fault_EX, shadow_access_fault_EX, data_fault_EX, Faults_abs
<1>7. dram_abs' = [dram_abs EXCEPT ![Arch!Slot(shadow_addr_EX)] = Arch!src2]
  <2>1. exmem'.addr = shadow_addr_EX
    BY CompletesFacts
  <2>2. rf_wd_EX = idex.rd2
    BY DEF rf_wd_EX
  <2> QED
    BY <1>1, <1>3, <1>4, <2>1, <2>2, RetireStore, ArchNumbers
<1>8. csr_abs' = [csr_abs EXCEPT !.reg["ssp"] = Arch!Bits(shadow_addr_EX)]
  <2>1. csr_abs' = SetReg(csr, "ssp", Bits(shadow_addr_EX)) /\ csr \in CsrState
    BY <1>1, <1>2, RetireCsr, EdgeFacts
  <2> QED
    BY <1>4, <2>1, ArchNumbers DEF SetReg, CsrState
<1>9. Arch!NextInstr /\ rf_abs' = rf_abs
  BY <1>1, RetireStraight, RetireNoRd
<1> QED
  BY <1>4, <1>5, <1>6, <1>7, <1>8, <1>9, ArchGuards DEF Arch!ShadowPush

LEMMA Returns ==
  ASSUME Edge, xret_EX
  PROVE  Arch!TrapReturn
<1>1. /\ idex.valid /\ opEX \in {"MRET", "SRET"} /\ opEX # "LPAD"
      /\ ~shadow_mem_active_EX /\ ~rf_we(idex.instr) /\ ~dram_we(idex.instr) /\ ~MulInEX
      /\ opEX \notin MemOps \cup BranchOps \cup JumpOps \cup {"ECALL"}
  BY DEF xret_EX, shadow_mem_active_EX, rf_we, dram_we, MulInEX, opEX, MemOps, BranchOps,
         JumpOps, AluOps, CsrOps, CsrRegOps, CsrImmOps
<1>2. ~exception_valid_EX
  BY <1>1, TrapKinds
<1>3. ~exception_valid /\ csr_abs' = csr' /\ csr_abs = csr /\ Arch!op = opEX
      /\ Arch!Executes({"MRET", "SRET"})
  BY <1>1, <1>2, InEX
<1>4. csr' = IF opEX = "MRET" THEN Mret(csr) ELSE Sret(csr)
  <2>1. ~exception.valid /\ xret = IF opEX = "MRET" THEN "mret" ELSE "sret"
    BY <1>3, ExceptionPort DEF xret
  <2> QED
    BY <2>1, EdgeFacts DEF CsrNext
<1>5. pc_abs' = Value(csr.reg[IF opEX = "MRET" THEN "mepc" ELSE "sepc"])
  <2>1. exmem'.sl # "SSPOPCHK" /\ memwb'.sl # "SSPOPCHK" /\ take_branch_NextPC
    BY <1>1, EdgeFacts, PopMoves, InEX DEF take_branch_NextPC
  <2> QED
    BY <1>3, <2>1, EdgeFacts, PcAbsNext, RedirectTarget
<1>6. ~exmem'.rf_we /\ ~exmem'.dram_we
  BY <1>1, EdgeFacts, EXMEMNext
<1>7. rf_abs' = rf_abs /\ dram_abs' = dram_abs
  BY <1>1, <1>6, EdgeFacts, RfKept, MemoryAhead
<1> QED
  BY <1>3, <1>4, <1>5, <1>7, EdgeFacts, ArchReturns, ArchNumbers
     DEF Arch!TrapReturn, Arch!Goto

-----------------------------------------------------------------------------
(* The theorem. *)

\* An instruction that leaves EX.
LEMMA Executed ==
  ASSUME NoPadBehindWrite, Completes
  PROVE  Arch!Next
<1>1. opEX \in Ops /\ ~is_illegal_instr(idex.instr) /\ Edge
  <2>1. idex.instr \in Instruction
    BY CompletesFacts, EdgeFacts, Words
  <2> QED
    BY <2>1, CompletesFacts DEF Instruction, opEX, Edge, RefinementInv, LegalInEX
<1>2. opEX \notin {"ECALL", "MRET", "SRET", "ZERO", "ILLEGAL"}
  BY <1>1, CompletesFacts DEF is_illegal_instr, opEX, xret_EX, exception_valid_EX
<1>3. CASE opEX \in AluOps \cup {"MUL", "SSRDP", "FENCE"}
  BY <1>3, Computes DEF Arch!Next
<1>4. CASE opEX \in BranchOps
  BY <1>4, Branches DEF Arch!Next
<1>5. CASE opEX \in JumpOps
  BY <1>5, Jumps DEF Arch!Next
<1>6. CASE opEX \in MemOps
  BY <1>6, Loads, Stores DEF Arch!Next, MemOps
<1>7. CASE opEX \in CsrOps
  BY <1>7, CsrAccesses DEF Arch!Next
<1>8. CASE opEX = "LPAD"
  BY <1>8, LandingPads DEF Arch!Next
<1>9. CASE opEX \in {"SSPUSH", "SSPOPCHK"}
  BY <1>9, ShadowIdles, Pushes DEF Arch!Next, Completes
<1> QED
  BY <1>1, <1>2, <1>3, <1>4, <1>5, <1>6, <1>7, <1>8, <1>9
     DEF Ops, CfiOps, SystemOps

\* An instruction that traps in EX.
LEMMA Trapped ==
  ASSUME Edge, idex.valid, exception_valid_EX
  PROVE  Arch!Next
<1>1. CASE opEX \in BranchOps
  BY <1>1, BranchTraps DEF Arch!Next
<1>2. CASE opEX \in JumpOps
  BY <1>2, JumpTraps DEF Arch!Next
<1>3. CASE opEX \in MemOps
  BY <1>3, LoadTraps, StoreTraps DEF Arch!Next, MemOps
<1>4. CASE shadow_mem_active_EX
  BY <1>4, PushTraps, PopTraps DEF Arch!Next, shadow_mem_active_EX
<1>5. CASE opEX = "ECALL"
  BY <1>5, CallTraps DEF Arch!Next
<1> QED
  BY <1>1, <1>2, <1>3, <1>4, <1>5, TrapKinds

\* Every clock edge is one instruction of the abstract machine, or none.
LEMMA EdgeImplements ==
  ASSUME NoPadBehindWrite, Edge
  PROVE  Arch!Next \/ UNCHANGED Arch!vars
<1>1. CASE exmem.sl = "SSPOPCHK"
  BY <1>1, PopInMEM
<1>2. CASE memwb.sl = "SSPOPCHK"
  BY <1>2, PopInWB DEF Arch!Next
<1>3. CASE NoPop /\ ~idex.valid
  <2>1. CASE exception_valid
    BY <1>3, <2>1, TrapInID DEF Arch!Next
  <2>2. CASE ~exception_valid
    BY <1>3, <2>2, WaitInID
  <2> QED
    BY <2>1, <2>2
<1>4. CASE idex.valid
  <2>1. CASE exception_valid_EX
    BY <1>4, <2>1, Trapped
  <2>2. CASE xret_EX
    BY <2>2, Returns DEF Arch!Next
  <2>3. CASE ~exception_valid_EX /\ shadow_mem_active_EX /\ opEX = "SSPOPCHK"
    BY <1>4, <2>3, PopLeavesEX
  <2>4. CASE Completes
    BY <2>4, Executed
  <2> QED
    BY <1>4, <2>1, <2>2, <2>3, <2>4 DEF Completes
<1> QED
  BY <1>1, <1>2, <1>3, <1>4 DEF NoPop

LEMMA StutterImplements == UNCHANGED hvars => UNCHANGED Arch!vars
<1> SUFFICES ASSUME UNCHANGED hvars PROVE UNCHANGED Arch!vars
  OBVIOUS
<1> USE DEF hvars, vars
<1>1. rf_abs' = rf_abs
  BY DEF rf_abs, mul_to, mul_stage_busy, wd_MEM_done, rf_wd_WB, load_data_WB
<1>2. dram_abs' = dram_abs /\ csr_abs' = csr_abs /\ pc_abs' = pc_abs
  BY DEF dram_abs, ram_data_next, wstrb_MEM, DRAM_input_data, csr_abs, pc_abs
<1> QED
  BY <1>1, <1>2 DEF Arch!vars

LEMMA ArchTypes ==
  /\ Arch!Word = Word /\ Arch!Slots = WordIndex
  /\ Arch!CsrState = CsrState /\ Arch!Instruction = Instruction
<1>1. Arch!Word = Word /\ Arch!Slots = WordIndex
  BY DEF Arch!Word, Word, Arch!Slots, WordIndex
<1>2. Arch!CsrState = CsrState
  BY ArchNames, ArchBits DEF Arch!CsrState, CsrState, Arch!Bit, Bit, Arch!Prv, Prv
<1>3. Arch!Ops = Ops
  BY ArchDecode
     DEF Arch!Ops, Ops, Arch!MemOps, MemOps, Arch!SystemOps, SystemOps, Arch!CfiOps, CfiOps
<1>4. Arch!Instruction = Instruction
  BY <1>3 DEF Arch!Instruction, Instruction, Arch!Reg, Reg
<1> QED
  BY <1>1, <1>2, <1>4

LEMMA InitImplements == InitH => Arch!Init
<1> SUFFICES ASSUME InitH PROVE Arch!Init
  OBVIOUS
<1>1. Init /\ ~paid
  BY DEF InitH
<1>2. PICK b \in Boots :
        /\ pc = b.pc /\ csr = b.csr /\ rf = b.rf
        /\ exmem = IF b.csr = ResetCsr THEN EXMEMBubble ELSE BootMret
  BY <1>1 DEF Init
<1>3. /\ b.pc \in Word /\ b.csr \in CsrState /\ b.rf \in [Regs -> Word] /\ ~b.csr.elp
  BY BootsAssumption
<1>4. /\ ~exmem.rf_we /\ ~exmem.dram_we /\ exmem.sl = "NOP"
      /\ ~memwb.rf_we /\ memwb.sl = "NOP" /\ ~idex.valid /\ ~ifid.valid
      /\ mul_stage_busy = {}
  <2>1. exmem \in {InertEXMEM(v) : v \in BOOLEAN}
    BY <1>2 DEF EXMEMBubble, BootMret
  <2>2. ~exmem.rf_we /\ ~exmem.dram_we /\ exmem.sl = "NOP"
    BY <2>1 DEF InertEXMEM
  <2> QED
    BY <1>1, <2>2, BubbleFacts DEF Init, mul_stage_busy, MulIdle
<1>5. pc_abs = pc /\ dram_abs = dram
  BY <1>4 DEF pc_abs, dram_abs, ram_data_next, wstrb_MEM
<1>6. csr_abs = csr
  BY <1>1, <1>2, <1>3, CsrAbs
<1>7. rf_abs = rf
  <2>1. \A r : mul_to(r) = {}
    BY <1>4 DEF mul_to
  <2>2. rf_abs = [r \in DOMAIN rf |-> rf[r]]
    BY <1>4, <2>1 DEF rf_abs
  <2> QED
    BY <1>2, <1>3, <2>2
<1>8. rom \in [WordIndex -> Instruction] /\ dram = [a \in WordIndex |-> 0]
  BY <1>1, ProgramsAssumption DEF Init
<1> QED
  BY <1>2, <1>3, <1>5, <1>6, <1>7, <1>8, ArchTypes DEF Arch!Init

\* What the software sees of the pipeline is the abstract machine Isa: the boot
\* state is one of its initial states, and with every clock edge the registers,
\* the memory, the CSRs and the program counter change by one whole instruction or
\* trap of it, or not at all (CPU_TOP.sv and everything below it).
THEOREM PipelineImplementsIsa ==
  ASSUME PrecisePrograms
  PROVE  SpecH => ImplementsIsa
<1>1. PmpLeftToBoot /\ NoPadBehindWrite
  BY DEF PrecisePrograms
<1>2. SpecH => [](HInv /\ RefinementInv)
  BY <1>1, RefinementInvariance
<1>3. InitH => Arch!Init
  BY InitImplements
<1>4. HInv /\ RefinementInv /\ [NextH]_hvars => [Arch!Next]_(Arch!vars)
  BY <1>1, EdgeImplements, StutterImplements DEF Edge
<1> QED
  BY <1>2, <1>3, <1>4, PTL DEF SpecH, ImplementsIsa
=============================================================================
