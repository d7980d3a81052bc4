----------------------------- MODULE CsrNumbers -----------------------------
(***************************************************************************)
(* The numbers of the control and status registers.  Programs reach a CSR  *)
(* by the number that env/encoding.h gives its name; the core knows forty  *)
(* numbers (defines.svh, csr_is_implemented) and derives the privilege and *)
(* the read-only rule of an access from the bits of the number.  The two   *)
(* tables are kept by hand in two files.                                   *)
(***************************************************************************)
EXTENDS Integers, Sequences, FiniteSets, Levels

-----------------------------------------------------------------------------
(* env/encoding.h: a table is a set of entries [name, number]; the members *)
(* of an indexed family are named <<family, index>>.                       *)

Named(r) == {[name |-> <<n>>, number |-> r[n]] : n \in DOMAIN r}

Family(f, first, last, base) ==
  {[name |-> <<f, i>>, number |-> base + i] : i \in first .. last}

UserCsrs ==
  Named([fflags |-> \h001, frm |-> \h002, fcsr |-> \h003, vstart |-> \h008, vxsat |-> \h009,
         vxrm |-> \h00a, vcsr |-> \h00f, seed |-> \h015, jvt |-> \h017, cycle |-> \hc00,
         time |-> \hc01, instret |-> \hc02, vl |-> \hc20, vtype |-> \hc21, vlenb |-> \hc22])
    \cup Family("hpmcounter", 3, 31, \hc00)

SupervisorCsrs ==
  Named([sstatus |-> \h100, sedeleg |-> \h102, sideleg |-> \h103, sie |-> \h104,
         stvec |-> \h105, scounteren |-> \h106, senvcfg |-> \h10a, sscratch |-> \h140,
         sepc |-> \h141, scause |-> \h142, stval |-> \h143, sip |-> \h144,
         stimecmp |-> \h14d, siselect |-> \h150, sireg |-> \h151, stopei |-> \h15c,
         satp |-> \h180, scontext |-> \h5a8])
    \cup Family("sstateen", 0, 3, \h10c)

VirtualSupervisorCsrs ==
  Named([vsstatus |-> \h200, vsie |-> \h204, vstvec |-> \h205, vsscratch |-> \h240,
         vsepc |-> \h241, vscause |-> \h242, vstval |-> \h243, vsip |-> \h244,
         vstimecmp |-> \h24d, vsiselect |-> \h250, vsireg |-> \h251, vstopei |-> \h25c,
         vsatp |-> \h280])

HypervisorCsrs ==
  Named([hstatus |-> \h600, hedeleg |-> \h602, hideleg |-> \h603, hie |-> \h604,
         htimedelta |-> \h605, hcounteren |-> \h606, hgeie |-> \h607, hvien |-> \h608,
         hvictl |-> \h609, henvcfg |-> \h60a, htval |-> \h643, hip |-> \h644, hvip |-> \h645,
         hviprio1 |-> \h646, hviprio2 |-> \h647, htinst |-> \h64a, hgatp |-> \h680,
         hcontext |-> \h6a8, hgeip |-> \he12, vstopi |-> \heb0])
    \cup Family("hstateen", 0, 3, \h60c)

SupervisorViews == Named([scountovf |-> \hda0, stopi |-> \hdb0])

FastInterruptCsrs ==
  [user       |-> Named([utvt |-> \h007, unxti |-> \h045, uintstatus |-> \h046,
                         uscratchcsw |-> \h048, uscratchcswl |-> \h049]),
   supervisor |-> Named([stvt |-> \h107, snxti |-> \h145, sintstatus |-> \h146,
                         sscratchcsw |-> \h148, sscratchcswl |-> \h149]),
   machine    |-> Named([mtvt |-> \h307, mnxti |-> \h345, mintstatus |-> \h346,
                         mscratchcsw |-> \h348, mscratchcswl |-> \h349])]

MachineCsrs ==
  Named([mstatus |-> \h300, misa |-> \h301, medeleg |-> \h302, mideleg |-> \h303,
         mie |-> \h304, mtvec |-> \h305, mcounteren |-> \h306, mvien |-> \h308,
         mvip |-> \h309, menvcfg |-> \h30a, mcountinhibit |-> \h320, mscratch |-> \h340,
         mepc |-> \h341, mcause |-> \h342, mtval |-> \h343, mip |-> \h344, mtinst |-> \h34a,
         mtval2 |-> \h34b, miselect |-> \h350, mireg |-> \h351, mtopei |-> \h35c])
    \cup Family("mstateen", 0, 3, \h30c)

ProtectionCsrs == Family("pmpcfg", 0, 15, \h3a0) \cup Family("pmpaddr", 0, 63, \h3b0)

DebugCsrs ==
  Named([mseccfg |-> \h747, tselect |-> \h7a0, tinfo |-> \h7a4, tcontrol |-> \h7a5,
         mcontext |-> \h7a8, mscontext |-> \h7aa, dcsr |-> \h7b0, dpc |-> \h7b1])
    \cup Family("tdata", 1, 3, \h7a0) \cup Family("dscratch", 0, 1, \h7b2)

MachineCounters ==
  Named([mcycle |-> \hb00, minstret |-> \hb02])
    \cup Family("mhpmcounter", 3, 31, \hb00) \cup Family("mhpmevent", 3, 31, \h320)

MachineInformation ==
  Named([mvendorid |-> \hf11, marchid |-> \hf12, mimpid |-> \hf13, mhartid |-> \hf14,
         mconfigptr |-> \hf15, mtopi |-> \hfb0])

SupervisorHighHalves == Named([sieh |-> \h114, siph |-> \h154, stimecmph |-> \h15d])

HypervisorHighHalves ==
  Named([vsieh |-> \h214, vsiph |-> \h254, vstimecmph |-> \h25d, htimedeltah |-> \h615,
         hidelegh |-> \h613, hvienh |-> \h618, henvcfgh |-> \h61a, hviph |-> \h655,
         hviprio1h |-> \h656, hviprio2h |-> \h657])
    \cup Family("hstateenh", 0, 3, \h61c)

UserHighHalves ==
  Named([cycleh |-> \hc80, timeh |-> \hc81, instreth |-> \hc82])
    \cup Family("hpmcounterh", 3, 31, \hc80)

MachineHighHalves ==
  Named([mstatush |-> \h310, midelegh |-> \h313, mieh |-> \h314, mvienh |-> \h318,
         mviph |-> \h319, menvcfgh |-> \h31a, miph |-> \h354, mnscratch |-> \h740,
         mnepc |-> \h741, mncause |-> \h742, mnstatus |-> \h744, mseccfgh |-> \h757,
         mcycleh |-> \hb80, minstreth |-> \hb82])
    \cup Family("mstateenh", 0, 3, \h31c) \cup Family("mhpmeventh", 3, 31, \h720)
    \cup Family("mhpmcounterh", 3, 31, \hb80)

\* CAUSE_*; the three virtualisation causes that the core can never raise are left out.
EncodedCause ==
  [misaligned_fetch |-> 0, fetch_access |-> 1, illegal_instruction |-> 2, breakpoint |-> 3,
   misaligned_load |-> 4, load_access |-> 5, misaligned_store |-> 6, store_access |-> 7,
   user_ecall |-> 8, supervisor_ecall |-> 9, machine_ecall |-> 11, fetch_page_fault |-> 12,
   load_page_fault |-> 13, store_page_fault |-> 15]

-----------------------------------------------------------------------------
(* The core. *)

\* CSR_* of defines.svh, those that csr_is_implemented lists.
CoreCsr ==
  [ssp |-> \h011, sstatus |-> \h100, sie |-> \h104, stvec |-> \h105, scounteren |-> \h106,
   senvcfg |-> \h10A, sscratch |-> \h140, sepc |-> \h141, scause |-> \h142, stval |-> \h143,
   sip |-> \h144, satp |-> \h180, mstatus |-> \h300, misa |-> \h301, mvendorid |-> \hF11,
   marchid |-> \hF12, mimpid |-> \hF13, mhartid |-> \hF14, medeleg |-> \h302,
   mideleg |-> \h303, mie |-> \h304, mnstatus |-> \h744, mtvec |-> \h305, mstatush |-> \h310,
   pmpcfg0 |-> \h3A0, pmpaddr0 |-> \h3B0, menvcfg |-> \h30A, mcounteren |-> \h306,
   mscratch |-> \h340, mepc |-> \h341, mcause |-> \h342, mtval |-> \h343, mip |-> \h344,
   mseccfg |-> \h747, mcycle |-> \hB00, cycle |-> \hC00, mcycleh |-> \hB80, cycleh |-> \hC80,
   instret |-> \hC02, instreth |-> \hC82]

\* EXC_* of defines.svh.
CoreCause ==
  [misaligned_fetch |-> 0, fetch_access |-> 1, illegal_instruction |-> 2, breakpoint |-> 3,
   misaligned_load |-> 4, load_access |-> 5, misaligned_store |-> 6, store_access |-> 7,
   user_ecall |-> 8, supervisor_ecall |-> 9, machine_ecall |-> 11, software_check |-> 18]

\* Mutant: the resumable-NMI status at the first number of the custom range.
csr_is_implemented_custom(number) ==
  \/ number = \h7c0
  \/ \E n \in DOMAIN CoreCsr \ {"mnstatus"} : CoreCsr[n] = number

csr_is_implemented(number) == \E n \in DOMAIN CoreCsr : CoreCsr[n] = number

\* csr_addr[9:8] and csr_addr[11:10].
lowest_privilege(number) == (number \div 256) % 4

read_only(number) == number \div 1024 = 3

ssp_disabled(a) == a.number = CoreCsr.ssp /\ a.priv # PrvM /\ ~a.sse

\* Of an access [number, priv, write, sse, tvm]: its CSR, the current privilege, whether
\* the instruction writes, and the two bits of other CSRs that the verdict depends on.
\* Mutant: the read-only rule is forgotten.
privileged_illegal_writable(a) ==
  \/ ~csr_is_implemented(a.number)
  \/ a.priv < lowest_privilege(a.number)
  \/ ssp_disabled(a)
  \/ a.number = CoreCsr.satp /\ a.priv = PrvS /\ a.tvm

privileged_illegal(a) ==
  \/ ~csr_is_implemented(a.number)
  \/ a.priv < lowest_privilege(a.number)
  \/ a.write /\ read_only(a.number)
  \/ ssp_disabled(a)
  \/ a.number = CoreCsr.satp /\ a.priv = PrvS /\ a.tvm
=============================================================================
