---------------------------------- MODULE Csr ----------------------------------
(***************************************************************************)
(* The CSR unit (CSR.sv) on its own, clock edge by clock edge, against     *)
(* every sequence of requests the pipeline can make of it: one action per  *)
(* branch of the if/else chain of its clocked process.                     *)
(*                                                                         *)
(* What the pipeline guarantees is in the guards.  Decode lets a CSR write *)
(* or an xRET through only at a sufficient privilege level; and while a    *)
(* landing pad is expected nothing executes (Pipeline checks and proves    *)
(* that as NothingRunsBeforeThePad), so only a trap or the landing pad     *)
(* itself reaches the unit.                                                *)
(***************************************************************************)
EXTENDS CsrFile

CONSTANTS
  Exceptions,    \* the exceptions that occur: [valid, pc, cause, tval]
  Writes,        \* the CSR writes that occur: [valid, name, op, operand]
  Pointers       \* the shadow-stack pointers that occur

ASSUME PortsAssumption ==
  /\ Exceptions \subseteq [valid : {TRUE}, pc : Nat, cause : Nat, tval : Nat]
  /\ Writes \subseteq [valid : {TRUE}, name : CsrName, op : {"RW", "RS", "RC"},
                       operand : SUBSET Bit]
  /\ Pointers \subseteq Nat

VARIABLE csr

NoException == [valid |-> FALSE, pc |-> 0, cause |-> 0, tval |-> 0]
NoSsp       == [valid |-> FALSE, data |-> 0]
NoElp       == [valid |-> FALSE, expected |-> FALSE]
NoWrite     == [valid |-> FALSE, name |-> "mscratch", op |-> "RW", operand |-> {}]

-----------------------------------------------------------------------------

Init == csr = ResetCsr

\* rst is asynchronous and wins over everything.
Reset == csr' = ResetCsr

Exception(e) == csr' = CsrNext(csr, e, "none", NoSsp, NoElp, NoWrite)

MachineReturn ==
  /\ ~csr.elp /\ csr.priv = PrvM
  /\ csr' = CsrNext(csr, NoException, "mret", NoSsp, NoElp, NoWrite)

SupervisorReturn ==
  /\ ~csr.elp /\ csr.priv # PrvU
  /\ ~(csr.priv = PrvS /\ TSR \in csr.reg["mstatus"])
  /\ csr' = CsrNext(csr, NoException, "sret", NoSsp, NoElp, NoWrite)

SspUpdate(p) ==
  /\ ~csr.elp /\ shadow_stack_enabled(csr)
  /\ csr' = CsrNext(csr, NoException, "none", [valid |-> TRUE, data |-> p], NoElp, NoWrite)

IndirectJump ==
  /\ ~csr.elp /\ current_lpe_enabled(csr)
  /\ csr' = CsrNext(csr, NoException, "none", NoSsp, [valid |-> TRUE, expected |-> TRUE], NoWrite)

LandingPad ==
  csr' = CsrNext(csr, NoException, "none", NoSsp, [valid |-> TRUE, expected |-> FALSE], NoWrite)

MayWrite(name) ==
  /\ csr.priv >= CsrPriv(name)
  /\ ~CsrReadOnly(name)
  /\ name = "ssp" => csr.priv = PrvM \/ shadow_stack_enabled(csr)
  /\ name = "satp" => ~(csr.priv = PrvS /\ TVM \in csr.reg["mstatus"])

Write(w) ==
  /\ ~csr.elp /\ MayWrite(w.name)
  /\ csr' = CsrNext(csr, NoException, "none", NoSsp, NoElp, w)

Next ==
  \/ Reset
  \/ \E e \in Exceptions : Exception(e)
  \/ MachineReturn
  \/ SupervisorReturn
  \/ \E p \in Pointers : SspUpdate(p)
  \/ IndirectJump
  \/ LandingPad
  \/ \E w \in Writes : Write(w)

Spec == Init /\ [][Next]_csr

-----------------------------------------------------------------------------
(* Invariants. *)

CsrTypeOK == csr \in CsrState

\* The reserved privilege encoding never reaches MPP, by a write of any length
\* or by a trap, so MRET never leaves the hart at a level that does not exist.
MppLegal == MppOf(csr.reg["mstatus"]) \in Prv

\* ELP is never pending where landing pads are switched off, whatever order
\* the enables were written and traps taken and returned from.
ElpOnlyWhereEnabled == csr.elp => current_lpe_enabled(csr)

\* A trap at this point followed by the return from its handler restores the
\* privilege level, the interrupt enable and the pending landing pad.
TrapReturnRoundTrip ==
  \A e \in Exceptions :
    LET t    == TrapEntry(csr, e)
        back == IF t.priv = PrvS THEN Sret(t) ELSE Mret(t)
        ie   == IF t.priv = PrvS THEN SIE ELSE MIE
    IN  /\ back.priv = csr.priv
        /\ back.elp = csr.elp
        /\ (ie \in back.reg["mstatus"]) = (ie \in csr.reg["mstatus"])

-----------------------------------------------------------------------------
(* Action properties. *)

LockKept ==
  PmpL \in csr.reg["pmpcfg0"] /\ csr' # ResetCsr =>
    /\ csr'.reg["pmpcfg0"]  = csr.reg["pmpcfg0"]
    /\ csr'.reg["pmpaddr0"] = csr.reg["pmpaddr0"]

\* Once locked, the PMP entry stays as it is until reset, in every mode.
PmpSticky == [][LockKept]_csr

EntersBy(e) ==
  IF take_delegated_trap(csr, e.cause)
  THEN /\ csr'.priv = PrvS
       /\ csr'.reg["scause"] = Bits(e.cause)
       /\ (SPP \in csr'.reg["mstatus"]) = (csr.priv = PrvS)
  ELSE /\ csr'.priv = PrvM
       /\ csr'.reg["mcause"] = Bits(e.cause)
       /\ MppOf(csr'.reg["mstatus"]) = csr.priv

RiseIsTrap ==
  csr'.priv > csr.priv => csr' = ResetCsr \/ \E e \in Exceptions : EntersBy(e)

\* The privilege level rises only by a trap, which enters the mode medeleg
\* names and records the cause and the level it came from.
RiseOnlyByTrap == [][RiseIsTrap]_csr

\* What software below M mode may change of a machine register.
SharedBits(m) ==
  CASE m = "mstatus"        -> SstatusMask
    [] m \in {"mie", "mip"} -> csr.reg["mideleg"]
    [] OTHER                -> {}

MachineStateKept ==
  csr.priv # PrvM /\ csr'.priv # PrvM =>
    \A m \in MachineCsr : csr'.reg[m] \ SharedBits(m) = csr.reg[m] \ SharedBits(m)

\* As long as the hart stays below M mode, only the supervisor's view of the
\* machine registers changes, by whatever writes, traps and returns.
MachineStateIsolated == [][MachineStateKept]_csr
=============================================================================
