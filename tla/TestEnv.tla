------------------------------- MODULE TestEnv -------------------------------
(***************************************************************************)
(* One test of the ISA suite on the core under tb_Verilator: the boot code *)
(* and trap vector that env/riscv_test.h puts around every test, the       *)
(* cases of the test with the macros of env/test_macros.h, the trap and    *)
(* return of the core, the data word that env/link.ld places where the     *)
(* testbench also looks, and the testbench, which derives the verdict from *)
(* two memory words and register a7.                                       *)
(*                                                                         *)
(* A step is a clock cycle: at most one instruction retires, then the      *)
(* testbench looks.  A program counter is <<label, index>>.                *)
(***************************************************************************)
EXTENDS CsrNumbers

CONSTANTS
  Cases,      \* a test has the cases 2 .. Cases
  Tests,      \* the tests: see TestShape
  Absences    \* the sets of CSRs that the boot code may find missing

Words == {"0x1000", "0x2000"}

\* level: RVTEST_RV32U, S or M.  handler: the weak symbol that the test defines.  expects:
\* the cause its handler accepts.  tohost: where link.ld puts it, 0x2000 when the code fills
\* more than a page.  first: the initial contents of the other watched word; stores: what
\* the cases of the test put there.
TestShape ==
  [level : {PrvU, PrvS, PrvM}, handler : {"none", "mtvec_handler", "stvec_handler"},
   expects : {EncodedCause[c] : c \in DOMAIN EncodedCause}, tohost : Words,
   first : Nat, stores : SUBSET Nat]

ASSUME EnvAssumption ==
  /\ Cases \in Nat \ {0, 1}
  /\ Tests \subseteq TestShape
  /\ Absences \subseteq SUBSET {"mnstatus", "satp", "pmpaddr0", "pmpcfg0", "medeleg", "mideleg"}

\* What holds of the tests of the suite: only those of supervisor mode, which need the
\* delegation registers, bring a stvec_handler; and where the testbench takes the other
\* watched word for a tohost, because it has seen it zero, the test stores no odd data there.
ASSUME SuiteAssumption ==
  \A t \in Tests :
    /\ t.handler = "stvec_handler" => t.level = PrvS
    /\ 0 \in t.stores \cup {t.first} => \A v \in t.stores : v % 2 = 0

VARIABLES
  test,       \* the test that runs
  absent,     \* the CSRs that this core lacks
  hart,       \* registers and CSRs the environment uses
  word,       \* the two watched words of the data memory
  armed,      \* tohost_1000_armed, tohost_2000_armed
  test_count, \* cycles with a magic number in a7
  verdict,    \* what the testbench has printed
  spoilt,     \* history: a case came out wrong or trapped unexpectedly
  complete    \* history: the test came to its end

envVars == <<test, absent, hart, word, armed, test_count, verdict, spoilt, complete>>

PASS_MAGIC == 218105633
FAIL_MAGIC == 26318864

At(label) == <<label, 0>>

-----------------------------------------------------------------------------
(* The core: trap entry and CSR access. *)

Trap(h, cause) ==
  IF h.priv # PrvM /\ cause \in h.medeleg
    THEN [h EXCEPT !.pc = h.stvec, !.scause = cause, !.priv = PrvS]
    ELSE [h EXCEPT !.pc = h.mtvec, !.mcause = cause, !.mepc = h.pc,
                   !.mpp = h.priv, !.priv = PrvM]

Mret(h) == [h EXCEPT !.pc = h.mepc, !.priv = h.mpp, !.mpp = PrvU]

ecall(h) ==
  Trap(h, CASE h.priv = PrvU -> CoreCause.user_ecall
            [] h.priv = PrvS -> CoreCause.supervisor_ecall
            [] OTHER         -> CoreCause.machine_ecall)

AccessTraps(h, csr) ==
  \/ csr \in absent
  \/ privileged_illegal([number |-> CoreCsr[csr], priv |-> h.priv, write |-> TRUE,
                         sse |-> FALSE, tvm |-> FALSE])

-----------------------------------------------------------------------------
(* riscv_test.h: the reset vector.  Each guarded access comes after a write *)
(* of mtvec with the label behind it.                                       *)

\* Mutant: a core without PMP skips the rest of the boot code.
after_pmp_far == <<"boot", 13>>

\* The label behind INIT_PMP.
after_pmp == <<"boot", 8>>

Boot ==
  << [csr |-> "mtvec", value |-> <<"boot", 3>>], [csr |-> "mnstatus", value |-> {}],
     [csr |-> "mtvec", value |-> <<"boot", 5>>], [csr |-> "satp", value |-> {}],
     [csr |-> "mtvec", value |-> after_pmp], [csr |-> "pmpaddr0", value |-> {}],
     [csr |-> "pmpcfg0", value |-> {}],
     [csr |-> "mie", value |-> {}],
     [csr |-> "mtvec", value |-> <<"boot", 12>>],
     [csr |-> "medeleg", value |-> {}], [csr |-> "mideleg", value |-> {}],
     [csr |-> "mtvec", value |-> At("trap_vector")] >>

\* The causes given to a stvec_handler; the mask has bits above the core's causes too.
DelegatedCauses ==
  {EncodedCause[c] : c \in {"load_page_fault", "store_page_fault", "fetch_page_fault",
                            "misaligned_fetch", "user_ecall", "breakpoint"}}

Delegation ==
  IF test.handler = "stvec_handler"
    THEN << [csr |-> "stvec", value |-> At("stvec_handler")],
            [csr |-> "medeleg", value |-> DelegatedCauses] >>
    ELSE << >>

\* init: RVTEST_ENABLE_SUPERVISOR or RVTEST_ENABLE_MACHINE, by the level of the test.
Enable ==
  << [csr |-> "mstatus", value |-> PrvU] >>
    \o (IF test.level = PrvU THEN << >> ELSE << [csr |-> "mstatus", value |-> test.level] >>)
    \o (IF test.level = PrvS THEN << [csr |-> "mideleg", value |-> {}] >> ELSE << >>)
    \o << [csr |-> "mepc", value |-> <<"case", 2>>] >>

reset_vector == Boot \o Delegation \o Enable

Written(h, w, next) ==
  CASE w.csr = "mtvec"   -> [h EXCEPT !.mtvec = w.value, !.pc = next]
    [] w.csr = "stvec"   -> [h EXCEPT !.stvec = w.value, !.pc = next]
    [] w.csr = "medeleg" -> [h EXCEPT !.medeleg = w.value, !.pc = next]
    [] w.csr = "mstatus" -> [h EXCEPT !.mpp = w.value, !.pc = next]
    [] w.csr = "mepc"    -> [h EXCEPT !.mepc = w.value, !.pc = next]
    [] OTHER             -> [h EXCEPT !.pc = next]

-----------------------------------------------------------------------------
(* The instructions, each a change of the hart; what else it changes is     *)
(* said by the action.                                                      *)

Goto(label) == hart' = [hart EXCEPT !.pc = At(label)]

NoStore == UNCHANGED word

NoEvent == UNCHANGED <<spoilt, complete>>

BootStep ==
  /\ hart.pc[1] = "boot"
  /\ LET i == hart.pc[2]
     IN  \/ i > Len(reset_vector) /\ hart' = Mret(hart)
         \/ /\ i <= Len(reset_vector)
            /\ hart' = IF AccessTraps(hart, reset_vector[i].csr)
                         THEN Trap(hart, CoreCause.illegal_instruction)
                         ELSE Written(hart, reset_vector[i], <<"boot", i + 1>>)
  /\ NoStore /\ NoEvent

AfterCase(n) == IF n < Cases THEN <<"case", n + 1>> ELSE At("passfail")

\* li TESTNUM, n
StartCase ==
  /\ hart.pc[1] = "case"
  /\ hart' = [hart EXCEPT !.gp = hart.pc[2], !.pc = <<"check", hart.pc[2]>>]
  /\ NoStore /\ NoEvent

\* The code of the case and bne testreg, x7, fail.
CaseHolds ==
  /\ hart.pc[1] = "check"
  /\ hart' = [hart EXCEPT !.pc = AfterCase(hart.pc[2])]
  /\ \/ NoStore
     \/ \E v \in test.stores, w \in Words \ {test.tohost} : word' = [word EXCEPT ![w] = v]
  /\ NoEvent

CaseFails ==
  /\ hart.pc[1] = "check"
  /\ Goto("fail")
  /\ spoilt' = TRUE
  /\ NoStore /\ UNCHANGED complete

\* MISALIGNED_LOAD_HANDLER and MISALIGNED_STORE_HANDLER accept one cause.
Expected(cause) == test.handler = "mtvec_handler" /\ cause = test.expects

CaseTraps ==
  /\ hart.pc[1] = "check"
  /\ \E c \in {"misaligned_fetch", "illegal_instruction", "misaligned_load",
               "misaligned_store"} :
       /\ hart' = Trap(hart, CoreCause[c])
       /\ spoilt' = (spoilt \/ ~Expected(CoreCause[c]))
  /\ NoStore /\ UNCHANGED complete

\* The supervisor test of the CSRs goes to user mode before its last case.
DropToUser ==
  /\ hart.pc = <<"case", Cases>> /\ hart.priv = PrvS
  /\ hart' = [hart EXCEPT !.priv = PrvU]
  /\ NoStore /\ NoEvent

mtvec_handler ==
  /\ hart.pc = At("mtvec_handler")
  /\ hart' = IF hart.mcause = test.expects
               THEN [Mret(hart) EXCEPT !.pc = AfterCase(hart.mepc[2])]
               ELSE [hart EXCEPT !.pc = At("fail")]
  /\ NoStore /\ NoEvent

\* isa/rv64si/csr.S: RVTEST_PASS kicked up to machine mode.
stvec_handler ==
  /\ hart.pc = At("stvec_handler")
  /\ Goto(IF hart.scause = EncodedCause.user_ecall THEN "pass" ELSE "fail")
  /\ NoStore /\ NoEvent

TEST_PASSFAIL ==
  /\ hart.pc = At("passfail")
  /\ complete' = TRUE
  /\ Goto(IF hart.gp # 0 THEN "pass" ELSE "fail")
  /\ NoStore /\ UNCHANGED spoilt

\* li a7 comes before the move to a0, and the two retire in consecutive cycles.
RVTEST_FAIL ==
  /\ \/ /\ hart.pc = At("fail")
        /\ hart' = IF hart.gp = 0 THEN hart
                   ELSE [hart EXCEPT !.gp = 2 * hart.gp + 1, !.pc = At("fail_a7")]
     \/ /\ hart.pc = At("fail_a7")
        /\ hart' = [hart EXCEPT !.a7 = FAIL_MAGIC, !.pc = At("fail_a0")]
     \/ /\ hart.pc = At("fail_a0")
        /\ hart' = [hart EXCEPT !.a0 = hart.gp, !.pc = At("ecall")]
  /\ NoStore /\ NoEvent

RVTEST_PASS ==
  /\ \/ /\ hart.pc = At("pass")
        /\ hart' = [hart EXCEPT !.gp = 1, !.pc = At("pass_a7")]
     \/ /\ hart.pc = At("pass_a7")
        /\ hart' = [hart EXCEPT !.a7 = PASS_MAGIC, !.pc = At("pass_a0")]
     \/ /\ hart.pc = At("pass_a0")
        /\ hart' = [hart EXCEPT !.a0 = 0, !.pc = At("ecall")]
  /\ NoStore /\ NoEvent

Ecall ==
  /\ hart.pc = At("ecall")
  /\ hart' = ecall(hart)
  /\ NoStore /\ NoEvent

\* Mutant: other_exception leaves TESTNUM alone.
other_exception_plain(gp) == gp

\* The weight of a bit that gp lacks.
lacking(gp, weight) == IF (gp \div weight) % 2 = 0 THEN weight ELSE 0

\* ori TESTNUM, TESTNUM, 1337
other_exception(gp) ==
  gp + lacking(gp, 1) + lacking(gp, 8) + lacking(gp, 16) + lacking(gp, 32)
     + lacking(gp, 256) + lacking(gp, 1024)

trap_vector ==
  /\ hart.pc = At("trap_vector")
  /\ hart' = IF \E c \in {"user_ecall", "supervisor_ecall", "machine_ecall"} :
                    hart.mcause = EncodedCause[c]
               THEN [hart EXCEPT !.pc = At("write_tohost")]
               ELSE IF test.handler = "mtvec_handler"
               THEN [hart EXCEPT !.pc = At("mtvec_handler")]
               ELSE [hart EXCEPT !.gp = other_exception(hart.gp), !.pc = At("write_tohost")]
  /\ NoStore /\ NoEvent

write_tohost ==
  /\ hart.pc = At("write_tohost")
  /\ word' = [word EXCEPT ![test.tohost] = hart.gp]
  /\ UNCHANGED hart
  /\ NoEvent

\* A cycle in which nothing retires.
Bubble ==
  /\ hart.pc \notin {At("fail_a0"), At("pass_a0")}
  /\ UNCHANGED <<hart, word>>
  /\ NoEvent

-----------------------------------------------------------------------------
(* tb_Verilator.sv *)

Silent == [result |-> "none", number |-> 0]

Verdict(result, number) == [result |-> result, number |-> number]

arms(w) == word[w] = 0

tohost_data(mem, arm) ==
  CASE arm["0x1000"] /\ mem["0x1000"] # 0 -> mem["0x1000"]
    [] ~(arm["0x1000"] /\ mem["0x1000"] # 0) /\ arm["0x2000"] -> mem["0x2000"]
    [] OTHER -> 0

\* Mutant: the verdict waits twelve cycles for the magic number.
decided_late(count) == count = 12

decided(count) == count = 3

report(h, mem, arm, count) ==
  LET data == tohost_data(mem, arm)
  IN  CASE decided(count) /\ h.a7 = PASS_MAGIC -> Verdict("PASS", 0)
        [] decided(count) /\ h.a7 = FAIL_MAGIC -> Verdict("FAIL", h.a0)
        [] ~decided(count) /\ data = 1         -> Verdict("PASS", 0)
        [] ~decided(count) /\ data # 1 /\ data % 2 = 1 -> Verdict("FAIL", data \div 2)
        [] OTHER -> Silent

Watch ==
  /\ armed' = [w \in Words |-> armed[w] \/ arms(w)]
  /\ test_count' = test_count + (IF hart.a7 \in {PASS_MAGIC, FAIL_MAGIC} THEN 1 ELSE 0)
  /\ verdict' = report(hart', word', armed', test_count')
  /\ UNCHANGED <<test, absent>>

-----------------------------------------------------------------------------

\* The supervisor tests need the delegation registers.
EnvInit ==
  /\ test \in Tests
  /\ absent \in Absences
  /\ test.level = PrvS => absent \cap {"medeleg", "mideleg"} = {}
  /\ hart = [pc |-> <<"boot", 1>>, gp |-> 0, a7 |-> 0, a0 |-> 0, priv |-> PrvM, mpp |-> PrvM,
             mtvec |-> At("start"), stvec |-> At("start"), medeleg |-> {},
             mcause |-> 0, scause |-> 0, mepc |-> At("start")]
  /\ word = [w \in Words |-> IF w = test.tohost THEN 0 ELSE test.first]
  /\ armed = [w \in Words |-> FALSE]
  /\ test_count = 0
  /\ verdict = Silent
  /\ spoilt = FALSE
  /\ complete = FALSE

Retire ==
  \/ BootStep \/ StartCase \/ CaseHolds \/ CaseFails \/ CaseTraps \/ DropToUser
  \/ mtvec_handler \/ stvec_handler \/ TEST_PASSFAIL \/ RVTEST_FAIL \/ RVTEST_PASS
  \/ Ecall \/ trap_vector \/ write_tohost

\* $finish ends the run with the verdict.
Cycle == verdict = Silent /\ Retire /\ Watch

Wait == verdict = Silent /\ Bubble /\ Watch

EnvNext == Cycle \/ Wait

\* The core retires instructions for ever (Pipeline, RetiresForever).
EnvSpec == EnvInit /\ [][EnvNext]_envVars /\ WF_envVars(Cycle)

-----------------------------------------------------------------------------

\* PASS is printed only for a test that came to its end with every case right, and FAIL only
\* for one that went wrong, although the environment reports through ecall, the supervisor
\* handler answers a user-mode failure with RVTEST_PASS, and the testbench takes test data at
\* 0x2000 for a tohost (riscv_test.h:193-217, 262-277; tb_Verilator.sv:164-190, 239-271).
VerdictIsRight ==
  /\ verdict.result = "PASS" => complete /\ ~spoilt
  /\ verdict.result = "FAIL" => spoilt

\* A case runs at the level of its test with the trap vector installed, whichever CSRs the
\* boot code found missing (riscv_test.h:111-141, 219-249).
CasesRunPrepared ==
  hart.pc[1] \in {"case", "check"} =>
    /\ hart.mtvec = At("trap_vector")
    /\ hart.priv = test.level \/ (hart.priv = PrvU /\ hart.pc[2] = Cases)
    /\ hart.medeleg = IF test.handler = "stvec_handler" THEN DelegatedCauses ELSE {}

\* The simulation says PASS for a test whose every case was right, run at its own level
\* with its own handler, and for no other (riscv_test.h:111-277;
\* tb_Verilator.sv:164-271).
VerdictsAreEarned == VerdictIsRight /\ CasesRunPrepared

Reported == verdict # Silent

\* Every test ends with a verdict; none is left to the time limit of the simulation.
EveryTestReports == <>Reported
=============================================================================
