------------------------------- MODULE MCUnits -------------------------------
(***************************************************************************)
(* The units of the core that no module of the pipeline opens up, each on  *)
(* its own: one unit is at work, and the other units are at rest.          *)
(***************************************************************************)
EXTENDS Multiplier, Predictors, LoadStore, CsrNumbers, PmpRef

VARIABLES
  unit,      \* the unit at work
  access,    \* the CSR instruction in ID, or NoCsr
  question   \* the word the decoder is given

unitVars == <<unit, mulVars, predictorVars, loadStoreVars, query, access, question>>

-----------------------------------------------------------------------------
(* Half words of two bits: words 0..15, with both ends of the signed and of   *)
(* the unsigned range, and halves that are all ones and all zeros.            *)

McOperands == {7, 8, 15}
McRds == {0, 1}

-----------------------------------------------------------------------------
(* Two branches, of which the history maps both to the same entries, a jump   *)
(* of either kind and any other instruction.                                  *)

McTypes == {"NONE", "STATIC", "DYNAMIC_1bit", "GSHARE"}

McCode ==
  {[pc |-> 2, kind |-> "branch", backward |-> TRUE],
   [pc |-> 3, kind |-> "branch", backward |-> FALSE],
   [pc |-> 0, kind |-> "JAL", backward |-> FALSE],
   [pc |-> 1, kind |-> "JALR", backward |-> FALSE],
   [pc |-> 1, kind |-> "other", backward |-> FALSE]}

-----------------------------------------------------------------------------
(* Two words, every lane of one and the first of the other; bytes of one bit, *)
(* their sign.  The word that is stored, 1110, makes every size of store      *)
(* leave another pattern.                                                     *)

McData == {14}
McAccessed == {0, 1, 2, 3, 4}

-----------------------------------------------------------------------------
(* Every opcode the decoder knows and two it does not, with every funct3 and  *)
(* the registers and funct7 that an encoding distinguishes.                   *)

McWords ==
  [opcode : {0, 3, 15, 19, 23, 35, 47, 51, 55, 99, 103, 111, 115, 127},
   funct3 : 0 .. 7, funct7 : {0, 1, 8, 24, 32, 33, 102, 103},
   rd : {0, 5}, rs1 : {0, 1}, rs2 : {0, 1, 2, 28}]

Decode == INSTANCE InsnDecode WITH Words <- McWords, instr <- question

-----------------------------------------------------------------------------
(* Every CSR instruction there is, one at a time: the verdict of the decode   *)
(* stage against the names of env/encoding.h.                                 *)

NoCsr == [number |-> -1]

Accesses ==
  [number : 0 .. \hfff, priv : {PrvU, PrvS, PrvM}, write : BOOLEAN, sse : BOOLEAN, tvm : BOOLEAN]

Ask == access = NoCsr /\ access' \in Accesses

Answer == access # NoCsr /\ access' = NoCsr

-----------------------------------------------------------------------------

(* A unit at rest stays as it was reset.                                      *)

UnitsInit ==
  /\ MulInit /\ BpuInit /\ MemoryInit /\ CheckerInit /\ access = NoCsr
  /\ unit = "predictor" \/ BPU_TYPE = "NONE"
  /\ \/ unit \in {"multiplier", "predictor", "memory", "checker", "registers"} /\ question = 0
     \/ unit = "decoder" /\ Decode!Init

UnitsNext ==
  /\ UNCHANGED unit
  /\ \/ unit = "multiplier" /\ MulNext
        /\ UNCHANGED <<predictorVars, loadStoreVars, query, access, question>>
     \/ unit = "predictor" /\ BpuNext
        /\ UNCHANGED <<mulVars, loadStoreVars, query, access, question>>
     \/ unit = "memory" /\ MemoryNext
        /\ UNCHANGED <<mulVars, predictorVars, query, access, question>>
     \/ unit = "checker" /\ CheckerNext
        /\ UNCHANGED <<mulVars, predictorVars, loadStoreVars, access, question>>
     \/ unit = "registers" /\ (Ask \/ Answer)
        /\ UNCHANGED <<mulVars, predictorVars, loadStoreVars, query, question>>
     \/ unit = "decoder" /\ Decode!Next
        /\ UNCHANGED <<mulVars, predictorVars, loadStoreVars, query, access>>

UnitsSpec == UnitsInit /\ [][UnitsNext]_unitVars

-----------------------------------------------------------------------------
(* The names and numbers of the CSRs *)

\* The names of the header, by the level whose letter they begin with.
EncodedAt ==
  [level \in {PrvU, PrvS, 2, PrvM} |->
     CASE level = PrvU -> UserCsrs \cup UserHighHalves \cup FastInterruptCsrs.user
       [] level = PrvS -> SupervisorCsrs \cup SupervisorViews \cup SupervisorHighHalves
                            \cup FastInterruptCsrs.supervisor
       [] level = 2    -> VirtualSupervisorCsrs \cup HypervisorCsrs \cup HypervisorHighHalves
       [] level = PrvM -> MachineCsrs \cup ProtectionCsrs \cup DebugCsrs \cup MachineCounters
                            \cup MachineInformation \cup MachineHighHalves
                            \cup FastInterruptCsrs.machine]

Encoded == UNION {EncodedAt[level] : level \in DOMAIN EncodedAt}

EncodedName(n) == CASE n = "pmpcfg0"  -> <<"pmpcfg", 0>>
                    [] n = "pmpaddr0" -> <<"pmpaddr", 0>>
                    [] OTHER          -> <<n>>

\* What a program means by the names of the core's list; the header has no name for ssp.
ImplementedNumbers ==
  {CoreCsr.ssp} \cup {e.number : e \in {f \in Encoded :
                        \E n \in DOMAIN CoreCsr : f.name = EncodedName(n)}}

ReadOnlyNames ==
  {<<n>> : n \in {"cycle", "cycleh", "instret", "instreth",
                  "mvendorid", "marchid", "mimpid", "mhartid"}}

\* The name puts a register out of reach: a register of a level is closed to the levels
\* below it, and the counters and the identification registers to every write.
NameForbids(a) ==
  \E level \in DOMAIN EncodedAt : \E e \in EncodedAt[level] :
     /\ e.number = a.number
     /\ a.priv < level \/ (a.write /\ e.name \in ReadOnlyNames)

-----------------------------------------------------------------------------
(* The properties of the decoder and the CSR numbers; the other units' modules *)
(* name their own.                                                             *)

\* A word is legal exactly if it encodes an instruction, and then one only
\* (Decoder.sv:378-519).
LegalIffEncoded == unit = "decoder" => Decode!LegalIffEncoded

\* The ALU performs the operation that the encoding names (Decoder.sv:206-288).
AluDoesWhatIsNamed == unit = "decoder" => Decode!AluDoesWhatIsNamed

\* The classes that the pipeline is modelled with are those the decoder makes
\* (Decoder.sv:91-202, 293-322).
ClassesAreDecoded == unit = "decoder" => Decode!ClassesAreDecoded

\* A CSR of the core answers at the number by which programs call it, and no other number
\* answers (CPU_TOP.sv:165-182 against env/encoding.h).
AnswersToItsName ==
  access # NoCsr /\ access.priv = PrvM /\ ~access.write =>
    (~privileged_illegal(access) <=> access.number \in ImplementedNumbers)

\* No access gets through that the name of the register forbids (CPU_TOP.sv:347-350;
\* isa/rv64mi/csr.S:63-73 expects the traps).
AccessByName ==
  access # NoCsr /\ NameForbids(access) => privileged_illegal(access)

-----------------------------------------------------------------------------

\* What the core lets through is what the encoding names: an instruction is legal exactly
\* if it encodes one and does what that one says, and it reaches a CSR exactly if the name
\* of the CSR says that it may (Decoder.sv:60-519, CPU_TOP.sv:165-182, 347-350).
ChecksAsNamed ==
  /\ LegalIffEncoded /\ AluDoesWhatIsNamed /\ ClassesAreDecoded
  /\ AnswersToItsName /\ AccessByName
=============================================================================
