# EsCute-RV in TLA+

EsCute-RV is a five-stage RV32I core in SystemVerilog with M, S and U mode, one
PMP entry, a four-stage multiplier, branch prediction, and the control-flow
extensions Zicfilp (landing pads) and Zicfiss (a shadow stack). Around it the
repository has a port of CoreMark, the ISA tests with their environment, and
testbenches. This directory models the core and what runs on it, checks the
models with TLC and proves parts of them with TLAPS. Paths are relative to the
repository; line numbers without a file refer to `user/src/CPU_TOP.sv`.

## The system

| component | state | operations | interacts through |
| --- | --- | --- | --- |
| `CPU_TOP.sv`, `PC.sv`, `PR_*.sv`, `NextPC_Generator.sv` | PC and the four pipeline registers | one clock edge: trap, xRET, misprediction, stall, predicted fetch, sequential fetch | every other component's wires |
| `CSR.sv` | 27 CSRs, privilege level, ELP | reset, trap entry (delegated or not), MRET, SRET, `ssp` update, ELP update, CSR write | exception port, xRET port, `ssp`/ELP ports (from EX, ID and WB), CSR instruction in EX |
| `HazardUnit.sv` | none | forwarding, load-use, multiplier hazards, shadow-stack serialisation | stalls and flushes the front end |
| `MUL.sv` | four stages | start, advance, flush by a redirect | commits through the register file's single write port |
| `PMP_PMA_Checker.sv` | none | access check | instantiated for fetches (IF) and data (EX) |
| `Decoder.sv`, `imm_extender.sv`, `ALU.sv` | none | control signals, immediates, results | ID and EX |
| `DRAM.sv`, `StoreUnit.sv`, `LoadUnit.sv` | data memory and its output register | write in MEM, read into WB | MEM and WB |
| `IROM.sv` | instruction memory | asynchronous read | IF |
| `BPU.sv` and three predictors | tables, history | predict in ID, train in EX | redirects the fetch from ID |
| `RegisterF.sv` | registers | one write, three reads | commit port, ID |
| CoreMark: `core_list_join.c`, `core_state.c`, `core_matrix.c`, `core_util.c`, `core_main.c` | one memory block divided into a list, a text and three matrices; checksums; the number of iterations | list, state and matrix benchmark, checksum, calibration, validation | the list benchmark calls the other two; `main` hands out the block and judges the checksums |
| its port: `coremark/escute/` | start and stop time | read the 64-bit counter in halves, divide in software, print, choose the seeds | `mcycle`/`mcycleh`, `TOHOST` |
| test environment: `data/isa/env/` | `TESTNUM`, trap vectors, two watched words | boot code, trap vector, handlers, verdict macros | CSRs by number, memory |
| `sim/tb_Verilator.sv` | two armed flags, a counter, the verdict | look at two words and register a7 once a cycle | the test's stores and registers |

What makes each of them correct:

* the pipeline: software sees instructions execute one at a time, each
  completing or trapping without another effect;
* the CSR unit: no existing or missing privilege by any sequence of writes,
  traps and returns; ELP pending only where it is enabled and carried through
  traps; the PMP lock;
* the multiplier and the hazard unit: no lost result, no stale operand, no
  stall that feeds itself;
* the checker: exactly the accesses of the PMA window and the PMP entry;
* the predictors: an outcome trains the entry that predicted it, and a constant
  branch is learnt;
* the data memory: an array of bytes, whatever the sizes of the accesses;
* the decoder: a word is legal exactly if it encodes one instruction, and does
  what that one says; a CSR answers at the number of its name;
* CoreMark: every part hands its data back as it found it, so that each
  iteration computes what the first did; results are what they are named for;
  every loop ends; only right first results pass;
* the runtime: `/` and `%` of C, texts that read back as their values, times
  that passed;
* the tests: PASS for a test whose every case was right, for no other, and a
  verdict always.

Hard to test in the core are the interleavings of instructions in flight: a
result that arrives in the same cycle as another one, a redirect that flushes
too much or too little, an exception found early (ID), in EX or late (WB), a
verdict taken in IF and used in ID, several sources that update one CSR in one
cycle. In the software they are data structures that are taken apart in place
and put together again, limits and signs, a counter that runs on while it is
read in halves, boot code that steps over what a core lacks, and a verdict
that two observers may give. There is no crash recovery, no message passing
and no second hart. `PROJECT.json` lists each hazard at its line, with the
property that would notice.

## The modules

| module | models | state and actions |
| --- | --- | --- |
| `Levels` | `PRV_U`, `PRV_S`, `PRV_M` of `defines.svh` | constants |
| `CsrFile` | `CSR.sv` as operators on one record | a CSR value is the set of its 1 bits; one operator per branch of the clocked process, and `CsrNext` for their if/else chain |
| `Csr` | the CSR unit on its own | one action per branch; the guards are what the pipeline guarantees |
| `PmpPma` | `PMP_PMA_Checker.sv` | operators, with the address width as a parameter |
| `Decoder` | `Decoder.sv`, for `Pipeline` | an instruction is a record of its fields, `op` a representative of its class |
| `HazardUnit` | `HazardUnit.sv` | operators over the three producers and the multiplications in flight |
| `Pipeline` | `CPU_TOP.sv` and its registers, `MUL.sv`, `DRAM.sv`, `RegisterF.sv` | wires as state functions with the names of the RTL; a step is one rising clock edge |
| `Isa` | the abstract specification | one action per kind of instruction and per trap |
| `PipelineIsa` | the refinement mapping from `Pipeline` to `Isa` | adds the history variable `paid` |
| `PipelineCsr` | that the pipeline respects the assumptions of `Csr` | |
| `Asm` | an assembler for the programs of the runs | |
| `Multiplier` | `MUL.sv` | four stages with the partial products, each register cut to its width; start, advance, flush |
| `Predictors` | `BPU.sv` and the static, one-bit and gshare predictors | tables, history, the branch in ID and in EX; predict, wait, resolve |
| `LoadStore` | `StoreUnit.sv`, `DRAM.sv`, `LoadUnit.sv` | words in lanes; access, clock edge; a memory of bytes as reference |
| `PmpRef` | a reference for `PmpPma`: permissions byte by byte | a state is one question to the checker |
| `InsnDecode` | `Decoder.sv` by fields of the word | one output per case statement; the encodings as reference |
| `CsrNumbers` | CSR numbers in `defines.svh`, 165-182, 347-350, and in `encoding.h` | the verdict of ID on an access by number |
| `CycleTimer` | `mcycle` and the reading of it in `core_portme.c` | every instruction of the loop, any number of cycles for each |
| `SoftDiv` | `soft_div.c` | one action per turn of the loop over the bits |
| `EePrintf` | `ee_printf.c` | both formatters on one format, one conversion a step |
| `ListSort` | `core_list_mergesort` | one action per turn of the merging loop |
| `CoreList` | the list benchmark | build, search, swap, sort, reverse, restore |
| `CoreState` | the state benchmark | one byte of a scan a step; corrupt and restore |
| `CoreMatrix` | the matrix benchmark | one operation a step, in a memory of 16-bit halves |
| `Crc` | the checksums of `core_util.c` | one number a step, of two messages side by side |
| `Calibration` | the choice of the iterations in `main` | one action per run of the benchmark |
| `CoreMain` | `main` from the seeds to the verdict in `TOHOST` | uses `Calibration` and `Crc`; each algorithm right or wrong |
| `TestEnv` | `riscv_test.h`, `test_macros.h`, the core's traps, `tb_Verilator.sv` | one cycle: at most one instruction, then the testbench looks |
| `MC*` | the instances TLC checks | |
| `Arithmetic`, `CsrFileProofs` | lemmas about numbers and about CSR values | |
| `*Proofs` | theorems | |

`MCUnits`, `MCCoreMark` and `MCRuntime` each hold several components that do not
interact. The initial states choose one and the others stand still, so a run covers the
sum of their states and not the product. The components that have theorems are
extended and keep their names; of the others only one at a time has its variables in
the registers `r1`, `r2`, .... A property that the components' modules do not
state themselves is the conjunction of some that they do, and
`PROJECT.json` has a mutant for each conjunct.

A clock edge does one of six things to the front end, and these are the actions
of `Pipeline`: `Trap`, `XReturn` and `Recover` in the order of lines 857-871,
then `Stall` (1111), `PredictedFetch` (873-876) and `SequentialFetch`. They
exclude each other, except that a conditional branch may be predicted either
way. Each of them also moves the back end (`BackEnd`): EX/MEM, memory, MEM/WB,
multiplier, register file and CSRs move at every edge. No action
is separated from what happens in the same cycle, so a conflict between
two of them shows.

`Isa` executes whole instructions. Between the two, an instruction counts when
it leaves EX, because from there on only SSPOPCHK can still trap: the abstract
registers and memory are the concrete ones with the writes in MEM, WB and the
multiplier completed. SSPOPCHK counts when WB has compared, an instruction that
traps in ID when it traps. An LPAD clears ELP when it leaves ID, one cycle
before it counts; `paid` remembers that. `ImplementsIsa` states
both halves of the refinement: the initial states correspond, and each clock edge is
one step of `Isa!Next` or a stutter. `RefinementInv` is what must be known of the
stages for that, `PrecisePrograms` what must be known of the program; the four
runs of `ImplementsIsa` check the latter of their programs, and
`PipelineIsaProofs` proves the refinement from both.

`Csr` checks the CSR unit against all sequences of requests, more than any
program of the other runs makes; its guards state when the pipeline may make a
request. `UsesCsrUnit` states those guards from the pipeline's side, and
`PipelineCsrProofs` proves that they hold for every program.

### Abstractions

* `XLEN` is the width of registers and addresses. The pipeline runs use 24 bits
  so that the labels of landing pads (bits 31:12 in the RTL) exist; `Csr` uses
  4 bits. CSR values always have 32 positions. `PmaLimit` (64 KiB in the RTL)
  is 32 bytes: eight words of program and eight of data. Addresses beyond it
  fault as they do in the RTL.
* One ALU operation, one multiplication, word loads and stores, BEQ and BNE stand for
  their classes in `Pipeline`: the control treats the others alike, and
  `InsnDecode` shows that the classes are those the decoder makes. `LUI` stands for every
  result of the ID adder. `enc`, the encoding of an illegal instruction, only
  reaches `mtval`.
* The registers start with given values; the RTL leaves them undefined at reset
  and software must write them first.
* A run starts after boot code: `AfterBoot` gives the CSRs the values it wrote and
  executes its MRET (or, for `ResetCsr`, at reset). That MRET is still in MEM
  (`BootMret`).
* A conditional branch may be predicted taken or not at will. That covers the
  static, the one-bit and the gshare predictor, whatever they have learnt; JAL
  is always predicted, JALR never, and `BpuEnabled = FALSE` is `NONE`.
* `Pipeline` computes the product in the multiplier's first stage and carries it
  on; `Multiplier` assembles it on the way, as the RTL does.
* `CoreList` sorts in one step, by a stable sort; `SortStable` proves of
  `ListSort` that the merge sort is one. `CoreMain` takes from `Calibration` how the iterations are
  chosen, and leaves free whether each algorithm computes the right result.
* The sizes of words are parameters in `Multiplier`, `SoftDiv`, `LoadStore`,
  `EePrintf` and `CycleTimer`; `Crc`, `CoreState` and the numbers of
  `CoreMatrix` have the widths of the program.
* In `TestEnv` a case is right, wrong or traps as it likes; what the suite's
  tests differ in (level, handler, expected trap, the words they store, which
  of the two watched words is data) is a record.

## What is checked

| run | instance | states | properties |
| --- | --- | --- | --- |
| `data` | all programs of 4 out of 9 instructions with data hazards, M mode, every prediction | 107,527 | `CommitPortExclusive`, `RedirectSparesOlderMul`, `ImplementsIsa` |
| `cfi` | 3 out of 12 instructions, a fixed tail with a landing pad and SSPOPCHK, three boots (S, U, U without shadow stack) | 108,257 | `TypeOK`, `InFlightDiscipline`, `PopCheckTrapPrecise`, `SspPortExclusive`, `NothingRunsBeforeThePad`, `ElpOnlyWhereEnabled`, `ImplementsIsa` |
| `machine` | 3 out of 12 instructions in M mode: CSR writes followed by what depends on them, landing pads on and off, no prediction | 51,686 | `ImplementsIsa` |
| `trap` | 3 out of 11 instructions below M mode, S and M handlers, with and without delegation and a PMP entry | 58,179 | `ExecutesOnlyPermitted`, `ImplementsIsa`, `UsesCsrUnit` |
| `live` | 3 out of 10 instructions: everything that can stall | 16,442 | `StallsEnd`, `HeldExceptionResolved`, `RetiresForever` |
| `csr` | 16 writes, 2 causes, all traps and returns, reset at any time | 547,680 | `CsrTypeOK`, `MppLegal`, `ElpOnlyWhereEnabled`, `TrapReturnRoundTrip`, `PmpSticky`, `RiseOnlyByTrap`, `MachineStateIsolated` |
| `units` | multiplier, predictors, memory, checker, decoder, CSR numbers, one at a time | 1,166,751 | `CorrectProduct`, `PredictorsLearn`, `AccessesAreOfBytes`, `CheckerIsExact`, `ChecksAsNamed` |
| `coremark` | calibration, sort, list, state machine, matrices, checksum, `main`, one at a time | 258,709 | `AutomaticRunIsValid`, `SortIsStable`, `DataIsKept`, `ResultsAreRight`, `SameAgain`, `PartsEnd` |
| `runtime` | division, printf, timer, test environment, one at a time | 244,502 | `DividesLikeC`, `PrintsItsArguments`, `TimeIsMeasured`, `VerdictsAreEarned`, `ReadingsAndTestsEnd` |
| `lost_write` | one program | | `CsrWriteNotDropped` is violated |
| `align` | one program | | `FetchAligned` is violated |
| `stale_verdict` | one program | | `ExecutesOnlyPermitted` is violated |

Deadlock is checked in every run of the core: some action is always enabled,
since the clock never stops. In `coremark` and `runtime` it is not, because
those programs end; `PartsEnd` and `ReadingsAndTestsEnd` say that they do.

Why the bounds are enough. In the core two instructions can only meet while both are in the
pipeline or the multiplier; an instruction stays there for at most eight cycles, and at most four
instructions follow it before it commits. Three or four free instructions,
a tail or a handler of one to four more, and every prediction reach all
the meetings the properties speak of; a longer program repeats them. The
alphabets contain every class of instruction, so that each run pairs
the producers and consumers it is about. The programs end in a self-loop, so all
state spaces are finite without a bound on time.

In the other three runs:

* multiplier: words of four bits with both ends of the signed and unsigned
  range; `ProductsAreCorrect` proves it for every width;
* predictors: four entries, so that two branches share some, and two bits of
  history, which changes while a branch is on its way (`INDEX_BITS`,
  `META_BITS`); a branch is learnt within the steps of its counter;
* memory: two words of four one-bit bytes, whose sign is the byte itself;
  every operation at every offset of the first word and at the first byte of
  the second; `MemoryBehavesAsBytes` proves it for every size;
* checker: all accesses of 1, 2 and 4 bytes in 32 bytes, under every value of
  the entry that the address width has room for; the two top bits of `pmpaddr`
  reach beyond the address space and are covered only where they leave it empty.
  `CheckerDecidesByByte` proves it for every width;
* decoder: every opcode it knows and two it does not, every `funct3`, and the
  registers and `funct7` that an encoding tells apart; all 4096 CSR numbers at
  every level;
* calibration: every machine from one iteration per tick to 300 ticks for one
  (`McCosts`), on both sides of each threshold; `AutomaticRunsAreValid`
  and `AutomaticRunsAreShort` prove it for all;
* sort: lists of up to six nodes with three keys: three rounds of merging, runs
  without a partner, ties; `SortStable` proves it for every length and all keys;
* list: blocks for 8, 10 and 18 items at two pointer sizes, three calls in a row
  (`MaxCalls`);
* state machine: every filling that `core_init_state` leaves in small blocks,
  and every text of five bytes from the classes the scanner tells apart that
  begins with a digit or a sign; two calls in a row;
* matrices: blocks for N = 1, 3 and 9, any alignment, two calls in a row. N = 9
  is the size of the 2K run; the sums do not overflow 32 bits there;
* checksum: messages of 32 bits, twice its length, so that the first bits have left it;
* printf: 8-bit numbers at their limits, every flag, width and precision of one
  conversion, and pairs of the conversions CoreMark uses;
* timer: a lower half of 16 values (`Lo`), which two attempts to read cannot
  overtake, and an upper half of three (`Hi`), so that both overflow;
* tests: two cases (`Cases`), one shape for each kind that the suite has,
  each of six optional CSRs missing or not; `VerdictsEarned` proves the verdicts for any.

`PROJECT.json` names, for every property of a passing run, a mutant: a changed
definition with which the property fails. The mutated forms stand right before
the definitions they replace.

### Fairness

`FairSpecH` assumes weak fairness of the whole next-state relation: the clock
keeps ticking. Nothing else is assumed. In particular no prediction is assumed
to be right, so a program that is mispredicted for ever must still make
progress. The same holds of `Cycle` in `TestEnv`.

The calibration, the sort and the scan of a text run on once they are called:
weak fairness of their steps, as one sequential program on a core that retires
instructions for ever (`RetiresForever`). The program may stop between two
calls of the state machine. In the timer only the reading of the counter is
fair; the work that is timed need not end.

### Disagreements that a run shows

1. **A CSR write is lost before a landing pad** (`lost_write`). `CSR.sv` serves
   `elp_update_valid` (402) before `csr_we` (404), and CPU_TOP raises it (827)
   for every LPAD that passes its check in ID, even when landing pads are off
   or none is expected. A CSR instruction that falls through into
   such an LPAD is in EX in that cycle, and its write is dropped, though it
   reads its old value and retires. `CSR.sv:4` says the unit implements Zicsr.
   The programs of the passing runs keep an LPAD from directly following a CSR
   write; with such a pair `ImplementsIsa` fails for the same reason.
2. **The fetch address is not always aligned** (`align`), contrary to the debug
   assertion at 1163: a predicted JAL or branch to a half-word target moves the
   PC there for a cycle. The exception that follows is precise, and
   `ImplementsIsa` is not affected.
3. **A PMP lock binds M mode late** (`stale_verdict`). `README.md:170` says M
   mode is bound by the entry once L is set. The verdict is taken at fetch, and
   the instructions then in IF and ID still execute. `trap` checks the same
   property below M mode, where the entry cannot change, and it holds there.

### Observations without a run

They lie outside what a document, comment or test of the repository promises,
outside the inputs the program gives itself, or in what is not modelled. The
models of the passing runs follow the code and name their inputs accordingly.

* `core_list_join.c:583` writes through `tail`, which is NULL for the empty list
  that the comment at `:586` allows for; CoreMark never sorts one (`Lengths`
  begins at 1).
* `core_list_join.c:109`: with a seed and size at which the generated data
  collide (seed 6 in 240 bytes, for instance) two items have one `idx`, and the
  sort back by `idx` is not the original order. `ListRestored` uses the
  seeds of the standard runs. The loops at `:216`
  and `:228` walk the nodes but add the head's data every time.
* `core_state.c:122`: the text "-87e+832", listed among the scientific numbers,
  is not one to the scanner, which takes an exponent only after a point.
  `ClassifiesTokens` follows the scanner's rule.
* `core_state.c:80-101`: a mask that turns a character of the text into a comma
  (2 turns a point into one) would keep the second pass from restoring it. The
  standard seeds give no such mask, and `BlockRestored` is checked for theirs.
* `core_matrix.c:32-33`, `:208`: a block of 33 bytes at an odd address would not
  hold its matrices after the alignment. The comment says that the upper half of
  the bits of B is zero; B has 16 bits and uses all of them.
* `core_main.c:359-380`, `:429`: only the first iteration's checksums are
  validated; `SameAgain` is why that is enough. A run of less than ten seconds
  passes with a message (`:401-406`), and `:389` prints ticks as 32 bits.
* `core_portme.c:18` includes `core_portme.h`, which chooses the run by
  `TOTAL_DATA_SIZE` (216-225), before `coremark.h` gives that its default of
  2000: without any flag the seeds are those of the validation run.
* `Decoder.sv:504-507` accepts the reserved `funct3` of FENCE.
* `sim/tb_Verilator.sv:252` prints twice the number of the failed case plus one,
  `:267` the number itself.

`CFI_Instruction.md` (lines 42 and 47) also says that SSPUSH pushes rs1; line
186 of the same file and `Decoder.sv:96` say rs2, which the model follows.

## What is proved

TLAPS proves the following for all constants: every width from 4 to 32, every program, every set
of boot states, with and without prediction. A program is any content of the instruction
memory that can be encoded (`ProgramsAssumption`: the immediate of LUI is a word, the
offsets of JAL and the branches are even) and reads the registers that the
model has; a boot state has no pending landing pad, a legal MPP, and aligned
`pc`, `mepc` and `sepc` (`BootsAssumption`), which `CSR.sv` guarantees of the latter two. The assumptions are those named in `CsrFile`
(`XlenAssumption`), `PmpPma` (`PmaAssumption`), `Pipeline` (`RegsAssumption`,
`ProgramsAssumption`, `BootsAssumption`), `Csr` (`PortsAssumption`) and in the
modules of the multiplier, the predictors, the division, the timer, the
sort and the calibration (lengths and keys are numbers, bytes of at most 8 bits, at most 31 bits of index and history, and two
instructions that take fewer cycles than the counter has values above its lower half).
`TestEnv` assumes of a suite (`SuiteAssumption`) that only tests of supervisor mode bring a
`stvec_handler`, which needs the delegation registers, and that a test stores no odd data in
the second watched word if that word is ever zero.
That the PMA window ends within the address space (`PmaAssumption`) holds in the RTL
because `PMA_LIMIT` is a signal of 32 bits.

* `CsrProofs`, for the CSR unit under every sequence of requests: all seven
  properties of the run `csr`. `CsrTypeCorrect`, `MppStaysLegal`,
  `ElpStaysEnabled`, `PmpLockHolds`, `TrapsAreUndone`, `LevelRisesByTrap` and
  `MachineStateStaysIsolated`. `MppLegal` is what makes `CsrTypeOK` inductive:
  MRET copies MPP into the privilege level. `ElpOnlyWhereEnabled` needs the
  guard that nothing but a trap or the landing pad reaches the unit while ELP
  is set: a write could otherwise switch the enable off under a pending landing
  pad. The round trip follows from both, because a return restores ELP only
  where it is enabled.
* `PipelineProofs`: `InFlightDisciplineHolds`, `CommitNeverConflicts`,
  `RedirectNeverKillsOlderMul`, `PopCheckTrapsPrecisely`,
  `SspNeverContended`, `PadComesFirst`, `ElpStaysEnabled`,
  `ControlTypeCorrect`, and `TypeCorrect`, the whole of `TypeOK`.
* `PipelineCsrProofs`: `CsrUnitUsedAsAssumed`, that the pipeline keeps to the
  guards of `Csr` for every program. Every step of the CSR unit inside the core is
  then a step of `Csr!Next` for the requests that occur, so in a core that starts
  at reset, or with CSRs that boot code set up through the same unit, the
  theorems of `CsrProofs` hold.
  `FetchesStayPermitted`: whatever the program writes, EX holds no instruction
  that its mode may not fetch, unless the hart is in M mode with a locked entry.
  `OnlyPermittedExecutes`: not even there, if the program leaves the
  entry to the boot code. What remains is the disagreement `stale_verdict`.
* `PipelineIsaProofs`: `PipelineImplementsIsa`: under `PrecisePrograms`, the core
  implements `Isa`.
* `UnitProofs`, for units on their own. `PartialProductsFit` and
  `ProductsAreCorrect`: for every even number of half-word values no register
  of the multiplier is too narrow and the result is the half of the product that the
  operation asks for. `PredictionsLearn`: for every size of table and history a
  branch trains the entry that predicted it and a constant branch is learnt.
  `MemoryBehavesAsBytes`: for every number of words the store unit, the memory and the
  load unit together are an array of bytes. `CheckerDecidesByByte`: for every
  width of addresses and every PMA window the checker's comparisons decide exactly
  what the bytes of the access and of the entry decide.
* `SoftwareProofs`, for the code that runs on the core. `DivisionKeepsAccount`
  and `DivisionIsC`: for every width the loop keeps dividend = quotient *
  divisor + remainder up to the bits still to come, and the four functions
  return what C defines, zero divisor and smallest number included.
  `TimeMeasured`: two halves that belong together and an exact elapsed time, for
  all widths of the halves. `AutomaticRunsAreValid`: the
  iterations chosen automatically take ten seconds at least, on every machine
  and clock. `AutomaticRunsAreShort`, a conjunct of `ResultsAreRight`: they take no
  more than a hundred, unless the first ten already do: the turn before the last took
  less than a second, and rounding then leaves the run below 22.
  `VerdictsEarned`: for every number of cases, every suite of tests and
  every set of missing CSRs, what the simulation prints is what the test deserves, and
  each case runs at its level with its handlers in place. `SortStable`: for every length
  and all keys, CoreMark's merge sort loses no node while it relinks the list, returns all of them
  in order with equal ones as they were, and has compared each of two or more.

The pipeline's properties are not inductive. That the write port is free for the multiplier
depends on what was in WB, MEM and EX one, two and three edges before.
`InFlightDiscipline` says it stage by stage: behind a
multiplication nothing enters EX; when it is in its second stage, MEM is empty, and
when it is in its third, WB is too; while a shadow-stack access is in MEM or WB, what
is behind it is empty; an empty stage has all its enables off; JALR is never
predicted. The last is needed because a
landing pad is safe only if the indirect jump always redirects, which empties
ID. With `NothingRunsBeforeThePad`, `ElpOnlyWhereEnabled`, the types of the
control fields and the legality of MPP (`CsrOK`) this is the inductive
invariant `IInv`. The proof that a step preserves it has one step per part; the lemmas of
`CsrFileProofs` say what `CsrNext` does to types, MPP and ELP.

`PipelineCsrProofs` strengthens `IInv` to `CInv` by two facts. What decode let
through is still allowed when EX performs it (`ExMayRun`): whatever happens at the
clock edge that issues it is neither trap nor xRET, and no write takes back a
right at the level it is made at (`WritesKeepRights`), since the enables and
TSR, TVM are registers of a higher level. And an SSPOPCHK under way finds the
shadow stack still enabled (`PopCheckEnabled`), since nothing reaches the CSR
unit while it is in MEM and WB. The lemmas before it say that the operators of
the instance `Unit` are those of `CsrFile`.

`FetchesStayPermitted` needs that the verdicts of IF and ID still agree with the
entry (`VerdictsCurrent`): only CSR writes in M mode change the entry, they take
effect while younger instructions are fetched, and only a locked entry binds M mode.

`PredictionsLearn` follows a streak of equal outcomes of one branch through the
predictor. The last outcomes of the history, as many as the streak is long, are alike
(`HistoryAlike`); the history that the branch in EX carries is one outcome behind
(`CarriedAlike`), because it was taken before the branch ahead had trained. So once the
streak is one longer than the history, each outcome trains the
entry of the full history, and two of them turn its counter (`CounterTurns`). That a
history is a number and its bits are the outcomes is arithmetic: k outcomes are alike
if the number, plus one if they are taken, is a multiple of 2^k.

`TimeMeasured` remembers of the registers `hi1`, `lo`, `hi2` which counter values
they are halves of, and that the counter cannot have gone round between the two reads
of the upper half: equal upper halves then mean that no overflow lay between.

`MemoryBehavesAsBytes` keeps that every word of the memory is the four bytes of the
reference and that the access in MEM is aligned: the strobes and the shifted data of a
store then change just its lanes, and a load picks its bytes out of one word.
`CheckerDecidesByByte` has no state to remember; its difficulty is the NAPOT
entry. The ones at the low end of the register determine one power of two
(`TrailingOnes`) and the base is what is left above it (`NapotMatches`). An access lies in a
region exactly when its first and its last byte do, and none of the sums wraps, not even
where an access would end beyond the last address.

`VerdictsEarned` follows a test label by label. `Booting` says what each write of the boot
code has left behind, so that a trap of a guarded access comes out behind its guard and MRET
finds the level of the test in MPP; `Prepared`, that nothing afterwards touches the vectors.
`InCase`, `InTrap` and `AtEnd` carry along whether the test is spoilt: an
expected trap keeps it clean, any other leads to a failure. Two facts close the
argument. From the moment a magic number is in a7 the test deserves it (`Deserved`), and the
third cycle with it comes before the trap it causes has led anywhere that changes a7
(`Reporting`), which is why other traps are told from it by `test_count`. And a watched word
is odd only where a test went wrong (`WordsAreHonest`): `write_tohost` is reached with a gp
that `other_exception` has made odd and larger than 1, and the other word, once the
testbench has seen it zero, holds even data. The last is what `SuiteAssumption` says of the tests.

`SortStable` follows the list in an order of its nodes, a function that is not in the code: the
links lead from each place to the next, except at the end of the merged list and at the end
of a run (`Linked`). Taking a node from the first run leaves the order as it is; taking one from
the second moves it in front of the rest of the first (`Rotated`). Between two passes every
block of `insize` places holds the nodes that began there, sorted (`SortedPass`); within a merge
three stretches are sorted, the merged list, the rest of the first run and the second run up to
its end (`Merging`). Stability is what needs the words "that began there": of two equal
heads the one of the first run has the smaller number, whichever nodes have been taken. That a
merge ends at a block, or at the end of the list, is arithmetic about multiples of `insize`
(`StartFacts`); that one merge means one block is `nmerges = 1 => m <= 2 * insize`. A node is left
uncompared only while it is alone in its block, and then it is a head when the block is first
merged (`FirstCompared`); a block without a partner is compared a pass later. That `along`, a
recursive function, walks the order is proved by showing its values (`Follows`), which needs
no induction over data but only the set of distances at which it fails (`NoFailure`). TLC
checked the invariant (`SortInv`) on lists of up to six nodes before the proof.

### The refinement

`PipelineImplementsIsa` has one hypothesis, `PrecisePrograms`. It leaves out the
programs with a landing pad right behind a CSR write (`NoPadBehindWrite`) and those
that write the PMP entry themselves (`PmpLeftToBoot`). Both kinds really
misbehave: they are the disagreements `lost_write` and `stale_verdict`. The
modules of the four runs of `ImplementsIsa` state it as an assumption, so TLC
evaluates it for their programs.

The argument rests on `CInv`, on the types (`DInv`), on the instructions in the stages
being those of the memory, and on `RefinementInv`, whose parts are needed for:

* `ProgramOrder`: the instruction that executes next in `Isa` is the one in EX,
  or the one fetched behind it, whatever was predicted;
* `AddressesAligned`: `Isa` takes the trap for a misaligned target at the jump, and
  the core fetches from such a target only behind a predicted jump that is
  going to trap in EX (the disagreement `align`);
* `OperandsForwarded`: the forwarded operands are the abstract registers, which
  is the correctness of `HazardUnit.sv`: forwarding, load-use, and everything that
  waits for the multiplier;
* `LegalInEX`: an instruction that ID lets through without a trap is legal;
* `OneMultiplication`: there is at most one write to come from the multiplier;
* `PopsUnderWay`: an SSPOPCHK in MEM or WB is compared with what the abstract
  machine would read now: nothing has moved `ssp`, the memory or the registers;
* `PadPaid`: a landing pad that has cleared ELP is in EX with the right label.

`RfAbsNext` and its neighbours then say that the abstract registers, memory, CSRs and
program counter change exactly by what leaves EX, and one lemma for each kind of
instruction and trap names the action of `Isa` that this is.

`TypeCorrect` and the refinement need to know that the value of a set of bits
is a word, and divisible by four if the two lowest are absent. `Value` is a sum over a
set. It is proved by induction over the size of the set, in a form
the provers accept: a set of sizes at which the claim fails, that with each size has the
one below and never zero, is empty (`NoFailure` in `Arithmetic`).

### What is only model-checked

* `ResultsAreRight`, `DataIsKept`, `SameAgain` and `PrintsItsArguments` are about
  what recursive definitions compute on lists, matrices, texts and messages, and need
  induction over data. Of the
  parts of the run `coremark`, the sort and the calibration have theorems of their own.
* `ChecksAsNamed` compares finite tables: TLC looks at all of the 4096 CSR numbers and at
  every opcode, and there is no constant that a proof could generalise.
* Liveness (`StallsEnd`, `HeldExceptionResolved`, `RetiresForever`, `PartsEnd`,
  `ReadingsAndTestsEnd`), which is out of the prover's reach, as is `ENABLED`.

## What is not modelled

* In the core: reset in the middle of a program (only `Csr` resets at any time);
  the immediate formats; the results of the ALU other than addition and
  equality, and the branch conditions other than BEQ and BNE, which are data to
  the control; `mispredict_counter`, which nothing reads; `instret`, which the
  core answers with the cycle counter; the debug outputs and assertions on
  decoder wires.
* Interrupts, paging and vectored traps do not exist in this core.
* CoreMark's command line, multiple contexts, profiling hooks and the wording of
  the report; the `%f` conversions (`cvt.c` is not compiled in); `start.S` and
  `link.ld`: that the image stays below the word of the verdict at 0x7F00 is a
  property of the linked image, which the script's assertions do not state.
* The bodies of the ISA tests, the encodings, field masks and causes of
  `encoding.h` other than the CSR numbers and the causes `TestEnv` uses.
* Waveforms, clock generation and the time limit of the testbenches, and the unit
  testbenches, which drive inputs and compare outputs.
* The demonstrations of ROP, COP, JOP and Zicfi, memory images, synthesis and
  build scripts: inputs of the core or tool flow.

## Plan

Done: the core, its abstract specification, its inductive invariant and the
proof of the refinement; every unit of the core on its own; CoreMark, its port and
the test environment; the guards of the CSR unit proved from the pipeline's
invariant; the merge sort proved for lists of any length. What could come next:

1. Reset at any time in `Pipeline`, with the memory kept.
2. The immediate formats in `InsnDecode` and the remaining operations of the ALU.
