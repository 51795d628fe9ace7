# Verification of the RV32IM pipeline

TLA+ models of the RTL under `src/hardware/source/pipeline_async/rev_RV32IM/`
(`rtl/` and `model/`) and of the benchmark that runs on it, model-checked with
TLC and proved with TLAPS for every word width, memory size, program and
instruction encoding.

## 1. Inventory

| Part | RTL | State | Operations |
|---|---|---|---|
| Core | `rv32im_cpu.sv`, `datapath.sv`, `stage_*.sv` | PC, four pipeline registers | rising clock edge, `n_rst` falling |
| Hazard unit | `hazard_unit.sv` | none | forwarding selectors, `lwStall`, flushes |
| Decoders, immediates | `controller.sv`, `maindec.sv`, `aludec.sv`, `extend.sv` | none | instruction to control signals and immediate |
| ALU, adder | `alu.sv`, `adder.sv` | none | 18 operations, four flags |
| Branch logic | `Branch_Logic.sv` | none | branch decision, `PCSrc` |
| Register file | `reg_file_async.v` | 32 registers, no reset | two asynchronous reads, one write |
| tohost CSR | `csr.sv` | one word | written from the execute stage |
| Byte lanes, memory | `be_logic.sv`, `ASYNC_RAM_DP_WBE.v` | `2^AWIDTH` words | asynchronous reads for fetch and load, byte-enabled write |
| Bus | `Addr_Decoder.v`, `data_mux.v`, `SMU_RV32IM_System.v` | synchronised reset | chip selects, read multiplexer |
| Timer | `TimerCounter.v` | compare, counter, status | count, match, clear on status read |
| TBMAN | `tbman_*.v` | `irq_force`, print buffer | print, putint, exit |
| FPGA memory | `dualport_mem_synch_rw_dualclk.sv` | memory, two read registers | synchronous read |
| Benchmark | `timer_tests/dhrystone/*.c`, `dhrystone.h` | Dhrystone's variables, times, number of runs | read the counter, make runs, try again, report |

How they interact: the stages exchange values only through the pipeline
registers and the forwarding multiplexers, all in one clock domain. The hazard
unit reads the source and destination fields of four stages and drives two
stalls and two flushes. The memory stage drives address, data and write enable
to the decoder; memory, timer and TBMAN all see them; the multiplexer returns
one word in the same cycle. The test environment watches `tohost_csr`.

What is hard: five instructions are in flight at once and every register
changes at the same edge, so "the current value of x5" may be in any of four
places; a load, a taken branch and a reset each break the normal flow, and can
meet; the fetch runs three stages ahead of the store that may change what is
fetched; the CSR is written out of order with respect to older instructions.
In the data path the hard cases are at the edges of the number range.
The core cannot take a store back once it is on the bus, and a peripheral acts
on every access it sees: a wrong-path store would be printed, an instruction
that is not a load may read a register that reading changes. The timer runs by
itself: a match, a read and a write can meet in one cycle, and a program reads
a counter that wraps around and stands still after a match.
There is no concurrency of processes, no messages and no persistence; the only
asynchronous event is the reset, which reaches core and TBMAN at once and the
timer at the next edge.

What makes each part correct: the core executes the program as if one
instruction at a time (`ISASpec`); the hazard unit delivers current operands
and never loses a flush; the ALU and the branch logic compute what the
instruction set defines for every operand; memory behaves as a sequence of
bytes; the timer reports each match once; the console shows exactly what the
sequential program stored to it; parts leave a reset together; a reported
measurement is exact.

`PROJECT.json` lists under `hazards` what is hard to test here, each at its
line, with the properties that cover it.

## 2. Modules

| Module | What it is |
|---|---|
| `BranchLogic` | `Btaken`, shared by the pipeline and the ALU check |
| `Rv32im` | constants and assumptions; decoders, immediate selection, small combinational helpers |
| `Immediates` | `extend.sv` for 32-bit words |
| `Isa` | abstract specification: the sequential machine a program believes it runs on |
| `Pipeline` | the core with its memory, clock by clock |
| `PipelineIsa` | properties of the pipeline, its inductive invariant and the refinement mapping to `Isa` |
| `PipelineProofs` | theorems about the hazard handling of `Pipeline`, and that it implements `Isa` |
| `AluUnit` | `alu.sv` and `adder.sv`, bit-accurate |
| `AluCheck` | `AluUnit` and `BranchLogic` against the arithmetic of the instruction set |
| `DatapathProofs` | theorems about `AluUnit`, `BranchLogic` and `Immediates` |
| `ByteLanes` | `be_logic.sv` and the write port of the RAM |
| `LanesCheck` | `ByteLanes` against a byte-addressed memory |
| `LanesProofs` | theorems about `LanesCheck` |
| `Arithmetic` | lemmas on induction, recursion, div and mod for the proofs |
| `MCPipeline` | instance of `PipelineIsa` for TLC: 8-bit machine and its programs |
| `Alarm` | abstract specification: an alarm with an exact period |
| `Timer` | `TimerCounter.v`, edge by edge, for any sequence of accesses; its refinement of `Alarm` |
| `TimerProofs` | theorems about `Timer` |
| `Tbman` | `tbman_regs.v` and `tbman_apbs.v` of a SIM build |
| `System` | `SMU_RV32IM_System.v`: `Pipeline`, `Timer`, `Tbman`, bus and reset button |
| `SystemCheck` | what a program on the system can rely on, with history variables |
| `SystemProofs` | theorems about `System`, console and polling, by way of those about `Pipeline` |
| `Rv32System` | the system with the parameters of the RTL (32-bit words, encoding, memory map): nothing is assumed any more |
| `MCSystem` | instance of `SystemCheck` for TLC and its programs |
| `Dhrystone` | one run through Dhrystone as a function on its variables |
| `Benchmark` | `main` of `dhrystone_main.c` measuring with `Timer` |
| `BenchmarkProofs` | theorems about `Benchmark` and `Dhrystone` |

### How `Pipeline` corresponds to the code

* Variables are the RTL's registers: `PC` (`u_pc_register`), `FD`, `DE`, `EM`,
  `MW` (the flops of `stage_F_D`, `stage_D_E`, `stage_E_M`, `stage_M_W`), `rf`,
  `tohost_csr` and `mem`. `devData` is the word a peripheral drives in the
  current cycle, an arbitrary member of `DevValues`.
* Wires are state functions with the names of `datapath.sv` (`RD1E_H`, `SrcB`,
  `PCSrc`, `lwStall`, ...). Two-, three- and four-way multiplexers are `IF` or
  `Mux3`, whose fourth input is `mux3.sv`'s default.
* `Clock` is one rising edge of all of them; it is the conjunction of one
  operator per stage, each stating what that stage's flops latch. `Reset` is
  the falling edge of `n_rst`: everything with a reset input takes its reset
  value, the register file and the memory keep theirs.
* An instruction word is an opaque number; the constant `Decode` gives its
  fields, including the immediate in each of the six formats. The bit positions
  are those of `Rv32System`, which decodes 32-bit words as the RTL does and takes
  the immediates from `Immediates`; the instances for TLC have tables instead.
* The ALU and the byte lanes are constant operators, bound in `MCPipeline` to
  the bit-accurate modules at 8 bits. Undriven results (`32'hx` for BLTU and
  BGEU) are a nondeterministic choice from `DontCare`.

`Isa` has one action per class of instructions, written from what the class
does and not from control signals. It keeps what a program can observe of this
particular core: `jalr` does not clear the low bit, every SYSTEM instruction
writes tohost, and a CSR instruction leaves no defined value in its destination.
The refinement mapping reads the architectural registers from the youngest of
memory stage, write-back stage and register file, the memory through the store
in flight, and the pc from the oldest instruction not yet executed. An
instruction takes effect at the edge at which it leaves the execute stage;
bubbles and stalls are stuttering steps.

`Isa` shares `Alu`, `Loaded`, `Stored` with the pipeline: the refinement shows
that the right operation is applied to the right operands at the right time.
That the operations themselves are right, and that they are what the proofs
assume of them, is shown in `AluCheck`, `LanesCheck` and their proofs.

### How the system is composed

`System` extends `PipelineIsa` and instantiates `Timer` and `Tbman`. In
`Pipeline` the word a peripheral drives, `devData`, is arbitrary; in `System` it
is the wire `PeripheralRead`, a function of what the timer and the TBMAN hold and
of the address in the memory stage. So `System` restricts `Pipeline` and adds to
it: every step of the system is a step of the core or none (the lemma
`SystemRunsCore`), which carries all theorems over.

* `Edge` is a rising edge in operation: core, timer and TBMAN move together,
  the latter two on what the memory stage asks of them (`TimerBus`,
  `TbmanBus`). `data_re` is the negation of `data_we`, as in the top.
* `ResetFalls` is `reset_ff` going low: asynchronous resets of core and TBMAN
  (which keeps its print buffer). It precedes any further edge.
* `HeldEdge` is a rising edge under reset, the only one at which the timer is
  cleared.
* The button's level is an arbitrary input at each edge. `$finish` ends the
  simulation: `finished` stops everything.

`Timer` has the bus as the argument of its action `Tick`, so that the same
action serves alone (any access at any edge), in `System` (the core's accesses)
and in `Benchmark` (those of `main`). `Benchmark` does not run its C code on the
core: a statement takes as many clock edges as it likes (`Elsewhere`), which
includes those the core takes.

In `Dhrystone` characters are their codes, strings the numbers of the
texts in the order of `strcmp`, arrays functions on the indices that the
program uses (the proofs show that it uses no other), a `Boolean` is 0 or 1 as
in C, and a procedure is a function on the record of all variables.

## 3. Runs

| Run | Question | Size |
|---|---|---|
| `pipeline_programs` | Do all programs of three instructions behave as on `Isa`? | 13 824 programs, 204 000 states |
| `pipeline_reset` | The same with a reset at any cycle and changing peripheral data | 49 programs, 13 000 states |
| `pipeline_live` | Can the core lock up? | 576 programs, 10 000 states |
| `alu_exact` | Are results and branch decisions exact? | all 65 536 pairs of operands |
| `lanes` | Do sub-word stores and loads behave as bytes? | all contents of a word |
| `timer` | Is the timer an alarm with an exact period, and one that keeps ringing? | 12 words, 143 states |
| `system` | Do programs see console and timer as they were meant to, with the button pressed up to twice at any cycle? | 9 programs, 25 000 states |
| `benchmark` | Are the reported times exact and the variables right, however long each statement takes? | 32 words, 85 000 states |
| `signed_compare` | slt/blt/bge for every operand: refuted | |
| `csr_number` | tohost is CSR 0x51e only: refuted | |
| `jalr_target` | jalr clears the low bit: refuted | |
| `phantom_read` | only a load takes a match away: refuted | |

Bounds. The pipeline is five stages deep, but a hazard involves the
instruction in decode or execute and at most the two or three in front of it;
programs of three arbitrary instructions, followed by a jump to itself and two
instructions that must never execute, contain every combination of producer,
producer and consumer at every distance, every instruction behind a taken
branch, and loops (there are backward branches and computed jumps). Four
registers are enough for x0, two sources and an unrelated one. Eight words of
memory alias often and hold program and data, so stores into code occur. The
table of 26 instructions has each row of the main decoder, both values of each
field that the ALU decoder looks at, loads and stores of two widths, accesses
to memory, to peripherals and to unmapped addresses, and in every format
register fields that are not registers but hit one by accident. Width 8 keeps
carries, signs and wrap-around of the ALU; no definition depends on the width.

`timer` lets a program do anything to the timer that is `Careful`: a compare
value is not 0 and lies beyond the next count unless a match waits. Twelve words
leave room for periods shorter and longer than any delay between accesses.

`system` has seven polling programs, whose compare values put the match at each
phase of the polling loop (one of them behind the counter already, so that it is
met only after a wrap-around of the 8-bit counter), and two printing programs
with lines longer than the buffer (two characters instead of 128), byte stores,
and reads of the other TBMAN registers. A character is two bits, so that a byte
store's lanes exist in an 8-bit word. The history `polling` records how far a polling loop is, and the invariant `Polls`
checks that these programs keep the rules under which `PolledOnce` is proved.
`MaxPresses = 2`: a second press can hit
the program restarted by the first; `presses` counts edges with the button
down, so two in a row are one longer press.

`benchmark` uses words of 5 bits for times and counts: the counter wraps around
or freezes within a measurement, and ten times the runs overflows on the second
retry. The variables of Dhrystone keep their values, which are larger than
those words, except for the one that counts runs. `ElapsedMax` bounds only the
history variable `elapsed`, beyond the counter's period. `MeasurementExact` and
`Reports` speak of a measurement that begins in the first half of the counter's
first period, which on the board is 2^31 cycles after reset. What the code does
after that is not what its author can have meant: the counter has matched the
compare register, nobody reads the status, both readings are 0, and `main` tries
again for ever, soon with 0 runs.

`CHECK_DEADLOCK FALSE` appears where the precondition `CodeStable` may stop a
behaviour (a program that stores into what is being fetched is not followed
further) and where the sweep over operands or the programs end (`$finish` in `system`, the end of `main`
in `benchmark`).

Preconditions. `ISASpec` and `FetchCoherent` hold under `CodeStable`: no store
hits a word that a younger instruction has been or is being fetched from. The
core has no `fence.i` that would make more true. All other properties are
proved without it. So the hazard of a store into code in flight is delimited, not
covered: what a program sees that makes one is not specified. `TohostAfterStores`
speaks of stores; older writes to registers may be in flight when tohost changes.

Fairness. `LiveSpec` assumes weak fairness of `Clock`: the board's oscillator
runs. Reset is left out of it: a core held in reset makes no progress.
`ReleasedSpec` (run `system`) assumes it of the edges with the button released
and of the reset arriving: the clock runs and nobody leans on the button.
`PolledSpec` (run `timer`) assumes that the clock runs and that the program goes
on polling. `Benchmark` assumes that the clock runs and that no statement lasts
for ever (`Executed`), which is `Progress` of the core.

## 4. Proofs

`PipelineProofs` proves, from the named assumptions of `Rv32im` and `Pipeline`
(sizes positive, regions disjoint, word 0 decodes to an unknown opcode,
`NopWord` to an R-type writing x0, ALU and lanes return words, ADD adds, and
the reset value of `PC_Plus4` is not the successor of the reset PC):

* `TypeCorrect`: every register holds a value of its width.
* `HazardsInvariant`, `OperandsAreCurrent`, `SlotsInOrder`, `BubblesDoNothing`,
  `FlushesWin`: `HazardInv` and with it `OperandsCurrent`, `InOrder`,
  `BubblesHarmless` and `FlushNotLost` hold in every reachable state, for every
  program and with resets at any time.
* `StallsLastOnce`: a load-use stall never lasts two cycles.
* `TohostOrdered`: when tohost changes no older store is in flight.

The argument. None of the four is inductive: `OperandsCurrent`, say, depends on
what decode latched two cycles before. The invariant `HazardInv` adds what the
pipeline registers remember: the control signals in `DE` are those of its
instruction (`ControlsDecoded`); a slot that holds no instruction holds word 0
or `NopWord` and all-harmless controls (`BubbleSlots`); a latched operand is
the register's value unless one of the two instructions ahead is about to
change it (`OperandsLatched`); and a producer whose value is not `ALUResult_M`
is never directly ahead of its reader (`LoadGap`, which is what the load-use
stall and the flush behind a jump are for). A clock edge then has three cases
(`FrontEnd`): stall, redirect, advance; only the last one moves an instruction
into execute. TLC checks `HazardInv` in `pipeline_programs`.

It also proves that the core does not lock up:

* `NeverLocksUp`: `Progress`, from `[]<><<Clock>>_vars`, that the clock ticks again
  and again. `LiveSpec` says that it ticks when it can, and that it always can is
  a matter of ENABLED, which the prover does not know; TLC checks `Progress`
  under `LiveSpec`. An empty slot in execute is filled at the next tick or at the
  one after it (`SlotsFill`), and a stall ends at the next (`StallEnds`).

And, under `CodeStable`, the refinement:

* `FetchIsCoherent`: `FetchCoherent` holds in every reachable state. It is
  inductive together with `HazardInv`.
* `PipelineImplementsIsa`: `CodeStableSpec => ISASpec`, the refinement.

and, without that precondition,

* `StoresArePosted`: the memory stage, where the bus starts, holds the stores of
  the program and no others, each with the address and data the sequential
  machine gives it, one edge later.

The argument. Three lemmas say what an edge does to each part of the
architectural state: only the instruction in execute changes the registers
(`RegsRetire`), the memory (`MemRetire`) and the pc (`PcRetire`); the two in
front of it were already counted. `SameInstruction` says that this instruction
and its operands are those `Isa` would use: the word by `FetchCoherent`, the
operands by `OperandsCurrent`. `SameOperation` and `SameDecision` compare the
ALU decoder and the branch logic with `Isa`'s. With these, `ClockExecutes` has
one case per class of instructions, `ClockStutters` covers bubbles, and
`ResetResets` shows that a reset loses at most two registers and one word.
What is assumed of ALU and byte lanes is proved of the real ones below.

`TimerProofs` proves of `CarefulSpec`, for every `Modulus > 2`:

* `TimerTypeCorrect` and `MatchStaysAhead`, from the invariant `TimerInv`, which
  adds to `MatchAhead` that the compare value is not 0: the counter does not
  pass the compare register while no match waits, and differs from it while one
  does (it is then at 0 or one beyond), so that a second match cannot undo the
  read.
* `TimerImplementsAlarm`: the refinement of `Alarm`. The edges of a period are
  counted from the answer to the ring, the detour of the counter to one beyond
  the compare value being invisible.

`SystemProofs` proves, from `BusAssumption` besides the above (address 0, which
reset leaves on the bus, is no peripheral's):

* `SystemTyped`: types, and `devData` is what the multiplexer selects.
* `SystemHazardsHandled`, `SystemImplementsIsa`: what is proved of the core holds
  of the system.
* `ReleasesClean`: after any press of the button core, timer and TBMAN leave the
  reset together and clean.
* `ConsoleIsFaithful`: `ConsoleFaithful` for every program, any number of presses
  at any time, and any length of the print buffer.
* `MatchesCounted` and `LoadsTakeMatches`: `PolledOnce` and `MatchTakenByLoad` of
  every program that polls in turn (`Polls`).

`ConsoleFaithful` compares the console with the whole history of stores
(`written`), less the one that is on its way. It is not inductive: when that one
arrives, nothing in it says that it is the store the history ends with. The
invariant `ConsoleInv` adds just this (and types), and needs `HazardInv` of the
core to be kept. An edge does two things at once: the store on the bus reaches
the TBMAN (`ConsoleAdvances`: buffer and console become those of one entry
more, the buffer being the first `LineMax` characters since the last newline,
`LineAdvances`) and the store in execute goes on the bus (`StoreOnBusType` and
`AskedIsPosted`, which is `StoresPosted` seen from the history). A reset takes
the store on its way out of both (`ConsoleReset`). TLC checks `ConsoleFaithful`
in `system`.

Neither `PolledOnce` nor `MatchTakenByLoad` is true of every program (section 5,
`phantom_read`). What a program must do is the state predicate `Polls`: only
`PollWord` computes an address of the status register, each answer is added to
the count by `AddWord` before the next poll, nothing else touches either
register, and a compare value is stored in time. It speaks of the instruction
in execute and of the history `polling`, so it can be checked of a program
instruction by instruction; every program that keeps it is covered, wherever its
loop is and whatever else it does. The run `system` checks that its programs
satisfy `Polls`, so the hypothesis is one that programs meet, and that both
properties hold of them. Where the ALU leaves its result undriven (bltu, bgeu), any
word of `DontCare` may be the address: with `DontCare` all words, as in
`Rv32System`, a program that executes these two is not one that `Polls`.

The invariant `PollInv` is an account of the matches: count, answer not yet added
and status register together are `matches`. A poll counts as executed when it
leaves execute, but takes its answer one edge later, in the memory stage; in
between, a status that is being read counts as read (`Answering`). From then on
the answer moves on to its register, and the count may be ahead of its register,
too. `QuietSlots` says that the words in empty slots, which have register fields and an ALU result like any other, reach no
peripheral: bubbles are reads, too. Stalls matter because `AddWord` behind the poll
is held for a cycle, and resets because they clear all of it at once.

`DatapathProofs` proves, for every `Width >= 2` and `ShiftWidth >= 1`:

* `AluTyped`, `UnsignedCorrect`, `UnsignedBranchesCorrect`,
  `SignedCompareCorrect`, `ComparesAgree`, `BitsCorrect`, `ProductsCorrect`,
  `DivisionCorrect`: each property of the run `alu_exact`, at 32 bits too, which
  no sweep reaches. The invariant is only that the operands are words
  (`AluInv`); the work is in the lemmas: `SubtractionIs` (the flags of
  `a + (~b + 1)`, which are those of a subtraction but for one `b`), `CarryIs`,
  the laws of quotient and remainder by sign, and the bits of a sum, of a
  product by a power of two and of the word made of given bits.
* `AluMeetsItsAssumptions`: `AluAssumption` and `FlagsAssumption`, on which all
  proofs about the pipeline rest, hold of this ALU. `FlagsAssumption` equates
  BLT with what SLT returns and not with the signed order, so that it is true of
  the ALU as it is.
* `ImmediatesRecovered`: from a 32-bit instruction that carries an immediate in
  one of the six formats, `extend.sv` recovers it, for every immediate in the
  format's range. The layout of the formats (`Carries`) is the instruction
  set's.

`LanesProofs` proves, for every even size of a byte (the halves of a byte and of a
halfword, which decide the sign, must exist):

* `StoresAreExact`, `LoadsAreExact`: the properties of the run `lanes`. `LanesInv`
  joins the first to the types, since a store is exact only on a word;
  `LanesOfComposed` and `ComposedOfLanes` say that a word is its four lanes and
  nothing else.
* `LanesMeetTheirAssumption`: `LanesAssumption` of the pipeline holds of these
  lanes, for reserved widths and unaligned addresses too.

`BenchmarkProofs` proves, for every even `Modulus > 2`, every number of runs and
every frequency with `HZ * NUMBER_OF_RUNS` a positive long, and any duration of
each statement:

* `BenchmarkTyped`, `MeasurementIsExact`. `MeasureInv` says at which statement
  the counter, `Begin_Time` and `End_Time` are how far apart: the counter is
  `Begin_Time + elapsed`, or it has matched and stands at 0. Either the number of
  runs is still the first one or the counter is `Late`, in the second half of its
  first period or beyond: a difference below 1 is possible only then, so what is
  reported of a measurement that began in time (`Begin_Time >= 0`) is the first
  try.
* `FinalValuesAreExpected`: `FinalInv` says that the variables are `Ready` for a
  run (which needs the pointers, the discriminant and the first string that
  `main` sets up, and the types of the arrays), hold the expected values once a
  run has been made, and that the array has counted the runs of all tries,
  overflows included. `OneRunIsExpected` follows one run through all procedures;
  `RunsAreExpected` is the induction over the runs.

`Rv32System` proves of the RTL's own parameters that everything assumed above is
true of them, and so removes the assumptions:

* `AssumptionsHold`: all ten assumptions, of words of 32 bits, 131072 words of
  memory, the opcodes and fields of the encoding (`Decode`), the three regions of
  `Addr_Decoder.v`, the ALU of `AluUnit` at 32 bits, the lanes of `ByteLanes` at 8
  bits, and the polling instructions `lw a5,512(a4)`, `add a0,a0,a5` and
  `li a0,0`. For `Decode`, `FieldsOf` cuts a word into its fields by division,
  `ImmediateType` takes the immediates from the proofs about `extend.sv`, and
  `KnownWords` decodes the two words that flush and reset put in a slot. For the
  map, `RegionHolds` shows that the regions are disjoint.
* `Rv32ImplementsIsa`, `Rv32HazardsHandled`, `Rv32NeverLocksUp`,
  `Rv32ReleasesClean`, `Rv32Console`, `Rv32MatchesCounted`: the theorems of the
  same content, with no hypothesis about constants. Open in them are the contents
  that memory and registers power up with, the undriven ALU results and how often
  the button is pressed.
* `Rv32PrintsLowByte`: a store of any width to the print port itself prints the low
  byte of its register; a byte or halfword stored to a higher lane of the port
  prints character 0, since the TBMAN ignores the byte enables. `ConsoleFaithful`
  takes the word on the bus as what the program asked for and does not say this.

Recursive functions and inductions. `SetInduction` and `RecursionExists` of
`Arithmetic` derive induction over the naturals, and the existence of a function
defined by recursion, from the well-foundedness of `<`, for sets and functions
instead of operators. Powers of two, the words made of bits, the runs of
Dhrystone and the places in the history are handled with them.

Only model-checked:

* liveness under fairness: `KeepsRinging`, `Finishes`, `Reports`, and `Progress` as
  far as it follows from `LiveSpec` instead of a clock that ticks. Fairness and
  ENABLED are outside what the provers can do.

## 5. Deviations found

* `signed_compare`: `alu.sv` subtracts by adding `~b_in + 1` computed as a
  word. For `b_in = 0x80000000` the overflow flag is wrong: `slt` returns 1 and
  `blt` is taken for every `a_in`. `SignedCompareExactButMin` shows that this
  is the only operand, `CompareConsistent` that the errors agree.
* `csr_number`: every SYSTEM instruction writes tohost, not only CSR 0x51e.
* `jalr_target`: the low bit of a jalr target is kept.
* `phantom_read`: `data_re` is asserted for every instruction that is no store.
  An `addi` that forms the address of the status register clears a match that
  waits there; the `lw` behind it reads 0. A program that forms the base address
  once and uses an offset, as those of `system` do, is not affected:
  `LoadsTakeMatches` shows that `Polls` is enough.

Three more, without a run: the comment at `TimerCounter.v:68` has the counter reset
when it equals the compare register, while it is reset one cycle later (`Alarm`
has the exact period); the comment at `dhrystone_main.c:315` says that `Proc_2`
makes its parameter 4, while `main` expects 5 and gets it (`FinalValues`); and
`dhrystone_main.c:226` expects `Arr_2_Glob[8][7]` to be `Number_Of_Runs + 10`, which
it is only after a single try, because nothing resets it between tries
(`FinalValues` has the runs of all tries plus 10).

## 6. What is not modelled, and what is left

* No run uses the bit patterns of instructions: `Decode` of `Rv32System` is proved
  about, not enumerated.
* The FPGA memory (`dualport_mem_synch_rw_dualclk.sv`) and the branches of the
  define FPGA: no simulation environment sets it, and the committed core takes
  the word in the same cycle.
* `cycle_count`, a statistic shown at exit, and the timer's interrupt output,
  which is unconnected.
* Simulation control in the testbenches (timeouts, file loading, waveforms), the
  board's displays and UART pins, which the top leaves unconnected.
* Software. The repository's C files are test programs. Of them only Dhrystone
  is modelled, because it measures with the timer; the copy in `tbman_tests` is
  the same code with the measurement replaced by a constant. The others
  (`sum`, `fib`, `vecadd`, `replace`, the string and print library) are small
  sequential computations without a hazard of their own; `riscv-tests`, which is
  most of the C and Python in the repository (register-number headers, a
  debugger test suite, matrix kernels), is vendored and does not run here beyond
  its assembler tests. So the share of C lines with a definition is small, and
  stays small: the program of this repository is the RTL. Any program is an
  instance of the constant `Programs`.
