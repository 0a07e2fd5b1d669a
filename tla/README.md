# A verification project for the high-level synthesis compiler

The repository compiles C++/LLVM functions to Verilog: a scheduler assigns
instructions to clock cycles, a control path generator turns the schedule into
registers and conditions, and a small library of Verilog modules (fifos, AXI
handlers, a floating point adder, line buffers) provides what the generated
hardware is connected to. This directory models the parts whose correctness
depends on order and time: the compiler's algorithms step by step, and the
hardware they produce cycle by cycle; and, for the language the compiler reads,
that a program keeps its meaning and its timing on the way to the code the
scheduler gets. TLC checks the models on small instances; TLAPS proves the
theorems for all values of the constants.

## 1. The system

| part | state it keeps | operations | hard behaviour |
|---|---|---|---|
| inlining (`scheduling.cpp` `inlineWireCalls`, `inlineFunctionWithConstraints`) | the blocks of the top function, constraints on labelled times | replace one call after the other | blocks split under labels and pipelines, constraints moved to markers named by text, instances of one function kept apart |
| block order (`scheduling.cpp` `buildControlPreds`, `topologicalSortOfBlocks`) | work queue, visited set, kept edges, sorted list | one breadth first walk, repeated sweeps | loops without bounds of their own, edges kept by an order nobody names |
| scheduling problem (`SchedulingProblem`, `ExecutionConstraints`, `addStandardConstraints`, `addOrderConstraints`, `createMemoryConstraints`) | inequalities over start and end times, handed to Z3 | add blocks, edges, tasks, resources, memory dependences | what is *not* constrained: iterations of a pipeline against each other, blocks that share a state |
| state transition graph (`buildSTG`, class `StateTransitionGraph`) | blocks per state, pipelines, tasks | queries about jumps and blocks of a state | blocks that start, end and continue in one state |
| control path (`microarchitecture.cpp`) | `state_<s>_is_active`, `state_<s>_entry_BB_reg`, `state_<s>_last_BB_reg`, `out_of_pipe_*`, `delayed_signal_*`, counters | one clock edge | several states active at once, pipelines that fill, wait and drain, tasks that all start on reset |
| data path and binding (`microarchitecture.cpp`, `binding.*`) | `data_store_*` registers of each state, `state_<s>_last_state`, units shared by instructions | one clock edge | values of different iterations, paths and blocks of one state |
| functional units (`hls.cpp`, `microarchitecture.cpp` `createUnit`, `instructionPortAssignments`, `buildPortControllers`) | the nets and who sets them | bind, connect, one clock edge | widths and signs of constants, ports left alone, instructions that share a unit |
| fifo and its clients (`builtins.v`, `implementRVFifoRead/Write...`) | memory, two addresses, a flag; the state of two stall protocols | read, write, reset | both ports in one cycle, wrap-around, a ready used later than it was seen |
| AXI handlers, clients and memory (`builtins.v`, `axil_ram.v`, `implementAXI...`, `implementRawAXI...`) | ready/valid registers, the state of four stall protocols | start, request, response, reset | answers that last one cycle or too long, blocks of one call in different states |
| floating point unit (`builtins.v` `adder`, `fadd`) | a state machine of twelve states, operands, significands with guard bits | start, one clock edge, reset | rounding and its carries, a latency that depends on the data, a start during a sum |
| line buffers, memories (`push_linebuf`, `push_fifo` in `builtins.v`, other `.v`) | arrays, counters, a flag for the cycle before | one clock edge | windows at the borders, outputs that last one cycle |
| Synthesis C++ front end (`parser.*`, `expression.h`) | tokens and a position, operator stacks, syntax trees, blocks being built, the pipeline being built, what names and labels stand for | parse, generate | statement kinds tried in turn, precedence, blocks left open, pipelines inside and after others, labels at the last instruction made |
| Halide front end (`halide_arch.*`, `llvm_codegen.h`) | LLVM functions, its table of streams, the loops it builds | a list of passes, then one task for each loop | passes in an order that sets of pointers choose, streams taken away, loops side by side without any means to wait |
| back ends (`verilog_backend.*`, `coreir_backend.*`) | none | printing; writing test benches | the assertions they can print state properties of the control path; benches that fill and read memory around a run |

How they interact: the front ends make LLVM functions and constraints on their
timing; inlining makes one function of the one that becomes hardware and those it
calls; the block order and the
constraint builders describe it to the solver; its solution is read into the
state transition graph; the control and data path generators emit registers,
conditions and wires for every state; the back ends print them. At run time the
parts that interact are the control path of one function, its tasks (each a
thread of states), and the library modules they share, which are connected by
ports and meet once per clock cycle. In a simulation the generated test bench is
a further one, at the debug ports of a memory.

What makes each part correct:

- *block order*: kept edges have no cycle; no forward edge is lost; the list
  respects them; both loops end.
- *control path*: control is neither lost nor duplicated; registers have one
  writer per cycle; an active state has a block to execute; blocks follow the
  control flow graph and phis see the block control came from; iterations are
  at least an initiation interval apart; a loop that is left is left, with no
  iteration still in flight; tasks start once and at reset.
- *fifo*: it is a bounded queue; with the generated clients no word is lost and
  nobody waits for ever.
- *resource and memory constraints*: no two operations use a unit or a port in
  the same cycle, also of different iterations; dependences are respected
  across iterations.
- *data path*: an instruction reads the value the program would read there; the
  generator finds a register for every value that is read from one.
- *functional units*: an instruction gets what it computes, at the time the
  scheduler was told, and no unit acts when none of its instructions is active.
- *Halide front end*: the loops, side by side, write what the program writes, and
  all of it.
- *test benches*: the verdict is that of comparing memory with what is expected.
- *AXI handlers*: a call returns when its write is in the memory or with the word
  last written to its address; no call waits for an answer that has gone.
- *floating point unit*: the answer is the rounded sum of the operands of the
  last start, and it is there when it is read.
- *front end and inlining*: text is read as what was written; the blocks run the
  program's statements and tests, and those of the functions it calls, in their
  order; a pipeline's blocks are its loops'; the constraints that reach the
  scheduler allow each instruction to start when the functions' own constraints
  do, neither earlier nor later.

## 2. The modules

| module | models | extends |
|---|---|---|
| `ControlPreds` | the two loops of the block order, one action per iteration | |
| `ControlPredsProof` | theorems about `ControlPreds` | `ControlPreds`, TLAPS |
| `FifoQueue` | abstract: a bounded queue with a registered output | |
| `Fifo` | module `fifo` of `builtins.v`, one action per kind of clock edge | |
| `FifoChannel` | the fifo with a generated producer and a generated consumer | `Fifo` |
| `FifoChannelProof` | theorems about `Fifo`, the refinement of `FifoQueue` included, and about `FifoChannel`: nothing is lost, the clients conform | `FifoChannel`, TLAPS |
| `StateGraph` | the state transition graph's queries and the jumps the control path is made of, as operators on a scheduled function | |
| `BlockSchedule` | which schedules of a function satisfy the constraints about blocks, control edges, pipelines and tasks; the pipelines that are single loops, which theorems are about | `StateGraph` |
| `Control` | the registers and wires of the control path; one action, the clock edge | `StateGraph` |
| `Sequential` | abstract: a task executing its part of a control flow graph one block at a time, once or again and again | |
| `ControlPipelined` | `Control` with two history variables for each state of a pipelined loop | `Control` |
| `ControlTasks` | `Control` with a history variable for tasks; each task without pipelines implements `Sequential` | `Control`, `BlockSchedule` |
| `ControlProof` | the types of `Control`, lemmas about its wires, jumps and registers, and where control is in functions with pipelined loops | `Control`, `BlockSchedule`, TLAPS |
| `ControlTasksProof` | theorems about `ControlTasks`: threads, registers with one writer, entries, the refinement of `Sequential` | `ControlTasks`, `ControlProof` |
| `ControlPipelinedProof` | theorems about `ControlPipelined`: phis, writers, pipelines alone, the distance and the order of iterations | `ControlPipelined`, `ControlProof` |
| `LoopBody` | the accesses of a pipelined loop to one RAM and the constraints on their schedule, as operators | |
| `LoopMemory` | iterations in flight over that RAM; two actions: an iteration starts, the clock edge | `LoopBody` |
| `TestBench` | that loop and its RAM in a generated test bench | `LoopMemory` |
| `LoopMemoryProof` | lemmas about division, groups and distances; theorems about `LoopMemory`, alone and in the bench: dependences, units, the values read and left; about the bench: its verdict, and that it leaves the loop's values alone | `TestBench`, TLAPS |
| `LiveValues` | the compiler's plan for a value: the states it is live in, the registers and inputs it gets, the wire a user reads it from; the uses a value may have | `StateGraph` |
| `DataPath` | those registers beside the control path, cycle by cycle, with history variables that number the instances of the value | `Control`, `LiveValues` |
| `DataPathProof` | lemmas about recursive functions, dominance, live values and levels; theorems about `DataPath`: storage is found, and what is read is what is meant | `DataPath`, `ControlProof` |
| `UnitLibrary` | the arithmetic modules of the library and the register, as operators | |
| `ModuleSpecs` | which module an instruction is bound to, with its parameters, ports and defaults, as operators | `UnitLibrary` |
| `FunctionalUnits` | instructions bound to one unit, connected, and run | `ModuleSpecs` |
| `StreamProgram` | programs of loops over streams and what they mean; the LLVM functions they are, as operators | |
| `StreamPasses` | the passes of the Halide front end, one operator each | `StreamProgram` |
| `Dataflow` | the loops these make, side by side, cycle by cycle | `StreamPasses` |
| `AxiRam` | the AXI4-Lite memory `axil_ram.v` | |
| `AxiTransfer` | a function of reads and writes, through the handlers or on the bus itself; one action, the clock edge | `AxiRam` |
| `AxiTransferProof` | theorems about `AxiTransfer`: effects and results of its calls | `AxiTransfer`, TLAPS |
| `FloatAdder` | modules `adder` and `fadd` | |
| `SynthParser` | the parser: tokens to syntax trees, as operators | |
| `SynthCodeGen` | the code generator: syntax trees to blocks, pipelines and constraints, as operators | `SynthParser` |
| `SynthInline` | inlining: one call replaced by the callee's code and constraints, as operators; the timing constraints allow | `SynthCodeGen` |
| `SynthProgram` | functions from source to execution: read, compiled, inlined call by call, then the blocks in step with the statements | `SynthInline` |
| `MC...` | the instances TLC checks | |

**Block order.** `Walk` is one iteration of the loop of `buildControlPreds`: it
takes a block off `toVisit`, marks it, keeps the edges to unmarked successors and
queues these (again, if they wait already). `Sweep` is the visit of one block by
the loop of `topologicalSortOfBlocks`. The ghost `visitedAt` records when a
block was first taken; nothing reads it but the properties.

**Fifo.** All always blocks of the Verilog module read the registers before the
edge; `Clock(read_valid, write_valid, in_data)` is the edge with `rst` low,
`Reset` the edge with `rst` high. Memory and output register start unknown (`X`).
Two details are kept as the code has them: the read address advances on
`read_valid` alone, and the empty flag is not raised when a write is *offered*.
`Next` restricts the inputs to clients that look at the ready ports, which is
what the two disabled assertions of the module ask for; `FifoChannel` shows which
of the generated clients are such (`ClientsConform`).

**Fifo clients.** `implementRVFifoWrite` makes a stall block that repeats until
`write_ready` and an exit block that raises `write_valid` with the data; how many
cycles lie between the two is the schedule's choice, hence `producerWait`. With
none, the exit block runs in the state in which the stall block sees `write_ready`,
and so may the stall block of the next call, and its exit block: blocks are only
told to start no earlier than the one before ends (`scheduling.cpp:1201`), inlining
adds no more (`scheduling.cpp:2609`), and the order of writes to a port is kept
within a block (`scheduling.cpp:1566`). `chained` says that the schedule may do so;
`Writings` are then the words of all calls in the state, of which the fifo gets one
(`Tick`), and `NextCall` lets the next call be granted on the `write_ready` from
before the write.
`implementRVFifoRead` raises `read_valid` exactly one cycle after the stall block
and reads `out_data` one cycle later, hence "asking" and "taking".

**Control path.** The compile-time part is `StateGraph`. `Jump` follows
`addStateTransition`: which active registers a transition sets and under which
condition (directly; when the pipeline drains; after the wait for the initiation
interval). `Jumps` follows `emitStateCode`: for every state the branches out of
it, the returns, and the blocks that continue in the next state. `Elaborate`
evaluates these once, as `buildMicroArchitecture` does. `Control` is the run
time part:

| variable | register or wire |
|---|---|
| `active` | states with `state_<s>_is_active` (default 0) |
| `entryBB` | `state_<s>_entry_BB_reg` |
| `lastBB` | `state_<s>_last_BB_reg` |
| `outOfPipe` | `out_of_pipe_<s>_<t>` and `out_of_pipe_bb_<s>_<t>`, which have the same writers |
| `stored`, `waited` | `delayed_signal_<n>` and its `counter_<n>` |
| `condTrue` | branch condition wires, chosen freely each cycle |
| `bbActive` | `bb_<b>_active_in_state_<s>` |

**Loops over a RAM.** `LoopBody` states `createMemoryConstraints` for a body that
is a sequence of accesses: loads and stores, or calls of a class that declares a
hazard from its write to its read method. `Address` is what an access really
addresses; `SolverAddress` is what `scevToExpr` makes of it, where a negative
constant becomes the unsigned number of the same bits (`Constant`; `Word` is 2 to
the width of an address). `DependenceDistance` is the answer of `rawMemoryDD` and
`extractHazardDistance`, the least distance at which these meet, or none; `Group` and `GroupsInOrder` are the groups of operations and
`addOrderConstraints`. `Init` of `LoopMemory` picks any body, interval and start
times that meet the constraints: whatever solution the solver finds is among
them. `Issue` starts an iteration an interval after the last one or later,
as the control path does when it waits too long; `Edge` is the clock edge of
`RAM.v`, with the three registers on the way of a write (`reg0`, `reg1`, `data`)
and the one of a read (`got`). An access drives its port in its start cycle, so
`Starting` is what all iterations in flight ask of the ports.

**Test bench.** `emitVerilogTestBench` writes three kinds of bench. The one
with a RAM of its own goes through phases; the others do things at given cycles
and compare either in the cycle that addresses a word (`checkRAM`) or at the edge
after (`checkRAMContents`). `TestBench` has all three as `bench.style`, fills an
unset memory while the design is in reset (`SetPhase`, `SetRAM`), lets the loop
of `LoopMemory` run (`RunningEdge`), and compares (`Compare`); the words expected
are wrong at will. `Edge` of `LoopMemory` is `PortsEdge` and the memory `Stored`,
so that the debug write can come on top. The blocks of a bench are evaluated in the
order they are printed, hence the comparisons of `checkRAM` see the address of
the same cycle. There is one expected memory: with two, the comparison at
`verilog_backend.cpp:744` counts on from the words of the first.

**Functional units.** `createUnit` is the choice of module, `Connect` adds
the port values of one instruction to the nets (`setters`, the `portVals` of
`buildPortControllers`, where what is inserted first stays), and `Driven` is the
Verilog written for a net: constant if everyone gives it one value and the unit
is in the list of stateless ones, else chosen by who is active, else the
default. `Evaluate` computes the library module. `Activate` lets the
instructions use the unit in any order, each when the one before has ended by
the latency the scheduler is told (`getLatency`).

**Dataflow.** `halideArch` applies the passes in the order of
`halide_arch.cpp`; where a set of pointers decides an order, the order is a
parameter. `bounded` and `optimize` are the settings.
`Cycle` is one clock edge: the outside presents the next pixel or nothing, each
loop fires when all its inputs are valid (`Fires`), and what it writes is in its
channel for the next cycle. `LineBufOut` is the window of `push_linebuf`.
`Meaning` is what the program writes when its loops run one after the other over
unbounded streams.

**Data path.** `Plan` of `LiveValues` is what the compiler computes for one value
and one of its uses: `AlwaysDefined`, `LiveIn` and `LiveOut` follow the fixpoint
over successor states, `Route` follows `outputWire` (the live wire, the register,
or no wire at all, for each block the state can be entered at, by topological
level; within a block by the order of its instructions, hence the field `ahead` of
a use by a phi: the value is that of an earlier phi of the same block), and `stores` and `inputs` are the states that get a `data_store_*`
register and a `data_in_*` wire. One value with one use is enough, since plans do
not depend on each other and the plan for a value is the union over its uses.
`DataPath` lets these registers follow the control path of `Control`:

| variable | register |
|---|---|
| `lastState` | `state_<s>_last_state` |
| `store` | `data_store_<s>` of the value: the instance it holds |
| `made`, `begun`, `iteration`, `returned` | none: which instance was made last, which iteration each pipeline state is in |

Instances of the value are numbered round and round (`Instances`), so that an old
one and a new one can be told apart. `Meant` is the instance the program means:
in a pipelined loop the one of the user's own iteration, or of the one before for
a phi; otherwise the last one made.

**AXI.** Each call is two blocks that wait in a loop, one for the request and one
for the answer. `sched` has the gaps between them, which the schedule fixes; with
none, two blocks run in a cycle (`Second`, `Last`). `WriterClock` and
`ReaderClock` are the always blocks of the handlers, `RamClock` that of the
memory, `HandledBus` and `RawBus` connect them.

**Floating point unit.** `Run` is one edge of the adder's state machine and the
wrapper's beside it, `Start` an edge with a new start, which resets both. Widths
of exponent and fraction are constants; `IsSum` states what the sum is, by exact
integers and the nearest number.

**Front end.** A parser takes tokens and a position and returns success, the
position it left off at and a tree, as the parsers of the source do with
`tryParse`. Expressions and statements meet in `ParseAny`. `Gen` threads the generator's
state (blocks, active block, pipeline, names, labels, constraints) through the
tree. Instructions have identities, an operation and the instructions they use;
a method is an operation of its own, with no code behind it. A constraint orders
two times, each the start or end of an instruction, block or marker, with an
offset. `SynthProgram` writes a program as text with parentheses only where
precedence needs them, parses the text (`Read`), compiles it (`Compile`),
inlines one call at a time (`InlineCall`), and runs the blocks in step with what
the tree means (`DoStatement`, `DoTest`). What is left to do of the tree is a
list of steps, each in the context of the call it belongs to.

**Inlining.** `Inlined` is one round of `inlineWireCalls`: the first call in the
list of blocks is replaced by copies of the callee's instructions, in place when
the callee is one block, else between the halves of the split block.
`MarkedConstraints` moves the constraints on the call to its marker, puts the
copies inside it, and copies the callee's constraints. `SameTiming` compares two
systems of constraints by their earliest solutions: the one the scheduler gets
(`ConstraintsOn`) and the one the functions mean (`MeantFor`, where each call is
an instance with the constraints of its function and lasts as long as that).
Constraints on memory, units and control edges are in neither.

`BlockSchedule` says which inputs the control path can get: it states the
constraints the scheduler makes about blocks, so that the schedules the runs
enumerate are those the compiler can produce.

## 3. The runs

| run | question | result |
|---|---|---|
| `block_order` | every graph of 4 blocks without branches to the entry block, also with unreachable blocks | pass |
| `fifo_channel` | producer and consumer at all spacings up to 4 cycles, 6 words through a depth of 3, with a reset anywhere, also with calls of the producer chained in one state: is the fifo a queue, and do all words arrive where calls are not chained? | pass |
| `control_pipelined` | single loops of depth 2 to 4 and intervals 1 to 4, and nested loops whose iterations overlap; two loops, one after the other, in one pipeline | pass |
| `control_tasks` | all 80 graphs of 3 blocks that are connected, in all 2,820 schedules over 3 states, that stay in their return or start again after it; two loops in two tasks, the second pipelined or not: does each task execute its part of the graph? | pass |
| `loop_memory` | all bodies of 2 accesses at addresses 0 to 2 and strides 0 to 2, at negative offsets and with negative strides, and of 3 accesses at neighbouring addresses; 3 iterations, intervals 1 and 2, all admitted start times up to 5; each in a generated test bench: are the values those of an execution in order, and is the verdict true? | pass |
| `data_path` | every value and use in loops, splits and joins of 3 and 4 blocks over up to 3 states, and in pipelined and nested loops: is what is read what is meant? | pass |
| `functional_units` | every kind of instruction the binding knows, with all operands of a 4-bit word and the boundaries of an 8-bit one: does the bound unit compute what the instruction means, when it is read? | pass |
| `dataflow` | a convolution over three images, a cascade of two, a stream sent two ways and joined (one way longer), two windows of one image, a loop with its index, one with slow arithmetic; with all settings and orders of the passes and pixels at any spacing: is everything written, and what the program writes? | pass |
| `float_adder` | all pairs of words of 3 exponent and 3 fraction bits, with starts during the sum for three pairs | pass |
| `axi_transfer` | all programs of three accesses to two words, handled and raw, with all gaps up to 4 cycles | pass |
| `synth_program` | expressions of up to three operators and calls; statements nested three deep, with every pair of kinds inside each other; pairs of calls with a constraint between them, of functions that are given objects and data, have constraints, loops, or call others | pass |
| `synth_precedence` | the same expressions, also with sums to the right of comparisons: are they read as written? | violated |

*Bounds.* Four blocks are the fewest in which a diamond, a loop and an
unreachable block can meet. A fifo of depth 3
wraps off the power of two and can be empty, partly filled and full; six words
take both addresses around twice. Spacings up to 4 exceed the depth, so each side
can run ahead until the other stalls; two writes in one state (`MaxChain`) are
enough for one of them to be lost. Three blocks in three states give every
combination of blocks that share a state, chain through it and stretch over
several. A pipeline of depth 4 with interval 1 to 4 has up to four iterations in
flight, and waits between 0 and 3 cycles. `MaxCount` stops the delay counters,
32 bits wide in the hardware, just above every value they are compared with;
`MaxAge` stops the history variable `age`, one age for each pipeline state, above
every interval. Three iterations
at interval 1 are all in flight together, since a store takes three cycles;
distances 0, 1 and 2 all occur (only the distances matter, so one access of each body
starts at address 0), and `MaxStart` 5 lets a store and a load that
depends on it follow each other with two cycles to spare. Addresses have 8 bits (`Word`), which puts a negative
constant beyond everything the loops address. The solver knows no bound on
iterations; `Horizon` 12 is one, and enough: a distance of 8 or more constrains
nothing when start times end at `MaxStart`, and the bodies meet at a smaller one
within 10 iterations or not at all. With one unit of each
kind, two or three accesses make two or three groups. `MaxSlack` makes an
iteration up to one cycle late, which is what the control path does to those
that wait. A bench waits 17 cycles, enough for the slowest schedule (`Generous`);
where addresses are fixed also 8, too short for most. `MaxResets` in
`fifo_channel` is one reset, at any time. In `functional_units` a word has 4
bits and a long 8, as 32 and 64 scaled down, and a unit is used three times
(`MaxUses`): a store, a load, and one of them again. In `dataflow` images are 3 by 3, 4 by 4 and 5
by 5 with windows of 2 by 2 and 3 by 3: rows end, windows wrap, and a second
line buffer waits for the first; forks differ in length by up to one. In `data_path` at most four iterations are in flight, so that five
`Instances` never confuse two that can meet. Three bits of exponent and three of
fraction have subnormal and special words, alignments longer than the
significand, ties in both directions, and every carry; `MaxClock` 24 is beyond
the longest sum (`Duration`, 21 cycles there). A gap of 4 cycles is longer than
any answer takes; three accesses are enough for a write, another in its way, and
the read that tells them apart. The memory behind the bus has two words
(`WordCount`), eight byte addresses, so that the shift from words to bytes can be
seen. Two operators make precedence matter and three make
the stack hold two; statements nested three deep put every kind inside every
other one and inside a pipeline. Two calls can have one function, one object or
one argument in common, or one can be the argument of the other; three functions
deep, a call is inlined inside one that was.

*Deadlock* is checked except where the system stops: the block order returns, the
loops over a RAM and their benches end, a unit is used `MaxUses` times, the AXI programs
finish, and so do the programs of the front end.

*Fairness* is weak fairness of the one action: of the loop iteration, for
software that is not interrupted; of the clock edge, for hardware. Nothing is
assumed about branch conditions, except that `LeavesEventually` speaks of loops
whose exit branch *was* taken. That the whole image comes out of `dataflow` is stated without
fairness: it is there a fixed number of cycles (`Depth`) after the last pixel.

## 4. Where the code and its promises part

The run `synth_precedence` shows that operators left on the stack when an
expression ends are taken from its bottom (`parser.cpp:144`; the comment above it
asks "Reverse order of this?"): `a < a * a` is read as `(a < a) * a`. Sums and
products on the *left* of a comparison, as in all of the repository's programs
that are run, are read as written.

Properties of the passing runs hold for designs that leave out the following
cases, each named by a definition of an MC module. To see one fail, take
the configuration, change the line given, and run TLC on the MC module.

| configuration | change | what it shows |
|---|---|---|
| `ControlPreds.cfg` | `INVARIANT RespectsForwardDependences` | `topologicalSortOfBlocks` does not respect every forward dependence, as its comment says: the walk is breadth first, so with edges 1→2, 1→3, 3→2 the edge 3→2 is ignored. `NoForwardEdgeLost` says what holds instead. |
| `ControlPipelined.cfg` | `Functions <- SpacedNests` (`NoOverlappingTransitions`) | `out_of_pipe_*` is never cleared. A pipelined loop inside another loop works as long as iterations overlap, so that the pipeline never drains by itself; otherwise it is left in its second run although it should go on. |
| `ControlPipelined.cfg` | `Functions <- BranchAtEnd`, only `PROPERTY LeavesEventually` | A pipelined loop whose branch ends in the last stage is never left. |
| `ControlPipelined.cfg` | `Functions <- TestsFirst`, only `PROPERTY LeavesEventually` | A pipelined loop that tests before its body, and leaves when no stage behind the test is active, as it does with no iteration at all, loses all control: the exit waits for a stage that is active and there is none. |
| `ControlPipelined.cfg` | `Functions <- CloseSecondLoops` (`IterationsApart`) | The cycles a jump waits are counted from the entry state of the pipeline (`microarchitecture.cpp:1447`), so the iterations of a second loop in it come closer than its initiation interval. |
| `ControlTasks.cfg` | `Functions <- RestartingInLoops` (`ExecutesTheGraph`) | A return to the default state does not write its entry block register. A function whose first state is also the target of a loop starts again in the loop, not in its entry block. |
| `ControlTasks.cfg` | `Functions <- FirstLoopPipelined` (`ExecutesTheGraph`) | With the first of two tasks pipelined the second does not start on reset. |
| `ControlTasks.cfg` | `Functions <- EqualTargets` (`ExecutesTheGraph`) | The wires of taken edges are kept by pair of blocks and the first insertion stays (`microarchitecture.cpp:2353`). A conditional branch with twice the same target gets the wire of its true side only, and when the condition is false control is lost. Found when the proof of the refinement asked for two targets. |
| `FifoChannel.cfg` | `INVARIANT Accounted` | The calls of a producer may be chained: the stall block of a write lies in the state of the write before, and sees a `write_ready` that this very write is about to withdraw. The second word is then written to a full fifo, later, or in the same state, where both words are put on one port, and is lost without a sign. Nothing in the constraints forbids it; each side of a single call is right. |
| `LoopMemory.cfg` | `INVARIANT EveryDependenceMet` | `scevToExpr` takes a constant by `getLimitedValue()` (`scheduling.cpp:780`), without its sign. For `A[i] = f(A[i - 1])`, whose load is at offset -1, and for strides that go down, the solver finds no distance, or one beyond all iterations, and no constraint keeps a load behind the store of the iteration before. |
| `DataPath.cfg` | `Values <- AheadUses` (`ReadsWhatIsMeant`) | A phi that reads an earlier phi of its own block, as in `b = a; a = x` in a loop, means the value from before the block is entered. In the same state `outputWire` asks for the order of the two instructions (`microarchitecture.cpp:955`) and takes the wire of the new one. |
| `LoopMemory.cfg` | `Loops <- AntiLoops`, `Experiments <- AntiExperiments` (`ReadsAsInOrder`) | Between iterations only loads behind stores are constrained. For `A[i] = ...; ... = A[i + 1]` the schedule "store in cycle 0, load in cycle 4, interval 1" is admitted, and the load sees what the next iteration stored. |
| `FloatAdder.cfg` | `ExpBits = 4`, `FracBits = 1`, `MaxClock = 30`, `INVARIANT AnswersWithinLatency` | The scheduler gives an addition 20 cycles (`scheduling.cpp:111`) and the Halide front end 2, but aligning takes one cycle for every bit of distance: with 8 bits of exponent up to 269. Every sum takes more than two. |
| `DataPath.cfg` | `Functions <- SequentialFunctions`, `Values <- UnlevelledUses`, `INVARIANT SkippedEntriesNeverUse` | A join gets no topological level when one of its predecessors in the state cannot be reached from the entry block considered, and its operands then no wire, although it is not skipped. |
| `SynthProgram.cfg` | `Programs <- MarkerPrograms` (`InliningKeepsTiming`) | Timing is lost in three cases, each failing alone. `SameCalls`: the marker of a call is its text (`scheduling.cpp:2611`; the comment above `replaceActionBefore` has "TODO: Unique naming for inlined markers"), and two calls without result and with equal arguments share it, so that "the first before the second" contradicts itself. `SplitLoops`: the label of a loop stands for one block, which ends early when a call of several blocks in it is inlined. `NestedResults`: data constraints are stated for the top function only, so a called function may use the result of a call before the call has ended. |

More restrictions have the same reason. `chained` (in `FifoChannel`): that no word
is lost, and that the clients conform, is claimed for schedules which do not chain
the producer's calls; no constraint ensures that. `Understood` (in
`LoopMemory`): a dependence is claimed to be met where the solver is given the
addresses as they are, that is without negative strides and with bases on one side
of 0. A sum of more than two terms in an address, of which `scevToExpr` takes the
first two only, is in no body. `PhisApart` (in `LiveValues`): a phi and an earlier
phi it reads are in different states. `PhiFirst`: the use of a value by a phi is not constrained, so the phi could be
scheduled after the next instance is made. `BranchLast`: values made in a
pipelined loop after the state of its branch are not kept for the code behind
the loop. `Timely` (in `AxiTransfer`): the clients work when their two blocks are
scheduled at the distances it names, which no constraint ensures; and the read
handler is ready once after reset only, so a program may read through it once.

`functional_units` refuses or excludes what `Unsupported` and `Unreliable` name.
A `select` puts two ports on one net, so its Verilog declares the net twice
(`NetsClash`); multiplication of floats, exclusive or, other comparisons
than `DOMAIN cmpName` and addresses of four operands stop the compiler. `min` and
`max` have an output of one bit; an arithmetic shift to the right and the
extension of a negative value fill with zeros; a phi wider than a word is cut to a word, and
the wire of another phi, a word wide, among narrower values shifts the pairs
after it; a store to a field writes zeros to the other fields; a load of a field
is read a cycle late, when its wire is idle; constants pass through an `int`,
and the least one has no negation to print. Ports declared insensitive are
looked up by the name of the net and never found, which only costs logic. A RAM
with the ports of an internal memory is not in the library.

`dataflow` excludes what `Supported` names; nothing in the front end checks for
it. Streams are read and written once in a pass by one loop each. Images are
square: `push_linebuf` uses `IMAGE_ROWS` as the length of a row
(`SquareImages`). `optimizeRAMs` makes one constant of a kernel, the one that is
not zero, or whichever of two a pointer order puts last (`PlainKernel`). The
index of a loop in a nest, or of one without a bound, becomes 0
(`PlainIndices`). A loop whose arithmetic takes cycles raises `write_valid` before
it has the data (`LatencyBehindBuffers`). A push fifo holds a word for one
cycle, so the ways to a loop with two inputs must be of one length, and
`optimizeFifos`, which takes loops away, can make them so or undo it; of
transfers in a row the pass may handle a later one first, and then leaves a loop that writes
without reading, and one that reads the input of the design leaves nothing that
writes its target (`Balanced`). Without its loop or its bound nothing counts how
many words are taken (`BoundsHold`). One reset serves one image.

The assertion `noPipelinesWithMultipleActiveOutOfStateBranches`
(`verilog_backend.cpp:1486`) is in no run: in a pipeline of two blocks whose
iterations overlap two branches of different iterations may be active together.

Smaller observations without a configuration. The disabled assertion at
`builtins.v:551` says a fifo is never read and written in one cycle; the generated
clients do so, and the fifo handles it (action `Both`, `ImplementsQueue`). A
branch with two equal successors has one wire for both, the first inserted
(`microarchitecture.cpp:2357`), so that its false side is never taken; no front
end makes one. A
comment at `microarchitecture.cpp:1458` counts the cycles a jump "need[s] to wait"
for the interval; the hardware waits one more, as `IterationsApart` states; it is
safe but slower than the interval the scheduler found. In the front end `*` has
the precedence of `+` and `-`; operators other than those of the table
(`parser.h:910`) stop the compiler; `==`, `->` and the words `if`, `else` and
`pipeline` count as names; a test of a timing constraint reads `e - n` as
`e + n` (`parser.h:1897`). Nothing may follow a `return`, if only the branch to
the end of an `if`, and no pipeline may hold another: the compiler stops at an
assertion (`CompilesAllElse`). Statements of a `pipeline` that come before its
first loop are not in its blocks. The programs of `synth_program` also leave out:
a label at a statement whose expression makes no instruction (it stands for the
instruction before, `parser.h:2096`); labelled loops with blocks inside (the end
of the label is the end of the first block, `parser.h:2200`); calls of several
blocks inside a pipeline (the copies are not among its blocks); data passed by
reference (it is copied into a variable of its own, `parser.cpp:1471`, so that what
the callee writes is lost); names and labels used twice, since the tables of both
are never emptied between functions; and functions with a result that compute
nothing, whose calls can get equal numbers in their text.

## 5. What is proved

From `GraphAssumption` (the block count is positive; the graphs give each block
at most two successors), for every number of blocks and every set of graphs:
`TypeCorrect`, `KeptEdgesAcyclic`, `ForwardEdgesKept` and `SortCorrect`. None of
the three safety properties is inductive. The invariant `IInv` adds: visiting
numbers count the visited blocks (`Stamped`); the kept edges are exactly those
from a visited block to one not yet visited when it was marked (`KeptExactly`);
every unvisited successor of a visited block is in `toVisit` (`FrontierWaits`),
so that an empty queue means that nothing forward was missed; and what each
phase has left alone (`PhaseOrder`).

From `DepthAssumption` (the depth is positive and fits the address registers),
for every depth and width: `TypeCorrect`, `UnknownNeverInside`, `EmptyCorrect`
and `FifoImplementsQueue`, the refinement of `FifoQueue`. The heart of the last
is how `Contents`, the slots between the two addresses, changes when either
address advances and possibly wraps; the invariant needed is that empty means
equal addresses and that the slots in between have been written.

From `TripAssumption`, `SolverAssumption` (a bound on the iterations the solver tries,
no smaller than those there are), `CountAssumption` and the assumptions on the sets of
bodies, intervals and benches, for every number of iterations, body, interval, number of
units and pace: `TypeCorrect`, `DependencesAreMet` and `UnitsAlwaysSuffice` of
`LoopMemory`, for the loop alone (`Spec`) and in a test bench (`BenchSpec`). A
step of the bench is one of the loop, or changes only memory and the bench's own
registers, which the invariant does not mention (`RestPreserves`). The inductive invariant is small (`IInv`: types, the constraints,
and `Paced`, that iterations are at least an interval apart). The weight lies in
what it implies. For dependences: if two accesses meet at some distance, the
least distance exists and is constrained, and since iterations are paced the
constraint covers every larger distance too (`AllDistancesCovered`). That a
least one exists is shown without induction, from the well-foundedness of the
subsets of a finite set. That is so for accesses which are `Understood`: their
addresses and those of the solver meet at the same places (`FoundWhereUnderstood`).
For the others nothing is claimed, see section 4. For units: groups follow each other within an iteration
(`GroupsChain`), all of them fit between a group and the same group of the next
iteration (`GroupsWithinInterval`), so that the accesses of one cycle belong to
one group of one iteration, and no group is larger than the number of units
(`GroupSize`).

For the values read and left (`ReadsInOrder`, `LeftInOrder`), two assumptions are
stated with the theorems (and `ReadsAsInOrder` itself speaks of bodies whose accesses
are all understood; `LeftAsInOrder`, about stores alone, of every body): the counts given to the scheduler are those of the ports
(`CountsArePorts`: it does not read the ports of the RAM itself); and, for what is
read, that no body loads what a later iteration stores with the store first in the
block (`Ordered`): the scheduler puts no constraint on such a pair, and within a
block of that kind the load may come late. That the alias analysis, asked about
accesses of unknown size, never excludes an alias inside one RAM is part of the
model. The invariant `Values` says what the pipeline registers of the RAM hold (the
stores started one and two cycles ago), what each word holds (what the last store
of it that has ended left there), and what each answer is (what the last store
before the load in program order leaves). The delicate step is the edge at which a
load gets its answer: the stores that have ended by then are exactly those before
it. Those before have ended by `DependencesMet`; of those behind none has, by the
order within an iteration and the spacing between iterations (`LoadsBeforeStores`).
With one port each, stores take effect in program order (`OneAtATime`), so the last
to end is the last of all. Methods are promised only the hazards they declare, so
`ReadsAsInOrder` does not speak of them.

For the test benches (`VerdictsAreTrue`, `InOrderInBench`), from the same
assumptions: the verdict of a bench is true for every body, schedule, pace, style
of bench and number of cycles, and the bench disturbs nothing the loop reads or
leaves. `BenchInv` gives the registers of the bench as functions of the time
(`Clockwork`), says that the design rests until memory is filled, and that from
then on it is at most as slow as `Slowest` iterations one after the other
(`Design`), and that the words compared are those counted off since the check
began (`Check`). A run phase of a single cycle is a case of its own (`CutShort`):
its clock then shows the last cycle from the start, and the check begins before the
memory is set, at a design that has not finished.

From the same assumptions as the fifo's, and for every number of words and spacing
of the clients' blocks: `NeverLost`, `ChannelTypeCorrect`, `ChannelConforms` and
`ChannelImplementsQueue`. The invariant `ChannelInv` adds to the fifo's own that a
client that has seen its ready port finds it ready when it acts (`ReadySeen`),
which is so because only the client itself can take that away: the other one only
makes room or adds words. It is so for a producer whose calls are not `chained`, and
`NeverLost` and `ChannelConforms` are about that one. The channel then drives the fifo
only as its own `Next` allows, so the refinement of the queue carries over. It carries
over to chained calls as well, but for a fifo of one word: a write to a full fifo is
refused (`RefusedWrite`), so what the fifo holds is still a queue, though
not of the words that were sent.

For AXI, from `ProgramAssumption`, `GapAssumption` and `RamAssumption` (memory has
a word), for every program, memory and spacing of the blocks: `TypesCorrect`,
`CallsAreDone` and `ReadsRight`. The last two speak of schedules that are `Timely`.
The invariant lists the phases of a call as the registers show them: three when a
function drives the bus itself, and rest, writing (under way, done) and reading
(offered, answered, done) through the handlers. It ties each phase to the waits
the schedule leaves, which is where `Timely` is needed: an answer of one cycle is
met in that cycle.

For the control path, from `FunctionAssumption` (the functions are scheduled:
`IsScheduled`) and, where tasks matter, `ScheduleAssumption` (the constraints of
the scheduler hold, in the form `Constrained` of `BlockSchedule`: the entry block
comes first and no edge leads back to it, kept edges lead forward, only a
pipelined block goes on after its terminator, tasks follow each other), for every
number of blocks and states and every set of functions:

- `TypeCorrect`, for all functions, with pipelines or without.
- `ThreadsOfTasks`, for each task without pipelines, if tasks start once
  (`StartsOnce`): no edge leads into the first task and one edge into any other
  (`startState` asserts that), not out of a pipeline.
- `NoOverlaps`, `StatesExecute`, `EntriesAlongEdges`, for functions without
  pipelines (`Plain`) in which, besides, a default return leads to the first state of the entry
  block and no branch does (`RestartsAtEntry`).
- `TaskImplements`, for each task without pipelines, whatever the others are, if
  besides branches have two targets (`BranchesDiffer`): every step of
  the registers is a step of `Sequential`, or leaves the task as it is.
  `ExecutionImplements` is that for the two tasks of the run.

`Plain` sets pipelines aside; they have theorems of their own below. The other conditions are there because of the code:
`FirstLoopPipelined`, `RestartingInLoops` and `EqualTargets` of section 4 break
one each, and `ExecutesTheGraph` fails. All designs of the run meet
them; TLC checks that too (`PassingAssumption`).

The wires of active blocks are a combinational circuit; `Settled` follows it edge
by edge for as many steps as there are blocks. `SettledExists` shows that this
recursive function is defined and `ChainInState` what it comes to, both from a
least counterexample (`LeastOf`) in place of an induction. In a task without
pipelines the wires that are on in one state form a chain: a branch takes one edge
(`ChosenOne`), so from the entry block of the state one path leads on. Each step
adds a block of higher rank or nothing (`ChainGrows`), ranks are fewer than steps,
so the chain has ended when the wires have settled, and only its last block jumps
(`LastJumps`, `OneJump`).

`ThreadInv` says that at most one state of such a task is active, that at reset
the registers have their initial values, and that with several tasks the
entry block, whose edges start the others at reset, does not run a second time.
Two arrivals in a task would need two jumps (`ActivatedBy`, `OneArrival`): of
one thread there is one, and jumps into the task come at reset, when it has
no thread yet. `ExecInv` adds what an active state executes: the block in its
entry register lies in that state, and the last-block register names a predecessor
of it. For the refinement, a step of a thread is one of five: the next stage, a
move along the chain (`ChainOnward`, `ChainSoFar`, `Shift`), the end of the task,
a restart, or staying in a return. A task that waits for the reset starts where
its one edge leads (`WaitingStep`), and one that has ended does not come back
(`GoneStep`).

For pipelined loops, from `FunctionAssumption` and that every
function satisfies `PipelinedLoops`, for any number of pipelines, stages, initiation
intervals and branch positions: `PhisInFlight`, `NoOverlapsInPipelines`,
`PipelinesRunAlone`, `IterationsKeepApart` and `IterationsGoOn`. `PipelinedLoops`
asks that the function is one task, `Constrained`, without a default return, and that
each pipeline is a loop of one block which branches before its last state, to itself
or out of all pipelines (`IsLoop`). It also asks that a loop runs once, or that its
iterations follow so closely that the pipeline is never nearly empty between two:
`out_of_pipe_*` is never cleared, and `SpacedNests` of section 4 shows what happens
to loops that are neither; `BranchAtEnd` of section 4 shows why the branch comes
before the last state. TLC checks that the designs of the run with such loops
satisfy it (`SingleLoops` of `MCControlPipelined`), so the condition is not empty.

`PipelinedInvariance` is the induction, of three parts that need each other.
`PlaceInv` says where control is. Either nothing is in a pipeline and at most one
state is active (`Outside`), or all that is active lies in one pipeline (`Inside`),
which is then in one of three conditions: an iteration is at or before the branch
(`Deciding`), the next waits for its interval in the delay registers (`Holding`), or
the exit is latched and what is left runs out (`Draining`). Since a latched exit stays
latched, `WaysOut` adds that a pipeline with one is draining, or control is among
blocks from which its loop is not reached again (`LeftBehind`). While an iteration
waits, the one before it is at a known stage (`Lead`), or has ended; in a loop that
runs again it has not reached the last state, or there is no waiting
(`FollowClosely`), so a stale exit is not taken in its place. `PhisSeeTheirIteration`
is inductive beside `PlaceInv`. `Ages` relates the ghost clocks to the stages: what
runs in a stage reaches no later one before the interval has passed there (`Spaced`),
and the last iteration was the last in every stage it has been through (`Trail`), so
that the cycle in which a waiting iteration starts can be computed from where the one
before it is.

For the data path (`DataPathProof`), for any number of blocks, states and pipelines,
every schedule, initiation interval, value and use:

- `StorageIsFound`, from `FunctionAssumption` alone and that values are among
  `AllUses`: whatever `outputWire` takes from storage has an input in the state that
  reads it. The two decide apart from each other: `outputWire` by the level of the
  user's block from each entry, `valuesThatMayBeUsedInState` by the order of the
  blocks over all of them. `StoredIsLive` shows that the second misses none of the
  first.
- `ReadsAreRight`, from `FunctionAssumption`, for functions without
  pipelines or with pipelines that are single loops (`PipelinedLoops`, as above),
  each of whose blocks has a kept edge into it (`AllReached`), and for values among
  `PassingUses`. These are all uses but for four kinds the code gets wrong, each
  shown in section 4 or its end: joins without a level (`Levelled`), phis after the
  next instance (`PhiFirst`), phis that read an earlier phi of their block in its
  state (`PhisApart`) and values made after the branch of a pipelined loop
  (`BranchLast`). TLC checks that every design of `data_path` satisfies the first
  two (`ProvedFor`); the run's values are `PassingUses` itself.

The induction (`DataInv`) stands on `PlaceInv`, which says where control is; what it
adds is where the instance made last is kept. Outside of the maker's pipeline, and
in it up to the maker, what each active state finds at its input is the instance
made last (`Along`). It is found also by an iteration that still waits in the delay
registers (`Waiting`), and by the exit that waits for the pipeline to drain
(`Leaving`), where the last-state register keeps pointing at the branch although the
branch is not active any more. In the stages behind the maker each iteration finds
its own instance, however many have been made since (`Ahead`). So that these are
compared, iterations and instances are numbered alike: an iteration before the maker
is one ahead of the instance made last, and with none there the numbers agree
(`Numbered`); this needs the branch to be behind the maker (`Carried`). Before the
first instance there is nothing to be kept; control is then where the entry reaches
without the maker, which dominance keeps the user out of (`Unmade`). A step keeps
all that since a jump into a state that needs the value comes from a state that
stores it, that needs it too unless it makes it, and that is among the prior states
its input chooses from (`Carries`; this is where `findLiveValues` has to have
reached its fixpoint, after as many rounds as there are states), and of the jumps
into one state one happens (`HandsOver`).

What remains is the wire. The blocks run through in a state form a chain
(`RunsThrough`), and in it the levels from its first block rise (`LevelsInChain`);
so the live wire is taken only when the maker has run, and then before the user
(`MadeFirst`, with a rank of the blocks along kept edges: a maker that dominates its
user and was skipped would have a higher rank than the first block and a lower one).
Conversely a user that reads the register has not been preceded by the maker in this
cycle (`ReadsElsewhere`). The fixpoints of the code (dominance, liveness, levels,
and the blocks that run after another) are recursive functions of as many steps as
there are blocks or states; that subsets which only grow have stopped growing by
then is shown once (`Saturates`).

(`EmptyCorrect`, that the empty flag implies equal addresses, is a step of the
argument for the fifo and no property of a run.)

Only model-checked: that both loops of the block order end, that all words arrive,
that pipelines are left, that AXI calls return (liveness); the control path of
pipelines of several blocks or with two loops in one; the data path of such
pipelines; the functional units, whose operators compute with powers of two; the
dataflow; the floating point unit; and the front end and inlining, whose operators
are recursive over their input and out of reach of the prover.

## 6. What is not modelled, and the plan

Done, in this order: block order; fifo with clients; control path for sequential
functions, pipelines of one or two blocks, and tasks; memory and resource constraints
of a pipelined loop of one block; proofs of these, pipelines of one block included;
floating point unit; AXI transfers, with proofs; data path, with proofs; front end and inlining;
functional units; dataflow of the Halide front end with its line buffers; test
benches, with proofs.

Next:

1. the constraints that remain: order of accesses to ports within a block, operands carried
   between iterations for any body, accesses in different blocks of a pipeline;
2. test benches that feed and read fifos, beside `FifoChannel`.

Not modelled, and why:

- *instructions on several units*: `assignFunctionalUnits` gives each its own, but
  for memories and modules; the parts of one unit are in `FunctionalUnits`,
  the sharing over time in `LoopMemory` and `FifoChannel`;
- *around inlining*: functions built from templates on demand (their code is in
  `FifoChannel` and `AxiTransfer`), phis in a callee, the LLVM passes before and
  after it and the removal of constraints on what they delete;
- *tokens*: the tokenizer works letter by letter and has no state worth checking;
- *parts of the front end*: structs, classes, the bodies of methods, ports,
  arrays, hazards; they add tables, not order;
- *parts of the Halide front end*: streams with `has_valid_data`, the variant with
  ready and valid ports in one task, and the widths of stencils; `linebuffer_model`
  of the tests;
- *benches for fifos*, which present words from a list when the fifo is ready, and
  the debug ports of modules other than RAMs;
- *the printing back ends*, the driver, the command line parser `args.hxx` (from
  elsewhere), the third-party AXI and Ethernet modules, and the generated Verilog
  kept as expected output. The command line parser alone is a seventh of the C++
  lines.
