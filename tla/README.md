# vTPU verification project

TLA+ models of the vTPU accelerator, checked with TLC on small instances and proved, where the
argument allows it, with TLAPS for every size. Paths below are relative to the repository.

## 1. The system

vTPU is a small tensor processor in SystemVerilog (`rtl/`), its AWS F2 integration (`rtl/fpga/`,
`fpga/`), and Python tooling (`src/virtual_tpu/`) with a golden executor that `rtl/README.md` calls
the executable source of truth.

A host writes a program into the instruction memory and pulses *start*. The control FSM fetches and
decodes one instruction at a time and hands commands to asynchronous units: the DMA engine and, in
every TensorCore, MXUs, a vector unit, a reduce unit and a CLEAR engine. Commands of different units
run concurrently and in no order unless the program separates them with BARRIER. The units meet in
the banked VMEM of their TensorCore; DMA moves words between HBM, CMEM and the VMEMs. On F2 the host
side is an AXI-Lite bridge, and HBM sits behind an AXI adapter that the bridge's debug window shares
with the chip.

The programs come from Python: `isa.py` builds instructions; `programs.py` and `qwen/kernels.py` put them
together with hand-made address plans; `qwen/rtl_artifacts.py` lowers layers and whole tokens of a Qwen model
to a program and an HBM image, next to an `expected.npz` computed by `qwen/runtime.py`. A C program loads and
starts the card (`vtpu_f2_smoke.c`); a job server (`qwen/demo_ui.py`) builds artifacts and runs the simulator
for a web page.

### Components

| Component | State it keeps | Operations | What makes it correct |
|---|---|---|---|
| Control FSM, issue (`rtl/isa/control_fsm.sv`, `instr_mem.sv`, `rtl/top/virtual_tpu_v4_top.sv`) | FSM state, pc, barrier mask, issue and issued masks, error code; instruction words; start pulse | fetch, decode, issue, barrier, halt, error; host start, host instruction write | a barrier or HALT waits for what it covers; each selected port takes an instruction exactly once; the command on the ports is the decoded one; errors are attributed; every run ends |
| TensorCore dispatch (`rtl/tensor_core/tensor_core.sv`) | round-robin pointer | choose an MXU, route to vector, reduce or CLEAR | a command goes to an idle child, none is lost |
| DMA engine (`rtl/memory/dma_engine.sv`) with HBM and CMEM | FSM state, command, offset, data word, port requests; HBM latency counter | accept, reject, read, write, finish | the range is copied, nothing else is touched, for any latency and any stall |
| VMEM and CLEAR (`rtl/memory/vmem_top.sv`, `vmem_bank.sv`, `tensor_core.sv`) | words, response registers; CLEAR's state, command, offset | grant by fixed priority, answer; clear word by word | one access per bank, every wait answered by its own access, nobody starves, CLEAR clears its range |
| MXU and arrays (`rtl/mxu/`, `rtl/primitive/pe_*.sv`) | FSM state, counters, operand tiles; array state, k index, sums | load A, B, C; run; store | the golden model's product for every shape, type, lane and overlap |
| Vector unit, reduce unit (`rtl/vector/`) | FSM state, command, element index, operand registers, accumulator | read, combine, write one element at a time | the golden model's result, every access in range, every command ends |
| Decoder (`rtl/isa/instr_decoder.sv`) | none | unpack, legality | accepts what the units and the golden model execute |
| F2 shell (`rtl/fpga/`) | bridge state and latched channels; debug ownership; adapter state | AXI-Lite transactions, MMIO and HBM debug accesses, arbitration | transactions are performed faithfully, once, and answered; the debug window never meets a running chip |
| F2 smoke runtime (`fpga/aws_f2/software/runtime/vtpu_f2_smoke.c`) | position in its script; the card keeps its own state between processes | attach, load, start, poll, read back, give up | PASS is about this process's program and operands; every process ends |
| Golden executor (`golden.py`, `memory.py`) | memories, pc, counters | one function per opcode | is the reference |
| ISA (`isa.py`) | none | encode, decode, build | encode and decode are inverse on what is built |
| Program builders (`programs.py`, `tiling.py`, `lowering.py`, `qwen/kernels.py`, `qwen/rtl_artifacts.py`) | program so far, HBM cursor and image, VMEM plan | append instructions, load and store tensors, synchronise | every order the program relies on is one the chip gives, except that a CLEAR ends before the MATMUL behind it stores (section 2); no command is refused; the results are the mathematics |
| Assembler, planner, graph lowering (`assembler.py`, `memory_planner.py`, `ir.py`) | symbol tables, allocations | parse, allocate | no label or range twice |
| Qwen reference (`qwen/runtime.py`) | KV, convolution and state caches, position | one token, generation | a cached token equals the token of the whole sequence |
| Demo server (`qwen/demo_ui.py`) | jobs and their status, active job, process environment, build directory | start job, build, simulate, finish, report | one job at a time; each built with its own settings; a success carries its result |
| Layout search, network simulation (`layout/`, `archsim/`) | candidate lists | search, cost | offline numerics |
| Real-weight inference (`qwen/real_infer.py`, `weights.py`, `chat.py`) | weights | numpy network | numerics |
| Physical design (`rtl/physical/`, `physical/`, `scripts/`) | memory macros | tool flow | same interfaces as the models |

### What is hard here

* **Interleaving.** Up to four kinds of unit per TensorCore and the DMA engine work at once; only
  barriers order them. A broadcast command is taken by each TensorCore when it can.
* **Atomicity and staleness.** The instruction word is read combinationally while the host may write
  it. Tiles, partial results and responses without identity are used cycles after they were fetched.
  The AXI-Lite bridge and the debug arbiter look at state one edge before they act on it.
* **Limits.** Range checks with wrap-around, three operand layouts behind one check, fixed-priority
  starvation.
* **Partial failure.** Units fail in the middle of a buffer; errors arrive in the cycle in which the
  FSM retires or starts.
* **Termination.** Every wait in the chip is a poll of a busy flag or a one-cycle pulse.

* **Implicit order.** Programs rely on what the issue logic waits for besides barriers: one DMA engine, one
  MXU named by a selector, lanes that start only on an idle TensorCore.
* **Crashes and shared state on the host.** A process that dies leaves the card half loaded or running; the
  server's threads share one environment and read each other's jobs without the lock.

There is no persistence or retry in the hardware. `PROJECT.json` lists each hazard at its line with the
properties aimed at it.

## 2. The modules and how they correspond to the code

One step of a module is one rising clock edge where it composes clocked neighbours (ChipControl,
DmaEngine, TensorCoreVmem, F2Shell): every register takes its new value from the old values of the
others, as nonblocking assignments do. VectorUnit, ReduceUnit and MxuTop model one unit whose
neighbours only delay it; there a step is a state's edge and the cycles in which a request waits for
its grant are the time between two steps. Variables that no register of the code holds are *history*
variables and are marked so where they are declared.

**ChipControl** composes `control_fsm`, `instr_mem`, the MMIO front end's start and instruction
writes, and each TensorCore's dispatch. Each FSM state is one action (`Fetch`, `DecodeIllegal`, ...,
`Issue`, `WaitBarrier`, `WaitHalt`); `Start` and `UnitError` come first, as in the `if` chain. Units are
reduced to the phases they all share (IDLE, RUN, DONE, ERROR): a running unit may finish or fail at any
edge. Decoded instructions are records of the fields the control path reads; the decoder's verdict is
a field. A child may fail from RUN, or at once, when it rejects the command.

**ChipProgram** extends ChipControl with what the commands do. A running unit reads its operands at one
edge and writes its result at a later one (`stage`); memory is a handful of cells, each a word range used as a
whole. `program` is the program in the instruction memory: the host starts it, again too, and leaves it alone.
`GoldenRun` is the loop of `GoldenExecutor`: one instruction after the other, BARRIER a no-op. The code states
nowhere which programs the two agree on, so the module does: `Fenced` says that between two commands that
use one cell (one of them writing) there is something that `WaitsFor` the first: a BARRIER covering its port, the next
command of the only DMA engine, a VECTOR_OP, REDUCE or CLEAR (which a TensorCore takes only when all its
units are idle), or a MATMUL on the same single MXU. A MATMUL behind another command of its TensorCore does not
wait. A fenced program has a HALT. Units do not fail here; what a unit computes is an operator constant.

**DmaCopy / DmaEngine.** DmaCopy is the abstract promise: a command is rejected or its words are
copied one by one in ascending order. DmaEngine is the engine's states with its request and response
registers, `hbm_model` with latency and the grant of the local memories; the property `Implements` is
DmaCopy's next-state action under a refinement mapping (`phase <- Phase, copied <- Copied`), in which a
word counts as copied at the edge its write takes effect. `golden` records what
`GoldenExecutor._execute_dma` would have left.

**TensorCoreVmem** composes VMEM arbitration, the request/wait loop of all engines and the CLEAR
engine, which borrows the reduce unit's port. What engines compute is left out: they make some
accesses at addresses of their choice.

**VmemClient** holds what the three computing units share: the request register, the grant, the
response, and the writes of other ports to words the command does not use. That other ports keep off
is a premise on programs (they fence with barriers); that a grant's response arrives in the next cycle
is the property `WaitIsAnswered` of TensorCoreVmem.

**VectorUnit, ReduceUnit** have one action per state of the RTL (`Read0Req`, `Read0Wait`, ...), the
command check as `Verdict`, and the golden model's functions (`GoldenVector`, `GoldenReduce`) on the
memory as it would be had the command not written (`mem0`). Integer operations are 32-bit
two's-complement through `Wrap`; fp32 circuits are an operator constant `Fp`, which tells apart which
operands reach which circuit in which order, and nothing of rounding. The golden model sums fp rows with
NumPy's order and ideal precision; equality is stated for the element order of the hardware.

**MxuTop** composes `mxu_top` with `systolic_array`/`systolic_array_bf16` in lock step
(`MxuStep /\ ArrayStep`). A byte is a digit of radix `R`, a word four digits; operand lanes, alignment,
tile indices, both operand widths, transposition, accumulation and the one-cycle start and done pulses
are as in the code. bf16 differs from int8 in layout and tiles; its arithmetic is replaced by that of
integers. Tiles hold arbitrary power-up contents (`PowerUp`), as RAM without reset does.

**F2Shell** composes `vtpu_ocl_axil_bridge`, the debug arbiter of `vtpu_f2_smoke_top`,
`vtpu_hbm_axi_adapter`, the MMIO response of the chip and its DMA engine as the other HBM user, driven
by an AXI-Lite master. Its habits are chosen at the start and never change (`habit`): whether it
`splits` address and data over different cycles, and whether it `overlaps` a read with a write. `Habits`
is the set of masters considered. The master is external code, modelled from the AXI-Lite
rules: an offer stays until its handshake.

**Units** puts VectorUnit, ReduceUnit, MxuTop and DmaEngine side by side, one (`lane`) per behaviour, with registers of
the same name as one variable; its properties are those of the four modules, each for its unit. It saves three
runs and nothing else: the units do not meet here. `MCUnits` chooses sizes, commands and memories.

**Isa, InstrDecoder, GoldenModel** are the instruction set as operators: fields, encoding and builders of `isa.py`;
the decoder's checks in the order of its error codes; and for every opcode what `GoldenExecutor` reads, checks,
computes and writes. In GoldenModel numbers are elements of the field of `P` elements with an extra `NegInf` for the
attention mask, and exp, reciprocal and inverse square root are arbitrary functions on it: two results agree only
if the same operands met in the same operations. Layout is exact: memory is a set of blocks of elements of 1,
2 or 4 bytes, an element can be read back only with its own width at its own address, and everything else is
`Undef`.

**Programs, Kernels, QwenReference, QwenArtifacts** are the builders, one operator per Python function, with the
layout dataclasses as records and the tile edge as a parameter. QwenArtifacts' builders list items (instructions
and tensors to load); `Build` walks them as `_HBMBuilder` does, with its cursor, image and DMAs. QwenReference is
`forward_token` with its caches.

**ProgramRun** executes a program from its host image. An issued command stays *open* until the issue of a later
instruction waits for it (`WaitsFor`: barriers by mask, HALT, the single DMA engine, lanes on an idle TensorCore, the
same single MXU, and the fast bf16 array). Memory changes at issue; ChipProgram's `HaltMatchesGolden` is the reason
this is sound when no open command conflicts with the next one, which is exactly the obligation `NoConflictInFlight`
puts on the program, and which `Hosts_proofs` proves for every builder. One overlap is allowed in `Conflict`: CLEAR and MATMUL in the destination, on which
`programs.py` relies in six places. It holds by timing only: for the square tiles of `programs.py` the array loads two operands element by element, several
cycles each, before it stores, and the CLEAR of as many words is done earlier. No mechanism of the chip enforces it, and
no module has the durations it takes: the properties and theorems about programs assume this order and show everything else.

**DemoServer** is the job server: `start_job` under its lock, the thread of a job statement by statement
(environment in, build, environment out, summary, simulator, result, status, error, release) with every way to
raise, and readers whose `to_json` copies status and result in two steps without the lock. A bundle is represented by
the settings it was built with.

**SmokeHost** is the smoke runtime, one process after the other on one card: attach, clear counters, load program
and operands word by word, start, poll, compare. A process may die between any two accesses or time out; the chip
may halt, fail or run for ever; pokes and starts at a running chip are dropped silently, as posted writes.

**Decode** is `generate`: prompt, then greedy tokens, against `Uncached`, a second definition of the
network on the whole sequence without caches, written from the mathematics of the layers and not from the cached code.
`ConfigOK`, `WeightsOK` and `NumbersOK` are what the reshapes, index computations and shapes of `runtime.py` need of a
configuration, its weights and the functions that are not weights.
**Hosts** extends Decode with instances of DemoServer (`Server`) and SmokeHost (`Smoke`). `MCSoftware` puts them beside
ProgramRun and the jobs of `MCProgramRun`; each of its behaviours is one host program, or one program of the chip, and they do not meet.

## 3. What is checked

| Run | Module | Instance | Shows |
|---|---|---|---|
| `control` | `MCChipControl` | 2 TensorCores x 2 MXUs; every program of two words out of 13 instructions followed by HALT; the host rewrites word 1 between runs | barriers drain, HALT and start are quiescent, commands are the decoded ones, errors are attributed, each port takes an instruction exactly once, every run ends |
| `program_golden` | `MCChipProgram` | 2 TensorCores x 2 MXUs, one HBM cell and two cells per VMEM; every fenced program of three words out of 14 before HALT, run up to twice | conflicting commands never overlap; at HALT the memories are those of the golden executor |
| `vmem_ports` | `MCTensorCoreVmem` | 2 MXUs, vector, reduce/CLEAR and DMA on 2 words in 2 banks | every wait is answered by its own access, one access per bank, CLEAR's range, neither CLEAR nor DMA starves |
| `vmem_clear` (violation) | `MCTensorCoreVmem` | the same, without fairness | CLEAR can skip a word a bank conflict refused |
| `units_golden` | `MCUnits` | vector and reduce unit on 6 words of 4 bits, every kind of operation, every shape of at most 2 x 3; 2 x 2 x 2 array on 8 words of four 2-bit bytes, all flags, shapes and lanes; DMA on an HBM of 4 words, CMEM and VMEM of 3; two commands in a row | the golden result, no access out of range, the DMA engine implements DmaCopy, the array is undisturbed, every command ends |
| `shell_masters` | `MCF2Shell` | all four kinds of AXI-Lite master | debug only when idle, responses to their owner, every transaction served at most once and answered, requests faithful and no write lost for the masters that allow it, the chip's DMA is served |
| `shell_split` (violation) | `MCF2Shell` | a master that splits address and data | the bridge dispatches stale registers |
| `shell_overlap` (violation) | `MCF2Shell` | a master that overlaps a read with a write | the write is acknowledged and dropped |
| `software` | `MCSoftware` | *Hosts*: 3 jobs, 2 variables, 1 reader; 2 processes, 3 program files, 2 operand files of 2 words; 4 layers with grouped heads and a convolution of 2, prompts of 0 to 3 tokens, 0 or 3 new ones. *Programs*: 25, all of `programs.py`, `kernels.py` and `rtl_artifacts.py`, the latter at small model sizes; token and MLP at tiles of 16 and 128, the token stream at tiles narrower than, as wide as and wider than a DeltaNet head | one job at a time, own settings, success with result; PASS is about its own run, every process ends; cached decoding equals the whole sequence. No conflict with a command in flight; results are the mathematics; every command is encodable, legal and accepted, and reads only written operands |
| `reductions_legal` (violation) | `MCProgramRun` | the programs of `software` | the decoder refuses the kernels' whole-buffer fp reductions |
| `token_expected` (violation) | `MCProgramRun` | the token program on one layer | its logits are not those of `expected.npz` |
| `matmul_count` (violation) | `MCProgramRun` | the MLP slice on tiles of 16, the token stream on tiles of half a DeltaNet head | `run.json` gives another number of MATMULs than the program has; `CountAssumption` says so of both, and that it is right for the MLP on 128 and the stream on tiles as wide as a head or wider |

**Why the bounds are enough.** Interference needs two of a kind: two TensorCores, two MXUs, two banks,
two commands in a row (the second meets what the first left: tiles, masks, pointers, `cmd_q`). Two
instructions before HALT, run as often as the host starts them and with the second rewritten in between,
suffice for issue - barrier - next run's issue and for a broadcast behind a busy unit.
Three words are a writer, a fence and a reader, with a command in flight elsewhere when the fence is the reader itself;
the program set is not restricted otherwise, so fences of the wrong kind and unnecessary ones occur too.
Two VMEM words in two banks give both meetings of two ports: in one bank and apart. The shell's beats have
one payload, and the strobe bit tells a stale beat from a fresh one; its violation runs use two payloads. The
memories of the units are just large enough for source and destination to be apart, equal and overlapping, and
each command set has one command per reason to reject and one that ends exactly with the memory. Words
of 4 bits (8 in the MXU) overflow in every arithmetic operation. `Latency = 1` makes the HBM busy across
a ready cycle. Bounds in guards are `MaxCmds` (DmaEngine and the three units) and `MaxAccess`
(TensorCoreVmem) and `MaxRuns` (ChipProgram); `Depth` bounds the program. Memory starts from one pattern of distinct words in the
unit runs; the specifications themselves allow any memory.
Of the programs in `software` nothing is chosen but which one, so each is one behaviour, and its length is that of the program; the
addresses of `programs.py` and `kernels.py` are the real ones, while model dimensions are the least that keep every loop
(several heads, groups, tiles with remainders, layers of both kinds, a window longer than the history) at
two iterations. Data are distinct elements of a field of 251, so a wrong operand shows. Of the hosts, three jobs are one
that sets, one that relies on what was, one in between; two processes are the one that died and the one after it; two
words are a half-written region.

**Fairness.** Every `FairSpec` has weak fairness of the clock. Beyond it: ChipControl lets a running unit
leave RUN (each unit's termination is `CommandEnds` of its own module); DmaEngine lets a waiting
request be granted in the end (`DmaServed` of TensorCoreVmem); TensorCoreVmem lets an engine that
computes between accesses go on; F2Shell lets the AXI slave answer and the master take its response; SmokeHost lets a
process that is not stopped make its accesses, and nothing of the card. DemoServer has no fairness: nothing bounds a
builder or the simulator (`subprocess.run` without a timeout, `demo_ui.py:313`).
Nothing assumes fairness of a choice the code makes.

### Divergences

The first five bullets are the six violation runs, each of which refutes the statement its finding quotes.

* CLEAR skips a word whose access the bank arbitration refused (`tensor_core.sv:392`, run `vmem_clear`). What
  holds in spite of it: `ClearsUnrefused`.
* The bridge dispatches stale registers when address and data of a write come in different cycles
  (`vtpu_ocl_axil_bridge.sv:203`, `shell_split`), and acknowledges and drops a write offered together with a read
  (`:155`, `shell_overlap`). What holds: `RequestFaithful`, `WriteNotDropped` for the masters whose habits avoid the case.
* The decoder wants `imm2 # 0` of every reduction but SUM_ALL and MAX_ALL (`instr_decoder.sv:95`); the kernels emit
  FSUM_ALL, FMAX_ALL and FSUMSQ_ALL, which use no columns, with `imm2 = 0` (`kernels.py:27`), so the chip stops with an
  error in rmsnorm, softmax and l2norm (`reductions_legal`). `software` checks everything else of these programs, and
  that this is the only reason the decoder ever gives.
* The token program applies FSIGMOID to the gate projection and the DeltaNet kernel then FSILU (`rtl_artifacts.py:323`),
  while the reference of its `expected.npz` gates by SiLU alone (`runtime.py:265`): `token_expected`. `software` shows
  that with the program's own gate everything else of the token is right.
* `matmul_instructions` in `run.json` is a formula beside the program (`matmul_count`). That of the MLP slice counts tiles of
  128 (`rtl_artifacts.py:735-738`), while `_linear_tiled` tiles by `QWEN_MXU_DIM`, 16 if it is not set (`:148`). That of the token
  stream counts the tiles that cover a DeltaNet head (`runtime.py:352-354`), while the stream has three MATMULs per head whatever the
  tile (`rtl_artifacts.py:476-480`), fewer if the tile is narrower than a head. The test of the stream
  compares the formula with itself, at 128.
* The token stream copies four words of its result tile to the output (`rtl_artifacts.py:506`). On tiles narrower than 4,
  which `:432` accepts, its MATMULs write fewer, and nothing clears the rest. `software` runs it on tiles of 4 and more.
* SPLIT_2X2 is legal for the decoder and four products for the golden model, and no hardware looks at it
  (`tensor_core.sv:101`); `split_matmul_8_program` is checked against the golden model.
* `_execute_dma` and the vector operations read a whole source before they write; the DMA engine and both lanes work
  element by element (`dma_engine.sv:271`, `vector_unit.sv:313`). They differ on a destination that lies ahead of its
  source and overlaps it. No document promises equality there, and `MatchesGolden` excludes exactly this case.
* A smoke process that attaches while the previous process's program still runs loads nothing: its pokes are dropped.
  `PassIsOwnRun` is therefore about processes that found the chip idle.
* A DeltaNet state that nothing has written is read by the token stream (`rtl_artifacts.py:478`), harmless because that
  workload runs with the zero-tile shortcut; an int8 MATMUL with `FAST_BF16_MXU` would wait for ever
  (`tensor_core.sv:204`), and no program of that configuration has one.

## 4. What is proved

Eight modules hold theorems. An `Invariant` is the inductive invariant each argument is about, proved from `Init` and
step by step, one lemma per action or per conjunct; the constants are arbitrary within the assumptions of the modules
(`ConstantsOK` and the named ASSUMEs), which TLC evaluates on every run.

### Control and programs: `ChipProgram_proofs`

For any number of TensorCores and MXUs, any program depth, any instruction
set satisfying `ConstantsOK` and any host writes, ChipControl satisfies:

| Theorem | Statement |
|---|---|
| `TypeCorrect` | `Spec => []TypeOK` |
| `Invariant` | `Spec => []IInv`, the inductive invariant |
| `BarriersDrain`, `HaltIsQuiescent`, `StartIsQuiescent`, `CommandsCoherent`, `ErrorsAttributed` | the safety invariants of the run `control` |
| `IssuesExactlyOnce` | the action property `IssueExactlyOnce` |

The invariants are not inductive alone. `BarrierDrains` speaks of commands a unit accepted and of
retired barriers; a unit accepts at the current pc, so one needs that the fences lie behind pc and that
the port has not taken the instruction before, which in turn needs what the issue masks mean in each
state. `IssueBookkeeping` (part of the proof, not of a run) states this relation between FSM state, masks and history, and `CommandCoherent`
ties the masks to the instruction word (the host's write is gated by the chip being idle). With
`TypeOK` they form `IInv`, shown by one lemma per conjunct, each split by the actions of the FSM. The round-robin
lemma (`ChosenIsEligible`) rests on the least element of a set of naturals (`LeastElement`).

For ChipProgram, with any cells, programs, operand assignments, functions `Compute` and unit speeds:

| Theorem | Statement |
|---|---|
| `ProgramRefinesControl` | `ProgramSpec => Spec`: the theorems above hold of the running program |
| `ProgramInvariant` | `ProgramSpec => []PInv` |
| `RacesNever` | commands of a fenced program that are in flight together do not conflict (`RaceFree`) |
| `HaltIsGolden` | a fenced program halts with the golden executor's memory (`HaltMatchesGolden`) |

`RaceFree` is an order argument. `JobsOK` says which word each busy unit works on: one its port has taken. `OrderOK` says
that no word which `WaitsFor` a busy unit's word is past it: a retired BARRIER that covers the port, a later command
that the DMA engine, an idle TensorCore or the same single MXU has taken. The actions keep it because each of
these is what the code waits for. A conflict between two words in flight has such a word between them (`Fenced`), which
has then been passed or is the later one itself (`NoRaces`).

`HaltMatchesGolden` compares a concurrent run with a sequential one. `Golden(n)` is the memory after the first n words;
`GoldenNow` is `Golden(pc)`, one word further for the cells of ports that have taken the word being issued. The invariant has two halves: a unit
that has not written yet finds in memory the operands the golden model read, and its result is what its target
has in `GoldenNow` (`PendingOK`); every cell that no such unit will write is there already (`CellsOK`). A write moves a cell
from the first half to the second; accepting a command moves it back. Race freedom is used twice: no other unit
changes an operand before it is read, nor the target before it is written. At HALT no unit is busy (`HaltQuiescent`), so `CellsOK` is the claim.

### Units: `Units_proofs`, `ReduceUnit_proofs`, `MxuTop_proofs`, `DmaEngine_proofs`

`Units_proofs` first proves of the vector lane, for any memory size, word width, commands, fp circuits and interleaving
with other ports:

| Theorem | Statement |
|---|---|
| `TypeCorrect`, `Invariant` | registers keep their types; `IInv` is inductive |
| `GoldenResult` | a finished operation leaves `GoldenVector` (`MatchesGolden`) |
| `NoFaults` | an accepted command never meets an error response (`NeverFaults`) |

`MatchesGolden` speaks of the end only. The inductive invariant says where the unit is in the buffer: memory is the
golden *prefix* of the elements already written (`DataOK`), the request register addresses the current element
(`PortOK`), the command passed the check (`CommandOK`), and the operand registers hold what the golden model reads. `ElementInRange` derives
from the check that every element of all three operand layouts lies in memory; `PrefixKeepsOperands` is where the
side condition is used (a destination that does not run ahead of its source never overwrites an operand still to be
read); `PrefixGrows` extends the prefix by a write; `PrefixCommutes` lets another port write words the command
does not use.

It then takes the theorems of the other three modules and proves every safety property of the run `units_golden` of the
composition: `UnitsTypeCorrect` (`UnitTypeOK`), `UnitsGoldenResult` (`UnitMatchesGolden`), `UnitsNoFaults`
(`UnitNeverFaults`), `MxuStandsStill` (`MxuUndisturbed`) and `DmaCopies` (`DmaImplementsCopy`). `VectorBehaves`, `ReduceBehaves`, `MxuBehaves`
and `DmaBehaves` show that a behaviour of Units is one of the unit at work; `SameReduce`, `SameMxu` and `SameDma` that the instances in
which those theorems are stated are the instances of Units.

`ReduceUnit_proofs` proves `Invariant`, `TypeCorrect`, `GoldenResult` (`MatchesGolden`) and `NoFaults` (`NeverFaults`), for
any operation, length, number of columns, memory size and interleaving with other ports. The golden result of a group
is a fold over its elements, so the invariant needs the partial folds: `SoFar(c, m, g, n)` is the result of group g after its first n + 1
elements. Rows are walked group by group and columns all at once, so elements of a group are not neighbours: `Group` and
`Place` say where element `index_q` stands, `MemOK` that the word of each group holds the partial result of its latest element, which is
what READ_PRIOR reads back. `DataOK` says what value, prior and accumulator are at each state. A reduction in place is
covered as long as no result is written ahead of an element still to be read (`NoForwardOverlap`).

`DmaEngine_proofs` proves, for any memories, address width, HBM latency and commands, under `ConstantsOK`:

| Theorem | Statement |
|---|---|
| `TypeCorrect`, `Invariant` | types; `IInv` is inductive |
| `AccessesInRange` | no access of an accepted command leaves its memory (`AccessInRange`) |
| `GoldenResult` | a finished copy leaves the golden model's memory (`MatchesGolden`) |
| `ImplementsCopy` | the engine implements DmaCopy (`Implements`) |

The invariant follows one request from the engine's register through the memory to its answer: it is in exactly one of
these places, it is the request of the word at work, and the HBM is ready exactly when it works on none. The words still
to be copied are the only difference between the memory and the golden one. The check at accept adds 32-bit numbers;
`WrapsOnce` and `NoWrap` show that a sum that passed it has not wrapped, which `WordInRange` turns into the range of
every word. `MovedAgrees` is where the side condition is used: without forward overlap a word read late is the
word read early. For the refinement, `EdgeCopies` maps the edge at which a write takes effect to `CopyWord`, accept, reject, end and
rearm to their namesakes, and every other edge to a stutter.

`MxuTop_proofs` proves, for any array size, memory, commands and interleaving with other ports, under `ConstantsOK`:

| Theorem | Statement |
|---|---|
| `TypeCorrect`, `Invariant` | types; `IInv` is inductive |
| `NoFaults` | no access of an accepted MATMUL fails (`NeverFaults`) |
| `Undisturbed` | `ArrayUndisturbed` |
| `DataInvariant` | `DataInv` is inductive relative to `IInv` |
| `GoldenProduct` | a finished MATMUL leaves the golden model's product (`MatchesGolden`) |

`IInv` is about control: it keeps the two counters inside the tile that is being walked
(`WalkInv`), from which `AInRange`, `BInRange` and `CInRange` derive every address from the check at accept, and says
that the array works only in RUN_WAIT, on slices that were loaded (`ArrayInv`); `Handover` is what the array may rely on at each edge.
`DataInv` is about values and has a part for each stage a value passes: the request and the answer on the port, and the
byte lane kept beside them, are those of the place the walk is at (`PlaceInv`); the places the walk has passed hold the
operand matrices (`TileInv`); the sums are the golden sums over the slices fed so far (`SumInv`); the results stored so far are in memory, and
no other word has changed (`MemoryInv`). The sum of the golden model is a recursive function; `SumsOK` follows it one
slice at a time, so that nothing has to be said about all its values at once. Operands are read before the first store and
kept in the tiles, so no premise about overlap is needed.

### Memories and shell: `TensorCoreVmem_proofs`, `F2Shell_proofs`

`TensorCoreVmem_proofs` proves every invariant of the run `vmem_ports`, for any number of MXUs, words and banks and any
CLEAR commands: `TypeCorrect`, `WaitsAnswered` (`WaitIsAnswered`), `BanksExclusive` (`OneAccessPerBank`), `ClearCovers`
(`ClearsUnrefused`) and `ClearConfined` (`ClearsOnlyRange`). Two facts carry them: an engine that leaves its request
state was granted, so that its answer is on the port at the next edge, and it leaves its wait state at that edge; and CLEAR
and reduce_unit exclude each other (`ClearAlone`), so that CLEAR's trailing duplicate never meets a waiting reduce_unit.
CLEAR itself has tried every word behind its offset (`Passed`).

`F2Shell_proofs` proves every invariant of the run `shell_masters`, for any payloads and any mixture of masters:

| Theorem | Statement |
|---|---|
| `TypeCorrect`, `Invariant` | types; `IInv` is inductive |
| `DebugWindowIdle`, `ResponsesOwned` | `DebugOnlyWhenIdle`, `ResponseToOwner` |
| `OnceServed` | `ServedOnce` |
| `RequestsFaithful`, `WritesNotDropped` | `RequestFaithful`, `WriteNotDropped` |

`ChannelInv` is the heart: the adapter is ready exactly when neither the bridge nor the DMA engine waits for it, and works
for the one that waits. This makes the missing look at `ready` harmless: a bridge in HBM_REQ, as a DMA engine that
drives its request, always finds the adapter ready, so that it never holds a request the adapter has taken. A start pulse exists only while
the bridge waits for the chip's MMIO response, so none can be in flight when it dispatches to the HBM. `Whole` and
`Alone` add what masters of each habit guarantee.

### Hosts: `Hosts_proofs`

Of decoding, `Hosts_proofs` proves `DecodeCorrect`: `Spec => []DecodeMatchesPrefill`, under `DecodeAssumption` and `GoldenAssumption`. Numbers
of layers, sizes, heads, convolution length, attention schedule, weights, prompts, numbers of new tokens, exp, reciprocal
and inverse square root are arbitrary, and so is what `np.empty` left in the buffers; arithmetic is exact, modulo any `P` above 2.

The inductive invariant, `DecodeInv`, says what the caches hold after t tokens (`CacheHolds`): in every attention layer the
first t rows of the buffers are `Keys` and `Values` of the whole sequence; in every DeltaNet layer the history is the last
`Window(t)` inputs of the convolution and the state is the unrolled one (`StatesAt`); and `pos` is t. Nothing is said of the rows
behind, which hold whatever was there. Three facts carry it:

* *Causality.* What a layer gives for the first t tokens depends on those only (`AttentionMixSame`, `CatsSame`, `StatesSame`,
  `LayerSame`, `StreamsSame`). Appending a token therefore leaves what the caches should hold of the earlier ones as it
  was (`CacheHoldsSame`), although `Uncached` computes everything anew over the longer sequence.
* *One token, one layer.* From caches of n - 1 tokens, `attention_layer` and `deltanet_layer` give the output of the
  whole sequence at n and leave caches of n (`AttentionStep`, `DeltaStep`). For DeltaNet this needs algebra: the code scales
  state and prediction by alpha separately, the recurrence decays the state first (`DeltaRuleIs`, by
  associativity and distributivity over a sum computed by halves, `TotalMul`).
* *One token, all layers.* `Reaches(s, tokens, n, j, max_seq)` is the invariant of the loop of `forward_token`: the layers
  below j hold n tokens, those from j on n - 1, and the stream is that of token n before layer j (`LayerReaches`).

Of the job server it proves, for any number of requests, variables, values and readers:

| Theorem | Statement |
|---|---|
| `ServerTypeCorrect`, `ServerInvariant` | types; `ServerInv` is inductive |
| `AtMostOneJob` | `OneJobAtATime` |
| `OwnSettings` | `BuildSeesOwnSettings` |
| `ResultWithSuccess` | `SucceededHasResult` |

The lock covers only `start_job` and the last statement of a job, so the invariant says what the lock does not: a
job's place in its thread determines its status, an unended job is the active one (so at most one thread is inside
`_temporary_env`), `old` is the starting environment while a job is inside and the starting environment stands otherwise,
and a job's result is in place before its status becomes *succeeded* and never changes after, so that a reader may copy the two
one after the other.

Of the smoke runtime it proves `PassCorrect` (`PassIsOwnRun`), for any number of processes, files and words: the invariant follows a process
that found the chip idle through its load (the words before the loop index are its own, the chip stays idle), and the
launch to the result (`computed` is the last launch when the chip has halted), whatever earlier processes left.

### Programs: `Hosts_proofs`

The last part of `Hosts_proofs` is about ProgramRun. `ChipProgram_proofs` shows that the chip leaves what the golden model
leaves if no open command conflicts with the next one; here it is proved that the builders keep their side. Each theorem has
the form `RunSpec(j) => []NoConflictInFlight`, for a job `j` with any memories and results and units of any speed:

| Theorem | Programs |
|---|---|
| `FencedIsEnough` | any program in which some instruction between two conflicting ones, or the later of them, waits for the first (`Fenced`) |
| `ProgramsSafe` | `programs.py`: `matmul_16`, `cmem_staged`, `split_output` in any layout whose operands and result are apart (`Fits`); the two tiled products for every shape and tile in such a layout (`TiledFits`); `matmul_128`; `split_8` to an edge of 11; `mlp` to an edge of 16 |
| `KernelsSafe` | every kernel of `kernels.py` with the barriers of `_sync_kernel`, in any layout, buffers that overlap included |
| `ArtifactsSafe` | every workload of `rtl_artifacts.py`, for any dimensions of the model and any tile; the token stream where FAST_BF16_MXU executes it (`bf16 # "arrays"`) |

The invariant of a run, `IssueInv`, is that nothing issued since an open command was issued waits for it; it turns
`Fenced`, a fact about the code alone, into `NoConflictInFlight`. Whether a generated program is fenced is shown part by part:

* A part is *clean* if it is fenced and every command in it is waited for before its end. Nothing then crosses a seam, and
  clean parts join (`CleanJoined`, and `GoodConcat` for loops of any length).
* For kernels and artifacts more holds than is needed: each command is followed at once by an instruction that waits for it
  (`Guarded`), wherever the data are. That is why layouts do not matter there. `Build` turns items into instructions one for
  one and keeps what follows what (`Refines`, `BuildClean`).
* `programs.py` overlaps commands on purpose: the two loads of a tile, the CLEAR of the result with the loads of its operands,
  a MATMUL on each TensorCore or MXU. Its programs are shown clean one instruction at a time, from the ranges each
  reads and writes, and that is where the layout is needed. In the tiled products the CLEAR of a result tile stays open
  until the barrier behind the first product (`ClearedFirst`).
* The token stream has no barrier between its MATMULs, all of which use the same VMEM words. It is clean because the fast array
  takes a command only when its TensorCore is idle (`ProductsClean`); on the systolic arrays two MXUs could work at once.
  The builder emits it "for the fast BF16 harness" (`rtl_artifacts.py:420`).

The edges 11 and 16 are those of the fixed addresses in `split_8` and `mlp`: above them an operand would reach into the
result. The repository uses 8 and 16.

### What is only model-checked

* **Liveness**: `RunTerminates`, `UnitCommandEnds`, `ClearEnds`, `DmaServed`, `TransactionEnds`, `ProcessEnds`. Weak fairness
  is defined by ENABLED, about which the prover knows nothing.
* **Results of programs**: `ResultsMatchReference` and `CommandsAccepted` of ProgramRun are about 25 given
  programs, each one behaviour, which TLC evaluates. They follow every element through hundreds of instructions of
  a concrete layout, and the bits of every word through encoder and decoder: computations, which no argument covers for
  all layouts (one whose buffers overlap has other results). That a run one instruction after the
  other stands for the chip is `HaltIsGolden` with the theorems about programs above.

The induction theorems of the library take operators as parameters, which no installed prover instantiates. Where a proof
needs induction over data all the same (that a recursively defined function exists and unfolds: `GoldenExists`, the
partial folds of ReduceUnit, the sums of MxuTop, the reductions, states and streams of Decode, the joined parts of
programs), it takes the least counterexample from the set of all of them (`LeastElement`).

## 5. What is not modelled

* **Arithmetic below the element**: fp32 and bf16 rounding, the fp32 circuits, the epsilon of l2norm as a number. The unit
  modules keep integer overflow; the program modules work in a field.
* **Simulation-only parts**: the fast bf16 path inside VMEM beyond what it does to issue order and results; the loadable
  and mmap HBM variants; the F2 simulation top and AXI memory model; physical memory macros (same interfaces).
* **Reporting**: performance counters and their read-back (read in two halves by the smoke runtime, but only after
  done), log lines, `run.json` fields other than the MATMUL count.
* **AXI burst channels** below the adapter's request and response; arrays no top instantiates
  (`splittable_systolic_array`, `systolic_array_128`).
* **Text and files**: the assembler and hex emitter, weight files, artifact directories, the web page and chat. They have
  no state across calls.
* **Memory planner, IR and graph lowering**: a bump allocator and data classes that no program builder uses.
* **Real-weight inference**: numpy on files; its structure is that of `runtime.py`, which is modelled.
* **Layout search, network simulation, physical design**: offline numeric searches and tool flows, no protocol.
* The end of instruction memory without HALT, which wraps in the chip and is an error in the golden model
  (`golden.py:94`): every program of the repository halts.

## 6. How the project is laid out

| Part | Modules | Proofs |
|---|---|---|
| Control | `ChipControl`, `ChipProgram`, `MCChipControl`, `MCChipProgram` | `ChipProgram_proofs` |
| Units and memories | `DmaCopy`, `DmaEngine`, `VmemClient`, `VectorUnit`, `ReduceUnit`, `MxuTop`, `Units`, `TensorCoreVmem`, `MCUnits`, `MCTensorCoreVmem` | `DmaEngine_proofs`, `ReduceUnit_proofs`, `MxuTop_proofs`, `Units_proofs`, `TensorCoreVmem_proofs` |
| Shell | `F2Shell`, `MCF2Shell` | `F2Shell_proofs` |
| Programs | `Isa`, `InstrDecoder`, `GoldenModel`, `Programs`, `Kernels`, `QwenReference`, `QwenArtifacts`, `ProgramRun`, `MCQwenModel`, `MCProgramRun` | `Hosts_proofs` |
| Host | `Decode`, `DemoServer`, `SmokeHost`, `Hosts`, `MCSoftware` | `Hosts_proofs` |

The operators no specification uses, each next to a definition it varies (`RestoredIfSet` and `Restored`), are mutants: plausible
bugs under which the property `PROJECT.json` names for them is violated.

What would come next: the request port of VmemClient as an abstraction of TensorCoreVmem (that an engine of
TensorCoreVmem and the other ports implement its grant and answer), which would join the theorems about the
units with those about the memory.
