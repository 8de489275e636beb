----------------------------- MODULE ProgramRun -----------------------------
(***************************************************************************)
(* A program of the repository from its host image to its results.  The     *)
(* control FSM issues one instruction after the other; an issued command    *)
(* stays open, that is may still be reading or writing, until the issue of  *)
(* a later instruction waits for it.  ChipProgram shows that open commands  *)
(* that touch different memory leave what GoldenExecutor leaves, so the     *)
(* memories change here when a command is issued, and NoConflictInFlight is *)
(* the obligation of the program.                                           *)
(*                                                                          *)
(* A job is a record: code; mem, the memories the host prepares; results,   *)
(* a set of [span, v] the reference computes; edge, the edge of the chip's  *)
(* systolic arrays; bf16, who executes BF16 MATMULs: the "arrays", the      *)
(* "fast" array of FAST_BF16_MXU, or "zero", the same with                  *)
(* FAST_BF16_ZERO_TILE_SHORTCUT; matmuls, the number of MATMULs run.json    *)
(* reports, or -1 where it reports none.                                    *)
(***************************************************************************)
EXTENDS QwenArtifacts, InstrDecoder

VARIABLES
  job,      \* the job; never changes
  pc,       \* next instruction to issue
  memories, \* what they hold
  open      \* program counters of the commands that may be in flight

runVars == <<job, pc, memories, open>>

-----------------------------------------------------------------------------
(* What the issue of an instruction waits for                               *)

TensorOps == {MATMUL, VECTOR_OP, REDUCE, CLEAR}
Async(i) == i.op \in DmaOpcodes \cup TensorOps

\* The TensorCores of a command, by their VMEMs
Cores(i) == IF i.op = CLEAR THEN {i.flags % 8} ELSE Vmems(i.target)

\* mxu_target_mask: no selector selects every MXU.
Selected(i) == IF i.target % 16 = 0 THEN 0 .. 3 ELSE {x \in 0 .. 3 : Bit(i.target, x)}

\* CTRL_BARRIER: bit 0 waits for the DMA engine, every other unit bit for all
\* units of all TensorCores.
BarrierCovers(mask, i) ==
  IF i.op \in DmaOpcodes THEN Bit(mask, 0)
  ELSE \E b \in {1, 2, 3, 5, 6} : Bit(mask, b)

\* A MATMUL for the fast array; with the shortcut it only stores zeros.
Fast(k) == k.op = MATMUL /\ Bit(k.flags, BF16) /\ job.bf16 # "arrays"
Shortcut(k) == Fast(k) /\ job.bf16 = "zero"
ZeroTile(mem, k) ==
  IF Bit(k.flags, ACCUMULATE) THEN mem
  ELSE [s \in AddressSpace |->
          IF s \in Vmems(k.target)
          THEN Store(mem[s], k.dst, 4, [e \in 1 .. k.imm0 * k.imm1 |-> 0]) ELSE mem[s]]

\* The fast array, like the vector and reduce units and CLEAR, is handed a
\* command only when no unit of its TensorCore is busy.
WaitsForCore(k) == k.op \in {VECTOR_OP, REDUCE, CLEAR} \/ Fast(k)

\* Instruction k is issued, or retired, after command i has completed.
WaitsFor(k, i) ==
  \/ k.op = BARRIER /\ BarrierCovers(k.imm0, i)
  \/ k.op = HALT
  \/ k.op \in DmaOpcodes /\ i.op \in DmaOpcodes
  \/ WaitsForCore(k) /\ i.op \in TensorOps /\ Cores(i) \subseteq Cores(k)
  \/ /\ k.op = MATMUL /\ i.op = MATMUL /\ Cores(i) \subseteq Cores(k)
     /\ Cardinality(Selected(k)) = 1 /\ Selected(i) = Selected(k)

-----------------------------------------------------------------------------

Start(j) ==
  /\ job = j
  /\ pc = 1 /\ memories = job.mem /\ open = {}

StillOpen(k) == {p \in open : ~WaitsFor(k, job.code[p])}

\* CTRL_FETCH to CTRL_NEXT for one instruction
Issue ==
  /\ pc <= Len(job.code)
  /\ LET i == job.code[pc] IN
       /\ memories' = IF Shortcut(i) THEN ZeroTile(memories, i) ELSE Execute(memories, i)
       /\ open' = StillOpen(i) \cup (IF Async(i) THEN {pc} ELSE {})
  /\ pc' = pc + 1 /\ UNCHANGED job

Halted == pc > Len(job.code)
RunNext == Issue \/ (Halted /\ UNCHANGED runVars)

-----------------------------------------------------------------------------
(* Properties                                                               *)

Overlap(S, T) ==
  \E s \in S, t \in T :
    s.space = t.space /\ s.at < t.at + t.n * t.w /\ t.at < s.at + s.n * s.w

\* A CLEAR and a MATMUL may overlap in the destination only: the array stores
\* after it has read its operands, and the CLEAR of a square tile is then done
\* (programs.py relies on it in six places).
Conflict(i, k) ==
  \/ Overlap(Writes(i), Reads(k)) \/ Overlap(Writes(k), Reads(i))
  \/ Overlap(Writes(i), Writes(k)) /\ ~(i.op = CLEAR /\ k.op = MATMUL)

\* No program relies on an order the chip does not give, but for that of CLEAR
\* and MATMUL in Conflict: a command in flight and the next instruction touch
\* different memory.  The barriers of the builders, _sync_kernel and the VMEM
\* plans are what makes it true.
NoConflictInFlight ==
  ~Halted => \A p \in StillOpen(job.code[pc]) : ~Conflict(job.code[p], job.code[pc])

\* "GoldenExecutor is the reference" (golden.py) of the builders' expected.npz
\* and of the tests: when the program has halted, the results are those of the
\* mathematics it implements, every tile, head, layer and residual included.
ResultsMatchReference ==
  Halted => \A r \in job.results :
              Elements(memories[r.span.space], r.span.at, r.span.n, 4) = r.v

\* The word survives its encoding, the decoder accepts it (but for the reductions
\* of ReductionsAreLegal), the golden model accepts the command, the arrays are
\* large enough, and it reads only what the host or the program has written,
\* with the width it was written with.
FitsArray(i) == i.op = MATMUL /\ ~Fast(i) => {i.imm0, i.imm1, i.imm2} \subseteq 1 .. job.edge
CommandsAccepted ==
  ~Halted => LET i == job.code[pc] IN
               /\ Encodable(i) /\ Decode(Encode(i)) = i
               /\ error_code(i) = IF reduce_ok(i) THEN "NONE" ELSE "UNSUPPORTED"
               /\ Accepts(i) /\ QuantizeAccepts(i) /\ FitsArray(i)
               /\ Shortcut(i) \/ Defined(memories, i)

-----------------------------------------------------------------------------
(* What is said of the programs, and does not hold                          *)

\* The `matmul_instructions` of the executable in run.json is the number of
\* MATMULs of the program beside it.
Matmuls(code) == Cardinality({p \in DOMAIN code : code[p].op = MATMUL})
Counted(j) == j.matmuls \in {-1, Matmuls(j.code)}
MatmulsAsReported == Counted(job)

\* kernels.py: "Transformer kernels as vTPU instruction sequences
\* (golden-verified, RTL-executable)": the chip's decoder takes every reduction.
ReductionsAreLegal ==
  ~Halted /\ job.code[pc].op = REDUCE => error_code(job.code[pc]) = "NONE"
=============================================================================
