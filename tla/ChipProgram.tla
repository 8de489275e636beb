---------------------------- MODULE ChipProgram ----------------------------
(***************************************************************************)
(* What a program leaves in memory when ChipControl runs it on units that  *)
(* work concurrently, compared with GoldenExecutor, which executes one     *)
(* instruction after the other and treats BARRIER as a no-op.  A unit that *)
(* runs a command reads its operands at some edge and writes its result at *)
(* a later one.  A command uses cells: a word range of the HBM or of one   *)
(* TensorCore's VMEM that is used as a whole.                              *)
(***************************************************************************)
EXTENDS ChipControl

CONSTANTS
  HbmCell, VmemCell,  \* cells of the HBM and of every VMEM
  Programs,           \* programs: an image and the operands of every word
  Compute(_, _, _),   \* Compute(op, x, y): result from a source and from the
                      \* old contents of the destination
  Initial,            \* memory contents at reset
  MaxRuns             \* bound: times the host starts the chip

Cell == ({NumTC} \X HbmCell) \cup (TC \X VmemCell)
Operands == [src : Cell, dst : Cell, accumulate : BOOLEAN]

\* A TensorCore's command names words of a VMEM.
ASSUME ProgramAssumption ==
  /\ Programs \subseteq [image : Images, operands : [0 .. Depth - 1 -> Operands]]
  /\ \A P \in Programs, i \in 0 .. Depth - 1 :
       P.image[i].op \in TcOps => {P.operands[i].src, P.operands[i].dst} \subseteq TC \X VmemCell
  /\ Initial \in [Cell -> Nat] /\ MaxRuns \in Nat

VARIABLES
  program,    \* the program in imem, with src, dst and flags of every word; never changes
  memory,     \* contents of HBM and VMEMs
  stage,      \* what a running unit has done: nothing, read its operands, written its result
  value,      \* the result of a unit that has read and not written
  memory0,    \* history: memory when the run started
  runs        \* history: starts so far

dataVars == <<program, memory, stage, value, memory0, runs>>

-----------------------------------------------------------------------------
(* Commands of a program P                                                 *)

Command(P, i) == P.image[i].op \in DmaOps \cup TcOps

\* The ports word i is handed to, and the cell an operand means there.
Ports(P, i) == IF P.image[i].op \in DmaOps THEN {DmaPort} ELSE DecodedTcMask(P.image[i])
At(port, cell) == IF port = DmaPort THEN cell ELSE <<port, cell[2]>>

ReadsCells(P, i, p) ==
  {At(p, P.operands[i].src) : x \in IF P.image[i].op = "CLEAR" THEN {} ELSE {0}}
    \cup {At(p, P.operands[i].dst) : x \in IF P.operands[i].accumulate THEN {0} ELSE {}}
WritesCell(P, i, p) == At(p, P.operands[i].dst)

\* Word i's result on port p, from the memory it reads.
ResultOf(P, i, p, m) ==
  LET o == P.operands[i]
  IN  CASE P.image[i].op \in DmaOps -> m[o.src]
        [] P.image[i].op = "CLEAR"  -> 0
        [] OTHER -> Compute(P.image[i].op, m[At(p, o.src)],
                            IF o.accumulate THEN m[At(p, o.dst)] ELSE 0)

-----------------------------------------------------------------------------
(* GoldenExecutor: one word after the other until HALT; NOP, SYNC and      *)
(* BARRIER change nothing.                                                 *)

\* The port whose command writes c: a TensorCore writes into its own VMEM.
WriterPort(P, i, c) == IF P.image[i].op \in DmaOps THEN DmaPort ELSE c[1]

GoldenStep(P, i, m) ==
  IF ~Command(P, i) THEN m
  ELSE [c \in Cell |-> LET p == WriterPort(P, i, c)
                       IN  IF p \in Ports(P, i) /\ c = WritesCell(P, i, p)
                           THEN ResultOf(P, i, p, m) ELSE m[c]]

\* Memory after the first n words, from m.
GoldenAfter(P, m) ==
  LET after[n \in 0 .. Depth] == IF n = 0 THEN m ELSE GoldenStep(P, n - 1, after[n - 1])
  IN  after

\* The first HALT: the golden model executes the words before it.
IsFirstHalt(P, h) == P.image[h].op = "HALT" /\ \A i \in 0 .. h - 1 : P.image[i].op # "HALT"
HaltAt(P) == CHOOSE h \in 0 .. Depth - 1 : IsFirstHalt(P, h)

GoldenRun(P, m) == GoldenAfter(P, m)[HaltAt(P)]

-----------------------------------------------------------------------------
(* What the control path orders                                            *)

SingleMxu(i) == IF \E m \in Mxu : MxuMask(i) = {m} THEN MxuMask(i) ELSE {}

\* Word k is not accepted, or not retired, before word i < k has finished on
\* port p: a barrier that covers the port; the next command of the one DMA
\* engine; a command of a TensorCore that waits until all its units are idle;
\* a MATMUL that must use the same MXU.
WaitsFor(P, k, i, p) ==
  LET op == P.image[k].op
  IN  \/ op = "BARRIER" /\ (IF p = DmaPort THEN "dma" ELSE "tc") \in KindsOf(P.image[k].mask)
      \/ op \in DmaOps /\ p = DmaPort
      \/ op \in {"VECTOR_OP", "REDUCE", "CLEAR"} /\ p \in Ports(P, k)
      \/ /\ op = "MATMUL" /\ P.image[i].op = "MATMUL" /\ p \in Ports(P, k)
         /\ SingleMxu(P.image[k]) # {} /\ SingleMxu(P.image[k]) = SingleMxu(P.image[i])

\* Two commands that cannot be reordered: one writes a cell the other uses.
Conflict(P, i, p, j, q) ==
  \/ WritesCell(P, i, p) \in ReadsCells(P, j, q) \cup {WritesCell(P, j, q)}
  \/ WritesCell(P, j, q) \in ReadsCells(P, i, p)

\* The program halts, and conflicting commands have something between them that waits.
Fenced(P) ==
  /\ \E h \in 0 .. Depth - 1 : P.image[h].op = "HALT"
  /\ \A i, j \in 0 .. HaltAt(P) : i < j /\ Command(P, i) /\ Command(P, j) =>
       \A p \in Ports(P, i), q \in Ports(P, j) :
         Conflict(P, i, p, j, q) => \E k \in i + 1 .. j : WaitsFor(P, k, i, p)

-----------------------------------------------------------------------------
(* Units at work                                                           *)

Result(u) == ResultOf(program, job[u], PortOf(u), memory)
Target(u) == WritesCell(program, job[u], PortOf(u))

\* The units in "progress" read their operands or write their result.  Which of
\* two units that write one cell at one edge wins does not matter: RaceFree.
DataStep(progress) ==
  LET readers == {u \in progress : stage[u] = "TODO"}
      writers == {u \in progress : stage[u] = "READ"}
  IN  /\ stage' = [u \in Unit |-> CASE u \in Accepting -> "TODO"
                                  [] u \in readers   -> "READ"
                                  [] u \in writers   -> "WRITTEN"
                                  [] OTHER           -> stage[u]]
      /\ value' = [u \in Unit |-> CASE u \in readers -> Result(u)
                                  [] u \in writers -> 0
                                  [] OTHER         -> value[u]]
      /\ memory' = [c \in Cell |->
           LET here == {u \in writers : Target(u) = c}
           IN  IF here = {} THEN memory[c] ELSE value[CHOOSE u \in here : TRUE]]
      /\ memory0' = IF startPulse THEN memory ELSE memory0
      /\ runs' = IF startPulse' THEN runs + 1 ELSE runs
      /\ UNCHANGED program

\* A unit leaves its busy states when its result is in memory.  The host starts
\* the chip and leaves the program alone.
ProgramEdge(stop, progress) ==
  /\ Edge(stop, {}) /\ DataStep(progress)
  /\ UNCHANGED imem /\ runs' <= MaxRuns

ProgramInit ==
  /\ Init
  /\ program \in Programs /\ program.image = imem
  /\ memory = Initial /\ memory0 = Initial
  /\ stage = [u \in Unit |-> "WRITTEN"] /\ value = [u \in Unit |-> 0]
  /\ runs = 0

ProgramNext ==
  \E stop \in SUBSET {u \in Unit : Busy(u) /\ stage[u] = "WRITTEN"},
     progress \in SUBSET {u \in Unit : Busy(u) /\ stage[u] # "WRITTEN"} :
    ProgramEdge(stop, progress)

progVars == <<vars, dataVars>>

ProgramSpec == ProgramInit /\ [][ProgramNext]_progVars

-----------------------------------------------------------------------------
(* Properties                                                              *)

\* Commands that are in flight together touch different cells, for a program
\* whose conflicts are fenced: BARRIER, the single DMA engine and the ready
\* signals of the TensorCores are all the ordering there is.
RaceFree ==
  Fenced(program) => \A u, v \in Unit : u # v /\ Busy(u) /\ Busy(v) =>
                       ~Conflict(program, job[u], PortOf(u), job[v], PortOf(v))

\* rtl/README.md: the golden executor is the source of truth.  When a fenced
\* program halts, the memories hold what it leaves.
HaltMatchesGolden ==
  Fenced(program) /\ state = "HALT" => memory = GoldenRun(program, memory0)
=============================================================================
