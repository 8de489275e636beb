----------------------------- MODULE ReduceUnit -----------------------------
(***************************************************************************)
(* reduce_unit: sums and maxima of a buffer, of its rows or of its columns *)
(* in one TensorCore's VMEM.  Whole-buffer reductions keep the accumulator *)
(* in a register; row and column reductions keep one partial result per    *)
(* group in the destination and read it back for every element.  The fp32  *)
(* circuits are the opaque operator Fp.                                    *)
(***************************************************************************)
EXTENDS VmemClient

CONSTANTS
  Cmds,         \* commands a TensorCore may hand to the unit
  Fp(_, _, _)   \* Fp(op, x, y): floating-point x * y ("MUL"), x + y ("ADD") or maximum ("MAX")

VARIABLES cmd_q, index_q, acc_q, value_q, write_value_q, write_addr_q,
          accepted      \* history: commands accepted so far

unit == <<cmd_q, index_q, acc_q, value_q, write_value_q, write_addr_q, accepted>>
vars == <<state_q, port, unit>>

Cmd == [op : 0 .. 255, src : Nat, dst : Nat, length : Nat, columns : Nat]

\* What the constants are.
ConstantsOK == /\ Cmds \subseteq Cmd
               /\ \A op \in {"MUL", "ADD", "MAX"}, x, y \in Word : Fp(op, x, y) \in Word

-----------------------------------------------------------------------------
(* Operations: SUM_ALL, MAX_ALL, SUM_ROWS, MAX_ROWS, SUM_COLS, MAX_COLS,   *)
(* FSUM_ALL, FMAX_ALL, FSUMSQ_ALL, FSUM_ROWS, FMAX_ROWS are 0 .. 10.       *)

IsFp(op)  == op \in 6 .. 10
IsAll(op) == op \in {0, 1, 6, 7, 8}
IsRow(op) == op \in {2, 3, 9, 10}
IsCol(op) == op \in {4, 5}
IsMax(op) == op \in {1, 3, 5, 7, 10}
FSUMSQ_ALL == 8

\* What an element contributes; FSUMSQ squares it.
Addend(op, value) == IF op = FSUMSQ_ALL THEN Fp("MUL", value, value) ELSE value

Combine(op, prior, value) ==
  IF IsFp(op) THEN Fp(IF IsMax(op) THEN "MAX" ELSE "ADD", prior, Addend(op, value))
  ELSE IF IsMax(op) THEN IF value > prior THEN value ELSE prior
  ELSE Wrap(prior + value)

Rows(c) == IF c.columns = 0 THEN 0 ELSE c.length \div c.columns
OutWords(c) == IF IsAll(c.op) THEN 1 ELSE IF IsRow(c.op) THEN Rows(c) ELSE c.columns

\* The group element i belongs to, and whether it is the group's first.
OutIndex(c, i) == IF IsAll(c.op) THEN 0
                  ELSE IF IsRow(c.op) THEN i \div c.columns ELSE i % c.columns
FirstInGroupEveryRow(c, i) == IF IsAll(c.op) THEN i = 0 ELSE i % c.columns = 0
FirstInGroup(c, i) == IF IsAll(c.op) THEN i = 0
                      ELSE IF IsRow(c.op) THEN i % c.columns = 0 ELSE i \div c.columns = 0

Src(c, i) == c.src + 4 * i
Dst(c, j) == c.dst + 4 * j

-----------------------------------------------------------------------------
(* Command check                                                           *)

RangeOK(addr, words) == addr + 4 * words <= 4 * Words

ShapeOK(c) == /\ c.op <= 10 /\ c.length # 0
              /\ ~IsAll(c.op) => c.columns # 0 /\ c.length % c.columns = 0

Verdict(c) ==
  IF ~ShapeOK(c) THEN "UNSUPPORTED"
  ELSE IF c.dst % 4 # 0 \/ c.src % 4 # 0 THEN "UNALIGNED"
  ELSE IF ~(RangeOK(c.src, c.length) /\ RangeOK(c.dst, OutWords(c))) THEN "BAD_ADDR"
  ELSE "NONE"

Legal(c) == Verdict(c) = "NONE"

-----------------------------------------------------------------------------
(* The golden model reads the buffer, reduces each group, then writes.     *)

\* Element n of group j, in buffer order.
Member(c, j, n) == IF IsAll(c.op) THEN n
                   ELSE IF IsRow(c.op) THEN j * c.columns + n ELSE n * c.columns + j
GroupSize(c) == IF IsAll(c.op) THEN c.length
                ELSE IF IsRow(c.op) THEN c.columns ELSE Rows(c)

GoldenReduction(c, m, j) ==
  LET last == GroupSize(c) - 1
      value(n) == m[c.src \div 4 + Member(c, j, n)]
      sum[n \in 0 .. last] == IF n = 0 THEN value(0) ELSE sum[n - 1] + value(n)
      fp[n \in 0 .. last]  ==
        IF n = 0 THEN Addend(c.op, value(0))
        ELSE Fp(IF IsMax(c.op) THEN "MAX" ELSE "ADD", fp[n - 1], Addend(c.op, value(n)))
  IN  IF IsFp(c.op) THEN fp[last]
      ELSE IF IsMax(c.op)
      THEN CHOOSE v \in {value(n) : n \in 0 .. last} : \A n \in 0 .. last : v >= value(n)
      ELSE Wrap(sum[last])

GoldenReduce(c, m) ==
  [a \in Addr |-> IF a - c.dst \div 4 \in 0 .. OutWords(c) - 1
                  THEN GoldenReduction(c, m, a - c.dst \div 4) ELSE m[a]]

Inputs(c)  == {Src(c, i) \div 4 : i \in 0 .. c.length - 1}
Outputs(c) == {Dst(c, j) \div 4 : j \in 0 .. OutWords(c) - 1}

-----------------------------------------------------------------------------
(* The unit, one action per state                                          *)

Accept(c) ==
  /\ state_q = "IDLE" /\ accepted < MaxCmds /\ Legal(c)
  /\ cmd_q' = c /\ index_q' = 0 /\ acc_q' = 0 /\ state_q' = "READ_VALUE_REQ"
  /\ mem0' = mem /\ accepted' = accepted + 1
  /\ UNCHANGED <<value_q, write_value_q, write_addr_q, vmem_req_q, vmem_resp, mem>>

Reject(c) ==
  /\ state_q = "IDLE" /\ accepted < MaxCmds /\ ~Legal(c)
  /\ state_q' = "ERROR" /\ accepted' = accepted + 1
  /\ UNCHANGED <<cmd_q, index_q, acc_q, value_q, write_value_q, write_addr_q, port>>

ReadValueReq ==
  /\ \/ Drive("READ_VALUE_REQ", ReadOf(Src(cmd_q, index_q)))
     \/ Grant("READ_VALUE_REQ", "READ_VALUE_WAIT")
  /\ UNCHANGED unit

\* A whole-buffer reduction reads on until the last element.
Accumulate ==
  LET last  == index_q = cmd_q.length - 1
      total == IF index_q = 0 THEN Addend(cmd_q.op, vmem_resp.rdata)
               ELSE Combine(cmd_q.op, acc_q, vmem_resp.rdata)
  IN  /\ IsAll(cmd_q.op)
      /\ Answered("READ_VALUE_WAIT", IF last THEN "WRITE_REQ" ELSE "READ_VALUE_REQ")
      /\ IF vmem_resp.error THEN UNCHANGED unit
         ELSE /\ value_q' = vmem_resp.rdata /\ acc_q' = total
              /\ IF last
                 THEN write_addr_q' = cmd_q.dst /\ write_value_q' = total /\ UNCHANGED index_q
                 ELSE index_q' = index_q + 1 /\ UNCHANGED <<write_addr_q, write_value_q>>
              /\ UNCHANGED <<cmd_q, accepted>>

\* A row or column reduction starts its group's word or goes to read it.
Select ==
  LET first == FirstInGroup(cmd_q, index_q)
  IN  /\ ~IsAll(cmd_q.op)
      /\ Answered("READ_VALUE_WAIT", IF first THEN "WRITE_REQ" ELSE "READ_PRIOR_REQ")
      /\ IF vmem_resp.error THEN UNCHANGED unit
         ELSE /\ value_q' = vmem_resp.rdata
              /\ write_addr_q' = Dst(cmd_q, OutIndex(cmd_q, index_q))
              /\ write_value_q' = IF first THEN vmem_resp.rdata ELSE write_value_q
              /\ UNCHANGED <<cmd_q, index_q, acc_q, accepted>>

ReadPriorReq ==
  /\ \/ Drive("READ_PRIOR_REQ", ReadOf(write_addr_q))
     \/ Grant("READ_PRIOR_REQ", "READ_PRIOR_WAIT")
  /\ UNCHANGED unit

ReadPriorWait ==
  /\ Answered("READ_PRIOR_WAIT", "WRITE_REQ")
  /\ write_value_q' = IF vmem_resp.error THEN write_value_q
                      ELSE Combine(cmd_q.op, vmem_resp.rdata, value_q)
  /\ UNCHANGED <<cmd_q, index_q, acc_q, value_q, write_addr_q, accepted>>

WriteReq ==
  /\ \/ Drive("WRITE_REQ", WriteOf(write_addr_q, write_value_q))
     \/ Grant("WRITE_REQ", "WRITE_WAIT")
  /\ UNCHANGED unit

\* The integer whole-buffer operations write once; the others end at the last element.
WriteWait ==
  LET last == cmd_q.op <= 1 \/ index_q = cmd_q.length - 1
  IN  /\ Answered("WRITE_WAIT", IF last THEN "DONE" ELSE "READ_VALUE_REQ")
      /\ index_q' = IF last \/ vmem_resp.error THEN index_q ELSE index_q + 1
      /\ UNCHANGED <<cmd_q, acc_q, value_q, write_value_q, write_addr_q, accepted>>

Done ==
  /\ state_q = "DONE" /\ state_q' = "IDLE"
  /\ UNCHANGED <<port, unit>>

\* Cycles without a command, and ST_ERROR, which only reset leaves.
Rest == state_q \in {"IDLE", "ERROR"} /\ UNCHANGED vars

UnitStep == \/ \E c \in Cmds : Accept(c) \/ Reject(c)
            \/ ReadValueReq \/ Accumulate \/ Select \/ ReadPriorReq \/ ReadPriorWait
            \/ WriteReq \/ WriteWait \/ Done

Running == state_q \notin {"IDLE", "DONE", "ERROR"}

\* MXUs and DMA may work in the same VMEM, on words the command does not use.
OtherPort == /\ Running
             /\ OtherPortWrites(Inputs(cmd_q) \cup Outputs(cmd_q), Values)
             /\ UNCHANGED unit

InitWith(memory) ==
  /\ state_q = "IDLE" /\ PortInit /\ mem = memory /\ mem0 = memory
  /\ cmd_q = [op |-> 0, src |-> 0, dst |-> 0, length |-> 0, columns |-> 0]
  /\ index_q = 0 /\ acc_q = 0 /\ value_q = 0 /\ write_value_q = 0 /\ write_addr_q = 0
  /\ accepted = 0

Init == \E memory \in [Addr -> Word] : InitWith(memory)
Next == UnitStep \/ Rest \/ OtherPort
Spec == Init /\ [][Next]_vars

\* The clock ticks and vmem_top grants every request in the end.
FairSpec == Spec /\ WF_vars(UnitStep)

-----------------------------------------------------------------------------
(* Properties                                                              *)

States == {"IDLE", "READ_VALUE_REQ", "READ_VALUE_WAIT", "READ_PRIOR_REQ", "READ_PRIOR_WAIT",
           "WRITE_REQ", "WRITE_WAIT", "DONE", "ERROR"}

\* The type of every register.
TypeOK ==
  /\ state_q \in States /\ PortTypeOK
  /\ cmd_q \in Cmd /\ index_q \in Nat
  /\ acc_q \in Word /\ value_q \in Word /\ write_value_q \in Word /\ write_addr_q \in Nat
  /\ accepted \in 0 .. MaxCmds

\* No element is read after the destination word that covers it was written.
NoForwardOverlap(c) ==
  \A i, k \in 0 .. c.length - 1 :
    k < i => (IsAll(c.op) \/ Dst(c, OutIndex(c, k)) # Src(c, i))

\* A finished command leaves exactly the golden model's reduction of every
\* group, although the partial results live in memory between elements, may
\* overwrite the buffer, and other ports write in between.
MatchesGolden == state_q = "DONE" /\ NoForwardOverlap(cmd_q) => mem = GoldenReduce(cmd_q, mem0)

\* The check at accept covers every access of the command, the partial results
\* included, so ERROR is never entered half way through a buffer.
NeverFaults == /\ vmem_req_q.valid => Serviceable(vmem_req_q)
               /\ ~vmem_resp.error

\* Every accepted command ends.
CommandEnds == state_q = "READ_VALUE_REQ" ~> state_q = "DONE"
=============================================================================
