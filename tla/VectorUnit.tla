----------------------------- MODULE VectorUnit -----------------------------
(***************************************************************************)
(* vector_unit: elementwise operations on words of one TensorCore's VMEM,  *)
(* one element at a time, and what the golden model says they compute.     *)
(* The fp32 circuits (add, multiply, exp, reciprocal, ...) are one opaque  *)
(* operator Fp; which operands reach it is modelled, what it returns is    *)
(* not.                                                                    *)
(***************************************************************************)
EXTENDS VmemClient

CONSTANTS
  Cmds,         \* commands a TensorCore may hand to the unit
  Fp(_, _, _)   \* Fp(op, x, y): result of floating-point operation op

VARIABLES cmd_q, index_q, lhs_q, result_q,
          accepted      \* history: commands accepted so far

unit == <<cmd_q, index_q, lhs_q, result_q, accepted>>
vars == <<state_q, port, unit>>

VADD == 0
VMUL == 1
VSCALE == 2
VRELU == 3
VCLAMP == 4
VMAX == 5
FSCALE_BCAST == 14
FQUANT_BF16 == 15

Cmd == [op : 0 .. 255, src0 : Nat, src1 : Nat, dst : Nat, length : Nat, imm : Int]

ASSUME VectorAssumption ==
  /\ Cmds \subseteq Cmd
  /\ \A c \in Cmds : -c.imm \in Word /\ c.imm \in Word  \* a sign-extended 16-bit immediate

ASSUME FpAssumption == \A op \in 6 .. 15, x, y \in Word : Fp(op, x, y) \in Word

-----------------------------------------------------------------------------
(* Operations                                                              *)

NeedsRhs(op) == op \in {VADD, VMUL, VMAX, 6, 7, 8, FSCALE_BCAST, FQUANT_BF16}
IsFp(op)     == op \in 6 .. 15
ReadsSrc1(op) == NeedsRhs(op) /\ op # FQUANT_BF16

\* FQUANT packs two inputs into one output word.
OutWords(c) == IF c.op = FQUANT_BF16 THEN c.length \div 2 ELSE c.length

\* compute_result, in 32-bit arithmetic.
ComputeResult(op, lhs, rhs, imm) ==
  LET limit == IF imm < 0 THEN -imm ELSE imm
  IN  CASE op = VADD   -> Wrap(lhs + rhs)
        [] op = VMUL   -> Wrap(lhs * rhs)
        [] op = VSCALE -> Wrap(lhs * imm)
        [] op = VRELU  -> IF lhs < 0 THEN 0 ELSE lhs
        [] op = VCLAMP -> IF lhs > limit THEN limit ELSE IF lhs < -limit THEN -limit ELSE lhs
        [] op = VMAX   -> IF lhs > rhs THEN lhs ELSE rhs
        [] OTHER       -> 0

Result(c, lhs, rhs) == IF IsFp(c.op) THEN Fp(c.op, lhs, rhs)
                       ELSE ComputeResult(c.op, lhs, rhs, c.imm)

\* Byte addresses of the operands of output word i.
Lhs(c, i) == c.src0 + (IF c.op = FQUANT_BF16 THEN 8 * i ELSE 4 * i)
Rhs(c, i) == CASE c.op = FQUANT_BF16  -> c.src0 + 8 * i + 4
               [] c.op = FSCALE_BCAST -> c.src1
               [] OTHER               -> c.src1 + 4 * i
Dst(c, i) == c.dst + 4 * i

-----------------------------------------------------------------------------
(* Command check                                                           *)

RangeOK(addr, length) == addr + 4 * length <= 4 * Words

Verdict(c) ==
  CASE c.op > 15 \/ c.length = 0 \/ (c.op = FQUANT_BF16 /\ c.length % 2 # 0) -> "UNSUPPORTED"
    [] c.dst % 4 # 0 \/ c.src0 % 4 # 0 \/ (ReadsSrc1(c.op) /\ c.src1 % 4 # 0) -> "UNALIGNED"
    [] \/ ~RangeOK(c.dst, OutWords(c)) \/ ~RangeOK(c.src0, c.length)
       \/ ReadsSrc1(c.op) /\ ~RangeOK(c.src1, IF c.op = FSCALE_BCAST THEN 1 ELSE c.length)
         -> "BAD_ADDR"
    [] OTHER -> "NONE"

Legal(c) == Verdict(c) = "NONE"
-----------------------------------------------------------------------------
(* The golden model: all operands are read before any result is written.   *)

GoldenInt(op, x, y, imm) ==
  CASE op = VADD   -> Wrap(x + y)
    [] op = VMUL   -> Wrap(x * y)
    [] op = VSCALE -> Wrap(x * imm)
    [] op = VRELU  -> IF x >= 0 THEN x ELSE 0
    [] op = VCLAMP -> LET limit == IF imm >= 0 THEN imm ELSE -imm
                          above == IF x >= -limit THEN x ELSE -limit
                      IN  IF above <= limit THEN above ELSE limit
    [] op = VMAX   -> IF x >= y THEN x ELSE y

\* Output element i of command c on memory m.
GoldenElement(c, m, i) ==
  LET src0(n) == m[c.src0 \div 4 + n]
      src1(n) == m[c.src1 \div 4 + n]
  IN  CASE c.op \in {VADD, VMUL, VMAX}     -> GoldenInt(c.op, src0(i), src1(i), c.imm)
        [] c.op \in {VSCALE, VRELU, VCLAMP} -> GoldenInt(c.op, src0(i), 0, c.imm)
        [] c.op \in 6 .. 8                  -> Fp(c.op, src0(i), src1(i))
        [] c.op \in 9 .. 13                 -> Fp(c.op, src0(i), 0)
        [] c.op = FSCALE_BCAST              -> Fp(c.op, src0(i), src1(0))
        [] c.op = FQUANT_BF16               -> Fp(c.op, src0(2 * i), src0(2 * i + 1))

OutIndex(c, a) == a - c.dst \div 4

\* memory m after the first n elements of command c
GoldenPrefix(c, m, n) ==
  [a \in Addr |-> IF OutIndex(c, a) \in 0 .. n - 1 THEN GoldenElement(c, m, OutIndex(c, a))
                  ELSE m[a]]
GoldenVector(c, m) == GoldenPrefix(c, m, OutWords(c))

Inputs(c)  == {Lhs(c, i) \div 4 : i \in 0 .. OutWords(c) - 1}
                \cup {Rhs(c, i) \div 4 : i \in IF NeedsRhs(c.op) THEN 0 .. OutWords(c) - 1 ELSE {}}
Outputs(c) == {Dst(c, i) \div 4 : i \in 0 .. OutWords(c) - 1}

-----------------------------------------------------------------------------
(* The unit, one action per state                                          *)

Accept(c) ==
  /\ state_q = "IDLE" /\ accepted < MaxCmds /\ Legal(c)
  /\ cmd_q' = c /\ index_q' = 0 /\ state_q' = "READ0_REQ"
  /\ mem0' = mem /\ accepted' = accepted + 1
  /\ UNCHANGED <<lhs_q, result_q, vmem_req_q, vmem_resp, mem>>

Reject(c) ==
  /\ state_q = "IDLE" /\ accepted < MaxCmds /\ ~Legal(c)
  /\ state_q' = "ERROR" /\ accepted' = accepted + 1
  /\ UNCHANGED <<cmd_q, index_q, lhs_q, result_q, port>>

Read0Req ==
  /\ \/ Drive("READ0_REQ", ReadOf(Lhs(cmd_q, index_q)))
     \/ Grant("READ0_REQ", "READ0_WAIT")
  /\ UNCHANGED unit

\* A unary operation computes from the word on the bus, a binary one keeps it.
Read0Wait ==
  /\ Answered("READ0_WAIT", IF NeedsRhs(cmd_q.op) THEN "READ1_REQ" ELSE "WRITE_REQ")
  /\ IF vmem_resp.error THEN UNCHANGED <<lhs_q, result_q>>
     ELSE /\ lhs_q' = vmem_resp.rdata
          /\ result_q' = IF NeedsRhs(cmd_q.op) THEN result_q
                         ELSE Result(cmd_q, vmem_resp.rdata, 0)
  /\ UNCHANGED <<cmd_q, index_q, accepted>>

Read1Req ==
  /\ \/ Drive("READ1_REQ", ReadOf(Rhs(cmd_q, index_q)))
     \/ Grant("READ1_REQ", "READ1_WAIT")
  /\ UNCHANGED unit

Read1Wait ==
  /\ Answered("READ1_WAIT", "WRITE_REQ")
  /\ result_q' = IF vmem_resp.error THEN result_q
                 ELSE Result(cmd_q, lhs_q, vmem_resp.rdata)
  /\ UNCHANGED <<cmd_q, index_q, lhs_q, accepted>>

WriteReq ==
  /\ \/ Drive("WRITE_REQ", WriteOf(Dst(cmd_q, index_q), result_q))
     \/ Grant("WRITE_REQ", "WRITE_WAIT")
  /\ UNCHANGED unit

WriteWait ==
  LET last == index_q = OutWords(cmd_q) - 1
  IN  /\ Answered("WRITE_WAIT", IF last THEN "DONE" ELSE "READ0_REQ")
      /\ index_q' = IF last \/ vmem_resp.error THEN index_q ELSE index_q + 1
      /\ UNCHANGED <<cmd_q, lhs_q, result_q, accepted>>

Done ==
  /\ state_q = "DONE" /\ state_q' = "IDLE"
  /\ UNCHANGED <<port, unit>>

\* Cycles without a command, and ST_ERROR, which only reset leaves.
Rest == state_q \in {"IDLE", "ERROR"} /\ UNCHANGED vars

UnitStep == \/ \E c \in Cmds : Accept(c) \/ Reject(c)
            \/ Read0Req \/ Read0Wait \/ Read1Req \/ Read1Wait \/ WriteReq \/ WriteWait
            \/ Done

Running == state_q \notin {"IDLE", "DONE", "ERROR"}

\* MXUs and DMA may work in the same VMEM while the unit runs; a program that
\* does not fence them keeps their words apart from the command's.
OtherPort == /\ Running
             /\ OtherPortWrites(Inputs(cmd_q) \cup Outputs(cmd_q), Values)
             /\ UNCHANGED unit

InitWith(memory) ==
  /\ state_q = "IDLE" /\ PortInit /\ mem = memory /\ mem0 = memory
  /\ cmd_q = [op |-> 0, src0 |-> 0, src1 |-> 0, dst |-> 0, length |-> 0, imm |-> 0]
  /\ index_q = 0 /\ lhs_q = 0 /\ result_q = 0 /\ accepted = 0

Init == \E memory \in [Addr -> Word] : InitWith(memory)
Next == UnitStep \/ Rest \/ OtherPort
Spec == Init /\ [][Next]_vars

\* The clock ticks and vmem_top grants every request in the end (DmaServed and
\* ClearEnds of TensorCoreVmem show it for the ports of lower priority).
FairSpec == Spec /\ WF_vars(UnitStep)

-----------------------------------------------------------------------------
(* Properties                                                              *)

States == {"IDLE", "READ0_REQ", "READ0_WAIT", "READ1_REQ", "READ1_WAIT",
           "WRITE_REQ", "WRITE_WAIT", "DONE", "ERROR"}

\* The type of every register.
TypeOK ==
  /\ state_q \in States /\ PortTypeOK
  /\ cmd_q \in Cmd /\ index_q \in Nat /\ lhs_q \in Word /\ result_q \in Word
  /\ accepted \in 0 .. MaxCmds

\* No element reads a word that an earlier element has overwritten.
NoForwardOverlap(c) ==
  \A i, j \in 0 .. OutWords(c) - 1 : j < i =>
    /\ Dst(c, j) # Lhs(c, i)
    /\ NeedsRhs(c.op) => Dst(c, j) # Rhs(c, i)

\* A finished command leaves exactly what the golden model leaves: results in
\* the destination, every other word as it was, whatever the bank conflicts did
\* to the timing and although results may overwrite operands in place.
MatchesGolden == state_q = "DONE" /\ NoForwardOverlap(cmd_q) => mem = GoldenVector(cmd_q, mem0)

\* The check at accept covers every access of the command, so the sticky error
\* of a response can only come from a check that was too weak.
NeverFaults == /\ vmem_req_q.valid => Serviceable(vmem_req_q)
               /\ ~vmem_resp.error

\* Every accepted command ends.
CommandEnds == state_q = "READ0_REQ" ~> state_q = "DONE"
=============================================================================
