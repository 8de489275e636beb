---------------------------- MODULE Units_proofs ----------------------------
(***************************************************************************)
(* Proofs about Units: of the vector lane, for any memory, any width of a  *)
(* word, any commands, any circuits and any writes of the other ports, and *)
(* of the composition, from the theorems about each unit.                  *)
(***************************************************************************)
EXTENDS Units, TLAPS

ReduceProofs == INSTANCE ReduceUnit_proofs WITH Cmds <- ReduceCmds, Fp <- ReduceFp
MxuProofs    == INSTANCE MxuTop_proofs WITH Cmds <- MatmulCmds
DmaProofs    == INSTANCE DmaEngine_proofs WITH Word <- Label, Cmds <- DmaCmds

-----------------------------------------------------------------------------
(* Lemmas about words and operations                                       *)

\* Wrapping yields a word, and zero is one.
LEMMA WrapIsWord == ASSUME NEW x \in Int PROVE Wrap(x) \in Word /\ 0 \in Word
<1>1. Half \in Nat \ {0}
  BY ClientAssumption
<1>2. (x + Half) % (2 * Half) \in 0 .. 2 * Half - 1
  BY <1>1
<1> QED BY <1>1, <1>2 DEF Wrap, Word

\* The fields of a command have their types.
LEMMA CommandFields ==
  ASSUME NEW c \in Cmds
  PROVE  /\ c \in Cmd /\ c.op \in 0 .. 255 /\ c.length \in Nat
         /\ c.src0 \in Nat /\ c.src1 \in Nat /\ c.dst \in Nat
         /\ c.imm \in Int /\ c.imm \in Word /\ -c.imm \in Word
<1>1. Cmds \subseteq Cmd /\ -c.imm \in Word /\ c.imm \in Word
  BY VectorAssumption
<1> QED BY <1>1 DEF Cmd

\* What the check at accept says of a command it lets pass.
LEMMA LegalSays ==
  ASSUME NEW c \in Cmds, Legal(c)
  PROVE  /\ c.op \in 0 .. 15 /\ c.length # 0
         /\ c.op = FQUANT_BF16 => c.length % 2 = 0
         /\ c.dst % 4 = 0 /\ c.src0 % 4 = 0
         /\ RangeOK(c.dst, OutWords(c)) /\ RangeOK(c.src0, c.length)
         /\ ReadsSrc1(c.op) => /\ c.src1 % 4 = 0
                               /\ RangeOK(c.src1, IF c.op = FSCALE_BCAST THEN 1 ELSE c.length)
<1> DEFINE unsupported == c.op > 15 \/ c.length = 0 \/ (c.op = FQUANT_BF16 /\ c.length % 2 # 0)
           unaligned == c.dst % 4 # 0 \/ c.src0 % 4 # 0 \/ (ReadsSrc1(c.op) /\ c.src1 % 4 # 0)
           outside == \/ ~RangeOK(c.dst, OutWords(c)) \/ ~RangeOK(c.src0, c.length)
                      \/ ReadsSrc1(c.op) /\ ~RangeOK(c.src1, IF c.op = FSCALE_BCAST THEN 1 ELSE c.length)
<1>1. Verdict(c) = "NONE"
  BY DEF Legal
<1>2. ~unsupported
  BY <1>1 DEF Verdict
<1>3. ~unaligned
  BY <1>1, <1>2 DEF Verdict
<1>4. ~outside
  BY <1>1, <1>2, <1>3 DEF Verdict
<1> QED BY <1>2, <1>3, <1>4, CommandFields

\* Every element of a legal command has its operands and its result at aligned
\* addresses inside the memory.
LEMMA ElementInRange ==
  ASSUME NEW c \in Cmds, Legal(c), NEW i \in 0 .. OutWords(c) - 1
  PROVE  /\ OutWords(c) \in Nat \ {0}
         /\ Lhs(c, i) \in Nat /\ Lhs(c, i) % 4 = 0 /\ Lhs(c, i) \div 4 \in Addr
         /\ Dst(c, i) \in Nat /\ Dst(c, i) % 4 = 0 /\ Dst(c, i) \div 4 \in Addr
         /\ Rhs(c, i) \in Nat
         /\ NeedsRhs(c.op) => Rhs(c, i) % 4 = 0 /\ Rhs(c, i) \div 4 \in Addr
<1> USE CommandFields, LegalSays, ClientAssumption
<1>1. CASE c.op = FQUANT_BF16
  <2>1. OutWords(c) = c.length \div 2 /\ c.length = 2 * OutWords(c)
    BY <1>1 DEF OutWords
  <2>2. OutWords(c) \in Nat \ {0}
    BY <2>1
  <2>3. Lhs(c, i) = c.src0 + 8 * i /\ Rhs(c, i) = c.src0 + 8 * i + 4
    BY <1>1 DEF Lhs, Rhs, FQUANT_BF16, FSCALE_BCAST
  <2>4. c.dst + 4 * OutWords(c) <= 4 * Words /\ c.src0 + 4 * c.length <= 4 * Words
    BY DEF RangeOK
  <2>5. c.src0 + 8 * i + 8 <= 4 * Words /\ c.dst + 4 * i + 4 <= 4 * Words /\ i \in Nat
    BY <2>1, <2>2, <2>4
  <2>6. Lhs(c, i) \in Nat /\ Lhs(c, i) % 4 = 0 /\ Lhs(c, i) \div 4 \in Addr
    BY <2>3, <2>5 DEF Addr
  <2>7. Rhs(c, i) \in Nat /\ Rhs(c, i) % 4 = 0 /\ Rhs(c, i) \div 4 \in Addr
    BY <2>3, <2>5 DEF Addr
  <2>8. Dst(c, i) \in Nat /\ Dst(c, i) % 4 = 0 /\ Dst(c, i) \div 4 \in Addr
    BY <2>5 DEF Addr, Dst
  <2> QED BY <2>2, <2>6, <2>7, <2>8
<1>2. CASE c.op # FQUANT_BF16
  <2>1. OutWords(c) = c.length
    BY <1>2 DEF OutWords
  <2>2. c.dst + 4 * c.length <= 4 * Words /\ c.src0 + 4 * c.length <= 4 * Words
    BY <2>1 DEF RangeOK
  <2>3. Lhs(c, i) = c.src0 + 4 * i /\ Dst(c, i) = c.dst + 4 * i
    BY <1>2 DEF Lhs, Dst
  <2>4. /\ Lhs(c, i) \in Nat /\ Lhs(c, i) % 4 = 0 /\ Lhs(c, i) \div 4 \in Addr
        /\ Dst(c, i) \in Nat /\ Dst(c, i) % 4 = 0 /\ Dst(c, i) \div 4 \in Addr
    BY <2>1, <2>2, <2>3 DEF Addr
  <2>5. CASE c.op = FSCALE_BCAST
    <3>1. Rhs(c, i) = c.src1
      BY <2>5 DEF Rhs, FSCALE_BCAST, FQUANT_BF16
    <3>2. c.src1 % 4 = 0 /\ c.src1 + 4 <= 4 * Words
      BY <2>5, <1>2 DEF RangeOK, ReadsSrc1, NeedsRhs
    <3> QED BY <2>1, <2>4, <3>1, <3>2 DEF Addr
  <2>6. CASE c.op # FSCALE_BCAST
    <3>1. Rhs(c, i) = c.src1 + 4 * i
      BY <2>6, <1>2 DEF Rhs
    <3>2. NeedsRhs(c.op) => c.src1 % 4 = 0 /\ c.src1 + 4 * c.length <= 4 * Words
      BY <2>6, <1>2 DEF RangeOK, ReadsSrc1
    <3> QED BY <2>1, <2>4, <3>1, <3>2 DEF Addr
  <2> QED BY <2>5, <2>6
<1> QED BY <1>1, <1>2

\* A circuit or an integer operation yields a word.
LEMMA ResultIsWord ==
  ASSUME NEW c \in Cmds, Legal(c), NEW x \in Word, NEW y \in Word
  PROVE  Result(c, x, y) \in Word
<1>1. c.op \in 0 .. 15 /\ c.imm \in Word /\ -c.imm \in Word /\ c.imm \in Int
  BY CommandFields, LegalSays
<1>2. x \in Int /\ y \in Int
  BY ClientAssumption DEF Word
<1>3. CASE IsFp(c.op)
  BY <1>1, <1>3, FpAssumption DEF Result, IsFp
<1>4. CASE ~IsFp(c.op)
  <2>1. 0 \in Word
    BY WrapIsWord, <1>2
  <2>2. Wrap(x + y) \in Word
    BY WrapIsWord, <1>2
  <2>3. Wrap(x * y) \in Word
    <3>1. x * y \in Int
      BY <1>2
    <3> QED BY <3>1, WrapIsWord
  <2>4. Wrap(x * c.imm) \in Word
    <3>1. x * c.imm \in Int
      BY <1>1, <1>2
    <3> QED BY <3>1, WrapIsWord
  <2>5. c.op \in 0 .. 5
    BY <1>1, <1>4 DEF IsFp
  <2>6. ComputeResult(c.op, x, y, c.imm) \in Word
    BY <1>1, <2>1, <2>2, <2>3, <2>4, <2>5
    DEF ComputeResult, VADD, VMUL, VSCALE, VRELU, VCLAMP, VMAX
  <2> QED BY <1>4, <2>6 DEF Result
<1> QED BY <1>3, <1>4

-----------------------------------------------------------------------------
(* Lemmas about the golden model                                           *)

\* Element i of the golden model is the unit's result on the two words the
\* unit reads for it.
LEMMA ElementIsResult ==
  ASSUME NEW c \in Cmds, Legal(c), NEW m \in [Addr -> Word], NEW i \in 0 .. OutWords(c) - 1
  PROVE  GoldenElement(c, m, i) =
           Result(c, m[Lhs(c, i) \div 4], IF NeedsRhs(c.op) THEN m[Rhs(c, i) \div 4] ELSE 0)
<1> DEFINE x == m[Lhs(c, i) \div 4]
           y == m[Rhs(c, i) \div 4]
<1>1. /\ c.op \in 0 .. 15 /\ c.src0 \in Nat /\ c.src1 \in Nat /\ c.imm \in Int
      /\ c.src0 % 4 = 0 /\ (ReadsSrc1(c.op) => c.src1 % 4 = 0) /\ i \in Nat
  BY CommandFields, LegalSays, ElementInRange
<1>2. x \in Int /\ (NeedsRhs(c.op) => y \in Int)
  BY ElementInRange, ClientAssumption DEF Word
<1>3. c.op # FQUANT_BF16 => Lhs(c, i) \div 4 = c.src0 \div 4 + i
  BY <1>1 DEF Lhs
<1>4. c.op \in {VADD, VMUL, VMAX, 6, 7, 8} => Rhs(c, i) \div 4 = c.src1 \div 4 + i
  <2>1. SUFFICES ASSUME c.op \in {VADD, VMUL, VMAX, 6, 7, 8}
                 PROVE  Rhs(c, i) \div 4 = c.src1 \div 4 + i
    OBVIOUS
  <2>2. c.src1 % 4 = 0
    BY <1>1, <2>1 DEF ReadsSrc1, NeedsRhs, FQUANT_BF16, VADD, VMUL, VMAX
  <2>3. Rhs(c, i) = c.src1 + 4 * i
    BY <2>1 DEF Rhs, FQUANT_BF16, FSCALE_BCAST, VADD, VMUL, VMAX
  <2> QED BY <1>1, <2>2, <2>3
<1>5. CASE c.op \in {VADD, VMUL, VMAX}
  BY <1>2, <1>3, <1>4, <1>5
  DEF GoldenElement, GoldenInt, Result, IsFp, ComputeResult, NeedsRhs,
      VADD, VMUL, VMAX, VSCALE, VRELU, VCLAMP, FQUANT_BF16, FSCALE_BCAST
<1>6. CASE c.op \in {VSCALE, VRELU, VCLAMP}
  BY <1>1, <1>2, <1>3, <1>6
  DEF GoldenElement, GoldenInt, Result, IsFp, ComputeResult, NeedsRhs,
      VADD, VMUL, VMAX, VSCALE, VRELU, VCLAMP, FQUANT_BF16, FSCALE_BCAST
<1>7. CASE c.op \in 6 .. 8
  BY <1>3, <1>4, <1>7
  DEF GoldenElement, Result, IsFp, NeedsRhs,
      VADD, VMUL, VMAX, VSCALE, VRELU, VCLAMP, FQUANT_BF16, FSCALE_BCAST
<1>8. CASE c.op \in 9 .. 13
  BY <1>3, <1>8
  DEF GoldenElement, Result, IsFp, NeedsRhs,
      VADD, VMUL, VMAX, VSCALE, VRELU, VCLAMP, FQUANT_BF16, FSCALE_BCAST
<1>9. CASE c.op = FSCALE_BCAST
  <2>1. Rhs(c, i) \div 4 = c.src1 \div 4 + 0
    BY <1>1, <1>9 DEF Rhs, FQUANT_BF16, FSCALE_BCAST
  <2> QED
    BY <1>3, <1>9, <2>1
    DEF GoldenElement, Result, IsFp, NeedsRhs,
        VADD, VMUL, VMAX, VSCALE, VRELU, VCLAMP, FQUANT_BF16, FSCALE_BCAST
<1>10. CASE c.op = FQUANT_BF16
  <2>1. /\ Lhs(c, i) \div 4 = c.src0 \div 4 + 2 * i
        /\ Rhs(c, i) \div 4 = c.src0 \div 4 + (2 * i + 1)
    BY <1>1, <1>10 DEF Lhs, Rhs, FQUANT_BF16, FSCALE_BCAST
  <2> QED
    BY <1>10, <2>1
    DEF GoldenElement, Result, IsFp, NeedsRhs,
        VADD, VMUL, VMAX, VSCALE, VRELU, VCLAMP, FQUANT_BF16, FSCALE_BCAST
<1> QED
  BY <1>1, <1>5, <1>6, <1>7, <1>8, <1>9, <1>10
  DEF VADD, VMUL, VMAX, VSCALE, VRELU, VCLAMP, FQUANT_BF16, FSCALE_BCAST

\* An element of the golden model is a word.
LEMMA ElementIsWord ==
  ASSUME NEW c \in Cmds, Legal(c), NEW m \in [Addr -> Word], NEW i \in 0 .. OutWords(c) - 1
  PROVE  GoldenElement(c, m, i) \in Word
<1>1. 0 \in Word
  BY WrapIsWord
<1>2. /\ m[Lhs(c, i) \div 4] \in Word
      /\ (IF NeedsRhs(c.op) THEN m[Rhs(c, i) \div 4] ELSE 0) \in Word
  BY ElementInRange, <1>1
<1> QED BY <1>2, ElementIsResult, ResultIsWord

\* The elements written before element i leave its operands alone.
LEMMA PrefixKeepsOperands ==
  ASSUME NEW c \in Cmds, Legal(c), NoForwardOverlap(c),
         NEW m \in [Addr -> Word], NEW i \in 0 .. OutWords(c) - 1
  PROVE  /\ GoldenPrefix(c, m, i)[Lhs(c, i) \div 4] = m[Lhs(c, i) \div 4]
         /\ NeedsRhs(c.op) => GoldenPrefix(c, m, i)[Rhs(c, i) \div 4] = m[Rhs(c, i) \div 4]
<1>1. OutWords(c) \in Nat /\ i \in Nat /\ c.dst \in Nat /\ c.dst % 4 = 0
  BY ElementInRange, CommandFields, LegalSays
<1>2. ASSUME NEW addr \in Nat, addr % 4 = 0, addr \div 4 \in Addr,
             \A j \in 0 .. OutWords(c) - 1 : j < i => Dst(c, j) # addr
      PROVE  GoldenPrefix(c, m, i)[addr \div 4] = m[addr \div 4]
  <2>1. OutIndex(c, addr \div 4) \notin 0 .. i - 1
    <3>1. SUFFICES ASSUME NEW j \in 0 .. i - 1, OutIndex(c, addr \div 4) = j PROVE FALSE
      OBVIOUS
    <3>2. addr = c.dst + 4 * j
      BY <1>1, <1>2, <3>1 DEF OutIndex
    <3>3. j \in 0 .. OutWords(c) - 1 /\ j < i
      BY <1>1
    <3> QED BY <1>2, <3>2, <3>3 DEF Dst
  <2> QED BY <1>2, <2>1 DEF GoldenPrefix
<1>3. \A j \in 0 .. OutWords(c) - 1 : j < i =>
        Dst(c, j) # Lhs(c, i) /\ (NeedsRhs(c.op) => Dst(c, j) # Rhs(c, i))
  BY DEF NoForwardOverlap
<1>4. GoldenPrefix(c, m, i)[Lhs(c, i) \div 4] = m[Lhs(c, i) \div 4]
  BY <1>2, <1>3, ElementInRange
<1>5. NeedsRhs(c.op) => GoldenPrefix(c, m, i)[Rhs(c, i) \div 4] = m[Rhs(c, i) \div 4]
  BY <1>2, <1>3, ElementInRange
<1> QED BY <1>4, <1>5

\* Writing element i behind the first i elements gives the first i + 1.
LEMMA PrefixGrows ==
  ASSUME NEW c \in Cmds, Legal(c), NEW m \in [Addr -> Word], NEW i \in 0 .. OutWords(c) - 1
  PROVE  [GoldenPrefix(c, m, i) EXCEPT ![Dst(c, i) \div 4] = GoldenElement(c, m, i)]
           = GoldenPrefix(c, m, i + 1)
<1>1. i \in Nat /\ c.dst \in Nat /\ c.dst % 4 = 0
  BY ElementInRange, CommandFields, LegalSays
<1>2. Dst(c, i) \div 4 = c.dst \div 4 + i
  BY <1>1 DEF Dst
<1>3. ASSUME NEW a \in Addr
      PROVE  [GoldenPrefix(c, m, i) EXCEPT ![Dst(c, i) \div 4] = GoldenElement(c, m, i)][a]
               = GoldenPrefix(c, m, i + 1)[a]
  <2>1. a \in Int /\ c.dst \div 4 \in Int
    BY <1>1, ClientAssumption DEF Addr
  <2>2. CASE a = Dst(c, i) \div 4
    <3>1. OutIndex(c, a) = i /\ i \in 0 .. (i + 1) - 1
      BY <1>1, <1>2, <2>1, <2>2 DEF OutIndex
    <3> QED BY <2>2, <3>1 DEF GoldenPrefix
  <2>3. CASE a # Dst(c, i) \div 4
    <3>1. OutIndex(c, a) \in 0 .. i - 1 <=> OutIndex(c, a) \in 0 .. (i + 1) - 1
      BY <1>1, <1>2, <2>1, <2>3 DEF OutIndex
    <3> QED BY <2>3, <3>1 DEF GoldenPrefix
  <2> QED BY <2>2, <2>3
<1> QED BY <1>3 DEF GoldenPrefix

\* The golden model looks at the words the unit reads and at no other.
LEMMA ElementLooksAtOperands ==
  ASSUME NEW c \in Cmds, Legal(c), NEW i \in 0 .. OutWords(c) - 1,
         NEW m \in [Addr -> Word], NEW w \in [Addr -> Word],
         w[Lhs(c, i) \div 4] = m[Lhs(c, i) \div 4],
         NeedsRhs(c.op) => w[Rhs(c, i) \div 4] = m[Rhs(c, i) \div 4]
  PROVE  GoldenElement(c, w, i) = GoldenElement(c, m, i)
<1>1. GoldenElement(c, w, i) =
        Result(c, w[Lhs(c, i) \div 4], IF NeedsRhs(c.op) THEN w[Rhs(c, i) \div 4] ELSE 0)
  BY ElementIsResult
<1>2. GoldenElement(c, m, i) =
        Result(c, m[Lhs(c, i) \div 4], IF NeedsRhs(c.op) THEN m[Rhs(c, i) \div 4] ELSE 0)
  BY ElementIsResult
<1> QED BY <1>1, <1>2

\* A write outside the footprint (it turns m into w) commutes with the prefix.
LEMMA PrefixCommutes ==
  ASSUME NEW c \in Cmds, Legal(c), NEW n \in 0 .. OutWords(c),
         NEW m \in [Addr -> Word], NEW w \in [Addr -> Word],
         NEW a \in Addr, a \notin Inputs(c), a \notin Outputs(c),
         \A b \in Addr : b # a => w[b] = m[b]
  PROVE  /\ \A b \in Addr : GoldenPrefix(c, w, n)[b] =
                             IF b = a THEN w[a] ELSE GoldenPrefix(c, m, n)[b]
         /\ \A i \in 0 .. OutWords(c) - 1 :
              /\ w[Lhs(c, i) \div 4] = m[Lhs(c, i) \div 4]
              /\ NeedsRhs(c.op) => w[Rhs(c, i) \div 4] = m[Rhs(c, i) \div 4]
              /\ GoldenElement(c, w, i) = GoldenElement(c, m, i)
<1>1. OutWords(c) \in Nat
  BY CommandFields DEF OutWords
<1>2. ASSUME NEW i \in 0 .. OutWords(c) - 1
      PROVE  /\ w[Lhs(c, i) \div 4] = m[Lhs(c, i) \div 4]
             /\ NeedsRhs(c.op) => w[Rhs(c, i) \div 4] = m[Rhs(c, i) \div 4]
             /\ GoldenElement(c, w, i) = GoldenElement(c, m, i)
  <2>1. Lhs(c, i) \div 4 # a /\ (NeedsRhs(c.op) => Rhs(c, i) \div 4 # a)
    BY DEF Inputs
  <2>2. w[Lhs(c, i) \div 4] = m[Lhs(c, i) \div 4]
    BY <2>1, ElementInRange
  <2>3. NeedsRhs(c.op) => w[Rhs(c, i) \div 4] = m[Rhs(c, i) \div 4]
    BY <2>1, ElementInRange
  <2> QED BY <2>2, <2>3, ElementLooksAtOperands
<1>3. ASSUME NEW b \in Addr
      PROVE  GoldenPrefix(c, w, n)[b] = IF b = a THEN w[a] ELSE GoldenPrefix(c, m, n)[b]
  <2>1. /\ GoldenPrefix(c, w, n)[b] = IF OutIndex(c, b) \in 0 .. n - 1
                                      THEN GoldenElement(c, w, OutIndex(c, b)) ELSE w[b]
        /\ GoldenPrefix(c, m, n)[b] = IF OutIndex(c, b) \in 0 .. n - 1
                                      THEN GoldenElement(c, m, OutIndex(c, b)) ELSE m[b]
    BY DEF GoldenPrefix
  <2>2. b = a => OutIndex(c, b) \notin 0 .. n - 1
    <3>1. SUFFICES ASSUME NEW j \in 0 .. n - 1, OutIndex(c, a) = j PROVE FALSE
      OBVIOUS
    <3>2. c.dst \in Nat /\ c.dst % 4 = 0 /\ a \in Nat
      BY CommandFields, LegalSays, ClientAssumption DEF Addr
    <3>3. Dst(c, j) \div 4 = a /\ j \in 0 .. OutWords(c) - 1
      BY <1>1, <3>1, <3>2 DEF Dst, OutIndex
    <3> QED BY <3>3 DEF Outputs
  <2>3. OutIndex(c, b) \in 0 .. n - 1 => OutIndex(c, b) \in 0 .. OutWords(c) - 1
    BY <1>1
  <2> QED BY <1>2, <2>1, <2>2, <2>3
<1> QED BY <1>2, <1>3

-----------------------------------------------------------------------------
(* The inductive invariant                                                 *)

Active == state_q \in {"READ0_REQ", "READ0_WAIT", "READ1_REQ", "READ1_WAIT",
                       "WRITE_REQ", "WRITE_WAIT", "DONE"}

\* An active command passed the check, its element exists, and only binary
\* operations read a second operand.
CommandOK ==
  Active =>
    /\ cmd_q \in Cmds /\ Legal(cmd_q) /\ index_q \in 0 .. OutWords(cmd_q) - 1
    /\ state_q = "DONE" => index_q = OutWords(cmd_q) - 1
    /\ state_q \in {"READ1_REQ", "READ1_WAIT"} => NeedsRhs(cmd_q.op)

\* The request register holds the access of the state it waits in.
PortOK ==
  /\ vmem_req_q.valid =>
       \/ state_q = "READ0_REQ" /\ vmem_req_q = ReadOf(Lhs(cmd_q, index_q))
       \/ state_q = "READ1_REQ" /\ vmem_req_q = ReadOf(Rhs(cmd_q, index_q))
       \/ state_q = "WRITE_REQ" /\ vmem_req_q = WriteOf(Dst(cmd_q, index_q), result_q)
  /\ ~vmem_resp.error

\* Elements whose write has taken effect.
Written == IF state_q \in {"WRITE_WAIT", "DONE"} THEN index_q + 1 ELSE index_q

Lhs0 == mem0[Lhs(cmd_q, index_q) \div 4]
Rhs0 == mem0[Rhs(cmd_q, index_q) \div 4]

\* The memory is the golden model's after the elements written so far, and the
\* registers hold its operands and result for the current one.
DataOK ==
  Active /\ NoForwardOverlap(cmd_q) =>
    /\ mem = GoldenPrefix(cmd_q, mem0, Written)
    /\ state_q = "READ0_WAIT" => vmem_resp.rdata = Lhs0
    /\ state_q \in {"READ1_REQ", "READ1_WAIT"} => lhs_q = Lhs0
    /\ state_q = "READ1_WAIT" => vmem_resp.rdata = Rhs0
    /\ state_q = "WRITE_REQ" => result_q = GoldenElement(cmd_q, mem0, index_q)

IInv == TypeOK /\ CommandOK /\ PortOK /\ DataOK

-----------------------------------------------------------------------------
(* The invariant holds initially and is preserved                          *)

LEMMA InitIInv == Init => IInv
<1> SUFFICES ASSUME NEW memory \in [Addr -> Word], InitWith(memory) PROVE IInv
  BY DEF Init
<1>1. 0 \in Word
  BY WrapIsWord
<1>2. TypeOK
  BY <1>1, ClientAssumption
  DEF InitWith, PortInit, NoReq, NoResp, TypeOK, States, PortTypeOK, Cmd
<1>3. ~Active
  BY DEF InitWith, Active
<1>4. PortOK
  BY DEF InitWith, PortInit, NoReq, NoResp, PortOK
<1> QED BY <1>2, <1>3, <1>4 DEF IInv, CommandOK, DataOK

\* The requests an active command drives have an access's type.
LEMMA RequestTypes ==
  ASSUME TypeOK, CommandOK, Active
  PROVE  /\ Lhs(cmd_q, index_q) \in Nat /\ Rhs(cmd_q, index_q) \in Nat
         /\ Dst(cmd_q, index_q) \in Nat
         /\ ReadOf(Lhs(cmd_q, index_q)) \in [valid : BOOLEAN, write : BOOLEAN, addr : Nat, wdata : Word]
         /\ ReadOf(Rhs(cmd_q, index_q)) \in [valid : BOOLEAN, write : BOOLEAN, addr : Nat, wdata : Word]
         /\ WriteOf(Dst(cmd_q, index_q), result_q)
               \in [valid : BOOLEAN, write : BOOLEAN, addr : Nat, wdata : Word]
<1>1. /\ Lhs(cmd_q, index_q) \in Nat /\ Rhs(cmd_q, index_q) \in Nat
      /\ Dst(cmd_q, index_q) \in Nat
  BY ElementInRange DEF CommandOK
<1>2. 0 \in Word /\ result_q \in Word
  BY WrapIsWord DEF TypeOK
<1> QED BY <1>1, <1>2 DEF ReadOf, WriteOf

\* A request in the register is one the memory can serve.
LEMMA RequestServiceable ==
  ASSUME CommandOK, PortOK, vmem_req_q.valid
  PROVE  Serviceable(vmem_req_q)
<1>1. Active
  BY DEF PortOK, Active
<1>2. /\ cmd_q \in Cmds /\ Legal(cmd_q) /\ index_q \in 0 .. OutWords(cmd_q) - 1
      /\ state_q = "READ1_REQ" => NeedsRhs(cmd_q.op)
  BY <1>1 DEF CommandOK
<1>3. CASE state_q = "READ0_REQ" /\ vmem_req_q = ReadOf(Lhs(cmd_q, index_q))
  BY <1>2, <1>3, ElementInRange DEF Serviceable, ReadOf
<1>4. CASE state_q = "READ1_REQ" /\ vmem_req_q = ReadOf(Rhs(cmd_q, index_q))
  BY <1>2, <1>4, ElementInRange DEF Serviceable, ReadOf
<1>5. CASE state_q = "WRITE_REQ" /\ vmem_req_q = WriteOf(Dst(cmd_q, index_q), result_q)
  BY <1>2, <1>5, ElementInRange DEF Serviceable, WriteOf
<1> QED BY <1>3, <1>4, <1>5 DEF PortOK

\* What a granted request leaves.
LEMMA GrantLeaves ==
  ASSUME IInv, NEW state, NEW waiting, Grant(state, waiting)
  PROVE  /\ vmem_req_q' = NoReq /\ vmem_resp'.valid /\ ~vmem_resp'.error
         /\ vmem_resp' \in [valid : BOOLEAN, error : BOOLEAN, rdata : Word]
         /\ ~vmem_req_q.write => /\ vmem_resp'.rdata = mem[vmem_req_q.addr \div 4]
                                 /\ mem' = mem
         /\ vmem_req_q.write => mem' = [mem EXCEPT ![vmem_req_q.addr \div 4] = vmem_req_q.wdata]
         /\ mem' \in [Addr -> Word] /\ mem0' = mem0
<1>1. Serviceable(vmem_req_q)
  BY RequestServiceable DEF IInv, Grant
<1>2. vmem_req_q.addr \div 4 \in Addr /\ mem \in [Addr -> Word] /\ vmem_req_q.wdata \in Word
  BY <1>1 DEF Serviceable, IInv, TypeOK, PortTypeOK
<1>3. 0 \in Word
  BY WrapIsWord
<1> QED BY <1>1, <1>2, <1>3 DEF Grant

LEMMA AcceptKeeps ==
  ASSUME IInv, NEW c \in Cmds, Accept(c)
  PROVE  IInv'
<1> USE DEF IInv
<1>1. state_q = "IDLE" /\ state_q' = "READ0_REQ" /\ cmd_q' = c /\ index_q' = 0 /\ Legal(c)
  BY DEF Accept
<1>2. ~vmem_req_q.valid
  BY <1>1 DEF PortOK
<1>3. OutWords(c) \in Nat \ {0}
  <2>1. c.length \in Nat \ {0} /\ (c.op = FQUANT_BF16 => c.length % 2 = 0)
    BY <1>1, CommandFields, LegalSays
  <2> QED BY <2>1 DEF OutWords
<1>4. c \in Cmd
  BY CommandFields
<1>5. TypeOK'
  BY <1>1, <1>4, ClientAssumption DEF Accept, TypeOK, States, PortTypeOK
<1>6. CommandOK'
  BY <1>1, <1>3 DEF CommandOK
<1>7. PortOK'
  BY <1>2 DEF Accept, PortOK
<1>8. GoldenPrefix(c, mem, 0) = mem
  BY DEF GoldenPrefix, TypeOK, PortTypeOK
<1>9. DataOK'
  BY <1>1, <1>8 DEF Accept, DataOK, Written
<1> QED BY <1>5, <1>6, <1>7, <1>9

LEMMA RejectKeeps ==
  ASSUME IInv, NEW c \in Cmds, Reject(c)
  PROVE  IInv'
<1> USE DEF IInv
<1>1. state_q = "IDLE" /\ state_q' = "ERROR" /\ UNCHANGED <<cmd_q, index_q, lhs_q, result_q, port>>
  BY DEF Reject
<1>2. ~vmem_req_q.valid
  BY <1>1 DEF PortOK
<1>3. TypeOK'
  BY <1>1, ClientAssumption DEF Reject, TypeOK, States, PortTypeOK, port
<1>4. ~Active'
  BY <1>1 DEF Active
<1>5. PortOK'
  BY <1>1, <1>2 DEF PortOK, port
<1> QED BY <1>3, <1>4, <1>5 DEF CommandOK, DataOK

\* A request of the current state goes into the register.
LEMMA DriveKeeps ==
  ASSUME IInv, UNCHANGED unit, NEW request,
         \/ Drive("READ0_REQ", request) /\ request = ReadOf(Lhs(cmd_q, index_q))
         \/ Drive("READ1_REQ", request) /\ request = ReadOf(Rhs(cmd_q, index_q))
         \/ Drive("WRITE_REQ", request) /\ request = WriteOf(Dst(cmd_q, index_q), result_q)
  PROVE  IInv'
<1> USE DEF IInv
<1>1. /\ state_q \in {"READ0_REQ", "READ1_REQ", "WRITE_REQ"} /\ vmem_req_q' = request
      /\ UNCHANGED <<state_q, vmem_resp, mem, mem0, unit>>
  BY DEF Drive
<1>2. Active
  BY <1>1 DEF Active
<1>3. vmem_req_q' \in [valid : BOOLEAN, write : BOOLEAN, addr : Nat, wdata : Word]
  BY <1>1, <1>2, RequestTypes
<1>4. TypeOK'
  BY <1>1, <1>3 DEF TypeOK, PortTypeOK, unit
<1>5. CommandOK'
  BY <1>1 DEF CommandOK, Active, unit
<1>6. PortOK'
  BY <1>1 DEF PortOK, Drive, unit
<1>7. DataOK'
  BY <1>1 DEF DataOK, Active, Written, Lhs0, Rhs0, unit
<1> QED BY <1>4, <1>5, <1>6, <1>7

LEMMA Read0ReqKeeps ==
  ASSUME IInv, Read0Req
  PROVE  IInv'
<1> USE DEF IInv
<1>1. CASE Drive("READ0_REQ", ReadOf(Lhs(cmd_q, index_q)))
  BY <1>1, DriveKeeps DEF Read0Req
<1>2. CASE Grant("READ0_REQ", "READ0_WAIT")
  <2>1. /\ state_q = "READ0_REQ" /\ state_q' = "READ0_WAIT" /\ vmem_req_q.valid
        /\ UNCHANGED <<cmd_q, index_q, lhs_q, result_q, accepted>>
    BY <1>2 DEF Grant, Read0Req, unit
  <2>2. vmem_req_q = ReadOf(Lhs(cmd_q, index_q))
    BY <2>1 DEF PortOK
  <2>3. /\ vmem_req_q' = NoReq /\ ~vmem_resp'.error /\ mem' = mem /\ mem0' = mem0
        /\ vmem_resp' \in [valid : BOOLEAN, error : BOOLEAN, rdata : Word]
        /\ vmem_resp'.rdata = mem[Lhs(cmd_q, index_q) \div 4]
    BY <1>2, <2>2, GrantLeaves DEF ReadOf
  <2>4. TypeOK'
    BY <2>1, <2>3, WrapIsWord DEF TypeOK, PortTypeOK, States, NoReq
  <2>5. CommandOK'
    BY <2>1 DEF CommandOK, Active
  <2>6. PortOK'
    BY <2>3 DEF PortOK, NoReq
  <2>7. DataOK'
    <3>1. SUFFICES ASSUME NoForwardOverlap(cmd_q) PROVE DataOK'
      BY <2>1 DEF DataOK
    <3>2. mem = GoldenPrefix(cmd_q, mem0, index_q)
      BY <2>1, <3>1 DEF DataOK, Active, Written
    <3>3. cmd_q \in Cmds /\ Legal(cmd_q) /\ index_q \in 0 .. OutWords(cmd_q) - 1
      BY <2>1 DEF CommandOK, Active
    <3>4. vmem_resp'.rdata = mem0[Lhs(cmd_q, index_q) \div 4]
      BY <2>3, <3>1, <3>2, <3>3, PrefixKeepsOperands DEF TypeOK, PortTypeOK
    <3> QED BY <2>1, <2>3, <3>2, <3>4 DEF DataOK, Written, Lhs0
  <2> QED BY <2>4, <2>5, <2>6, <2>7
<1> QED BY <1>1, <1>2 DEF Read0Req

LEMMA Read1ReqKeeps ==
  ASSUME IInv, Read1Req
  PROVE  IInv'
<1> USE DEF IInv
<1>1. CASE Drive("READ1_REQ", ReadOf(Rhs(cmd_q, index_q)))
  BY <1>1, DriveKeeps DEF Read1Req
<1>2. CASE Grant("READ1_REQ", "READ1_WAIT")
  <2>1. /\ state_q = "READ1_REQ" /\ state_q' = "READ1_WAIT" /\ vmem_req_q.valid
        /\ UNCHANGED <<cmd_q, index_q, lhs_q, result_q, accepted>>
    BY <1>2 DEF Grant, Read1Req, unit
  <2>2. vmem_req_q = ReadOf(Rhs(cmd_q, index_q))
    BY <2>1 DEF PortOK
  <2>3. /\ vmem_req_q' = NoReq /\ ~vmem_resp'.error /\ mem' = mem /\ mem0' = mem0
        /\ vmem_resp' \in [valid : BOOLEAN, error : BOOLEAN, rdata : Word]
        /\ vmem_resp'.rdata = mem[Rhs(cmd_q, index_q) \div 4]
    BY <1>2, <2>2, GrantLeaves DEF ReadOf
  <2>4. TypeOK'
    BY <2>1, <2>3, WrapIsWord DEF TypeOK, PortTypeOK, States, NoReq
  <2>5. CommandOK'
    BY <2>1 DEF CommandOK, Active
  <2>6. PortOK'
    BY <2>3 DEF PortOK, NoReq
  <2>7. DataOK'
    <3>1. SUFFICES ASSUME NoForwardOverlap(cmd_q) PROVE DataOK'
      BY <2>1 DEF DataOK
    <3>2. mem = GoldenPrefix(cmd_q, mem0, index_q) /\ lhs_q = Lhs0
      BY <2>1, <3>1 DEF DataOK, Active, Written
    <3>3. /\ cmd_q \in Cmds /\ Legal(cmd_q) /\ index_q \in 0 .. OutWords(cmd_q) - 1
          /\ NeedsRhs(cmd_q.op)
      BY <2>1 DEF CommandOK, Active
    <3>4. vmem_resp'.rdata = mem0[Rhs(cmd_q, index_q) \div 4]
      BY <2>3, <3>1, <3>2, <3>3, PrefixKeepsOperands DEF TypeOK, PortTypeOK
    <3> QED BY <2>1, <2>3, <3>2, <3>4 DEF DataOK, Written, Lhs0, Rhs0
  <2> QED BY <2>4, <2>5, <2>6, <2>7
<1> QED BY <1>1, <1>2 DEF Read1Req

LEMMA WriteReqKeeps ==
  ASSUME IInv, WriteReq
  PROVE  IInv'
<1> USE DEF IInv
<1>1. CASE Drive("WRITE_REQ", WriteOf(Dst(cmd_q, index_q), result_q))
  BY <1>1, DriveKeeps DEF WriteReq
<1>2. CASE Grant("WRITE_REQ", "WRITE_WAIT")
  <2>1. /\ state_q = "WRITE_REQ" /\ state_q' = "WRITE_WAIT" /\ vmem_req_q.valid
        /\ UNCHANGED <<cmd_q, index_q, lhs_q, result_q, accepted>>
    BY <1>2 DEF Grant, WriteReq, unit
  <2>2. vmem_req_q = WriteOf(Dst(cmd_q, index_q), result_q)
    BY <2>1 DEF PortOK
  <2>3. /\ vmem_req_q' = NoReq /\ ~vmem_resp'.error /\ mem0' = mem0
        /\ vmem_resp' \in [valid : BOOLEAN, error : BOOLEAN, rdata : Word]
        /\ mem' = [mem EXCEPT ![Dst(cmd_q, index_q) \div 4] = result_q]
        /\ mem' \in [Addr -> Word]
    BY <1>2, <2>2, GrantLeaves DEF WriteOf
  <2>4. TypeOK'
    BY <2>1, <2>3, WrapIsWord DEF TypeOK, PortTypeOK, States, NoReq
  <2>5. CommandOK'
    BY <2>1 DEF CommandOK, Active
  <2>6. PortOK'
    BY <2>3 DEF PortOK, NoReq
  <2>7. DataOK'
    <3>1. SUFFICES ASSUME NoForwardOverlap(cmd_q) PROVE DataOK'
      BY <2>1 DEF DataOK
    <3>2. mem = GoldenPrefix(cmd_q, mem0, index_q) /\ result_q = GoldenElement(cmd_q, mem0, index_q)
      BY <2>1, <3>1 DEF DataOK, Active, Written
    <3>3. cmd_q \in Cmds /\ Legal(cmd_q) /\ index_q \in 0 .. OutWords(cmd_q) - 1
      BY <2>1 DEF CommandOK, Active
    <3>4. mem' = GoldenPrefix(cmd_q, mem0, index_q + 1)
      BY <2>3, <3>2, <3>3, PrefixGrows DEF TypeOK, PortTypeOK
    <3> QED BY <2>1, <2>3, <3>4 DEF DataOK, Written
  <2> QED BY <2>4, <2>5, <2>6, <2>7
<1> QED BY <1>1, <1>2 DEF WriteReq

LEMMA Read0WaitKeeps ==
  ASSUME IInv, Read0Wait
  PROVE  IInv'
<1> USE DEF IInv
<1> DEFINE binary == NeedsRhs(cmd_q.op)
<1>1. /\ state_q = "READ0_WAIT" /\ state_q' = (IF binary THEN "READ1_REQ" ELSE "WRITE_REQ")
      /\ lhs_q' = vmem_resp.rdata /\ vmem_resp' = NoResp
      /\ result_q' = IF binary THEN result_q ELSE Result(cmd_q, vmem_resp.rdata, 0)
      /\ UNCHANGED <<cmd_q, index_q, accepted, vmem_req_q, mem, mem0>>
  BY DEF Read0Wait, Answered, PortOK
<1>2. cmd_q \in Cmds /\ Legal(cmd_q) /\ index_q \in 0 .. OutWords(cmd_q) - 1
  BY <1>1 DEF CommandOK, Active
<1>3. ~vmem_req_q.valid
  BY <1>1 DEF PortOK
<1>4. vmem_resp.rdata \in Word /\ 0 \in Word
  BY WrapIsWord DEF TypeOK, PortTypeOK
<1>5. Result(cmd_q, vmem_resp.rdata, 0) \in Word
  BY <1>2, <1>4, ResultIsWord
<1>6. TypeOK'
  BY <1>1, <1>4, <1>5 DEF TypeOK, PortTypeOK, States, NoResp
<1>7. CommandOK'
  BY <1>1, <1>2 DEF CommandOK, Active
<1>8. PortOK'
  BY <1>1, <1>3 DEF PortOK, NoResp
<1>9. DataOK'
  <2>1. SUFFICES ASSUME NoForwardOverlap(cmd_q) PROVE DataOK'
    BY <1>1 DEF DataOK
  <2>2. mem = GoldenPrefix(cmd_q, mem0, index_q) /\ vmem_resp.rdata = Lhs0
    BY <1>1, <2>1 DEF DataOK, Active, Written
  <2>3. CASE binary
    BY <1>1, <2>2, <2>3 DEF DataOK, Written, Lhs0
  <2>4. CASE ~binary
    <3>1. GoldenElement(cmd_q, mem0, index_q) = Result(cmd_q, Lhs0, 0)
      BY <1>2, <2>4, ElementIsResult DEF TypeOK, PortTypeOK, Lhs0
    <3> QED BY <1>1, <2>2, <2>4, <3>1 DEF DataOK, Written
  <2> QED BY <2>3, <2>4
<1> QED BY <1>6, <1>7, <1>8, <1>9

LEMMA Read1WaitKeeps ==
  ASSUME IInv, Read1Wait
  PROVE  IInv'
<1> USE DEF IInv
<1>1. /\ state_q = "READ1_WAIT" /\ state_q' = "WRITE_REQ" /\ vmem_resp' = NoResp
      /\ result_q' = Result(cmd_q, lhs_q, vmem_resp.rdata)
      /\ UNCHANGED <<cmd_q, index_q, lhs_q, accepted, vmem_req_q, mem, mem0>>
  BY DEF Read1Wait, Answered, PortOK
<1>2. /\ cmd_q \in Cmds /\ Legal(cmd_q) /\ index_q \in 0 .. OutWords(cmd_q) - 1
      /\ NeedsRhs(cmd_q.op)
  BY <1>1 DEF CommandOK, Active
<1>3. ~vmem_req_q.valid
  BY <1>1 DEF PortOK
<1>4. vmem_resp.rdata \in Word /\ lhs_q \in Word /\ 0 \in Word
  BY WrapIsWord DEF TypeOK, PortTypeOK
<1>5. Result(cmd_q, lhs_q, vmem_resp.rdata) \in Word
  BY <1>2, <1>4, ResultIsWord
<1>6. TypeOK'
  BY <1>1, <1>4, <1>5 DEF TypeOK, PortTypeOK, States, NoResp
<1>7. CommandOK'
  BY <1>1, <1>2 DEF CommandOK, Active
<1>8. PortOK'
  BY <1>1, <1>3 DEF PortOK, NoResp
<1>9. DataOK'
  <2>1. SUFFICES ASSUME NoForwardOverlap(cmd_q) PROVE DataOK'
    BY <1>1 DEF DataOK
  <2>2. mem = GoldenPrefix(cmd_q, mem0, index_q) /\ lhs_q = Lhs0 /\ vmem_resp.rdata = Rhs0
    BY <1>1, <2>1 DEF DataOK, Active, Written
  <2>3. GoldenElement(cmd_q, mem0, index_q) = Result(cmd_q, Lhs0, Rhs0)
    BY <1>2, ElementIsResult DEF TypeOK, PortTypeOK, Lhs0, Rhs0
  <2> QED BY <1>1, <2>2, <2>3 DEF DataOK, Written
<1> QED BY <1>6, <1>7, <1>8, <1>9

LEMMA WriteWaitKeeps ==
  ASSUME IInv, WriteWait
  PROVE  IInv'
<1> USE DEF IInv
<1> DEFINE last == index_q = OutWords(cmd_q) - 1
<1>1. /\ state_q = "WRITE_WAIT" /\ state_q' = (IF last THEN "DONE" ELSE "READ0_REQ")
      /\ vmem_resp' = NoResp /\ index_q' = IF last THEN index_q ELSE index_q + 1
      /\ UNCHANGED <<cmd_q, lhs_q, result_q, accepted, vmem_req_q, mem, mem0>>
  BY DEF WriteWait, Answered, PortOK
<1>2. /\ cmd_q \in Cmds /\ Legal(cmd_q) /\ index_q \in 0 .. OutWords(cmd_q) - 1
  BY <1>1 DEF CommandOK, Active
<1>3. OutWords(cmd_q) \in Nat \ {0}
  BY <1>2, ElementInRange
<1>4. ~vmem_req_q.valid
  BY <1>1 DEF PortOK
<1>5. TypeOK'
  BY <1>1, WrapIsWord DEF TypeOK, PortTypeOK, States, NoResp
<1>6. CommandOK'
  BY <1>1, <1>2, <1>3 DEF CommandOK, Active
<1>7. PortOK'
  BY <1>1, <1>4 DEF PortOK, NoResp
<1>8. DataOK'
  <2>1. SUFFICES ASSUME NoForwardOverlap(cmd_q) PROVE DataOK'
    BY <1>1 DEF DataOK
  <2>2. mem = GoldenPrefix(cmd_q, mem0, index_q + 1)
    BY <1>1, <2>1 DEF DataOK, Active, Written
  <2> QED BY <1>1, <2>2 DEF DataOK, Written
<1> QED BY <1>5, <1>6, <1>7, <1>8

LEMMA DoneKeeps ==
  ASSUME IInv, Done
  PROVE  IInv'
<1> USE DEF IInv
<1>1. state_q = "DONE" /\ state_q' = "IDLE" /\ UNCHANGED <<port, unit>>
  BY DEF Done
<1>2. TypeOK'
  BY <1>1 DEF TypeOK, PortTypeOK, States, port, unit
<1>3. ~Active'
  BY <1>1 DEF Active
<1>4. PortOK'
  BY <1>1 DEF PortOK, port
<1> QED BY <1>2, <1>3, <1>4 DEF CommandOK, DataOK

LEMMA OtherPortKeeps ==
  ASSUME IInv, OtherPort
  PROVE  IInv'
<1> USE DEF IInv
<1>1. PICK a \in Addr \ (Inputs(cmd_q) \cup Outputs(cmd_q)), v \in Values :
        /\ mem' = [mem EXCEPT ![a] = v] /\ mem0' = [mem0 EXCEPT ![a] = v]
        /\ UNCHANGED <<state_q, vmem_req_q, vmem_resp>>
  BY DEF OtherPort, OtherPortWrites
<1>2. UNCHANGED <<cmd_q, index_q, lhs_q, result_q, accepted>> /\ v \in Word
  BY ClientAssumption DEF OtherPort, unit
<1>3. TypeOK'
  BY <1>1, <1>2 DEF TypeOK, PortTypeOK
<1>4. CommandOK'
  BY <1>1, <1>2 DEF CommandOK, Active
<1>5. PortOK'
  BY <1>1, <1>2 DEF PortOK
<1>6. DataOK'
  <2>1. SUFFICES ASSUME Active, NoForwardOverlap(cmd_q) PROVE DataOK'
    BY <1>1, <1>2 DEF DataOK, Active
  <2>2. /\ cmd_q \in Cmds /\ Legal(cmd_q) /\ index_q \in 0 .. OutWords(cmd_q) - 1
        /\ state_q = "READ1_WAIT" => NeedsRhs(cmd_q.op)
    BY <2>1 DEF CommandOK
  <2>3. Written \in 0 .. OutWords(cmd_q) /\ Written' = Written
    BY <1>1, <1>2, <2>2, ElementInRange DEF Written
  <2>4. mem0 \in [Addr -> Word]
    BY DEF TypeOK, PortTypeOK
  <2>5. /\ \A b \in Addr : GoldenPrefix(cmd_q, mem0', Written)[b] =
                            IF b = a THEN mem0'[a] ELSE GoldenPrefix(cmd_q, mem0, Written)[b]
        /\ mem0'[Lhs(cmd_q, index_q) \div 4] = mem0[Lhs(cmd_q, index_q) \div 4]
        /\ NeedsRhs(cmd_q.op) =>
             mem0'[Rhs(cmd_q, index_q) \div 4] = mem0[Rhs(cmd_q, index_q) \div 4]
        /\ GoldenElement(cmd_q, mem0', index_q) = GoldenElement(cmd_q, mem0, index_q)
    <3>1. /\ mem0' \in [Addr -> Word] /\ a \in Addr
          /\ a \notin Inputs(cmd_q) /\ a \notin Outputs(cmd_q)
          /\ \A b \in Addr : b # a => mem0'[b] = mem0[b]
      BY <1>1, <1>2, <2>4
    <3> QED BY <2>2, <2>3, <2>4, <3>1, PrefixCommutes
  <2>6. /\ mem0'[Lhs(cmd_q, index_q) \div 4] = Lhs0
        /\ NeedsRhs(cmd_q.op) => mem0'[Rhs(cmd_q, index_q) \div 4] = Rhs0
    BY <2>5 DEF Lhs0, Rhs0
  <2>7. Lhs0' = Lhs0 /\ (state_q = "READ1_WAIT" => Rhs0' = Rhs0)
    BY <1>2, <2>2, <2>6 DEF Lhs0, Rhs0
  <2>8. mem' = GoldenPrefix(cmd_q, mem0', Written)
    <3>1. mem = GoldenPrefix(cmd_q, mem0, Written)
      BY <2>1 DEF DataOK
    <3>2. /\ mem \in [Addr -> Word] /\ mem' \in [Addr -> Word]
          /\ mem'[a] = mem0'[a] /\ \A b \in Addr : b # a => mem'[b] = mem[b]
      BY <1>1, <1>2, <2>4 DEF TypeOK, PortTypeOK
    <3>3. \A b \in Addr : mem'[b] = GoldenPrefix(cmd_q, mem0', Written)[b]
      BY <2>5, <3>1, <3>2
    <3> QED BY <3>2, <3>3 DEF GoldenPrefix
  <2> QED BY <1>1, <1>2, <2>1, <2>3, <2>5, <2>7, <2>8 DEF DataOK, Active
<1> QED BY <1>3, <1>4, <1>5, <1>6

LEMMA NextIInv == IInv /\ [Next]_vars => IInv'
<1> SUFFICES ASSUME IInv, [Next]_vars PROVE IInv'
  OBVIOUS
<1>1. CASE \E c \in Cmds : Accept(c) \/ Reject(c)
  BY <1>1, AcceptKeeps, RejectKeeps
<1>2. CASE Read0Req
  BY <1>2, Read0ReqKeeps
<1>3. CASE Read0Wait
  BY <1>3, Read0WaitKeeps
<1>4. CASE Read1Req
  BY <1>4, Read1ReqKeeps
<1>5. CASE Read1Wait
  BY <1>5, Read1WaitKeeps
<1>6. CASE WriteReq
  BY <1>6, WriteReqKeeps
<1>7. CASE WriteWait
  BY <1>7, WriteWaitKeeps
<1>8. CASE Done
  BY <1>8, DoneKeeps
<1>9. CASE OtherPort
  BY <1>9, OtherPortKeeps
<1>10. CASE UNCHANGED vars
  BY <1>10
  DEF vars, port, unit, IInv, TypeOK, PortTypeOK, CommandOK, PortOK, DataOK, Active, Written, Lhs0, Rhs0
<1> QED
  BY <1>1, <1>2, <1>3, <1>4, <1>5, <1>6, <1>7, <1>8, <1>9, <1>10 DEF Next, UnitStep, Rest

-----------------------------------------------------------------------------
(* Theorems about the vector lane                                          *)

\* IInv is an invariant: registers, request and memory agree in every state.
THEOREM Invariant == Spec => []IInv
<1>1. Init => IInv
  BY InitIInv
<1>2. IInv /\ [Next]_vars => IInv'
  BY NextIInv
<1> QED BY <1>1, <1>2, PTL DEF Spec

\* Every register of vector_unit keeps its type: results stay words.
THEOREM TypeCorrect == Spec => []TypeOK
<1>1. IInv => TypeOK
  BY DEF IInv
<1> QED BY <1>1, Invariant, PTL

\* A finished vector operation leaves exactly what the golden model leaves, for
\* any operands, lengths and widths, unless the destination runs ahead of a source.
THEOREM GoldenResult == Spec => []MatchesGolden
<1>1. IInv => MatchesGolden
  <2>1. SUFFICES ASSUME IInv, state_q = "DONE", NoForwardOverlap(cmd_q)
                 PROVE  mem = GoldenVector(cmd_q, mem0)
    BY DEF MatchesGolden
  <2>2. /\ mem = GoldenPrefix(cmd_q, mem0, index_q + 1) /\ index_q = OutWords(cmd_q) - 1
        /\ cmd_q \in Cmds /\ Legal(cmd_q) /\ index_q \in 0 .. OutWords(cmd_q) - 1
    BY <2>1 DEF IInv, DataOK, CommandOK, Active, Written
  <2>3. index_q + 1 = OutWords(cmd_q)
    BY <2>2, ElementInRange
  <2> QED BY <2>2, <2>3 DEF GoldenVector
<1> QED BY <1>1, Invariant, PTL

\* The check at accept covers every access: no response of the VMEM to an
\* accepted command carries an error.
THEOREM NoFaults == Spec => []NeverFaults
<1>1. IInv => NeverFaults
  BY RequestServiceable DEF IInv, PortOK, NeverFaults
<1> QED BY <1>1, Invariant, PTL

-----------------------------------------------------------------------------
(* The units as their own proofs know them                                 *)

\* The instances the proofs are about are those of Units.
LEMMA SameReduce ==
  /\ ReduceProofs!ConstantsOK <=> Reduce!ConstantsOK
  /\ ReduceProofs!Init <=> Reduce!Init
  /\ ReduceProofs!Next <=> Reduce!Next
  /\ ReduceProofs!vars = Reduce!vars
  /\ ReduceProofs!TypeOK <=> Reduce!TypeOK
  /\ ReduceProofs!MatchesGolden <=> Reduce!MatchesGolden
  /\ ReduceProofs!NeverFaults <=> Reduce!NeverFaults
BY DEF
  ReduceProofs!port, ReduceProofs!Word, ReduceProofs!Addr, ReduceProofs!Wrap,
  ReduceProofs!NoReq, ReduceProofs!NoResp, ReduceProofs!ReadOf, ReduceProofs!WriteOf,
  ReduceProofs!Serviceable, ReduceProofs!Drive, ReduceProofs!Grant, ReduceProofs!Answered,
  ReduceProofs!OtherPortWrites, ReduceProofs!PortInit, ReduceProofs!PortTypeOK,
  ReduceProofs!unit, ReduceProofs!vars, ReduceProofs!Cmd, ReduceProofs!ConstantsOK,
  ReduceProofs!IsFp, ReduceProofs!IsAll, ReduceProofs!IsRow, ReduceProofs!IsMax,
  ReduceProofs!FSUMSQ_ALL, ReduceProofs!Addend, ReduceProofs!Combine, ReduceProofs!Rows,
  ReduceProofs!OutWords, ReduceProofs!OutIndex, ReduceProofs!FirstInGroup, ReduceProofs!Src,
  ReduceProofs!Dst, ReduceProofs!RangeOK, ReduceProofs!ShapeOK, ReduceProofs!Verdict,
  ReduceProofs!Legal, ReduceProofs!Member, ReduceProofs!GroupSize,
  ReduceProofs!GoldenReduction, ReduceProofs!GoldenReduce, ReduceProofs!Inputs,
  ReduceProofs!Outputs, ReduceProofs!Accept, ReduceProofs!Reject, ReduceProofs!ReadValueReq,
  ReduceProofs!Accumulate, ReduceProofs!Select, ReduceProofs!ReadPriorReq,
  ReduceProofs!ReadPriorWait, ReduceProofs!WriteReq, ReduceProofs!WriteWait,
  ReduceProofs!Done, ReduceProofs!Rest, ReduceProofs!UnitStep, ReduceProofs!Running,
  ReduceProofs!OtherPort, ReduceProofs!InitWith, ReduceProofs!Init, ReduceProofs!Next,
  ReduceProofs!States, ReduceProofs!TypeOK, ReduceProofs!NoForwardOverlap,
  ReduceProofs!MatchesGolden, ReduceProofs!NeverFaults, Reduce!port, Reduce!Word,
  Reduce!Addr, Reduce!Wrap, Reduce!NoReq, Reduce!NoResp, Reduce!ReadOf, Reduce!WriteOf,
  Reduce!Serviceable, Reduce!Drive, Reduce!Grant, Reduce!Answered, Reduce!OtherPortWrites,
  Reduce!PortInit, Reduce!PortTypeOK, Reduce!unit, Reduce!vars, Reduce!Cmd,
  Reduce!ConstantsOK, Reduce!IsFp, Reduce!IsAll, Reduce!IsRow, Reduce!IsMax,
  Reduce!FSUMSQ_ALL, Reduce!Addend, Reduce!Combine, Reduce!Rows, Reduce!OutWords,
  Reduce!OutIndex, Reduce!FirstInGroup, Reduce!Src, Reduce!Dst, Reduce!RangeOK,
  Reduce!ShapeOK, Reduce!Verdict, Reduce!Legal, Reduce!Member, Reduce!GroupSize,
  Reduce!GoldenReduction, Reduce!GoldenReduce, Reduce!Inputs, Reduce!Outputs, Reduce!Accept,
  Reduce!Reject, Reduce!ReadValueReq, Reduce!Accumulate, Reduce!Select, Reduce!ReadPriorReq,
  Reduce!ReadPriorWait, Reduce!WriteReq, Reduce!WriteWait, Reduce!Done, Reduce!Rest,
  Reduce!UnitStep, Reduce!Running, Reduce!OtherPort, Reduce!InitWith, Reduce!Init,
  Reduce!Next, Reduce!States, Reduce!TypeOK, Reduce!NoForwardOverlap, Reduce!MatchesGolden,
  Reduce!NeverFaults

LEMMA SameMxu ==
  /\ MxuProofs!ConstantsOK <=> Mxu!ConstantsOK
  /\ MxuProofs!Init <=> Mxu!Init
  /\ MxuProofs!Next <=> Mxu!Next
  /\ MxuProofs!vars = Mxu!vars
  /\ MxuProofs!TypeOK <=> Mxu!TypeOK
  /\ MxuProofs!MatchesGolden <=> Mxu!MatchesGolden
  /\ MxuProofs!NeverFaults <=> Mxu!NeverFaults
  /\ MxuProofs!ArrayUndisturbedStep <=> Mxu!ArrayUndisturbedStep
BY DEF
  MxuProofs!port, MxuProofs!Word, MxuProofs!Addr, MxuProofs!Wrap, MxuProofs!NoReq,
  MxuProofs!NoResp, MxuProofs!ReadOf, MxuProofs!WriteOf, MxuProofs!Serviceable,
  MxuProofs!Drive, MxuProofs!Grant, MxuProofs!Answered, MxuProofs!OtherPortWrites,
  MxuProofs!PortInit, MxuProofs!PortTypeOK, MxuProofs!counters, MxuProofs!tiles,
  MxuProofs!array, MxuProofs!vars, MxuProofs!Cmd, MxuProofs!ConstantsOK, MxuProofs!Unsigned,
  MxuProofs!SignedIn, MxuProofs!Lane, MxuProofs!SelectI8, MxuProofs!HalfWord,
  MxuProofs!SelectBf16, MxuProofs!Select, MxuProofs!Size, MxuProofs!AAddr, MxuProofs!BAddr,
  MxuProofs!CAddr, MxuProofs!AlignWord, MxuProofs!DimensionsOK, MxuProofs!RangesOK,
  MxuProofs!Legal, MxuProofs!AIdx, MxuProofs!BnIdx, MxuProofs!ATile, MxuProofs!BTile,
  MxuProofs!CTile, MxuProofs!Element, MxuProofs!GoldenElement, MxuProofs!GoldenMatmul,
  MxuProofs!Inputs, MxuProofs!Outputs, MxuProofs!Product, MxuProofs!ArrayIdle,
  MxuProofs!ArrayStart, MxuProofs!ArrayFeed, MxuProofs!ArrayCapture, MxuProofs!ArrayDone,
  MxuProofs!ArrayStep, MxuProofs!Accept, MxuProofs!Reject, MxuProofs!Fetch, MxuProofs!LastOf,
  MxuProofs!Advance, MxuProofs!LoadAReq, MxuProofs!LoadAWait, MxuProofs!LoadBReq,
  MxuProofs!AfterLoadB, MxuProofs!LoadBWait, MxuProofs!LoadCReq, MxuProofs!LoadCWait,
  MxuProofs!RunStart, MxuProofs!RunWait, MxuProofs!StoreReq, MxuProofs!StoreWait,
  MxuProofs!Done, MxuProofs!MxuStep, MxuProofs!Rest, MxuProofs!Running, MxuProofs!OtherPort,
  MxuProofs!InitWith, MxuProofs!Init, MxuProofs!Next, MxuProofs!States, MxuProofs!TypeOK,
  MxuProofs!MatchesGolden, MxuProofs!NeverFaults, MxuProofs!ArrayUndisturbedStep, Mxu!port,
  Mxu!Word, Mxu!Addr, Mxu!Wrap, Mxu!NoReq, Mxu!NoResp, Mxu!ReadOf, Mxu!WriteOf,
  Mxu!Serviceable, Mxu!Drive, Mxu!Grant, Mxu!Answered, Mxu!OtherPortWrites, Mxu!PortInit,
  Mxu!PortTypeOK, Mxu!counters, Mxu!tiles, Mxu!array, Mxu!vars, Mxu!Cmd, Mxu!ConstantsOK,
  Mxu!Unsigned, Mxu!SignedIn, Mxu!Lane, Mxu!SelectI8, Mxu!HalfWord, Mxu!SelectBf16,
  Mxu!Select, Mxu!Size, Mxu!AAddr, Mxu!BAddr, Mxu!CAddr, Mxu!AlignWord, Mxu!DimensionsOK,
  Mxu!RangesOK, Mxu!Legal, Mxu!AIdx, Mxu!BnIdx, Mxu!ATile, Mxu!BTile, Mxu!CTile, Mxu!Element,
  Mxu!GoldenElement, Mxu!GoldenMatmul, Mxu!Inputs, Mxu!Outputs, Mxu!Product, Mxu!ArrayIdle,
  Mxu!ArrayStart, Mxu!ArrayFeed, Mxu!ArrayCapture, Mxu!ArrayDone, Mxu!ArrayStep, Mxu!Accept,
  Mxu!Reject, Mxu!Fetch, Mxu!LastOf, Mxu!Advance, Mxu!LoadAReq, Mxu!LoadAWait, Mxu!LoadBReq,
  Mxu!AfterLoadB, Mxu!LoadBWait, Mxu!LoadCReq, Mxu!LoadCWait, Mxu!RunStart, Mxu!RunWait,
  Mxu!StoreReq, Mxu!StoreWait, Mxu!Done, Mxu!MxuStep, Mxu!Rest, Mxu!Running, Mxu!OtherPort,
  Mxu!InitWith, Mxu!Init, Mxu!Next, Mxu!States, Mxu!TypeOK, Mxu!MatchesGolden,
  Mxu!NeverFaults, Mxu!ArrayUndisturbedStep

LEMMA SameDma ==
  /\ DmaProofs!ConstantsOK <=> Dma!ConstantsOK
  /\ DmaProofs!Init <=> Dma!Init
  /\ DmaProofs!Next <=> Dma!Next
  /\ DmaProofs!vars = Dma!vars
  /\ DmaProofs!TypeOK <=> Dma!TypeOK
  /\ DmaProofs!MatchesGolden <=> Dma!MatchesGolden
  /\ DmaProofs!AccessInRange <=> Dma!AccessInRange
  /\ DmaProofs!Copy!CopyNext(DmaCmds) <=> Dma!Copy!CopyNext(DmaCmds)
  /\ DmaProofs!Copy!copyVars = Dma!Copy!copyVars
BY DEF
  DmaProofs!vars, DmaProofs!Phase, DmaProofs!Copied, DmaProofs!ConstantsOK, DmaProofs!NoReq,
  DmaProofs!Read, DmaProofs!Write, DmaProofs!NoReqs, DmaProofs!NoResp, DmaProofs!Ready,
  DmaProofs!Effect, DmaProofs!HbmStep, DmaProofs!MemoryStep, DmaProofs!GoldenInRange,
  DmaProofs!GoldenWrite, DmaProofs!Accept, DmaProofs!Reject, DmaProofs!NoCommand,
  DmaProofs!ReadReq, DmaProofs!ReadWait, DmaProofs!WriteReq, DmaProofs!WriteWait,
  DmaProofs!Done, DmaProofs!EngineStep, DmaProofs!Init, DmaProofs!Edge, DmaProofs!Next,
  DmaProofs!TypeOK, DmaProofs!ForwardOverlap, DmaProofs!MatchesGolden,
  DmaProofs!AccessInRange, DmaProofs!Copy!WordAddr, DmaProofs!Copy!IsMemory,
  DmaProofs!Copy!IsCmd, DmaProofs!Copy!SizesOK, DmaProofs!Copy!ValidSpaces,
  DmaProofs!Copy!Aligned, DmaProofs!Copy!RangeOK, DmaProofs!Copy!Verdict,
  DmaProofs!Copy!WordCount, DmaProofs!Copy!Source, DmaProofs!Copy!Target,
  DmaProofs!Copy!Moved, DmaProofs!Copy!copyVars, DmaProofs!Copy!Accept,
  DmaProofs!Copy!Reject, DmaProofs!Copy!CopyWord, DmaProofs!Copy!Finish,
  DmaProofs!Copy!Rearm, DmaProofs!Copy!CopyNext, Dma!vars, Dma!Phase, Dma!Copied,
  Dma!ConstantsOK, Dma!NoReq, Dma!Read, Dma!Write, Dma!NoReqs, Dma!NoResp, Dma!Ready,
  Dma!Effect, Dma!HbmStep, Dma!MemoryStep, Dma!GoldenInRange, Dma!GoldenWrite, Dma!Accept,
  Dma!Reject, Dma!NoCommand, Dma!ReadReq, Dma!ReadWait, Dma!WriteReq, Dma!WriteWait,
  Dma!Done, Dma!EngineStep, Dma!Init, Dma!Edge, Dma!Next, Dma!TypeOK, Dma!ForwardOverlap,
  Dma!MatchesGolden, Dma!AccessInRange, Dma!Copy!WordAddr, Dma!Copy!IsMemory, Dma!Copy!IsCmd,
  Dma!Copy!SizesOK, Dma!Copy!ValidSpaces, Dma!Copy!Aligned, Dma!Copy!RangeOK,
  Dma!Copy!Verdict, Dma!Copy!WordCount, Dma!Copy!Source, Dma!Copy!Target, Dma!Copy!Moved,
  Dma!Copy!copyVars, Dma!Copy!Accept, Dma!Copy!Reject, Dma!Copy!CopyWord, Dma!Copy!Finish,
  Dma!Copy!Rearm, Dma!Copy!CopyNext

\* What the proofs of the reduce lane and of the MXU assume of a memory.
LEMMA SameClient == ReduceProofs!ClientAssumption /\ MxuProofs!ClientAssumption
BY ClientAssumption DEF ReduceProofs!ClientAssumption, MxuProofs!ClientAssumption,
   ReduceProofs!Word, MxuProofs!Word, Word

-----------------------------------------------------------------------------
(* A behaviour of Units is a behaviour of the unit at work                 *)

LEMMA VectorBehaves == UnitsSpec /\ lane = "vector" => Spec /\ [](lane = "vector")
<1>1. UnitsInit /\ lane = "vector" => Init
  BY UnitsAssumption DEF UnitsInit, Init
<1>2. lane = "vector" /\ [UnitsNext]_unitsVars => (lane = "vector")' /\ [Next]_vars
  BY DEF UnitsNext, unitsVars, Vectors, Reduces, Matmuls, Copying
<1> QED BY <1>1, <1>2, PTL DEF UnitsSpec, Spec

LEMMA ReduceBehaves ==
  UnitsSpec /\ lane = "reduce" => ReduceProofs!Spec /\ [](lane = "reduce")
<1>1. UnitsInit /\ lane = "reduce" => ReduceProofs!Init
  BY UnitsAssumption, SameReduce DEF UnitsInit, Reduce!Init, Addr, Word, Reduce!Addr, Reduce!Word
<1>2. lane = "reduce" /\ [UnitsNext]_unitsVars => (lane = "reduce")' /\ [ReduceProofs!Next]_(ReduceProofs!vars)
  BY SameReduce DEF UnitsNext, unitsVars, Vectors, Reduces, Matmuls, Copying,
     ReduceProofs!vars, ReduceProofs!unit, ReduceProofs!port, port, unit, vars, lhsRegs,
     reduceRegs
<1> QED BY <1>1, <1>2, PTL DEF UnitsSpec, ReduceProofs!Spec

LEMMA MxuBehaves ==
  UnitsSpec /\ lane = "mxu" => MxuProofs!Spec /\ [](lane = "mxu")
<1>1. UnitsInit /\ lane = "mxu" => MxuProofs!Init
  BY UnitsAssumption, SameMxu DEF UnitsInit, Mxu!Init, Addr, Word, Mxu!Addr, Mxu!Word
<1>2. lane = "mxu" /\ [UnitsNext]_unitsVars => (lane = "mxu")' /\ [MxuProofs!Next]_(MxuProofs!vars)
  BY SameMxu DEF UnitsNext, unitsVars, Vectors, Reduces, Matmuls, Copying,
     MxuProofs!vars, MxuProofs!port, MxuProofs!counters, MxuProofs!tiles, MxuProofs!array, port,
     unit, vars, mxuRegs
<1> QED BY <1>1, <1>2, PTL DEF UnitsSpec, MxuProofs!Spec

LEMMA DmaBehaves ==
  UnitsSpec /\ lane = "dma" => DmaProofs!Spec /\ [](lane = "dma")
<1>1. UnitsInit /\ lane = "dma" => DmaProofs!Init
  BY SameDma DEF UnitsInit
<1>2. lane = "dma" /\ [UnitsNext]_unitsVars => (lane = "dma")' /\ [DmaProofs!Next]_(DmaProofs!vars)
  BY SameDma DEF UnitsNext, unitsVars, Vectors, Reduces, Matmuls, Copying,
     DmaProofs!vars, vars, unit, port, dmaRegs
<1> QED BY <1>1, <1>2, PTL DEF UnitsSpec, DmaProofs!Spec

\* A behaviour starts with one of the four units at work.
LEMMA LaneKnown ==
  UnitsSpec => lane = "vector" \/ lane = "reduce" \/ lane = "mxu" \/ lane = "dma"
BY DEF UnitsSpec, UnitsInit

-----------------------------------------------------------------------------
(* Theorems about the composition                                          *)

\* Every register of the unit at work keeps its type.
THEOREM UnitsTypeCorrect == UnitsSpec => []UnitTypeOK
<1>1. UnitsSpec /\ lane = "vector" => [](TypeOK /\ lane = "vector")
  BY VectorBehaves, TypeCorrect, PTL
<1>2. UnitsSpec /\ lane = "reduce" => [](ReduceProofs!TypeOK /\ lane = "reduce")
  <2>1. ReduceProofs!ConstantsOK
    BY UnitsAssumption, SameReduce
  <2>2. ReduceProofs!Spec => []ReduceProofs!TypeOK
    BY <2>1, SameClient, ReduceProofs!TypeCorrect
  <2> QED BY <2>2, ReduceBehaves, PTL
<1>3. UnitsSpec /\ lane = "mxu" => [](MxuProofs!TypeOK /\ lane = "mxu")
  <2>1. MxuProofs!ConstantsOK
    BY UnitsAssumption, SameMxu
  <2>2. MxuProofs!Spec => []MxuProofs!TypeOK
    BY <2>1, SameClient, MxuProofs!TypeCorrect
  <2> QED BY <2>2, MxuBehaves, PTL
<1>4. UnitsSpec /\ lane = "dma" => [](DmaProofs!TypeOK /\ lane = "dma")
  <2>1. DmaProofs!ConstantsOK
    BY UnitsAssumption, SameDma
  <2>2. DmaProofs!Spec => []DmaProofs!TypeOK
    BY <2>1, DmaProofs!TypeCorrect
  <2> QED BY <2>2, DmaBehaves, PTL
<1>5. /\ TypeOK /\ lane = "vector" => UnitTypeOK
      /\ ReduceProofs!TypeOK /\ lane = "reduce" => UnitTypeOK
      /\ MxuProofs!TypeOK /\ lane = "mxu" => UnitTypeOK
      /\ DmaProofs!TypeOK /\ lane = "dma" => UnitTypeOK
  BY SameReduce, SameMxu, SameDma DEF UnitTypeOK
<1> QED BY <1>1, <1>2, <1>3, <1>4, <1>5, LaneKnown, PTL

\* Whichever unit is at work, a finished command leaves in memory what
\* GoldenExecutor leaves.
THEOREM UnitsGoldenResult == UnitsSpec => []UnitMatchesGolden
<1>1. UnitsSpec /\ lane = "vector" => [](MatchesGolden /\ lane = "vector")
  BY VectorBehaves, GoldenResult, PTL
<1>2. UnitsSpec /\ lane = "reduce" => [](ReduceProofs!MatchesGolden /\ lane = "reduce")
  <2>1. ReduceProofs!ConstantsOK
    BY UnitsAssumption, SameReduce
  <2>2. ReduceProofs!Spec => []ReduceProofs!MatchesGolden
    BY <2>1, SameClient, ReduceProofs!GoldenResult
  <2> QED BY <2>2, ReduceBehaves, PTL
<1>3. UnitsSpec /\ lane = "mxu" => [](MxuProofs!MatchesGolden /\ lane = "mxu")
  <2>1. MxuProofs!ConstantsOK
    BY UnitsAssumption, SameMxu
  <2>2. MxuProofs!Spec => []MxuProofs!MatchesGolden
    BY <2>1, SameClient, MxuProofs!GoldenProduct
  <2> QED BY <2>2, MxuBehaves, PTL
<1>4. UnitsSpec /\ lane = "dma" => [](DmaProofs!MatchesGolden /\ lane = "dma")
  <2>1. DmaProofs!ConstantsOK
    BY UnitsAssumption, SameDma
  <2>2. DmaProofs!Spec => []DmaProofs!MatchesGolden
    BY <2>1, DmaProofs!GoldenResult
  <2> QED BY <2>2, DmaBehaves, PTL
<1>5. /\ MatchesGolden /\ lane = "vector" => UnitMatchesGolden
      /\ ReduceProofs!MatchesGolden /\ lane = "reduce" => UnitMatchesGolden
      /\ MxuProofs!MatchesGolden /\ lane = "mxu" => UnitMatchesGolden
      /\ DmaProofs!MatchesGolden /\ lane = "dma" => UnitMatchesGolden
  BY SameReduce, SameMxu, SameDma DEF UnitMatchesGolden
<1> QED BY <1>1, <1>2, <1>3, <1>4, <1>5, LaneKnown, PTL

\* Whichever unit is at work, its check at accept covers every access of the
\* command.
THEOREM UnitsNoFaults == UnitsSpec => []UnitNeverFaults
<1>1. UnitsSpec /\ lane = "vector" => [](NeverFaults /\ lane = "vector")
  BY VectorBehaves, NoFaults, PTL
<1>2. UnitsSpec /\ lane = "reduce" => [](ReduceProofs!NeverFaults /\ lane = "reduce")
  <2>1. ReduceProofs!ConstantsOK
    BY UnitsAssumption, SameReduce
  <2>2. ReduceProofs!Spec => []ReduceProofs!NeverFaults
    BY <2>1, SameClient, ReduceProofs!NoFaults
  <2> QED BY <2>2, ReduceBehaves, PTL
<1>3. UnitsSpec /\ lane = "mxu" => [](MxuProofs!NeverFaults /\ lane = "mxu")
  <2>1. MxuProofs!ConstantsOK
    BY UnitsAssumption, SameMxu
  <2>2. MxuProofs!Spec => []MxuProofs!NeverFaults
    BY <2>1, SameClient, MxuProofs!NoFaults
  <2> QED BY <2>2, MxuBehaves, PTL
<1>4. UnitsSpec /\ lane = "dma" => [](DmaProofs!AccessInRange /\ lane = "dma")
  <2>1. DmaProofs!ConstantsOK
    BY UnitsAssumption, SameDma
  <2>2. DmaProofs!Spec => []DmaProofs!AccessInRange
    BY <2>1, DmaProofs!AccessesInRange
  <2> QED BY <2>2, DmaBehaves, PTL
<1>5. /\ NeverFaults /\ lane = "vector" => UnitNeverFaults
      /\ ReduceProofs!NeverFaults /\ lane = "reduce" => UnitNeverFaults
      /\ MxuProofs!NeverFaults /\ lane = "mxu" => UnitNeverFaults
      /\ DmaProofs!AccessInRange /\ lane = "dma" => UnitNeverFaults
  BY SameReduce, SameMxu, SameDma DEF UnitNeverFaults
<1> QED BY <1>1, <1>2, <1>3, <1>4, <1>5, LaneKnown, PTL

\* In a composition with the other units too, mxu_top changes neither its tiles while
\* the array computes nor its sums while they are stored.
THEOREM MxuStandsStill == UnitsSpec => MxuUndisturbed
<1>1. UnitsSpec /\ lane = "mxu" => [][MxuProofs!ArrayUndisturbedStep]_(MxuProofs!vars)
  <2>1. MxuProofs!ConstantsOK
    BY UnitsAssumption, SameMxu
  <2>2. MxuProofs!Spec => MxuProofs!ArrayUndisturbed
    BY <2>1, SameClient, MxuProofs!Undisturbed
  <2> QED BY <2>2, MxuBehaves, PTL DEF MxuProofs!ArrayUndisturbed
<1>2. UnitsSpec /\ ~(lane = "mxu") => []~(lane = "mxu")
  <2>1. ~(lane = "mxu") /\ [UnitsNext]_unitsVars => (~(lane = "mxu"))'
    BY DEF UnitsNext, unitsVars, Vectors, Reduces, Matmuls, Copying
  <2> QED BY <2>1, PTL DEF UnitsSpec
<1>3. lane = "mxu" /\ [UnitsNext]_unitsVars /\ UNCHANGED MxuProofs!vars => UNCHANGED unitsVars
  BY DEF UnitsNext, unitsVars, Vectors, Reduces, Matmuls, Copying, MxuProofs!vars, MxuProofs!port,
     MxuProofs!counters, MxuProofs!tiles, MxuProofs!array, port, unit, vars, lhsRegs, mxuRegs
<1>4. /\ [UnitsNext]_unitsVars /\ [MxuProofs!ArrayUndisturbedStep]_(MxuProofs!vars)
           => [lane = "mxu" => Mxu!ArrayUndisturbedStep]_unitsVars
      /\ ~(lane = "mxu") => [lane = "mxu" => Mxu!ArrayUndisturbedStep]_unitsVars
  BY <1>3, SameMxu
<1> QED BY <1>1, <1>2, <1>4, PTL DEF UnitsSpec, MxuUndisturbed

\* Every step of the DMA engine and its memories is a step of the word-at-a-time
\* copy, or invisible to it.
THEOREM DmaCopies == UnitsSpec => DmaImplementsCopy
<1>1. UnitsSpec /\ lane = "dma" => [][DmaProofs!Copy!CopyNext(DmaCmds)]_(DmaProofs!Copy!copyVars)
  <2>1. DmaProofs!ConstantsOK
    BY UnitsAssumption, SameDma
  <2>2. DmaProofs!Spec => DmaProofs!Implements
    BY <2>1, DmaProofs!ImplementsCopy
  <2> QED BY <2>2, DmaBehaves, PTL DEF DmaProofs!Implements
<1>2. UnitsSpec /\ ~(lane = "dma") => []~(lane = "dma")
  <2>1. ~(lane = "dma") /\ [UnitsNext]_unitsVars => (~(lane = "dma"))'
    BY DEF UnitsNext, unitsVars, Vectors, Reduces, Matmuls, Copying
  <2> QED BY <2>1, PTL DEF UnitsSpec
<1>3. /\ [DmaProofs!Copy!CopyNext(DmaCmds)]_(DmaProofs!Copy!copyVars)
           => [lane = "dma" => Dma!Copy!CopyNext(DmaCmds)]_(Dma!Copy!copyVars)
      /\ ~(lane = "dma") => [lane = "dma" => Dma!Copy!CopyNext(DmaCmds)]_(Dma!Copy!copyVars)
  BY SameDma DEF DmaProofs!Copy!copyVars, DmaProofs!Phase, DmaProofs!Copied,
     Dma!Copy!copyVars, Dma!Phase, Dma!Copied
<1> QED BY <1>1, <1>2, <1>3, PTL DEF DmaImplementsCopy
=============================================================================
