---------------------------- MODULE GoldenModel ----------------------------
(***************************************************************************)
(* What one instruction does to the memories: GoldenExecutor of golden.py   *)
(* on the MemorySystem of memory.py.                                        *)
(*                                                                          *)
(* Numbers of every type are elements of the field of P elements, with      *)
(* NegInf for the -1e30 of attention masks: two results are equal here only *)
(* if the same operands met in the same operations, while rounding and      *)
(* overflow are left out (VectorUnit and MxuTop have the overflow).  Layout *)
(* is exact: an element occupies its 1, 2 or 4 bytes and can only be read   *)
(* back with that width at its own address.                                 *)
(***************************************************************************)
EXTENDS Isa
Sets == INSTANCE FiniteSetsExt

CONSTANTS
  P,                               \* a prime
  Exp(_), Recip(_), Rsqrt(_),      \* the special functions on 0 .. P - 1
  hbm_bytes, cmem_bytes, vmem_bytes

ASSUME GoldenAssumption ==
  /\ P \in Nat /\ P > 2 /\ Exp(0) = 1 /\ Recip(1) = 1
  /\ {hbm_bytes, cmem_bytes, vmem_bytes} \subseteq Nat

-----------------------------------------------------------------------------
(* Arithmetic                                                               *)

NegInf == -1
Undef  == -2        \* the contents of bytes nothing has written

Add(x, y) == IF NegInf \in {x, y} THEN NegInf ELSE (x + y) % P
Mul(x, y) == IF NegInf \in {x, y} THEN NegInf ELSE (x * y) % P
Neg(x)    == (P - x) % P
Signed(x) == IF x = NegInf THEN -P ELSE IF x > P \div 2 THEN x - P ELSE x
Larger(x, y) == IF Signed(x) >= Signed(y) THEN x ELSE y
Exponential(x) == IF x = NegInf THEN 0 ELSE Exp(x)
Sigmoid(x) == Recip(Add(1, Exponential(Neg(x))))
Silu(x)    == Mul(x, Sigmoid(x))

\* The function f on 1 .. n as a sequence (TLC then evaluates it only once)
Eager(f) == <<>> \o f

\* f[1] op f[2] op ... op f[n] for an associative op, by halves: part[<<lo, hi>>]
\* is the part from lo to hi.
Chain(op(_, _), f, n) ==
  LET part[r \in (1 .. n) \X (1 .. n)] ==
        IF r[1] >= r[2] THEN f[r[1]]
        ELSE LET mid == (r[1] + r[2]) \div 2 IN op(part[<<r[1], mid>>], part[<<mid + 1, r[2]>>])
  IN  part[<<1, n>>]
Total(f, n) == Chain(Add, f, n)

-----------------------------------------------------------------------------
(* Memory: for every space a set of blocks of consecutive elements of one   *)
(* width w.  A block with w = 0 is a range of cleared bytes.                *)

NoMemory == [s \in AddressSpace |-> {}]
Block(at, w, v) == [at |-> at, len |-> w * Len(v), w |-> w, v |-> v]

SizeOf(space) == CASE space = HBM  -> hbm_bytes
                   [] space = CMEM -> cmem_bytes
                   [] space \in {VMEM0, VMEM1} -> vmem_bytes
                   [] OTHER -> 1024

\* ByteMemory._check_range
InRange(space, at, len) == at + len <= SizeOf(space)

Touching(blocks, lo, hi) == {b \in blocks : b.at < hi /\ lo < b.at + b.len}

\* The whole elements of block b in [lo, hi)
Piece(b, lo, hi) ==
  LET width == IF b.w = 0 THEN 1 ELSE b.w
      first == (lo - b.at + width - 1) \div width
      last  == (hi - b.at) \div width
  IN  [at |-> b.at + first * width, len |-> (last - first) * width, w |-> b.w,
       v |-> IF b.w = 0 THEN <<>> ELSE SubSeq(b.v, first + 1, last)]
Pieces(b, lo, hi) == {p \in {Piece(b, lo, hi)} : p.len > 0}

\* ByteMemory.read: the blocks in [lo, hi)
Cut(blocks, lo, hi) ==
  UNION {Pieces(b, IF b.at > lo THEN b.at ELSE lo,
                   IF b.at + b.len < hi THEN b.at + b.len ELSE hi)
         : b \in Touching(blocks, lo, hi)}

\* ByteMemory.write: new replaces what was in [lo, hi).
Put(blocks, lo, hi, new) ==
  LET old == Touching(blocks, lo, hi)
  IN  (blocks \ old) \cup new
        \cup UNION {Pieces(b, b.at, lo) : b \in {c \in old : c.at < lo}}
        \cup UNION {Pieces(b, hi, b.at + b.len) : b \in {c \in old : c.at + c.len > hi}}

\* read_i8_matrix, read_u16_matrix, read_f32_vector, ...: n elements of width
\* w.  Bytes that another width wrote are not an element.
Elements(blocks, at, n, w) ==
  LET near == Touching(blocks, at, at + n * w)
      Element(a) ==
        LET holds == {b \in near : b.at <= a /\ a + w <= b.at + b.len}
            b == CHOOSE c \in holds : TRUE
        IN  IF holds = {} THEN Undef
            ELSE IF b.w = 0 THEN 0
            ELSE IF b.w = w /\ (a - b.at) % w = 0 THEN b.v[(a - b.at) \div w + 1]
            ELSE Undef
  IN  Eager([i \in 1 .. n |-> Element(at + (i - 1) * w)])

\* write_i32_matrix, write_f32_vector, ...
Store(blocks, at, w, v) == Put(blocks, at, at + w * Len(v), {Block(at, w, v)})

-----------------------------------------------------------------------------
(* The operands of an instruction: where it reads and writes.  A footprint  *)
(* is a set of ranges [space, at, n, w] of n elements of width w.           *)

DmaSrc(i) == Ref(unpack_dma_flags(i.flags)[1], i.imm2 * Half + i.src0)
DmaDst(i) == Ref(unpack_dma_flags(i.flags)[2], i.imm1 * Half + i.dst)

\* _target_vmem_spaces
Vmems(target) == {s \in {VMEM0, VMEM1} : Bit(target, 4 + s - VMEM0)}

Span(space, at, n, w) == [space |-> space, at |-> at, n |-> n, w |-> w]
Parts(i) == IF Bit(i.flags, SPLIT_2X2) THEN 4 ELSE 1
\* The four products of a split are of signed bytes, whatever the other flags.
OperandWidth(i) == IF Bit(i.flags, BF16) /\ ~Bit(i.flags, SPLIT_2X2) THEN 2 ELSE 1
Transposed(i)   == Bit(i.flags, TRANSPOSE_B) /\ ~Bit(i.flags, SPLIT_2X2)
Binary == {VADD, VMUL, VMAX, FADD, FMUL, FMAX}
ResultCount(i) ==
  IF i.imm1 \in {SUM_ROWS, MAX_ROWS, FSUM_ROWS, FMAX_ROWS} THEN i.imm0 \div i.imm2
  ELSE IF i.imm1 \in {SUM_COLS, MAX_COLS} THEN i.imm2 ELSE 1

Reads(i) ==
  LET local(at, n, w) == {Span(s, at, n, w) : s \in Vmems(i.target)}
  IN  CASE i.op \in DmaOpcodes -> {Span(DmaSrc(i).space, DmaSrc(i).addr, i.imm0, 1)}
        [] i.op = MATMUL ->
             LET w == OperandWidth(i) IN
             local(i.src0, Parts(i) * i.imm0 * i.imm2, w)
               \cup local(i.src1, Parts(i) * i.imm2 * i.imm1, w)
               \cup (IF Bit(i.flags, ACCUMULATE)
                     THEN local(i.dst, Parts(i) * i.imm0 * i.imm1, 4) ELSE {})
        [] i.op = VECTOR_OP ->
             local(i.src0, i.imm0, 4)
               \cup (IF i.imm1 \in Binary THEN local(i.src1, i.imm0, 4)
                     ELSE IF i.imm1 = FSCALE_BCAST THEN local(i.src1, 1, 4) ELSE {})
        [] i.op = REDUCE -> local(i.src0, i.imm0, 4)
        [] OTHER -> {}

Writes(i) ==
  LET local(n, w) == {Span(s, i.dst, n, w) : s \in Vmems(i.target)}
  IN  CASE i.op \in DmaOpcodes -> {Span(DmaDst(i).space, DmaDst(i).addr, i.imm0, 1)}
        [] i.op = CLEAR     -> {Span(i.flags % 8, i.dst, i.imm0, 1)}
        [] i.op = MATMUL    -> local(Parts(i) * i.imm0 * i.imm1, 4)
        [] i.op = VECTOR_OP -> local(i.imm0, IF i.imm1 = FQUANT_BF16 THEN 2 ELSE 4)
        [] i.op = REDUCE    -> local(ResultCount(i), 4)
        [] OTHER -> {}

-----------------------------------------------------------------------------
(* Execution on the blocks of one VMEM                                      *)

\* numpy's a @ b on flat operands: a is m x k, b is k x n, or n x k transposed
Product(a, b, m, n, k, transposed) ==
  LET At(r, c, x) == Mul(a[r * k + x], b[IF transposed THEN c * k + x ELSE (x - 1) * n + c + 1])
  IN  Eager([e \in 1 .. m * n |->
        LET r == (e - 1) \div n   c == (e - 1) % n
        IN  Total([x \in 1 .. k |-> At(r, c, x)], k)])

Plus(u, v) == Eager([e \in 1 .. Len(u) |-> Add(u[e], v[e])])

\* _execute_matmul and, for the four partitions, _execute_split_matmul
Matmul(blocks, i) ==
  LET m == i.imm0   n == i.imm1   k == i.imm2   w == OperandWidth(i)
      part(bs, p) ==
        LET c == Product(Elements(bs, i.src0 + p * m * k * w, m * k, w),
                         Elements(bs, i.src1 + p * k * n * w, k * n, w),
                         m, n, k, Transposed(i))
            dst == i.dst + p * m * n * 4
        IN  Store(bs, dst, 4, IF Bit(i.flags, ACCUMULATE)
                              THEN Plus(c, Elements(bs, dst, m * n, 4)) ELSE c)
      after[p \in 0 .. Parts(i)] == IF p = 0 THEN blocks ELSE part(after[p - 1], p - 1)
  IN  after[Parts(i)]

\* _sign_extend_16
Immediate(imm2) == IF imm2 >= Half \div 2 THEN Neg((Half - imm2) % P) ELSE imm2 % P

\* The functions of _execute_vector_op and _execute_vector_fp
VectorResult(op, x, y, imm2) ==
  LET imm   == Immediate(imm2)
      limit == IF Signed(imm) < 0 THEN Neg(imm) ELSE imm
  IN  CASE op \in {VADD, FADD} -> Add(x, y)
        [] op \in {VMUL, FMUL, FSCALE_BCAST} -> Mul(x, y)
        [] op \in {VMAX, FMAX} -> Larger(x, y)
        [] op = VSCALE -> Mul(x, imm)
        [] op = VRELU  -> Larger(x, 0)
        [] op = VCLAMP -> IF Signed(x) > Signed(limit) THEN limit
                          ELSE IF Signed(x) < -Signed(limit) THEN Neg(limit) ELSE x
        [] op = FEXP     -> Exponential(x)
        [] op = FRECIP   -> Recip(x)
        [] op = FRSQRT   -> Rsqrt(x)
        [] op = FSIGMOID -> Sigmoid(x)
        [] op = FSILU    -> Silu(x)
        [] op = FQUANT_BF16 -> x

Vector(blocks, i) ==
  LET src0 == Elements(blocks, i.src0, i.imm0, 4)
      src1 == Elements(blocks, i.src1, IF i.imm1 \in Binary THEN i.imm0 ELSE 1, 4)
  IN  Store(blocks, i.dst, IF i.imm1 = FQUANT_BF16 THEN 2 ELSE 4,
            Eager([e \in 1 .. i.imm0 |->
              VectorResult(i.imm1, src0[e],
                           IF i.imm1 \in Binary THEN src1[e]
                           ELSE IF i.imm1 = FSCALE_BCAST THEN src1[1] ELSE 0, i.imm2)]))

\* _execute_reduce and _execute_reduce_fp
Reduce(blocks, i) ==
  LET v == Elements(blocks, i.src0, i.imm0, 4)
      cols == i.imm2
      Fold(f, n) == IF i.imm1 \in {SUM_ALL, SUM_ROWS, SUM_COLS, FSUM_ALL, FSUMSQ_ALL, FSUM_ROWS}
                    THEN Total(f, n) ELSE Chain(Larger, f, n)
      term(x) == IF i.imm1 = FSUMSQ_ALL THEN Mul(x, x) ELSE x
  IN  Store(blocks, i.dst, 4, Eager([e \in 1 .. ResultCount(i) |->
        IF i.imm1 \in {SUM_ROWS, MAX_ROWS, FSUM_ROWS, FMAX_ROWS}
        THEN Fold([x \in 1 .. cols |-> v[(e - 1) * cols + x]], cols)
        ELSE IF i.imm1 \in {SUM_COLS, MAX_COLS}
        THEN Fold([x \in 1 .. i.imm0 \div cols |-> v[(x - 1) * cols + e]], i.imm0 \div cols)
        ELSE Fold([x \in 1 .. i.imm0 |-> term(v[x])], i.imm0)]))

-----------------------------------------------------------------------------
(* One instruction                                                          *)

\* _execute_dma, _execute_clear: bytes move without a change of layout.
Copied(mem, i) ==
  LET s == DmaSrc(i)   d == DmaDst(i)
      moved == {[b EXCEPT !.at = @ - s.addr + d.addr]
                : b \in Cut(mem[s.space], s.addr, s.addr + i.imm0)}
  IN  [mem EXCEPT ![d.space] = Put(@, d.addr, d.addr + i.imm0, moved)]
Cleared(mem, i) ==
  [mem EXCEPT ![i.flags % 8] =
     Put(@, i.dst, i.dst + i.imm0,
         {[at |-> i.dst, len |-> i.imm0, w |-> 0, v |-> <<>>]})]

\* GoldenExecutor.step on the memories; BARRIER, SYNC, NOP and HALT change none.
Execute(mem, i) ==
  LET OnTarget(Op(_, _)) == [s \in AddressSpace |-> IF s \in Vmems(i.target)
                                                    THEN Op(mem[s], i) ELSE mem[s]]
  IN  CASE i.op \in DmaOpcodes -> IF i.imm0 = 0 THEN mem ELSE Copied(mem, i)
        [] i.op = CLEAR     -> Cleared(mem, i)
        [] i.op = MATMUL    -> OnTarget(Matmul)
        [] i.op = VECTOR_OP -> OnTarget(Vector)
        [] i.op = REDUCE    -> OnTarget(Reduce)
        [] OTHER -> mem

\* The checks of _execute_*, _target_vmem_spaces and _require_aligned.
Accepts(i) ==
  /\ i.op \in DmaOpcodes =>
       /\ \A s \in {DmaSrc(i), DmaDst(i)} : s.space \in AddressSpace /\ s.addr % 4 = 0
       /\ i.imm0 % 4 = 0
  /\ i.op = CLEAR => i.flags % 8 \in AddressSpace /\ i.dst % 4 = 0 /\ i.imm0 % 4 = 0
  /\ i.op = MATMUL =>
       /\ \A f \in 0 .. 7 : Bit(i.flags, f) => f \in SupportedMatmulFlags
       /\ 0 \notin {i.imm0, i.imm1, i.imm2}
       /\ Bit(i.flags, SPLIT_2X2) => i.imm0 <= 8 /\ i.imm1 <= 8
  /\ i.op = VECTOR_OP => i.imm0 # 0 /\ i.imm1 \in VADD .. FQUANT_BF16
  /\ i.op = REDUCE =>
       /\ i.imm0 # 0 /\ i.imm1 \in SUM_ALL .. FMAX_ROWS
       /\ i.imm1 \in {SUM_ROWS, MAX_ROWS, SUM_COLS, MAX_COLS, FSUM_ROWS, FMAX_ROWS} =>
            i.imm2 # 0 /\ i.imm0 % i.imm2 = 0
  /\ i.op \in {MATMUL, VECTOR_OP, REDUCE} => i.target \div 16 \in 1 .. 3
  /\ i.op \in {NOP, BARRIER, SYNC, HALT, CLEAR, MATMUL, VECTOR_OP, REDUCE} \cup DmaOpcodes
  /\ \A s \in Reads(i) \cup Writes(i) : InRange(s.space, s.at, s.n * s.w)

\* The bytes an instruction reads have been written, as elements of the width
\* it reads them with.  (The golden memory holds zeros elsewhere, the memories
\* of the chip anything.)
Defined(mem, i) ==
  \A s \in Reads(i) :
    IF i.op \in DmaOpcodes
    THEN Sets!MapThenSumSet(LAMBDA b : b.len, Cut(mem[s.space], s.at, s.at + s.n)) = s.n
    ELSE LET v == Elements(mem[s.space], s.at, s.n, s.w) IN \A e \in 1 .. s.n : v[e] # Undef
=============================================================================
