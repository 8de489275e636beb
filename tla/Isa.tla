-------------------------------- MODULE Isa --------------------------------
(***************************************************************************)
(* The instruction set of src/virtual_tpu/isa.py: the fields of the 128-bit *)
(* word, its encoding, and the functions that build instructions.  The      *)
(* field `reserved`, which no builder sets, is left out and encoded as 0.   *)
(***************************************************************************)
EXTENDS Integers, Sequences, FiniteSets

\* class Opcode
NOP == 0
LOAD_TILE == 1
STORE_TILE == 2
DMA_COPY == 3
MATMUL == 4
VECTOR_OP == 5
REDUCE == 6
BARRIER == 7
CLEAR == 10
SYNC == 12
HALT == 255

Opcode == (0 .. 12) \cup {HALT}
DmaOpcodes == {LOAD_TILE, STORE_TILE, DMA_COPY}

\* class AddressSpace
HBM == 0
CMEM == 1
VMEM0 == 2
VMEM1 == 3
INFEED == 4
OUTFEED == 5
AddressSpace == HBM .. OUTFEED

\* class UnitMask; a mask is the sum of its members.
DMA == 1
MXU == 2
VPU == 4
REDUCE_UNIT == 8
IO == 16
ALL_TENSOR_CORES == 32
ALL_LOCAL == 64

\* class VectorOp, class ReduceOp
VADD == 0
VMUL == 1
VSCALE == 2
VRELU == 3
VCLAMP == 4
VMAX == 5
FADD == 6
FMUL == 7
FMAX == 8
FEXP == 9
FRECIP == 10
FRSQRT == 11
FSIGMOID == 12
FSILU == 13
FSCALE_BCAST == 14
FQUANT_BF16 == 15
SUM_ALL == 0
MAX_ALL == 1
SUM_ROWS == 2
MAX_ROWS == 3
SUM_COLS == 4
MAX_COLS == 5
FSUM_ALL == 6
FMAX_ALL == 7
FSUMSQ_ALL == 8
FSUM_ROWS == 9
FMAX_ROWS == 10

\* MATMUL_FLAG_*, as the numbers of their bits
ACCUMULATE == 0
TRANSPOSE_A == 1
TRANSPOSE_B == 2
SIGNED == 3
FIXED_POINT == 4
BF16 == 5
SATURATE_STORE == 6
SPLIT_2X2 == 7
SupportedMatmulFlags == {ACCUMULATE, TRANSPOSE_B, SIGNED, BF16, SPLIT_2X2}

Bit(word, n) == (word \div 2^n) % 2 = 1
\* A flag that is set if c holds.
Flag(n, c) == IF c THEN 2^n ELSE 0

-----------------------------------------------------------------------------
(* Instructions                                                             *)

Half == 65536
Fields8  == {"op", "flags", "target"}
Fields16 == {"dst", "src0", "src1", "imm0", "imm1", "imm2"}

\* What the builders do not raise ISAError for: Instruction.__post_init__ with
\* _require_range, and the partition size in split_matmul.
Encodable(i) ==
  /\ i.op \in Opcode
  /\ \A f \in Fields8  : i[f] \in 0 .. 255
  /\ \A f \in Fields16 : i[f] \in 0 .. Half - 1
  /\ i.op = MATMUL /\ Bit(i.flags, SPLIT_2X2) => i.imm0 <= 8 /\ i.imm1 <= 8

Instr(op, flags, target, dst, src0, src1, imm0, imm1, imm2) ==
  [op |-> op, flags |-> flags, target |-> target, dst |-> dst, src0 |-> src0,
   src1 |-> src1, imm0 |-> imm0, imm1 |-> imm1, imm2 |-> imm2]

\* Instruction.encode: the word's eight halfwords, the most significant first.
Encode(i) == <<i.op * 256 + i.flags, i.target * 256, i.dst, i.src0, i.src1,
               i.imm0, i.imm1, i.imm2>>

\* Instruction.decode
Decode(w) == Instr(w[1] \div 256, w[1] % 256, w[2] \div 256, w[3], w[4], w[5],
                   w[6], w[7], w[8])

-----------------------------------------------------------------------------
(* Builders.  A MemoryRef is a pair of an address space and an address.    *)

Ref(space, addr) == [space |-> space, addr |-> addr]

pack_dma_flags(src, dst) == src + 8 * dst
unpack_dma_flags(flags) == <<flags % 8, (flags \div 8) % 8>>

\* Addresses of 32 bits: the upper halves travel in imm1 and imm2.
dma_as(opcode, dst, src, length) ==
  Instr(opcode, pack_dma_flags(src.space, dst.space), 0, dst.addr % Half,
        src.addr % Half, 0, length, dst.addr \div Half, src.addr \div Half)
dma_copy(dst, src, length) == dma_as(DMA_COPY, dst, src, length)

clear(dst, length) == Instr(CLEAR, dst.space, 0, dst.addr, 0, 0, length, 0, 0)

\* opts: the set of the options accumulate, bf16 and transpose_b that are on.
matmul(dst, a, b, m, n, k, target, opts) ==
  Instr(MATMUL,
        Flag(SIGNED, TRUE) + Flag(ACCUMULATE, "accumulate" \in opts)
          + Flag(BF16, "bf16" \in opts) + Flag(TRANSPOSE_B, "transpose_b" \in opts),
        target, dst, a, b, m, n, k)

split_matmul(dst, a, b, m, n, k, target, opts) ==
  LET i == matmul(dst, a, b, m, n, k, target, opts)
  IN  [i EXCEPT !.flags = @ + Flag(SPLIT_2X2, TRUE)]

vector_op(dst, src0, src1, length, op, target, imm) ==
  Instr(VECTOR_OP, 0, target, dst, src0, src1, length, op, imm)

reduce_op(dst, src, length, op, target, columns) ==
  Instr(REDUCE, 0, target, dst, src, 0, length, op, columns)

barrier(mask) == Instr(BARRIER, 0, 0, 0, 0, 0, mask % Half, 0, 0)
halt == Instr(HALT, 0, 0, 0, 0, 0, 0, 0, 0)
=============================================================================
