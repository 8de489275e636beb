---------------------------- MODULE InstrDecoder ----------------------------
(***************************************************************************)
(* rtl/isa/instr_decoder.sv: the error code the decoder gives an            *)
(* instruction; any but "NONE" is illegal and takes the control FSM to      *)
(* ERROR.  Encode writes zeros into the reserved byte, so its check never   *)
(* fails here.                                                              *)
(***************************************************************************)
EXTENDS Isa

opcode_known(i) ==
  i.op \in DmaOpcodes \cup {NOP, MATMUL, VECTOR_OP, REDUCE, BARRIER, CLEAR, SYNC, HALT}

\* No reserved target bit is set, and a TensorCore is.
target_ok(i) == i.op \in {MATMUL, VECTOR_OP, REDUCE} => i.target \div 16 \in 1 .. 3

local_mem_space_ok(space) == space \in {CMEM, VMEM0, VMEM1}
dma_mem_space_ok(space) == space \in {HBM, CMEM, VMEM0, VMEM1}
dma_spaces_ok(i) ==
  i.op \in DmaOpcodes =>
    LET spaces == unpack_dma_flags(i.flags)
    IN  dma_mem_space_ok(spaces[1]) /\ dma_mem_space_ok(spaces[2])
clear_space_ok(i) == i.op = CLEAR => local_mem_space_ok(i.flags)

matmul_flags_ok(i) ==
  i.op = MATMUL => \A f \in (0 .. 7) \ SupportedMatmulFlags : ~Bit(i.flags, f)
matmul_dims_ok(i) == i.op = MATMUL => 0 \notin {i.imm0, i.imm1, i.imm2}

vector_ok(i) == i.op = VECTOR_OP => i.imm1 <= FQUANT_BF16 /\ i.imm0 # 0

\* Every reduction but the integer SUM_ALL and MAX_ALL must give its columns.
reduce_ok(i) ==
  i.op = REDUCE => i.imm1 <= FMAX_ROWS /\ i.imm0 # 0 /\ (i.imm1 <= MAX_ALL \/ i.imm2 # 0)

\* The first failing check gives the code.
error_code(i) ==
  IF ~opcode_known(i) THEN "BAD_OPCODE"
  ELSE IF ~target_ok(i) THEN "BAD_TARGET"
  ELSE IF ~dma_spaces_ok(i) \/ ~clear_space_ok(i) THEN "UNSUPPORTED"
  ELSE IF ~matmul_flags_ok(i) THEN "BAD_FLAGS"
  ELSE IF ~matmul_dims_ok(i) \/ ~vector_ok(i) \/ ~reduce_ok(i) THEN "UNSUPPORTED"
  ELSE "NONE"
=============================================================================
