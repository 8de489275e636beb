------------------------------ MODULE Programs ------------------------------
(***************************************************************************)
(* The reference programs of src/virtual_tpu/programs.py with the tile      *)
(* packing of lowering.py and the tile ranges of tiling.py.  A layout is a  *)
(* record of the addresses; the defaults are those of the dataclasses.  The *)
(* tile edge of the single-tile programs, 16 in the code, is a parameter.   *)
(***************************************************************************)
EXTENDS GoldenModel

\* The elements of seqs[1], seqs[2], ..., seqs[n] in one sequence
Concat(seqs) ==
  LET upto[n \in 0 .. Len(seqs)] == IF n = 0 THEN <<>> ELSE upto[n - 1] \o seqs[n]
  IN  upto[Len(seqs)]
\* body(0) \o body(1) \o ... \o body(n - 1): a for loop that appends
Loop(n, body(_)) == Concat([i \in 1 .. n |-> body(i - 1)])

\* targets 0x10, 0x20, 0x1F
TC0 == 16
TC1 == 32
TC0AllMxus == 31

V0(addr) == Ref(VMEM0, addr)
V1(addr) == Ref(VMEM1, addr)
H(addr)  == Ref(HBM, addr)

\* Matmul16Layout
Matmul16Layout(t) ==
  [hbm_a |-> 0, hbm_b |-> 256, hbm_c |-> 512, vmem_a |-> 0, vmem_b |-> 256,
   vmem_c |-> 512, tile |-> t, tile_bytes |-> t * t, result_bytes |-> t * t * 4]

Tile_(L, target, opts) == matmul(L.vmem_c, L.vmem_a, L.vmem_b, L.tile, L.tile, L.tile, target, opts)

matmul_16_program(L) == <<
  dma_copy(V0(L.vmem_a), H(L.hbm_a), L.tile_bytes),
  dma_copy(V0(L.vmem_b), H(L.hbm_b), L.tile_bytes),
  barrier(DMA),
  clear(V0(L.vmem_c), L.result_bytes),
  Tile_(L, TC0, {}),
  barrier(MXU),
  dma_copy(H(L.hbm_c), V0(L.vmem_c), L.result_bytes),
  barrier(DMA),
  halt >>

cmem_staged_matmul_16_program(L) ==
  LET cmem_a == Ref(CMEM, 0)   cmem_b == Ref(CMEM, 256) IN <<
  dma_copy(cmem_a, H(L.hbm_a), L.tile_bytes),
  dma_copy(cmem_b, H(L.hbm_b), L.tile_bytes),
  dma_copy(V0(L.vmem_a), cmem_a, L.tile_bytes),
  dma_copy(V0(L.vmem_b), cmem_b, L.tile_bytes),
  barrier(DMA),
  clear(V0(L.vmem_c), L.result_bytes),
  Tile_(L, TC0AllMxus, {}),
  barrier(MXU),
  dma_copy(H(L.hbm_c), V0(L.vmem_c), L.result_bytes),
  barrier(DMA),
  halt >>

\* SplitOutputMatmulLayout
SplitOutputMatmulLayout(t) ==
  [hbm_a |-> 0, hbm_b0 |-> 256, hbm_b1 |-> 512, hbm_c0 |-> 4096, hbm_c1 |-> 5120,
   vmem_a |-> 0, vmem_b |-> 256, vmem_c |-> 512, tile |-> t,
   tile_bytes |-> t * t, result_bytes |-> t * t * 4]

split_output_two_tc_matmul_program(L) == <<
  dma_copy(V0(L.vmem_a), H(L.hbm_a), L.tile_bytes),
  dma_copy(V1(L.vmem_a), H(L.hbm_a), L.tile_bytes),
  dma_copy(V0(L.vmem_b), H(L.hbm_b0), L.tile_bytes),
  dma_copy(V1(L.vmem_b), H(L.hbm_b1), L.tile_bytes),
  barrier(DMA),
  clear(V0(L.vmem_c), L.result_bytes),
  clear(V1(L.vmem_c), L.result_bytes),
  Tile_(L, TC0, {}),
  Tile_(L, TC1, {}),
  barrier(MXU),
  dma_copy(H(L.hbm_c0), V0(L.vmem_c), L.result_bytes),
  dma_copy(H(L.hbm_c1), V1(L.vmem_c), L.result_bytes),
  barrier(DMA),
  halt >>

-----------------------------------------------------------------------------
(* Tiled products                                                           *)

\* tiling.tiles: consecutive [start, stop) over 0 .. length - 1, the last one
\* possibly shorter.
Ceil(x, y) == (x + y - 1) \div y
tiles(length, size) ==
  [i \in 1 .. Ceil(length, size) |->
     [start |-> (i - 1) * size, stop |-> IF i * size < length THEN i * size ELSE length]]

\* TiledMatmulLayout
TiledMatmulLayout(m, n, k, t) ==
  [m |-> m, n |-> n, k |-> k, tile |-> t, hbm_a |-> 0, hbm_b |-> 8192, hbm_c |-> 16384,
   vmem_a |-> 0, vmem_b |-> 256, vmem_c |-> 512, tile_bytes |-> t * t,
   result_bytes |-> t * t * 4]

\* Mutant: row and column exchanged
PackedTileOffsetTransposed(row, col, per_row, bytes, base) == base + (col * per_row + row) * bytes
packed_tile_offset(row, col, per_row, bytes, base) == base + (row * per_row + col) * bytes

matmul_tiled_packed_program(L) ==
  LET mt == L.m \div L.tile   nt == L.n \div L.tile   kt == L.k \div L.tile
      step(mi, ni, ki) == <<
        dma_copy(V0(L.vmem_a), H(packed_tile_offset(mi, ki, kt, L.tile_bytes, L.hbm_a)), L.tile_bytes),
        dma_copy(V0(L.vmem_b), H(packed_tile_offset(ki, ni, nt, L.tile_bytes, L.hbm_b)), L.tile_bytes),
        barrier(DMA),
        Tile_(L, TC0, IF ki # 0 THEN {"accumulate"} ELSE {}),
        barrier(MXU) >>
      output(mi, ni) ==
        <<clear(V0(L.vmem_c), L.result_bytes)>>
        \o Loop(kt, LAMBDA ki : step(mi, ni, ki))
        \o <<dma_copy(H(packed_tile_offset(mi, ni, nt, L.result_bytes, L.hbm_c)),
                      V0(L.vmem_c), L.result_bytes),
             barrier(DMA)>>
  IN  Loop(mt, LAMBDA mi : Loop(nt, LAMBDA ni : output(mi, ni))) \o <<halt>>

multi_mxu_tiled_matmul_program(L) ==
  LET program == matmul_tiled_packed_program(L)
  IN  [i \in DOMAIN program |->
         IF program[i].op = MATMUL THEN [program[i] EXCEPT !.target = TC0AllMxus] ELSE program[i]]

\* lowering.pack_int8_tiles, pack_int32_tiles: the tiles of a matrix, row-major
\* flat with `cols` columns, in row-major order of tiles.
pack_tiles(v, rows, cols, t) ==
  Loop(rows \div t, LAMBDA r : Loop(cols \div t, LAMBDA c :
    [e \in 1 .. t * t |-> v[(r * t + (e - 1) \div t) * cols + c * t + ((e - 1) % t) + 1]]))

-----------------------------------------------------------------------------

\* Matmul128Layout with operands of a x a bytes: C stays in the VMEM.
matmul_128_program(a) == <<
  dma_copy(V0(0), H(0), a * a),
  dma_copy(V0(16384), H(16384), a * a),
  barrier(DMA),
  matmul(32768, 0, 16384, a, a, a, TC0, {}),
  barrier(MXU),
  halt >>

\* SplitMatmul8Layout: four partitions of t x t x t
split_matmul_8_program(t) == <<
  dma_copy(V0(0), H(0), 4 * t * t),
  dma_copy(V0(512), H(512), 4 * t * t),
  barrier(DMA),
  clear(V0(1024), 4 * t * t * 4),
  split_matmul(1024, 0, 512, t, t, t, TC0, {}),
  barrier(MXU),
  dma_copy(H(1024), V0(1024), 4 * t * t * 4),
  barrier(DMA),
  halt >>

mlp_single_tile_program(t) ==
  LET x == 0   w == 256   y == 512   bias == 1536   result_bytes == t * t * 4 IN <<
  dma_copy(V0(x), H(0), t * t),
  dma_copy(V0(w), H(256), t * t),
  dma_copy(V0(bias), H(512), result_bytes),
  barrier(DMA),
  clear(V0(y), result_bytes),
  matmul(y, x, w, t, t, t, TC0, {}),
  barrier(MXU),
  vector_op(y, y, bias, t * t, VADD, TC0, 0),
  barrier(VPU),
  vector_op(y, y, 0, t * t, VRELU, TC0, 0),
  barrier(VPU),
  dma_copy(H(1536), V0(y), result_bytes),
  barrier(DMA),
  halt >>
=============================================================================
