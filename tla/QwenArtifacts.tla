--------------------------- MODULE QwenArtifacts ---------------------------
(***************************************************************************)
(* The workloads of src/virtual_tpu/qwen/rtl_artifacts.py: an instruction   *)
(* stream with the HBM image it runs on.  A builder first lists items:      *)
(* instructions, and loads of a tensor into the VMEM, for which the         *)
(* _HBMBuilder appends the tensor to the image at its cursor and emits the  *)
(* DMA.  `mxu_dim` is the environment's QWEN_MXU_DIM.                       *)
(***************************************************************************)
EXTENDS QwenReference

LocalUnits == MXU + VPU + REDUCE_UNIT

\* Mutant: the barriers behind MATMULs forgotten
SyncKernelLanesOnly(program) ==
  Concat([i \in DOMAIN program |->
    IF program[i].op \in {VECTOR_OP, REDUCE}
    THEN <<program[i], barrier(LocalUnits)>> ELSE <<program[i]>>])

\* _sync_kernel: a barrier behind every MATMUL, VECTOR_OP and REDUCE
sync_kernel(program) ==
  Concat([i \in DOMAIN program |->
    IF program[i].op \in {MATMUL, VECTOR_OP, REDUCE}
    THEN <<program[i], barrier(LocalUnits)>> ELSE <<program[i]>>])

Synced(i) == sync_kernel(<<i>>)

-----------------------------------------------------------------------------
(* _HBMBuilder                                                              *)

LOAD    == -1     \* hbm.bf16 or hbm.f32 of v, and _dma_h2v to the address
RESERVE == -2     \* hbm.reserve_f32 of n elements, and _dma_v2h to them
Load(vmem, w, v)    == [op |-> LOAD, vmem |-> vmem, w |-> w, v |-> v]
Reserve(vmem, n)    == [op |-> RESERVE, vmem |-> vmem, n |-> n]

\* Mutant: rounds down
AlignDown(value, align) == (value \div align) * align
align_up(value, align) == Ceil(value, align) * align

\* One item at an HBM cursor: its code, image, output range and new cursor
Emit(item, cursor) ==
  LET off == align_up(cursor, 64) IN
  CASE item.op = LOAD ->
         [code |-> <<dma_copy(V0(item.vmem), H(off), item.w * Len(item.v))>>,
          image |-> {Block(off, item.w, item.v)}, outs |-> {},
          cursor |-> off + item.w * Len(item.v)]
    [] item.op = RESERVE ->
         [code |-> <<dma_copy(H(off), V0(item.vmem), 4 * item.n)>>,
          image |-> {}, outs |-> {Span(HBM, off, item.n, 4)}, cursor |-> off + 4 * item.n]
    [] OTHER -> [code |-> <<item>>, image |-> {}, outs |-> {}, cursor |-> cursor]

\* All items in order, by halves: part[<<lo, hi, cursor>>] is the part from lo to hi.
Build(items) ==
  LET n == Len(items)
      part[r \in (1 .. n) \X (1 .. n) \X Nat] ==
        IF r[1] >= r[2] THEN Emit(items[r[1]], r[3])
        ELSE LET mid == (r[1] + r[2]) \div 2
                 l == part[<<r[1], mid, r[3]>>]
                 h == part[<<mid + 1, r[2], l.cursor>>]
             IN  [code |-> l.code \o h.code, image |-> l.image \cup h.image,
                  outs |-> l.outs \cup h.outs, cursor |-> h.cursor]
  IN  part[<<1, n, 0>>]

-----------------------------------------------------------------------------
(* Building blocks                                                          *)

\* _quantize raises unless the length is even.
QuantizeAccepts(i) == i.op = VECTOR_OP /\ i.imm1 = FQUANT_BF16 => i.imm0 % 2 = 0
quantize(src, dst, n) == Synced(V(dst, src, n, FQUANT_BF16))
add(dst, s0, s1, n)   == Synced(V2(dst, s0, n, FADD, s1))
sigmoid_inplace(a, n) == Synced(V(a, a, n, FSIGMOID))
scale_copy(dst, src, n, one) == Synced(V2(dst, src, n, FSCALE_BCAST, one))
fmul(dst, s0, s1, n)  == Synced(V2(dst, s0, n, FMUL, s1))
fsilu(a, n)           == Synced(V(a, a, n, FSILU))
load_f32(v, vmem)     == <<Load(vmem, 4, v), barrier(DMA)>>

\* model.embed.T: d_model rows, one column for each token
EmbeddingTransposed(d_model, vocab) ==
  Vec(d_model * vocab, LAMBDA e : Weight("embed", 0, (e - 1) % vocab, (e - 1) \div vocab))

\* _linear_tiled: y = a @ weight, a k x n matrix, by its tiles
linear_tiled(weight, k, n, a, out, tile_addr, t) ==
  LET tn == tiles(n, t)   tk == tiles(k, t)
      tile(y, x) ==
        LET nt == y.stop - y.start   kt == x.stop - x.start IN
        <<Load(tile_addr, 2, Vec(kt * nt, LAMBDA e :
                 weight[(x.start + (e - 1) \div nt) * n + y.start + ((e - 1) % nt) + 1])),
          barrier(DMA),
          MM(out + y.start * 4, a + x.start * 2, tile_addr, 1, nt, kt,
             IF x.start # 0 THEN {"accumulate"} ELSE {}),
          barrier(MXU)>>
  IN  Concat([y \in DOMAIN tn |-> Concat([x \in DOMAIN tk |-> tile(tn[y], tk[x])])])

\* _rmsnorm
rmsnorm_items(v, x, y, w_addr, inv_h, eps, scratch, h) ==
  load_f32(v, w_addr)
  \o sync_kernel(rmsnorm_program(
       [x |-> x, w |-> w_addr, y |-> y, inv_h |-> inv_h, eps |-> eps, ss |-> scratch,
        mean |-> scratch + 16, denom |-> scratch + 32, h |-> h]))

-----------------------------------------------------------------------------
(* _build_tiny_full_token_artifacts                                         *)

\* The VMEM plan
A == [X |-> 0, NORM |-> 512, A_BF16 |-> 1024, MIX |-> 2048, MLP |-> 2560,
      CAT |-> 4096, GATE |-> 6144, ALPHA |-> 6656, BETA |-> 6912, Q_ROPE |-> 7168,
      K_ROPE |-> 7680, Q_BF16 |-> 8192, K_BF16 |-> 8448, V_BF16 |-> 8704, S |-> 9216,
      S_BF16 |-> 9728, S2_BF16 |-> 10240, DN_U |-> 10752, DN_AU |-> 11008,
      DN_VMT |-> 11264, DN_W |-> 11520, DN_WB |-> 11776, DN_OUTER |-> 12288,
      DN_O |-> 12800, DN_SG |-> 13056, INV_H |-> 14336, EPS |-> 14352, ONE |-> 14368,
      NEG_ONE |-> 14384, COS |-> 14400, SIN |-> 14464, MASK |-> 14528, ONES2 |-> 14544,
      WEIGHT_TILE |-> 20480, SCRATCH |-> 13312]

\* The constants and the embedding of the token
token_init(cfg, token) == <<
  Load(A.X, 4, Embedding(cfg, token)),
  Load(A.INV_H, 4, <<OneOver(cfg.d_model)>>),
  Load(A.EPS, 4, <<RmsEps>>),
  Load(A.ONE, 4, <<1>>),
  Load(A.NEG_ONE, 4, <<Neg(1)>>),
  Load(A.COS, 4, Vec(cfg.head_dim, LAMBDA i : 1)),
  Load(A.SIN, 4, Vec(cfg.head_dim, LAMBDA i : 0)),
  Load(A.MASK, 4, <<0, NegInf>>),
  Load(A.ONES2, 4, <<1, 1>>),
  barrier(DMA) >>

\* The linear layer `name` of layer li on the quantized activations
proj_items(name, li, k, n, a, out, t) ==
  linear_tiled(Matrix(name, li, k, n), k, n, a, out, A.WEIGHT_TILE, t)

rope_items(cfg, x) == sync_kernel(rope_program(
  [x |-> x, cos |-> A.COS, sin |-> A.SIN, out |-> x, rh |-> A.SCRATCH, t2 |-> A.SCRATCH + 256,
   pos_one |-> A.ONE, neg_one |-> A.NEG_ONE, d |-> cfg.rope_dim]))

\* K and V of one KV head, with a masked dummy second position
kv_head_items(cfg, kh) ==
  LET hd == cfg.head_dim
      dst_k == A.K_ROPE + kh * 2 * hd * 4
      dst_v == A.K_ROPE + 256 + kh * 2 * hd * 4
  IN  scale_copy(dst_k, A.CAT + (q_dim(cfg) + kh * hd) * 4, hd, A.ONE)
      \o rope_items(cfg, dst_k)
      \o quantize(dst_k, A.K_BF16 + kh * 2 * hd * 2, 2 * hd)
      \o scale_copy(dst_v, A.CAT + (q_dim(cfg) + kv_dim(cfg) + kh * hd) * 4, hd, A.ONE)
      \o quantize(dst_v, A.V_BF16 + kh * 2 * hd * 2, 2 * hd)

SoftmaxScratch == LET s == A.SCRATCH + 512 IN
  [scores |-> s, mask |-> A.MASK, probs |-> s + 16, ones |-> A.ONES2,
   neg_one |-> A.NEG_ONE, s |-> s + 32, mx |-> s + 48, negmx |-> s + 64,
   shift |-> s + 80, e |-> s + 96, sm |-> s + 112, rs |-> s + 128, length |-> 2]

q_head_items(cfg, qh) ==
  LET hd == cfg.head_dim
      kvh == qh \div (cfg.n_q_heads \div cfg.n_kv_heads)
      dst_q == A.Q_ROPE + qh * hd * 4
  IN  scale_copy(dst_q, A.CAT + qh * hd * 4, hd, A.ONE)
      \o rope_items(cfg, dst_q)
      \o quantize(dst_q, A.Q_BF16 + qh * hd * 2, hd)
      \o sync_kernel(attention_head_program(
           [q_bf16 |-> A.Q_BF16 + qh * hd * 2, k_bf16 |-> A.K_BF16 + kvh * 2 * hd * 2,
            v_bf16 |-> A.V_BF16 + kvh * 2 * hd * 2, probs_bf16 |-> A.SCRATCH + 656,
            ctx |-> A.MIX + qh * hd * 4, sm |-> SoftmaxScratch, d |-> hd, t |-> 2]))

attention_items(cfg, li, t) ==
  LET linear(name, n, out) == proj_items(name, li, cfg.d_model, n, A.A_BF16, out, t)
      kv_bytes == cfg.n_kv_heads * 2 * cfg.head_dim
  IN  linear("wq", q_dim(cfg), A.CAT)
      \o linear("wk", kv_dim(cfg), A.CAT + q_dim(cfg) * 4)
      \o linear("wv", kv_dim(cfg), A.CAT + (q_dim(cfg) + kv_dim(cfg)) * 4)
      \o linear("wgate", q_dim(cfg), A.GATE)
      \o sigmoid_inplace(A.GATE, q_dim(cfg))
      \o <<clear(V0(A.K_ROPE), kv_bytes * 4), clear(V0(A.K_ROPE + 256), kv_bytes * 4),
           clear(V0(A.K_BF16), kv_bytes * 2), clear(V0(A.V_BF16), kv_bytes * 2),
           barrier(ALL_LOCAL)>>
      \o Loop(cfg.n_kv_heads, LAMBDA kh : kv_head_items(cfg, kh))
      \o Loop(cfg.n_q_heads, LAMBDA qh : q_head_items(cfg, qh))
      \o fmul(A.MIX, A.MIX, A.GATE, q_dim(cfg))
      \o quantize(A.MIX, A.A_BF16, q_dim(cfg))
      \o proj_items("wo", li, q_dim(cfg), cfg.d_model, A.A_BF16, A.MIX, t)

\* One DeltaNet head from a zero state
dn_head_items(cfg, h) ==
  LET hd == cfg.dn_head_dim
      at(from) == A.CAT + (from + h * hd) * 4
      l2norm(x, out) == sync_kernel(l2norm_program(
        [x |-> x, out |-> out, ss |-> A.SCRATCH, rinv |-> A.SCRATCH + 16, n |-> hd]))
  IN  l2norm(at(0), A.Q_ROPE) \o l2norm(at(dn_qk(cfg)), A.K_ROPE)
      \o quantize(A.Q_ROPE, A.Q_BF16, hd) \o quantize(A.K_ROPE, A.K_BF16, hd)
      \o <<clear(V0(A.S), hd * hd * 4), barrier(ALL_LOCAL)>>
      \o sync_kernel(gated_deltanet_step_program(
           [s |-> A.S, s_bf16 |-> A.S_BF16, s2_bf16 |-> A.S2_BF16, qb |-> A.Q_BF16,
            kb |-> A.K_BF16, v |-> at(2 * dn_qk(cfg)), g |-> A.GATE + h * hd * 4,
            alpha |-> A.ALPHA + h * 4, neg_alpha |-> A.NEG_ONE, beta |-> A.BETA + h * 4,
            u |-> A.DN_U, au |-> A.DN_AU, vmt |-> A.DN_VMT, w |-> A.DN_W, wb |-> A.DN_WB,
            outer |-> A.DN_OUTER, o |-> A.DN_O, sg |-> A.DN_SG,
            out |-> A.MIX + h * hd * 4, d_v |-> hd, d_k |-> hd]))

deltanet_items(cfg, li, t) ==
  LET linear(name, n, out) == proj_items(name, li, cfg.d_model, n, A.A_BF16, out, t)
      channels == 2 * dn_qk(cfg) + dn_v(cfg)
  IN  linear("wq", dn_qk(cfg), A.CAT)
      \o linear("wk", dn_qk(cfg), A.CAT + dn_qk(cfg) * 4)
      \o linear("wv", dn_v(cfg), A.CAT + 2 * dn_qk(cfg) * 4)
      \o linear("wgate", dn_v(cfg), A.GATE)
      \o linear("walpha", cfg.dn_v_heads, A.ALPHA)
      \o linear("wbeta", cfg.dn_v_heads, A.BETA)
      \o sigmoid_inplace(A.ALPHA, cfg.dn_v_heads) \o sigmoid_inplace(A.BETA, cfg.dn_v_heads)
      \o load_f32(WeightVector("conv", li, channels), A.WEIGHT_TILE)
      \o fmul(A.CAT, A.CAT, A.WEIGHT_TILE, channels)
      \o fsilu(A.CAT, channels)
      \o sigmoid_inplace(A.GATE, dn_v(cfg))
      \o Loop(cfg.dn_v_heads, LAMBDA h : dn_head_items(cfg, h))
      \o quantize(A.MIX, A.A_BF16, dn_v(cfg))
      \o proj_items("wo", li, dn_v(cfg), cfg.d_model, A.A_BF16, A.MIX, t)

mlp_items(cfg, li, t) ==
  LET up == A.CAT + 1024   hidden == A.CAT + 2048   hidden_bf16 == A.CAT + 3072
  IN  proj_items("wg", li, cfg.d_model, cfg.d_ff, A.A_BF16, A.CAT, t)
      \o proj_items("wu", li, cfg.d_model, cfg.d_ff, A.A_BF16, up, t)
      \o fsilu(A.CAT, cfg.d_ff)
      \o fmul(hidden, A.CAT, up, cfg.d_ff)
      \o quantize(hidden, hidden_bf16, cfg.d_ff)
      \o proj_items("wd", li, cfg.d_ff, cfg.d_model, hidden_bf16, A.MLP, t)

token_layer(cfg, li, t) ==
  LET norm(name) ==
        rmsnorm_items(WeightVector(name, li, cfg.d_model), A.X, A.NORM, A.WEIGHT_TILE,
                      A.INV_H, A.EPS, 14848, cfg.d_model)
        \o quantize(A.NORM, A.A_BF16, cfg.d_model)
  IN  norm("norm1")
      \o (IF is_attention_layer(cfg, li) THEN attention_items(cfg, li, t)
          ELSE deltanet_items(cfg, li, t))
      \o add(A.X, A.X, A.MIX, cfg.d_model)
      \o norm("norm2") \o mlp_items(cfg, li, t)
      \o add(A.X, A.X, A.MLP, cfg.d_model)

tiny_full_token_items(cfg, token, t) ==
  token_init(cfg, token)
  \o Loop(cfg.n_layers, LAMBDA li : token_layer(cfg, li, t))
  \o rmsnorm_items(WeightVector("final_norm", 0, cfg.d_model), A.X, A.NORM, A.WEIGHT_TILE,
                   A.INV_H, A.EPS, 14848, cfg.d_model)
  \o quantize(A.NORM, A.A_BF16, cfg.d_model)
  \o linear_tiled(EmbeddingTransposed(cfg.d_model, cfg.vocab), cfg.d_model, cfg.vocab,
                  A.A_BF16, A.CAT, A.WEIGHT_TILE, t)
  \o <<Reserve(A.CAT, cfg.vocab), barrier(DMA), halt>>

-----------------------------------------------------------------------------
(* _build_0p8b_token_artifacts: the matmuls of a token on zero data, all on  *)
(* the same VMEM slots.  cfg is qwen35_0p8b in the code.                     *)

StreamA == 0   \* a_addr, b_addr, c_addr
StreamB == 8192
StreamC == 40960

\* linear: one row times a k x n matrix
stream_linear(k, n, t) ==
  LET tn == tiles(n, t)   tk == tiles(k, t) IN
  Concat([y \in DOMAIN tn |-> [x \in DOMAIN tk |->
    MM(StreamC, StreamA, StreamB, 1, tn[y].stop - tn[y].start, tk[x].stop - tk[x].start,
       IF tk[x].start # 0 THEN {"accumulate"} ELSE {})]])

deltanet_state_ops(cfg, t) ==
  LET op(n, k) == MM(0, StreamA, StreamB, t, n, k, {})
  IN  Loop(cfg.dn_v_heads, LAMBDA h : <<op(1, t), op(t, 1), op(1, t)>>)

stream_layer(cfg, li, t) ==
  LET linear(k, n) == stream_linear(k, n, t)   d == cfg.d_model IN
  linear(d, cfg.d_ff) \o linear(d, cfg.d_ff) \o linear(cfg.d_ff, d)
  \o (IF is_attention_layer(cfg, li)
      THEN linear(d, q_dim(cfg)) \o linear(d, kv_dim(cfg)) \o linear(d, kv_dim(cfg))
           \o linear(q_dim(cfg), d) \o linear(d, q_dim(cfg))
      ELSE linear(d, dn_qk(cfg)) \o linear(d, dn_qk(cfg)) \o linear(d, dn_v(cfg))
           \o linear(dn_v(cfg), d) \o linear(d, dn_v(cfg))
           \o deltanet_state_ops(cfg, t))

token_stream(cfg, t) ==
  <<dma_copy(V0(StreamA), H(0), cfg.d_model * 2), dma_copy(V0(StreamB), H(0), t * t * 2), barrier(DMA)>>
  \o Loop(cfg.n_layers, LAMBDA li : stream_layer(cfg, li, t)) \o stream_linear(cfg.d_model, cfg.vocab, t)
  \o <<barrier(MXU), dma_copy(H(65536), V0(StreamC), 4 * 4), barrier(DMA), halt>>

\* runtime.per_token_cost: the number of MATMULs a token takes
matmul_tile_count(m, n, k, t) == Ceil(m, t) * Ceil(n, t) * Ceil(k, t)
per_token_matmuls(cfg, t) ==
  LET lin(k, n) == matmul_tile_count(1, n, k, t)
      d == cfg.d_model   hd == cfg.dn_head_dim
      mixer(li) ==
        IF is_attention_layer(cfg, li)
        THEN 2 * lin(d, q_dim(cfg)) + 2 * lin(d, kv_dim(cfg)) + lin(q_dim(cfg), d)
        ELSE 2 * lin(d, dn_qk(cfg)) + 2 * lin(d, dn_v(cfg)) + lin(dn_v(cfg), d)
             + cfg.dn_v_heads * (2 * matmul_tile_count(hd, 1, hd, t) + matmul_tile_count(hd, hd, 1, t))
      upto[li \in 0 .. cfg.n_layers] ==
        IF li = 0 THEN 0
        ELSE upto[li - 1] + 2 * lin(d, cfg.d_ff) + lin(cfg.d_ff, d) + mixer(li - 1)
  IN  upto[cfg.n_layers] + lin(d, cfg.vocab)

-----------------------------------------------------------------------------
(* The workloads on real weights.  Their weights come from a checkpoint;    *)
(* here they are the tensors of layer 0.                                    *)

\* _build_0p8b_real_lm_head_artifacts: n selected logits of a hidden state
real_lm_head_items(hidden, n) ==
  LET a == 0   b == 8192   c == 32768   k == Len(hidden)
      weight == EmbeddingTransposed(k, n) IN
  <<Load(a, 2, hidden), Load(b, 2, weight), barrier(DMA), MM(c, a, b, 1, n, k, {}),
    barrier(MXU), Reserve(c, n), barrier(DMA), halt>>

\* _build_0p8b_real_mlp_artifacts: a slice of an MLP of mid columns
real_mlp_items(x, mid, out_dim, t) ==
  LET tile == 0   hidden == 0   xa == 32768   hidden_bf16 == 32768
      gate == 34816   out == 40960   up == 49152
      linear(name, k, n, a, dst) ==
        linear_tiled(Matrix(name, 0, k, n), k, n, a, dst, tile, t)
  IN  <<Load(xa, 2, x), barrier(DMA)>>
      \o linear("wg", Len(x), mid, xa, gate) \o linear("wu", Len(x), mid, xa, up)
      \o fsilu(gate, mid) \o fmul(hidden, gate, up, mid)
      \o quantize(hidden, hidden_bf16, mid)
      \o linear("wd", mid, out_dim, hidden_bf16, out)
      \o <<Reserve(out, out_dim), barrier(DMA), halt>>

\* The number of MATMULs that run.json gives: of tiles of 128, whatever t is
real_mlp_matmuls(k, mid, out_dim) ==
  2 * Ceil(k, 128) * Ceil(mid, 128) + Ceil(mid, 128) * Ceil(out_dim, 128)

\* build_qwen_infer_artifacts, workloads tiny and layer_slice: one SwiGLU
swiglu_workload(k, n) ==
  LET L == [x_bf16 |-> 0, wg_bf16 |-> 64, wu_bf16 |-> 256, wd_bf16 |-> 512, gate |-> 1024,
            up |-> 1280, h |-> 1536, h_bf16 |-> 1792, out |-> 2048, k |-> k, n |-> n]
      load(addr, count) == dma_copy(V0(addr), H(addr), count * 2)
  IN  <<load(L.x_bf16, k), load(L.wg_bf16, k * n), load(L.wu_bf16, k * n),
        load(L.wd_bf16, n * k), barrier(DMA)>>
      \o sync_kernel(swiglu_program(L))
      \o <<dma_copy(H(1024), V0(L.out), k * 4), barrier(DMA), halt>>
=============================================================================
