---------------------------- MODULE MCProgramRun ----------------------------
(* The programs of the repository as jobs, with operands that are all       *)
(* different.                                                               *)
EXTENDS ProgramRun, MCQwenModel

-----------------------------------------------------------------------------

Data(seed, n) == Vec(n, LAMBDA i : (seed * 37 + i * 29 + i * i * 7 + 11) % P)
Memory(space, blocks) == [NoMemory EXCEPT ![space] = blocks]
Result(space, at, v) == [span |-> Span(space, at, Len(v), 4), v |-> v]
Plain(code, mem, results, edge) ==
  [code |-> code, mem |-> mem, results |-> results, edge |-> edge, bf16 |-> "arrays",
   matmuls |-> -1]

(* programs.py *)

Square(a, b, n) == Product(a, b, n, n, n, FALSE)
Single(program(_)) ==
  LET L == Matmul16Layout(16)   a == Data(1, 256)   b == Data(2, 256)
  IN  Plain(program(L), Memory(HBM, {Block(L.hbm_a, 1, a), Block(L.hbm_b, 1, b)}),
            {Result(HBM, L.hbm_c, Square(a, b, 16))}, 16)

SplitOutput ==
  LET L == SplitOutputMatmulLayout(16)   a == Data(1, 256)   b0 == Data(2, 256)   b1 == Data(3, 256)
  IN  Plain(split_output_two_tc_matmul_program(L),
            Memory(HBM, {Block(L.hbm_a, 1, a), Block(L.hbm_b0, 1, b0), Block(L.hbm_b1, 1, b1)}),
            {Result(HBM, L.hbm_c0, Square(a, b0, 16)), Result(HBM, L.hbm_c1, Square(a, b1, 16))}, 16)

\* Two by three by two tiles: the unpacked result is the product.
Tiled(program(_)) ==
  LET L == TiledMatmulLayout(8, 12, 8, 4)   a == Data(1, 64)   b == Data(2, 96)
  IN  Plain(program(L),
            Memory(HBM, {Block(L.hbm_a, 1, pack_tiles(a, L.m, L.k, 4)),
                         Block(L.hbm_b, 1, pack_tiles(b, L.k, L.n, 4))}),
            {Result(HBM, L.hbm_c, pack_tiles(Product(a, b, L.m, L.n, L.k, FALSE), L.m, L.n, 4))}, 4)

Whole(n) ==
  LET a == Data(1, 16384)   b == Data(2, 16384)
  IN  Plain(matmul_128_program(n), Memory(HBM, {Block(0, 1, a), Block(16384, 1, b)}),
            {Result(VMEM0, 32768, Square(a, b, n))}, n)

Split8 ==
  LET a == Data(1, 256)   b == Data(2, 256)
      part(v, p) == Slice(v, 64 * p, 64)
  IN  Plain(split_matmul_8_program(8), Memory(HBM, {Block(0, 1, a), Block(512, 1, b)}),
            {Result(HBM, 1024, Loop(4, LAMBDA p : Square(part(a, p), part(b, p), 8)))}, 16)

Mlp ==
  LET x == Data(1, 256)   w == Data(2, 256)   bias == Data(3, 256)
  IN  Plain(mlp_single_tile_program(16),
            Memory(HBM, {Block(0, 1, x), Block(256, 1, w), Block(512, 4, bias)}),
            {Result(HBM, 1536, Map1(LAMBDA y : Larger(y, 0), Plus(Square(x, w, 16), bias)))}, 16)

(* kernels.py, with the operands in VMEM0 as in tests/python *)

Kernel(program, blocks, results) ==
  Plain(sync_kernel(program) \o <<halt>>, Memory(VMEM0, blocks), results, 16)

Rmsnorm ==
  LET L == [x |-> 0, w |-> 256, y |-> 512, inv_h |-> 768, eps |-> 784, ss |-> 800, mean |-> 816,
            denom |-> 832, h |-> 16]
      x == Data(1, 16)   w == Data(2, 16)
  IN  Kernel(rmsnorm_program(L), {Block(L.x, 4, x), Block(L.w, 4, w),
               Block(L.inv_h, 4, <<OneOver(16)>>), Block(L.eps, 4, <<RmsEps>>)},
             {Result(VMEM0, L.y, rmsnorm(x, w))})

\* SoftmaxLayout of the tests; the last masked positions get no weight.
SoftmaxAt(s, n) ==
  [scores |-> s, mask |-> s + 256, probs |-> s + 512, ones |-> s + 768, neg_one |-> s + 1024,
   s |-> s + 1280, mx |-> s + 1536, negmx |-> s + 1552, shift |-> s + 1792, e |-> s + 2304,
   sm |-> s + 2560, rs |-> s + 2576, length |-> n]
SoftmaxConstants(L, masked) ==
  {Block(L.mask, 4, Vec(L.length, LAMBDA i : IF i > L.length - masked THEN NegInf ELSE 0)),
   Block(L.ones, 4, Vec(L.length, LAMBDA i : 1)), Block(L.neg_one, 4, <<Neg(1)>>)}
Softmax ==
  LET L == SoftmaxAt(0, 8)   scores == Data(4, 8)
  IN  Kernel(softmax_program(L), SoftmaxConstants(L, 3) \cup {Block(L.scores, 4, scores)},
             {Result(VMEM0, L.probs, softmax(SubSeq(scores, 1, 5)) \o <<0, 0, 0>>)})

Rope ==
  LET L == [x |-> 0, cos |-> 256, sin |-> 512, out |-> 768, rh |-> 1024, t2 |-> 1280,
            pos_one |-> 1536, neg_one |-> 1552, d |-> 16]
      x == Data(1, 16)   table(f(_, _)) == Vec(16, LAMBDA i : f(3, (i - 1) % 8))
  IN  Kernel(rope_program(L), {Block(L.x, 4, x), Block(L.cos, 4, table(RopeCos)),
               Block(L.sin, 4, table(RopeSin)), Block(L.pos_one, 4, <<1>>), Block(L.neg_one, 4, <<Neg(1)>>)},
             {Result(VMEM0, L.out, apply_rope([rope_dim |-> 16], x, 3))})

AttentionHead ==
  LET d == 4   t == 4
      L == [q_bf16 |-> 0, k_bf16 |-> 64, v_bf16 |-> 576, probs_bf16 |-> 1088, ctx |-> 1280,
            sm |-> SoftmaxAt(8192, t), d |-> d, t |-> t]
      q == Data(1, d)   k == Data(2, t * d)   v == Data(3, t * d)
      p == softmax(Vec(t, LAMBDA r : Dot(q, Slice(k, (r - 1) * d, d))))
  IN  Kernel(attention_head_program(L), SoftmaxConstants(L.sm, 0) \cup
               {Block(L.q_bf16, 2, q), Block(L.k_bf16, 2, k), Block(L.v_bf16, 2, v)},
             {Result(VMEM0, L.ctx, Linear(p, v, d))})

L2norm ==
  LET x == Data(1, 16)
  IN  Kernel(l2norm_program([x |-> 0, out |-> 256, ss |-> 512, rinv |-> 528, n |-> 16]),
             {Block(0, 4, x)}, {Result(VMEM0, 256, Scaled(Rsqrt(Dot(x, x)), x))})

Conv1d ==
  LET c == 8   k == 4
      L == [taps_x |-> [j \in 1 .. k |-> (j - 1) * 256], taps_w |-> [j \in 1 .. k |-> 2048 + (j - 1) * 256],
            acc |-> 4096, tmp |-> 4352, out |-> 4608, c |-> c]
      x(j) == Data(j, c)   w(j) == Data(10 + j, c)
  IN  Kernel(conv1d_causal_program(L),
             {Block(L.taps_x[j], 4, x(j)) : j \in 1 .. k} \cup {Block(L.taps_w[j], 4, w(j)) : j \in 1 .. k},
             {Result(VMEM0, L.out, Vec(c, LAMBDA i : Silu(Total([j \in 1 .. k |-> Mul(w(j)[i], x(j)[i])], k))))})

\* One step from a state that is not zero
DeltaNetStep ==
  LET d == 8
      L == [s |-> 0, s_bf16 |-> 1024, s2_bf16 |-> 1280, qb |-> 1536, kb |-> 1664, v |-> 1792,
            g |-> 2048, alpha |-> 2304, neg_alpha |-> 2320, beta |-> 2336, u |-> 2560, au |-> 2688,
            vmt |-> 2816, w |-> 2944, wb |-> 3072, outer |-> 4096, o |-> 5120, sg |-> 5248,
            out |-> 5376, d_v |-> d, d_k |-> d]
      s == Data(1, d * d)   q == Data(2, d)   k == Data(3, d)   v == Data(4, d)   g == Data(5, d)
      alpha == 17   beta == 23
      u == Product(s, k, d, 1, d, FALSE)
      w == Vec(d, LAMBDA i : Mul(beta, Add(v[i], Neg(Mul(alpha, u[i])))))
      new == Vec(d * d, LAMBDA e : Add(Mul(alpha, s[e]), Mul(w[(e - 1) \div d + 1], k[((e - 1) % d) + 1])))
  IN  Kernel(gated_deltanet_step_program(L),
             {Block(L.s, 4, s), Block(L.qb, 2, q), Block(L.kb, 2, k), Block(L.v, 4, v), Block(L.g, 4, g),
              Block(L.alpha, 4, <<alpha>>), Block(L.neg_alpha, 4, <<Neg(alpha)>>), Block(L.beta, 4, <<beta>>)},
             {Result(VMEM0, L.s, new),
              Result(VMEM0, L.out, Hadamard(Product(new, q, d, 1, d, FALSE), Map1(Silu, g)))})

(* rtl_artifacts.py *)

Mlp1(x, wg, wu, wd, n) ==
  Linear(Hadamard(Map1(Silu, Linear(x, wg, n)), Linear(x, wu, n)), wd, Len(wd) \div n)

Swiglu(k, n) ==
  LET x == Data(1, k)   wg == Data(2, k * n)   wu == Data(3, k * n)   wd == Data(4, n * k)
  IN  Plain(swiglu_workload(k, n),
            Memory(HBM, {Block(0, 2, x), Block(64, 2, wg), Block(256, 2, wu), Block(512, 2, wd)}),
            {Result(HBM, 1024, Mlp1(x, wg, wu, wd, n))}, 16)

\* A builder's items, its one output being the `output` of run.json
Built(items, v, bf16, edge, matmuls) ==
  LET b == Build(items)
  IN  [code |-> b.code, mem |-> Memory(HBM, b.image),
       results |-> {[span |-> o, v |-> v] : o \in b.outs}, edge |-> edge, bf16 |-> bf16,
       matmuls |-> matmuls]

\* The output gate as the program computes it: README, "Divergences".
GateOfProgram == [z \in 0 .. P - 1 |-> Silu(Sigmoid(z))]
GateOfReference == [z \in 0 .. P - 1 |-> Silu(z)]
TokenFrom(cfg, activation, tile, bf16) ==
  Built(tiny_full_token_items(cfg, 3, tile),
        forward_with(cfg, 3, Caches(cfg, 2), activation).logits, bf16, tile, -1)
TokenRun(tile, bf16) == TokenFrom(tiny, GateOfProgram, tile, bf16)

\* qwen35_0p8b with every dimension scaled down; a DeltaNet head is 4 wide.
Small == [n_layers |-> 4, d_model |-> 8, d_ff |-> 12, vocab |-> 10, n_q_heads |-> 2,
          n_kv_heads |-> 1, head_dim |-> 4, rope_dim |-> 2, dn_v_heads |-> 2, dn_qk_heads |-> 2,
          dn_head_dim |-> 4, conv_k |-> 3, attn_every |-> 4]
OneLayer == [Small EXCEPT !.n_layers = 1]
WideHead == [Small EXCEPT !.dn_head_dim = 8]
Stream(cfg, tile) ==
  [Plain(token_stream(cfg, tile), Memory(HBM, {Block(0, 2, Vec(64, LAMBDA i : 0))}),
         {Result(HBM, 65536, <<0, 0, 0, 0>>)}, tile)
   EXCEPT !.bf16 = "zero", !.matmuls = per_token_matmuls(cfg, tile)]

LmHead ==
  LET h == Data(1, 256)
  IN  Built(real_lm_head_items(h, 4),
            Vec(4, LAMBDA t : Dot(h, Vec(256, LAMBDA i : Weight("embed", 0, t - 1, i - 1)))), "fast", 128, -1)

RealMlp(k, mid, out_dim, tile, bf16) ==
  LET x == Data(1, k)   w(name, r, c) == Vec(r * c, LAMBDA e : Weight(name, 0, (e - 1) \div c, (e - 1) % c))
  IN  Built(real_mlp_items(x, mid, out_dim, tile),
            Mlp1(x, w("wg", k, mid), w("wu", k, mid), w("wd", mid, out_dim), mid), bf16, tile,
            real_mlp_matmuls(k, mid, out_dim))

MCJobOf(name) ==
  CASE name = "matmul_16"     -> Single(matmul_16_program)
    [] name = "cmem_staged"   -> Single(cmem_staged_matmul_16_program)
    [] name = "split_output"  -> SplitOutput
    [] name = "tiled"         -> Tiled(matmul_tiled_packed_program)
    [] name = "multi_mxu"     -> Tiled(multi_mxu_tiled_matmul_program)
    [] name = "matmul_128"    -> Whole(128)
    [] name = "split_8"       -> Split8
    [] name = "mlp"           -> Mlp
    [] name = "rmsnorm"       -> Rmsnorm
    [] name = "softmax"       -> Softmax
    [] name = "rope"          -> Rope
    [] name = "attention_head" -> AttentionHead
    [] name = "l2norm"        -> L2norm
    [] name = "conv1d"        -> Conv1d
    [] name = "deltanet_step" -> DeltaNetStep
    [] name = "tiny"          -> Swiglu(2, 4)
    [] name = "layer_slice"   -> Swiglu(4, 8)
    [] name = "token"         -> TokenRun(16, "arrays")
    [] name = "token_fast"    -> TokenRun(128, "fast")
    [] name = "token_expected" -> TokenFrom(OneLayer, GateOfReference, 16, "arrays")   \* expected.npz
    [] name = "stream"        -> Stream(Small, 4)
    [] name = "stream_wide"   -> Stream(Small, 8)
    [] name = "stream_narrow" -> Stream(WideHead, 4)  \* tiles narrower than a DeltaNet head
    [] name = "lm_head"       -> LmHead
    [] name = "real_mlp"      -> RealMlp(8, 1152, 4, 128, "fast")   \* the scratch buffers overlap
    [] name = "real_mlp_16"   -> RealMlp(24, 40, 20, 16, "arrays")  \* QWEN_MXU_DIM not set
Names == {"matmul_16", "cmem_staged", "split_output", "tiled", "multi_mxu", "matmul_128", "split_8",
          "mlp", "rmsnorm", "softmax", "rope", "attention_head", "l2norm", "conv1d", "deltanet_step",
          "tiny", "layer_slice", "token", "token_fast", "stream", "stream_narrow", "stream_wide", "lm_head",
          "real_mlp", "real_mlp_16"}
MCJobs == {MCJobOf(name) : name \in Names}
ProgramInit == \E j \in MCJobs : Start(j)
ProgramSpec == ProgramInit /\ [][RunNext]_runVars

\* The expected output of the token artifact, on one layer
ExpectedSpec == Start(MCJobOf("token_expected")) /\ [][RunNext]_runVars

\* run.json has the number of MATMULs wrong for an MLP slice on tiles other than
\* 128 and for a token stream on tiles narrower than a DeltaNet head.
Reported == {"real_mlp", "real_mlp_16", "stream", "stream_wide", "stream_narrow"}
Miscounted == {"real_mlp_16", "stream_narrow"}
ASSUME CountAssumption == {name \in Reported : ~Counted(MCJobOf(name))} = Miscounted
CountSpec == (\E name \in Miscounted : Start(MCJobOf(name))) /\ [][RunNext]_runVars
=============================================================================
