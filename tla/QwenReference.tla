--------------------------- MODULE QwenReference ---------------------------
(***************************************************************************)
(* The reference decoder of src/virtual_tpu/qwen/runtime.py: forward_token  *)
(* on a model with its KV, convolution and DeltaNet-state caches, greedy    *)
(* generation, and the cost model.  Vectors are sequences, matrices are     *)
(* row-major sequences; layers, heads and positions count from 0 as in the  *)
(* code.                                                                    *)
(***************************************************************************)
EXTENDS Kernels

CONSTANTS
  Weight(_, _, _, _),   \* Weight(tensor, layer, row, column)
  RopeCos(_, _), RopeSin(_, _),  \* rope tables: position, index
  InvSqrt(_), OneOver(_),        \* 1/sqrt(n) and 1/n as numbers
  RmsEps,
  Stale                          \* what an np.empty buffer happens to hold

\* QwenConfig
is_attention_layer(cfg, i) == i % cfg.attn_every = cfg.attn_every - 1
q_dim(cfg)  == cfg.n_q_heads * cfg.head_dim
kv_dim(cfg) == cfg.n_kv_heads * cfg.head_dim
dn_qk(cfg)  == cfg.dn_qk_heads * cfg.dn_head_dim
dn_v(cfg)   == cfg.dn_v_heads * cfg.dn_head_dim

tiny == [n_layers |-> 4, d_model |-> 32, d_ff |-> 64, vocab |-> 48,
         n_q_heads |-> 4, n_kv_heads |-> 2, head_dim |-> 8, rope_dim |-> 4,
         dn_v_heads |-> 4, dn_qk_heads |-> 4, dn_head_dim |-> 8, conv_k |-> 3,
         attn_every |-> 4]

-----------------------------------------------------------------------------
(* Vectors                                                                  *)

Vec(n, f(_)) == Eager([i \in 1 .. n |-> f(i)])
Matrix(name, li, rows, cols) ==
  Vec(rows * cols, LAMBDA e : Weight(name, li, (e - 1) \div cols, (e - 1) % cols))
WeightVector(name, li, n) == Vec(n, LAMBDA i : Weight(name, li, 0, i - 1))
Slice(v, from, n) == SubSeq(v, from + 1, from + n)
Hadamard(u, v) == Vec(Len(u), LAMBDA i : Mul(u[i], v[i]))
Scaled(c, v)   == Vec(Len(v), LAMBDA i : Mul(c, v[i]))
Map1(f(_), v)  == Vec(Len(v), LAMBDA i : f(v[i]))
Dot(u, v) == Total([i \in 1 .. Len(u) |-> Mul(u[i], v[i])], Len(u))
\* x @ w for a vector x and a matrix w with n columns
Linear(x, w, n) == Product(x, w, 1, n, Len(x), FALSE)

rmsnorm(x, w) ==
  Hadamard(Scaled(Rsqrt(Add(Mul(Dot(x, x), OneOver(Len(x))), RmsEps)), x), w)

\* The first rope_dim elements are rotated in pairs, the rest are kept.
apply_rope(cfg, v, pos) ==
  LET d == cfg.rope_dim   half == d \div 2
      rot(i) == IF i <= half THEN Neg(v[i + half]) ELSE v[i - half]
  IN  Vec(Len(v), LAMBDA i :
        IF i > d THEN v[i]
        ELSE Add(Mul(v[i], RopeCos(pos, (i - 1) % half)), Mul(rot(i), RopeSin(pos, (i - 1) % half))))

softmax(s) ==
  LET mx == Chain(Larger, s, Len(s))
      e == Vec(Len(s), LAMBDA i : Exponential(Add(s[i], Neg(mx))))
  IN  Scaled(Recip(Total(e, Len(e))), e)

-----------------------------------------------------------------------------
(* Layers.  A cache holds, per layer, the buffers of max_seq keys and values *)
(* (sequences over time of sequences over KV heads, np.empty at first), the *)
(* convolution inputs (newest first) and the DeltaNet state of every head.  *)

Caches(cfg, max_seq) ==
  LET none(x) == [li \in 0 .. cfg.n_layers - 1 |-> x]
      empty == Vec(max_seq, LAMBDA t : Vec(cfg.n_kv_heads, LAMBDA h : Vec(cfg.head_dim, LAMBDA d : Stale)))
  IN  [k |-> none(empty), v |-> none(empty), conv |-> none(<<>>),
       state |-> none(Vec(cfg.dn_v_heads, LAMBDA h :
                        Vec(cfg.dn_head_dim * cfg.dn_head_dim, LAMBDA e : 0))),
       pos |-> 0]

Heads(v, n, hd) == Vec(n, LAMBDA h : Slice(v, (h - 1) * hd, hd))

\* _attention_layer, with the output and the cache
attention_layer(cfg, x, cache, li) ==
  LET hd == cfg.head_dim
      proj(name, n) == Linear(x, Matrix(name, li, cfg.d_model, n), n)
      q == proj("wq", q_dim(cfg))
      kh == Map1(LAMBDA h : apply_rope(cfg, h, cache.pos),
                 Heads(proj("wk", kv_dim(cfg)), cfg.n_kv_heads, hd))
      vh == Heads(proj("wv", kv_dim(cfg)), cfg.n_kv_heads, hd)
      at == cache.pos + 1
      ks == [cache.k[li] EXCEPT ![at] = kh]
      vs == [cache.v[li] EXCEPT ![at] = vh]
      group == cfg.n_q_heads \div cfg.n_kv_heads
      qh == Map1(LAMBDA h : Scaled(InvSqrt(hd), apply_rope(cfg, h, cache.pos)),
                 Heads(q, cfg.n_q_heads, hd))
      context(h) ==
        LET kv == (h - 1) \div group + 1
            p == softmax(Vec(at, LAMBDA t : Dot(ks[t][kv], qh[h])))
        IN  Vec(hd, LAMBDA d : Total([t \in 1 .. at |-> Mul(p[t], vs[t][kv][d])], at))
      out == Concat(Vec(cfg.n_q_heads, context))
      gate == Map1(Sigmoid, proj("wgate", q_dim(cfg)))
  IN  [out |-> Linear(Hadamard(out, gate), Matrix("wo", li, q_dim(cfg), cfg.d_model), cfg.d_model),
       cache |-> [cache EXCEPT !.k[li] = ks, !.v[li] = vs]]

\* Mutant: the newest input last
RecentLast(cat, old, n) == LET all == old \o <<cat>> IN SubSeq(all, 1, IF Len(all) > n THEN n ELSE Len(all))
\* hist.insert(0, cat); del hist[n:]
Recent(cat, old, n) == LET all == <<cat>> \o old IN SubSeq(all, 1, IF Len(all) > n THEN n ELSE Len(all))

\* lw.conv_w over the inputs of hist, and SiLU, per channel
convolved(hist, li) ==
  Vec(Len(hist[1]), LAMBDA c :
    Silu(Total([j \in 1 .. Len(hist) |-> Mul(Weight("conv", li, j - 1, c - 1), hist[j][c])], Len(hist))))

unit(v) == Scaled(Rsqrt(Dot(v, v)), v)

\* The delta rule of one head: state s, query q, key k, value v
delta_rule(s, q, k, v, alpha, beta) ==
  LET hd == Len(k)
      u == Product(s, k, hd, 1, hd, FALSE)
      w == Vec(hd, LAMBDA i : Mul(beta, Add(v[i], Neg(Mul(alpha, u[i])))))
      step(new) == [state |-> new, out |-> Product(new, q, hd, 1, hd, FALSE)]
  IN  step(Vec(hd * hd, LAMBDA e :
             Add(Mul(alpha, s[e]), Mul(w[(e - 1) \div hd + 1], k[((e - 1) % hd) + 1]))))

\* All heads, on the convolved [q|k|v]; several value heads share a key head.
delta_heads(cfg, x, act, states, li) ==
  LET hd == cfg.dn_head_dim
      shared(from, h) == Slice(act, from + ((h - 1) \div (cfg.dn_v_heads \div cfg.dn_qk_heads)) * hd, hd)
      rate(name) == Map1(Sigmoid, Linear(x, Matrix(name, li, cfg.d_model, cfg.dn_v_heads), cfg.dn_v_heads))
      alpha == rate("walpha")   beta == rate("wbeta")
  IN  Vec(cfg.dn_v_heads, LAMBDA h :
        delta_rule(states[h], unit(shared(0, h)), unit(shared(dn_qk(cfg), h)),
                   Slice(act, 2 * dn_qk(cfg) + (h - 1) * hd, hd), alpha[h], beta[h]))

\* _deltanet_layer; activation is the function of the output gate.
deltanet_layer(cfg, x, cache, li, activation) ==
  LET proj(name, n) == Linear(x, Matrix(name, li, cfg.d_model, n), n)
      gate == Map1(LAMBDA z : activation[z], proj("wgate", dn_v(cfg)))
      step(hist, heads) ==
        [out |-> Linear(Hadamard(Concat([h \in DOMAIN heads |-> heads[h].out]), gate),
                        Matrix("wo", li, dn_v(cfg), cfg.d_model), cfg.d_model),
         cache |-> [cache EXCEPT !.conv[li] = hist, !.state[li] = Map1(LAMBDA h : h.state, heads)]]
      convolve(hist) == step(hist, delta_heads(cfg, x, convolved(hist, li), cache.state[li], li))
  IN  convolve(Recent(proj("wq", dn_qk(cfg)) \o proj("wk", dn_qk(cfg)) \o proj("wv", dn_v(cfg)),
                      cache.conv[li], cfg.conv_k))

\* x + mlp, on the sum y of the residual stream and the mixer
mlp_block(cfg, y, li) ==
  LET h2 == rmsnorm(y, WeightVector("norm2", li, cfg.d_model))
      mlp(name) == Linear(h2, Matrix(name, li, cfg.d_model, cfg.d_ff), cfg.d_ff)
  IN  Plus(y, Linear(Hadamard(Map1(Silu, mlp("wg")), mlp("wu")),
                     Matrix("wd", li, cfg.d_ff, cfg.d_model), cfg.d_model))

\* One layer on the stream and the caches of the layers before
layer_step(cfg, stream, li, activation) ==
  LET mixer(h) == IF is_attention_layer(cfg, li) THEN attention_layer(cfg, h, stream.cache, li)
                  ELSE deltanet_layer(cfg, h, stream.cache, li, activation)
      step(mix) == [x |-> mlp_block(cfg, Plus(stream.x, mix.out), li), cache |-> mix.cache]
  IN  step(mixer(rmsnorm(stream.x, WeightVector("norm1", li, cfg.d_model))))

Embedding(cfg, token) == Vec(cfg.d_model, LAMBDA i : Weight("embed", 0, token, i - 1))

\* The tied language-model head on the last residual stream
lm_head(cfg, last) ==
  LET x == rmsnorm(last, WeightVector("final_norm", 0, cfg.d_model))
  IN  Vec(cfg.vocab, LAMBDA t : Dot(x, Embedding(cfg, t - 1)))

\* forward_token with the gate of the DeltaNet layers: logits and caches
forward_with(cfg, token, cache, activation) ==
  LET after[li \in 0 .. cfg.n_layers] ==
        IF li = 0 THEN [x |-> Embedding(cfg, token), cache |-> cache]
        ELSE layer_step(cfg, after[li - 1], li - 1, activation)
      finish(stream) == [logits |-> lm_head(cfg, stream.x), cache |-> stream.cache]
  IN  finish(after[cfg.n_layers])
forward_token(cfg, token, cache) == forward_with(cfg, token, cache, [z \in 0 .. P - 1 |-> Silu(z)])
=============================================================================
