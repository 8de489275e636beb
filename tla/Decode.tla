------------------------------- MODULE Decode -------------------------------
(***************************************************************************)
(* generate of src/virtual_tpu/qwen/runtime.py: greedy decoding with KV,    *)
(* convolution and DeltaNet-state caches of a fixed size, one forward_token *)
(* per step, and the same logits without any cache: every layer computed    *)
(* over the whole sequence.                                                 *)
(***************************************************************************)
EXTENDS QwenReference

CONSTANTS
  Config,      \* the QwenConfig
  Prompts,     \* prompts, sequences of tokens
  NewTokens    \* values of n_new

Num == 0 .. P - 1
Token == 0 .. Config.vocab - 1
Layers == 0 .. Config.n_layers - 1

\* The lengths a sequence can reach, and the positions of its tokens
Lengths == {Len(prompt) + n : prompt \in Prompts, n \in NewTokens}
Positions == UNION {0 .. length - 1 : length \in Lengths}

\* A tensor of rows x cols numbers
HasShape(name, li, rows, cols) ==
  \A r \in 0 .. rows - 1, c \in 0 .. cols - 1 : Weight(name, li, r, c) \in Num

\* What the reshapes and index computations of forward_token need of a QwenConfig
ConfigOK ==
  /\ \A f \in {"n_layers", "d_model", "d_ff", "vocab", "n_q_heads", "n_kv_heads", "head_dim", "rope_dim",
               "dn_v_heads", "dn_qk_heads", "dn_head_dim", "conv_k", "attn_every"} : Config[f] \in Nat \ {0}
  /\ Config.rope_dim % 2 = 0 /\ Config.rope_dim <= Config.head_dim
  /\ Config.n_q_heads % Config.n_kv_heads = 0 /\ Config.dn_v_heads % Config.dn_qk_heads = 0

\* LayerWeights, Model.random
WeightsOK ==
  /\ HasShape("embed", 0, Config.vocab, Config.d_model) /\ HasShape("final_norm", 0, 1, Config.d_model)
  /\ \A li \in Layers :
       LET in(name, cols)  == HasShape(name, li, Config.d_model, cols)
           out(name, rows) == HasShape(name, li, rows, Config.d_model)
       IN  /\ out("norm1", 1) /\ out("norm2", 1)
           /\ in("wg", Config.d_ff) /\ in("wu", Config.d_ff) /\ out("wd", Config.d_ff)
           /\ IF is_attention_layer(Config, li)
              THEN /\ in("wq", q_dim(Config)) /\ in("wk", kv_dim(Config)) /\ in("wv", kv_dim(Config))
                   /\ in("wgate", q_dim(Config)) /\ out("wo", q_dim(Config))
              ELSE /\ in("wq", dn_qk(Config)) /\ in("wk", dn_qk(Config)) /\ in("wv", dn_v(Config))
                   /\ in("wgate", dn_v(Config)) /\ out("wo", dn_v(Config))
                   /\ in("walpha", Config.dn_v_heads) /\ in("wbeta", Config.dn_v_heads)
                   /\ HasShape("conv", li, Config.conv_k, 2 * dn_qk(Config) + dn_v(Config))

\* The special functions and the numbers that are not weights
NumbersOK ==
  /\ \A x \in Num : Exp(x) \in Num /\ Recip(x) \in Num /\ Rsqrt(x) \in Num
  /\ \A pos \in Positions, i \in 0 .. Config.rope_dim \div 2 - 1 : RopeCos(pos, i) \in Num /\ RopeSin(pos, i) \in Num
  /\ InvSqrt(Config.head_dim) \in Num /\ OneOver(Config.d_model) \in Num /\ RmsEps \in Num

ASSUME DecodeAssumption ==
  /\ ConfigOK /\ WeightsOK /\ NumbersOK
  /\ NewTokens \subseteq Nat
  /\ Prompts \subseteq Seq(Token)

VARIABLES
  at,          \* "prefill", "decode" or "done"
  n_new, fed,  \* steps of the two loops still to do, tokens of the prompt fed
  out, logits, cache

vars == <<at, n_new, fed, out, logits, cache>>

\* np.argmax: the first index of the greatest; 0 of None, when the prompt is empty.
argmax(v) ==
  IF v = <<>> THEN 0
  ELSE (CHOOSE i \in 1 .. Len(v) :
          /\ \A j \in 1 .. Len(v) : Larger(v[i], v[j]) = v[i]
          /\ \A j \in 1 .. i - 1 : v[j] # v[i]) - 1

InitWith(prompt, n) ==
  /\ at = "prefill" /\ n_new = n /\ fed = 0
  /\ out = prompt /\ logits = <<>> /\ cache = Caches(Config, Len(prompt) + n)
Init == \E prompt \in Prompts, n \in NewTokens : InitWith(prompt, n)

\* cache.pos += 1
Advance(c) == [c EXCEPT !.pos = @ + 1]
Forward(token) ==
  LET f == forward_token(Config, token, cache)
  IN  logits' = f.logits /\ cache' = Advance(f.cache)

Prefill ==
  /\ at = "prefill" /\ fed < Len(out)
  /\ Forward(out[fed + 1]) /\ fed' = fed + 1
  /\ UNCHANGED <<at, n_new, out>>
Prefilled ==
  /\ at = "prefill" /\ fed = Len(out) /\ at' = "decode"
  /\ UNCHANGED <<n_new, fed, out, logits, cache>>
Generate ==
  /\ at = "decode" /\ n_new > 0
  /\ out' = Append(out, argmax(logits)) /\ Forward(argmax(logits))
  /\ n_new' = n_new - 1 /\ UNCHANGED <<at, fed>>
Return ==
  /\ at = "decode" /\ n_new = 0 /\ at' = "done"
  /\ UNCHANGED <<n_new, fed, out, logits, cache>>

Next == Prefill \/ Prefilled \/ Generate \/ Return
Spec == Init /\ [][Next]_vars

-----------------------------------------------------------------------------
(* Logits without caches: xs[t] is the residual stream of the token at      *)
(* position t - 1, and a layer maps all of them at once.                    *)

Project(x, name, li, n) == Linear(x, Matrix(name, li, Config.d_model, n), n)
RopeHeads(v, n, t) == Map1(LAMBDA h : apply_rope(Config, h, t - 1), Heads(v, n, Config.head_dim))

Keys(xs, li) == Vec(Len(xs), LAMBDA t :
  RopeHeads(Project(xs[t], "wk", li, kv_dim(Config)), Config.n_kv_heads, t))
Values(xs, li) == Vec(Len(xs), LAMBDA t :
  Heads(Project(xs[t], "wv", li, kv_dim(Config)), Config.n_kv_heads, Config.head_dim))
KvHead(h) == (h - 1) \div (Config.n_q_heads \div Config.n_kv_heads) + 1

\* Head h of the token at t - 1, on the keys and values of all up to it
Context(q, h, ks, vs, t) ==
  LET p == softmax(Vec(t, LAMBDA s : Dot(ks[s][KvHead(h)], Scaled(InvSqrt(Config.head_dim), q))))
  IN  Vec(Config.head_dim, LAMBDA d : Total([s \in 1 .. t |-> Mul(p[s], vs[s][KvHead(h)][d])], t))
AttentionMix(x, li, ks, vs, t) ==
  LET qs == RopeHeads(Project(x, "wq", li, q_dim(Config)), Config.n_q_heads, t)
      o == Concat(Vec(Config.n_q_heads, LAMBDA h : Context(qs[h], h, ks, vs, t)))
  IN  Linear(Hadamard(o, Map1(Sigmoid, Project(x, "wgate", li, q_dim(Config)))),
             Matrix("wo", li, q_dim(Config), Config.d_model), Config.d_model)
Attention(xs, li) ==
  LET ks == Keys(xs, li)   vs == Values(xs, li)
  IN  Vec(Len(xs), LAMBDA t : AttentionMix(xs[t], li, ks, vs, t))

\* The inputs of the convolution, which is causal: the last conv_k of them, as
\* far as there are any.
Inputs(x, li) == Project(x, "wq", li, dn_qk(Config)) \o Project(x, "wk", li, dn_qk(Config))
                   \o Project(x, "wv", li, dn_v(Config))
Window(t) == IF t < Config.conv_k THEN t ELSE Config.conv_k
Activated(cats, li, t) ==
  Vec(Len(cats[t]), LAMBDA c :
    Silu(Total([j \in 1 .. Window(t) |-> Mul(Weight("conv", li, j - 1, c - 1), cats[t - j + 1][c])],
               Window(t))))

Shared(act, from, h) ==
  Slice(act, from + ((h - 1) \div (Config.dn_v_heads \div Config.dn_qk_heads)) * Config.dn_head_dim,
        Config.dn_head_dim)
QueryOf(act, h) == unit(Shared(act, 0, h))
KeyOf(act, h)   == unit(Shared(act, dn_qk(Config), h))
ValueOf(act, h) == Slice(act, 2 * dn_qk(Config) + (h - 1) * Config.dn_head_dim, Config.dn_head_dim)
Rate(x, name, li, h) == Sigmoid(Project(x, name, li, Config.dn_v_heads)[h])

\* The delta rule: the state s is decayed, and its value under the key corrected
\* towards the new one.
Corrected(s, act, x, li, h) ==
  LET hd == Config.dn_head_dim
      decayed == Scaled(Rate(x, "walpha", li, h), s)
      error == Vec(hd, LAMBDA e :
                 Add(ValueOf(act, h)[e], Neg(Product(decayed, KeyOf(act, h), hd, 1, hd, FALSE)[e])))
  IN  Plus(decayed, Product(Scaled(Rate(x, "wbeta", li, h), error), KeyOf(act, h), hd, hd, 1, FALSE))
\* and unrolled, the states of head h after each token
States(xs, acts, li, h) ==
  LET s[t \in 0 .. Len(xs)] ==
        IF t = 0 THEN Vec(Config.dn_head_dim * Config.dn_head_dim, LAMBDA e : 0)
        ELSE Corrected(s[t - 1], acts[t], xs[t], li, h)
  IN  s
DeltaMix(x, act, states, li) ==
  LET hd == Config.dn_head_dim
      o == Concat(Vec(Config.dn_v_heads, LAMBDA h :
             Product(states[h], QueryOf(act, h), hd, 1, hd, FALSE)))
  IN  Linear(Hadamard(o, Map1(Silu, Project(x, "wgate", li, dn_v(Config)))),
             Matrix("wo", li, dn_v(Config), Config.d_model), Config.d_model)
DeltaNet(xs, li) ==
  LET cats == Map1(LAMBDA x : Inputs(x, li), xs)
      acts == Vec(Len(xs), LAMBDA t : Activated(cats, li, t))
  IN  Vec(Len(xs), LAMBDA t :
        DeltaMix(xs[t], acts[t], Vec(Config.dn_v_heads, LAMBDA h : States(xs, acts, li, h)[t]), li))

Feedforward(x, li) ==
  LET up(name) == Project(x, name, li, Config.d_ff)
  IN  Linear(Hadamard(Map1(Silu, up("wg")), up("wu")), Matrix("wd", li, Config.d_ff, Config.d_model),
             Config.d_model)

Normed(xs, name, li) == Map1(LAMBDA x : rmsnorm(x, WeightVector(name, li, Config.d_model)), xs)
Summed(xs, ys) == Vec(Len(xs), LAMBDA t : Plus(xs[t], ys[t]))
Mixed(xs, li) == IF is_attention_layer(Config, li) THEN Attention(xs, li) ELSE DeltaNet(xs, li)
FedForward(ys, li) == Summed(ys, Map1(LAMBDA x : Feedforward(x, li), Normed(ys, "norm2", li)))
Layer(xs, li) == FedForward(Summed(xs, Mixed(Normed(xs, "norm1", li), li)), li)

\* The residual streams after each layer
Streams(tokens) ==
  LET after[n \in 0 .. Config.n_layers] ==
        IF n = 0 THEN Map1(LAMBDA token : Embedding(Config, token), tokens) ELSE Layer(after[n - 1], n - 1)
  IN  after
Uncached(tokens) == lm_head(Config, Streams(tokens)[Config.n_layers][Len(tokens)])

-----------------------------------------------------------------------------
(* Properties                                                               *)

\* After every step of either loop the logits are those of the whole sequence so
\* far, computed without caches: keys rotated at their absolute position, no
\* position and no convolution input lost or kept too long, nothing read that
\* np.empty left in a buffer; and the next position of the buffers is within them
\* as long as a token is to come.
DecodeMatchesPrefill ==
  /\ cache.pos = (IF at = "prefill" THEN fed ELSE Len(out))
  /\ n_new > 0 \/ (at = "prefill" /\ fed < Len(out)) =>
       \A li \in 0 .. Config.n_layers - 1 : cache.pos + 1 \in DOMAIN cache.k[li]
  /\ cache.pos > 0 => logits = Uncached(SubSeq(out, 1, cache.pos))
=============================================================================
