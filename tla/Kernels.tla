------------------------------ MODULE Kernels ------------------------------
(***************************************************************************)
(* The transformer kernels of src/virtual_tpu/qwen/kernels.py: instruction  *)
(* sequences on buffers of one VMEM.  L is the layout record of the code.   *)
(***************************************************************************)
EXTENDS Programs

F32 == 4

\* _v and _r with target = 0x10
V(dst, s0, length, op)      == vector_op(dst, s0, 0, length, op, TC0, 0)
V2(dst, s0, length, op, s1) == vector_op(dst, s0, s1, length, op, TC0, 0)
R(dst, src, length, op)     == reduce_op(dst, src, length, op, TC0, 0)
MM(dst, a, b, m, n, k, opts) == matmul(dst, a, b, m, n, k, TC0, {"bf16"} \cup opts)

\* y = x * rsqrt(mean(x^2) + eps) * w
rmsnorm_program(L) == <<
  R(L.ss, L.x, L.h, FSUMSQ_ALL),
  V2(L.mean, L.ss, 1, FMUL, L.inv_h),
  V2(L.mean, L.mean, 1, FADD, L.eps),
  V(L.denom, L.mean, 1, FRSQRT),
  V2(L.y, L.x, L.h, FSCALE_BCAST, L.denom),
  V2(L.y, L.y, L.h, FMUL, L.w) >>

\* softmax of scores + mask
softmax_program(L) == <<
  V2(L.s, L.scores, L.length, FADD, L.mask),
  R(L.mx, L.s, L.length, FMAX_ALL),
  V2(L.negmx, L.mx, 1, FMUL, L.neg_one),
  V2(L.shift, L.ones, L.length, FSCALE_BCAST, L.negmx),
  V2(L.s, L.s, L.length, FADD, L.shift),
  V(L.e, L.s, L.length, FEXP),
  R(L.sm, L.e, L.length, FSUM_ALL),
  V(L.rs, L.sm, 1, FRECIP),
  V2(L.probs, L.e, L.length, FSCALE_BCAST, L.rs) >>

\* out = x * cos + rotate_half(x) * sin
rope_program(L) ==
  LET half == L.d \div 2 IN <<
  V2(L.rh, L.x + half * F32, half, FSCALE_BCAST, L.neg_one),
  V2(L.rh + half * F32, L.x, half, FSCALE_BCAST, L.pos_one),
  V2(L.out, L.x, L.d, FMUL, L.cos),
  V2(L.t2, L.rh, L.d, FMUL, L.sin),
  V2(L.out, L.out, L.d, FADD, L.t2) >>

\* out = (silu(x @ Wg) * (x @ Wu)) @ Wd
swiglu_program(L) == <<
  MM(L.gate, L.x_bf16, L.wg_bf16, 1, L.n, L.k, {}),
  MM(L.up, L.x_bf16, L.wu_bf16, 1, L.n, L.k, {}),
  V(L.gate, L.gate, L.n, FSILU),
  V2(L.h, L.gate, L.n, FMUL, L.up),
  V(L.h_bf16, L.h, L.n, FQUANT_BF16),
  MM(L.out, L.h_bf16, L.wd_bf16, 1, L.k, L.n, {}) >>

\* scores = q @ K^T; p = softmax(scores); ctx = p @ V
attention_head_program(L) ==
  <<MM(L.sm.scores, L.q_bf16, L.k_bf16, 1, L.t, L.d, {"transpose_b"})>>
  \o softmax_program(L.sm)
  \o <<V(L.probs_bf16, L.sm.probs, L.t, FQUANT_BF16),
       MM(L.ctx, L.probs_bf16, L.v_bf16, 1, L.d, L.t, {})>>

\* out = x / ||x||
l2norm_program(L) == <<
  R(L.ss, L.x, L.n, FSUMSQ_ALL),
  V(L.rinv, L.ss, 1, FRSQRT),
  V2(L.out, L.x, L.n, FSCALE_BCAST, L.rinv) >>

\* out = silu(sum of taps_w[j] * taps_x[j]), newest tap first
conv1d_causal_program(L) ==
  <<V2(L.acc, L.taps_w[1], L.c, FMUL, L.taps_x[1])>>
  \o Loop(Len(L.taps_x) - 1, LAMBDA j :
       <<V2(L.tmp, L.taps_w[j + 2], L.c, FMUL, L.taps_x[j + 2]),
         V2(L.acc, L.acc, L.c, FADD, L.tmp)>>)
  \o <<V(L.out, L.acc, L.c, FSILU)>>

\* S' = alpha S + beta (v - alpha S k) (x) k; out = (S' q) * silu(g)
gated_deltanet_step_program(L) ==
  LET dvdk == L.d_v * L.d_k IN <<
  V(L.s_bf16, L.s, dvdk, FQUANT_BF16),
  MM(L.u, L.s_bf16, L.kb, L.d_v, 1, L.d_k, {}),
  V2(L.au, L.u, L.d_v, FSCALE_BCAST, L.neg_alpha),
  V2(L.vmt, L.v, L.d_v, FADD, L.au),
  V2(L.w, L.vmt, L.d_v, FSCALE_BCAST, L.beta),
  V(L.wb, L.w, L.d_v, FQUANT_BF16),
  MM(L.outer, L.wb, L.kb, L.d_v, L.d_k, 1, {}),
  V2(L.s, L.s, dvdk, FSCALE_BCAST, L.alpha),
  V2(L.s, L.s, dvdk, FADD, L.outer),
  V(L.s2_bf16, L.s, dvdk, FQUANT_BF16),
  MM(L.o, L.s2_bf16, L.qb, L.d_v, 1, L.d_k, {}),
  V(L.sg, L.g, L.d_v, FSILU),
  V2(L.out, L.o, L.d_v, FMUL, L.sg) >>
=============================================================================
