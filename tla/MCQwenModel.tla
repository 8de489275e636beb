---------------------------- MODULE MCQwenModel ----------------------------
(* A model without structure: weights that are all different, and special   *)
(* functions with no property but the ones the programs rely on, exp(0) = 1 *)
(* and 1/1 = 1.                                                             *)
EXTENDS QwenReference

MCExp(x)   == IF x = 0 THEN 1 ELSE (x * x * 3 + 7 * x + 5) % P
MCRecip(x) == IF x = 1 THEN 1 ELSE (x * x + 13 * x + 8) % P
MCRsqrt(x) == (x * x * 5 + 3) % P

Tensors == <<"wq", "wk", "wv", "wo", "wgate", "walpha", "wbeta", "wg", "wu", "wd",
             "norm1", "norm2", "final_norm", "embed", "conv">>
MCWeight(t, l, r, c) ==
  LET n == CHOOSE n \in DOMAIN Tensors : Tensors[n] = t
  IN  (n * 37 + l * 101 + r * 29 + c * 61 + r * c * 7 + r * r * 3 + 11) % P
\* At position 0 the rotation is the identity.
MCRopeCos(pos, i) == IF pos = 0 THEN 1 ELSE (pos * 7 + i * 5) % P
MCRopeSin(pos, i) == IF pos = 0 THEN 0 ELSE (pos * 11 + i * 3) % P
MCInvSqrt(n) == 77
MCOneOver(n) == 91
=============================================================================
