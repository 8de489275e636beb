--------------------------- MODULE MCChipControl ---------------------------
(* ChipControl on two TensorCores of two MXUs and three-word programs.     *)
EXTENDS ChipControl

I(op, tcs, mxus, mask, space) ==
  [op |-> op, legal |-> TRUE, tcs |-> tcs, mxus |-> mxus, mask |-> mask, space |-> space]

Halt    == I("HALT", {}, {}, {}, "HBM")
Nop     == I("NOP", {}, {}, {}, "HBM")
Copy    == I("DMA_COPY", {}, {}, {}, "HBM")
Mm0     == I("MATMUL", {0}, {}, {}, "HBM")
Mm01    == I("MATMUL", {0, 1}, {0}, {}, "HBM")
Vector0 == I("VECTOR_OP", {0}, {}, {}, "HBM")
Reduce1 == I("REDUCE", {1}, {}, {}, "HBM")
Clear0  == I("CLEAR", {}, {}, {}, "VMEM0")
ClearC  == I("CLEAR", {}, {}, {}, "CMEM")
BarDma  == I("BARRIER", {}, {}, {0}, "HBM")
BarTc   == I("BARRIER", {}, {}, {1}, "HBM")
BarNone == I("BARRIER", {}, {}, {4}, "HBM")
Illegal == [Nop EXCEPT !.legal = FALSE]

MCInstr == {Halt, Nop, Copy, Mm0, Mm01, Vector0, Reduce1, Clear0, ClearC,
            BarDma, BarTc, BarNone, Illegal}

\* The last word is HALT and is never rewritten.
MCImages == {p \in [0 .. Depth - 1 -> MCInstr] : p[Depth - 1] = Halt}
=============================================================================
