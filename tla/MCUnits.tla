------------------------------ MODULE MCUnits ------------------------------
(* Commands and memories for model-checking Units: a VMEM of six words of  *)
(* eight bits, an HBM of four words and two local memories of three.       *)
EXTENDS Units

\* Distinct words, positive and negative, whose bytes differ and whose sums overflow.
Pattern == [w \in Addr |-> Wrap(w * 89 + 27)]
Patterns == {Pattern}

\* Floating-point results that depend on the operation and on both operands,
\* in their order.
Mix(op, x, y) == Wrap(3 * x + 5 * y + op)
MixReduce(op, x, y) ==
  Wrap(3 * x + 5 * y + (CASE op = "MUL" -> 1 [] op = "ADD" -> 2 [] op = "MAX" -> 3))

-----------------------------------------------------------------------------
(* Vector commands                                                         *)

VCmd(op, s0, s1, d, n, imm) ==
  [op |-> op, src0 |-> s0, src1 |-> s1, dst |-> d, length |-> n, imm |-> imm]

\* One operation of every kind, on separate, identical and overlapping ranges.
Binary == {VCmd(op, s0, s1, 4, 2, 0) : op \in {VADD, FSCALE_BCAST}, s0 \in {0, 4}, s1 \in {0, 8}}
Unary  == {VCmd(op, 4, 0, d, 2, -3) : op \in {VSCALE, VCLAMP, 12}, d \in {0, 4}}
Quant  == {VCmd(FQUANT_BF16, 4, 0, d, n, 0) : d \in {0, 4, 20}, n \in {2}}
            \cup {VCmd(FQUANT_BF16, 0, 0, d, 4, 0) : d \in {0, 16}}
Others == {VCmd(op, 0, 8, 20, 1, 2) : op \in {VMUL, VRELU, VMAX, 6, 8}}
\* One command for each reason to reject, and a range that ends with the memory.
BadV == {VCmd(16, 0, 0, 0, 1, 0), VCmd(VADD, 0, 0, 0, 0, 0), VCmd(FQUANT_BF16, 0, 0, 0, 3, 0),
         VCmd(VADD, 2, 0, 0, 1, 0), VCmd(VADD, 0, 0, 2, 1, 0), VCmd(VADD, 0, 2, 0, 1, 0),
         VCmd(VRELU, 0, 2, 0, 1, 0), VCmd(VRELU, 16, 0, 0, 3, 0), VCmd(VRELU, 0, 0, 16, 3, 0),
         VCmd(VADD, 0, 16, 0, 3, 0), VCmd(FSCALE_BCAST, 0, 20, 0, 3, 0),
         VCmd(FQUANT_BF16, 12, 0, 0, 4, 0), VCmd(FQUANT_BF16, 0, 0, 20, 4, 0),
         VCmd(VRELU, 12, 0, 12, 3, 0)}
VectorCmds == Binary \cup Unary \cup Quant \cup Others \cup BadV

-----------------------------------------------------------------------------
(* Reductions                                                              *)

RCmd(op, s, d, n, columns) ==
  [op |-> op, src |-> s, dst |-> d, length |-> n, columns |-> columns]

\* Every operation on two rows of two apart from its result, some of them on
\* top of and overlapping it; one element, one row, one column; two rows of three.
Square == {RCmd(op, 0, 16, 4, 2) : op \in 0 .. 10}
            \cup {RCmd(op, 4, d, 4, 2) : op \in {2, 4, 8}, d \in {0, 4}}
            \cup {RCmd(4, 4, 8, 4, 2)}
Shapes == {RCmd(op, 0, 20, n, 1) : op \in {1, 8}, n \in {1, 3}}
            \cup {RCmd(op, 0, 0, 3, k) : op \in {2, 5, 9}, k \in {1, 3}}
            \cup {RCmd(op, 0, 0, 6, 3) : op \in {3, 4}}
\* One command for each reason to reject.
BadR == {RCmd(11, 0, 0, 1, 1), RCmd(0, 0, 0, 0, 1), RCmd(2, 0, 0, 4, 0), RCmd(4, 0, 0, 3, 2),
         RCmd(0, 2, 0, 1, 1), RCmd(0, 0, 2, 1, 1), RCmd(0, 12, 0, 4, 1), RCmd(1, 0, 24, 4, 1),
         RCmd(4, 0, 20, 4, 2), RCmd(9, 0, 20, 4, 2)}
Reductions == Square \cup Shapes \cup BadR

-----------------------------------------------------------------------------
(* MATMULs on a two-by-two array, with two-bit bytes                       *)

MCmd(shape, a, b, d, bf, acc, tr) ==
  [m |-> shape[1], n |-> shape[2], k |-> shape[3], a |-> a, b |-> b, dst |-> d,
   bf16 |-> bf, accumulate |-> acc, transpose |-> tr]

FullTile == <<2, 2, 2>>
\* Every combination of the flags; one operand at every lane; results on top of
\* an operand; the largest range that fits; every shape of at most two.
Flags  == {MCmd(FullTile, 0, 4, 8, bf, acc, tr) : bf, acc, tr \in BOOLEAN}
Aligned == {MCmd(<<1, 2, 2>>, a, 9 - a, 16, FALSE, TRUE, FALSE) : a \in {1, 2, 3}}
            \cup {MCmd(<<1, 1, 2>>, 2, 10, 20, TRUE, FALSE, FALSE)}
Onto   == {MCmd(FullTile, 8, 12, 8, FALSE, acc, FALSE) : acc \in BOOLEAN}
TileShapes == {MCmd(<<m, n, k>>, 3, 7, 8, FALSE, TRUE, TRUE) : m, n, k \in 1 .. 2}
\* One command for each reason to reject.
BadM == {MCmd(<<0, 1, 1>>, 0, 0, 0, FALSE, FALSE, FALSE), MCmd(<<1, 1, 3>>, 0, 0, 0, FALSE, FALSE, FALSE),
        MCmd(FullTile, 22, 0, 0, FALSE, FALSE, FALSE), MCmd(FullTile, 0, 21, 0, FALSE, FALSE, FALSE),
        MCmd(FullTile, 18, 0, 0, TRUE, FALSE, FALSE), MCmd(FullTile, 0, 0, 12, FALSE, FALSE, FALSE),
        MCmd(FullTile, 0, 0, 2, FALSE, FALSE, FALSE), MCmd(FullTile, 1, 0, 8, TRUE, FALSE, FALSE)}
Matmuls22 == Flags \cup Aligned \cup Onto \cup TileShapes \cup BadM

-----------------------------------------------------------------------------
(* DMA commands on an HBM of four words and two local memories of three    *)

Spaces == {"HBM", "CMEM", "VMEM0"}
Sizes == [s \in Spaces |-> IF s = "HBM" THEN 16 ELSE 12]

\* Every word starts with a value of its own.
Distinct == [s \in Spaces |-> [a \in 0 .. (Sizes[s] \div 4) - 1 |-> <<s, a>>]]
Labels == UNION {{<<s, a>> : a \in 0 .. (Sizes[s] \div 4) - 1} : s \in Spaces}

Transfer(s, d, f, t, n) == [src |-> s, dst |-> d, from |-> f, to |-> t, len |-> n]

\* Every pair of spaces, overlapping and disjoint ranges, zero length, and
\* one command for each reason to reject: space, alignment, end of memory,
\* and a sum that wraps around the address width.
Copies == {Transfer(s, d, f, t, 8) : s \in Spaces, d \in Spaces, f \in {0, 4}, t \in {0, 4}}
BadD == {Transfer("INFEED", "HBM", 0, 0, 4), Transfer("HBM", "CMEM", 2, 0, 4),
            Transfer("HBM", "CMEM", 0, 0, 6), Transfer("HBM", "CMEM", 8, 8, 8),
            Transfer("HBM", "HBM", 64 - 4, 0, 8), Transfer("CMEM", "HBM", 0, 64 - 4, 4)}
Transfers == Copies \cup BadD \cup {Transfer("HBM", "VMEM0", 4, 0, 0)}
None == <<"none", 0>>
=============================================================================
