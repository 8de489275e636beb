--------------------------- MODULE MCChipProgram ---------------------------
(* ChipProgram on two TensorCores of two MXUs: all fenced programs of      *)
(* three words before HALT.                                                *)
EXTENDS ChipProgram

I(op, tcs, mxus, mask, space) ==
  [op |-> op, legal |-> TRUE, tcs |-> tcs, mxus |-> mxus, mask |-> mask, space |-> space]
O(src, dst, acc) == [src |-> src, dst |-> dst, accumulate |-> acc]

Hbm == <<2, 0>>
NoOperands == O(Hbm, Hbm, FALSE)
A == <<0, 0>>
B == <<0, 1>>

Word(i, o) == [instr |-> i, operands |-> o]

Halt == Word(I("HALT", {}, {}, {}, "HBM"), NoOperands)
Barriers == {Word(I("BARRIER", {}, {}, mask, "HBM"), NoOperands) : mask \in {{0}, {1}}}
Copies == {Word(I("DMA_COPY", {}, {}, {}, "HBM"), O(pair[1], pair[2], FALSE)) :
             pair \in {x \in {Hbm, A, <<1, 0>>} \X {Hbm, A, <<1, 0>>} : x[1] # x[2]}}
Products == {Word(I("MATMUL", {0}, {}, {}, "HBM"), O(A, B, TRUE)),
             Word(I("MATMUL", {0}, {1}, {}, "HBM"), O(A, B, FALSE)),
             Word(I("MATMUL", {0, 1}, {}, {}, "HBM"), O(A, B, FALSE))}
Others == {Word(I("VECTOR_OP", {0}, {}, {}, "HBM"), O(B, A, FALSE)),
           Word(I("REDUCE", {0, 1}, {}, {}, "HBM"), O(A, A, FALSE)),
           Word(I("CLEAR", {}, {}, {}, "VMEM0"), O(B, B, FALSE))}
MCWords == Barriers \cup Copies \cup Products \cup Others
MCInstr == {w.instr : w \in MCWords \cup {Halt}}

MCPrograms ==
  {[image    |-> [i \in 0 .. 3 |-> IF i = 3 THEN Halt.instr ELSE p[i].instr],
    operands |-> [i \in 0 .. 3 |-> IF i = 3 THEN Halt.operands ELSE p[i].operands]] :
     p \in [0 .. 2 -> MCWords]}
MCImages == {p.image : p \in MCPrograms}

MCCompute(op, x, y) ==
  10 * x + y + (CASE op = "MATMUL" -> 1 [] op = "VECTOR_OP" -> 2 [] op = "REDUCE" -> 3)
MCInitial == [c \in Cell |-> 10 * c[1] + 5 * c[2] + 4]

MCInit == ProgramInit /\ Fenced(program)
MCSpec == MCInit /\ [][ProgramNext]_progVars
=============================================================================
