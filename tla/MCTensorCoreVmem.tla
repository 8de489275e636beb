------------------------- MODULE MCTensorCoreVmem -------------------------
(* TensorCoreVmem with two words in two banks: ports meet in a bank when  *)
(* they choose the same word, and are independent when they do not.       *)
EXTENDS TensorCoreVmem

\* The whole memory, one word, nothing, and one command for each reason to
\* reject: alignment of the address, of the length, and the end of memory.
MCClearCmds == {[dst |-> 0, len |-> 8], [dst |-> 0, len |-> 4], [dst |-> 8, len |-> 0],
                [dst |-> 2, len |-> 4], [dst |-> 0, len |-> 6], [dst |-> 4, len |-> 8]}
=============================================================================
