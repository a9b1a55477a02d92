--------------------------- MODULE MCMemoryPool ---------------------------
(* An instance of MemoryPool: spans of four, two or one block, a class    *)
(* that is larger than a span, and a capacity beyond all classes.          *)
EXTENDS MemoryPool, TLC

MCBatchNum == [i \in Classes |-> IF i = 0 THEN 2 ELSE 1]

\* bound: after blocks may have been lost, one Block is in use at a time.
MCFewAfterShort == short => Cardinality(used) <= 1

MCSymmetry == Permutations(Threads)
=============================================================================
