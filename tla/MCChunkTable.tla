---------------------------- MODULE MCChunkTable ----------------------------
(* Instances of ChunkTable for TLC: the threads are interchangeable.       *)
EXTENDS ChunkTable, TLC

CONSTANTS t1, t2

MCThreads == {t1, t2}
MCSymmetry == Permutations(MCThreads)
=============================================================================
