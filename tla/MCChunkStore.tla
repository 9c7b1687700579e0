---------------------------- MODULE MCChunkStore ----------------------------
(* Instances of ChunkStore for TLC.                                        *)
EXTENDS ChunkStore, TLC

CONSTANTS t1, t2, t3

One == {t1}
Two == {t1, t2}
Three == {t1, t2, t3}

\* No step distinguishes the threads.
ThreadSymmetry == Permutations(Threads)
=============================================================================
