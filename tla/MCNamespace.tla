---------------------------- MODULE MCNamespace -----------------------------
(* Instances of Namespace for TLC.                                         *)
EXTENDS Namespace, TLC

CONSTANTS t1, t2, a, b

One == {t1}
Two == {t1, t2}
TwoNames == {a, b}
ThreadSymmetry == Permutations(Threads)
=============================================================================
