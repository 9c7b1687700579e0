------------------------------ MODULE MCVolume ------------------------------
(* Instances of Volume for TLC.                                            *)
EXTENDS Volume, TLC

CONSTANTS p1, p2, base, new

Two == {p1, p2}
BothConfigs == {base, new}
ProcSymmetry == Permutations(Procs)
=============================================================================
