------------------------------ MODULE MCSched -------------------------------
(* Instances of StSched for TLC. *)
EXTENDS SchedInv, TLC

CONSTANTS main, t1, t2

ThreadSymmetry == Permutations(Threads \ {Primordial})
=============================================================================
