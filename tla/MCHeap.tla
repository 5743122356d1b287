------------------------------- MODULE MCHeap -------------------------------
(* An instance of TimeoutHeap for TLC. *)
EXTENDS TimeoutHeap, TLC

ThreadSymmetry == Permutations(Threads)
=============================================================================
