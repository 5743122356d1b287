------------------------------ MODULE MCStream ------------------------------
(* Instances of StreamIo for TLC. *)
EXTENDS StreamIo

WithEmpty == UNION {[1..n -> 0..2] : n \in 0..3}
=============================================================================
