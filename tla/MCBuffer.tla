------------------------------ MODULE MCBuffer ------------------------------
(* Instances of Buffer for TLC. *)
EXTENDS Buffer, TLC

(* Buffers are interchangeable. *)
Symmetry == Permutations(Buffers)
=============================================================================
