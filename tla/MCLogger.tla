----------------------------- MODULE MCLogger -----------------------------
(* Instances of Logger for TLC. *)
EXTENDS Logger, TLC

(* Threads and loggers are interchangeable. *)
Symmetry == Permutations(Producers) \cup Permutations(Loggers)
=============================================================================
