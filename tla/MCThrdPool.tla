---------------------------- MODULE MCThrdPool ----------------------------
(* Instances of ThrdPool for TLC. *)
EXTENDS ThrdPool, TLC

(* Pool threads and tasks are interchangeable. *)
Symmetry == Permutations(Workers) \cup Permutations(Tasks)
=============================================================================
