---------------------------- MODULE MCMsgQueue ----------------------------
(* Instances of MsgQueue for TLC. *)
EXTENDS MsgQueue, TLC

(* Producers, consumers and messages are interchangeable. *)
Symmetry ==
  Permutations(Producers) \cup Permutations(Consumers) \cup Permutations(Msg)
=============================================================================
