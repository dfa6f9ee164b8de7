--------------------------- MODULE MCMpmcConduit ---------------------------
(* MpmcConduit for TLC: threads of one role are interchangeable. *)
EXTENDS MpmcConduit, TLC

ThreadSymmetry == Permutations(Producer) \cup Permutations(Consumer)
=============================================================================
