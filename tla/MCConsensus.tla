------------------------------ MODULE MCConsensus ------------------------------
(* Small instances of Consensus for TLC. *)
EXTENDS Consensus, TLC

RequestSymmetry == Permutations(Request)
================================================================================
