---------------------------- MODULE MCChainLanes ----------------------------
(* ChainLanes for TLC: consumers are interchangeable. *)
EXTENDS ChainLanes, TLC

Symmetry == Permutations(Consumers)
=============================================================================
