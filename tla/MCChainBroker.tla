--------------------------- MODULE MCChainBroker ---------------------------
(* ChainBroker for TLC: sessions are interchangeable. *)
EXTENDS ChainBroker, TLC

Symmetry == Permutations(Sessions)
============================================================================
