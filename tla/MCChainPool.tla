---------------------------- MODULE MCChainPool ----------------------------
(* ChainPool for TLC: chains and leases are interchangeable.  Entries are not a symmetry set, *)
(* since NewEntry chooses among them.                                                         *)
EXTENDS ChainPool, TLC

Symmetry == Permutations(Chains) \cup Permutations(Leases)
============================================================================
