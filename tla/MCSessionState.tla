--------------------------- MODULE MCSessionState ---------------------------
(* One page and one core, and two sessions, which are interchangeable, that other tabs and the core store and drop. *)
EXTENDS SessionState, TLC
Symmetry == Permutations(Sessions)
=============================================================================
