------------------------------ MODULE MCPageCore ------------------------------
(* Two requests for one page's core, which serves one product and then another. *)
EXTENDS PageCore
=============================================================================
