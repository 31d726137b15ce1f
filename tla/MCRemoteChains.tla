--------------------------- MODULE MCRemoteChains ---------------------------
(* Two connections of a page's pool to the chains of a frame whose budget takes one at a time. *)
EXTENDS RemoteChains
=============================================================================
