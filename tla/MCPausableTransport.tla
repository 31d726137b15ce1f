------------------------ MODULE MCPausableTransport ------------------------
(* PausableTransport for TLC. *)
EXTENDS PausableTransport
============================================================================
