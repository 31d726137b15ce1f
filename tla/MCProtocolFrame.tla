--------------------------- MODULE MCProtocolFrame ---------------------------
(* One caller of the page's protocol frame, over six frames that fail, hang or come late. *)
EXTENDS ProtocolFrame
==============================================================================
