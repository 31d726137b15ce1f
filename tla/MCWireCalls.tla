---------------------------- MODULE MCWireCalls ----------------------------
(* A request and a subscription over the two links.  The page offers again until it is answered,  *)
(* and the frame once, since its port delivers every message (connectSharedWorker.ts).            *)
EXTENDS WireCalls

Offers == [o \in Openers |-> IF o = "page" THEN 2 ELSE 1]
=============================================================================
