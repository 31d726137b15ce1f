------------------------- MODULE MCWorkerLifecycle -------------------------
(* WorkerLifecycle for TLC, which checks liveness too: no symmetry. *)
EXTENDS WorkerLifecycle, TLC
============================================================================
