---------------------------- MODULE ChainLeases ----------------------------
(***************************************************************************)
(* What a chain pool promises its consumers, whatever its entries, timers,  *)
(* pauses and callbacks: a chain is up while anyone holds it, it goes down  *)
(* under its holders only by a halt, and every holder is then owed the news *)
(* before it is forgotten.                                                  *)
(***************************************************************************)
CONSTANTS Chains, Leases

VARIABLES up,       \* whether each chain is in the pool
          holders,  \* the leases held on each chain
          taken,    \* the leases in consumers' hands, whatever became of their chains
          owed,     \* the leases whose chain halted and that have not heard it yet
          unloaded  \* the leases whose chain went with the whole pool

vars == <<up, holders, taken, owed, unloaded>>

TypeOK ==
  /\ up \in [Chains -> BOOLEAN]
  /\ holders \in [Chains -> SUBSET Leases]
  /\ taken \subseteq Leases /\ owed \subseteq Leases /\ unloaded \subseteq Leases

Init ==
  /\ up = [c \in Chains |-> FALSE]
  /\ holders = [c \in Chains |-> {}]
  /\ taken = {} /\ owed = {} /\ unloaded = {}

\* A provider is asked for, or a connection fails, with the chain opened for it.
Open(c) ==
  /\ ~up[c]
  /\ up' = [up EXCEPT ![c] = TRUE]
  /\ UNCHANGED <<holders, taken, owed, unloaded>>

Take(c, l) ==
  /\ l \notin taken \cup owed
  /\ up' = [up EXCEPT ![c] = TRUE]
  /\ holders' = [holders EXCEPT ![c] = @ \cup {l}]
  /\ taken' = taken \cup {l}
  /\ unloaded' = unloaded \ {l}
  /\ UNCHANGED owed

\* The last lease may take its chain down with it.
Give(c, l) ==
  /\ l \in holders[c]
  /\ holders' = [holders EXCEPT ![c] = @ \ {l}]
  /\ taken' = taken \ {l}
  /\ \/ UNCHANGED up
     \/ holders[c] = {l} /\ up' = [up EXCEPT ![c] = FALSE]
  /\ UNCHANGED <<owed, unloaded>>

\* A lease whose chain is gone goes back too, and nothing else changes.
Forget(l) ==
  /\ l \in taken /\ \A c \in Chains : l \notin holders[c]
  /\ taken' = taken \ {l}
  /\ UNCHANGED <<up, holders, owed, unloaded>>

\* A chain closes quietly only when nobody holds it.
Close(c) ==
  /\ up[c] /\ holders[c] = {}
  /\ up' = [up EXCEPT ![c] = FALSE]
  /\ UNCHANGED <<holders, taken, owed, unloaded>>

\* A halt takes the chain from its holders, and each of them except one that is leaving is
\* owed the news.
Halt(c, leaving) ==
  /\ up[c]
  /\ up' = [up EXCEPT ![c] = FALSE]
  /\ holders' = [holders EXCEPT ![c] = {}]
  /\ taken' = taken \ leaving
  /\ owed' = owed \cup (holders[c] \ leaving)
  /\ UNCHANGED unloaded

Tell(l) ==
  /\ l \in owed
  /\ owed' = owed \ {l}
  /\ UNCHANGED <<up, holders, taken, unloaded>>

\* Everything goes away at once, with whoever would hear of it.
Unload ==
  /\ up' = [c \in Chains |-> FALSE]
  /\ holders' = [c \in Chains |-> {}]
  /\ unloaded' = unloaded \cup UNION {holders[c] : c \in Chains}
  /\ UNCHANGED <<taken, owed>>

Next ==
  \/ \E c \in Chains : \/ Open(c) \/ Close(c)
                       \/ \E l \in Leases : Take(c, l) \/ Give(c, l)
                       \/ Halt(c, {}) \/ \E l \in holders[c] : Halt(c, {l})
  \/ \E l \in Leases : Tell(l) \/ Forget(l)
  \/ Unload

Spec == Init /\ [][Next]_vars
============================================================================
