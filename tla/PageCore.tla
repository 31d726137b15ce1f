------------------------------- MODULE PageCore -------------------------------
(***************************************************************************)
(* The page's one refcounted core (createPageCore.ts).  A request leases    *)
(* the core that serves the page's product, dialing one when none does.  A  *)
(* core lingers after its last lease, and one that goes down is never       *)
(* handed out again: while the page holds it, its replacement is redialed.  *)
(*                                                                          *)
(* A boot is in flight until it ends, also after its core was disposed.     *)
(* Redials boot one at a time and are tried again (createAsyncTaskPool.ts). *)
(* A settled boot, the leases that waited for it and what a disposal drops  *)
(* are one step, as they run in one turn.                                   *)
(*                                                                          *)
(* External: the boot of a runtime, and what takes a core down: a refused   *)
(* or closed connection, or a wallet found after a pairing core booted.     *)
(*                                                                          *)
(* PageInit, PageNext and PageSpec are named so because                     *)
(* LanesLifecycleProofs extends this module together with ChainLanes.       *)
(***************************************************************************)
EXTENDS Naturals, FiniteSets

CONSTANTS Leases, Products, Nil,
          Retries,   \* how often a failed redial is tried again
          MaxDials,  \* bound on the cores dialed
          MaxChanges \* bound on the times the page names another product

Ids == 1 .. MaxDials

ASSUME CoreAssumption ==
  /\ {Retries, MaxDials, MaxChanges} \subseteq Nat /\ Nil \notin Ids /\ Nil \notin Leases

VARIABLES product, \* what the page serves
          current, \* the page's core
          core,    \* the cores by the order they were dialed in
          lease,   \* what each request is at, on which core, and whether it heard that core go down
          runs,    \* what became of each core's runtime
          changes

pageVars == <<product, current, core, lease, runs, changes>>

NoCore == [st |-> "none", product |-> Nil, holders |-> {}, faulted |-> FALSE, boot |-> "none", redial |-> FALSE,
           retry |-> 0, lingers |-> FALSE]
NoLease == [at |-> "none", of |-> Nil, down |-> FALSE]

CoreType ==
  [st : {"none", "live", "gone"}, product : Products \cup {Nil}, holders : SUBSET Leases, faulted : BOOLEAN,
   boot : {"none", "waiting", "booting", "up", "failed", "dropped"}, redial : BOOLEAN, retry : 0 .. Retries,
   lingers : BOOLEAN]

LeaseType == [at : {"none", "waiting", "held"}, of : Ids \cup {Nil}, down : BOOLEAN]

PageTypeOK ==
  /\ product \in Products /\ current \in Ids \cup {Nil} /\ changes \in 0 .. MaxChanges
  /\ core \in [Ids -> CoreType] /\ lease \in [Leases -> LeaseType]
  /\ runs \in [Ids -> {"none", "up", "disposed", "twice"}]

PageInit ==
  /\ product \in Products /\ current = Nil /\ changes = 0
  /\ core = [i \in Ids |-> NoCore] /\ lease = [l \in Leases |-> NoLease] /\ runs = [i \in Ids |-> "none"]

Live(i) == core[i].st = "live"

\* The core in service for the page's product (getServingCore).
Serves(i) == i = current /\ ~core[i].faulted /\ core[i].product = product

\* Mutant of SlotIsFree: a redial that was dropped keeps its slot until its boot ends.
SlotIsFree_late(cs) == \A i \in Ids : ~(cs[i].redial /\ cs[i].boot = "booting")

\* A redial may boot: one at a time, and one that was dropped freed its slot.
SlotIsFree(cs) == \A i \in Ids : ~(cs[i].redial /\ cs[i].boot = "booting" /\ cs[i].st = "live")

(***************************************************************************)
(* Disposing and dialing                                                    *)
(***************************************************************************)
\* The core leaves the page. A boot in flight goes on, a redial that waits does not.
Dispose(cs, i) ==
  [cs EXCEPT ![i].st = "gone", ![i].lingers = FALSE, ![i].boot = IF @ = "waiting" THEN "dropped" ELSE @]

Ended(r) == IF r = "none" THEN "none" ELSE IF r = "up" THEN "disposed" ELSE "twice"

\* The cores are cs from here on. Those that left take their runtime with them.
Become(cs) ==
  /\ core' = cs
  /\ runs' = [i \in Ids |-> IF Live(i) /\ cs[i].st = "gone" THEN Ended(runs[i]) ELSE runs[i]]

\* A core is dialed for the page's product, with those holders. The one before goes when nobody holds it.
Dial(cs, holders, redial) ==
  \E j \in Ids :
    /\ cs[j].st = "none" /\ \A i \in Ids : i < j => cs[i].st # "none"
    /\ LET dialed == [cs EXCEPT ![j] = [NoCore EXCEPT !.st = "live", !.product = product, !.holders = holders,
                                          !.redial = redial,
                                          !.boot = IF redial /\ ~SlotIsFree(cs) THEN "waiting" ELSE "booting"]]
       IN Become(IF current # Nil /\ cs[current].holders = {} THEN Dispose(dialed, current) ELSE dialed)
    /\ current' = j
    /\ lease' = [l \in Leases |-> IF l \in holders THEN [at |-> "waiting", of |-> j, down |-> FALSE]
                                  ELSE [lease[l] EXCEPT !.down = @ \/ (redial /\ lease[l].of = current)]]

(***************************************************************************)
(* Leases                                                                   *)
(***************************************************************************)
\* A request leases the core that serves, or dials one (acquire).
Acquire(l) ==
  /\ lease[l] = NoLease /\ UNCHANGED <<product, changes>>
  /\ \/ \E i \in Ids :
          /\ Serves(i) /\ Become([core EXCEPT ![i].holders = @ \cup {l}, ![i].lingers = FALSE]) /\ UNCHANGED current
          /\ lease' = [lease EXCEPT ![l] = [at |-> IF core[i].boot = "up" THEN "held" ELSE "waiting", of |-> i,
                                            down |-> FALSE]]
     \/ (\A i \in Ids : ~Serves(i)) /\ Dial(core, {l}, FALSE)

\* Mutant of Lingers: any core outlives its last lease.
Lingers_any(i) == Live(i)

\* The core outlives its last lease.
Lingers(i) == Live(i) /\ Serves(i)

\* A lease is let go. The last one leaves its core lingering, or takes it along.
Release(l) ==
  /\ lease[l].at = "held" /\ lease' = [lease EXCEPT ![l] = NoLease] /\ UNCHANGED <<product, changes>>
  /\ LET i == lease[l].of
         cs == [core EXCEPT ![i].holders = @ \ {l}]
     IN IF cs[i].holders # {} THEN Become(cs) /\ UNCHANGED current
        ELSE IF Lingers(i) THEN Become([cs EXCEPT ![i].lingers = TRUE]) /\ UNCHANGED current
        ELSE Become(Dispose(cs, i)) /\ current' = IF current = i THEN Nil ELSE current

\* The destroy delay ends.
DelayEnds(i) ==
  /\ core[i].lingers /\ Become(Dispose(core, i)) /\ current' = IF current = i THEN Nil ELSE current
  /\ UNCHANGED <<product, lease, changes>>

\* Mutant of SetProduct: a core nobody holds stays until the next request.
SetProduct_lazy(p) ==
  /\ p # product /\ changes < MaxChanges /\ changes' = changes + 1 /\ product' = p
  /\ UNCHANGED <<lease, core, runs, current>>

\* The page names another product. A core nobody holds served the one before, so it goes.
SetProduct(p) ==
  /\ p # product /\ changes < MaxChanges /\ changes' = changes + 1 /\ product' = p /\ UNCHANGED lease
  /\ IF current # Nil /\ core[current].holders = {} /\ core[current].product # p
     THEN Become(Dispose(core, current)) /\ current' = Nil
     ELSE UNCHANGED <<core, runs, current>>

(***************************************************************************)
(* Boots and faults                                                         *)
(***************************************************************************)
\* Mutant of Boots: a boot that ends late is not told that its core is gone.
Boots_blind(i) ==
  /\ core[i].boot = "booting" /\ core' = [core EXCEPT ![i].boot = "up"] /\ runs' = [runs EXCEPT ![i] = "up"]
  /\ lease' = [l \in Leases |-> IF l \in core[i].holders THEN [lease[l] EXCEPT !.at = "held"] ELSE lease[l]]
  /\ UNCHANGED <<product, current, changes>>

\* The runtime is up, and the requests that waited hold it. One whose core is gone is disposed at once.
Boots(i) ==
  /\ core[i].boot = "booting"
  /\ core' = [core EXCEPT ![i].boot = IF Live(i) THEN "up" ELSE "dropped"]
  /\ runs' = [runs EXCEPT ![i] = IF Live(i) THEN "up" ELSE "disposed"]
  /\ lease' = [l \in Leases |-> IF l \in core[i].holders THEN [lease[l] EXCEPT !.at = "held"] ELSE lease[l]]
  /\ UNCHANGED <<product, current, changes>>

\* The boot fails: a redial is tried again, and otherwise the core is faulted, and the requests that waited for it fail
\* and let it go.
BootFails(i) ==
  /\ core[i].boot = "booting" /\ UNCHANGED <<product, changes>>
  /\ LET failed == [core EXCEPT ![i].boot = "failed", ![i].faulted = TRUE, ![i].holders = {}] IN
     CASE ~Live(i) -> Become([core EXCEPT ![i].boot = "dropped"]) /\ UNCHANGED <<lease, current>>
       [] Live(i) /\ core[i].redial /\ core[i].retry < Retries ->
            Become([core EXCEPT ![i].boot = "waiting", ![i].retry = @ + 1]) /\ UNCHANGED <<lease, current>>
       [] OTHER ->
            /\ lease' = [l \in Leases |-> IF l \in core[i].holders THEN NoLease ELSE lease[l]]
            /\ IF core[i].holders = {} THEN Become(failed) /\ UNCHANGED current
               ELSE Become(Dispose(failed, i)) /\ current' = IF current = i THEN Nil ELSE current

\* A redial that waited for its turn, or for its retry, boots.
Redials(i) ==
  /\ core[i].boot = "waiting" /\ SlotIsFree(core) /\ core' = [core EXCEPT ![i].boot = "booting"]
  /\ UNCHANGED <<product, current, lease, runs, changes>>

\* Mutant of GoesDown: the replacement is left to the next request.
GoesDown_lazy(i) ==
  /\ Live(i) /\ core[i].boot = "up" /\ ~core[i].faulted /\ UNCHANGED <<product, changes>>
  /\ LET down == [core EXCEPT ![i].faulted = TRUE] IN
     IF i = current /\ core[i].holders = {} THEN Become(Dispose(down, i)) /\ current' = Nil /\ UNCHANGED lease
     ELSE /\ Become(down) /\ UNCHANGED current
          /\ lease' = [l \in Leases |-> IF lease[l].of = i THEN [lease[l] EXCEPT !.down = TRUE] ELSE lease[l]]

\* The core is taken down, once (takeDown). The page's core is redialed while it is held, before its holders hear it.
GoesDown(i) ==
  /\ Live(i) /\ core[i].boot = "up" /\ ~core[i].faulted /\ UNCHANGED <<product, changes>>
  /\ LET down == [core EXCEPT ![i].faulted = TRUE] IN
     CASE i = current /\ core[i].holders # {} -> Dial(down, {}, TRUE)
       [] i = current /\ core[i].holders = {} -> Become(Dispose(down, i)) /\ current' = Nil /\ UNCHANGED lease
       [] i # current ->
            /\ Become(down) /\ UNCHANGED current
            /\ lease' = [l \in Leases |-> IF lease[l].of = i THEN [lease[l] EXCEPT !.down = TRUE] ELSE lease[l]]

PageNext ==
  \/ \E l \in Leases : Acquire(l) \/ Release(l)
  \/ \E p \in Products : SetProduct(p)
  \/ \E i \in Ids : DelayEnds(i) \/ Boots(i) \/ BootFails(i) \/ Redials(i) \/ GoesDown(i)

PageSpec == PageInit /\ [][PageNext]_pageVars

\* The boot of a core that is still the page's ends, and a redial whose turn comes starts. A boot whose core is gone may
\* hang.
FairPageSpec ==
  PageSpec /\ \A i \in Ids : WF_pageVars(Live(i) /\ (Boots(i) \/ BootFails(i))) /\ WF_pageVars(Redials(i))

(***************************************************************************)
(* Properties                                                               *)
(***************************************************************************)
\* A lease that waits or holds keeps its core: a core is never disposed under it, whatever product change, fault or
\* delay comes, and a core the page moved on from goes with its last one.
LeasedStays ==
  /\ \A l \in Leases : lease[l].at # "none" => Live(lease[l].of) /\ l \in core[lease[l].of].holders
  /\ \A i \in Ids : Live(i) => i = current \/ core[i].holders # {}

\* Every runtime that booted is disposed once its core is gone, and once only, also one whose boot ended after.
RuntimeGoesOnce == \A i \in Ids : runs[i] # "twice" /\ (runs[i] = "up" => Live(i))

\* A core nobody holds is the page's, for the product the page serves, and lingers or replaces one that went down.
UnheldServes ==
  \A i \in Ids : Live(i) /\ core[i].holders = {} =>
    i = current /\ core[i].product = product /\ (core[i].lingers \/ core[i].redial)

\* The cores there are, are held or about to be: none is disposed under a request, and none stays for nobody (acquire,
\* release, setProduct, dispose).
CoresAreHeld == PageTypeOK /\ LeasedStays /\ UnheldServes

\* A holder hears that its core went down when its replacement is already the one a request gets, and a core that went
\* down is not handed out again.
DownIsReplaced ==
  [][\A l \in Leases :
       /\ (lease'[l].down /\ ~lease[l].down => current' # lease[l].of)
       /\ (lease'[l].at # "none" /\ lease[l].at = "none" => ~core'[lease'[l].of].faulted)]_pageVars

\* A request is answered: with a lease, or with the failure of the boot it waited for.
RequestsEnd == \A l \in Leases : lease[l].at = "waiting" ~> lease[l].at # "waiting"

=============================================================================
