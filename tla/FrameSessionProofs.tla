------------------------ MODULE FrameSessionProofs ------------------------
(***************************************************************************)
(* Theorems about ProtocolFrame, for any number of frames, callers and      *)
(* config changes, and about SessionState, for any sessions and any number  *)
(* of cores, of other tabs' writes and of events.                           *)
(*                                                                          *)
(* ProtocolFrame: the inductive invariant adds three facts to               *)
(* FramesAreSound: what the slot's frame and the held one still have to do  *)
(* (Live), which losses are still to be caught (Lost), and that whoever     *)
(* waits waits for the slot's frame (Awaited).                              *)
(*                                                                          *)
(* SessionState: who is on the line in which requests run and are answered, *)
(* once and in what order (Books), what a page that waits waits for         *)
(* (Pends), and that only a report takes a report from the page.            *)
(***************************************************************************)
EXTENDS ProtocolFrame, SessionState, FiniteSetTheorems, SequenceTheorems, WellFoundedInduction, TLAPS

----------------------------------------------------------------------------
(* The protocol frame. *)

\* The slot's frame is still kept and the held one is not. No frame is held once another listens.
Live ==
  /\ slot # None => phase[slot] \notin {"over", "settled"}
  /\ held # None => phase[held] = "over"
  /\ slot # None /\ phase[slot] \in {"ready", "kept"} => held = None

\* A light client fails only once its frame listens, and nothing is lost with a frame that ended.
Lost ==
  \A f \in Frames : /\ lost[f] = "init" => phase[f] \in {"ready", "kept"}
                    /\ phase[f] \in {"over", "settled"} => lost[f] = "no"

\* Those who wait, wait while the slot has frame s, and those for the store wait for s itself.
Awaiting(ws, s) ==
  \A w \in Waits : ws[w].state = "wait" => s # None /\ (ws[w].kind = "store" => ws[w].frame = s)

Awaited == Awaiting(waits, slot)

IInv == FramesAreSound /\ Live /\ Lost /\ Awaited

----------------------------------------------------------------------------
(* The number of a new frame. *)

\* A set of natural numbers has a least one.
LEMMA LeastIsThere ==
  ASSUME NEW S \in SUBSET Nat, S # {}
  PROVE  Min(S) \in S
<1>1. \E x \in S : \A y \in S : ~ (<<y, x>> \in OpToRel(<, Nat))
  BY NatLessThanWellFounded, WFMin
<1>2. PICK x \in S : \A y \in S : ~ (<<y, x>> \in OpToRel(<, Nat))
  BY <1>1
<1>3. ASSUME NEW y \in S PROVE x =< y
  <2>1. x \in Nat /\ y \in Nat
    OBVIOUS
  <2>2. ~(y < x)
    BY <1>2, <2>1 DEF OpToRel
  <2>. QED BY <2>1, <2>2
<1>. QED BY <1>3 DEF Min

LEMMA NewFrameIsFree ==
  ASSUME FrameAssumption, CanBoot
  PROVE  NewFrame \in Frames /\ Free(NewFrame)
<1>. DEFINE S == {f \in Frames : Free(f)}
<1>1. S \in SUBSET Nat /\ S # {}
  BY DEF CanBoot, Frames, FrameAssumption
<1>. HIDE DEF S
<1>2. Min(S) \in S
  BY <1>1, LeastIsThere
<1>. QED BY <1>2 DEF S, NewFrame

----------------------------------------------------------------------------
(* The waits. *)

LEMMA WaitTypes ==
  ASSUME NEW wt \in WaitType, NEW state \in {"idle", "config", "wait", "got", "failed"}, None \notin Frames
  PROVE  /\ Settled(wt, state) \in WaitType /\ Settled(wt, state).state = state
         /\ Settled(wt, state).kind = wt.kind
         /\ [wt EXCEPT !.since = TRUE] \in WaitType
         /\ [wt EXCEPT !.since = TRUE].state = wt.state /\ [wt EXCEPT !.since = TRUE].kind = wt.kind
         /\ [wt EXCEPT !.since = TRUE].frame = wt.frame /\ [wt EXCEPT !.since = TRUE].since
  BY DEF Settled, WaitType

\* What a change of the status to st does to each wait.
LEMMA StatusIsHeard ==
  ASSUME None \notin Frames, NEW ws \in [Waits -> WaitType], NEW st
  PROVE  /\ HeardStatus(ws, st) \in [Waits -> WaitType]
         /\ \A w \in Waits :
              \/ HeardStatus(ws, st)[w] = ws[w]
                 /\ (ws[w].state = "wait" /\ ws[w].kind = "ready" =>
                       st \notin {"ready", "idle"} /\ (st = "failed" => ~ws[w].since))
              \/ /\ ws[w].state = "wait" /\ ws[w].kind = "ready"
                 /\ HeardStatus(ws, st)[w].kind = "ready"
                 /\ \/ st = "ready" /\ HeardStatus(ws, st)[w].state = "got"
                    \/ st \in {"idle", "failed"} /\ HeardStatus(ws, st)[w].state = "failed"
<1>. DEFINE New(w) == IF ~Waiting(ws, w, "ready") THEN ws[w]
                      ELSE CASE st = "ready" -> Settled(ws[w], "got")
                             [] st = "idle" \/ (st = "failed" /\ ws[w].since) -> Settled(ws[w], "failed")
                             [] OTHER -> ws[w]
<1>1. ASSUME NEW w \in Waits
      PROVE  /\ New(w) \in WaitType
             /\ \/ New(w) = ws[w]
                   /\ (ws[w].state = "wait" /\ ws[w].kind = "ready" =>
                         st \notin {"ready", "idle"} /\ (st = "failed" => ~ws[w].since))
                \/ /\ ws[w].state = "wait" /\ ws[w].kind = "ready" /\ New(w).kind = "ready"
                   /\ \/ st = "ready" /\ New(w).state = "got"
                      \/ st \in {"idle", "failed"} /\ New(w).state = "failed"
  <2>1. ws[w] \in WaitType
    OBVIOUS
  <2>2. /\ Settled(ws[w], "got") \in WaitType /\ Settled(ws[w], "got").state = "got"
        /\ Settled(ws[w], "failed") \in WaitType /\ Settled(ws[w], "failed").state = "failed"
        /\ Settled(ws[w], "got").kind = ws[w].kind /\ Settled(ws[w], "failed").kind = ws[w].kind
    BY <2>1, WaitTypes
  <2>. QED BY <2>1, <2>2 DEF Waiting
<1>2. HeardStatus(ws, st) = [w \in Waits |-> New(w)]
  BY DEF HeardStatus
<1>. HIDE DEF New
<1>. QED BY <1>1, <1>2

\* What the loss of frame f does to each wait.
LEMMA LossIsHeard ==
  ASSUME None \notin Frames, NEW ws \in [Waits -> WaitType], NEW f
  PROVE  /\ HeardLoss(ws, f) \in [Waits -> WaitType]
         /\ \A w \in Waits :
              \/ /\ ws[w].state = "wait" /\ ws[w].kind = "store" /\ ws[w].frame = f
                 /\ HeardLoss(ws, f)[w].state = "failed" /\ HeardLoss(ws, f)[w].kind = "store"
              \/ /\ ws[w].state = "wait" /\ ws[w].kind = "ready"
                 /\ HeardLoss(ws, f)[w].state = "wait" /\ HeardLoss(ws, f)[w].kind = "ready"
                 /\ HeardLoss(ws, f)[w].since
              \/ /\ HeardLoss(ws, f)[w] = ws[w]
                 /\ ws[w].state = "wait" => ws[w].kind = "store" /\ ws[w].frame # f
<1>. DEFINE New(w) == CASE Waiting(ws, w, "store") /\ ws[w].frame = f -> Settled(ws[w], "failed")
                        [] Waiting(ws, w, "ready") -> [ws[w] EXCEPT !.since = TRUE]
                        [] OTHER -> ws[w]
<1>1. ASSUME NEW w \in Waits
      PROVE  /\ New(w) \in WaitType
             /\ \/ /\ ws[w].state = "wait" /\ ws[w].kind = "store" /\ ws[w].frame = f
                   /\ New(w).state = "failed" /\ New(w).kind = "store"
                \/ /\ ws[w].state = "wait" /\ ws[w].kind = "ready"
                   /\ New(w).state = "wait" /\ New(w).kind = "ready" /\ New(w).since
                \/ /\ New(w) = ws[w]
                   /\ ws[w].state = "wait" => ws[w].kind = "store" /\ ws[w].frame # f
  <2>1. ws[w] \in WaitType /\ ws[w].kind \in {"ready", "store"}
    BY DEF WaitType
  <2>2. /\ Settled(ws[w], "failed") \in WaitType /\ Settled(ws[w], "failed").state = "failed"
        /\ Settled(ws[w], "failed").kind = ws[w].kind
        /\ [ws[w] EXCEPT !.since = TRUE] \in WaitType
        /\ [ws[w] EXCEPT !.since = TRUE].state = ws[w].state /\ [ws[w] EXCEPT !.since = TRUE].kind = ws[w].kind
        /\ [ws[w] EXCEPT !.since = TRUE].since
    BY <2>1, WaitTypes
  <2>3. CASE Waiting(ws, w, "store")
    BY <2>1, <2>2, <2>3 DEF Waiting
  <2>4. CASE Waiting(ws, w, "ready")
    <3>1. New(w) = [ws[w] EXCEPT !.since = TRUE]
      BY <2>4 DEF Waiting
    <3>. QED BY <2>2, <2>4, <3>1 DEF Waiting
  <2>5. CASE ~Waiting(ws, w, "store") /\ ~Waiting(ws, w, "ready")
    BY <2>1, <2>5 DEF Waiting
  <2>. QED BY <2>3, <2>4, <2>5
<1>2. HeardLoss(ws, f) = [w \in Waits |-> New(w)]
  BY DEF HeardLoss
<1>. HIDE DEF New
<1>. QED BY <1>1, <1>2

LEMMA LossOfOne ==
  ASSUME None \notin Frames, NEW ws \in [Waits -> WaitType], NEW f, NEW w \in Waits
  PROVE  \/ HeardLoss(ws, f)[w].state = "failed"
         \/ HeardLoss(ws, f)[w].kind = "ready" /\ HeardLoss(ws, f)[w].since
         \/ HeardLoss(ws, f)[w] = ws[w] /\ (ws[w].state = "wait" => ws[w].kind = "store" /\ ws[w].frame # f)
  BY LossIsHeard

\* What the load of frame f does to each wait.
LEMMA LoadIsHeard ==
  ASSUME None \notin Frames, NEW ws \in [Waits -> WaitType], NEW f
  PROVE  /\ HeardLoad(ws, f) \in [Waits -> WaitType]
         /\ \A w \in Waits :
              \/ HeardLoad(ws, f)[w] = ws[w]
              \/ /\ ws[w].state = "wait" /\ ws[w].kind = "store" /\ ws[w].frame = f
                 /\ HeardLoad(ws, f)[w].state = "got" /\ HeardLoad(ws, f)[w].kind = "store"
<1>1. ASSUME NEW w \in Waits
      PROVE  Settled(ws[w], "got") \in WaitType /\ Settled(ws[w], "got").state = "got"
             /\ Settled(ws[w], "got").kind = ws[w].kind
  BY WaitTypes
<1>. QED BY <1>1 DEF HeardLoad, Waiting
----------------------------------------------------------------------------
(* Who still waits after that. *)

Unawaited(ws) == \A w \in Waits : ws[w].state # "wait"

\* What a change of status or a load leaves, waits for what it waited for.
LEMMA StillAwaiting ==
  ASSUME None \notin Frames, NEW ws \in [Waits -> WaitType], NEW s, Awaiting(ws, s), NEW st, NEW f
  PROVE  Awaiting(HeardStatus(ws, st), s) /\ Awaiting(HeardLoad(ws, f), s)
<1>1. ASSUME NEW w \in Waits, HeardStatus(ws, st)[w].state = "wait"
      PROVE  HeardStatus(ws, st)[w] = ws[w]
  BY <1>1, StatusIsHeard
<1>2. ASSUME NEW w \in Waits, HeardLoad(ws, f)[w].state = "wait"
      PROVE  HeardLoad(ws, f)[w] = ws[w]
  BY <1>2, LoadIsHeard
<1>. QED BY <1>1, <1>2 DEF Awaiting

\* After the loss of the frame they waited for, only those who wait for a ready frame are left.
LEMMA LossLeaves ==
  ASSUME None \notin Frames, NEW ws \in [Waits -> WaitType], NEW s, Awaiting(ws, s)
  PROVE  \A w \in Waits : HeardLoss(ws, s)[w].state = "wait" =>
           HeardLoss(ws, s)[w].kind = "ready" /\ HeardLoss(ws, s)[w].since
<1>1. ASSUME NEW w \in Waits, HeardLoss(ws, s)[w].state = "wait"
      PROVE  HeardLoss(ws, s)[w].kind = "ready" /\ HeardLoss(ws, s)[w].since
  <2>1. ws[w].state = "wait" /\ ws[w].kind = "store" => ws[w].frame = s
    BY DEF Awaiting
  <2>. QED BY <1>1, <2>1, LossOfOne
<1>. QED BY <1>1

LEMMA LossIsWaitedOut ==
  ASSUME None \notin Frames, NEW ws \in [Waits -> WaitType], NEW s, Awaiting(ws, s), NEW t, t # None
  PROVE  Awaiting(HeardLoss(ws, s), t)
  BY LossLeaves DEF Awaiting

\* Those are failed by the status that says the frame is down.
LEMMA LossEnds ==
  ASSUME None \notin Frames, NEW ws \in [Waits -> WaitType], NEW s, Awaiting(ws, s)
  PROVE  Unawaited(HeardStatus(HeardLoss(ws, s), "failed"))
<1>1. HeardLoss(ws, s) \in [Waits -> WaitType]
  BY LossIsHeard
<1>2. ASSUME NEW w \in Waits PROVE HeardStatus(HeardLoss(ws, s), "failed")[w].state # "wait"
  <2>1. \/ /\ HeardStatus(HeardLoss(ws, s), "failed")[w] = HeardLoss(ws, s)[w]
           /\ HeardLoss(ws, s)[w].state = "wait" /\ HeardLoss(ws, s)[w].kind = "ready" => ~HeardLoss(ws, s)[w].since
        \/ HeardStatus(HeardLoss(ws, s), "failed")[w].state \in {"got", "failed"}
    BY <1>1, StatusIsHeard
  <2>. QED BY <2>1, LossLeaves
<1>. QED BY <1>2 DEF Unawaited

LEMMA IdleEnds ==
  ASSUME None \notin Frames, NEW ws \in [Waits -> WaitType],
         \A w \in Waits : ws[w].state = "wait" => ws[w].kind = "ready"
  PROVE  Unawaited(HeardStatus(ws, "idle"))
<1>1. ASSUME NEW w \in Waits PROVE HeardStatus(ws, "idle")[w].state # "wait"
  BY StatusIsHeard
<1>. QED BY <1>1 DEF Unawaited

----------------------------------------------------------------------------
(* The parts of the invariant a step leaves alone. *)

LEMMA InitInvariant == FrameAssumption /\ Init => IInv
<1> SUFFICES ASSUME FrameAssumption, Init PROVE IInv
  OBVIOUS
<1>1. waits \in [Waits -> WaitType]
  BY DEF Init, WaitType
<1>2. configs \in 0 .. MaxConfigs /\ eager \in 0 .. MaxEager
  BY DEF Init, FrameAssumption
<1>3. TypeOK
  BY <1>1, <1>2 DEF Init, TypeOK, Phases
<1>4. FramesAreKept /\ MismatchIsFinal /\ Live /\ Lost /\ Awaited
  BY DEF Init, FramesAreKept, MismatchIsFinal, Live, Lost, Awaited, Awaiting
<1>. QED BY <1>3, <1>4 DEF IInv, FramesAreSound

----------------------------------------------------------------------------
(* Steps of a keeper. *)

\* What the invariant says of the types, without the frames' numbers.
LEMMA Known ==
  ASSUME FrameAssumption, IInv
  PROVE  /\ None \notin Frames /\ TypeOK /\ FramesAreKept /\ MismatchIsFinal /\ Live /\ Lost /\ Awaited
         /\ waits \in [Waits -> WaitType] /\ phase \in [Frames -> Phases]
         /\ lost \in [Frames -> {"no", "error", "init"}]
         /\ slot \in Frames \cup {None} /\ held \in Frames \cup {None} /\ mine \in Frames \cup {None}
         /\ asking \in Frames \cup {None} /\ Awaiting(waits, slot)
  BY DEF FrameAssumption, IInv, FramesAreSound, TypeOK, Awaited

LEMMA FrameLoadsKeeps ==
  ASSUME FrameAssumption, IInv, NEW f \in Frames, FrameLoads(f)
  PROVE  IInv'
<1>. USE Known
<1>1. waits' \in [Waits -> WaitType] /\ Awaiting(waits, slot)'
  BY LoadIsHeard, StillAwaiting DEF FrameLoads, Awaiting
<1>2. TypeOK'
  BY <1>1 DEF FrameLoads, TypeOK, configVars, Phases
<1>3. FramesAreKept' /\ MismatchIsFinal' /\ Live' /\ Lost' /\ Awaited'
  BY <1>1 DEF FrameLoads, FramesAreKept, MismatchIsFinal, Live, Lost, Awaited, configVars, Phases
<1>. QED BY <1>2, <1>3 DEF IInv, FramesAreSound

LEMMA ConnectsKeeps ==
  ASSUME FrameAssumption, IInv, NEW f \in Frames, Connects(f)
  PROVE  IInv'
<1>. USE Known
<1>1. TypeOK' /\ Awaited'
  BY DEF Connects, TypeOK, configVars, Phases, Awaited, Awaiting
<1>2. FramesAreKept' /\ MismatchIsFinal' /\ Live' /\ Lost'
  BY DEF Connects, FramesAreKept, MismatchIsFinal, Live, Lost, configVars, Phases
<1>. QED BY <1>1, <1>2 DEF IInv, FramesAreSound

LEMMA HearListeningKeeps ==
  ASSUME FrameAssumption, IInv, NEW f \in Frames, HearListening(f)
  PROVE  IInv'
<1>. USE Known
<1>1. TypeOK' /\ Awaited'
  BY DEF HearListening, TypeOK, configVars, Phases, Awaited, Awaiting
<1>2. Live' /\ Lost'
  BY DEF HearListening, Live, Lost, configVars, Phases, FramesAreKept
<1>3. FramesAreKept' /\ MismatchIsFinal'
  BY DEF HearListening, FramesAreKept, MismatchIsFinal, configVars, Phases, Live
<1>. QED BY <1>1, <1>2, <1>3 DEF IInv, FramesAreSound

LEMMA HearReadyKeeps ==
  ASSUME FrameAssumption, IInv, NEW f \in Frames, HearReady(f)
  PROVE  IInv'
<1>. USE Known
<1>1. waits' \in [Waits -> WaitType] /\ Awaiting(waits, slot)'
  BY StatusIsHeard, StillAwaiting DEF HearReady, Awaiting
<1>2. TypeOK'
  BY <1>1 DEF HearReady, TypeOK, configVars, Phases
<1>3. FramesAreKept' /\ MismatchIsFinal' /\ Live' /\ Lost' /\ Awaited'
  BY <1>1 DEF HearReady, FramesAreKept, MismatchIsFinal, Live, Lost, Awaited, configVars, Phases
<1>. QED BY <1>2, <1>3 DEF IInv, FramesAreSound

LEMMA StatusEndsKeeps ==
  ASSUME FrameAssumption, IInv, NEW f \in Frames, NEW reason \in {"error", "init"}, StatusEnds(f, reason)
  PROVE  IInv'
<1>. USE Known
<1>1. TypeOK' /\ Awaited'
  BY DEF StatusEnds, TypeOK, configVars, Phases, Awaited, Awaiting
<1>2. FramesAreKept' /\ MismatchIsFinal' /\ Live' /\ Lost'
  BY DEF StatusEnds, FramesAreKept, MismatchIsFinal, Live, Lost, configVars, Phases
<1>. QED BY <1>1, <1>2 DEF IInv, FramesAreSound

LEMMA StaleFailsKeeps ==
  ASSUME FrameAssumption, IInv, NEW f \in Frames, StaleFails(f)
  PROVE  IInv'
<1>. USE Known
<1>1. TypeOK' /\ Awaited'
  BY DEF StaleFails, Ends, TypeOK, configVars, Phases, Awaited, Awaiting
<1>2. FramesAreKept' /\ MismatchIsFinal' /\ Live' /\ Lost'
  BY DEF StaleFails, Ends, FramesAreKept, MismatchIsFinal, Live, Lost, configVars, Phases
<1>. QED BY <1>1, <1>2 DEF IInv, FramesAreSound

\* The waits once the slot's frame is lost: nobody is left.
LEMMA SlotIsLost ==
  ASSUME FrameAssumption, IInv
  PROVE  /\ HeardStatus(HeardLoss(waits, slot), "failed") \in [Waits -> WaitType]
         /\ \A w \in Waits : HeardStatus(HeardLoss(waits, slot), "failed")[w].state # "wait"
         /\ \A s : Awaiting(HeardStatus(HeardLoss(waits, slot), "failed"), s)
<1>. USE Known
<1>1. HeardLoss(waits, slot) \in [Waits -> WaitType]
  BY LossIsHeard
<1>2. HeardStatus(HeardLoss(waits, slot), "failed") \in [Waits -> WaitType]
  BY <1>1, StatusIsHeard
<1>3. Unawaited(HeardStatus(HeardLoss(waits, slot), "failed"))
  BY LossEnds
<1>. QED BY <1>2, <1>3 DEF Unawaited, Awaiting

LEMMA HoldsKeeps ==
  ASSUME FrameAssumption, IInv, NEW f \in Frames, Holds(f)
  PROVE  IInv'
<1>. USE Known
<1>1. waits' \in [Waits -> WaitType] /\ Awaiting(waits, slot)'
  BY SlotIsLost DEF Holds, Awaiting
<1>2. TypeOK'
  BY <1>1 DEF Holds, Ends, TypeOK, configVars, Phases
<1>3. held = None
  BY DEF Holds, Live, Lost
<1>4. FramesAreKept'
  BY <1>3 DEF Holds, Ends, FramesAreKept, configVars
<1>5. MismatchIsFinal' /\ Live' /\ Lost' /\ Awaited'
  BY <1>1, <1>3 DEF Holds, Ends, FramesAreKept, MismatchIsFinal, Live, Lost, Awaited, configVars, Phases
<1>. QED BY <1>2, <1>4, <1>5 DEF IInv, FramesAreSound

LEMMA LosesKeeps ==
  ASSUME FrameAssumption, IInv, NEW f \in Frames, NEW stable \in BOOLEAN, Loses(f, stable)
  PROVE  IInv'
<1>. USE Known
<1>1. waits' \in [Waits -> WaitType] /\ Awaiting(waits, slot)'
  BY SlotIsLost DEF Loses, Awaiting
<1>2. TypeOK'
  BY <1>1 DEF Loses, Ends, TypeOK, configVars, Phases
<1>3. FramesAreKept' /\ MismatchIsFinal'
  BY DEF Loses, Ends, FramesAreKept, MismatchIsFinal, configVars
<1>4. Live' /\ Lost' /\ Awaited'
  BY <1>1 DEF Loses, Ends, FramesAreKept, Live, Lost, Awaited, configVars, Phases
<1>. QED BY <1>2, <1>3, <1>4 DEF IInv, FramesAreSound

LEMMA RefusesKeeps ==
  ASSUME FrameAssumption, IInv, NEW f \in Frames, Refuses(f)
  PROVE  IInv'
<1>. USE Known
<1>1. waits' \in [Waits -> WaitType] /\ Awaiting(waits, slot)'
  BY SlotIsLost DEF Refuses, Awaiting
<1>2. TypeOK'
  BY <1>1 DEF Refuses, Ends, TypeOK, configVars, Phases
<1>3. FramesAreKept' /\ MismatchIsFinal'
  BY DEF Refuses, Ends, FramesAreKept, MismatchIsFinal, configVars
<1>4. Live' /\ Lost' /\ Awaited'
  BY <1>1 DEF Refuses, Ends, FramesAreKept, Live, Lost, Awaited, configVars, Phases
<1>. QED BY <1>2, <1>3, <1>4 DEF IInv, FramesAreSound

LEMMA KeepOnKeeps ==
  ASSUME FrameAssumption, IInv, NEW f \in Frames, KeepOn(f)
  PROVE  IInv'
<1>. USE Known
<1>1. TypeOK' /\ Awaited'
  BY DEF KeepOn, TypeOK, configVars, Phases, Awaited, Awaiting
<1>2. FramesAreKept' /\ MismatchIsFinal' /\ Live' /\ Lost'
  BY DEF KeepOn, FramesAreKept, MismatchIsFinal, Live, Lost, configVars, Phases
<1>. QED BY <1>1, <1>2 DEF IInv, FramesAreSound
----------------------------------------------------------------------------
(* A new keeper. *)

\* The number of a new frame is new to all that is kept.
LEMMA BootsAFreeFrame ==
  ASSUME FrameAssumption, CanBoot
  PROVE  /\ NewFrame \in Frames /\ NewFrame \notin alive /\ NewFrame # asking /\ NewFrame # mine
         /\ phase[NewFrame] = "over" /\ NewFrame # None
         /\ \A w \in Waits : waits[w].state = "wait" => waits[w].frame # NewFrame
  BY NewFrameIsFree DEF Free, FrameAssumption

\* What both outcomes of a keeper's first turn keep of the types.
LEMMA KeeperTypes ==
  ASSUME FrameAssumption, IInv, NEW dropped, Boots(dropped) \/ Unbuilt(dropped)
  PROVE  /\ status' \in {"booting", "failed"} /\ slot' \in Frames \cup {None} /\ mine' \in Frames \cup {None}
         /\ alive' \subseteq Frames /\ phase' \in [Frames -> Phases]
         /\ lost' \in [Frames -> {"no", "error", "init"}] /\ keeper' \in {"waiting", "running"}
<1>. USE Known
<1>1. lost' \in [Frames -> {"no", "error", "init"}]
  BY DEF Boots, Unbuilt, Aborted
<1>2. CASE Boots(dropped)
  BY <1>1, <1>2, BootsAFreeFrame DEF Boots, TypeOK, Phases
<1>3. CASE Unbuilt(dropped)
  BY <1>1, <1>3 DEF Unbuilt, TypeOK
<1>. QED BY <1>2, <1>3

\* Nothing is lost but the slot's frame when it is dropped, with the held one.
LEMMA KeeperLoses ==
  ASSUME FrameAssumption, IInv, NEW dropped \in {{}, {slot, held} \ {None}}, Boots(dropped) \/ Unbuilt(dropped)
  PROVE  Lost'
<1>. USE Known
<1>1. \A g \in Frames : phase'[g] = phase[g] \/ (phase[g] = "over" /\ phase'[g] = "load")
  BY BootsAFreeFrame DEF Boots, Unbuilt
<1>2. \A g \in Frames : lost'[g] = lost[g] \/ (lost'[g] = "error" /\ g \in dropped /\ phase[g] # "over")
  BY DEF Boots, Unbuilt, Aborted
<1>3. \A g \in Frames : g \in dropped /\ phase[g] # "over" => g = slot /\ phase[g] # "settled"
  BY DEF Live
<1>. QED BY <1>1, <1>2, <1>3 DEF Lost

\* A frame that is down is booted, with the held one kept.
LEMMA BootsWhenDown ==
  ASSUME FrameAssumption, IInv, slot = None, ~mismatch, Boots({}) \/ Unbuilt({}),
         UNCHANGED <<held, mismatch>>
  PROVE  FramesAreKept' /\ MismatchIsFinal' /\ Live' /\ Lost'
<1>. USE Known
<1>1. Lost'
  BY KeeperLoses
<1>2. CASE Boots({})
  <2>1. NewFrame # held /\ NewFrame # None /\ NewFrame \in Frames
    BY <1>2, BootsAFreeFrame DEF Boots, FramesAreKept
  <2>2. FramesAreKept' /\ MismatchIsFinal'
    BY <1>2, <2>1 DEF Boots, FramesAreKept, MismatchIsFinal
  <2>3. Live'
    BY <1>2, <2>1 DEF Boots, Live
  <2>. QED BY <1>1, <2>2, <2>3
<1>3. CASE Unbuilt({})
  BY <1>1, <1>3 DEF Unbuilt, FramesAreKept, MismatchIsFinal, Live
<1>. QED BY <1>2, <1>3

LEMMA BackoffEndsKeeps ==
  ASSUME FrameAssumption, IInv, BackoffEnds
  PROVE  IInv'
<1>. USE Known
<1>1. slot = None /\ ~mismatch
  BY DEF BackoffEnds, FramesAreKept, MismatchIsFinal
<1>2. Unawaited(waits)
  BY <1>1 DEF Awaiting, Unawaited
<1>3. waits' \in [Waits -> WaitType] /\ Unawaited(waits)'
  <2>1. Awaiting(waits, None)
    BY <1>1
  <2>2. HeardLoss(waits, None) \in [Waits -> WaitType]
    BY LossIsHeard
  <2>3. HeardStatus(HeardLoss(waits, None), "failed") \in [Waits -> WaitType]
        /\ Unawaited(HeardStatus(HeardLoss(waits, None), "failed"))
    BY <2>1, <2>2, StatusIsHeard, LossEnds
  <2>. QED BY <1>2, <2>3 DEF BackoffEnds, Unawaited
<1>4. Boots({}) \/ Unbuilt({})
  BY DEF BackoffEnds
<1>5. UNCHANGED <<held, mismatch, configured, configs, eager, asking>>
  BY DEF BackoffEnds, configVars
<1>6. TypeOK'
  BY <1>3, <1>4, <1>5, KeeperTypes DEF TypeOK
<1>7. FramesAreKept' /\ MismatchIsFinal' /\ Live' /\ Lost'
  BY <1>1, <1>4, <1>5, BootsWhenDown
<1>8. Awaited'
  BY <1>3 DEF Awaited, Awaiting, Unawaited
<1>. QED BY <1>6, <1>7, <1>8 DEF IInv, FramesAreSound

LEMMA LosesEagerlyKeeps ==
  ASSUME FrameAssumption, IInv, NEW f \in Frames, LosesEagerly(f)
  PROVE  IInv'
<1>. USE Known
<1>1. /\ NewFrame \in Frames /\ NewFrame # None /\ NewFrame # f /\ phase[NewFrame] = "over"
      /\ NewFrame \notin alive
  BY BootsAFreeFrame DEF LosesEagerly, FramesAreKept
<1>2. waits' \in [Waits -> WaitType] /\ Awaiting(waits, slot)'
  <2>1. f = slot /\ waits' = HeardLoss(waits, slot) /\ slot' = NewFrame
    BY DEF LosesEagerly
  <2>2. HeardLoss(waits, slot) \in [Waits -> WaitType]
    BY LossIsHeard
  <2>3. Awaiting(HeardLoss(waits, slot), NewFrame)
    BY <1>1, LossIsWaitedOut
  <2>. QED BY <2>1, <2>2, <2>3 DEF Awaiting
<1>3. TypeOK'
  BY <1>1, <1>2 DEF LosesEagerly, TypeOK, configVars, Phases
<1>4. ~mismatch
  BY DEF LosesEagerly, MismatchIsFinal, FramesAreKept
<1>5. FramesAreKept' /\ MismatchIsFinal'
  BY <1>1, <1>4 DEF LosesEagerly, FramesAreKept, MismatchIsFinal, configVars
<1>6. Live' /\ Lost' /\ Awaited'
  BY <1>1, <1>2 DEF LosesEagerly, Live, Lost, Awaited, Phases
<1>. QED BY <1>3, <1>5, <1>6 DEF IInv, FramesAreSound

LEMMA ReconfigureKeeps ==
  ASSUME FrameAssumption, IInv, NEW ahead \in BOOLEAN, Reconfigure(ahead)
  PROVE  IInv'
<1>. USE Known
<1>. DEFINE dropped == {slot, held} \ {None}
            ws == HeardLoss(waits, slot)
            heard == IF ahead THEN ws ELSE HeardStatus(ws, "idle")
<1>1. /\ ws \in [Waits -> WaitType]
      /\ \A w \in Waits : ws[w].state = "wait" => ws[w].kind = "ready"
  BY LossIsHeard, LossLeaves
<1>2. heard \in [Waits -> WaitType] /\ \A w \in Waits : heard[w].state = "wait" => heard[w].kind = "ready"
  BY <1>1, StatusIsHeard, IdleEnds DEF Unawaited
<1>3. \/ Boots(dropped) /\ waits' = heard
      \/ Unbuilt(dropped) /\ waits' = HeardStatus(HeardLoss(heard, None), "failed")
  BY DEF Reconfigure
<1>4. /\ held' = None /\ configs' \in 0 .. MaxConfigs /\ eager' \in 0 .. MaxEager /\ ~mismatch
      /\ UNCHANGED <<mismatch, configured, asking>>
  BY DEF Reconfigure, TypeOK, FrameAssumption
<1>5. HeardLoss(heard, None) \in [Waits -> WaitType]
      /\ HeardStatus(HeardLoss(heard, None), "failed") \in [Waits -> WaitType]
  <2>1. HeardLoss(heard, None) \in [Waits -> WaitType]
    BY <1>2, LossIsHeard
  <2>. QED BY <2>1, StatusIsHeard
<1>6. Lost' /\ TypeOK'
  <2>1. Lost'
    BY <1>3, KeeperLoses
  <2>2. TypeOK'
    BY <1>2, <1>3, <1>4, <1>5, KeeperTypes DEF TypeOK
  <2>. QED BY <2>1, <2>2
<1>7. CASE Boots(dropped) /\ waits' = heard
  <2>1. NewFrame # None /\ NewFrame \in Frames
    BY <1>7, BootsAFreeFrame DEF Boots
  <2>2. FramesAreKept' /\ MismatchIsFinal' /\ Live'
    BY <1>4, <1>7, <2>1 DEF Boots, FramesAreKept, MismatchIsFinal, Live
  <2>3. slot' # None
    BY <1>7, <2>1 DEF Boots
  <2>4. Awaited'
    BY <1>2, <1>7, <2>3 DEF Awaited, Awaiting
  <2>. QED BY <1>6, <2>2, <2>4 DEF IInv, FramesAreSound
<1>8. CASE Unbuilt(dropped) /\ waits' = HeardStatus(HeardLoss(heard, None), "failed")
  <2>1. FramesAreKept' /\ MismatchIsFinal' /\ Live'
    BY <1>4, <1>8 DEF Unbuilt, FramesAreKept, MismatchIsFinal, Live
  <2>2. ASSUME NEW w \in Waits PROVE HeardStatus(HeardLoss(heard, None), "failed")[w].state # "wait"
    <3>1. \/ HeardLoss(heard, None)[w].state # "wait"
          \/ HeardLoss(heard, None)[w].kind = "ready" /\ HeardLoss(heard, None)[w].since
      <4>1. heard \in [Waits -> WaitType] /\ (heard[w].state = "wait" => heard[w].kind = "ready")
        BY <1>2
      <4>. HIDE DEF heard
      <4>. QED BY <4>1, LossOfOne
    <3>. HIDE DEF heard
    <3>. QED BY <1>5, <3>1, StatusIsHeard
  <2>3. Awaited'
    BY <1>8, <2>2 DEF Awaited, Awaiting
  <2>. QED BY <1>6, <2>1, <2>3 DEF IInv, FramesAreSound
<1>. QED BY <1>3, <1>7, <1>8
----------------------------------------------------------------------------
(* Steps of callers and of liveness checks. *)

\* A call changes the one caller's wait.
LEMMA WaitIs ==
  ASSUME FrameAssumption, IInv, NEW w \in Waits, NEW f \in Frames \cup {None},
         NEW state \in {"idle", "config", "wait", "got", "failed"}, NEW kind \in {"ready", "store"}
  PROVE  /\ Wait(w, state, kind, f) \in [Waits -> WaitType]
         /\ Wait(w, state, kind, f)[w].state = state /\ Wait(w, state, kind, f)[w].kind = kind
         /\ Wait(w, state, kind, f)[w].frame = f /\ ~Wait(w, state, kind, f)[w].since
         /\ \A v \in Waits \ {w} : Wait(w, state, kind, f)[v] = waits[v]
  BY Known DEF Wait, WaitType

\* A step that changes the waits only, and lets nobody wait for another frame.
LEMMA WaitsOnly ==
  ASSUME FrameAssumption, IInv, waits' \in [Waits -> WaitType], Awaiting(waits, slot)',
         UNCHANGED <<status, slot, held, alive, lost, phase, keeper, mine, mismatch, configVars, eager, asking>>
  PROVE  IInv'
<1>. USE Known
<1>1. TypeOK'
  BY DEF TypeOK, configVars
<1>2. FramesAreKept' /\ MismatchIsFinal' /\ Live' /\ Lost' /\ Awaited'
  BY DEF FramesAreKept, MismatchIsFinal, Live, Lost, Awaited, configVars
<1>. QED BY <1>1, <1>2 DEF IInv, FramesAreSound

\* A caller that does not wait for a frame is settled at once, or waits for the config.
LEMMA CallsAtOnce ==
  ASSUME FrameAssumption, IInv, NEW w \in Waits, NEW state \in {"config", "got", "failed"},
         NEW kind \in {"ready", "store"}
  PROVE  Wait(w, state, kind, None) \in [Waits -> WaitType] /\ Awaiting(Wait(w, state, kind, None), slot)
<1>0. None \in Frames \cup {None} /\ state \in {"idle", "config", "wait", "got", "failed"}
  OBVIOUS
<1>1. /\ Wait(w, state, kind, None) \in [Waits -> WaitType]
      /\ Wait(w, state, kind, None)[w].state = state
      /\ \A v \in Waits \ {w} : Wait(w, state, kind, None)[v] = waits[v]
  BY <1>0, WaitIs
<1>. QED BY <1>1, Known DEF Awaiting

LEMMA WaitForConfigKeeps ==
  ASSUME FrameAssumption, IInv, NEW w \in Waits, NEW kind \in {"ready", "store"}, WaitForConfig(w, kind)
  PROVE  IInv'
<1>1. waits' = Wait(w, "config", kind, None) /\ slot' = slot
  BY DEF WaitForConfig
<1>2. waits' \in [Waits -> WaitType] /\ Awaiting(waits, slot)'
  BY <1>1, CallsAtOnce DEF Awaiting
<1>. QED BY <1>2, WaitsOnly DEF WaitForConfig

LEMMA MismatchedKeeps ==
  ASSUME FrameAssumption, IInv, NEW w \in Waits, NEW kind \in {"ready", "store"}, Mismatched(w, kind)
  PROVE  IInv'
<1>1. waits' = Wait(w, "failed", kind, None) /\ slot' = slot
  BY DEF Mismatched
<1>2. waits' \in [Waits -> WaitType] /\ Awaiting(waits, slot)'
  BY <1>1, CallsAtOnce DEF Awaiting
<1>. QED BY <1>2, WaitsOnly DEF Mismatched

LEMMA ConfigTimeoutKeeps ==
  ASSUME FrameAssumption, IInv, NEW w \in Waits, ConfigTimeout(w)
  PROVE  IInv'
<1>1. PICK kind \in {"ready", "store"} : kind = waits[w].kind
  BY Known DEF WaitType
<1>2. waits' = Wait(w, "failed", kind, None) /\ slot' = slot
  BY <1>1 DEF ConfigTimeout
<1>3. waits' \in [Waits -> WaitType] /\ Awaiting(waits, slot)'
  BY <1>2, CallsAtOnce DEF Awaiting
<1>. QED BY <1>3, WaitsOnly DEF ConfigTimeout

\* What the waits may be once the frame was asked for: on the frame that is there, on the one just booted, or all over.
AskedFor(ws, wsBooted, wsUnbuilt) ==
  /\ ws \in [Waits -> WaitType]
  /\ HeardStatus(HeardLoss(wsUnbuilt, None), "failed") \in [Waits -> WaitType]
  /\ status \in Down /\ ~mismatch => /\ CanBoot => wsBooted \in [Waits -> WaitType] /\ Awaiting(wsBooted, NewFrame)
                                     /\ Unawaited(HeardStatus(HeardLoss(wsUnbuilt, None), "failed"))
  /\ status \notin Down => Awaiting(ws, slot)

LEMMA AsksKeeps ==
  ASSUME FrameAssumption, IInv, ~mismatch, NEW ws, NEW wsBooted, NEW wsUnbuilt,
         AskedFor(ws, wsBooted, wsUnbuilt), Asks(ws, wsBooted, wsUnbuilt),
         UNCHANGED <<held, mismatch, configVars, eager, asking>>
  PROVE  IInv'
<1>. USE Known
<1>1. CASE status \in Down
  <2>1. slot = None
    BY <1>1 DEF FramesAreKept, Down
  <2>2. \/ Boots({}) /\ waits' = wsBooted
        \/ Unbuilt({}) /\ waits' = HeardStatus(HeardLoss(wsUnbuilt, None), "failed")
    BY <1>1 DEF Asks
  <2>3. FramesAreKept' /\ MismatchIsFinal' /\ Live' /\ Lost'
    BY <2>1, <2>2, BootsWhenDown
  <2>4. TypeOK'
    <3>1. waits' \in [Waits -> WaitType]
      BY <1>1, <2>2 DEF AskedFor, Boots
    <3>. QED BY <2>2, <3>1, KeeperTypes DEF TypeOK, configVars
  <2>5. Awaited'
    <3>1. CASE Boots({}) /\ waits' = wsBooted
      BY <1>1, <3>1 DEF AskedFor, Awaited, Boots, Awaiting
    <3>2. CASE Unbuilt({}) /\ waits' = HeardStatus(HeardLoss(wsUnbuilt, None), "failed")
      BY <1>1, <3>2 DEF AskedFor, Awaited, Awaiting, Unawaited
    <3>. QED BY <2>2, <3>1, <3>2
  <2>. QED BY <2>3, <2>4, <2>5 DEF IInv, FramesAreSound
<1>2. CASE status \notin Down
  <2>1. waits' = ws /\ UNCHANGED <<status, slot, alive, phase, lost, keeper, mine>>
    BY <1>2 DEF Asks
  <2>2. waits' \in [Waits -> WaitType] /\ Awaiting(waits, slot)'
    BY <1>2, <2>1 DEF AskedFor, Awaiting
  <2>. QED BY <2>1, <2>2, WaitsOnly
<1>. QED BY <1>1, <1>2

LEMMA WaitUntilReadyKeeps ==
  ASSUME FrameAssumption, IInv, NEW w \in Waits, WaitUntilReady(w)
  PROVE  IInv'
<1>. USE Known
<1>1. CASE held # None /\ status = "failed"
  <2>1. waits' = Wait(w, "failed", "ready", None) /\ slot' = slot
    BY <1>1 DEF WaitUntilReady
  <2>2. waits' \in [Waits -> WaitType] /\ Awaiting(waits, slot)'
    BY <2>1, CallsAtOnce DEF Awaiting
  <2>. QED BY <1>1, <2>2, WaitsOnly DEF WaitUntilReady
<1>2. CASE ~(held # None /\ status = "failed")
  <2>. DEFINE ws == Wait(w, "wait", "ready", None)
  <2>1. Asks(HeardStatus(ws, status), ws, ws) /\ ~mismatch
        /\ UNCHANGED <<held, mismatch, configVars, eager, asking>>
    BY <1>2 DEF WaitUntilReady, Runs
  <2>2. /\ ws \in [Waits -> WaitType] /\ ws[w].state = "wait" /\ ws[w].kind = "ready"
        /\ \A v \in Waits \ {w} : ws[v] = waits[v]
    <3>1. None \in Frames \cup {None}
      OBVIOUS
    <3>. QED BY <3>1, WaitIs
  <2>. HIDE DEF ws
  <2>3. HeardStatus(ws, status) \in [Waits -> WaitType] /\ HeardLoss(ws, None) \in [Waits -> WaitType]
    BY <2>2, StatusIsHeard, LossIsHeard
  <2>4. HeardStatus(HeardLoss(ws, None), "failed") \in [Waits -> WaitType]
    BY <2>3, StatusIsHeard
  <2>5. \A s \in Frames : (slot = None \/ s = slot) => Awaiting(ws, s)
    BY <2>2 DEF Awaiting
  <2>6. status \notin Down => Awaiting(HeardStatus(ws, status), slot)
    <3>1. status \notin Down => slot \in Frames
      BY DEF FramesAreKept, TypeOK, Down
    <3>. QED BY <2>2, <2>5, <3>1, StillAwaiting
  <2>7. status \in Down => slot = None
    BY DEF FramesAreKept, Down
  <2>8. status \in Down => Unawaited(HeardStatus(HeardLoss(ws, None), "failed"))
    <3>1. ASSUME status \in Down, NEW v \in Waits
          PROVE  HeardStatus(HeardLoss(ws, None), "failed")[v].state # "wait"
      <4>1. ws[v].state = "wait" => ws[v].kind = "ready"
        BY <2>2, <2>7, <3>1 DEF Awaiting
      <4>2. HeardLoss(ws, None)[v].state = "wait" =>
              HeardLoss(ws, None)[v].kind = "ready" /\ HeardLoss(ws, None)[v].since
        BY <2>2, <4>1, LossOfOne
      <4>. QED BY <2>3, <4>2, StatusIsHeard
    <3>. QED BY <3>1 DEF Unawaited
  <2>9. AskedFor(HeardStatus(ws, status), ws, ws)
    BY <2>2, <2>3, <2>4, <2>5, <2>6, <2>7, <2>8, NewFrameIsFree DEF AskedFor
  <2>. QED BY <2>1, <2>9, AsksKeeps
<1>. QED BY <1>1, <1>2
LEMMA GetTransportKeeps ==
  ASSUME FrameAssumption, IInv, NEW w \in Waits, GetTransport(w)
  PROVE  IInv'
<1>. USE Known
<1>1. CASE held # None /\ status \in {"failed", "booting"}
  <2>1. waits' = Wait(w, "got", "store", None) /\ slot' = slot
    BY <1>1 DEF GetTransport
  <2>2. waits' \in [Waits -> WaitType] /\ Awaiting(waits, slot)'
    BY <2>1, CallsAtOnce DEF Awaiting
  <2>. QED BY <1>1, <2>2, WaitsOnly DEF GetTransport
<1>2. CASE ~(held # None /\ status \in {"failed", "booting"})
  <2>. DEFINE ws == IF slot # None /\ Loaded(slot) THEN Wait(w, "got", "store", None)
                                                   ELSE Wait(w, "wait", "store", slot)
              wsBooted == Wait(w, "wait", "store", NewFrame)
              wsUnbuilt == Wait(w, "failed", "store", None)
  <2>1. Asks(ws, wsBooted, wsUnbuilt) /\ ~mismatch /\ UNCHANGED <<held, mismatch, configVars, eager, asking>>
    BY <1>2 DEF GetTransport, Runs
  <2>2. wsUnbuilt \in [Waits -> WaitType] /\ Awaiting(wsUnbuilt, slot)
    BY CallsAtOnce
  <2>3. ws \in [Waits -> WaitType] /\ (status \notin Down => Awaiting(ws, slot))
    <3>1. CASE slot # None /\ Loaded(slot)
      BY <3>1, CallsAtOnce
    <3>2. CASE ~(slot # None /\ Loaded(slot))
      <4>1. /\ Wait(w, "wait", "store", slot) \in [Waits -> WaitType]
            /\ Wait(w, "wait", "store", slot)[w].frame = slot
            /\ \A v \in Waits \ {w} : Wait(w, "wait", "store", slot)[v] = waits[v]
        BY WaitIs
      <4>2. status \notin Down => slot # None
        BY DEF FramesAreKept, Down, TypeOK
      <4>. QED BY <3>2, <4>1, <4>2 DEF Awaiting
    <3>. QED BY <3>1, <3>2
  <2>4. status \in Down => slot = None
    BY DEF FramesAreKept, Down
  <2>5. HeardStatus(HeardLoss(wsUnbuilt, None), "failed") \in [Waits -> WaitType]
        /\ (status \in Down => Unawaited(HeardStatus(HeardLoss(wsUnbuilt, None), "failed")))
    <3>. HIDE DEF wsUnbuilt
    <3>1. HeardLoss(wsUnbuilt, None) \in [Waits -> WaitType]
      BY <2>2, LossIsHeard
    <3>2. HeardStatus(HeardLoss(wsUnbuilt, None), "failed") \in [Waits -> WaitType]
      BY <3>1, StatusIsHeard
    <3>. QED BY <2>2, <2>4, <3>2, LossEnds
  <2>6. CanBoot /\ status \in Down => wsBooted \in [Waits -> WaitType] /\ Awaiting(wsBooted, NewFrame)
    <3>1. CanBoot => /\ Wait(w, "wait", "store", NewFrame) \in [Waits -> WaitType]
                     /\ Wait(w, "wait", "store", NewFrame)[w].frame = NewFrame
                     /\ \A v \in Waits \ {w} : Wait(w, "wait", "store", NewFrame)[v] = waits[v]
      BY WaitIs, NewFrameIsFree
    <3>. QED BY <2>4, <3>1, NewFrameIsFree DEF Awaiting
  <2>7. AskedFor(ws, wsBooted, wsUnbuilt)
    BY <2>3, <2>5, <2>6 DEF AskedFor
  <2>. QED BY <2>1, <2>7, AsksKeeps
<1>. QED BY <1>1, <1>2

LEMMA ChecksKeep ==
  ASSUME FrameAssumption, IInv, FirstConfig \/ (\E f \in Frames : CheckAlive(f)) \/ Answers \/ AnswersNot
  PROVE  IInv'
<1>. USE Known
<1>1. CASE FirstConfig
  <2>1. TypeOK' /\ Awaited'
    BY <1>1 DEF FirstConfig, TypeOK, Awaited, Awaiting
  <2>2. FramesAreKept' /\ MismatchIsFinal' /\ Live' /\ Lost'
    BY <1>1 DEF FirstConfig, FramesAreKept, MismatchIsFinal, Live, Lost
  <2>. QED BY <2>1, <2>2 DEF IInv, FramesAreSound
<1>2. CASE (\E f \in Frames : CheckAlive(f)) \/ Answers
  <2>1. TypeOK' /\ Awaited'
    BY <1>2 DEF CheckAlive, Answers, frameVars, configVars, TypeOK, Awaited, Awaiting
  <2>2. FramesAreKept' /\ MismatchIsFinal' /\ Live' /\ Lost'
    BY <1>2 DEF CheckAlive, Answers, frameVars, FramesAreKept, MismatchIsFinal, Live, Lost
  <2>. QED BY <2>1, <2>2 DEF IInv, FramesAreSound
<1>3. CASE AnswersNot
  <2>1. TypeOK' /\ Awaited'
    BY <1>3 DEF AnswersNot, frameVars, configVars, TypeOK, Awaited, Awaiting
  <2>2. FramesAreKept' /\ MismatchIsFinal'
    BY <1>3 DEF AnswersNot, frameVars, FramesAreKept, MismatchIsFinal
  <2>3. Live' /\ Lost'
    BY <1>3 DEF AnswersNot, frameVars, Live, Lost, TypeOK
  <2>. QED BY <2>1, <2>2, <2>3 DEF IInv, FramesAreSound
<1>. QED BY <1>1, <1>2, <1>3

----------------------------------------------------------------------------
(* The invariant holds in every state. *)

LEMMA StepKeepsInvariant == FrameAssumption /\ IInv /\ [Next]_vars => IInv'
<1> SUFFICES ASSUME FrameAssumption, IInv, [Next]_vars PROVE IInv'
  OBVIOUS
<1>1. CASE UNCHANGED vars
  <2>1. TypeOK' /\ Awaited'
    BY <1>1, Known DEF vars, configVars, TypeOK, Awaited, Awaiting
  <2>2. FramesAreKept' /\ MismatchIsFinal' /\ Live' /\ Lost'
    BY <1>1, Known DEF vars, FramesAreKept, MismatchIsFinal, Live, Lost
  <2>. QED BY <2>1, <2>2 DEF IInv, FramesAreSound
<1>2. ASSUME NEW f \in Frames, Keeps(f) PROVE IInv'
  BY <1>2, FrameLoadsKeeps, ConnectsKeeps, HearListeningKeeps, HearReadyKeeps, StaleFailsKeeps, HoldsKeeps,
     LosesKeeps, LosesEagerlyKeeps, RefusesKeeps, KeepOnKeeps DEF Keeps
<1>3. ASSUME NEW f \in Frames, StatusEnds(f, "error") \/ StatusEnds(f, "init") PROVE IInv'
  <2>1. "error" \in {"error", "init"} /\ "init" \in {"error", "init"}
    OBVIOUS
  <2>. QED BY <1>3, <2>1, StatusEndsKeeps
<1>4. ASSUME NEW w \in Waits, Serves(w) PROVE IInv'
  BY <1>4, WaitForConfigKeeps, MismatchedKeeps, ConfigTimeoutKeeps, WaitUntilReadyKeeps, GetTransportKeeps
     DEF Serves
<1>5. ASSUME NEW ahead \in BOOLEAN, Reconfigure(ahead) PROVE IInv'
  BY <1>5, ReconfigureKeeps
<1>. QED BY <1>1, <1>2, <1>3, <1>4, <1>5, BackoffEndsKeeps, ChecksKeep DEF Next

\* The page has the frames its books say it has: every frame in the document is the slot's or the held one, the
\* slot's has the one keeper that is not aborted, and none is left or built after a refused wire version
\* (keepFrame, dropHeld, loseFrame).
THEOREM FramesSound == Spec => []FramesAreSound
<1>1. Init => IInv
  BY InitInvariant, FrameAssumption
<1>2. IInv /\ [Next]_vars => IInv'
  BY StepKeepsInvariant, FrameAssumption
<1>3. IInv => FramesAreSound
  BY DEF IInv
<1>. QED BY <1>1, <1>2, <1>3, PTL DEF Spec
----------------------------------------------------------------------------
(* Waits get the frame. *)

\* What a step may do to the wait of one caller.
Served(w) ==
  waits'[w] # waits[w] =>
    /\ waits'[w].state = "got" /\ waits'[w].kind = "ready" => status' = "ready" /\ slot' # None
    /\ waits'[w].state = "got" /\ waits[w].state = "wait" /\ waits[w].kind = "store" => waits[w].frame = slot'
    /\ waits'[w].state = "failed" /\ waits[w].state = "wait" => slot' # slot
    /\ waits'[w].state = "failed" /\ waits[w].state # "wait" => status' = "failed" \/ ~configured

\* Waits that go on or fail, with the others as they are.
Fail(ws, res) ==
  \A w \in Waits : res[w] = ws[w] \/ (ws[w].state = "wait" /\ res[w].state \in {"wait", "failed"})

LEMMA LossFails ==
  ASSUME None \notin Frames, NEW ws \in [Waits -> WaitType], NEW f
  PROVE  HeardLoss(ws, f) \in [Waits -> WaitType] /\ Fail(ws, HeardLoss(ws, f))
<1>1. ASSUME NEW w \in Waits
      PROVE  \/ HeardLoss(ws, f)[w] = ws[w]
             \/ ws[w].state = "wait" /\ HeardLoss(ws, f)[w].state \in {"wait", "failed"}
  BY LossIsHeard
<1>. QED BY <1>1, LossIsHeard DEF Fail

LEMMA DownFails ==
  ASSUME None \notin Frames, NEW ws \in [Waits -> WaitType], NEW st \in {"failed", "idle"}
  PROVE  HeardStatus(ws, st) \in [Waits -> WaitType] /\ Fail(ws, HeardStatus(ws, st))
<1>1. ASSUME NEW w \in Waits
      PROVE  \/ HeardStatus(ws, st)[w] = ws[w]
             \/ ws[w].state = "wait" /\ HeardStatus(ws, st)[w].state = "failed"
  BY StatusIsHeard
<1>. QED BY <1>1, StatusIsHeard DEF Fail

\* A loss, with the status that says so.
LEMMA LostFails ==
  ASSUME None \notin Frames, NEW ws \in [Waits -> WaitType], NEW f, NEW st \in {"failed", "idle"}
  PROVE  Fail(ws, HeardStatus(HeardLoss(ws, f), st))
<1>1. HeardLoss(ws, f) \in [Waits -> WaitType] /\ Fail(ws, HeardLoss(ws, f))
  BY LossFails
<1>2. Fail(HeardLoss(ws, f), HeardStatus(HeardLoss(ws, f), st))
  BY <1>1, DownFails
<1>. QED BY <1>1, <1>2 DEF Fail

\* Those who wait may fail as the slot changes, and when it has no frame nobody waits.
LEMMA FailsWithTheSlot ==
  ASSUME FrameAssumption, IInv, Fail(waits, waits'), slot = None \/ slot' # slot
  PROVE  \A w \in Waits : Served(w)
<1>1. ASSUME NEW w \in Waits PROVE Served(w)
  <2>1. waits'[w] = waits[w] \/ (waits[w].state = "wait" /\ waits'[w].state \in {"wait", "failed"})
    BY DEF Fail
  <2>2. waits[w].state = "wait" => slot' # slot
    BY Known DEF Awaiting
  <2>. QED BY <2>1, <2>2 DEF Served
<1>. QED BY <1>1

LEMMA KeepsServes ==
  ASSUME FrameAssumption, IInv, NEW f \in Frames, Keeps(f)
  PROVE  \A w \in Waits : Served(w)
<1>. USE Known
<1>1. CASE FrameLoads(f)
  <2>1. ASSUME NEW w \in Waits PROVE Served(w)
    <3>1. \/ waits'[w] = waits[w]
          \/ /\ waits[w].state = "wait" /\ waits[w].kind = "store" /\ waits[w].frame = f
             /\ waits'[w].state = "got" /\ waits'[w].kind = "store"
      BY <1>1, LoadIsHeard DEF FrameLoads
    <3>2. slot' = slot
      BY <1>1 DEF FrameLoads
    <3>. QED BY <3>1, <3>2 DEF Served, Awaiting
  <2>. QED BY <2>1
<1>2. CASE HearReady(f)
  <2>1. waits' = HeardStatus(waits, "ready") /\ status' = "ready" /\ slot' = f
    BY <1>2 DEF HearReady
  <2>2. ASSUME NEW w \in Waits PROVE Served(w)
    <3>1. \/ waits'[w] = waits[w]
          \/ waits[w].kind = "ready" /\ waits'[w].state = "got"
      BY <2>1, StatusIsHeard
    <3>. QED BY <2>1, <3>1 DEF Served
  <2>. QED BY <2>2
<1>3. CASE Holds(f) \/ (\E stable \in BOOLEAN : Loses(f, stable)) \/ Refuses(f)
  <2>1. waits' = HeardStatus(HeardLoss(waits, f), "failed") /\ slot' = None /\ slot = f
    BY <1>3 DEF Holds, Loses, Refuses
  <2>. QED BY <2>1, LostFails, FailsWithTheSlot
<1>4. CASE LosesEagerly(f)
  <2>1. waits' = HeardLoss(waits, f) /\ slot' = NewFrame /\ slot = f /\ CanBoot
    BY <1>4 DEF LosesEagerly
  <2>2. NewFrame # f
    BY <2>1, BootsAFreeFrame DEF FramesAreKept
  <2>. QED BY <2>1, <2>2, LossFails, FailsWithTheSlot
<1>5. CASE Connects(f) \/ HearListening(f) \/ StaleFails(f) \/ KeepOn(f)
  BY <1>5 DEF Connects, HearListening, StaleFails, KeepOn, Served
<1>. QED BY <1>1, <1>2, <1>3, <1>4, <1>5 DEF Keeps

LEMMA ReconfigureServes ==
  ASSUME FrameAssumption, IInv, NEW ahead \in BOOLEAN, Reconfigure(ahead)
  PROVE  \A w \in Waits : Served(w)
<1>. USE Known
<1>. DEFINE dropped == {slot, held} \ {None}
            ws == HeardLoss(waits, slot)
            heard == IF ahead THEN ws ELSE HeardStatus(ws, "idle")
<1>1. ws \in [Waits -> WaitType] /\ Fail(waits, ws)
  BY LossFails
<1>2. heard \in [Waits -> WaitType] /\ Fail(ws, heard)
  BY <1>1, DownFails DEF Fail
<1>3. Fail(waits, heard)
  BY <1>1, <1>2 DEF Fail
<1>4. \/ Boots(dropped) /\ waits' = heard
      \/ Unbuilt(dropped) /\ waits' = HeardStatus(HeardLoss(heard, None), "failed")
  BY DEF Reconfigure
<1>5. Fail(heard, HeardStatus(HeardLoss(heard, None), "failed"))
  BY <1>2, LostFails
<1>6. Fail(waits, waits')
  BY <1>3, <1>4, <1>5 DEF Fail
<1>7. slot = None \/ slot' # slot
  BY <1>4, BootsAFreeFrame DEF Boots, Unbuilt, FramesAreKept
<1>. QED BY <1>6, <1>7, FailsWithTheSlot

LEMMA BackoffServes ==
  ASSUME FrameAssumption, IInv, BackoffEnds
  PROVE  \A w \in Waits : Served(w)
<1>. USE Known
<1>1. slot = None
  BY DEF BackoffEnds, FramesAreKept
<1>2. Fail(waits, waits')
  BY LostFails DEF BackoffEnds, Fail
<1>. QED BY <1>1, <1>2, FailsWithTheSlot

\* A call that waits for nothing yet fails at once only as the frame is down.
LEMMA AsksServes ==
  ASSUME FrameAssumption, IInv, NEW ws, NEW wsBooted, NEW wsUnbuilt \in [Waits -> WaitType],
         Asks(ws, wsBooted, wsUnbuilt), NEW w \in Waits, waits[w].state # "wait",
         \A v \in Waits \ {w} : wsBooted[v] = waits[v] /\ wsUnbuilt[v] = waits[v],
         wsBooted[w].state = "wait" /\ wsUnbuilt[w].state \in {"wait", "failed"},
         status \in Down => ~mismatch,
         status \notin Down => \A v \in Waits \ {w} :
           \/ ws[v] = waits[v]
           \/ status = "ready" /\ waits[v].kind = "ready" /\ ws[v].state = "got" /\ ws[v].kind = "ready",
         status \notin Down => \/ ws[w].state = "wait"
                               \/ ws[w].state = "got" /\ (ws[w].kind = "ready" => status = "ready")
  PROVE  \A v \in Waits : Served(v)
<1>. USE Known
<1>1. CASE status \in Down
  <2>1. slot = None
    BY <1>1 DEF FramesAreKept, Down
  <2>2. Fail(wsUnbuilt, HeardStatus(HeardLoss(wsUnbuilt, None), "failed"))
    BY LostFails
  <2>3. ASSUME NEW v \in Waits PROVE Served(v)
    <3>1. waits[v].state # "wait"
      BY <2>1 DEF Awaiting
    <3>2. \/ Boots({}) /\ waits' = wsBooted
          \/ Unbuilt({}) /\ waits' = HeardStatus(HeardLoss(wsUnbuilt, None), "failed")
      BY <1>1 DEF Asks
    <3>3. CASE v # w
      BY <2>2, <3>1, <3>2, <3>3 DEF Served, Fail
    <3>4. CASE v = w
      BY <2>2, <3>1, <3>2, <3>4 DEF Served, Fail, Unbuilt
    <3>. QED BY <3>3, <3>4
  <2>. QED BY <2>3
<1>2. CASE status \notin Down
  <2>1. waits' = ws /\ UNCHANGED <<status, slot>>
    BY <1>2 DEF Asks
  <2>2. status = "ready" => slot # None
    BY DEF FramesAreKept
  <2>3. ASSUME NEW v \in Waits PROVE Served(v)
    <3>1. CASE v # w
      BY <1>2, <2>1, <2>2, <3>1 DEF Served
    <3>2. CASE v = w
      BY <1>2, <2>1, <2>2, <3>2 DEF Served
    <3>. QED BY <3>1, <3>2
  <2>. QED BY <2>3
<1>. QED BY <1>1, <1>2

\* A call that is settled at once.
LEMMA AtOnceServes ==
  ASSUME FrameAssumption, IInv, NEW w \in Waits, NEW state \in {"config", "got", "failed"},
         NEW kind \in {"ready", "store"}, waits' = Wait(w, state, kind, None), waits[w].state # "wait",
         state = "got" => kind = "store", state = "failed" => status' = "failed" \/ ~configured
  PROVE  \A v \in Waits : Served(v)
<1>0. None \in Frames \cup {None} /\ state \in {"idle", "config", "wait", "got", "failed"}
  OBVIOUS
<1>1. /\ waits'[w].state = state /\ waits'[w].kind = kind
      /\ \A v \in Waits \ {w} : waits'[v] = waits[v]
  BY <1>0, WaitIs
<1>. QED BY <1>1 DEF Served
LEMMA WaitUntilReadyServes ==
  ASSUME FrameAssumption, IInv, NEW w \in Waits, WaitUntilReady(w)
  PROVE  \A v \in Waits : Served(v)
<1>. USE Known
<1>1. waits[w].state # "wait" /\ ~mismatch
  BY DEF WaitUntilReady, Runs, Calls
<1>2. CASE held # None /\ status = "failed"
  <2>1. waits' = Wait(w, "failed", "ready", None) /\ status' = "failed"
    BY <1>2 DEF WaitUntilReady
  <2>. QED BY <1>1, <2>1, AtOnceServes
<1>3. CASE ~(held # None /\ status = "failed")
  <2>. DEFINE ws == Wait(w, "wait", "ready", None)
  <2>1. Asks(HeardStatus(ws, status), ws, ws)
    BY <1>3 DEF WaitUntilReady
  <2>2. /\ ws \in [Waits -> WaitType] /\ ws[w].state = "wait" /\ ws[w].kind = "ready"
        /\ \A v \in Waits \ {w} : ws[v] = waits[v]
    <3>1. None \in Frames \cup {None}
      OBVIOUS
    <3>. QED BY <3>1, WaitIs
  <2>. HIDE DEF ws
  <2>3. ASSUME NEW v \in Waits, status \notin Down
        PROVE  \/ HeardStatus(ws, status)[v] = ws[v]
               \/ /\ status = "ready" /\ ws[v].state = "wait" /\ ws[v].kind = "ready"
                  /\ HeardStatus(ws, status)[v].state = "got" /\ HeardStatus(ws, status)[v].kind = "ready"
    BY <2>2, <2>3, StatusIsHeard DEF Down
  <2>4. /\ status \notin Down => \A v \in Waits \ {w} :
             \/ HeardStatus(ws, status)[v] = waits[v]
             \/ /\ status = "ready" /\ waits[v].kind = "ready"
                /\ HeardStatus(ws, status)[v].state = "got" /\ HeardStatus(ws, status)[v].kind = "ready"
        /\ status \notin Down => \/ HeardStatus(ws, status)[w].state = "wait"
                                 \/ /\ HeardStatus(ws, status)[w].state = "got"
                                    /\ HeardStatus(ws, status)[w].kind = "ready" => status = "ready"
    BY <2>2, <2>3
  <2>. QED BY <1>1, <2>1, <2>2, <2>4, AsksServes
<1>. QED BY <1>2, <1>3

LEMMA GetTransportServes ==
  ASSUME FrameAssumption, IInv, NEW w \in Waits, GetTransport(w)
  PROVE  \A v \in Waits : Served(v)
<1>. USE Known
<1>1. waits[w].state # "wait" /\ ~mismatch
  BY DEF GetTransport, Runs, Calls
<1>2. CASE held # None /\ status \in {"failed", "booting"}
  <2>1. waits' = Wait(w, "got", "store", None)
    BY <1>2 DEF GetTransport
  <2>. QED BY <1>1, <2>1, AtOnceServes
<1>3. CASE ~(held # None /\ status \in {"failed", "booting"})
  <2>. DEFINE ws == IF slot # None /\ Loaded(slot) THEN Wait(w, "got", "store", None)
                                                   ELSE Wait(w, "wait", "store", slot)
              wsBooted == Wait(w, "wait", "store", NewFrame)
              wsUnbuilt == Wait(w, "failed", "store", None)
  <2>1. Asks(ws, wsBooted, wsUnbuilt)
    BY <1>3 DEF GetTransport
  <2>2. None \in Frames \cup {None}
    OBVIOUS
  <2>3. /\ wsUnbuilt \in [Waits -> WaitType] /\ wsUnbuilt[w].state = "failed"
        /\ \A v \in Waits \ {w} : wsUnbuilt[v] = waits[v]
    BY <2>2, WaitIs
  <2>4. wsBooted[w].state = "wait" /\ \A v \in Waits \ {w} : wsBooted[v] = waits[v]
    BY DEF Wait
  <2>5. /\ \A v \in Waits \ {w} : ws[v] = waits[v]
        /\ ws[w].state = "wait" \/ (ws[w].state = "got" /\ ws[w].kind = "store")
    <3>1. /\ Wait(w, "got", "store", None)[w].state = "got" /\ Wait(w, "got", "store", None)[w].kind = "store"
          /\ \A v \in Waits \ {w} : Wait(w, "got", "store", None)[v] = waits[v]
      BY <2>2, WaitIs
    <3>2. /\ Wait(w, "wait", "store", slot)[w].state = "wait"
          /\ \A v \in Waits \ {w} : Wait(w, "wait", "store", slot)[v] = waits[v]
      BY WaitIs
    <3>. QED BY <3>1, <3>2
  <2>. HIDE DEF ws, wsBooted, wsUnbuilt
  <2>. QED BY <1>1, <2>1, <2>3, <2>4, <2>5, AsksServes
<1>. QED BY <1>2, <1>3

LEMMA ServesServes ==
  ASSUME FrameAssumption, IInv, NEW w \in Waits, Serves(w)
  PROVE  \A v \in Waits : Served(v)
<1>1. ASSUME NEW kind \in {"ready", "store"}, WaitForConfig(w, kind) PROVE \A v \in Waits : Served(v)
  <2>1. waits' = Wait(w, "config", kind, None) /\ waits[w].state # "wait"
    BY <1>1 DEF WaitForConfig
  <2>. QED BY <2>1, AtOnceServes
<1>2. ASSUME NEW kind \in {"ready", "store"}, Mismatched(w, kind) PROVE \A v \in Waits : Served(v)
  <2>1. waits' = Wait(w, "failed", kind, None) /\ waits[w].state # "wait"
    BY <1>2 DEF Mismatched, Calls
  <2>2. status' = "failed"
    BY <1>2, Known DEF Mismatched, MismatchIsFinal
  <2>. QED BY <2>1, <2>2, AtOnceServes
<1>3. CASE ConfigTimeout(w)
  <2>1. PICK kind \in {"ready", "store"} : kind = waits[w].kind
    BY Known DEF WaitType
  <2>2. waits' = Wait(w, "failed", kind, None) /\ waits[w].state # "wait" /\ ~configured
    BY <1>3, <2>1 DEF ConfigTimeout
  <2>. QED BY <2>2, AtOnceServes
<1>. QED BY <1>1, <1>2, <1>3, WaitUntilReadyServes, GetTransportServes DEF Serves

LEMMA StepServes == FrameAssumption /\ IInv /\ [Next]_vars => \A w \in Waits : Served(w)
<1> SUFFICES ASSUME FrameAssumption, IInv, [Next]_vars PROVE \A w \in Waits : Served(w)
  OBVIOUS
<1>1. CASE UNCHANGED waits
  BY <1>1 DEF Served
<1>2. ASSUME NEW f \in Frames, StatusEnds(f, "error") \/ StatusEnds(f, "init") \/ CheckAlive(f)
      PROVE  UNCHANGED waits
  BY <1>2 DEF StatusEnds, CheckAlive, frameVars
<1>3. FirstConfig \/ Answers \/ AnswersNot \/ UNCHANGED vars => UNCHANGED waits
  BY DEF FirstConfig, Answers, AnswersNot, frameVars, vars
<1>. QED BY <1>1, <1>2, <1>3, KeepsServes, ServesServes, BackoffServes, ReconfigureServes DEF Next

\* A caller that gets a transport gets that of a frame which is then there, the store's the one it saw load. Its wait
\* fails only as its frame goes, and a call fails at once only with the frame down (waitUntilReady, getTransport).
THEOREM WaitsAreServed == Spec => WaitsGetTheFrame
<1>1. Init => IInv
  BY InitInvariant, FrameAssumption
<1>2. IInv /\ [Next]_vars => IInv'
  BY StepKeepsInvariant, FrameAssumption
<1>. DEFINE A == \A w \in Waits : Served(w)
<1>3. IInv /\ [Next]_vars => [A]_vars
  BY StepServes, FrameAssumption
<1>. HIDE DEF A
<1>4. Spec => [][A]_vars
  BY <1>1, <1>2, <1>3, PTL DEF Spec
<1>. QED BY <1>4 DEF A, Served, WaitsGetTheFrame

----------------------------------------------------------------------------
(* The line: who asked the store, in the order in which they are answered. *)

\* Of a sequence: what is on it, and what is ahead of what.
On(q, m) == \E i \in DOMAIN q : q[i] = m
Ahead(q, m, n) == \E i, j \in DOMAIN q : i < j /\ q[i] = m /\ q[j] = n

Askings == Askers \cup {"cast"}
Message == [who : Askings, val : Saved \cup {Failed}]
Whos(in) == [i \in DOMAIN in |-> in[i].who]

\* Who waits, and who is answered before whom: those on their way to the page, and then those that wait to run.
InLine(in, o, m) == On(Whos(in), m) \/ On(o, m)
Before(in, o, m, n) == Ahead(Whos(in), m, n) \/ Ahead(o, m, n) \/ (On(Whos(in), m) /\ On(o, n))

Sent(m) == InLine(inbox, out, m)
AskedBefore(m, n) == Before(inbox, out, m, n)

LEMMA PopIs ==
  ASSUME NEW S, NEW q \in Seq(S), q # <<>>
  PROVE  /\ Tail(q) \in Seq(S) /\ Head(q) \in S
         /\ \A m : On(q, m) <=> m = Head(q) \/ On(Tail(q), m)
         /\ \A m, n : Ahead(q, m, n) <=> Ahead(Tail(q), m, n) \/ (m = Head(q) /\ On(Tail(q), n))
<1>. DEFINE t == Tail(q)
<1>1. /\ t \in Seq(S) /\ DOMAIN t = 1 .. Len(q) - 1 /\ DOMAIN q = 1 .. Len(q)
      /\ Len(q) \in Nat \ {0} /\ 1 \in DOMAIN q /\ Head(q) = q[1] /\ Head(q) \in S
      /\ \A i \in DOMAIN t : i + 1 \in DOMAIN q /\ t[i] = q[i + 1]
      /\ \A i \in DOMAIN q : i # 1 => i - 1 \in DOMAIN t /\ t[i - 1] = q[i]
  OBVIOUS
<1>. HIDE DEF t
<1>2. \A m : On(q, m) <=> m = Head(q) \/ On(t, m)
  <2>1. ASSUME NEW m, On(t, m) PROVE On(q, m)
    BY <1>1, <2>1 DEF On
  <2>2. ASSUME NEW m, On(q, m), m # Head(q) PROVE On(t, m)
    BY <1>1, <2>2 DEF On
  <2>3. On(q, Head(q))
    BY <1>1 DEF On
  <2>. QED BY <2>1, <2>2, <2>3
<1>3. ASSUME NEW m, NEW n, Ahead(t, m, n) PROVE Ahead(q, m, n)
  <2>1. PICK i, j \in DOMAIN t : i < j /\ t[i] = m /\ t[j] = n
    BY <1>3 DEF Ahead
  <2>2. i + 1 \in DOMAIN q /\ j + 1 \in DOMAIN q /\ i + 1 < j + 1 /\ q[i + 1] = m /\ q[j + 1] = n
    BY <1>1, <2>1
  <2>. QED BY <2>2 DEF Ahead
<1>4. ASSUME NEW n, On(t, n) PROVE Ahead(q, Head(q), n)
  <2>1. PICK j \in DOMAIN t : t[j] = n
    BY <1>4 DEF On
  <2>2. j + 1 \in DOMAIN q /\ 1 < j + 1 /\ q[j + 1] = n
    BY <1>1, <2>1
  <2>. QED BY <1>1, <2>2 DEF Ahead
<1>5. ASSUME NEW m, NEW n, Ahead(q, m, n) PROVE Ahead(t, m, n) \/ (m = Head(q) /\ On(t, n))
  <2>1. PICK i, j \in DOMAIN q : i < j /\ q[i] = m /\ q[j] = n
    BY <1>5 DEF Ahead
  <2>2. j # 1 /\ j - 1 \in DOMAIN t /\ t[j - 1] = n
    BY <1>1, <2>1
  <2>3. CASE i = 1
    BY <1>1, <2>1, <2>2, <2>3 DEF On
  <2>4. CASE i # 1
    <3>1. i - 1 \in DOMAIN t /\ t[i - 1] = m /\ i - 1 < j - 1
      BY <1>1, <2>1, <2>4
    <3>. QED BY <2>2, <3>1 DEF Ahead
  <2>. QED BY <2>3, <2>4
<1>. QED BY <1>1, <1>2, <1>3, <1>4, <1>5 DEF t

LEMMA PushIs ==
  ASSUME NEW S, NEW q \in Seq(S), NEW x \in S
  PROVE  /\ Append(q, x) \in Seq(S) /\ Append(q, x) # <<>>
         /\ \A m : On(Append(q, x), m) <=> On(q, m) \/ m = x
         /\ \A m, n : Ahead(Append(q, x), m, n) <=> Ahead(q, m, n) \/ (On(q, m) /\ n = x)
<1>. DEFINE t == Append(q, x)
<1>1. PICK k \in Nat : k = Len(q)
  OBVIOUS
<1>2. /\ t \in Seq(S) /\ DOMAIN q = 1 .. k /\ DOMAIN t = 1 .. k + 1 /\ t # <<>>
      /\ t[k + 1] = x /\ \A i \in 1 .. k : t[i] = q[i]
  BY <1>1
<1>. HIDE DEF t
<1>3. \A m : On(t, m) <=> On(q, m) \/ m = x
  <2>1. ASSUME NEW m, On(q, m) PROVE On(t, m)
    BY <1>2, <2>1 DEF On
  <2>2. On(t, x)
    BY <1>2 DEF On
  <2>3. ASSUME NEW m, On(t, m), m # x PROVE On(q, m)
    BY <1>2, <2>3 DEF On
  <2>. QED BY <2>1, <2>2, <2>3
<1>4. ASSUME NEW m, NEW n, Ahead(q, m, n) PROVE Ahead(t, m, n)
  BY <1>2, <1>4 DEF Ahead
<1>5. ASSUME NEW m, On(q, m) PROVE Ahead(t, m, x)
  <2>1. PICK i \in 1 .. k : q[i] = m
    BY <1>2, <1>5 DEF On
  <2>2. i \in DOMAIN t /\ k + 1 \in DOMAIN t /\ i < k + 1 /\ t[i] = m /\ t[k + 1] = x
    BY <1>2, <2>1
  <2>. QED BY <2>2 DEF Ahead
<1>6. ASSUME NEW m, NEW n, Ahead(t, m, n) PROVE Ahead(q, m, n) \/ (On(q, m) /\ n = x)
  <2>1. PICK i, j \in DOMAIN t : i < j /\ t[i] = m /\ t[j] = n
    BY <1>6 DEF Ahead
  <2>2. i \in DOMAIN q /\ q[i] = m
    BY <1>2, <2>1
  <2>3. CASE j = k + 1
    BY <1>2, <2>1, <2>2, <2>3 DEF On
  <2>4. CASE j # k + 1
    <3>1. j \in DOMAIN q /\ q[j] = n
      BY <1>2, <2>1, <2>4
    <3>. QED BY <2>1, <2>2, <3>1 DEF Ahead
  <2>. QED BY <2>3, <2>4
<1>. QED BY <1>2, <1>3, <1>4, <1>5, <1>6 DEF t

LEMMA FunctionIsSeq ==
  ASSUME NEW S, NEW n \in Nat, NEW f \in [1 .. n -> S]
  PROVE  f \in Seq(S) /\ Len(f) = n /\ DOMAIN f = 1 .. n
OBVIOUS

LEMMA WhosIs ==
  ASSUME NEW in \in Seq(Message)
  PROVE  /\ Whos(in) \in Seq(Askings) /\ Len(Whos(in)) = Len(in) /\ DOMAIN Whos(in) = DOMAIN in
         /\ \A i \in DOMAIN in : Whos(in)[i] = in[i].who
<1>1. Len(in) \in Nat /\ DOMAIN in = 1 .. Len(in) /\ \A i \in 1 .. Len(in) : in[i] \in Message
  OBVIOUS
<1>2. \A i \in 1 .. Len(in) : in[i].who \in Askings
  BY <1>1 DEF Message
<1>. QED BY <1>1, <1>2 DEF Whos

LEMMA WhosPop ==
  ASSUME NEW in \in Seq(Message), in # <<>>
  PROVE  Whos(in) # <<>> /\ Whos(Tail(in)) = Tail(Whos(in)) /\ Head(Whos(in)) = Head(in).who
<1>1. PICK t : t = Tail(in)
  OBVIOUS
<1>2. PICK n \in Nat \ {0} : n = Len(in)
  OBVIOUS
<1>3. t \in Seq(Message) /\ Len(t) = n - 1 /\ DOMAIN in = 1 .. n /\ Head(in) = in[1] /\ \A i \in 1 .. n - 1 : t[i] = in[i + 1]
  BY <1>1, <1>2, HeadTailProperties
<1>4. PICK w : w = Whos(in)
  OBVIOUS
<1>5. PICK v : v = Whos(t)
  OBVIOUS
<1>6. w \in Seq(Askings) /\ Len(w) = n /\ \A i \in 1 .. n : w[i] = in[i].who
  BY <1>2, <1>3, <1>4, WhosIs
<1>7. v \in Seq(Askings) /\ Len(v) = n - 1 /\ \A i \in 1 .. n - 1 : v[i] = t[i].who
  BY <1>3, <1>5, WhosIs
<1>8. w # <<>> /\ Tail(w) \in Seq(Askings) /\ Len(Tail(w)) = n - 1 /\ \A i \in 1 .. n - 1 : Tail(w)[i] = w[i + 1]
  BY <1>6, HeadTailProperties
<1>9. v = Tail(w)
  <2>1. \A i \in 1 .. n - 1 : v[i] = Tail(w)[i]
    BY <1>3, <1>6, <1>7, <1>8
  <2>. QED BY <1>7, <1>8, <2>1, SeqEqual
<1>10. Head(w) = in[1].who
  BY <1>6
<1>. QED BY <1>1, <1>3, <1>4, <1>5, <1>8, <1>9, <1>10

LEMMA WhosPush ==
  ASSUME NEW in \in Seq(Message), NEW m \in Message
  PROVE  Append(in, m) \in Seq(Message) /\ Whos(Append(in, m)) = Append(Whos(in), m.who) /\ m.who \in Askings
<1>1. Append(in, m) \in Seq(Message) /\ m.who \in Askings
  BY DEF Message
<1>2. PICK n \in Nat : n = Len(in)
  OBVIOUS
<1>3. /\ Len(Append(in, m)) = n + 1 /\ DOMAIN in = 1 .. n /\ DOMAIN Append(in, m) = 1 .. n + 1
      /\ Append(in, m)[n + 1] = m /\ \A i \in 1 .. n : Append(in, m)[i] = in[i]
  BY <1>2
<1>4. PICK v : v = Whos(in)
  OBVIOUS
<1>5. PICK u : u = Whos(Append(in, m))
  OBVIOUS
<1>6. v \in Seq(Askings) /\ Len(v) = n /\ \A i \in 1 .. n : v[i] = in[i].who
  BY <1>2, <1>3, <1>4, WhosIs
<1>7. u \in Seq(Askings) /\ Len(u) = n + 1 /\ \A i \in 1 .. n + 1 : u[i] = Append(in, m)[i].who
  BY <1>1, <1>3, <1>5, WhosIs
<1>8. u[n + 1] = m.who /\ \A i \in 1 .. n : u[i] = v[i]
  BY <1>3, <1>6, <1>7
<1>9. u = Append(v, m.who)
  BY <1>1, <1>6, <1>7, <1>8
<1>. QED BY <1>1, <1>4, <1>5, <1>9

----------------------------------------------------------------------------
(* What becomes of a line. *)

\* A message that arrives leaves the line.
LEMMA LinePops ==
  ASSUME NEW in \in Seq(Message), NEW o \in Seq(Askers), in # <<>>
  PROVE  /\ Tail(in) \in Seq(Message) /\ Head(in) \in Message
         /\ \A m : InLine(in, o, m) <=> m = Head(in).who \/ InLine(Tail(in), o, m)
         /\ \A m, n : Before(in, o, m, n) <=>
              Before(Tail(in), o, m, n) \/ (m = Head(in).who /\ InLine(Tail(in), o, n))
<1>1. Tail(in) \in Seq(Message) /\ Head(in) \in Message
  OBVIOUS
<1>2. PICK w : w = Whos(in)
  OBVIOUS
<1>3. PICK t : t = Whos(Tail(in))
  OBVIOUS
<1>4. w \in Seq(Askings) /\ w # <<>> /\ t = Tail(w) /\ Head(w) = Head(in).who
  BY <1>2, <1>3, WhosIs, WhosPop
<1>5. /\ \A m : On(w, m) <=> m = Head(in).who \/ On(t, m)
      /\ \A m, n : Ahead(w, m, n) <=> Ahead(t, m, n) \/ (m = Head(in).who /\ On(t, n))
  BY <1>4, PopIs
<1>. QED BY <1>1, <1>2, <1>3, <1>5 DEF InLine, Before

\* A request that is sent joins the line.
LEMMA LinePushes ==
  ASSUME NEW in \in Seq(Message), NEW o \in Seq(Askers), NEW w \in Askers
  PROVE  /\ Append(o, w) \in Seq(Askers)
         /\ \A m : InLine(in, Append(o, w), m) <=> InLine(in, o, m) \/ m = w
         /\ \A m, n : Before(in, Append(o, w), m, n) <=> Before(in, o, m, n) \/ (InLine(in, o, m) /\ n = w)
<1>1. PICK p : p = Append(o, w)
  OBVIOUS
<1>2. /\ p \in Seq(Askers)
      /\ \A m : On(p, m) <=> On(o, m) \/ m = w
      /\ \A m, n : Ahead(p, m, n) <=> Ahead(o, m, n) \/ (On(o, m) /\ n = w)
  BY <1>1, PushIs
<1>. QED BY <1>1, <1>2 DEF InLine, Before

\* A request that is answered keeps its place.
Answered(in, o, b) == Append(in, [who |-> Head(o), val |-> b])

LEMMA LineMoves ==
  ASSUME NEW in \in Seq(Message), NEW o \in Seq(Askers), o # <<>>, NEW b \in Saved \cup {Failed}
  PROVE  /\ Answered(in, o, b) \in Seq(Message) /\ Tail(o) \in Seq(Askers) /\ Head(o) \in Askers
         /\ \A m : InLine(Answered(in, o, b), Tail(o), m) <=> InLine(in, o, m)
         /\ \A m, n : Before(Answered(in, o, b), Tail(o), m, n) <=> Before(in, o, m, n)
<1>n. PICK next : next = Answered(in, o, b)
  OBVIOUS
<1>1. PICK h \in Askers : h = Head(o)
  OBVIOUS
<1>2. [who |-> h, val |-> b] \in Message /\ [who |-> h, val |-> b].who = h
  BY DEF Message, Askings
<1>3. next \in Seq(Message) /\ Whos(next) = Append(Whos(in), h) /\ h \in Askings
  <2>1. PICK m \in Message : m = [who |-> h, val |-> b] /\ m.who = h
    BY <1>2
  <2>2. next = Append(in, m)
    BY <1>1, <1>n, <2>1 DEF Answered
  <2>. QED BY <2>1, <2>2, WhosPush
<1>4. PICK w : w = Whos(in)
  OBVIOUS
<1>5. PICK v : v = Whos(next)
  OBVIOUS
<1>6. PICK t : t = Tail(o)
  OBVIOUS
<1>7. /\ \A m : On(v, m) <=> On(w, m) \/ m = h
      /\ \A m, n : Ahead(v, m, n) <=> Ahead(w, m, n) \/ (On(w, m) /\ n = h)
  BY <1>3, <1>4, <1>5, WhosIs, PushIs
<1>8. /\ t \in Seq(Askers) /\ \A m : On(o, m) <=> m = h \/ On(t, m)
      /\ \A m, n : Ahead(o, m, n) <=> Ahead(t, m, n) \/ (m = h /\ On(t, n))
  BY <1>1, <1>6, PopIs
<1>9. \A m : InLine(next, t, m) <=> InLine(in, o, m)
  BY <1>4, <1>5, <1>7, <1>8 DEF InLine
<1>10. \A m, n : Before(next, t, m, n) <=> Before(in, o, m, n)
  BY <1>4, <1>5, <1>7, <1>8 DEF Before
<1>. QED BY <1>1, <1>3, <1>6, <1>8, <1>9, <1>10, <1>n

\* A change of another tab is no request.
Relayed(in) == Append(in, [who |-> "cast", val |-> NoSession])

LEMMA LineHears ==
  ASSUME NEW in \in Seq(Message), NEW o \in Seq(Askers)
  PROVE  /\ Relayed(in) \in Seq(Message)
         /\ \A m \in Askers : InLine(Relayed(in), o, m) <=> InLine(in, o, m)
         /\ \A m, n \in Askers : Before(Relayed(in), o, m, n) <=> Before(in, o, m, n)
<1>n. PICK next : next = Relayed(in)
  OBVIOUS
<1>1. [who |-> "cast", val |-> NoSession] \in Message /\ [who |-> "cast", val |-> NoSession].who = "cast" /\ "cast" \notin Askers
  BY DEF Message, Askings, Saved, Askers
<1>2. next \in Seq(Message) /\ Whos(next) = Append(Whos(in), "cast") /\ "cast" \in Askings
  <2>1. PICK m \in Message : m = [who |-> "cast", val |-> NoSession] /\ m.who = "cast"
    BY <1>1
  <2>2. next = Append(in, m)
    BY <1>n, <2>1 DEF Relayed
  <2>. QED BY <2>1, <2>2, WhosPush
<1>3. PICK w : w = Whos(in) /\ w \in Seq(Askings)
  BY WhosIs
<1>4. /\ \A m : On(Whos(next), m) <=> On(w, m) \/ m = "cast"
      /\ \A m, n : Ahead(Whos(next), m, n) <=> Ahead(w, m, n) \/ (On(w, m) /\ n = "cast")
  <2>1. PICK v : v = Append(w, "cast")
    OBVIOUS
  <2>2. /\ \A m : On(v, m) <=> On(w, m) \/ m = "cast"
        /\ \A m, n : Ahead(v, m, n) <=> Ahead(w, m, n) \/ (On(w, m) /\ n = "cast")
    BY <1>2, <1>3, <2>1, PushIs
  <2>. QED BY <1>2, <1>3, <2>1, <2>2
<1>. QED BY <1>1, <1>2, <1>3, <1>4, <1>n DEF InLine, Before

LEMMA ConcatIs ==
  ASSUME NEW S, NEW q \in Seq(S), NEW ext \in Seq(S)
  PROVE  /\ q \o ext \in Seq(S)
         /\ \A m : On(q \o ext, m) <=> On(q, m) \/ On(ext, m)
         /\ \A m, n : Ahead(q \o ext, m, n) <=> Ahead(q, m, n) \/ Ahead(ext, m, n) \/ (On(q, m) /\ On(ext, n))
<1>. DEFINE t == q \o ext
<1>1. /\ t \in Seq(S) /\ DOMAIN q = 1 .. Len(q) /\ DOMAIN ext = 1 .. Len(ext)
      /\ DOMAIN t = 1 .. Len(q) + Len(ext) /\ Len(q) \in Nat /\ Len(ext) \in Nat
      /\ \A i \in DOMAIN q : i \in DOMAIN t /\ t[i] = q[i]
      /\ \A i \in DOMAIN ext : Len(q) + i \in DOMAIN t /\ t[Len(q) + i] = ext[i]
      /\ \A i \in DOMAIN t : i \in DOMAIN q \/ (i > Len(q) /\ i - Len(q) \in DOMAIN ext /\ t[i] = ext[i - Len(q)])
  OBVIOUS
<1>. HIDE DEF t
<1>2. \A m : On(t, m) <=> On(q, m) \/ On(ext, m)
  <2>1. ASSUME NEW m, On(q, m) PROVE On(t, m)
    BY <1>1, <2>1 DEF On
  <2>2. ASSUME NEW m, On(ext, m) PROVE On(t, m)
    BY <1>1, <2>2 DEF On
  <2>3. ASSUME NEW m, On(t, m) PROVE On(q, m) \/ On(ext, m)
    BY <1>1, <2>3 DEF On
  <2>. QED BY <2>1, <2>2, <2>3
<1>3. ASSUME NEW m, NEW n, Ahead(q, m, n) PROVE Ahead(t, m, n)
  BY <1>1, <1>3 DEF Ahead
<1>4. ASSUME NEW m, NEW n, Ahead(ext, m, n) PROVE Ahead(t, m, n)
  <2>1. PICK i, j \in DOMAIN ext : i < j /\ ext[i] = m /\ ext[j] = n
    BY <1>4 DEF Ahead
  <2>2. /\ Len(q) + i \in DOMAIN t /\ Len(q) + j \in DOMAIN t /\ Len(q) + i < Len(q) + j
        /\ t[Len(q) + i] = m /\ t[Len(q) + j] = n
    BY <1>1, <2>1
  <2>. QED BY <2>2 DEF Ahead
<1>5. ASSUME NEW m, NEW n, On(q, m), On(ext, n) PROVE Ahead(t, m, n)
  <2>1. PICK i \in DOMAIN q, j \in DOMAIN ext : q[i] = m /\ ext[j] = n
    BY <1>5 DEF On
  <2>2. i \in DOMAIN t /\ Len(q) + j \in DOMAIN t /\ i < Len(q) + j /\ t[i] = m /\ t[Len(q) + j] = n
    BY <1>1, <2>1
  <2>. QED BY <2>2 DEF Ahead
<1>6. ASSUME NEW m, NEW n, Ahead(t, m, n) PROVE Ahead(q, m, n) \/ Ahead(ext, m, n) \/ (On(q, m) /\ On(ext, n))
  <2>1. PICK i, j \in DOMAIN t : i < j /\ t[i] = m /\ t[j] = n
    BY <1>6 DEF Ahead
  <2>2. CASE i \in DOMAIN q /\ j \in DOMAIN q
    BY <1>1, <2>1, <2>2 DEF Ahead
  <2>3. CASE i \in DOMAIN q /\ j \notin DOMAIN q
    BY <1>1, <2>1, <2>3 DEF On
  <2>4. CASE i \notin DOMAIN q
    <3>1. /\ i > Len(q) /\ i - Len(q) \in DOMAIN ext /\ ext[i - Len(q)] = m
          /\ j > Len(q) /\ j - Len(q) \in DOMAIN ext /\ ext[j - Len(q)] = n /\ i - Len(q) < j - Len(q)
      BY <1>1, <2>1, <2>4
    <3>. QED BY <3>1 DEF Ahead
  <2>. QED BY <2>2, <2>3, <2>4
<1>. QED BY <1>1, <1>2, <1>3, <1>4, <1>5, <1>6 DEF t

AllWhos(in, o) == [i \in DOMAIN in |-> in[i].who] \o o
Requests(whos) == {i \in DOMAIN whos : whos[i] # "cast"}
Failing(whos, asked) == [n \in DOMAIN asked |-> [who |-> whos[asked[n]], val |-> Failed]]

\* When the frame goes down, those who wait are answered in the order in which they stood.
LEMMA LineFails ==
  ASSUME NEW in \in Seq(Message), NEW o \in Seq(Askers),
         NEW asked \in InOrder(Requests(AllWhos(in, o)))
  PROVE  LET next == Failing(AllWhos(in, o), asked)
         IN /\ next \in Seq(Message)
            /\ \A i \in DOMAIN next : next[i].val = Failed /\ next[i].who # "cast"
            /\ \A m : InLine(next, <<>>, m) => InLine(in, o, m)
            /\ \A m, n : Before(next, <<>>, m, n) => Before(in, o, m, n)
<1>whos. PICK whos : whos = AllWhos(in, o)
  OBVIOUS
<1>next. PICK next : next = Failing(whos, asked)
  OBVIOUS
<1>1. PICK w : w = Whos(in) /\ w \in Seq(Askings)
  BY WhosIs
<1>2. whos = w \o o /\ o \in Seq(Askings)
  BY <1>1, <1>whos DEF Whos, Askings, AllWhos
<1>3. /\ whos \in Seq(Askings)
      /\ \A m : On(whos, m) <=> On(w, m) \/ On(o, m)
      /\ \A m, n : Ahead(whos, m, n) <=> Ahead(w, m, n) \/ Ahead(o, m, n) \/ (On(w, m) /\ On(o, n))
  <2>1. PICK q : q = w \o o
    OBVIOUS
  <2>2. /\ q \in Seq(Askings)
        /\ \A m : On(q, m) <=> On(w, m) \/ On(o, m)
        /\ \A m, n : Ahead(q, m, n) <=> Ahead(w, m, n) \/ Ahead(o, m, n) \/ (On(w, m) /\ On(o, n))
    BY <1>1, <1>2, <2>1, ConcatIs
  <2>. QED BY <1>2, <2>1, <2>2
<1>4. PICK T : T = {i \in DOMAIN whos : whos[i] # "cast"}
  OBVIOUS
<1>5. PICK k \in Nat : k = Cardinality(T)
  <2>1. IsFiniteSet(1 .. Len(whos)) /\ T \subseteq 1 .. Len(whos)
    BY <1>3, <1>4, FS_Interval
  <2>. QED BY <2>1, FS_Subset, FS_CardinalityType
<1>6. asked \in [1 .. k -> T] /\ \A i, j \in 1 .. k : i < j => asked[i] < asked[j]
  BY <1>4, <1>5, <1>whos DEF InOrder, Requests
<1>7. /\ DOMAIN asked = 1 .. k
      /\ \A i \in 1 .. k : asked[i] \in DOMAIN whos /\ whos[asked[i]] \in Askings /\ whos[asked[i]] # "cast"
  <2>1. \A i \in 1 .. k : asked[i] \in T
    BY <1>6
  <2>2. \A i \in T : i \in DOMAIN whos /\ whos[i] \in Askings /\ whos[i] # "cast"
    BY <1>3, <1>4
  <2>. QED BY <1>6, <2>1, <2>2
<1>8. /\ DOMAIN next = 1 .. k
      /\ \A i \in 1 .. k : next[i] = [who |-> whos[asked[i]], val |-> Failed]
  BY <1>7, <1>next DEF Failing
<1>9. \A i \in 1 .. k : next[i] \in Message /\ next[i].val = Failed /\ next[i].who = whos[asked[i]]
  BY <1>7, <1>8 DEF Message
<1>10. next \in Seq(Message)
  <2>1. next \in [1 .. k -> Message]
    BY <1>7, <1>8, <1>9, <1>next DEF Failing
  <2>. QED BY <2>1, FunctionIsSeq
<1>v. PICK v : v = Whos(next)
  OBVIOUS
<1>11. v = Whos(next) /\ DOMAIN v = 1 .. k /\ \A i \in 1 .. k : v[i] = whos[asked[i]]
  <2>1. DOMAIN Whos(next) = 1 .. k /\ \A i \in 1 .. k : Whos(next)[i] = next[i].who
    BY <1>8, <1>10, WhosIs
  <2>. QED BY <1>9, <1>v, <2>1
<1>12. (\A m : ~On(<<>>, m)) /\ \A m, n : ~Ahead(<<>>, m, n)
  BY DEF On, Ahead
<1>13. ASSUME NEW m, On(v, m) PROVE On(whos, m)
  <2>1. PICK i \in 1 .. k : v[i] = m
    BY <1>11, <1>13 DEF On
  <2>. QED BY <1>7, <1>11, <2>1 DEF On
<1>14. ASSUME NEW m, NEW n, Ahead(v, m, n) PROVE Ahead(whos, m, n)
  <2>1. PICK i, j \in 1 .. k : i < j /\ v[i] = m /\ v[j] = n
    BY <1>11, <1>14 DEF Ahead
  <2>2. asked[i] < asked[j] /\ whos[asked[i]] = m /\ whos[asked[j]] = n /\ asked[i] \in DOMAIN whos /\ asked[j] \in DOMAIN whos
    BY <1>6, <1>7, <1>11, <2>1
  <2>. QED BY <2>2 DEF Ahead
<1>15. \A m : InLine(next, <<>>, m) => InLine(in, o, m)
  BY <1>1, <1>3, <1>11, <1>12, <1>13 DEF InLine
<1>16. \A m, n : Before(next, <<>>, m, n) => Before(in, o, m, n)
  BY <1>1, <1>3, <1>11, <1>12, <1>14 DEF Before
<1>. QED BY <1>7, <1>8, <1>9, <1>10, <1>15, <1>16, <1>whos, <1>next

LeftInbox(in) == [i \in DOMAIN in |-> [in[i] EXCEPT !.who = Leaves(@)]]
LeftOut(o) == [i \in DOMAIN o |-> Leaves(o[i])]

\* What a core that is gone had asked keeps its place, and is nobody's.
LEMMA LineLeaves ==
  ASSUME NEW in \in Seq(Message), NEW o \in Seq(Askers)
  PROVE  LET next == LeftInbox(in)
             after == LeftOut(o)
         IN /\ next \in Seq(Message) /\ after \in Seq(Askers) /\ Len(next) = Len(in) /\ Len(after) = Len(o)
            /\ \A i \in DOMAIN in : next[i].who = Leaves(in[i].who) /\ next[i].val = in[i].val
            /\ \A i \in DOMAIN o : after[i] = Leaves(o[i])
            /\ ~InLine(next, after, "core")
            /\ \A m \in Askings \ {"core", "gone"} :
                 (InLine(next, after, m) => InLine(in, o, m)) /\ (Before(next, after, m, m) => Before(in, o, m, m))
<1>next. PICK next : next = LeftInbox(in)
  OBVIOUS
<1>after. PICK after : after = LeftOut(o)
  OBVIOUS
<1>1. PICK n \in Nat : n = Len(in)
  OBVIOUS
<1>2. PICK k \in Nat : k = Len(o)
  OBVIOUS
<1>3. /\ DOMAIN in = 1 .. n /\ DOMAIN o = 1 .. k
      /\ \A i \in 1 .. n : in[i] \in Message
      /\ \A i \in 1 .. k : o[i] \in Askers
  BY <1>1, <1>2
<1>4. \A x \in Askings : Leaves(x) \in Askings /\ (x \in Askers => Leaves(x) \in Askers) /\ Leaves(x) # "core"
  BY DEF Leaves, Askings, Askers
<1>5. \A x \in Askings : \A m \in Askings \ {"core", "gone"} : Leaves(x) = m => x = m
  BY DEF Leaves
<1>6. \A x \in Message : x.who \in Askings /\ [x EXCEPT !.who = Leaves(@)] \in Message
                         /\ [x EXCEPT !.who = Leaves(@)].who = Leaves(x.who) /\ [x EXCEPT !.who = Leaves(@)].val = x.val
  BY <1>4 DEF Message
<1>7. \A i \in 1 .. n : next[i] = [in[i] EXCEPT !.who = Leaves(@)]
  BY <1>3, <1>next DEF LeftInbox
<1>8. \A i \in 1 .. n : next[i] \in Message /\ next[i].who = Leaves(in[i].who) /\ next[i].val = in[i].val /\ in[i].who \in Askings
  BY <1>3, <1>6, <1>7
<1>9. next \in Seq(Message) /\ Len(next) = n /\ DOMAIN next = 1 .. n
  <2>1. next \in [1 .. n -> Message]
    BY <1>3, <1>8, <1>next DEF LeftInbox
  <2>. QED BY <2>1, FunctionIsSeq
<1>10. \A i \in 1 .. k : after[i] = Leaves(o[i]) /\ after[i] \in Askers /\ o[i] \in Askings
  BY <1>3, <1>4, <1>after DEF Askings, LeftOut
<1>11. after \in Seq(Askers) /\ Len(after) = k /\ DOMAIN after = 1 .. k
  <2>1. after \in [1 .. k -> Askers]
    BY <1>3, <1>10, <1>after DEF LeftOut
  <2>. QED BY <2>1, FunctionIsSeq
<1>12. PICK w : w = Whos(in) /\ DOMAIN w = 1 .. n /\ \A i \in 1 .. n : w[i] = in[i].who
  BY <1>3, WhosIs
<1>v. PICK v : v = Whos(next)
  OBVIOUS
<1>13. v = Whos(next) /\ DOMAIN v = 1 .. n /\ \A i \in 1 .. n : v[i] = Leaves(w[i]) /\ w[i] \in Askings
  <2>1. DOMAIN Whos(next) = 1 .. n /\ \A i \in 1 .. n : Whos(next)[i] = next[i].who
    BY <1>9, WhosIs
  <2>2. \A i \in 1 .. n : Leaves(w[i]) = Leaves(in[i].who) /\ w[i] \in Askings
    BY <1>8, <1>12
  <2>3. \A i \in 1 .. n : v[i] = next[i].who
    BY <1>v, <2>1
  <2>. QED BY <1>8, <1>v, <2>1, <2>2, <2>3
<1>14. ~On(v, "core") /\ ~On(after, "core")
  <2>1. \A i \in 1 .. n : v[i] # "core"
    BY <1>4, <1>13
  <2>2. \A i \in 1 .. k : after[i] # "core"
    BY <1>4, <1>10
  <2>. QED BY <1>11, <1>13, <2>1, <2>2 DEF On
<1>15. ASSUME NEW m \in Askings \ {"core", "gone"}
       PROVE  /\ On(v, m) => On(w, m)
              /\ On(after, m) => On(o, m)
              /\ Ahead(v, m, m) => Ahead(w, m, m)
              /\ Ahead(after, m, m) => Ahead(o, m, m)
  <2>1. \A i \in 1 .. n : v[i] = m => w[i] = m
    BY <1>5, <1>13
  <2>2. \A i \in 1 .. k : after[i] = m => o[i] = m
    BY <1>5, <1>10
  <2>3. (On(v, m) => On(w, m)) /\ (On(after, m) => On(o, m))
    BY <1>3, <1>11, <1>12, <1>13, <2>1, <2>2 DEF On
  <2>4. (Ahead(v, m, m) => Ahead(w, m, m)) /\ (Ahead(after, m, m) => Ahead(o, m, m))
    BY <1>3, <1>11, <1>12, <1>13, <2>1, <2>2 DEF Ahead
  <2>. QED BY <2>3, <2>4
<1>16. \A m \in Askings \ {"core", "gone"} :
         (InLine(next, after, m) => InLine(in, o, m)) /\ (Before(next, after, m, m) => Before(in, o, m, m))
  BY <1>12, <1>13, <1>15 DEF InLine, Before
<1>17. ~InLine(next, after, "core")
  BY <1>13, <1>14 DEF InLine
<1>. QED BY <1>1, <1>2, <1>3, <1>8, <1>9, <1>10, <1>11, <1>16, <1>17, <1>next, <1>after

----------------------------------------------------------------------------
(* Types and books. *)

Kinds == {"load", "read", "retry"}
RunType == [kind : {"none", "load", "read", "retry"}, got : Saved, flag : BOOLEAN, crossed : BOOLEAN,
            at : {"none", "rule", "wallet", "unread", "drop", "cache", "session", "account"}]
CoreType == [on : BOOLEAN, sees : Saved, doomed : Saved, blind : BOOLEAN, misled : BOOLEAN, lost : BOOLEAN,
             owes : BOOLEAN, reads : 0 .. 2,
             login : {"no", "pairing", "auth", "writing", "dropping", "clearing", "keeping"}]
FlagType == [set : BOOLEAN, owned : BOOLEAN]
LeftType == [writes : Nat, cores : Nat, events : Nat, fails : Nat]
KeptTypes == {"nothing", "wallet", "all"}
AuthType == [tag : Tags, of : Saved]
ReportType == [tag : Tags \cup {"none"}, of : Saved]
Storing == {"writing", "dropping", "clearing", "keeping"}

\* No read is no read at all, and one that drops a session or reads its account has found it.
RunFine(r) ==
  /\ r \in RunType
  /\ r.kind = "none" => r.at = "none" /\ ~r.crossed
  /\ r.kind # "none" => r.at # "none"
  /\ r.at \in {"drop", "account"} => r.got \in Sessions
  /\ r.at = "unread" => r.got = NoSession

\* A core that is off is no core, and one that drops a session saw it.
CoreFine(c) ==
  /\ c \in CoreType
  /\ ~c.on => c = NoCore
  /\ c.login = "dropping" => c.doomed \in Sessions

Typed ==
  /\ saved \in Saved /\ up \in {"connecting", "available", "unavailable"} /\ flag \in FlagType
  /\ casts \in 0 .. MaxWrites
  /\ auth \in AuthType /\ report \in ReportType
  /\ speaker \in {"copy", "core"} /\ readFailed \in BOOLEAN /\ kept \in KeptTypes
  /\ whence \in {"read", "told", "crossed", "unread"}
  /\ left \in LeftType /\ casts + left.writes <= MaxWrites

\* The read, the core and the core's store each ask one thing at a time, and only while they wait for it.
Asking ==
  /\ inbox \in Seq(Message) /\ out \in Seq(Askers)
  /\ ~AskedBefore("run", "run") /\ ~AskedBefore("core", "core") /\ ~AskedBefore("store", "store")
  /\ Sent("run") => run.at \notin {"none", "wallet", "unread"}
  /\ Sent("core") => core.reads > 0
  /\ Sent("store") => core.login \in Storing

\* The load is the first read of all, and there is no core before it ended. Only a core speaks for the page as one.
Starting ==
  /\ queue \in Seq(Kinds)
  /\ On(queue, "load") => queue = <<"load">> /\ run.kind = "none"
  /\ run.kind = "load" \/ On(queue, "load") => ~core.on
  /\ speaker = "core" => core.on
  /\ speaker = "copy" => report = NoReport

Books == Typed /\ Asking /\ Starting /\ RunFine(run) /\ CoreFine(core)

LEMMA BooksTyped == Books => SessionTypeOK
  BY DEF Books, Typed, Asking, Starting, RunFine, CoreFine, SessionTypeOK, Message, Askings, AuthType, ReportType,
         RunType, CoreType, Kinds, FlagType, KeptTypes

LEMMA BlankTypes ==
  ASSUME SessionAssumption
  PROVE  /\ RunFine(NoRun) /\ CoreFine(NoCore) /\ NoReport \in ReportType /\ NoSession \in Saved
         /\ \A tag \in Tags : State(tag) \in AuthType /\ State(tag) \in ReportType
                              /\ State(tag).tag = tag /\ State(tag).of = NoSession
         /\ \A b \in Saved : Connected(b) \in AuthType /\ Connected(b) \in ReportType
                             /\ Connected(b).tag = "Connected" /\ Connected(b).of = b
<1>1. NoSession \in Saved
  BY DEF Saved
<1>2. NoRun \in RunType /\ NoCore \in CoreType
  BY <1>1 DEF NoRun, NoCore, RunType, CoreType
<1>3. RunFine(NoRun) /\ CoreFine(NoCore)
  BY <1>2 DEF RunFine, CoreFine, NoRun, NoCore
<1>4. "Connected" \in Tags
  BY DEF Tags
<1>. QED BY <1>1, <1>3, <1>4 DEF State, Connected, NoReport, AuthType, ReportType

LEMMA EmptyLine == (\A m : ~On(<<>>, m)) /\ (\A m : ~InLine(<<>>, <<>>, m)) /\ \A m, n : ~Before(<<>>, <<>>, m, n)
<1>1. Whos(<<>>) = <<>>
  BY DEF Whos
<1>2. (\A m : ~On(<<>>, m)) /\ \A m, n : ~Ahead(<<>>, m, n)
  BY DEF On, Ahead
<1>. QED BY <1>1, <1>2 DEF InLine, Before

LEMMA SessionInitBooks == SessionAssumption /\ SessionInit => Books
<1> SUFFICES ASSUME SessionAssumption, SessionInit PROVE Books
  OBVIOUS
<1>1. Typed
  <2>1. MaxWrites \in Nat /\ MaxCores \in Nat /\ MaxEvents \in Nat /\ MaxFails \in Nat /\ "Restoring" \in Tags
    BY DEF SessionAssumption, Tags
  <2>2. auth \in AuthType /\ report \in ReportType
    BY <2>1, BlankTypes DEF SessionInit
  <2>3. left \in LeftType /\ left.writes = MaxWrites /\ casts = 0
    BY <2>1 DEF SessionInit, LeftType
  <2>4. casts \in 0 .. MaxWrites /\ casts + left.writes <= MaxWrites
    BY <2>1, <2>3
  <2>. QED BY <2>2, <2>3, <2>4 DEF SessionInit, Typed, FlagType, KeptTypes
<1>2. <<>> \in Seq(Message) /\ <<>> \in Seq(Askers) /\ <<"load">> \in Seq(Kinds)
  BY DEF Kinds
<1>3. Asking
  BY <1>2, EmptyLine DEF SessionInit, Asking, Sent, AskedBefore
<1>4. Starting
  BY <1>2 DEF SessionInit, Starting, NoRun, NoCore
<1>. QED BY <1>1, <1>3, <1>4, BlankTypes DEF Books, SessionInit

----------------------------------------------------------------------------
(* The parts of an action. *)

\* What is still in line once the head of the inbox arrived.
Remains(m) == InLine(inbox', out, m)

LEMMA ArrivedIs ==
  ASSUME Asking, NEW who, Arrives(who)
  PROVE  /\ inbox' \in Seq(Message) /\ Head(inbox) \in Message /\ Head(inbox).who = who
         /\ Sent(who) /\ \A m : Remains(m) => Sent(m) /\ AskedBefore(who, m)
         /\ \A m, n : Before(inbox', out, m, n) => AskedBefore(m, n)
<1>1. inbox # <<>> /\ inbox' = Tail(inbox) /\ Head(inbox).who = who /\ inbox \in Seq(Message) /\ out \in Seq(Askers)
  BY DEF Arrives, Asking
<1>. QED BY <1>1, LinePops DEF Sent, AskedBefore, Remains

\* An arrival after which nothing is asked.
LEMMA ArrivedOnly ==
  ASSUME Asking, NEW who, Arrives(who), out' = out
  PROVE  (\A m : Sent(m)' => Remains(m)) /\ \A m, n : AskedBefore(m, n)' => AskedBefore(m, n)
  BY ArrivedIs DEF Sent, AskedBefore, Remains

\* An arrival after which w asks.
LEMMA ArrivedAsks ==
  ASSUME Asking, NEW who, Arrives(who), NEW w \in Askers, out' = Append(out, w)
  PROVE  /\ out' \in Seq(Askers)
         /\ \A m : Sent(m)' => m = w \/ Remains(m)
         /\ \A m, n : AskedBefore(m, n)' => AskedBefore(m, n) \/ (Remains(m) /\ n = w)
<1>1. inbox' \in Seq(Message) /\ out \in Seq(Askers) /\ \A m, n : Before(inbox', out, m, n) => AskedBefore(m, n)
  BY ArrivedIs DEF Asking
<1>. QED BY <1>1, LinePushes DEF Sent, AskedBefore, Remains

\* With no arrival, w asks.
LEMMA AskedIs ==
  ASSUME Asking, UNCHANGED inbox, NEW w \in Askers, out' = Append(out, w)
  PROVE  /\ out' \in Seq(Askers)
         /\ \A m : Sent(m)' => m = w \/ Sent(m)
         /\ \A m, n : AskedBefore(m, n)' => AskedBefore(m, n) \/ (Sent(m) /\ n = w)
<1>1. inbox \in Seq(Message) /\ out \in Seq(Askers)
  BY DEF Asking
<1>. QED BY <1>1, LinePushes DEF Sent, AskedBefore

\* Every step but the start of a read is made once the load started.
LEMMA NoLoadWaits == ASSUME Books, ReadsStarted PROVE ~On(queue, "load")
  BY EmptyLine DEF Books, Starting, ReadsStarted

LEMMA Queued ==
  ASSUME Books, ReadsStarted, NEW kind \in {"read", "retry"}, queue' = queue \/ queue' = Append(queue, kind)
  PROVE  queue' \in Seq(Kinds) /\ ~On(queue', "load")
<1>1. queue \in Seq(Kinds) /\ kind \in Kinds /\ ~On(queue, "load") /\ kind # "load"
  BY NoLoadWaits DEF Books, Starting, Kinds
<1>2. PICK q : q = Append(queue, kind)
  OBVIOUS
<1>3. q \in Seq(Kinds) /\ ~On(q, "load")
  BY <1>1, <1>2, PushIs
<1>. QED BY <1>1, <1>2, <1>3

LEMMA NotifiedIs ==
  ASSUME SessionAssumption, NEW c, CoreFine(c)
  PROVE  /\ CoreFine(Notified(c)) /\ Notified(c).on = c.on /\ Notified(c).login = c.login /\ Notified(c).reads >= c.reads
         /\ (c.on => Notified(c).reads > 0) /\ Notified(c).sees = c.sees /\ Notified(c).doomed = c.doomed
         /\ Notified(c).blind = c.blind /\ Notified(c).misled = c.misled /\ Notified(c).owes = c.owes /\ Notified(c).lost = c.lost
         /\ Notified(c).reads \in Nat /\ c.reads \in Nat
<1>1. CASE c.on /\ c.reads < 2
  <2>1. PICK k \in 0 .. 1 : k = c.reads
    BY <1>1 DEF CoreFine, CoreType
  <2>2. Notified(c) = [c EXCEPT !.reads = k + 1] /\ k + 1 \in 0 .. 2
    BY <1>1, <2>1 DEF Notified
  <2>3. PICK d : d = [c EXCEPT !.reads = k + 1]
    OBVIOUS
  <2>4. /\ d \in CoreType /\ d.on = c.on /\ d.login = c.login /\ d.sees = c.sees /\ d.doomed = c.doomed /\ d.blind = c.blind
        /\ d.misled = c.misled /\ d.owes = c.owes /\ d.lost = c.lost /\ d.reads = k + 1
    BY <2>2, <2>3 DEF CoreFine, CoreType
  <2>5. CoreFine(d)
    BY <1>1, <2>4 DEF CoreFine
  <2>6. Notified(c) = d
    BY <2>2, <2>3
  <2>7. k + 1 >= k /\ k + 1 > 0 /\ k + 1 \in Nat /\ k \in Nat
    OBVIOUS
  <2>. QED BY <2>1, <2>4, <2>5, <2>6, <2>7
<1>2. CASE ~(c.on /\ c.reads < 2)
  BY <1>2 DEF Notified, CoreFine, CoreType
<1>. QED BY <1>1, <1>2

LEMMA RereadsIs ==
  ASSUME Books, ReadsStarted, Rereads
  PROVE  /\ queue' \in Seq(Kinds) /\ ~On(queue', "load") /\ queue' = (IF Allowed THEN Append(queue, "read") ELSE queue)
         /\ RunFine(run') /\ run'.kind = run.kind /\ run'.at = run.at /\ run'.got = run.got /\ run'.flag = run.flag
         /\ run'.crossed = (run.crossed \/ (run.kind # "none" /\ ~Allowed))
<1>1. queue' = (IF Allowed THEN Append(queue, "read") ELSE queue)
  BY DEF Rereads
<1>2. queue' \in Seq(Kinds) /\ ~On(queue', "load")
  BY <1>1, Queued
<1>3. PICK x \in BOOLEAN : x = (run.crossed \/ (run.kind # "none" /\ ~Allowed))
  OBVIOUS
<1>4. run' = [run EXCEPT !.crossed = x]
  BY <1>3 DEF Rereads
<1>5. RunFine(run)
  BY DEF Books
<1>6. RunFine(run') /\ run'.kind = run.kind /\ run'.at = run.at /\ run'.got = run.got /\ run'.flag = run.flag /\ run'.crossed = x
  <2>1. CASE run.kind = "none"
    BY <1>3, <1>4, <1>5, <2>1 DEF RunFine, RunType
  <2>2. CASE run.kind # "none"
    BY <1>4, <1>5, <2>2 DEF RunFine, RunType
  <2>. QED BY <2>1, <2>2
<1>. QED BY <1>1, <1>2, <1>3, <1>6

LEMMA FinishIs ==
  ASSUME SessionAssumption, Books, NEW raw \in Saved, Finish(raw)
  PROVE  run' = NoRun /\ RunFine(run') /\ auth' \in AuthType /\ whence' \in {"read", "told", "crossed", "unread"}
<1>1. auth \in AuthType /\ whence \in {"read", "told", "crossed", "unread"} /\ report \in ReportType
  BY DEF Books, Typed
<1>2. Withdrawn \in AuthType
  <2>1. CASE report.tag \in {"none", "Unreachable"}
    BY <2>1, BlankTypes DEF Withdrawn, Tags, OpenTags
  <2>2. CASE report.tag \notin {"none", "Unreachable"}
    BY <1>1, <2>2 DEF Withdrawn, ReportType, AuthType
  <2>. QED BY <2>1, <2>2
<1>3. /\ State("Unreachable") \in AuthType /\ State("Disconnected") \in AuthType /\ Connected(raw) \in AuthType
      /\ RunFine(NoRun)
  BY BlankTypes DEF Tags, OpenTags
<1>. QED BY <1>1, <1>2, <1>3 DEF Finish, Show, shown

LEMMA RestoredIs ==
  ASSUME SessionAssumption, Books, NEW raw \in Saved, NEW requests, Restored(raw, requests), run.kind # "none"
  PROVE  /\ RunFine(run') /\ auth' \in AuthType /\ whence' \in {"read", "told", "crossed", "unread"}
         /\ run'.kind = "none" \/ run'.kind = run.kind
         /\ run'.kind = "none" => run.kind = "load" /\ out' = requests
         /\ run'.kind # "none" => run.kind # "load" /\ out' = Append(requests, "run") /\ UNCHANGED shown
                                  /\ run'.at = "session" /\ run'.crossed = run.crossed
<1>1. CASE run.kind = "load"
  BY <1>1, FinishIs DEF Restored, NoRun
<1>2. CASE run.kind # "load"
  <2>1. run \in RunType /\ NoSession \in Saved
    BY BlankTypes DEF Books, RunFine
  <2>2. PICK r : r = [run EXCEPT !.at = "session", !.got = NoSession, !.flag = TRUE]
    OBVIOUS
  <2>3. r \in RunType /\ r.kind = run.kind /\ r.at = "session" /\ r.crossed = run.crossed
    BY <2>1, <2>2 DEF RunType
  <2>4. RunFine(r)
    BY <2>3 DEF RunFine
  <2>5. run' = r /\ out' = Append(requests, "run") /\ UNCHANGED shown
    BY <1>2, <2>2 DEF Restored
  <2>. QED BY <1>2, <2>3, <2>4, <2>5 DEF shown, Books, Typed
<1>. QED BY <1>1, <1>2

\* The parts of the books that an action leaves.
LEMMA BooksAre ==
  ASSUME Typed', Asking', Starting', RunFine(run)', CoreFine(core)' PROVE Books'
  BY DEF Books

LEMMA SpendIs ==
  ASSUME Typed, NEW what \in {"cores", "events", "fails"}, Spend(what)
  PROVE  left' \in LeftType /\ left'.writes = left.writes
<1>1. left \in LeftType /\ left[what] > 0 /\ left' = [left EXCEPT ![what] = @ - 1]
  BY DEF Typed, Spend
<1>2. CASE what = "cores"
  BY <1>1, <1>2 DEF LeftType
<1>3. CASE what = "events"
  BY <1>1, <1>3 DEF LeftType
<1>4. CASE what = "fails"
  BY <1>1, <1>4 DEF LeftType
<1>. QED BY <1>2, <1>3, <1>4

\* A wallet read costs nothing but a failure.
LEMMA WalletReadIs ==
  ASSUME Typed, NEW answered, WalletRead(answered)
  PROVE  left' \in LeftType /\ left'.writes = left.writes
  BY SpendIs DEF WalletRead, Typed

LEMMA FlagSetIs ==
  ASSUME Typed, NEW b \in BOOLEAN, flag' = [flag EXCEPT !.set = b]
  PROVE  flag' \in FlagType /\ flag'.set = b /\ flag'.owned = flag.owned
  BY DEF Typed, FlagType

LEMMA OtherTabBooks == ASSUME SessionAssumption, Books, OtherTab PROVE Books'
<1>1. PICK n \in Nat : n = left.writes
  BY DEF Books, Typed, LeftType
<1>2. n > 0 /\ left' = [left EXCEPT !.writes = n - 1] /\ left \in LeftType
  BY <1>1 DEF Books, Typed, OtherTab, Spend
<1>3. left' \in LeftType /\ left'.writes = n - 1
  BY <1>1, <1>2 DEF LeftType
<1>4. casts' \in Nat /\ casts' + left'.writes <= MaxWrites /\ casts' \in 0 .. MaxWrites
  <2>1. casts \in Nat /\ casts + n <= MaxWrites /\ MaxWrites \in Nat /\ (casts' = casts + 1 \/ casts' = casts)
    BY <1>1 DEF Books, Typed, OtherTab, SessionAssumption
  <2>. QED BY <1>2, <1>3, <2>1
<1>5. saved' \in Saved /\ flag' \in FlagType
  <2>1. PICK b \in Saved : saved' = b /\ flag' = [flag EXCEPT !.set = (b # NoSession)]
    BY DEF OtherTab
  <2>. QED BY <2>1 DEF Books, Typed, FlagType
<1>6. Typed'
  BY <1>3, <1>4, <1>5 DEF Books, Typed, OtherTab, shown, reads
<1>7. Asking' /\ Starting' /\ RunFine(run)' /\ CoreFine(core)'
  BY DEF Books, OtherTab, shown, reads, Asking, Starting, Sent, AskedBefore
<1>. QED BY <1>6, <1>7, BooksAre

LEMMA RelayBooks == ASSUME SessionAssumption, Books, Relay PROVE Books'
<1>1. inbox' = Append(inbox, [who |-> "cast", val |-> NoSession]) /\ UNCHANGED <<out, run, core, queue, speaker, report>>
  BY DEF Relay, Answer, shown, reads
<1>2. /\ inbox' \in Seq(Message) /\ out' = out /\ out \in Seq(Askers)
      /\ \A m \in Askers : Sent(m)' <=> Sent(m)
      /\ \A m, n \in Askers : AskedBefore(m, n)' <=> AskedBefore(m, n)
  <2>1. inbox \in Seq(Message) /\ out \in Seq(Askers)
    BY DEF Books, Asking
  <2>2. inbox' = Relayed(inbox)
    BY <1>1 DEF Relayed
  <2>3. /\ inbox' \in Seq(Message)
        /\ \A m \in Askers : InLine(inbox', out, m) <=> InLine(inbox, out, m)
        /\ \A m, n \in Askers : Before(inbox', out, m, n) <=> Before(inbox, out, m, n)
    BY <2>1, <2>2, LineHears
  <2>. QED BY <1>1, <2>1, <2>3 DEF Sent, AskedBefore
<1>3. Asking'
  BY <1>1, <1>2 DEF Books, Asking, Askers
<1>4. Typed'
  <2>1. casts \in 0 .. MaxWrites /\ casts' = casts - 1 /\ casts > 0 /\ MaxWrites \in Nat /\ left' = left
        /\ left.writes \in Nat /\ casts + left.writes <= MaxWrites
    BY DEF Books, Typed, Relay, SessionAssumption, LeftType
  <2>2. casts' \in 0 .. MaxWrites /\ casts' + left'.writes <= MaxWrites
    BY <2>1
  <2>. QED BY <2>2 DEF Books, Typed, Relay, shown, reads
<1>. QED BY <1>1, <1>3, <1>4, BooksAre DEF Books, Starting

\* A read of the page or a core's hears a change. One request of the core may come of it.
LEMMA CoreAsksIs ==
  ASSUME SessionAssumption, Books, NEW o \in Seq(Askers)
  PROVE  /\ CoreAsks(o) \in Seq(Askers) /\ (CoreAsks(o) = o \/ CoreAsks(o) = Append(o, "core"))
         /\ (CoreAsks(o) = Append(o, "core") /\ CoreAsks(o) # o) => core.on /\ core.reads = 0
<1>1. Append(o, "core") \in Seq(Askers)
  BY DEF Askers
<1>. QED BY <1>1 DEF CoreAsks

LEMMA HearCastBooks == ASSUME SessionAssumption, Books, HearCast PROVE Books'
<1>1. /\ Arrives("cast") /\ ReadsStarted /\ Rereads /\ core' = Notified(core) /\ out' = CoreAsks(out)
      /\ UNCHANGED <<saved, up, casts, flag, shown, speaker, report, readFailed, kept, left>>
  BY DEF HearCast, Heard, Arrives
<1>2. Asking /\ out \in Seq(Askers) /\ CoreFine(core)
  BY DEF Books, Asking
<1>3. CoreFine(core') /\ core'.on = core.on /\ core'.login = core.login /\ core'.reads >= core.reads
      /\ (core.on => core'.reads > 0) /\ core'.reads \in Nat /\ core.reads \in Nat
  BY <1>1, <1>2, NotifiedIs
<1>4. Starting' /\ RunFine(run')
  BY <1>1, <1>3, RereadsIs DEF Books, Starting
<1>5. Asking'
  <2>1. /\ inbox' \in Seq(Message)
        /\ \A m : Remains(m) => Sent(m)
    BY <1>1, <1>2, ArrivedIs
  <2>2. CASE out' = out
    <3>1. (\A m : Sent(m)' => Sent(m)) /\ \A m, n : AskedBefore(m, n)' => AskedBefore(m, n)
      BY <1>1, <1>2, <2>1, <2>2, ArrivedOnly
    <3>2. run'.at = run.at
      BY <1>1, RereadsIs
    <3>. QED BY <1>2, <1>3, <2>1, <2>2, <3>1, <3>2 DEF Asking
  <2>3. CASE out' = Append(out, "core") /\ out' # out
    <3>1. core.on /\ core.reads = 0
      BY <1>1, <1>2, <2>3, CoreAsksIs
    <3>2. /\ out' \in Seq(Askers) /\ \A m : Sent(m)' => m = "core" \/ Remains(m)
          /\ \A m, n : AskedBefore(m, n)' => AskedBefore(m, n) \/ (Remains(m) /\ n = "core")
      BY <1>1, <1>2, <2>3, ArrivedAsks DEF Askers
    <3>3. ~Sent("core") /\ run'.at = run.at
      BY <1>1, <1>2, <3>1, RereadsIs DEF Asking
    <3>. QED BY <1>2, <1>3, <2>1, <3>1, <3>2, <3>3 DEF Asking
  <2>. QED BY <1>1, <1>2, <2>2, <2>3, CoreAsksIs
<1>6. Typed'
  BY <1>1 DEF Books, Typed, shown
<1>. QED BY <1>3, <1>4, <1>5, <1>6, BooksAre

LEMMA GoDownBooks == ASSUME SessionAssumption, Books, GoDown PROVE Books'
<1>2. PICK asked \in InOrder(Requests(AllWhos(inbox, out))) : inbox' = Failing(AllWhos(inbox, out), asked)
  BY DEF GoDown, Requests, AllWhos, Failing
<1>3. inbox \in Seq(Message) /\ out \in Seq(Askers) /\ out' = <<>>
  BY DEF Books, Asking, GoDown
<1>4. /\ inbox' \in Seq(Message)
      /\ \A m : Sent(m)' => Sent(m)
      /\ \A m, n : AskedBefore(m, n)' => AskedBefore(m, n)
  BY <1>2, <1>3, LineFails DEF Sent, AskedBefore
<1>5. UNCHANGED <<run, core, queue, speaker, report>>
  BY DEF GoDown, reads
<1>6. Asking'
  BY <1>3, <1>4, <1>5 DEF Books, Asking
<1>7. left' \in LeftType /\ left'.writes = left.writes
  BY SpendIs DEF GoDown, Books
<1>8. auth' \in AuthType /\ whence' \in {"read", "told", "crossed", "unread"}
  BY BlankTypes DEF GoDown, Show, shown, Books, Typed, Tags, OpenTags
<1>9. Typed'
  <2>1. casts' \in 0 .. MaxWrites /\ casts' + left'.writes <= MaxWrites
    BY <1>7 DEF GoDown, Books, Typed, SessionAssumption, LeftType
  <2>. QED BY <1>7, <1>8, <2>1 DEF GoDown, Books, Typed, reads
<1>. QED BY <1>5, <1>6, <1>9, BooksAre DEF Books, Starting

LEMMA ComeUpBooks == ASSUME SessionAssumption, Books, ComeUp PROVE Books'
<1>1. /\ ReadsStarted /\ up' = "available"
      /\ UNCHANGED <<saved, casts, inbox, flag, shown, speaker, report, readFailed, kept, left>>
  BY DEF ComeUp, TurnOver
<1>2. Typed'
  BY <1>1 DEF Books, Typed, shown
<1>3. CASE UNCHANGED <<queue, run, core, out>>
  BY <1>1, <1>2, <1>3, BooksAre DEF Books, Asking, Starting, Sent, AskedBefore
<1>4. CASE Rereads /\ core' = Notified(core) /\ out' = CoreAsks(out)
  <2>2. Asking /\ out \in Seq(Askers) /\ CoreFine(core)
    BY DEF Books, Asking
  <2>3. CoreFine(core') /\ core'.on = core.on /\ core'.login = core.login /\ core'.reads >= core.reads
        /\ (core.on => core'.reads > 0) /\ core'.reads \in Nat /\ core.reads \in Nat
    BY <1>4, <2>2, NotifiedIs
  <2>4. Starting' /\ RunFine(run') /\ run'.at = run.at
    BY <1>1, <1>4, <2>3, RereadsIs DEF Books, Starting
  <2>5. Asking'
    <3>1. CASE out' = out
      BY <1>1, <2>2, <2>3, <2>4, <3>1 DEF Asking, Sent, AskedBefore
    <3>2. CASE out' = Append(out, "core") /\ out' # out
      <4>1. core.on /\ core.reads = 0
        BY <1>4, <2>2, <3>2, CoreAsksIs
      <4>2. /\ out' \in Seq(Askers) /\ \A m : Sent(m)' => m = "core" \/ Sent(m)
            /\ \A m, n : AskedBefore(m, n)' => AskedBefore(m, n) \/ (Sent(m) /\ n = "core")
        BY <1>1, <2>2, <3>2, AskedIs DEF Askers
      <4>3. ~Sent("core")
        BY <2>2, <4>1 DEF Asking
      <4>. QED BY <1>1, <2>2, <2>3, <2>4, <4>1, <4>2, <4>3 DEF Asking
    <3>. QED BY <1>4, <2>2, <3>1, <3>2, CoreAsksIs
  <2>. QED BY <1>2, <2>3, <2>4, <2>5, BooksAre
<1>. QED BY <1>3, <1>4 DEF ComeUp, Heard

----------------------------------------------------------------------------
(* Each action keeps the books. *)

LEMMA RunsTypes ==
  ASSUME SessionAssumption, Books, NEW who, NEW b \in Saved, TakesEffect(who, b) PROVE saved' \in Saved
  BY BlankTypes DEF Books, Typed, TakesEffect, Saved

LEMMA ServeTypes ==
  ASSUME SessionAssumption, Books, Serve
  PROVE  saved' \in Saved /\ \E b \in Saved : inbox' = Answered(inbox, out, b)
<1>1. PICK b \in Saved : TakesEffect(Head(out), b) /\ Answer(Head(out), b)
  BY DEF Serve
<1>. QED BY <1>1, RunsTypes DEF Answer, Answered

LEMMA MovedAsking ==
  ASSUME Books, out # <<>>, out' = Tail(out), NEW b \in Saved \cup {Failed}, inbox' = Answered(inbox, out, b),
         UNCHANGED <<run, core>>
  PROVE  /\ Asking' /\ (\A m : Sent(m)' <=> Sent(m)) /\ \A m, n : AskedBefore(m, n)' <=> AskedBefore(m, n)
<1>1. inbox \in Seq(Message) /\ out \in Seq(Askers)
  BY DEF Books, Asking
<1>2. /\ inbox' \in Seq(Message) /\ out' \in Seq(Askers)
      /\ \A m : InLine(inbox', out', m) <=> InLine(inbox, out, m)
      /\ \A m, n : Before(inbox', out', m, n) <=> Before(inbox, out, m, n)
  BY <1>1, LineMoves
<1>. QED BY <1>2 DEF Books, Asking, Sent, AskedBefore

LEMMA ServeBooks == ASSUME SessionAssumption, Books, Serve PROVE Books'
<1>1. /\ UNCHANGED <<up, casts, flag, shown, speaker, report, reads, core, left>> /\ out # <<>> /\ out' = Tail(out)
  BY DEF Serve
<1>2. Typed'
  BY <1>1, ServeTypes DEF Books, Typed, shown, reads
<1>3. Asking'
  BY <1>1, ServeTypes, MovedAsking DEF reads
<1>. QED BY <1>1, <1>2, <1>3, BooksAre DEF Books, Starting, reads

LEMMA TimeOutBooks == ASSUME SessionAssumption, Books, TimeOut PROVE Books'
<1>1. /\ UNCHANGED <<up, casts, flag, shown, speaker, report, reads, core>> /\ out # <<>> /\ out' = Tail(out)
      /\ inbox' = Answered(inbox, out, Failed)
  BY DEF TimeOut, Answer, Answered
<1>2. left' \in LeftType /\ left'.writes = left.writes /\ saved' \in Saved
  BY SpendIs, RunsTypes DEF TimeOut, Books, Typed
<1>3. Typed'
  BY <1>1, <1>2 DEF Books, Typed, shown, reads
<1>4. Asking'
  BY <1>1, MovedAsking DEF reads
<1>. QED BY <1>1, <1>3, <1>4, BooksAre DEF Books, Starting, reads

\* A read that starts asks as the only one.
LEMMA StartReadIs ==
  ASSUME SessionAssumption, Books, StartRead
  PROVE  /\ run.kind = "none" /\ queue' = Tail(queue) /\ queue' \in Seq(Kinds) /\ Head(queue) \in Kinds
         /\ \A m : On(queue, m) <=> m = Head(queue) \/ On(queue', m)
         /\ ~On(queue', "load")
         /\ \/ /\ run' = run /\ out' = out
               /\ ~Allowed \/ (Head(queue) = "retry" /\ auth.tag # "Unreachable")
            \/ /\ Allowed /\ run'.kind = Head(queue) /\ run'.at \in {"rule", "session"} /\ ~run'.crossed
               /\ out' = Append(out, "run")
         /\ RunFine(run')
<1>1. queue \in Seq(Kinds) /\ queue # <<>> /\ run.kind = "none" /\ queue' = Tail(queue)
  BY DEF Books, Starting, StartRead
<1>2. PICK h \in Kinds : h = Head(queue)
  BY <1>1
<1>3. queue' \in Seq(Kinds) /\ \A m : On(queue, m) <=> m = h \/ On(queue', m)
  BY <1>1, <1>2, PopIs
<1>4. ~On(queue', "load")
  <2>1. CASE On(queue, "load")
    <3>1. queue' = <<>>
      BY <1>1, <2>1 DEF Books, Starting
    <3>. QED BY <3>1, EmptyLine
  <2>2. CASE ~On(queue, "load")
    BY <1>3, <2>2
  <2>. QED BY <2>1, <2>2
<1>5. RunFine(run) /\ NoSession \in Saved /\ flag.set \in BOOLEAN
  BY BlankTypes DEF Books, Typed, FlagType
<1>6. CASE ~Allowed \/ (h = "retry" /\ auth.tag # "Unreachable")
  <2>1. run' = run /\ out' = out
    BY <1>2, <1>6 DEF StartRead
  <2>. QED BY <1>1, <1>2, <1>3, <1>4, <1>5, <1>6, <2>1
<1>7. CASE Allowed /\ ~(h = "retry" /\ auth.tag # "Unreachable")
  <2>1. PICK r : r = [kind |-> h, at |-> IF kept = "all" THEN "session" ELSE "rule", got |-> NoSession,
                   flag |-> flag.set \/ kept = "all", crossed |-> FALSE]
    OBVIOUS
  <2>2. run' = r /\ out' = Append(out, "run")
    BY <1>2, <1>7, <2>1 DEF StartRead
  <2>3. r \in RunType /\ r.kind = h /\ r.at \in {"rule", "session"} /\ ~r.crossed
    BY <1>2, <1>5, <2>1 DEF RunType, Kinds
  <2>4. RunFine(r)
    BY <1>2, <2>3 DEF RunFine, Kinds
  <2>. QED BY <1>1, <1>2, <1>3, <1>4, <1>7, <2>2, <2>3, <2>4
<1>. QED BY <1>6, <1>7

LEMMA StartReadBooks == ASSUME SessionAssumption, Books, StartRead PROVE Books'
<1>1. UNCHANGED <<saved, up, casts, inbox, flag, shown, speaker, report, readFailed, kept, core, left>>
  BY DEF StartRead
<1>2. Typed'
  BY <1>1 DEF Books, Typed, shown
<1>3. Asking'
  <2>1. CASE run' = run /\ out' = out
    BY <1>1, <2>1 DEF Books, Asking, Sent, AskedBefore
  <2>2. CASE out' = Append(out, "run") /\ run'.kind = Head(queue)
    <3>1. run'.at \in {"rule", "session"} /\ ~Sent("run")
      BY <2>2, StartReadIs DEF Kinds, Books, Asking, RunFine
    <3>2. Asking
      BY DEF Books
    <3>3. /\ out' \in Seq(Askers) /\ \A m : Sent(m)' => m = "run" \/ Sent(m)
          /\ \A m, n : AskedBefore(m, n)' => AskedBefore(m, n) \/ (Sent(m) /\ n = "run")
      BY <1>1, <2>2, <3>2, AskedIs DEF Askers
    <3>. QED BY <1>1, <3>1, <3>2, <3>3 DEF Asking
  <2>. QED BY <2>1, <2>2, StartReadIs
<1>4. Starting'
  BY <1>1, StartReadIs DEF Books, Starting
<1>. QED BY <1>1, <1>2, <1>3, <1>4, StartReadIs, BooksAre DEF Books

\* The read's answer arrives, and the read asks once more or no more.
LEMMA RunArrivedAsking ==
  ASSUME Books, Arrives("run"), core'.reads = core.reads, core'.login = core.login,
         out' = out \/ (out' = Append(out, "run") /\ run'.at \notin {"none", "wallet", "unread"})
  PROVE  Asking' /\ (out' = out => ~Sent("run")') /\ \A m : m # "run" => (Sent(m)' => Sent(m))
<1>1. Asking
  BY DEF Books
<1>2. inbox' \in Seq(Message) /\ (\A m : Remains(m) => Sent(m)) /\ ~Remains("run")
  BY <1>1, ArrivedIs DEF Asking
<1>3. CASE out' = out
  <2>1. (\A m : Sent(m)' => Remains(m)) /\ \A m, n : AskedBefore(m, n)' => AskedBefore(m, n)
    BY <1>1, <1>3, ArrivedOnly
  <2>. QED BY <1>1, <1>2, <1>3, <2>1 DEF Asking
<1>4. CASE out' = Append(out, "run") /\ run'.at \notin {"none", "wallet", "unread"} /\ out' # out
  <2>1. /\ out' \in Seq(Askers) /\ \A m : Sent(m)' => m = "run" \/ Remains(m)
        /\ \A m, n : AskedBefore(m, n)' => AskedBefore(m, n) \/ (Remains(m) /\ n = "run")
    BY <1>1, <1>4, ArrivedAsks DEF Askers
  <2>. QED BY <1>1, <1>2, <1>4, <2>1 DEF Asking
<1>. QED BY <1>3, <1>4

LEMMA HeadIs ==
  ASSUME Books, NEW who, Arrives(who)
  PROVE  Head(inbox).val \in Saved \cup {Failed} /\ Head(inbox).who = who /\ ReadsStarted
  BY ArrivedIs DEF Books, Message, Arrives

LEMMA RuleReadsIs ==
  ASSUME SessionAssumption, Books, RuleReads
  PROVE  /\ Arrives("run") /\ ReadsStarted /\ run.at = "rule" /\ run.kind # "none" /\ readFailed' = (Head(inbox).val = Failed)
         /\ HeardRead(readFailed') /\ UNCHANGED <<saved, up, out, casts, flag, shown, speaker, report, kept, core, left>>
         /\ RunFine(run') /\ run'.kind = run.kind /\ run'.crossed = run.crossed
         /\ run'.at = IF readFailed' THEN "unread" ELSE "wallet"
         /\ run'.got = IF readFailed' THEN NoSession ELSE Head(inbox).val
<1>1. /\ Arrives("run") /\ ReadsStarted /\ run.at = "rule" /\ readFailed' = (Head(inbox).val = Failed)
      /\ HeardRead(readFailed') /\ UNCHANGED <<saved, up, out, casts, flag, shown, speaker, report, kept, core, left>>
  BY DEF RuleReads, Arrives
<1>2. PICK got \in Saved : got = IF readFailed' THEN NoSession ELSE Head(inbox).val
  BY <1>1, HeadIs, BlankTypes
<1>3. run.kind # "none" /\ run \in RunType
  BY <1>1 DEF Books, RunFine
<1>4. run' = [run EXCEPT !.at = IF readFailed' THEN "unread" ELSE "wallet", !.got = got]
  BY <1>1, <1>2 DEF RuleReads
<1>5. run' \in RunType /\ run'.kind = run.kind /\ run'.crossed = run.crossed /\ run'.got = got
      /\ run'.at = IF readFailed' THEN "unread" ELSE "wallet"
  BY <1>3, <1>4 DEF RunType
<1>6. RunFine(run')
  BY <1>2, <1>3, <1>5 DEF RunFine
<1>. QED BY <1>1, <1>2, <1>3, <1>5, <1>6

LEMMA RuleReadsBooks == ASSUME SessionAssumption, Books, RuleReads PROVE Books'
<1>1. queue' \in Seq(Kinds) /\ ~On(queue', "load")
  BY RuleReadsIs, Queued DEF HeardRead
<1>2. Asking'
  <2>1. Asking' /\ ~Sent("run")'
    BY RuleReadsIs, RunArrivedAsking
  <2>. QED BY <2>1
<1>3. Starting'
  BY <1>1, RuleReadsIs DEF Books, Starting
<1>4. Typed'
  BY RuleReadsIs DEF Books, Typed, shown
<1>. QED BY <1>2, <1>3, <1>4, RuleReadsIs, BooksAre DEF Books

\* The restore ends, or the read drops what it found.
LEMMA RuleDecidesIs ==
  ASSUME SessionAssumption, Books, RuleDecides
  PROVE  /\ TurnOver /\ ReadsStarted /\ run.at \in {"wallet", "unread"} /\ run.kind # "none" /\ run.got \in Saved
         /\ left' \in LeftType /\ left'.writes = left.writes /\ kept' \in KeptTypes
         /\ UNCHANGED <<saved, up, casts, inbox, flag, speaker, report, queue, core, readFailed>>
         /\ \/ /\ run.at = "wallet" /\ run.got \in Sessions /\ out' = Append(out, "run") /\ UNCHANGED shown
               /\ RunFine(run') /\ run'.kind = run.kind /\ run'.at = "drop" /\ run'.got = run.got
               /\ run'.crossed = run.crossed
            \/ Restored(run.got, out)
<1>1. /\ TurnOver /\ ReadsStarted /\ run.at \in {"wallet", "unread"}
      /\ UNCHANGED <<saved, up, casts, inbox, flag, speaker, report, queue, core, readFailed>>
  BY DEF RuleDecides, TurnOver
<1>2. run.kind # "none" /\ run \in RunType /\ RunFine(run) /\ run.got \in Saved
  BY <1>1 DEF Books, RunFine, RunType
<1>3. PICK answered \in BOOLEAN :
         LET wallet == answered \/ kept = "wallet" IN
         /\ WalletRead(answered)
         /\ IF run.got \in Sessions /\ ~run.flag /\ ~flag.set
            THEN /\ run' = [run EXCEPT !.at = "drop"] /\ out' = Append(out, "run") /\ UNCHANGED shown
                 /\ kept' = Remembers(wallet, FALSE)
            ELSE kept' = Remembers(wallet, run.at = "wallet") /\ Restored(run.got, out)
  BY DEF RuleDecides
<1>4. left' \in LeftType /\ left'.writes = left.writes /\ kept' \in KeptTypes
  BY <1>3, WalletReadIs DEF Books, Remembers, KeptTypes
<1>5. CASE run.got \in Sessions /\ ~run.flag /\ ~flag.set
  <2>1. run' = [run EXCEPT !.at = "drop"] /\ out' = Append(out, "run") /\ UNCHANGED shown
    BY <1>3, <1>5
  <2>2. run' \in RunType /\ run'.kind = run.kind /\ run'.at = "drop" /\ run'.got = run.got /\ run'.crossed = run.crossed
    BY <1>2, <2>1 DEF RunType
  <2>3. RunFine(run') /\ run.at = "wallet"
    BY <1>1, <1>2, <1>5, <2>2 DEF RunFine, SessionAssumption
  <2>. QED BY <1>1, <1>2, <1>4, <1>5, <2>1, <2>2, <2>3
<1>6. CASE ~(run.got \in Sessions /\ ~run.flag /\ ~flag.set)
  BY <1>1, <1>2, <1>3, <1>4, <1>6
<1>. QED BY <1>5, <1>6

LEMMA RuleDecidesBooks == ASSUME SessionAssumption, Books, RuleDecides PROVE Books'
<1>1. ~Sent("run") /\ Asking
  BY RuleDecidesIs DEF Books, Asking
<1>2. /\ run'.kind = "none" \/ run'.kind = run.kind
      /\ RunFine(run') /\ auth' \in AuthType /\ whence' \in {"read", "told", "crossed", "unread"}
      /\ out' = out \/ (out' = Append(out, "run") /\ run'.at \notin {"none", "wallet", "unread"})
  BY RuleDecidesIs, RestoredIs DEF Books, Typed, shown
<1>3. Asking'
  <2>1. CASE out' = out
    BY <1>1, <2>1, RuleDecidesIs DEF Asking, Sent, AskedBefore
  <2>2. CASE out' = Append(out, "run") /\ run'.at \notin {"none", "wallet", "unread"}
    <3>1. /\ out' \in Seq(Askers) /\ \A m : Sent(m)' => m = "run" \/ Sent(m)
          /\ \A m, n : AskedBefore(m, n)' => AskedBefore(m, n) \/ (Sent(m) /\ n = "run")
      BY <1>1, <2>2, RuleDecidesIs, AskedIs DEF Askers
    <3>. QED BY <1>1, <2>2, <3>1, RuleDecidesIs DEF Asking
  <2>. QED BY <1>2, <2>1, <2>2
<1>4. Starting'
  BY <1>2, RuleDecidesIs, NoLoadWaits DEF Books, Starting
<1>5. Typed'
  BY <1>2, RuleDecidesIs DEF Books, Typed
<1>. QED BY <1>2, <1>3, <1>4, <1>5, RuleDecidesIs, BooksAre DEF Books

\* A drop that fails is lost on the core.
LEMMA DroppedCoreIs ==
  ASSUME SessionAssumption, Books, RuleDropped
  PROVE  /\ CoreFine(core') /\ core'.on = core.on /\ core'.reads = core.reads /\ core'.login = core.login
         /\ core'.sees = core.sees /\ core'.doomed = core.doomed /\ core'.blind = core.blind /\ core'.misled = core.misled
         /\ core'.owes = core.owes /\ (core.lost => core'.lost)
         /\ (core'.on /\ Head(inbox).val = Failed => core'.lost)
<1>1. PICK x \in BOOLEAN : x = (core.on /\ Head(inbox).val = Failed)
  OBVIOUS
<1>2. core' = [core EXCEPT !.lost = @ \/ x] /\ core \in CoreType /\ CoreFine(core)
  BY <1>1 DEF RuleDropped, Books, CoreFine
<1>3. /\ core' \in CoreType /\ core'.on = core.on /\ core'.reads = core.reads /\ core'.login = core.login
      /\ core'.sees = core.sees /\ core'.doomed = core.doomed /\ core'.blind = core.blind /\ core'.misled = core.misled
      /\ core'.owes = core.owes /\ core'.lost = (core.lost \/ x)
  BY <1>2 DEF CoreType
<1>4. ~core.on => core' = core
  BY <1>1, <1>2 DEF CoreFine, CoreType, NoCore
<1>5. CoreFine(core')
  BY <1>2, <1>3, <1>4 DEF CoreFine
<1>. QED BY <1>1, <1>3, <1>5

LEMMA RuleDroppedBooks == ASSUME SessionAssumption, Books, RuleDropped PROVE Books'
<1>1. /\ Arrives("run") /\ ReadsStarted /\ run.at = "drop"
      /\ UNCHANGED <<saved, up, casts, flag, speaker, report, queue, left, readFailed>>
  BY DEF RuleDropped, Arrives
<1>2. run.kind # "none" /\ run \in RunType /\ NoSession \in Saved
  BY <1>1, BlankTypes DEF Books, RunFine
<1>3. queue' \in Seq(Kinds) /\ ~On(queue', "load")
  BY <1>1, Queued
<1>4. CASE Head(inbox).val \in Sessions
  <2>1. PICK r : r = [run EXCEPT !.at = "cache"]
    OBVIOUS
  <2>2. run' = r /\ out' = Append(out, "run") /\ UNCHANGED <<shown, kept>>
    BY <1>4, <2>1 DEF RuleDropped
  <2>3. r \in RunType /\ r.kind = run.kind /\ r.at = "cache"
    BY <1>2, <2>1 DEF RunType
  <2>4. RunFine(r)
    BY <1>2, <2>3 DEF RunFine
  <2>5. Asking'
    BY <1>1, <1>2, <2>2, <2>3, DroppedCoreIs, RunArrivedAsking
  <2>6. Starting'
    BY <1>1, <1>3, <2>2, <2>3, DroppedCoreIs DEF Books, Starting
  <2>7. Typed'
    BY <1>1, <2>2 DEF Books, Typed, shown
  <2>. QED BY <1>1, <2>2, <2>4, <2>5, <2>6, <2>7, DroppedCoreIs, BooksAre
<1>5. CASE Head(inbox).val \notin Sessions
  <2>2. kept' \in KeptTypes /\ Restored(NoSession, out)
    BY <1>5 DEF RuleDropped, Remembers, KeptTypes
  <2>3. Asking'
    BY <1>1, <1>2, <2>2, DroppedCoreIs, RestoredIs, RunArrivedAsking
  <2>4. Starting'
    BY <1>1, <1>2, <1>3, <2>2, DroppedCoreIs, RestoredIs DEF Books, Starting
  <2>5. Typed'
    BY <1>1, <1>2, <2>2, RestoredIs DEF Books, Typed
  <2>. QED BY <1>1, <1>2, <2>2, <2>3, <2>4, <2>5, DroppedCoreIs, RestoredIs, BooksAre
<1>. QED BY <1>4, <1>5

\* A core is on as long as it does anything.
LEMMA CoreIsOn ==
  ASSUME CoreFine(core), core.login # "no" \/ core.reads > 0 \/ core.owes PROVE core.on
  BY DEF CoreFine, NoCore

LEMMA SessionReadBooks == ASSUME SessionAssumption, Books, SessionRead PROVE Books'
<1>1. /\ Arrives("run") /\ ReadsStarted /\ run.at = "session" /\ readFailed' = (Head(inbox).val = Failed)
      /\ HeardRead(readFailed') /\ UNCHANGED <<saved, up, casts, flag, speaker, report, kept, core, left>>
  BY DEF SessionRead, Arrives
<1>2. PICK got \in Saved \cup {Failed} : got = Head(inbox).val
  BY <1>1, HeadIs
<1>3. run.kind # "none" /\ run \in RunType /\ NoSession \in Saved
  BY <1>1, BlankTypes DEF Books, RunFine
<1>4. queue' \in Seq(Kinds) /\ ~On(queue', "load")
  BY <1>1, Queued DEF HeardRead
<1>5. CASE got \in Sessions
  <2>1. PICK r : r = [run EXCEPT !.at = "account", !.got = got]
    OBVIOUS
  <2>2. run' = r /\ out' = Append(out, "run") /\ UNCHANGED shown
    BY <1>2, <1>5, <2>1 DEF SessionRead
  <2>3. r \in RunType /\ r.kind = run.kind /\ r.at = "account" /\ r.got = got
    BY <1>3, <1>5, <2>1 DEF RunType, Saved
  <2>4. RunFine(r)
    BY <1>3, <1>5, <2>3 DEF RunFine
  <2>5. Asking'
    BY <1>1, <1>3, <2>2, <2>3, RunArrivedAsking
  <2>6. Starting'
    BY <1>1, <1>4, <2>2, <2>3 DEF Books, Starting
  <2>7. Typed'
    BY <1>1, <2>2 DEF Books, Typed, shown
  <2>. QED BY <1>1, <2>2, <2>4, <2>5, <2>6, <2>7, BooksAre DEF Books
<1>6. CASE got \notin Sessions
  <2>2. Finish(NoSession) /\ out' = out
    BY <1>2, <1>6 DEF SessionRead
  <2>3. Asking'
    BY <1>1, <2>2, RunArrivedAsking
  <2>4. Starting'
    BY <1>1, <1>3, <1>4, <2>2, FinishIs DEF Books, Starting, NoRun
  <2>5. Typed'
    BY <1>1, <1>3, <2>2, FinishIs DEF Books, Typed
  <2>. QED BY <1>1, <1>3, <2>2, <2>3, <2>4, <2>5, FinishIs, BooksAre DEF Books
<1>. QED BY <1>5, <1>6

LEMMA AccountReadBooks == ASSUME SessionAssumption, Books, AccountRead PROVE Books'
<1>1. /\ Arrives("run") /\ ReadsStarted /\ run.at = "account" /\ Finish(run.got)
      /\ UNCHANGED <<saved, up, out, casts, flag, speaker, report, queue, kept, core, left, readFailed>>
  BY DEF AccountRead, Arrives
<1>2. run.got \in Saved
  BY <1>1 DEF Books, RunFine, Saved
<1>3. queue' \in Seq(Kinds) /\ ~On(queue', "load")
  BY <1>1, Queued
<1>4. Asking'
  BY <1>1, RunArrivedAsking
<1>5. Starting'
  BY <1>1, <1>2, <1>3, FinishIs DEF Books, Starting, NoRun
<1>6. Typed'
  BY <1>1, <1>2, FinishIs DEF Books, Typed
<1>. QED BY <1>1, <1>2, <1>4, <1>5, <1>6, FinishIs, BooksAre DEF Books

LEMMA RuleClearedBooks == ASSUME SessionAssumption, Books, RuleCleared PROVE Books'
<1>1. /\ Arrives("run") /\ ReadsStarted /\ run.at = "cache" /\ kept' \in KeptTypes /\ core' = Notified(core)
      /\ queue' = (IF Allowed THEN Append(queue, "read") ELSE queue) /\ Restored(NoSession, CoreAsks(out))
      /\ UNCHANGED <<saved, up, casts, flag, speaker, report, left, readFailed>>
  BY DEF RuleCleared, Arrives, Remembers, KeptTypes
<1>2. run.kind # "none" /\ run \in RunType /\ NoSession \in Saved
  BY <1>1, BlankTypes DEF Books, RunFine
<1>3. queue' \in Seq(Kinds) /\ ~On(queue', "load")
  BY <1>1, Queued
<1>4. Asking /\ out \in Seq(Askers) /\ CoreFine(core)
  BY DEF Books, Asking
<1>5. CoreFine(core') /\ core'.on = core.on /\ core'.login = core.login /\ core'.reads >= core.reads
      /\ (core.on => core'.reads > 0) /\ core'.reads \in Nat /\ core.reads \in Nat
  BY <1>1, <1>4, NotifiedIs
<1>6. PICK o : o = CoreAsks(out)
  OBVIOUS
<1>7. /\ o \in Seq(Askers)
      /\ o = out \/ (o = Append(out, "core") /\ core.on /\ core.reads = 0)
  BY <1>4, <1>6, CoreAsksIs
<1>8. inbox' \in Seq(Message) /\ (\A m : Remains(m) => Sent(m)) /\ ~Remains("run")
      /\ \A m, n : Before(inbox', out, m, n) => AskedBefore(m, n)
  BY <1>1, <1>4, ArrivedIs DEF Asking
<1>9. /\ \A m : InLine(inbox', o, m) => Remains(m) \/ (m = "core" /\ core.on /\ core.reads = 0)
      /\ ~Before(inbox', o, "run", "run") /\ ~Before(inbox', o, "core", "core") /\ ~Before(inbox', o, "store", "store")
  <2>1. CASE o = out
    BY <1>4, <1>8, <2>1 DEF Remains, Asking
  <2>2. CASE o = Append(out, "core") /\ core.on /\ core.reads = 0
    <3>1. /\ \A m : InLine(inbox', o, m) <=> InLine(inbox', out, m) \/ m = "core"
          /\ \A m, n : Before(inbox', o, m, n) <=> Before(inbox', out, m, n) \/ (InLine(inbox', out, m) /\ n = "core")
      BY <1>4, <1>8, <2>2, LinePushes DEF Askers
    <3>2. ~Sent("core")
      BY <1>4, <2>2 DEF Asking
    <3>. QED BY <1>4, <1>8, <2>2, <3>1, <3>2 DEF Remains, Asking
  <2>. QED BY <1>7, <2>1, <2>2
<1>f. /\ InLine(inbox', o, "core") => core'.reads > 0
      /\ InLine(inbox', o, "store") => core'.login \in Storing
      /\ ~InLine(inbox', o, "run")
  <2>1. (Remains("core") => core.on) /\ (Remains("store") => core.login \in Storing)
    <3>1. Sent("core") => core.on
      BY <1>4, CoreIsOn DEF Asking
    <3>. QED BY <1>4, <1>8, <3>1 DEF Asking
  <2>. QED BY <1>5, <1>8, <1>9, <2>1
<1>10. Asking'
  <2>1. CASE out' = o
    <3>1. out' \in Seq(Askers)
      BY <1>7, <2>1
    <3>2. /\ \A m : Sent(m)' <=> InLine(inbox', o, m)
          /\ \A m, n : AskedBefore(m, n)' <=> Before(inbox', o, m, n)
      BY <2>1 DEF Sent, AskedBefore
    <3>. QED BY <1>8, <1>9, <1>f, <3>1, <3>2 DEF Asking
  <2>2. CASE out' = Append(o, "run") /\ run'.at = "session"
    <3>1. /\ out' \in Seq(Askers)
          /\ \A m : InLine(inbox', out', m) <=> InLine(inbox', o, m) \/ m = "run"
          /\ \A m, n : Before(inbox', out', m, n) <=> Before(inbox', o, m, n) \/ (InLine(inbox', o, m) /\ n = "run")
      BY <1>7, <1>8, <2>2, LinePushes DEF Askers
    <3>2. /\ \A m : Sent(m)' <=> InLine(inbox', o, m) \/ m = "run"
          /\ \A m, n : AskedBefore(m, n)' <=> Before(inbox', o, m, n) \/ (InLine(inbox', o, m) /\ n = "run")
      BY <3>1 DEF Sent, AskedBefore
    <3>. QED BY <1>8, <1>9, <1>f, <2>2, <3>1, <3>2 DEF Asking
  <2>. QED BY <1>1, <1>2, <1>6, <2>1, <2>2, RestoredIs
<1>11. Starting'
  BY <1>1, <1>2, <1>3, <1>5, RestoredIs DEF Books, Starting
<1>12. Typed'
  BY <1>1, <1>2, RestoredIs DEF Books, Typed
<1>. QED BY <1>1, <1>2, <1>5, <1>10, <1>11, <1>12, RestoredIs, BooksAre

\* Nothing joins or leaves the line.
LEMMA StillAsking ==
  ASSUME Books, UNCHANGED <<inbox, out, run>>, core'.reads = core.reads,
         core.login \in Storing => core'.login \in Storing
  PROVE  Asking' /\ (\A m : Sent(m)' <=> Sent(m)) /\ \A m, n : AskedBefore(m, n)' <=> AskedBefore(m, n)
  BY DEF Books, Asking, Sent, AskedBefore

LEMMA StillStarting ==
  ASSUME Books, UNCHANGED <<run, queue>>, ReadsStarted, speaker' = "core" => core'.on, speaker' = "copy" => report' = NoReport,
         run.kind = "load" => ~core'.on
  PROVE  Starting'
  BY NoLoadWaits DEF Books, Starting

LEMMA CoreBootsBooks == ASSUME SessionAssumption, Books, CoreBoots PROVE Books'
<1>1. /\ ReadsStarted /\ ~core.on /\ Spend("cores") /\ run.kind # "load"
      /\ core' = [NoCore EXCEPT !.on = TRUE, !.reads = 2] /\ out' = Append(out, "core")
      /\ UNCHANGED <<saved, up, casts, inbox, flag, shown, speaker, report, reads>>
  BY DEF CoreBoots, TurnOver
<1>2. CoreFine(core') /\ core'.on /\ core'.reads = 2 /\ core'.login = "no"
  <2>1. PICK c : c = NoCore
    OBVIOUS
  <2>2. c \in CoreType /\ c.login = "no"
    BY <2>1, BlankTypes DEF CoreFine, NoCore
  <2>3. core' = [c EXCEPT !.on = TRUE, !.reads = 2] /\ 2 \in 0 .. 2
    BY <1>1, <2>1
  <2>4. core' \in CoreType /\ core'.on /\ core'.reads = 2 /\ core'.login = "no"
    BY <2>2, <2>3 DEF CoreType
  <2>. QED BY <2>4 DEF CoreFine
<1>3. core = NoCore /\ Asking
  BY <1>1 DEF Books, CoreFine
<1>4. ~Sent("core") /\ ~Sent("store")
  BY <1>3 DEF Asking, NoCore, Storing
<1>5. Asking'
  <2>1. /\ out' \in Seq(Askers) /\ \A m : Sent(m)' => m = "core" \/ Sent(m)
        /\ \A m, n : AskedBefore(m, n)' => AskedBefore(m, n) \/ (Sent(m) /\ n = "core")
    BY <1>1, <1>3, AskedIs DEF Askers
  <2>. QED BY <1>1, <1>2, <1>3, <1>4, <2>1 DEF Asking, reads
<1>6. Starting'
  BY <1>1, <1>2, StillStarting DEF reads, Books, Starting
<1>7. Typed'
  BY <1>1, SpendIs DEF Books, Typed, shown, reads
<1>. QED BY <1>1, <1>2, <1>5, <1>6, <1>7, BooksAre DEF Books, reads

LEMMA CoreReadsBooks == ASSUME SessionAssumption, Books, CoreReads PROVE Books'
<1>1. /\ Arrives("core") \/ Arrives("gone")
      /\ ReadsStarted /\ readFailed' = (Head(inbox).val = Failed) /\ HeardRead(readFailed')
      /\ UNCHANGED <<saved, up, casts, flag, shown, speaker, report, run, kept, left>>
  BY DEF CoreReads, Arrives
<1>2. PICK b \in Saved : b = IF Head(inbox).val = Failed THEN NoSession ELSE Head(inbox).val
  BY <1>1, HeadIs, BlankTypes
<1>3. queue' \in Seq(Kinds) /\ ~On(queue', "load")
  BY <1>1, Queued DEF HeardRead
<1>4. Typed'
  BY <1>1 DEF Books, Typed, shown
<1>5. Asking /\ CoreFine(core)
  BY DEF Books
<1>6. CASE Head(inbox).who = "core"
  <2>1. Arrives("core") /\ Sent("core") /\ core.reads > 0
    BY <1>1, <1>5, <1>6, ArrivedIs DEF Asking, Arrives
  <2>2. PICK k \in 0 .. 1 : core.reads = k + 1
    <3>1. core.reads \in 0 .. 2
      BY <1>5 DEF CoreFine, CoreType
    <3>2. core.reads - 1 \in 0 .. 1 /\ core.reads = (core.reads - 1) + 1
      BY <2>1, <3>1
    <3>. QED BY <3>2
  <2>3. PICK failed \in BOOLEAN : failed = readFailed'
    BY <1>1
  <2>4. PICK owes \in BOOLEAN : owes = (core.owes \/ b # core.sees \/ speaker = "copy")
    OBVIOUS
  <2>l. PICK missed \in BOOLEAN : missed = (core.lost /\ failed)
    OBVIOUS
  <2>5. PICK c : c = [core EXCEPT !.reads = k, !.sees = b, !.blind = failed, !.lost = missed, !.owes = owes]
    OBVIOUS
  <2>6. core' = c /\ out' = IF core.reads = 2 THEN Append(out, "core") ELSE out
    <3>1. core.reads - 1 = k
      BY <2>2
    <3>. QED BY <1>1, <1>2, <1>6, <2>3, <2>4, <2>l, <2>5, <3>1 DEF CoreReads
  <2>7. /\ c \in CoreType /\ c.on = core.on /\ c.login = core.login /\ c.doomed = core.doomed /\ c.reads = k
    <3>1. k \in 0 .. 2 /\ core \in CoreType
      BY <1>5 DEF CoreFine
    <3>. QED BY <2>5, <3>1 DEF CoreType
  <2>8. core.on
    BY <1>5, <2>1 DEF CoreFine, NoCore
  <2>9. CoreFine(c)
    BY <1>5, <2>7, <2>8 DEF CoreFine
  <2>10. Starting'
    BY <1>1, <1>3, <2>6, <2>7 DEF Books, Starting
  <2>11. /\ inbox' \in Seq(Message) /\ (\A m : Remains(m) => Sent(m)) /\ ~Remains("core")
    BY <1>5, <2>1, ArrivedIs DEF Asking
  <2>12. CASE out' = out /\ core.reads # 2
    <3>1. (\A m : Sent(m)' => Remains(m)) /\ \A m, n : AskedBefore(m, n)' => AskedBefore(m, n)
      BY <1>5, <2>1, <2>12, ArrivedOnly
    <3>2. Asking'
      BY <1>1, <1>5, <2>6, <2>7, <2>11, <2>12, <3>1 DEF Asking
    <3>. QED BY <1>1, <1>4, <2>6, <2>9, <2>10, <3>2, BooksAre DEF Books
  <2>13. CASE out' = Append(out, "core") /\ core.reads = 2
    <3>1. /\ out' \in Seq(Askers) /\ \A m : Sent(m)' => m = "core" \/ Remains(m)
          /\ \A m, n : AskedBefore(m, n)' => AskedBefore(m, n) \/ (Remains(m) /\ n = "core")
      BY <1>5, <2>1, <2>13, ArrivedAsks DEF Askers
    <3>2. k > 0
      BY <2>2, <2>13
    <3>3. Asking'
      BY <1>1, <1>5, <2>6, <2>7, <2>11, <3>1, <3>2 DEF Asking
    <3>. QED BY <1>1, <1>4, <2>6, <2>9, <2>10, <3>3, BooksAre DEF Books
  <2>. QED BY <2>6, <2>12, <2>13
<1>7. CASE Head(inbox).who # "core"
  <2>1. Arrives("gone") /\ UNCHANGED <<core, out>>
    BY <1>1, <1>7 DEF Arrives, CoreReads
  <2>2. inbox' \in Seq(Message) /\ \A m : Remains(m) => Sent(m)
    BY <1>5, <2>1, ArrivedIs
  <2>3. (\A m : Sent(m)' => Remains(m)) /\ \A m, n : AskedBefore(m, n)' => AskedBefore(m, n)
    BY <1>5, <2>1, ArrivedOnly
  <2>4. Asking'
    BY <1>1, <1>5, <2>1, <2>2, <2>3 DEF Asking
  <2>5. Starting'
    BY <1>1, <1>3, <2>1 DEF Books, Starting
  <2>. QED BY <1>1, <1>4, <2>1, <2>4, <2>5, BooksAre DEF Books
<1>. QED BY <1>6, <1>7

\* What the core reports is typed.
LEMMA ReportIs ==
  ASSUME SessionAssumption, Books, NEW next \in AuthType, Report(next)
  PROVE  auth' \in AuthType /\ report' \in ReportType /\ speaker' = "core" /\ whence' = "read" /\ auth' = next /\ report' = next
  BY DEF Report, Show, AuthType, ReportType

LEMMA DisconnectedReportIs ==
  ASSUME SessionAssumption
  PROVE  DisconnectedReport \in AuthType /\ DisconnectedReport.tag = (IF readFailed THEN "Unreachable" ELSE "Disconnected")
  BY BlankTypes DEF DisconnectedReport, Tags, OpenTags

LEMMA ReportsBooks ==
  ASSUME SessionAssumption, Books, TurnOver, core.on, NEW next \in AuthType, Report(next), CoreFine(core'), core'.on,
         core'.reads = core.reads, core.login \notin Storing,
         left' \in LeftType, left'.writes = left.writes,
         UNCHANGED <<saved, up, wires, flag, reads>>
  PROVE  Books'
<1>1. ReadsStarted
  BY DEF TurnOver
<1>2. Typed'
  BY ReportIs DEF Books, Typed, wires, reads
<1>3. Asking'
  BY StillAsking DEF wires, reads
<1>4. Starting'
  BY <1>1, ReportIs, StillStarting DEF reads, Books, Starting
<1>. QED BY <1>2, <1>3, <1>4, BooksAre DEF Books, reads

LEMMA CoreReportsBooks == ASSUME SessionAssumption, Books, CoreReports PROVE Books'
<1>1. /\ TurnOver /\ core.on /\ core.login \in {"no", "pairing", "auth"}
      /\ core' = [core EXCEPT !.owes = FALSE, !.login = "no", !.misled = core.blind /\ ~readFailed]
      /\ UNCHANGED <<saved, up, wires, flag, reads, left>>
  BY DEF CoreReports
<1>2. PICK next \in AuthType : Report(next)
  <2>1. core.sees \in Saved
    BY DEF Books, CoreFine, CoreType
  <2>2. Connected(core.sees) \in AuthType
    BY <2>1, BlankTypes
  <2>. QED BY <2>2, DisconnectedReportIs DEF CoreReports
<1>3. /\ core' \in CoreType /\ core'.on /\ core'.reads = core.reads /\ core'.login = "no"
  BY <1>1 DEF Books, CoreFine, CoreType
<1>4. CoreFine(core')
  BY <1>3 DEF CoreFine
<1>. QED BY <1>1, <1>2, <1>3, <1>4, ReportsBooks DEF Books, Typed, Storing

LEMMA CorePairsBooks == ASSUME SessionAssumption, Books, CorePairs PROVE Books'
<1>1. /\ TurnOver /\ core.on /\ core.login = "no" /\ Spend("events") /\ Report(State("Pairing"))
      /\ core' = [core EXCEPT !.login = "pairing"] /\ UNCHANGED <<saved, up, wires, flag, reads>>
  BY DEF CorePairs
<1>2. State("Pairing") \in AuthType
  BY BlankTypes DEF Tags
<1>3. /\ core' \in CoreType /\ core'.on /\ core'.reads = core.reads /\ core'.login = "pairing"
  BY <1>1 DEF Books, CoreFine, CoreType
<1>4. CoreFine(core')
  BY <1>3 DEF CoreFine
<1>. QED BY <1>1, <1>2, <1>3, <1>4, SpendIs, ReportsBooks DEF Books, Storing

LEMMA CoreAuthenticatesBooks == ASSUME SessionAssumption, Books, CoreAuthenticates PROVE Books'
<1>1. /\ TurnOver /\ core.login = "pairing" /\ Report(State("Authenticating"))
      /\ core' = [core EXCEPT !.login = "auth"] /\ UNCHANGED <<saved, up, wires, flag, reads, left>>
  BY DEF CoreAuthenticates
<1>2. State("Authenticating") \in AuthType
  BY BlankTypes DEF Tags
<1>3. core.on
  BY <1>1, CoreIsOn DEF Books
<1>4. /\ core' \in CoreType /\ core'.on /\ core'.reads = core.reads /\ core'.login = "auth"
  BY <1>1, <1>3 DEF Books, CoreFine, CoreType
<1>5. CoreFine(core')
  BY <1>4 DEF CoreFine
<1>. QED BY <1>1, <1>2, <1>3, <1>4, <1>5, ReportsBooks DEF Books, Typed, Storing

LEMMA CoreFailsBooks == ASSUME SessionAssumption, Books, CoreFails PROVE Books'
<1>1. /\ TurnOver /\ core.login \in {"pairing", "auth"}
      /\ core' = [core EXCEPT !.login = "no", !.misled = core.blind /\ ~readFailed]
      /\ UNCHANGED <<saved, up, wires, flag, reads, left>>
  BY DEF CoreFails
<1>2. PICK next \in AuthType : Report(next)
  <2>1. State("LoginFailed") \in AuthType
    BY BlankTypes DEF Tags, OpenTags
  <2>. QED BY <2>1, DisconnectedReportIs DEF CoreFails
<1>3. core.on
  BY <1>1, CoreIsOn DEF Books
<1>4. /\ core' \in CoreType /\ core'.on /\ core'.reads = core.reads /\ core'.login = "no"
  BY <1>1, <1>3 DEF Books, CoreFine, CoreType
<1>5. CoreFine(core')
  BY <1>4 DEF CoreFine
<1>. QED BY <1>1, <1>2, <1>3, <1>4, <1>5, ReportsBooks DEF Books, Typed, Storing

LEMMA CoreStoresBooks == ASSUME SessionAssumption, Books, CoreStores PROVE Books'
<1>1. /\ ReadsStarted /\ out' = Append(out, "store")
      /\ UNCHANGED <<saved, up, casts, inbox, shown, speaker, report, reads>>
  BY DEF CoreStores, TurnOver
<1>2. Asking /\ core \in CoreType /\ CoreFine(core)
  BY DEF Books, CoreFine
<1>3. /\ core.login \notin Storing /\ core.on
      /\ CoreFine(core') /\ core'.on /\ core'.reads = core.reads /\ core'.login \in Storing
      /\ left' \in LeftType /\ left'.writes = left.writes
  <2>1. CASE core.login = "auth" /\ core' = [core EXCEPT !.login = "writing"] /\ UNCHANGED left
    <3>1. core.on
      BY <1>2, <2>1, CoreIsOn
    <3>2. core' \in CoreType /\ core'.on /\ core'.reads = core.reads /\ core'.login = "writing"
      BY <1>2, <2>1, <3>1 DEF CoreType
    <3>. QED BY <2>1, <3>1, <3>2 DEF CoreFine, Storing, Books, Typed
  <2>2. CASE /\ core.on /\ core.login = "no" /\ core.sees # NoSession /\ ~core.owes /\ Spend("events")
             /\ core' = [core EXCEPT !.login = "dropping", !.doomed = core.sees, !.sees = NoSession]
    <3>1. core.sees \in Sessions /\ NoSession \in Saved
      BY <1>2, <2>2, BlankTypes DEF CoreType, Saved
    <3>2. /\ core' \in CoreType /\ core'.on /\ core'.reads = core.reads /\ core'.login = "dropping"
          /\ core'.doomed = core.sees
      BY <1>2, <2>2, <3>1 DEF CoreType
    <3>. QED BY <2>2, <3>1, <3>2, SpendIs DEF CoreFine, Storing, Books
  <2>. QED BY <2>1, <2>2 DEF CoreStores
<1>4. Asking'
  <2>1. /\ out' \in Seq(Askers) /\ \A m : Sent(m)' => m = "store" \/ Sent(m)
        /\ \A m, n : AskedBefore(m, n)' => AskedBefore(m, n) \/ (Sent(m) /\ n = "store")
    BY <1>1, <1>2, AskedIs DEF Askers
  <2>. QED BY <1>1, <1>2, <1>3, <2>1 DEF Asking, reads
<1>5. Starting'
  BY <1>1, <1>3, StillStarting DEF reads, Books, Starting
<1>6. flag' \in FlagType
  BY DEF CoreStores, Books, Typed, FlagType
<1>7. Typed'
  BY <1>1, <1>3, <1>6 DEF Books, Typed, shown, reads
<1>. QED BY <1>1, <1>3, <1>4, <1>5, <1>7, BooksAre DEF Books, reads

\* The page's own writes: a core that stores is on, what it hears is told once, and what may become of the core.
LEMMA StoredIs ==
  ASSUME SessionAssumption, Books, NEW c, CoreFine(c), c.on
  PROVE  /\ CoreFine(Stored(c)) /\ Stored(c).on /\ Stored(c).login = "no" /\ Stored(c).owes /\ Stored(c).reads = c.reads
         /\ Stored(c).doomed = NoSession /\ Stored(c).sees = c.sees /\ Stored(c).blind = c.blind
         /\ Stored(c).misled = c.misled /\ Stored(c).lost = c.lost
<1>1. PICK d : d = [c EXCEPT !.login = "no", !.owes = TRUE, !.doomed = NoSession]
  OBVIOUS
<1>2. NoSession \in Saved /\ c \in CoreType
  BY BlankTypes DEF CoreFine
<1>3. /\ d \in CoreType /\ d.on /\ d.login = "no" /\ d.owes /\ d.reads = c.reads /\ d.doomed = NoSession /\ d.sees = c.sees
      /\ d.blind = c.blind /\ d.misled = c.misled /\ d.lost = c.lost
  BY <1>1, <1>2 DEF CoreType
<1>4. Stored(c) = d
  BY <1>1 DEF Stored
<1>. QED BY <1>3, <1>4 DEF CoreFine

LEMMA KeeperAsksIs ==
  ASSUME NEW c, CoreFine(c), c.on, NEW o, KeeperAsks(c, o)
  PROVE  /\ CoreFine(core') /\ core'.on /\ core'.login = "keeping" /\ core'.reads = c.reads /\ core'.sees = c.sees
         /\ core'.doomed = c.doomed /\ core'.blind = c.blind /\ core'.misled = c.misled /\ core'.lost = c.lost
         /\ core'.owes = c.owes /\ out' = Append(o, "store")
<1>1. core' = [c EXCEPT !.login = "keeping"] /\ c \in CoreType /\ out' = Append(o, "store")
  BY DEF KeeperAsks, CoreFine
<1>2. /\ core' \in CoreType /\ core'.on /\ core'.login = "keeping" /\ core'.reads = c.reads /\ core'.sees = c.sees
      /\ core'.doomed = c.doomed /\ core'.blind = c.blind /\ core'.misled = c.misled /\ core'.lost = c.lost
      /\ core'.owes = c.owes
  BY <1>1 DEF CoreType
<1>. QED BY <1>1, <1>2 DEF CoreFine

LEMMA StoreHeard ==
  ASSUME Books, CoreStored
  PROVE  /\ Arrives("store") /\ ReadsStarted /\ Sent("store") /\ core.login \in Storing /\ core.on /\ CoreFine(core)
         /\ Head(inbox).val \in Saved \cup {Failed} /\ UNCHANGED <<saved, up, casts, shown, speaker, report, kept>>
<1>1. Arrives("store") /\ ReadsStarted /\ UNCHANGED <<saved, up, casts, shown, speaker, report, kept>>
  BY DEF CoreStored, Arrives
<1>2. Sent("store") /\ core.login \in Storing /\ CoreFine(core)
  BY <1>1, ArrivedIs DEF Books, Asking
<1>3. core.on
  BY <1>2, CoreIsOn DEF Storing
<1>. QED BY <1>1, <1>2, <1>3, HeadIs

LEMMA DroppedIs ==
  ASSUME SessionAssumption, Books, CoreStored, SessionDropped
  PROVE  /\ core.login = "dropping" /\ Head(inbox).val \in Sessions /\ out' = Append(out, "store")
         /\ UNCHANGED <<flag, readFailed, queue, run, left>>
         /\ CoreFine(core') /\ core'.on /\ core'.login = "clearing" /\ core'.reads = core.reads /\ core'.sees = core.sees
         /\ core'.doomed = core.doomed /\ core'.blind = core.blind /\ core'.misled = core.misled /\ core'.lost = core.lost
         /\ core'.owes = core.owes
<1>1. core' = [core EXCEPT !.login = "clearing"] /\ core \in CoreType /\ core.on
  BY StoreHeard DEF SessionDropped, CoreFine
<1>2. /\ core' \in CoreType /\ core'.on /\ core'.login = "clearing" /\ core'.reads = core.reads /\ core'.sees = core.sees
      /\ core'.doomed = core.doomed /\ core'.blind = core.blind /\ core'.misled = core.misled /\ core'.lost = core.lost
      /\ core'.owes = core.owes
  BY <1>1 DEF CoreType
<1>. QED BY <1>2 DEF SessionDropped, CoreFine

LEMMA ClearedIs ==
  ASSUME SessionAssumption, Books, CoreStored, AccountCleared
  PROVE  /\ core.login = "clearing" /\ Rereads /\ out' = Append(CoreAsks(out), "store") /\ UNCHANGED <<readFailed, left>>
         /\ flag' \in FlagType /\ CoreFine(core') /\ core'.on /\ core'.login = "keeping" /\ core'.reads > 0
         /\ core'.reads >= core.reads /\ core'.reads \in Nat /\ core.reads \in Nat /\ core'.sees = core.sees
         /\ core'.doomed = core.doomed /\ core'.blind = core.blind /\ core'.misled = core.misled /\ core'.lost = core.lost
         /\ core'.owes = core.owes
<1>1. PICK c : c = Notified(core)
  OBVIOUS
<1>2. KeeperAsks(c, CoreAsks(out)) /\ core.on /\ CoreFine(core)
  BY <1>1, StoreHeard DEF AccountCleared
<1>3. /\ CoreFine(c) /\ c.on /\ c.reads > 0 /\ c.reads >= core.reads /\ c.reads \in Nat /\ core.reads \in Nat
      /\ c.sees = core.sees /\ c.doomed = core.doomed
      /\ c.blind = core.blind /\ c.misled = core.misled /\ c.lost = core.lost /\ c.owes = core.owes
  BY <1>1, <1>2, NotifiedIs
<1>4. flag' \in FlagType
  BY FlagSetIs DEF AccountCleared, Books, Typed, FlagType
<1>. QED BY <1>2, <1>3, <1>4, KeeperAsksIs DEF AccountCleared

LEMMA WrittenIs ==
  ASSUME SessionAssumption, Books, CoreStored, SessionWritten
  PROVE  /\ core.login = "writing" /\ Head(inbox).val \in Saved /\ Rereads /\ out' = CoreAsks(out)
         /\ UNCHANGED <<readFailed, left>>
         /\ flag' \in FlagType /\ CoreFine(core') /\ core'.on /\ core'.login = "no" /\ core'.owes /\ core'.reads > 0
         /\ core'.reads >= core.reads /\ core'.reads \in Nat /\ core.reads \in Nat /\ core'.sees = Head(inbox).val
         /\ core'.doomed = NoSession /\ ~core'.blind /\ core'.misled = core.misled /\ core'.lost = core.lost
<1>1. PICK got \in Saved : got = Head(inbox).val
  BY StoreHeard DEF SessionWritten
<1>2. PICK d : d = Stored(core)
  OBVIOUS
<1>3. /\ CoreFine(d) /\ d.on /\ d.login = "no" /\ d.owes /\ d.reads = core.reads /\ d.doomed = NoSession
      /\ d.misled = core.misled /\ d.lost = core.lost
  BY <1>2, StoreHeard, StoredIs
<1>4. PICK e : e = [d EXCEPT !.sees = got, !.blind = FALSE]
  OBVIOUS
<1>5. /\ e \in CoreType /\ e.on /\ e.login = "no" /\ e.owes /\ e.reads = core.reads /\ e.doomed = NoSession /\ e.sees = got
      /\ ~e.blind /\ e.misled = core.misled /\ e.lost = core.lost
  BY <1>3, <1>4 DEF CoreFine, CoreType
<1>6. CoreFine(e)
  BY <1>5 DEF CoreFine
<1>7. core' = Notified(e)
  BY <1>1, <1>2, <1>4 DEF SessionWritten
<1>8. flag' \in FlagType
  BY FlagSetIs DEF SessionWritten, Books, Typed, FlagType
<1>. QED BY <1>1, <1>5, <1>6, <1>7, <1>8, NotifiedIs DEF SessionWritten

LEMMA NotStoredIs ==
  ASSUME SessionAssumption, Books, CoreStored, NothingStored
  PROVE  /\ \/ core.login = "writing" /\ Head(inbox).val = Failed
            \/ core.login = "dropping" /\ Head(inbox).val \in {NoSession, Failed}
         /\ UNCHANGED <<readFailed, queue, left>> /\ flag' \in FlagType
         /\ RunFine(run') /\ run'.kind = run.kind /\ run'.at = run.at /\ run'.got = run.got
         /\ (run.crossed => run'.crossed) /\ (Head(inbox).val = Failed /\ run.kind # "none" => run'.crossed)
         /\ CoreFine(core') /\ core'.on /\ core'.reads = core.reads /\ core'.sees = core.sees
         /\ core'.blind = core.blind /\ core'.misled = core.misled /\ core'.lost = (core.lost \/ Head(inbox).val = Failed)
         /\ \/ core'.login = "keeping" /\ core'.owes = core.owes /\ core'.doomed = core.doomed /\ out' = Append(out, "store")
            \/ core'.login = "no" /\ core'.owes /\ core'.doomed = NoSession /\ out' = out
<1>1. PICK failed \in BOOLEAN : failed = (Head(inbox).val = Failed)
  OBVIOUS
<1>2. PICK c : c = [core EXCEPT !.lost = @ \/ failed]
  OBVIOUS
<1>3. core \in CoreType /\ core.on /\ Head(inbox).val \in Saved \cup {Failed}
  BY StoreHeard DEF CoreFine
<1>4. /\ c \in CoreType /\ c.on /\ c.reads = core.reads /\ c.sees = core.sees /\ c.doomed = core.doomed
      /\ c.blind = core.blind /\ c.misled = core.misled /\ c.lost = (core.lost \/ failed) /\ c.owes = core.owes
      /\ c.login = core.login
  BY <1>2, <1>3 DEF CoreType
<1>5. CoreFine(c)
  BY <1>4, StoreHeard DEF CoreFine
<1>6. (KeeperAsks(c, out)) \/ (core' = Stored(c) /\ out' = out)
  BY <1>1, <1>2 DEF NothingStored
<1>7. /\ CoreFine(core') /\ core'.on /\ core'.reads = core.reads /\ core'.sees = core.sees
      /\ core'.blind = core.blind /\ core'.misled = core.misled /\ core'.lost = (core.lost \/ failed)
      /\ \/ core'.login = "keeping" /\ core'.owes = core.owes /\ core'.doomed = core.doomed /\ out' = Append(out, "store")
         \/ core'.login = "no" /\ core'.owes /\ core'.doomed = NoSession /\ out' = out
  <2>1. CASE KeeperAsks(c, out)
    BY <1>4, <1>5, <2>1, KeeperAsksIs
  <2>2. CASE core' = Stored(c) /\ out' = out
    BY <1>4, <1>5, <2>2, StoredIs
  <2>. QED BY <1>6, <2>1, <2>2
<1>8. RunFine(run') /\ run'.kind = run.kind /\ run'.at = run.at /\ run'.got = run.got
      /\ run'.crossed = (run.crossed \/ (failed /\ run.kind # "none"))
  <2>1. PICK x \in BOOLEAN : x = (run.crossed \/ (failed /\ run.kind # "none"))
    OBVIOUS
  <2>2. run' = [run EXCEPT !.crossed = x] /\ RunFine(run)
    BY <1>1, <2>1 DEF NothingStored, Books
  <2>3. CASE run.kind = "none"
    BY <2>1, <2>2, <2>3 DEF RunFine, RunType
  <2>4. CASE run.kind # "none"
    BY <2>1, <2>2, <2>4 DEF RunFine, RunType
  <2>. QED BY <2>3, <2>4
<1>9. flag' \in FlagType
  BY FlagSetIs DEF NothingStored, Books, Typed, FlagType
<1>. QED BY <1>1, <1>3, <1>7, <1>8, <1>9 DEF NothingStored, Saved

LEMMA KeptIs ==
  ASSUME SessionAssumption, Books, CoreStored, KeeperReads
  PROVE  /\ core.login = "keeping" /\ readFailed' = (Head(inbox).val = Failed) /\ HeardRead(readFailed')
         /\ UNCHANGED <<out, run>> /\ left' \in LeftType /\ left'.writes = left.writes /\ flag' \in FlagType
         /\ CoreFine(core') /\ core'.on /\ core'.login = "no" /\ core'.owes /\ core'.reads = core.reads
         /\ core'.doomed = NoSession /\ core'.sees = core.sees /\ core'.blind = core.blind
         /\ core'.misled = core.misled /\ core'.lost = core.lost
<1>1. /\ core.login = "keeping" /\ readFailed' = (Head(inbox).val = Failed) /\ HeardRead(readFailed')
      /\ UNCHANGED <<out, run>> /\ core' = Stored(core)
  BY DEF KeeperReads
<1>2. PICK answered \in BOOLEAN : WalletRead(answered)
  BY DEF KeeperReads
<1>3. left' \in LeftType /\ left'.writes = left.writes
  BY <1>2, WalletReadIs DEF Books
<1>4. flag' \in FlagType
  BY FlagSetIs DEF KeeperReads, Books, Typed, FlagType
<1>. QED BY <1>1, <1>3, <1>4, StoreHeard, StoredIs

\* The store's answer is heard, and then the core or the store asks.
LEMMA StoreAsking ==
  ASSUME SessionAssumption, Books, Arrives("store"), run'.at = run.at, NEW o, o = out \/ o = CoreAsks(out),
         core'.reads \in Nat, core.reads \in Nat, core'.reads >= core.reads, o # out => core'.reads > 0,
         out' = o \/ (out' = Append(o, "store") /\ core'.login \in Storing)
  PROVE  Asking'
<1>1. Asking /\ out \in Seq(Askers)
  BY DEF Books, Asking
<1>2. /\ inbox' \in Seq(Message) /\ (\A m : Remains(m) => Sent(m)) /\ ~Remains("store")
      /\ \A m, n : Before(inbox', out, m, n) => AskedBefore(m, n)
  BY <1>1, ArrivedIs DEF Asking
<1>3. /\ o \in Seq(Askers)
      /\ o = out \/ (o = Append(out, "core") /\ core.reads = 0 /\ core'.reads > 0)
  BY <1>1, CoreAsksIs
<1>4. /\ \A m : InLine(inbox', o, m) => Remains(m) \/ (m = "core" /\ core'.reads > 0)
      /\ ~Before(inbox', o, "run", "run") /\ ~Before(inbox', o, "core", "core") /\ ~Before(inbox', o, "store", "store")
  <2>1. CASE o = out
    BY <1>1, <1>2, <2>1 DEF Remains, Asking
  <2>2. CASE o = Append(out, "core") /\ core.reads = 0 /\ core'.reads > 0
    <3>1. /\ \A m : InLine(inbox', o, m) <=> InLine(inbox', out, m) \/ m = "core"
          /\ \A m, n : Before(inbox', o, m, n) <=> Before(inbox', out, m, n) \/ (InLine(inbox', out, m) /\ n = "core")
      BY <1>1, <1>2, <2>2, LinePushes DEF Askers
    <3>2. ~Sent("core")
      BY <1>1, <2>2 DEF Asking
    <3>. QED BY <1>1, <1>2, <2>2, <3>1, <3>2 DEF Remains, Asking
  <2>. QED BY <1>3, <2>1, <2>2
<1>f. /\ InLine(inbox', o, "core") => core'.reads > 0
      /\ InLine(inbox', o, "run") => run'.at \notin {"none", "wallet", "unread"}
      /\ ~InLine(inbox', o, "store")
  <2>1. (Remains("core") => core.reads > 0) /\ (Remains("run") => run.at \notin {"none", "wallet", "unread"})
    BY <1>1, <1>2 DEF Asking
  <2>2. core.reads > 0 => core'.reads > 0
    OBVIOUS
  <2>. QED BY <1>2, <1>4, <2>1, <2>2
<1>5. CASE out' = o
  <2>1. /\ \A m : Sent(m)' <=> InLine(inbox', o, m)
        /\ \A m, n : AskedBefore(m, n)' <=> Before(inbox', o, m, n)
    BY <1>5 DEF Sent, AskedBefore
  <2>. QED BY <1>2, <1>3, <1>4, <1>f, <1>5, <2>1 DEF Asking
<1>6. CASE out' = Append(o, "store") /\ core'.login \in Storing
  <2>1. /\ out' \in Seq(Askers)
        /\ \A m : InLine(inbox', out', m) <=> InLine(inbox', o, m) \/ m = "store"
        /\ \A m, n : Before(inbox', out', m, n) <=> Before(inbox', o, m, n) \/ (InLine(inbox', o, m) /\ n = "store")
    BY <1>2, <1>3, <1>6, LinePushes DEF Askers
  <2>2. /\ \A m : Sent(m)' <=> InLine(inbox', o, m) \/ m = "store"
        /\ \A m, n : AskedBefore(m, n)' <=> Before(inbox', o, m, n) \/ (InLine(inbox', o, m) /\ n = "store")
    BY <2>1 DEF Sent, AskedBefore
  <2>. QED BY <1>2, <1>4, <1>f, <1>6, <2>1, <2>2 DEF Asking
<1>. QED BY <1>5, <1>6

LEMMA CoreStoredBooks == ASSUME SessionAssumption, Books, CoreStored PROVE Books'
<1>1. Arrives("store") /\ ReadsStarted /\ core.on /\ core.reads \in Nat
      /\ UNCHANGED <<saved, up, casts, shown, speaker, report, kept>>
  BY StoreHeard DEF CoreFine, CoreType
<1>2. /\ CoreFine(core') /\ core'.on /\ RunFine(run') /\ run'.at = run.at /\ run'.kind = run.kind
      /\ flag' \in FlagType /\ left' \in LeftType /\ left'.writes = left.writes /\ readFailed' \in BOOLEAN
      /\ queue' \in Seq(Kinds) /\ ~On(queue', "load")
      /\ Asking'
  <2>1. CASE SessionDropped
    <3>1. Asking'
      BY <1>1, <2>1, DroppedIs, StoreAsking DEF Storing
    <3>. QED BY <1>1, <2>1, <3>1, DroppedIs, Queued DEF Books, Typed
  <2>2. CASE AccountCleared
    <3>1. Asking'
      BY <1>1, <2>2, ClearedIs, RereadsIs, StoreAsking DEF Storing
    <3>. QED BY <1>1, <2>2, <3>1, ClearedIs, RereadsIs DEF Books, Typed
  <2>3. CASE SessionWritten
    <3>1. Asking'
      BY <1>1, <2>3, WrittenIs, RereadsIs, StoreAsking
    <3>. QED BY <1>1, <2>3, <3>1, WrittenIs, RereadsIs DEF Books, Typed
  <2>4. CASE NothingStored
    <3>1. Asking'
      BY <1>1, <2>4, NotStoredIs, StoreAsking DEF Storing
    <3>. QED BY <1>1, <2>4, <3>1, NotStoredIs, Queued DEF Books, Typed
  <2>5. CASE KeeperReads
    <3>1. Asking'
      BY <1>1, <2>5, KeptIs, StoreAsking
    <3>2. queue' \in Seq(Kinds) /\ ~On(queue', "load")
      BY <1>1, <2>5, KeptIs, Queued DEF HeardRead
    <3>. QED BY <1>1, <2>5, <3>1, <3>2, KeptIs DEF Books
  <2>. QED BY <2>1, <2>2, <2>3, <2>4, <2>5 DEF CoreStored
<1>3. Starting'
  BY <1>1, <1>2 DEF Books, Starting
<1>4. Typed'
  BY <1>1, <1>2 DEF Books, Typed, shown
<1>. QED BY <1>2, <1>3, <1>4, BooksAre

LEMMA CoresGoneBooks == ASSUME SessionAssumption, Books, CoresGone PROVE Books'
<1>1. /\ ReadsStarted /\ core.on /\ core.login = "no" /\ core' = NoCore
      /\ out' = LeftOut(out) /\ inbox' = LeftInbox(inbox)
      /\ speaker' = "copy" /\ report' = NoReport /\ queue' = Append(queue, "read")
      /\ UNCHANGED <<saved, up, casts, flag, shown, readFailed, run, kept, left>>
  BY DEF CoresGone, TurnOver, LeftOut, LeftInbox
<1>2. Asking /\ inbox \in Seq(Message) /\ out \in Seq(Askers)
  BY DEF Books, Asking
<1>3. /\ inbox' \in Seq(Message) /\ out' \in Seq(Askers) /\ ~InLine(inbox', out', "core")
      /\ \A m \in Askings \ {"core", "gone"} :
           (InLine(inbox', out', m) => InLine(inbox, out, m)) /\ (Before(inbox', out', m, m) => Before(inbox, out, m, m))
  BY <1>1, <1>2, LineLeaves
<1>4. /\ (Sent("run")' => Sent("run")) /\ (Sent("store")' => Sent("store")) /\ ~Sent("core")'
      /\ (AskedBefore("run", "run")' => AskedBefore("run", "run"))
      /\ (AskedBefore("store", "store")' => AskedBefore("store", "store"))
  BY <1>3 DEF Sent, AskedBefore, Askings, Askers
<1>5. ~AskedBefore("core", "core")'
  <2>1. \A w, o : Before(w, o, "core", "core") => InLine(w, o, "core")
    BY DEF Before, InLine, Ahead, On
  <2>. QED BY <1>4, <2>1 DEF Sent, AskedBefore
<1>6. Asking'
  BY <1>1, <1>2, <1>3, <1>4, <1>5 DEF Asking, Storing
<1>7. Starting'
  BY <1>1, Queued DEF Books, Starting, NoCore
<1>8. Typed'
  <2>1. NoReport \in ReportType
    BY BlankTypes
  <2>. QED BY <1>1, <2>1 DEF Books, Typed, shown
<1>. QED BY <1>1, <1>6, <1>7, <1>8, BlankTypes, BooksAre DEF Books

LEMMA ToldBooks == ASSUME SessionAssumption, Books, Told PROVE Books'
<1>1. UNCHANGED <<saved, up, wires, flag, speaker, report, reads, core>> /\ whence' = "told"
  BY DEF Told
<1>2. auth' \in AuthType
  BY BlankTypes DEF Told, Tags, OpenTags
<1>3. Typed'
  BY <1>1, <1>2, SpendIs DEF Told, Books, Typed, wires, reads
<1>4. Asking' /\ Starting'
  BY <1>1, StillAsking DEF wires, reads, Books, Starting
<1>. QED BY <1>1, <1>3, <1>4, BooksAre DEF Books, reads

LEMMA RetryReadBooks == ASSUME SessionAssumption, Books, RetryRead PROVE Books'
<1>1. /\ ReadsStarted /\ queue' = Append(queue, "retry")
      /\ UNCHANGED <<saved, up, wires, flag, shown, speaker, report, readFailed, run, kept, core, left>>
  BY DEF RetryRead, TurnOver
<1>2. Starting'
  BY <1>1, Queued DEF Books, Starting
<1>3. Asking'
  BY <1>1, StillAsking DEF wires
<1>4. Typed'
  BY <1>1 DEF Books, Typed, shown, wires
<1>. QED BY <1>1, <1>2, <1>3, <1>4, BooksAre DEF Books

LEMMA StepBooks == ASSUME SessionAssumption, Books, [SessionNext]_sessionVars PROVE Books'
<1>1. CASE UNCHANGED sessionVars
  BY <1>1 DEF sessionVars, wires, shown, reads, Books, Typed, Asking, Starting, Sent, AskedBefore
<1>2. CASE Reads
  BY <1>2, StartReadBooks, RuleReadsBooks, RuleDecidesBooks, RuleDroppedBooks, RuleClearedBooks, SessionReadBooks, AccountReadBooks DEF Reads
<1>3. CASE Heeds
  BY <1>3, HearCastBooks, CoreReadsBooks, CoreStoredBooks DEF Heeds
<1>4. CASE Serve \/ TimeOut \/ OtherTab \/ Relay \/ GoDown \/ ComeUp
  BY <1>4, ServeBooks, TimeOutBooks, OtherTabBooks, RelayBooks, GoDownBooks, ComeUpBooks
<1>5. CASE CoreBoots \/ CoreReports \/ CorePairs \/ CoreAuthenticates \/ CoreFails \/ CoreStores \/ CoresGone
  BY <1>5, CoreBootsBooks, CoreReportsBooks, CorePairsBooks, CoreAuthenticatesBooks, CoreFailsBooks, CoreStoresBooks,
     CoresGoneBooks
<1>6. CASE Told \/ RetryRead
  BY <1>6, ToldBooks, RetryReadBooks
<1>. QED BY <1>1, <1>2, <1>3, <1>4, <1>5, <1>6 DEF SessionNext

\* Whatever the tabs, the core and the store do, the state stays typed: reads and answers are counted and matched.
THEOREM SessionTyped == SessionSpec => []SessionTypeOK
<1>1. SessionAssumption
  BY SessionAssumption
<1>2. SessionInit => Books
  BY <1>1, SessionInitBooks
<1>3. Books /\ [SessionNext]_sessionVars => Books'
  BY <1>1, StepBooks
<1>4. Books => SessionTypeOK
  BY BooksTyped
<1>. QED BY <1>2, <1>3, <1>4, PTL DEF SessionSpec

----------------------------------------------------------------------------
(* A core's page. *)

\* While a core's own report is on show, the copy shows nothing that it reads.
KeepsStep ==
  speaker = "core" /\ auth = report /\ report.tag \in {"Pairing", "Authenticating", "Connected"} /\ auth' # auth =>
       report' = auth' \/ whence' = "told"

LEMMA StepKeepsThePage == ASSUME [SessionNext]_sessionVars PROVE KeepsStep
<1> SUFFICES ASSUME speaker = "core", auth = report, report.tag \in {"Pairing", "Authenticating", "Connected"}, auth' # auth
             PROVE  report' = auth' \/ whence' = "told"
  BY DEF KeepsStep
<1>1. ~Allowed /\ auth.tag \notin {"Restoring", "Disconnected"}
  BY DEF Allowed, OpenTags
<1>2. \A raw : ~Finish(raw)
  BY <1>1 DEF Finish, shown
<1>3. \A raw, o : ~Restored(raw, o)
  BY <1>2 DEF Restored, shown
<1>4. SessionNext
  BY DEF sessionVars, shown
<1>5. ~Reads /\ ~Heeds
  BY <1>2, <1>3 DEF Reads, StartRead, RuleReads, RuleDecides, RuleDropped, RuleCleared, SessionRead, AccountRead, Heeds,
     HearCast, CoreReads, CoreStored, shown
<1>6. ~(Serve \/ TimeOut \/ OtherTab \/ Relay \/ GoDown \/ ComeUp \/ CoreBoots \/ CoreStores \/ CoresGone \/ RetryRead)
  BY <1>1 DEF Serve, TimeOut, OtherTab, Relay, GoDown, ComeUp, CoreBoots, CoreStores, CoresGone, RetryRead, shown
<1>7. ASSUME NEW next, Report(next) PROVE report' = auth'
  BY <1>7 DEF Report, Show
<1>8. CASE CoreReports \/ CorePairs \/ CoreAuthenticates \/ CoreFails
  BY <1>7, <1>8 DEF CoreReports, CorePairs, CoreAuthenticates, CoreFails
<1>9. CASE Told
  BY <1>9 DEF Told
<1>. QED BY <1>4, <1>5, <1>6, <1>8, <1>9 DEF SessionNext

\* What a core reports of a pairing or a sign-in stays on show until it reports again or the page is told of a sign-out:
\* a read of the copy that was sent before lands without effect, with any number of sessions, cores and writers.
THEOREM CoreKeeps == SessionSpec => CoreKeepsThePage
<1>1. [SessionNext]_sessionVars => [KeepsStep]_sessionVars
  BY StepKeepsThePage
<1>. QED BY <1>1, PTL DEF SessionSpec, CoreKeepsThePage, KeepsStep

----------------------------------------------------------------------------
(* What a page waits for. *)

Loading == run.kind = "load" \/ On(queue, "load")

\* A page that restores waits for the load, and one that cannot reach the store for the store or for a read.
Pends ==
  /\ auth.tag = "Restoring" => speaker = "copy" /\ Loading
  /\ auth.tag = "Unreachable" /\ ~readFailed => up = "unavailable" \/ queue # <<>> \/ run.kind # "none"

LEMMA TagsOf ==
  /\ \A tag : State(tag).tag = tag /\ State(tag).of = NoSession
  /\ \A b : Connected(b).tag = "Connected" /\ Connected(b).of = b
  BY DEF State, Connected

\* What the copy shows in the place of a sign-in that it withdraws.
LEMMA WithdrawnIs ==
  ASSUME Allowed, speaker = "core", auth.tag = "Connected" PROVE Withdrawn.tag \in {"Disconnected", "LoginFailed"}
  BY TagsOf DEF Allowed, Withdrawn, OpenTags

\* A read that ended leaves no page that restores, and one that cannot reach the store only if it failed.
LEMMA FinishShows ==
  ASSUME Pends, NEW raw, Finish(raw)
  PROVE  auth'.tag # "Restoring" /\ (auth'.tag = "Unreachable" => readFailed')
<1>1. CASE ~Allowed
  BY <1>1 DEF Finish, shown, Allowed, OpenTags, Pends
<1>2. CASE Allowed /\ raw # NoSession
  BY <1>2, TagsOf DEF Finish
<1>3. CASE Allowed /\ raw = NoSession /\ speaker = "core" /\ ~readFailed' /\ auth.tag = "Connected"
  BY <1>3, WithdrawnIs DEF Finish, Show
<1>4. CASE Allowed /\ raw = NoSession /\ auth.tag \in {"Restoring", "Unreachable"}
  BY <1>4, TagsOf DEF Finish, Show
<1>5. CASE /\ Allowed /\ raw = NoSession /\ auth.tag \notin {"Restoring", "Unreachable"}
           /\ ~(speaker = "core" /\ ~readFailed' /\ auth.tag = "Connected")
  BY <1>5 DEF Finish
<1>. QED BY <1>1, <1>2, <1>3, <1>4, <1>5

LEMMA FinishWaits == ASSUME Pends, NEW raw, Finish(raw) PROVE Pends'
  BY FinishShows DEF Pends

LEMMA RestoredWaits ==
  ASSUME SessionAssumption, Books, Pends, NEW raw \in Saved, NEW o, Restored(raw, o), run.kind # "none", UNCHANGED speaker
  PROVE  Pends'
<1>1. CASE run.kind = "load"
  BY <1>1, FinishWaits DEF Restored
<1>2. CASE run.kind # "load"
  <2>1. run'.kind # "none" /\ UNCHANGED shown
    <3>1. run' = [run EXCEPT !.at = "session", !.got = NoSession, !.flag = TRUE] /\ UNCHANGED shown
      BY <1>2 DEF Restored
    <3>. QED BY <3>1 DEF Books, RunFine, RunType
  <2>2. ~Loading
    BY <1>2 DEF Books, Starting, Loading
  <2>. QED BY <2>1, <2>2 DEF Pends, shown
<1>. QED BY <1>1, <1>2

\* A page that shows what it showed waits on.
LEMMA WaitsStays ==
  ASSUME Books, Pends, ReadsStarted, UNCHANGED <<auth, speaker>>, run'.kind = run.kind, queue # <<>> => queue' # <<>>,
         auth.tag = "Unreachable" => queue' # <<>> \/ (readFailed' = readFailed /\ up' = up) \/ readFailed'
  PROVE  Pends'
<1>1. ~On(queue, "load")
  BY NoLoadWaits
<1>. QED BY <1>1 DEF Pends, Loading

LEMMA AppendIsNot == ASSUME NEW q \in Seq(Kinds), NEW x \in {"read", "retry"} PROVE Append(q, x) # <<>>
<1>1. x \in Kinds
  BY DEF Kinds
<1>. QED BY <1>1, AppendProperties

LEMMA RereadsStays ==
  ASSUME Books, ReadsStarted, Rereads
  PROVE  run'.kind = run.kind /\ (queue # <<>> => queue' # <<>>) /\ (Allowed => queue' # <<>>)
<1>1. queue \in Seq(Kinds)
  BY DEF Books, Starting
<1>. QED BY <1>1, RereadsIs, AppendIsNot

\* A read that answered leaves a page that cannot reach the store a read to make.
LEMMA HeardReadIs ==
  ASSUME Books, NEW failed \in BOOLEAN, HeardRead(failed)
  PROVE  (queue # <<>> => queue' # <<>>) /\ (auth.tag = "Unreachable" => failed \/ queue' # <<>>)
<1>1. queue \in Seq(Kinds)
  BY DEF Books, Starting
<1>. QED BY <1>1, AppendIsNot DEF HeardRead

LEMMA ReadsWait == ASSUME SessionAssumption, Books, Pends, Reads PROVE Pends'
<1>1. CASE StartRead
  <2>1. UNCHANGED <<auth, speaker, readFailed, up>> /\ run.kind = "none" /\ queue # <<>>
    BY <1>1 DEF StartRead, shown
  <2>2. auth.tag = "Restoring" => Allowed /\ Head(queue) = "load"
    <3>1. ASSUME auth.tag = "Restoring" PROVE Allowed /\ On(queue, "load")
      BY <2>1, <3>1 DEF Pends, Loading, Allowed
    <3>2. On(queue, "load") => queue = <<"load">>
      BY DEF Books, Starting
    <3>. QED BY <3>1, <3>2
  <2>3. auth.tag = "Unreachable" => Allowed
    BY DEF Allowed, OpenTags
  <2>4. Head(queue) # "none"
    BY <1>1, StartReadIs DEF Kinds
  <2>5. \/ run' = run /\ (~Allowed \/ (Head(queue) = "retry" /\ auth.tag # "Unreachable"))
        \/ run'.kind = Head(queue)
    BY <1>1, StartReadIs
  <2>. QED BY <2>1, <2>2, <2>3, <2>4, <2>5 DEF Pends, Loading
<1>2. CASE RuleReads
  <2>1. Arrives("run") /\ run.at = "rule" /\ HeardRead(readFailed') /\ readFailed' \in BOOLEAN /\ UNCHANGED <<auth, speaker>>
    BY <1>2 DEF RuleReads, shown
  <2>2. ReadsStarted /\ run'.kind = run.kind
    BY <1>2, <2>1 DEF RuleReads, Books, RunFine, RunType, Arrives
  <2>. QED BY <2>1, <2>2, HeardReadIs, WaitsStays
<1>7. CASE RuleDecides
  <2>1. ReadsStarted /\ run.at \in {"wallet", "unread"} /\ UNCHANGED <<speaker, up, queue, readFailed>>
    BY <1>7 DEF RuleDecides, TurnOver
  <2>2. run.kind # "none" /\ run \in RunType /\ run.got \in Saved
    BY <2>1 DEF Books, RunFine, RunType
  <2>3. CASE run' = [run EXCEPT !.at = "drop"] /\ UNCHANGED shown
    <3>1. run'.kind = run.kind
      BY <2>2, <2>3 DEF RunType
    <3>. QED BY <2>1, <2>3, <3>1, WaitsStays DEF shown
  <2>4. CASE Restored(run.got, out)
    BY <2>1, <2>2, <2>4, RestoredWaits
  <2>. QED BY <1>7, <2>3, <2>4 DEF RuleDecides
<1>3. CASE RuleDropped
  <2>1. Arrives("run") /\ run.at = "drop" /\ UNCHANGED <<speaker, up, queue, readFailed>>
    BY <1>3 DEF RuleDropped
  <2>2. run.kind # "none" /\ ReadsStarted /\ run \in RunType /\ NoSession \in Saved
    BY <2>1, BlankTypes DEF Books, RunFine, Arrives
  <2>3. CASE run' = [run EXCEPT !.at = "cache"] /\ UNCHANGED shown
    <3>1. run'.kind = run.kind
      BY <2>2, <2>3 DEF RunType
    <3>. QED BY <2>1, <2>2, <2>3, <3>1, WaitsStays DEF shown
  <2>4. CASE Restored(NoSession, out)
    BY <2>1, <2>2, <2>4, RestoredWaits
  <2>. QED BY <1>3, <2>3, <2>4 DEF RuleDropped
<1>4. CASE RuleCleared
  <2>1. run.at = "cache" /\ UNCHANGED speaker /\ Restored(NoSession, CoreAsks(out))
    BY <1>4 DEF RuleCleared
  <2>2. run.kind # "none" /\ NoSession \in Saved
    BY <2>1, BlankTypes DEF Books, RunFine
  <2>. QED BY <2>1, <2>2, RestoredWaits
<1>5. CASE SessionRead
  <2>1. Arrives("run") /\ run.at = "session" /\ HeardRead(readFailed') /\ readFailed' \in BOOLEAN /\ UNCHANGED speaker
    BY <1>5 DEF SessionRead
  <2>2. run.kind # "none" /\ ReadsStarted /\ run \in RunType
    BY <2>1 DEF Books, RunFine, Arrives
  <2>3. CASE run' = [run EXCEPT !.at = "account", !.got = Head(inbox).val] /\ UNCHANGED shown
    <3>1. run'.kind = run.kind
      BY <2>2, <2>3 DEF RunType
    <3>. QED BY <2>1, <2>2, <2>3, <3>1, HeardReadIs, WaitsStays DEF shown
  <2>4. CASE Finish(NoSession)
    BY <2>4, FinishWaits
  <2>. QED BY <1>5, <2>3, <2>4 DEF SessionRead
<1>6. CASE AccountRead
  BY <1>6, FinishWaits DEF AccountRead
<1>. QED BY <1>1, <1>2, <1>3, <1>4, <1>5, <1>6, <1>7 DEF Reads

LEMMA HeedsWait == ASSUME SessionAssumption, Books, Pends, Heeds PROVE Pends'
<1>1. CASE HearCast
  <2>1. ReadsStarted /\ Rereads /\ UNCHANGED <<auth, speaker, readFailed, up>>
    BY <1>1 DEF HearCast, Heard, Arrives, shown
  <2>. QED BY <2>1, RereadsStays, WaitsStays
<1>2. CASE CoreReads
  <2>1. ReadsStarted /\ HeardRead(readFailed') /\ readFailed' \in BOOLEAN /\ UNCHANGED <<auth, speaker, run>>
    BY <1>2 DEF CoreReads, Arrives, shown
  <2>. QED BY <2>1, HeardReadIs, WaitsStays
<1>3. CASE CoreStored
  <2>1. ReadsStarted /\ UNCHANGED <<auth, speaker, up>>
    BY <1>3 DEF CoreStored, Arrives, shown
  <2>2. CASE SessionDropped
    BY <2>1, <2>2, WaitsStays DEF SessionDropped
  <2>3. CASE AccountCleared \/ SessionWritten
    <3>1. Rereads /\ UNCHANGED readFailed
      BY <2>3 DEF AccountCleared, SessionWritten
    <3>. QED BY <2>1, <3>1, RereadsStays, WaitsStays
  <2>4. CASE NothingStored
    <3>1. UNCHANGED <<queue, readFailed>> /\ run'.kind = run.kind
      BY <2>4 DEF NothingStored, Books, RunFine, RunType
    <3>. QED BY <2>1, <3>1, WaitsStays
  <2>5. CASE KeeperReads
    <3>1. HeardRead(readFailed') /\ readFailed' \in BOOLEAN /\ UNCHANGED run
      BY <2>5 DEF KeeperReads
    <3>. QED BY <2>1, <3>1, HeardReadIs, WaitsStays
  <2>. QED BY <1>3, <2>2, <2>3, <2>4, <2>5 DEF CoreStored
<1>. QED BY <1>1, <1>2, <1>3 DEF Heeds

LEMMA ReportsWait ==
  ASSUME SessionAssumption, Books, Pends, CoreReports \/ CorePairs \/ CoreAuthenticates \/ CoreFails
  PROVE  Pends'
<1>1. PICK next : Report(next) /\ next.tag # "Restoring" /\ (next.tag = "Unreachable" => readFailed)
  <2>1. DisconnectedReport.tag = (IF readFailed THEN "Unreachable" ELSE "Disconnected")
    BY DisconnectedReportIs
  <2>2. CASE CoreReports
    BY <2>1, <2>2, TagsOf DEF CoreReports
  <2>3. CASE CorePairs \/ CoreAuthenticates
    BY <2>3, TagsOf DEF CorePairs, CoreAuthenticates
  <2>4. CASE CoreFails
    BY <2>1, <2>4, TagsOf DEF CoreFails
  <2>. QED BY <2>2, <2>3, <2>4
<1>2. readFailed' = readFailed
  BY DEF CoreReports, CorePairs, CoreAuthenticates, CoreFails, reads
<1>. QED BY <1>1, <1>2 DEF Report, Show, Pends

LEMMA StepWaits == ASSUME SessionAssumption, Books, Pends, [SessionNext]_sessionVars PROVE Pends'
<1>1. CASE UNCHANGED sessionVars
  BY <1>1 DEF sessionVars, shown, reads, Pends, Loading
<1>2. CASE Serve \/ TimeOut \/ OtherTab \/ Relay \/ CoreBoots \/ CoreStores
  <2>1. UNCHANGED <<auth, speaker, readFailed, queue, run, up>>
    BY <1>2 DEF Serve, TimeOut, OtherTab, Relay, CoreBoots, CoreStores, shown, reads
  <2>. QED BY <2>1 DEF Pends, Loading
<1>3. CASE GoDown
  <2>1. up' = "unavailable" /\ (auth' = State("Unreachable") \/ (auth' = auth /\ auth.tag # "Restoring"))
    BY <1>3 DEF GoDown, Show, shown
  <2>. QED BY <2>1, TagsOf DEF Pends
<1>4. CASE ComeUp
  <2>1. ReadsStarted /\ UNCHANGED <<auth, speaker, readFailed>>
    BY <1>4 DEF ComeUp, TurnOver, shown
  <2>2. CASE up = "unavailable"
    <3>1. Rereads
      BY <1>4, <2>2 DEF ComeUp, Heard
    <3>2. auth.tag = "Unreachable" => Allowed
      BY DEF Allowed, OpenTags
    <3>. QED BY <2>1, <3>1, <3>2, RereadsStays, WaitsStays
  <2>3. CASE up # "unavailable"
    <3>1. UNCHANGED <<queue, run>>
      BY <1>4, <2>3 DEF ComeUp
    <3>. QED BY <2>1, <2>3, <3>1 DEF Pends, Loading
  <2>. QED BY <2>2, <2>3
<1>5. CASE CoresGone
  <2>1. core.on /\ queue' = Append(queue, "read") /\ UNCHANGED auth /\ queue \in Seq(Kinds)
    BY <1>5 DEF CoresGone, shown, Books, Starting
  <2>2. queue' # <<>> /\ ~Loading
    BY <2>1, AppendIsNot DEF Books, Starting, Loading
  <2>. QED BY <2>1, <2>2 DEF Pends
<1>6. CASE Told
  BY <1>6, TagsOf DEF Told, Pends
<1>7. CASE RetryRead
  <2>1. ReadsStarted /\ queue' = Append(queue, "retry") /\ UNCHANGED <<auth, speaker, run>> /\ queue \in Seq(Kinds)
    BY <1>7 DEF RetryRead, TurnOver, shown, Books, Starting
  <2>2. queue' # <<>>
    BY <2>1, AppendIsNot
  <2>. QED BY <2>1, <2>2, WaitsStays
<1>. QED BY <1>1, <1>2, <1>3, <1>4, <1>5, <1>6, <1>7, ReadsWait, HeedsWait, ReportsWait DEF SessionNext

\* Who waits, waits for something under way.
LEMMA QuietWaits == ASSUME Pends PROVE WaitingEnds
<1>1. queue = <<>> => ~On(queue, "load")
  BY EmptyLine
<1>. QED BY <1>1 DEF Pends, WaitingEnds, Quiet, Loading

\* Neither Restoring nor Unreachable is the last word of a page with nothing under way: the load ends the one, and a
\* read that answers, whichever reader made it, ends the other.
THEOREM NoWaitForever == SessionSpec => []WaitingEnds
<1>1. SessionAssumption
  BY SessionAssumption
<1>2. SessionInit => Books /\ Pends
  <2>1. SessionInit => Pends
    <3>1. On(<<"load">>, "load")
      BY DEF On
    <3>. QED BY <3>1, TagsOf DEF SessionInit, Pends, Loading
  <2>. QED BY <1>1, <2>1, SessionInitBooks
<1>3. Books /\ Pends /\ [SessionNext]_sessionVars => (Books /\ Pends)'
  BY <1>1, StepBooks, StepWaits
<1>4. Books /\ Pends => WaitingEnds
  BY QuietWaits
<1>. QED BY <1>2, <1>3, <1>4, PTL DEF SessionSpec

=============================================================================
