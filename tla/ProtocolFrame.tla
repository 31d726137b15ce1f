---------------------------- MODULE ProtocolFrame ----------------------------
(***************************************************************************)
(* The hidden frame of packages/protocol/src/createProtocolFrame.ts: a      *)
(* keeper boots it, holds it until it is lost and boots it again; callers   *)
(* wait until it is ready, or take the transport of the frame there is now. *)
(* A frame whose light client failed to start is held for the shared store  *)
(* until the next one listens.                                              *)
(*                                                                          *)
(* What awaits runs on in a later turn: between a loss and the keeper that  *)
(* catches it, and between a kept frame's end and the keeper that follows   *)
(* it, callers and config changes run.  A status listener may ask for the   *)
(* frame from inside the change that says it is down, ahead of the waits.   *)
(*                                                                          *)
(* External: the iframe, the transport's handshake, and the timers, which   *)
(* may run out whenever they run.  Frames keep a number while anything      *)
(* refers to them, and are numbered anew after that.                        *)
(***************************************************************************)
EXTENDS Naturals, Sequences, SequencesExt, FiniteSets, FiniteSetsExt

CONSTANTS MaxFrames,  \* bound on the frames something still refers to
          Waits,      \* the callers, each with one call at a time
          None,
          MaxConfigs, \* bound on the changes of the config
          MaxEager    \* bound on the times a status listener asks for the frame ahead of the waits

Frames == 1 .. MaxFrames

ASSUME FrameAssumption ==
  None \notin Frames /\ {MaxFrames, MaxConfigs, MaxEager} \subseteq Nat

VARIABLES status,    \* where the frame stands
          slot,      \* the frame being booted or kept
          held,      \* the frame held for the shared store
          alive,     \* the frames in the document
          phase,     \* what each frame's keepFrame waits for, "connected" as its handshake has just succeeded
          lost,      \* why the loss of a frame still kept was aborted
          keeper,    \* the task that keeps the frame
          mine,      \* the frame whose keepFrame that task runs, or ran last
          mismatch,  \* whether a frame refused the host's wire version
          configured, configs, eager, \* whether there is a config, its changes, and the asks ahead of the waits
          waits,     \* the callers that wait
          asking     \* the frame whose heartbeat a liveness check has out

vars == <<status, slot, held, alive, phase, lost, keeper, mine, mismatch,
          configured, configs, eager, waits, asking>>
configVars == <<configured, configs>>

Phases == {"over", "load", "listen", "connected", "ready", "kept", "settled"}
Down == {"idle", "failed"}

\* A caller's call.
WaitType == [state : {"idle", "config", "wait", "got", "failed"}, kind : {"ready", "store"},
             frame : Frames \cup {None}, since : BOOLEAN]

TypeOK ==
  /\ status \in {"idle", "booting", "listening", "ready", "failed"}
  /\ {slot, held, mine, asking} \subseteq Frames \cup {None} /\ alive \subseteq Frames
  /\ phase \in [Frames -> Phases] /\ lost \in [Frames -> {"no", "error", "init"}]
  /\ keeper \in {"none", "waiting", "running"} /\ {mismatch, configured} \subseteq BOOLEAN
  /\ configs \in 0 .. MaxConfigs /\ eager \in 0 .. MaxEager
  /\ waits \in [Waits -> WaitType]

Init ==
  /\ status = "idle" /\ slot = None /\ held = None /\ alive = {}
  /\ phase = [f \in Frames |-> "over"] /\ lost = [f \in Frames |-> "no"]
  /\ keeper = "none" /\ mine = None /\ mismatch = FALSE
  /\ configured = FALSE /\ configs = 0 /\ eager = 0
  /\ waits = [w \in Waits |-> [state |-> "idle", kind |-> "ready", frame |-> None, since |-> FALSE]]
  /\ asking = None

(***************************************************************************)
(* The waits                                                                *)
(***************************************************************************)
Waiting(ws, w, kind) == ws[w].state = "wait" /\ ws[w].kind = kind

\* The frame's transport is built. It is known of as long as the frame is kept or held.
Loaded(f) == phase[f] \notin {"load", "over"} \/ f = held

Settled(wait, state) == [wait EXCEPT !.state = state, !.frame = None, !.since = FALSE]

\* The waits once each heard that the status is st (waitUntilReady's verdict).
HeardStatus(ws, st) ==
  [w \in Waits |->
     IF ~Waiting(ws, w, "ready") THEN ws[w]
     ELSE CASE st = "ready" -> Settled(ws[w], "got")
            [] st = "idle" \/ (st = "failed" /\ ws[w].since) -> Settled(ws[w], "failed")
            [] OTHER -> ws[w]]

\* Mutant of HeardLoss: the load of a dropped frame is left pending.
HeardLoss_loading(ws, f) ==
  [w \in Waits |-> IF Waiting(ws, w, "ready") THEN [ws[w] EXCEPT !.since = TRUE] ELSE ws[w]]

\* The waits once frame f is dropped or held: those on its load fail, and those on its boot count the loss.
HeardLoss(ws, f) ==
  [w \in Waits |->
     CASE Waiting(ws, w, "store") /\ ws[w].frame = f -> Settled(ws[w], "failed")
       [] Waiting(ws, w, "ready") -> [ws[w] EXCEPT !.since = TRUE]
       [] OTHER -> ws[w]]

HeardLoad(ws, f) ==
  [w \in Waits |-> IF Waiting(ws, w, "store") /\ ws[w].frame = f THEN Settled(ws[w], "got") ELSE ws[w]]

(***************************************************************************)
(* The keeper                                                               *)
(***************************************************************************)
\* Nothing refers to the frame.
Free(f) ==
  /\ phase[f] = "over" /\ f \notin alive /\ f \notin {mine, asking}
  /\ \A w \in Waits : waits[w].state = "wait" => waits[w].frame # f

\* No keeper has anything left to do in this turn. Timers and messages wait for it, callers need not.
Rested == \A f \in Frames : phase[f] \notin {"connected", "settled"} /\ lost[f] = "no"

NewFrame == Min({f \in Frames : Free(f)})
CanBoot == \E f \in Frames : Free(f)

\* The losses once those of dropped that are still kept are aborted.
Aborted(dropped) ==
  [f \in Frames |-> IF f \in dropped /\ phase[f] # "over" /\ lost[f] = "no" THEN "error" ELSE lost[f]]

\* A new keeper runs at once and keeps a new frame, once those of dropped are gone (keep, keepFrame).
Boots(dropped) ==
  LET f == NewFrame IN
  /\ CanBoot /\ slot' = f /\ mine' = f /\ status' = "booting" /\ keeper' = "running"
  /\ alive' = (alive \ dropped) \cup {f} /\ phase' = [phase EXCEPT ![f] = "load"] /\ lost' = Aborted(dropped)

\* A new keeper runs at once and cannot build its frame, so it is down again in the same turn, to be retried.
Unbuilt(dropped) ==
  /\ slot' = None /\ mine' = None /\ status' = "failed" /\ keeper' = "waiting"
  /\ alive' = alive \ dropped /\ lost' = Aborted(dropped) /\ UNCHANGED phase

\* The retry, or the rebuild after a stable frame, is due.
BackoffEnds ==
  /\ Rested /\ keeper = "waiting"
  /\ \/ Boots({}) /\ UNCHANGED waits
     \/ Unbuilt({}) /\ waits' = HeardStatus(HeardLoss(waits, None), "failed")
  /\ UNCHANGED <<held, mismatch, configVars, eager, asking>>

\* The iframe loads: its transport is built, and the calls that waited for it go out on it.
FrameLoads(f) ==
  /\ Rested /\ phase[f] = "load" /\ phase' = [phase EXCEPT ![f] = "listen"]
  /\ waits' = HeardLoad(waits, f)
  /\ UNCHANGED <<status, slot, held, alive, lost, keeper, mine, mismatch, configVars, eager, asking>>

Connects(f) ==
  /\ Rested /\ phase[f] = "listen" /\ phase' = [phase EXCEPT ![f] = "connected"]
  /\ UNCHANGED <<status, slot, held, alive, lost, keeper, mine, mismatch, configVars, eager, waits, asking>>

\* The keeper runs on once the handshake succeeded. A frame that is no longer in the slot changes nothing.
HearListening(f) ==
  /\ phase[f] = "connected" /\ phase' = [phase EXCEPT ![f] = "ready"]
  /\ IF slot = f
     THEN /\ status' = IF status = "booting" THEN "listening" ELSE status
          /\ held' = None /\ alive' = alive \ {held}
     ELSE UNCHANGED <<status, held, alive>>
  /\ UNCHANGED <<slot, lost, keeper, mine, mismatch, configVars, eager, waits, asking>>

\* The light client is up, as the frame's status says (watchStatus).
HearReady(f) ==
  /\ Rested /\ phase[f] = "ready" /\ slot = f
  /\ phase' = [phase EXCEPT ![f] = "kept"] /\ status' = "ready" /\ waits' = HeardStatus(waits, "ready")
  /\ UNCHANGED <<slot, held, alive, lost, keeper, mine, mismatch, configVars, eager, asking>>

\* The frame's status ends while it is in the slot: its light client failed, or the worker let it go.
StatusEnds(f, reason) ==
  /\ Rested /\ slot = f /\ phase[f] \in {"ready", "kept"} /\ lost' = [lost EXCEPT ![f] = reason]
  /\ UNCHANGED <<status, slot, held, alive, phase, keeper, mine, mismatch, configVars, eager,
                 waits, asking>>

\* What keepFrame waits for fails: the load, the handshake or the light client by its own timer, or the loss.
Throws(f) == \/ Rested /\ phase[f] \in {"load", "listen", "ready"}
             \/ phase[f] \in {"load", "listen", "ready", "kept"} /\ lost[f] # "no"

\* keepFrame ends with frame f, and what is known of it with it.
Ends(f, next) == phase' = [phase EXCEPT ![f] = next] /\ lost' = [lost EXCEPT ![f] = "no"]

\* A frame that left the slot has nothing left to lose.
StaleFails(f) ==
  /\ Throws(f) /\ slot # f /\ lost[f] # "no" /\ Ends(f, "over")
  /\ UNCHANGED <<status, slot, held, alive, keeper, mine, mismatch, configVars, eager, waits, asking>>

\* A frame whose light client failed to start is held, and its keeper retries (holdFrame).
Holds(f) ==
  /\ Throws(f) /\ slot = f /\ lost[f] = "init" /\ phase[f] # "kept"
  /\ slot' = None /\ held' = f /\ status' = "failed" /\ keeper' = "waiting" /\ mine' = None
  /\ Ends(f, "over") /\ waits' = HeardStatus(HeardLoss(waits, f), "failed")
  /\ UNCHANGED <<alive, mismatch, configVars, eager, asking>>

\* Mutant of Loses: whether the frame is still the slot's is not looked at.
Loses_late(f, stable) ==
  /\ Throws(f) /\ (lost[f] = "init" => phase[f] = "kept") /\ (stable => phase[f] = "kept")
  /\ slot' = None /\ status' = "failed" /\ alive' = alive \ {f}
  /\ Ends(f, IF stable THEN "settled" ELSE "over")
  /\ keeper' = IF stable THEN "running" ELSE "waiting"
  /\ mine' = IF stable THEN f ELSE None
  /\ waits' = HeardStatus(HeardLoss(waits, f), "failed")
  /\ UNCHANGED <<held, mismatch, configVars, eager, asking>>

\* Any other failure drops the frame, and its keeper retries, or ends when the frame had been ready long (loseFrame).
Loses(f, stable) ==
  /\ Throws(f) /\ slot = f /\ (lost[f] = "init" => phase[f] = "kept") /\ (stable => phase[f] = "kept")
  /\ slot' = None /\ status' = "failed" /\ alive' = alive \ {f}
  /\ Ends(f, IF stable THEN "settled" ELSE "over")
  /\ keeper' = IF stable THEN "running" ELSE "waiting"
  /\ mine' = IF stable THEN f ELSE None
  /\ waits' = HeardStatus(HeardLoss(waits, f), "failed")
  /\ UNCHANGED <<held, mismatch, configVars, eager, asking>>

\* The same, with a status listener ahead of the waits that asks for the frame inside the change: the keeper is
\* aborted as it fails, and the waits hear of the next boot.
LosesEagerly(f) ==
  /\ Throws(f) /\ slot = f /\ (lost[f] = "init" => phase[f] = "kept") /\ held = None
  /\ eager < MaxEager /\ eager' = eager + 1
  /\ CanBoot /\ slot' = NewFrame /\ mine' = NewFrame /\ status' = "booting" /\ keeper' = "running"
  /\ alive' = (alive \ {f}) \cup {NewFrame}
  /\ phase' = [phase EXCEPT ![f] = "over", ![NewFrame] = "load"]
  /\ lost' = [lost EXCEPT ![f] = "no"]
  /\ waits' = HeardLoss(waits, f)
  /\ UNCHANGED <<held, mismatch, configVars, asking>>

\* A frame that refuses the host's wire version is the last one, and the held one goes too.
Refuses(f) ==
  /\ Rested /\ phase[f] = "listen" /\ slot = f
  /\ mismatch' = TRUE /\ slot' = None /\ held' = None /\ status' = "failed" /\ alive' = alive \ {f, held}
  /\ Ends(f, "settled") /\ waits' = HeardStatus(HeardLoss(waits, f), "failed")
  /\ UNCHANGED <<keeper, mine, configVars, eager, asking>>

\* Mutant of KeepOn: a keeper that ended is not followed by another.
KeepOn_once(f) ==
  /\ phase[f] = "settled" /\ phase' = [phase EXCEPT ![f] = "over"]
  /\ IF mine = f THEN mine' = None /\ keeper' = "none" ELSE UNCHANGED <<mine, keeper>>
  /\ UNCHANGED <<status, slot, held, alive, lost, mismatch, configVars, eager, waits, asking>>

\* Mutant of KeepOn: a keeper that ended is followed by another whatever ended it.
KeepOn_always(f) ==
  /\ phase[f] = "settled" /\ phase' = [phase EXCEPT ![f] = "over"]
  /\ IF mine = f THEN mine' = None /\ keeper' = "waiting" ELSE UNCHANGED <<mine, keeper>>
  /\ UNCHANGED <<status, slot, held, alive, lost, mismatch, configVars, eager, waits, asking>>

\* keepFrame returned. Its keeper is followed by another, unless it was aborted or no frame is to be kept.
KeepOn(f) ==
  /\ phase[f] = "settled" /\ phase' = [phase EXCEPT ![f] = "over"]
  /\ IF mine = f
     THEN mine' = None /\ keeper' = IF mismatch THEN "none" ELSE "waiting"
     ELSE UNCHANGED <<mine, keeper>>
  /\ UNCHANGED <<status, slot, held, alive, lost, mismatch, configVars, eager, waits, asking>>

(***************************************************************************)
(* The callers                                                              *)
(***************************************************************************)
\* The frame is asked for (askForFrame): one that is down is booted at once, and its keeper's backoff is cut short.
\* ws is what the waits are once it was.
Asks(ws, wsBooted, wsUnbuilt) ==
  IF status \in Down /\ ~mismatch
  THEN \/ Boots({}) /\ waits' = wsBooted
       \/ Unbuilt({}) /\ waits' = HeardStatus(HeardLoss(wsUnbuilt, None), "failed")
  ELSE waits' = ws /\ UNCHANGED <<status, slot, alive, phase, lost, keeper, mine>>

Wait(w, state, kind, f) == [waits EXCEPT ![w] = [state |-> state, kind |-> kind, frame |-> f, since |-> FALSE]]

\* A call is made, or its wait for the config is over.
Calls(w, kind) == \/ waits[w].state \notin {"config", "wait"}
                  \/ waits[w].state = "config" /\ waits[w].kind = kind /\ configured
\* A call runs once there is a config, and fails for good after a mismatch (withConfig).
Runs(w, kind) == Calls(w, kind) /\ configured /\ ~mismatch

WaitForConfig(w, kind) ==
  /\ waits[w].state \notin {"config", "wait"} /\ ~configured /\ waits' = Wait(w, "config", kind, None)
  /\ UNCHANGED <<status, slot, held, alive, lost, phase, keeper, mine, mismatch, configVars, eager, asking>>

ConfigTimeout(w) ==
  /\ Rested /\ waits[w].state = "config" /\ ~configured /\ waits' = Wait(w, "failed", waits[w].kind, None)
  /\ UNCHANGED <<status, slot, held, alive, lost, phase, keeper, mine, mismatch, configVars, eager, asking>>

Mismatched(w, kind) ==
  /\ Calls(w, kind) /\ mismatch /\ waits' = Wait(w, "failed", kind, None)
  /\ UNCHANGED <<status, slot, held, alive, lost, phase, keeper, mine, mismatch, configVars, eager, asking>>

\* Mutant of WaitUntilReady: the status is judged before the frame is asked for.
WaitUntilReady_early(w) ==
  /\ Runs(w, "ready")
  /\ IF held # None /\ status = "failed"
     THEN /\ waits' = Wait(w, "failed", "ready", None)
          /\ UNCHANGED <<status, slot, alive, phase, lost, keeper, mine>>
     ELSE LET ws == HeardStatus(Wait(w, "wait", "ready", None), status) IN Asks(ws, ws, ws)
  /\ UNCHANGED <<held, mismatch, configVars, eager, asking>>

\* waitUntilReady: a held frame fails the wait at once, and any other status is waited out.
WaitUntilReady(w) ==
  /\ Runs(w, "ready")
  /\ IF held # None /\ status = "failed"
     THEN /\ waits' = Wait(w, "failed", "ready", None)
          /\ UNCHANGED <<status, slot, alive, phase, lost, keeper, mine>>
     ELSE LET ws == Wait(w, "wait", "ready", None) IN
          Asks(HeardStatus(ws, status), ws, ws)
  /\ UNCHANGED <<held, mismatch, configVars, eager, asking>>

\* getTransport: a held frame answers until another one listens, else the call waits for the slot's frame to load.
GetTransport(w) ==
  /\ Runs(w, "store")
  /\ IF held # None /\ status \in {"failed", "booting"}
     THEN /\ waits' = Wait(w, "got", "store", None)
          /\ UNCHANGED <<status, slot, alive, phase, lost, keeper, mine>>
     ELSE Asks(IF slot # None /\ Loaded(slot) THEN Wait(w, "got", "store", None) ELSE Wait(w, "wait", "store", slot),
               Wait(w, "wait", "store", NewFrame), Wait(w, "failed", "store", None))
  /\ UNCHANGED <<held, mismatch, configVars, eager, asking>>

\* configure, for the first time. A change while nothing was asked for, or after a mismatch, replaces the config only.
FirstConfig ==
  /\ ~configured /\ configured' = TRUE
  /\ UNCHANGED <<status, slot, held, alive, lost, phase, keeper, mine, mismatch, configs, eager, waits, asking>>

\* configure with a change: the keeper, its frame and the held one go, and the frame is asked for again. The waits
\* hear `idle`, unless a status listener ahead of them asked for the frame on it.
Reconfigure(ahead) ==
  LET dropped == {slot, held} \ {None}
      ws == HeardLoss(waits, slot)
      heard == IF ahead THEN ws ELSE HeardStatus(ws, "idle") IN
  /\ configured /\ ~mismatch /\ status # "idle" /\ configs < MaxConfigs /\ configs' = configs + 1
  /\ IF ahead THEN eager < MaxEager /\ eager' = eager + 1 ELSE UNCHANGED eager
  /\ held' = None
  /\ \/ Boots(dropped) /\ waits' = heard
     \/ Unbuilt(dropped) /\ waits' = HeardStatus(HeardLoss(heard, None), "failed")
  /\ UNCHANGED <<mismatch, configured, asking>>

(***************************************************************************)
(* The liveness checks                                                      *)
(***************************************************************************)
frameVars == <<status, slot, alive, phase, keeper, mine, mismatch, configVars, eager, waits>>

\* A shared store call ran out of its budget on the frame's transport, and no other check is out (checkAlive).
CheckAlive(f) ==
  /\ asking = None /\ f \in {slot, held} \ {None} /\ Loaded(f) /\ asking' = f
  /\ UNCHANGED <<frameVars, held, lost>>

Answers == Rested /\ asking \in alive /\ asking' = None /\ UNCHANGED <<frameVars, held, lost>>

\* The heartbeat is not answered in time, or the frame goes under it: the frame asked is dropped if it is still there.
AnswersNot ==
  /\ Rested /\ asking # None /\ asking' = None
  /\ lost' = IF slot = asking THEN [lost EXCEPT ![asking] = "error"] ELSE lost
  /\ IF held = asking THEN held' = None /\ alive' = alive \ {held} ELSE UNCHANGED <<held, alive>>
  /\ UNCHANGED <<status, slot, phase, keeper, mine, mismatch, configVars, eager, waits>>

Keeps(f) ==
  \/ FrameLoads(f) \/ Connects(f) \/ HearListening(f) \/ HearReady(f) \/ StaleFails(f)
  \/ Holds(f) \/ (\E stable \in BOOLEAN : Loses(f, stable)) \/ LosesEagerly(f) \/ Refuses(f) \/ KeepOn(f)

Serves(w) ==
  \/ \E kind \in {"ready", "store"} : WaitForConfig(w, kind) \/ Mismatched(w, kind)
  \/ ConfigTimeout(w) \/ WaitUntilReady(w) \/ GetTransport(w)

Next ==
  \/ \E f \in Frames : Keeps(f) \/ StatusEnds(f, "error") \/ StatusEnds(f, "init") \/ CheckAlive(f)
  \/ \E w \in Waits : Serves(w)
  \/ BackoffEnds \/ FirstConfig \/ (\E ahead \in BOOLEAN : Reconfigure(ahead))
  \/ Answers \/ AnswersNot

Spec == Init /\ [][Next]_vars

\* What keepFrame awaits settles or times out, a loss is caught, a backoff ends, and so does a wait for the config.
FairSpec ==
  /\ Spec /\ WF_vars(BackoffEnds)
  /\ \A f \in Frames : WF_vars((phase[f] = "kept" => lost[f] # "no") /\ Keeps(f))
  /\ \A w \in Waits : WF_vars(waits[w].state = "config" /\ Serves(w))

(***************************************************************************)
(* Properties                                                               *)
(***************************************************************************)
\* Every frame in the document is the slot's or the held one, each kept for a reason: the slot's by the one keeper
\* that is not aborted, whose status it has, and the held one only while no frame listens. Whatever fails late,
\* callers and config changes that cross it leave no frame behind and drop none that is not theirs.
FramesAreKept ==
  /\ alive = {slot, held} \ {None} /\ (slot = held => slot = None)
  /\ slot # None <=> status \in {"booting", "listening", "ready"}
  /\ slot # None => mine = slot /\ keeper = "running"
  /\ held # None => status \in {"failed", "booting"}

\* A frame that is down is booted again, unless one refused the host's wire version.
DownComesBack == status = "failed" ~> (status # "failed" \/ mismatch)

\* A caller that gets a transport gets that of a frame which is then there: the ready one, or for the store the one
\* it saw load. Its wait fails only as its frame goes, and a call fails at once only with the frame down.
WaitsGetTheFrame ==
  [][\A w \in Waits : waits'[w] # waits[w] =>
       /\ waits'[w].state = "got" /\ waits'[w].kind = "ready" => status' = "ready" /\ slot' # None
       /\ waits'[w].state = "got" /\ waits[w].state = "wait" /\ waits[w].kind = "store" => waits[w].frame = slot'
       /\ waits'[w].state = "failed" /\ waits[w].state = "wait" => slot' # slot
       /\ waits'[w].state = "failed" /\ waits[w].state # "wait" => status' = "failed" \/ ~configured]_vars

\* A caller does not wait for ever: the frame it waits for loads or is ready, or the wait fails with its loss.
WaitsEnd == \A w \in Waits : waits[w].state \in {"config", "wait"} ~> waits[w].state \in {"got", "failed"}

\* A refused wire version is final: no frame is left and none is built again.
MismatchIsFinal == mismatch => alive = {} /\ status = "failed" /\ keeper # "waiting"

\* The page has the frames its books say it has, and none after a refusal (keepFrame, dropHeld, loseFrame).
FramesAreSound == TypeOK /\ FramesAreKept /\ MismatchIsFinal
==============================================================================
