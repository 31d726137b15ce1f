-------------------------- MODULE WorkerLifecycle --------------------------
(***************************************************************************)
(* The protocol SharedWorker's ports and its close                          *)
(* (apps/protocol/src/createWorkerLifecycle.ts), as startProtocolWorker.ts  *)
(* drives it: each tab has one port, which is served, then released or      *)
(* closed, and a worker whose light client died closes itself once every    *)
(* tab it serves heard why.                                                 *)
(*                                                                          *)
(* Each task of the worker is one step: releasing a port, hearing one and   *)
(* closing the worker call each other, and Step says what they come to.     *)
(* Tabs are external: they post messages, freeze by posting none, and       *)
(* leave, which the worker hears of only where the engine tells it.         *)
(*                                                                          *)
(* WorkerInit, WorkerNext and WorkerSpec are named so because               *)
(* LanesLifecycleProofs extends this module together with ChainLanes and    *)
(* PageCore.                                                                *)
(***************************************************************************)
EXTENDS Naturals, Sequences, SequencesExt, FiniteSets

CONSTANTS Tabs,        \* tab ids, each with one port
          MissedBeats, \* HEARTBEAT_MISSED_BEATS
          MaxInbox     \* bound on the messages of one tab on their way

ASSUME LifecycleAssumption == MissedBeats \in Nat \ {0} /\ MaxInbox \in Nat \ {0}

VARIABLES phase,     \* "syncing", "ready" or "failed"
          closing,
          flush,     \* the close timer, and the telemetry flush it starts
          reached,
          sessions,  \* the tabs served, in the order they connected
          port,      \* the worker's end of each tab's port
          unheard, spoke, missed,
          status,    \* the tabs with an open status subscription
          asks,      \* whether each tab asks for a pause
          everyTabPaused,
          tab,       \* external: each tab is "away", "open" or "gone"
          inbox,     \* the messages each tab posted that the worker has not handled
          told,      \* history: the tabs whose status ended with why
          closes     \* history: the times the worker closed itself

own == <<phase, closing, flush, reached>>
ports == <<sessions, port, unheard, spoke, missed, status, asks, everyTabPaused>>
history == <<told, closes>>
workerVars == <<own, ports, tab, inbox, history>>

Served == {t \in Tabs : port[t] = "served"}
Messages == {"status", "heartbeat", "pause", "resume"}
Closed == closing \in {"closed", "disposed"}
Running == closes = 0      \* a worker that closed itself runs no further task

WorkerTypeOK ==
  /\ phase \in {"syncing", "ready", "failed"}
  /\ closing \in {"none", "on_connect", "scheduled", "flushed", "closed", "disposed"}
  /\ closing \in {"on_connect", "scheduled", "flushed", "closed"} => phase = "failed"
  /\ flush \in {"none", "timer", "sending"} /\ reached \in BOOLEAN
  /\ port \in [Tabs -> {"none", "queued", "served", "released", "closed"}]
  /\ ToSet(sessions) = Served /\ Len(sessions) = Cardinality(Served)
  /\ unheard \subseteq Served /\ spoke \subseteq {t \in Tabs : port[t] = "released"}
  /\ missed \in [Tabs -> 0 .. MissedBeats] /\ asks \in [Tabs -> BOOLEAN]
  /\ status \subseteq Served /\ status \cap unheard = {}
  /\ closes \in 0 .. 1

\* A worker named for an unknown network starts failed, and stays up to tell why.
WorkerInit ==
  /\ phase \in {"syncing", "failed"} /\ closing = "none" /\ flush = "none" /\ reached = FALSE
  /\ sessions = <<>> /\ port = [t \in Tabs |-> "none"]
  /\ unheard = {} /\ spoke = {} /\ status = {}
  /\ missed = [t \in Tabs |-> 0] /\ asks = [t \in Tabs |-> FALSE] /\ everyTabPaused = FALSE
  /\ tab = [t \in Tabs |-> "away"] /\ inbox = [t \in Tabs |-> <<>>]
  /\ told = {} /\ closes = 0

----------------------------------------------------------------------------
(* Letting go of ports. *)

SetPort(S, state) == [t \in Tabs |-> IF t \in S THEN state ELSE port[t]]

\* letGoOfEveryPort().  What it tells the network on the way reaches nobody any more.
LetGoOfEveryPort ==
  /\ sessions' = <<>> /\ unheard' = {} /\ spoke' = {} /\ status' = {}
  /\ port' = SetPort({t \in Tabs : port[t] \in {"served", "released"}}, "closed")
  /\ UNCHANGED everyTabPaused

\* Mutant of MayClose: the worker does not wait for the tabs.
MayCloseUnheard(waiting) == closing = "flushed"

\* closeOnceHeard() closes the worker once nobody waits to hear why.
MayClose(waiting) == closing = "flushed" /\ waiting = {} /\ phase = "failed"

CloseWorker == closing' = "closed" /\ closes' = closes + 1 /\ LetGoOfEveryPort

\* hear() of the tabs `gone`, which nobody waits for any more.
Unheard(gone) == unheard \ gone

\* Mutant of EveryTabPaused: a tab that goes leaves the pause as it was.
KeptPaused(gone) == everyTabPaused

\* updateEveryTabPaused() while the tabs `gone` go one by one: with none left it stays as it was
\* when the last of them was the only one.
EveryTabPaused(gone) ==
  IF Served \ gone # {} THEN \A t \in Served \ gone : asks[t]
  ELSE IF gone = {} THEN everyTabPaused ELSE asks[Last(sessions)]

\* The tabs `gone` are served no more, and their ports become what `state` says.
LetGo(gone, state) ==
  IF MayClose(Unheard(gone)) THEN CloseWorker
  ELSE /\ sessions' = SelectSeq(sessions, LAMBDA t : t \notin gone)
       /\ unheard' = Unheard(gone) /\ status' = status \ gone
       /\ port' = state /\ spoke' = {t \in spoke : state[t] = "released"}
       /\ everyTabPaused' = EveryTabPaused(gone)
       /\ UNCHANGED <<closing, closes>>

----------------------------------------------------------------------------
(* The worker's tasks. *)

\* closeDeadWorker(): the close waits for the first tab, and then for a task of its own.
CloseDeadWorker ==
  IF closing \notin {"none", "on_connect"} THEN UNCHANGED <<closing, flush>>
  ELSE IF ~reached' THEN closing' = "on_connect" /\ UNCHANGED flush
  ELSE closing' = "scheduled" /\ flush' = "timer"

\* handleConnect(), and admit().
HandleConnect(t) ==
  /\ Running /\ closing # "disposed" /\ port[t] = "queued"
  /\ reached' = TRUE
  /\ sessions' = Append(sessions, t) /\ port' = SetPort({t}, "served")
  /\ unheard' = unheard \cup {t} /\ everyTabPaused' = FALSE
  /\ IF closing = "on_connect" THEN CloseDeadWorker ELSE UNCHANGED <<closing, flush>>
  /\ UNCHANGED <<phase, spoke, missed, status, asks, tab, inbox, history>>

\* The status handler, and hear(): a worker that failed ends the subscription with why at once.
HandleStatus(t) ==
  /\ told' = IF phase = "failed" THEN told \cup {t} ELSE told
  /\ IF MayClose(Unheard({t})) THEN CloseWorker
     ELSE /\ unheard' = Unheard({t})
          /\ status' = IF phase = "failed" THEN status ELSE status \cup {t}
          /\ UNCHANGED <<sessions, port, spoke, everyTabPaused, closing, closes>>
  /\ UNCHANGED asks

\* markPaused().
HandlePause(t, paused) ==
  /\ asks' = [asks EXCEPT ![t] = paused]
  /\ everyTabPaused' = \A u \in Served : asks'[u]
  /\ UNCHANGED <<sessions, port, unheard, spoke, status, closing, history>>

\* A message of a served tab keeps its port (markAlive).  One of a released tab shows that the
\* release can reach it (markSpoke).
HandleMessage(t) ==
  /\ Running /\ inbox[t] # <<>>
  /\ inbox' = [inbox EXCEPT ![t] = Tail(@)]
  /\ LET message == Head(inbox[t])
     IN  \/ /\ port[t] = "served"
            /\ missed' = [missed EXCEPT ![t] = 0]
            /\ \/ message = "status" /\ HandleStatus(t)
               \/ message = "pause" /\ HandlePause(t, TRUE)
               \/ message = "resume" /\ HandlePause(t, FALSE)
               \/ message = "heartbeat" /\ UNCHANGED <<sessions, port, unheard, spoke, status, asks,
                                                      everyTabPaused, closing, history>>
         \/ /\ port[t] = "released"
            /\ spoke' = spoke \cup {t}
            /\ UNCHANGED <<sessions, port, unheard, missed, status, asks, everyTabPaused, closing, history>>
  /\ UNCHANGED <<phase, flush, reached, tab>>

\* closePort(), where the engine tells that the tab's end closed.
ClosePort(t) ==
  /\ Running /\ tab[t] = "gone" /\ inbox[t] = <<>> /\ port[t] \in {"served", "released"}
  /\ LetGo({t} \cap Served, SetPort({t}, "closed"))
  /\ UNCHANGED <<phase, flush, reached, missed, asks, tab, inbox, told>>

\* The tabs one more beat is too many for.
Silent == {t \in Served : missed[t] = MissedBeats}

\* Mutant of Missed: a beat is not counted.
MissedUncounted == missed

\* The beats each tab missed in a row, once this one went out.
Missed == [t \in Tabs |-> IF t \in Served \ Silent THEN missed[t] + 1 ELSE missed[t]]

\* beat(): ports whose tab spoke since it was released close, and silent tabs are released.
Beat ==
  /\ Running /\ ~Closed
  /\ LetGo(Silent, [t \in Tabs |-> IF t \in spoke THEN "closed" ELSE SetPort(Silent, "released")[t]])
  /\ missed' = Missed
  /\ UNCHANGED <<phase, flush, reached, asks, tab, inbox, told>>

MarkReady ==
  /\ Running /\ ~Closed /\ phase = "syncing"
  /\ phase' = "ready"
  /\ UNCHANGED <<closing, flush, reached, ports, tab, inbox, history>>

\* fail(): the first failure ends every open status, and closes the worker.
Fail ==
  /\ Running /\ ~Closed /\ phase # "failed"
  /\ phase' = "failed"
  /\ told' = told \cup status /\ status' = {}
  /\ UNCHANGED reached /\ CloseDeadWorker
  /\ UNCHANGED <<sessions, port, unheard, spoke, missed, asks, everyTabPaused, tab, inbox, closes>>

CloseTimerFires ==
  /\ Running /\ flush = "timer"
  /\ flush' = "sending"
  /\ UNCHANGED <<phase, closing, reached, ports, tab, inbox, history>>

\* markFlushed(), once the flush resolved or rejected.
MarkFlushed ==
  /\ Running /\ flush = "sending"
  /\ flush' = "none"
  /\ IF closing # "scheduled" THEN UNCHANGED <<closing, closes, ports>>
     ELSE /\ IF unheard = {} THEN CloseWorker
             ELSE closing' = "flushed" /\ UNCHANGED <<closes, sessions, port, unheard, spoke, status, everyTabPaused>>
          /\ UNCHANGED <<missed, asks>>
  /\ UNCHANGED <<phase, reached, tab, inbox, told>>

\* dispose() clears a close timer, and a flush under way settles into nothing.
DisposeWorker ==
  /\ Running
  /\ closing' = "disposed" /\ flush' = IF flush = "timer" THEN "none" ELSE flush
  /\ LetGoOfEveryPort
  /\ UNCHANGED <<phase, reached, missed, asks, tab, inbox, history>>

----------------------------------------------------------------------------
(* The tabs (external). *)

\* A worker that closed is matched by no name.
TabConnects(t) ==
  /\ Running /\ tab[t] = "away"
  /\ tab' = [tab EXCEPT ![t] = "open"] /\ port' = SetPort({t}, "queued")
  /\ UNCHANGED <<own, sessions, unheard, spoke, missed, status, asks, everyTabPaused, inbox, history>>

\* A tab that subscribed to its status says anything else, and repeats itself.
TabPosts(t, message) ==
  /\ Running /\ tab[t] = "open" /\ port[t] # "queued" /\ Len(inbox[t]) < MaxInbox
  /\ message = "status" <=> (t \in unheard /\ inbox[t] = <<>>)
  /\ inbox' = [inbox EXCEPT ![t] = Append(@, message)]
  /\ UNCHANGED <<own, ports, tab, history>>

TabLeaves(t) ==
  /\ Running /\ tab[t] = "open"
  /\ tab' = [tab EXCEPT ![t] = "gone"]
  /\ UNCHANGED <<own, ports, inbox, history>>
----------------------------------------------------------------------------

TabStep == \E t \in Tabs : \/ TabConnects(t) \/ TabLeaves(t) \/ ClosePort(t)
                           \/ \E message \in Messages : TabPosts(t, message)
WorkerStep ==
  \/ \E t \in Tabs : HandleConnect(t) \/ HandleMessage(t)
  \/ Beat \/ MarkReady \/ Fail \/ CloseTimerFires \/ MarkFlushed \/ DisposeWorker

WorkerNext == TabStep \/ WorkerStep

WorkerSpec == WorkerInit /\ [][WorkerNext]_workerVars

\* The worker's event loop handles what arrives, its heartbeat goes on and a flush settles.  No
\* tab has to say anything, and no engine has to tell that a port closed.
FairWorkerSpec ==
  /\ WorkerSpec /\ WF_workerVars(Beat) /\ WF_workerVars(CloseTimerFires) /\ WF_workerVars(MarkFlushed)
  /\ \A t \in Tabs : WF_workerVars(HandleConnect(t)) /\ WF_workerVars(HandleMessage(t))

----------------------------------------------------------------------------
(* Properties. *)

\* While any tab is served the network is paused exactly when all of them ask for it, whichever of
\* them connected, left, was released or changed its mind (updateEveryTabPaused).
PauseIsEveryTabs == Served # {} => (everyTabPaused <=> \A t \in Served : asks[t])

\* The worker closes itself once, only when it failed and was not disposed, and only after every
\* tab it serves was told why, or went silent or away (closeOnceHeard, markFlushed, dispose).
ClosesOnceHeard ==
  [][closes' # closes =>
       /\ closes = 0 /\ closing # "disposed" /\ phase = "failed" /\ reached
       /\ \A t \in Served : t \in told' \/ tab[t] = "gone" \/ missed[t] = MissedBeats]_workerVars

\* A failed worker that serves its first tab closes in the end, whatever the tabs do (closeDeadWorker,
\* closeOnceHeard, beat).
FailedCloses == closing \in {"scheduled", "flushed"} ~> Closed

============================================================================
