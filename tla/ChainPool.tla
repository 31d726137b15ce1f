----------------------------- MODULE ChainPool -----------------------------
(***************************************************************************)
(* The chain pool of packages/chains/src/createChainPool.ts: every consumer *)
(* in one JS context leases a chain, the leases of a chain share one entry, *)
(* and the entry closes a delay after its last lease is released, or at     *)
(* once when its transport halts.  A pause closes every connection under    *)
(* the same leases; a resume opens the leased ones again.                   *)
(*                                                                          *)
(* JavaScript runs one turn at a time, but a call of the pool delivers to   *)
(* consumers before it returns, and what they do there is nested in it.     *)
(* `stack` holds the calls that are not finished: a consumer may call the   *)
(* pool between turns or from a delivery of the innermost call, and timers, *)
(* microtasks and transports wait until the stack is empty.                 *)
(*                                                                          *)
(* An entry is a JS object, so a chain that halts and is rebuilt has a new  *)
(* one while leases of the old one are still in consumers' hands.  An entry *)
(* nothing names any more may be used again, as garbage collection would.   *)
(***************************************************************************)
EXTENDS Naturals, Sequences, FiniteSets

CONSTANTS Chains,     \* genesis hashes, lowercase
          Entries,    \* identities of Entry objects
          Leases,     \* identities of the connections lease() returns
          Watchers,   \* callers of watch()
          None,       \* JS null
          Delay,      \* destroyDelay: "zero", "finite" or "never"
          Failing,    \* the calls into the lanes that may throw
          MaxDepth,   \* bound on nested calls
          MaxLost     \* bound on the leases an entry counts that nobody holds

ASSUME PoolAssumption ==
  /\ None \notin Chains \cup Entries \cup Leases
  /\ IsFiniteSet(Leases)
  /\ Delay \in {"zero", "finite", "never"}
  /\ Failing \subseteq {"resume", "pause", "connect", "release"}
  /\ MaxDepth \in Nat /\ MaxLost \in Nat

VARIABLES entries,   \* the live entry of each chain, or None
          entry,     \* the Entry objects
          statuses,  \* the pool's status of each chain
          reported,  \* the activity the watchers heard last of each chain
          paused,
          watchers,
          lease,     \* the Entry each lease holds, and how far its life is
          queued,    \* entries with an idle check queued as a microtask
          stack      \* the pool calls in progress, the innermost last

vars == <<entries, entry, statuses, reported, paused, watchers, lease, queued, stack>>

Statuses == {"connecting", "connected", "disconnected"}

\* `cut` is a history, not a field of the code: ending the watchers' follow threw, and nothing has
\* since made up for the report, the idle check or the sync of the follow that the throw skipped.
EntryType ==
  [key: Chains \cup {None}, live: BOOLEAN, leases: Nat, destroyTimer: BOOLEAN,
   following: BOOLEAN, watchFollow: BOOLEAN, cut: BOOLEAN, open: BOOLEAN, laneStatus: Statuses]

ActivityType == [consumers: Nat, status: Statuses, following: BOOLEAN]

\* `fate` records how a lease's chain ended: not yet, by a halt its holder heard,
\* or by disconnectAll, which tells nobody.
LeaseType == [entry: Entries \cup {None}, state: {"free", "held", "released"},
              fate: {"open", "told", "unloaded"}]

\* The calls that go over entries: "watch" and "unwatch" are also what lease() does to its own,
\* the latter as "sync".
LoopCalls == {"pause", "resume", "watch", "unwatch", "sync"}

Frames ==
       [call: {"halt"}, todo: SUBSET Leases]
  \cup [call: LoopCalls, todo: SUBSET Entries, delivers: BOOLEAN]
  \cup [call: {"acquire"}, chain: Chains, lease: Leases \cup {None}]

TypeOK ==
  /\ entries \in [Chains -> Entries \cup {None}]
  /\ entry \in [Entries -> EntryType]
  /\ statuses \in [Chains -> Statuses]
  /\ reported \in [Chains -> ActivityType]
  /\ paused \in BOOLEAN
  /\ watchers \subseteq Watchers
  /\ lease \in [Leases -> LeaseType]
  /\ queued \subseteq Entries
  /\ stack \in Seq(Frames)

Closed == [key |-> None, live |-> FALSE, leases |-> 0, destroyTimer |-> FALSE,
           following |-> FALSE, watchFollow |-> FALSE, cut |-> FALSE, open |-> FALSE,
           laneStatus |-> "disconnected"]

NoActivity == [consumers |-> 0, status |-> "disconnected", following |-> FALSE]

Init ==
  /\ entries = [c \in Chains |-> None]
  /\ entry = [e \in Entries |-> Closed]
  /\ statuses = [c \in Chains |-> "disconnected"]
  /\ reported = [c \in Chains |-> NoActivity]
  /\ paused = FALSE
  /\ watchers = {}
  /\ lease = [l \in Leases |-> [entry |-> None, state |-> "free", fate |-> "open"]]
  /\ queued = {}
  /\ stack = <<>>

----------------------------------------------------------------------------
(* The call stack. *)

Push(s, frame) == Append(s, frame)
Loop(call, over) == [call |-> call, todo |-> over, delivers |-> FALSE]
Pop(s) == SubSeq(s, 1, Len(s) - 1)
Top == stack[Len(stack)]
Call == IF stack = <<>> THEN "none" ELSE Top.call

\* A turn of the event loop is over: timers, sockets and other pages may run.
Turn == stack = <<>> /\ queued = {}

\* A consumer's code runs: at the top level, or inside a delivery of the innermost call.  A
\* halt delivers to its sessions; a pause or a resume delivers to those of the entry it reached.
CanCall ==
  /\ Len(stack) < MaxDepth
  /\ \/ Call \in {"none", "halt"}
     \/ Call \in {"pause", "resume"} /\ Top.delivers

LeasesInCalls ==
  {l \in Leases : \E i \in DOMAIN stack :
      \/ stack[i].call = "halt" /\ l \in stack[i].todo
      \/ stack[i].call = "acquire" /\ stack[i].lease = l}

EntriesInCalls ==
  {e \in Entries : \E i \in DOMAIN stack :
      stack[i].call \in LoopCalls /\ e \in stack[i].todo}

----------------------------------------------------------------------------
(* Entries. *)

\* An Entry object build() may create: one nobody names.
Fresh == {e \in Entries : /\ ~entry[e].live
                          /\ e \notin queued \cup EntriesInCalls
                          /\ \A l \in Leases : lease[l].entry # e}

\* Which of them it is does not matter.
NewEntry == CHOOSE e \in Fresh : TRUE

LiveEntries == {e \in Entries : entry[e].live}

\* Mutant of Built: a chain built while paused opens its connection.
BuiltOpen(c) == [Closed EXCEPT !.key = c, !.live = TRUE, !.open = TRUE, !.laneStatus = "connecting"]

Built(c) == [Closed EXCEPT !.key = c, !.live = TRUE, !.open = ~paused,
                           !.laneStatus = IF paused THEN "disconnected" ELSE "connecting"]

\* The sessions of an entry's lanes that a halt tells: its leases not released yet.
Sessions(e) == {l \in Leases : lease[l].state = "held" /\ lease[l].entry = e}

Activity(r, status) ==
  [consumers |-> IF r.live THEN r.leases ELSE 0, status |-> status,
   following |-> r.live /\ r.following]

\* What there is to tell of chain c.
Current(c) == Activity(IF entries[c] = None THEN Closed ELSE entry[entries[c]], statuses[c])

\* The watchers hear what became of chain c, if anyone watches.
Report(c, r, status) ==
  reported' = IF watchers = {} THEN reported
              ELSE [reported EXCEPT ![c] = Activity(r, status)]

\* Entry e of chain c becomes r, still live, with the chain's status as the pool has it then.
Put(c, e, r, status) ==
  /\ entries' = [entries EXCEPT ![c] = e]
  /\ entry' = [entry EXCEPT ![e] = r]
  /\ statuses' = [statuses EXCEPT ![c] = status]

\* The same, reported where there is something new to tell.
Update(c, e, r, status) ==
  /\ Put(c, e, r, status)
  /\ IF Activity(r, status) = Current(c) THEN UNCHANGED reported ELSE Report(c, r, status)

\* destroy(): the entry leaves the map, its timer and the watchers' follow end with it,
\* and the chain reads disconnected before any consumer hears of it.
Destroy(c, e) ==
  /\ entries' = [entries EXCEPT ![c] = None]
  /\ entry' = [entry EXCEPT ![e] = Closed]
  /\ statuses' = [statuses EXCEPT ![c] = "disconnected"]
  /\ Report(c, Closed, "disconnected")

\* Mutant of TellHalt: the lanes are closed as on a release.
TellNobody(s, told) == s

\* A halt calls back every session the entry had, one after the other.
TellHalt(s, told) == IF told = {} THEN s ELSE Push(s, [call |-> "halt", todo |-> told])

\* idle(): what becomes of an entry that may have no lease left.
Idles(r) == r.live /\ r.leases = 0 /\ ~r.destroyTimer

Idle(c, e, r, status) ==
  IF Idles(r) /\ Delay = "zero" THEN Destroy(c, e)
  ELSE Update(c, e, [r EXCEPT !.destroyTimer = @ \/ (Idles(r) /\ Delay = "finite")], status)

----------------------------------------------------------------------------
(* Leasing. *)

\* An entry a call has got hold of, what it is by then, and its chain's status.
Got(e, r, status) == [entry |-> e, now |-> r, status |-> status]

Build(c) == Got(NewEntry, Built(c), Built(c).laneStatus)

\* Mutant of Acquired: the timer of an idle entry goes on.
AcquiredWithTimer(c) ==
  IF entries[c] = None THEN Build(c)
  ELSE Got(entries[c], [entry[entries[c]] EXCEPT !.open = @ \/ ~paused], statuses[c])

\* What acquire() returns when nothing throws: the live entry, opened again unless the pool is
\* paused and its timer cleared, or a new one.
Acquired(c) ==
  IF entries[c] = None THEN Build(c)
  ELSE LET e == entries[c]
       IN  Got(e, [entry[e] EXCEPT !.open = @ \/ ~paused, !.destroyTimer = FALSE], statuses[c])

\* The last line of acquire(), once a chain that failed to reopen is halted: whatever entry
\* the chain has by now, as it is, or a new one.
Reacquired(c) ==
  IF entries[c] = None THEN Build(c) ELSE Got(entries[c], entry[entries[c]], statuses[c])

CanFailToReopen(c) ==
  "resume" \in Failing /\ entries[c] # None /\ ~paused /\ ~entry[entries[c]].open

\* acquire() finds a chain that cannot be opened again, and halts it on the way.
AcquireHalts(c, l) ==
  LET e == entries[c]
  IN  /\ CanFailToReopen(c)
      /\ Destroy(c, e)
      /\ stack' = TellHalt(Push(stack, [call |-> "acquire", chain |-> c, lease |-> l]), Sessions(e))
      /\ UNCHANGED <<paused, watchers, lease, queued>>

\* The watchers' follow must end: nobody watches, or nobody holds the entry.
FollowEnds(r) == r.watchFollow /\ (watchers = {} \/ r.leases = 0)

\* syncWatchFollow() of entry r, when nothing throws.
Synced(r) == IF FollowEnds(r) THEN [r EXCEPT !.watchFollow = FALSE, !.following = FALSE] ELSE r

\* The same when ending the follow throws: it is forgotten, and still reads as following.
Dropped(r) == [r EXCEPT !.watchFollow = FALSE]

\* lease() on an acquired entry, after its lanes connected a session.  The watchers' own
\* follow opens next when someone watches, and one left by an unwatch() that threw ends.
Take(c, l, got, s) ==
  LET r == [got.now EXCEPT !.leases = @ + 1, !.cut = FALSE]
  IN  /\ Update(c, got.entry, r, got.status)
      /\ lease' = [lease EXCEPT ![l] = [entry |-> got.entry, state |-> "held", fate |-> "open"]]
      /\ stack' = CASE watchers # {} /\ ~r.watchFollow -> Push(s, Loop("watch", {got.entry}))
                    [] FollowEnds(r) -> Push(s, Loop("sync", {got.entry}))
                    [] OTHER -> s
      /\ UNCHANGED <<paused, watchers, queued>>

\* Mutant of TakeThrows: nothing starts the countdown again.
TakeThrowsOnly(c, got, s) ==
  /\ "connect" \in Failing
  /\ Update(c, got.entry, got.now, got.status)
  /\ stack' = s
  /\ UNCHANGED <<paused, watchers, lease, queued>>

\* The lanes throw: no lease, and the entry counts down if it has no other.
TakeThrows(c, got, s) ==
  /\ "connect" \in Failing
  /\ Idle(c, got.entry, got.now, got.status)
  /\ stack' = s
  /\ UNCHANGED <<paused, watchers, lease, queued>>

\* A lane the session needed cannot be built, which halts the chain before it throws.
TakeHalts(c, got, s) ==
  /\ "connect" \in Failing
  /\ Destroy(c, got.entry)
  /\ stack' = TellHalt(s, Sessions(got.entry))
  /\ UNCHANGED <<paused, watchers, lease, queued>>

\* Ending that follow throws: the entry counts a lease whose connection nobody was given.
TakeDrops(c, got, s) ==
  LET r == [got.now EXCEPT !.leases = @ + 1]
  IN  /\ "release" \in Failing /\ FollowEnds(r)
      /\ got.now.leases - Cardinality(Sessions(got.entry)) < MaxLost
      /\ Update(c, got.entry, Dropped(r), got.status)
      /\ stack' = s
      /\ UNCHANGED <<paused, watchers, lease, queued>>

\* What connectRemote or a provider's caller goes on with, and what getLocalProvider does: its
\* entry's countdown starts once the turn is over.
Proceed(c, l, got, s) ==
  /\ entries[c] = None => Fresh # {}
  /\ IF l = None
     THEN /\ Update(c, got.entry, got.now, got.status)
          /\ queued' = queued \cup {got.entry}
          /\ stack' = s
          /\ UNCHANGED <<paused, watchers, lease>>
     ELSE \/ Take(c, l, got, s)
          \/ TakeDrops(c, got, s)
          \/ TakeThrows(c, got, s)
          \/ TakeHalts(c, got, s)

\* connectRemote(), and a call of the provider getLocalProvider() returned.
Connect(l, c) ==
  /\ CanCall
  /\ lease[l].state # "held" /\ l \notin LeasesInCalls
  /\ Proceed(c, l, Acquired(c), stack) \/ AcquireHalts(c, l)

GetLocalProvider(c) ==
  /\ CanCall
  /\ Proceed(c, None, Acquired(c), stack) \/ AcquireHalts(c, None)

\* acquire() goes on after the halt it caused was told.
AcquireContinues ==
  /\ Call = "acquire"
  /\ Proceed(Top.chain, Top.lease, Reacquired(Top.chain), Pop(stack))

\* Mutants of Release: the watchers' follow is not looked at, or they hear the old count.
ReleaseKeepsFollow(l) ==
  /\ CanCall
  /\ lease[l].state = "held"
  /\ lease' = [lease EXCEPT ![l].state = "released"]
  /\ LET e == lease[l].entry
     IN  IF entry[e].live
         THEN Idle(entry[e].key, e, [entry[e] EXCEPT !.leases = @ - 1], statuses[entry[e].key])
         ELSE UNCHANGED <<entries, entry, statuses, reported>>
  /\ UNCHANGED <<paused, watchers, queued, stack>>

ReleaseReportsFirst(l) ==
  /\ CanCall
  /\ lease[l].state = "held"
  /\ lease' = [lease EXCEPT ![l].state = "released"]
  /\ LET e == lease[l].entry
         c == entry[e].key
         left == entry[e].leases - 1
         r == [entry[e] EXCEPT !.leases = left, !.watchFollow = @ /\ left > 0,
                               !.following = @ /\ left > 0,
                               !.destroyTimer = left = 0 /\ Delay = "finite"]
     IN  IF entry[e].live THEN /\ entry' = [entry EXCEPT ![e] = r]
                               /\ Report(c, entry[e], statuses[c])
                               /\ UNCHANGED <<entries, statuses>>
         ELSE UNCHANGED <<entries, entry, statuses, reported>>
  /\ UNCHANGED <<paused, watchers, queued, stack>>

\* The disconnect() of a lease.  A second call does nothing.
Release(l) ==
  /\ CanCall
  /\ lease[l].state = "held"
  /\ lease' = [lease EXCEPT ![l].state = "released"]
  /\ LET e == lease[l].entry
         c == entry[e].key
         r == Synced([entry[e] EXCEPT !.leases = @ - 1, !.cut = FALSE])
     IN  IF entry[e].live THEN Idle(c, e, r, statuses[c])
         ELSE UNCHANGED <<entries, entry, statuses, reported>>
  /\ UNCHANGED <<paused, watchers, queued, stack>>

\* Ending the watchers' follow throws out of it: the lease is given back, and neither the
\* report nor the idle check is reached.
ReleaseDrops(l) ==
  LET e == lease[l].entry
      r == [entry[e] EXCEPT !.leases = @ - 1, !.cut = TRUE]
  IN  /\ "release" \in Failing
      /\ CanCall
      /\ lease[l].state = "held" /\ entry[e].live /\ FollowEnds(r)
      /\ lease' = [lease EXCEPT ![l].state = "released"]
      /\ Put(entry[e].key, e, Dropped(r), statuses[entry[e].key])
      /\ UNCHANGED <<reported, paused, watchers, queued, stack>>

\* Mutant of ReleaseAgain: a second disconnect gives the lease back again.
ReleaseTwiceToZero(l) ==
  /\ CanCall
  /\ lease[l].state = "released" /\ entry[lease[l].entry].live
  /\ entry' = [entry EXCEPT ![lease[l].entry].leases = IF @ = 0 THEN 0 ELSE @ - 1]
  /\ UNCHANGED <<entries, statuses, reported, paused, watchers, lease, queued, stack>>

ReleaseAgain(l) ==
  /\ CanCall
  /\ lease[l].state = "released"
  /\ UNCHANGED vars

\* The session's own disconnect throws, so the lease is marked released but never given back.
ReleaseThrows(l) ==
  /\ "release" \in Failing
  /\ CanCall
  /\ lease[l].state = "held"
  /\ LET e == lease[l].entry IN entry[e].leases - Cardinality(Sessions(e)) < MaxLost
  /\ lease' = [lease EXCEPT ![l].state = "released"]
  /\ UNCHANGED <<entries, entry, statuses, reported, paused, watchers, queued, stack>>

\* A lane the release left empty, its session's or the watchers' follow's, fails to close, which
\* halts the chain.
ReleaseHalts(l) ==
  LET e == lease[l].entry
  IN  /\ "release" \in Failing
      /\ CanCall
      /\ lease[l].state = "held" /\ entry[e].live
      /\ Destroy(entry[e].key, e)
      /\ lease' = [lease EXCEPT ![l].state = "released"]
      /\ stack' = TellHalt(stack, Sessions(e) \ {l})
      /\ UNCHANGED <<paused, watchers, queued>>

----------------------------------------------------------------------------
(* Timers, microtasks and transports. *)

\* The microtask getLocalProvider queued.
CountDown(e) ==
  /\ stack = <<>>
  /\ e \in queued
  /\ queued' = queued \ {e}
  /\ IF Idles(entry[e]) THEN Idle(entry[e].key, e, entry[e], statuses[entry[e].key])
     ELSE UNCHANGED <<entries, entry, statuses, reported>>
  /\ UNCHANGED <<paused, watchers, lease, stack>>

DestroyTimerFires(e) ==
  /\ Turn
  /\ entry[e].destroyTimer
  /\ Destroy(entry[e].key, e)
  /\ UNCHANGED <<paused, watchers, lease, queued, stack>>

\* The lanes' combined status changes, as their transports report it.
LaneStatus(e, status) ==
  /\ Turn
  /\ entry[e].live /\ entry[e].open /\ entry[e].laneStatus # status
  /\ Update(entry[e].key, e, [entry[e] EXCEPT !.laneStatus = status], status)
  /\ UNCHANGED <<paused, watchers, lease, queued, stack>>

\* The node answers the watchers' follow, or stops it.
WatchFollowing(e, following) ==
  /\ Turn
  /\ entry[e].live /\ entry[e].watchFollow /\ entry[e].following # following
  /\ following => entry[e].open
  /\ Update(entry[e].key, e, [entry[e] EXCEPT !.following = following], statuses[entry[e].key])
  /\ UNCHANGED <<paused, watchers, lease, queued, stack>>

\* A lane's transport is gone for good.
LaneHalts(e) ==
  /\ Turn
  /\ entry[e].live
  /\ Destroy(entry[e].key, e)
  /\ stack' = TellHalt(stack, Sessions(e))
  /\ UNCHANGED <<paused, watchers, lease, queued>>

\* One session of a halted chain hears it.
TellLease(l) ==
  /\ Call = "halt"
  /\ l \in Top.todo
  /\ lease' = [lease EXCEPT ![l].fate = "told"]
  /\ stack' = [stack EXCEPT ![Len(stack)].todo = @ \ {l}]
  /\ UNCHANGED <<entries, entry, statuses, reported, paused, watchers, queued>>

\* A call that went over every session or entry returns.
Return ==
  /\ Call \in LoopCalls \cup {"halt"}
  /\ Top.todo = {}
  /\ stack' = Pop(stack)
  /\ UNCHANGED <<entries, entry, statuses, reported, paused, watchers, lease, queued>>

----------------------------------------------------------------------------
(* Pausing, watching and closing. *)

Pause ==
  /\ Turn
  /\ ~paused
  /\ paused' = TRUE
  /\ stack' = Push(stack, Loop("pause", LiveEntries))
  /\ UNCHANGED <<entries, entry, statuses, reported, watchers, lease, queued>>

Resume ==
  /\ Turn
  /\ paused
  /\ paused' = FALSE
  /\ stack' = Push(stack, Loop("resume", LiveEntries))
  /\ UNCHANGED <<entries, entry, statuses, reported, watchers, lease, queued>>

\* The loop is past entry e, and its sessions may still be hearing of it.
Visited(e) == [stack EXCEPT ![Len(stack)].todo = @ \ {e}, ![Len(stack)].delivers = TRUE]
Skipped(e) == [stack EXCEPT ![Len(stack)].todo = @ \ {e}, ![Len(stack)].delivers = FALSE]

\* pause() reaches one entry of its snapshot, whose connections close and whose lanes read
\* disconnected.  One a delivery closed meanwhile has no lane left.
PauseEntry(e) ==
  /\ Call = "pause"
  /\ e \in Top.todo
  /\ IF entry[e].live
     THEN LET c == entry[e].key IN
          \/ /\ Update(c, e, [entry[e] EXCEPT !.open = FALSE, !.laneStatus = "disconnected",
                                              !.following = @ /\ ~entry[e].watchFollow], "disconnected")
             /\ stack' = Visited(e)
          \/ /\ "pause" \in Failing
             /\ Destroy(c, e)
             /\ stack' = TellHalt(Visited(e), Sessions(e))
     ELSE /\ stack' = Skipped(e)
          /\ UNCHANGED <<entries, entry, statuses, reported>>
  /\ UNCHANGED <<paused, watchers, lease, queued>>

\* resume() reaches one entry of its snapshot: one still leased opens again, or halts.
ResumeEntry(e) ==
  /\ Call = "resume"
  /\ e \in Top.todo
  /\ IF entry[e].live /\ entry[e].leases > 0
     THEN \/ /\ entry' = [entry EXCEPT ![e].open = TRUE]
             /\ stack' = Visited(e)
             /\ UNCHANGED <<entries, statuses, reported>>
          \/ /\ "resume" \in Failing /\ ~entry[e].open
             /\ Destroy(entry[e].key, e)
             /\ stack' = TellHalt(Visited(e), Sessions(e))
     ELSE /\ stack' = Skipped(e)
          /\ UNCHANGED <<entries, entry, statuses, reported>>
  /\ UNCHANGED <<paused, watchers, lease, queued>>

Watch(w) ==
  /\ Turn
  /\ w \notin watchers
  /\ watchers' = watchers \cup {w}
  /\ stack' = Push(stack, Loop("watch", LiveEntries))
  /\ UNCHANGED <<entries, entry, statuses, reported, paused, lease, queued>>

\* watch() reaches one entry, and lease() its own: the watchers hear its activity, and the
\* follow opens if the entry is held.  A follow that fails to open leaves the entry without
\* one, and one whose lane cannot be built halts the chain.
WatchEntry(e) ==
  /\ Call = "watch"
  /\ e \in Top.todo
  /\ IF ~entry[e].live
     THEN stack' = Skipped(e) /\ UNCHANGED <<entries, entry, statuses, reported>>
     ELSE LET c == entry[e].key
              opens == entry[e].leases > 0 /\ ~entry[e].watchFollow
              heard == [entry[e] EXCEPT !.cut = @ /\ entry[e].leases = 0]
          IN  \/ /\ Put(c, e, [heard EXCEPT !.watchFollow = @ \/ opens], statuses[c])
                 /\ Report(c, entry[e], statuses[c])
                 /\ stack' = Visited(e)
              \/ /\ opens /\ "connect" \in Failing
                 /\ Put(c, e, heard, statuses[c])
                 /\ Report(c, entry[e], statuses[c])
                 /\ stack' = Visited(e)
              \/ /\ opens /\ "connect" \in Failing
                 /\ Destroy(c, e)
                 /\ stack' = TellHalt(Visited(e), Sessions(e))
  /\ UNCHANGED <<paused, watchers, lease, queued>>

\* The unsubscribe watch() returned.  The last one to leave goes over every chain's follow.
Unwatch(w) ==
  /\ Turn
  /\ w \in watchers
  /\ watchers' = watchers \ {w}
  /\ stack' = IF watchers' = {} THEN Push(stack, Loop("unwatch", LiveEntries)) ELSE stack
  /\ reported' = IF watchers' = {} THEN [c \in Chains |-> NoActivity] ELSE reported
  /\ UNCHANGED <<entries, entry, statuses, paused, lease, queued>>

\* unwatch() reaches one entry, or lease() its own: its follow ends.  One whose lane fails to
\* close halts its chain.  A throw ends the loop before the entries that are left; out of
\* lease(), it is TakeDrops.
UnwatchEntry(e) ==
  /\ Call \in {"unwatch", "sync"}
  /\ e \in Top.todo
  /\ IF ~entry[e].watchFollow
     THEN stack' = Skipped(e) /\ UNCHANGED <<entries, entry, statuses, reported>>
     ELSE \/ /\ Put(entry[e].key, e, Synced(entry[e]), statuses[entry[e].key])
             /\ stack' = Visited(e)
             /\ UNCHANGED reported
          \/ /\ "release" \in Failing /\ Call = "unwatch"
             /\ entry' = [f \in Entries |->
                            IF f = e THEN Dropped(entry[e])
                            ELSE [entry[f] EXCEPT !.cut = @ \/ (f \in Top.todo /\ entry[f].live)]]
             /\ stack' = Pop(stack)
             /\ UNCHANGED <<entries, statuses, reported>>
          \/ /\ "release" \in Failing
             /\ Destroy(entry[e].key, e)
             /\ stack' = TellHalt(Visited(e), Sessions(e))
  /\ UNCHANGED <<paused, watchers, lease, queued>>

\* disconnectAll(): the page or the engine goes away, and no lease hears of it.
DisconnectAll ==
  /\ Turn
  /\ LiveEntries # {}
  /\ entries' = [c \in Chains |-> None]
  /\ entry' = [e \in Entries |-> Closed]
  /\ statuses' = [c \in Chains |-> "disconnected"]
  /\ reported' = [c \in Chains |-> NoActivity]
  /\ lease' = [l \in Leases |->
                 IF lease[l].state = "held" /\ entry[lease[l].entry].live
                 THEN [lease[l] EXCEPT !.fate = "unloaded"] ELSE lease[l]]
  /\ UNCHANGED <<paused, watchers, queued, stack>>

----------------------------------------------------------------------------

\* The pool's own steps, which the JS runtime takes without anyone asking.
RuntimeStep ==
  \/ AcquireContinues
  \/ Return
  \/ \E l \in Leases : TellLease(l)
  \/ \E e \in Entries : \/ CountDown(e) \/ DestroyTimerFires(e)
                        \/ PauseEntry(e) \/ ResumeEntry(e)
                        \/ WatchEntry(e) \/ UnwatchEntry(e)

ConsumerStep ==
  \/ \E l \in Leases, c \in Chains : Connect(l, c)
  \/ \E c \in Chains : GetLocalProvider(c)
  \/ \E l \in Leases : \/ Release(l) \/ ReleaseAgain(l) \/ ReleaseDrops(l)
                       \/ ReleaseThrows(l) \/ ReleaseHalts(l)

TransportStep ==
  \E e \in Entries : \/ \E status \in Statuses : LaneStatus(e, status)
                     \/ \E following \in BOOLEAN : WatchFollowing(e, following)
                     \/ LaneHalts(e)

OwnerStep ==
  \/ Pause \/ Resume \/ DisconnectAll
  \/ \E w \in Watchers : Watch(w) \/ Unwatch(w)

Next == RuntimeStep \/ ConsumerStep \/ TransportStep \/ OwnerStep

Spec == Init /\ [][Next]_vars

----------------------------------------------------------------------------
(* Properties. *)

\* The map holds exactly the live entries, each under its own chain, so no chain is ever
\* open twice (build, destroy).
OneEntryPerChain ==
  /\ \A c \in Chains : entries[c] # None => entry[entries[c]].live /\ entry[entries[c]].key = c
  /\ \A e \in LiveEntries : entries[entry[e].key] = e

\* A live entry counts the leases its consumers still hold on it, whatever became of the
\* chain's earlier entries and their leases: never fewer, and no more either unless a
\* session's disconnect threw (lease, its disconnect).
LeasesCounted ==
  \A e \in LiveEntries : /\ entry[e].leases >= Cardinality(Sessions(e))
                         /\ "release" \notin Failing => entry[e].leases = Cardinality(Sessions(e))

\* A leased chain never has a countdown running that would close it under its leases
\* (acquire, idle).
NoCountdownUnderLease == \A e \in Entries : entry[e].destroyTimer => entry[e].leases = 0

\* A destroy timer that fires closes an entry nobody leases (idle, acquire).
CountdownClosesUnleased ==
  [][\A e \in Entries : DestroyTimerFires(e) => entry[e].leases = 0]_vars

\* Between turns an entry without a lease is counting down, so no chain stays open for good
\* because its last lease went away in an unusual order, but for one whose release was cut short
\* by a throw of the watchers' follow (idle, acquire, getLocalProvider).
UnleasedCountsDown ==
  Turn => \A e \in LiveEntries :
            entry[e].leases = 0 => \/ Delay = "never" \/ entry[e].cut
                                   \/ Delay = "finite" /\ entry[e].destroyTimer

\* Between turns a paused pool has no connection open and a running one has every leased
\* chain open, whatever consumers did inside the loop's deliveries (pause, resume, acquire).
PauseIsComplete ==
  Turn => \A e \in LiveEntries : /\ paused => ~entry[e].open
                                 /\ ~paused /\ entry[e].leases > 0 => entry[e].open

\* The pool's status of a chain is its live entry's, and disconnected without one: an entry
\* rebuilt from a halt handler keeps its own (destroy, applyStatus).
StatusIsCurrent ==
  \A c \in Chains : statuses[c] = IF entries[c] = None THEN "disconnected"
                                  ELSE entry[entries[c]].laneStatus

\* Between turns the watchers' follow is open only on a chain that is held and watched, and
\* no chain is kept open by it.  One an unwatch() cut short did not reach may outlive the last
\* watcher, and then ends with the next lease or release (syncWatchFollow).
WatchFollowIsWanted ==
  Turn => \A e \in Entries :
            entry[e].watchFollow => /\ entry[e].live /\ entry[e].leases > 0
                                    /\ watchers # {} \/ entry[e].cut

\* Between turns the last activity the watchers heard of each chain is the chain's own, but for
\* an entry that a throw of their follow left unreported (report).
WatchersAreCurrent ==
  (Turn /\ watchers # {}) =>
    \A c \in Chains : \/ reported[c] = Current(c)
                      \/ entries[c] # None /\ entry[entries[c]].cut

\* Between turns what the watchers of the network panel cause and are told is current: their follow, and the
\* activity they heard, each but for what a throw of that follow cut short (syncWatchFollow, report).
WatchingIsCurrent == WatchFollowIsWanted /\ WatchersAreCurrent

\* Between turns a lease whose chain is gone has heard so, unless the whole pool was closed
\* (destroy, halt).
HaltIsHeard ==
  Turn => \A l \in Leases : lease[l].state = "held" =>
            (entry[lease[l].entry].live <=> lease[l].fate = "open")

\* Nothing waits for what will not come: no chain without a lease stays open without a countdown, but for one whose
\* release was cut short, and no lease believes in a chain that is gone (idle, acquire, destroy).
NothingIsStranded == UnleasedCountsDown /\ HaltIsHeard

----------------------------------------------------------------------------
(* The pool implements ChainLeases: what its consumers may rely on. *)

Promise == INSTANCE ChainLeases WITH
  holders <- [c \in Chains |-> IF entries[c] = None THEN {} ELSE Sessions(entries[c])],
  up <- [c \in Chains |-> entries[c] # None],
  taken <- {l \in Leases : lease[l].state = "held"},
  unloaded <- {l \in Leases : lease[l].fate = "unloaded"},
  owed <- {l \in Leases : \E i \in DOMAIN stack : stack[i].call = "halt" /\ l \in stack[i].todo}

LeasePromise == Promise!Spec
============================================================================
