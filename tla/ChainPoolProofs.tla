-------------------------- MODULE ChainPoolProofs --------------------------
(***************************************************************************)
(* Theorems about ChainPool, for any number of chains, entries, leases and  *)
(* watchers, any depth of nested calls and any set of failing calls.        *)
(*                                                                          *)
(* The inductive invariant has four parts: what the variables hold (Typed), *)
(* how the map, the Entry objects and the statuses agree (Links), which     *)
(* entry a lease may name (Counts), and which leases an unfinished acquire  *)
(* keeps for itself (Apart).                                                *)
(*                                                                          *)
(* Its last part adds what the loops in progress have still to do           *)
(* (Underway), for the properties of a pool between turns.                  *)
(***************************************************************************)
EXTENDS ChainPool, FiniteSetTheorems, SequenceTheorems, TLAPS

\* The acquire calls of stack s that are going to take lease l.
Awaits(s, l) == {i \in DOMAIN s : s[i].call = "acquire" /\ s[i].lease = l}

\* The shape of the pool's own record of its chains.
Typed ==
  /\ paused \in BOOLEAN
  /\ watchers \subseteq Watchers
  /\ lease \in [Leases -> LeaseType]
  /\ queued \subseteq Entries
  /\ stack \in Seq(Frames)

\* An entry that left the map has no timer running, and nobody follows it.
DeadIsIdle == \A e \in Entries : ~entry[e].live => ~entry[e].destroyTimer /\ ~entry[e].watchFollow

Links ==
  /\ entries \in [Chains -> Entries \cup {None}]
  /\ entry \in [Entries -> EntryType]
  /\ statuses \in [Chains -> Statuses]
  /\ reported \in [Chains -> ActivityType]
  /\ DeadIsIdle
  /\ \A e \in Entries : entry[e].live => entry[e].key \in Chains
  /\ OneEntryPerChain
  /\ StatusIsCurrent

Counts ==
  /\ \A l \in Leases : lease[l].state # "free" => lease[l].entry \in Entries
  /\ LeasesCounted

\* No lease is both held and about to be taken, and no two acquires are to take the same.
Apart ==
  \A l \in Leases : /\ lease[l].state = "held" => Awaits(stack, l) = {}
                    /\ \A i, j \in Awaits(stack, l) : i = j

IInv == Typed /\ Links /\ Counts /\ Apart

----------------------------------------------------------------------------
(* The map and its entries. *)

LEMMA ClosedType == Closed \in EntryType
  BY DEF Closed, EntryType, Statuses

LEMMA BuiltType ==
  ASSUME paused \in BOOLEAN, NEW c \in Chains
  PROVE  /\ Built(c) \in EntryType
         /\ Built(c).live /\ Built(c).key = c /\ Built(c).leases = 0
  BY DEF Built, Closed, EntryType, Statuses

LEMMA ActivityTyped ==
  ASSUME NEW r \in EntryType, NEW status \in Statuses
  PROVE  Activity(r, status) \in ActivityType
  BY DEF Activity, ActivityType, EntryType

\* An entry that stays live, or a new one where the chain had none, leaves the map right as
\* long as it is of that chain and the status is its own.
LEMMA PutKeeps ==
  ASSUME Links, PoolAssumption,
         NEW c \in Chains, NEW e \in Entries, NEW r \in EntryType, NEW status,
         r.live, r.key = c, status = r.laneStatus,
         entries[c] = e \/ (entries[c] = None /\ ~entry[e].live),
         Put(c, e, r, status), reported' \in [Chains -> ActivityType]
  PROVE  Links'
<1>0. None \notin Entries /\ None \notin Chains
  BY DEF PoolAssumption
<1>1. status \in Statuses
  BY DEF EntryType
<1>2. /\ entries' = [entries EXCEPT ![c] = e]
      /\ entry' = [entry EXCEPT ![e] = r]
      /\ statuses' = [statuses EXCEPT ![c] = status]
  BY DEF Put
<1>4. /\ entries' \in [Chains -> Entries \cup {None}]
      /\ entry' \in [Entries -> EntryType]
      /\ statuses' \in [Chains -> Statuses]
  BY <1>1, <1>2 DEF Links
<1>5. DeadIsIdle'
  BY <1>2 DEF Links, DeadIsIdle, Closed
<1>6. \A d \in Entries : entry'[d].live => entry'[d].key \in Chains
  BY <1>2 DEF Links
<1>7. OneEntryPerChain'
  BY <1>0, <1>2 DEF Links, OneEntryPerChain, LiveEntries
<1>8. StatusIsCurrent'
  BY <1>0, <1>2, <1>7 DEF Links, StatusIsCurrent, OneEntryPerChain, LiveEntries
<1> QED
  BY <1>4, <1>5, <1>6, <1>7, <1>8 DEF Links

LEMMA ReportTyped ==
  ASSUME Links, NEW c \in Chains, NEW r \in EntryType, NEW status \in Statuses,
         Report(c, r, status) \/ UNCHANGED reported
  PROVE  reported' \in [Chains -> ActivityType]
  BY ActivityTyped DEF Report, Links

LEMMA UpdateKeeps ==
  ASSUME Links, PoolAssumption,
         NEW c \in Chains, NEW e \in Entries, NEW r \in EntryType, NEW status,
         r.live, r.key = c, status = r.laneStatus,
         entries[c] = e \/ (entries[c] = None /\ ~entry[e].live),
         Update(c, e, r, status)
  PROVE  Links'
<1>1. status \in Statuses
  BY DEF EntryType
<1> QED
  BY <1>1, PutKeeps, ReportTyped DEF Update

LEMMA DestroyKeeps ==
  ASSUME Links, PoolAssumption,
         NEW c \in Chains, NEW e \in Entries,
         entries[c] = e \/ (entries[c] = None /\ ~entry[e].live),
         Destroy(c, e)
  PROVE  Links'
<1>0. None \notin Entries /\ None \notin Chains
  BY DEF PoolAssumption
<1>1. /\ entries' = [entries EXCEPT ![c] = None]
      /\ entry' = [entry EXCEPT ![e] = Closed]
      /\ statuses' = [statuses EXCEPT ![c] = "disconnected"]
  BY DEF Destroy
<1>2. "disconnected" \in Statuses
  BY DEF Statuses
<1>3. reported' \in [Chains -> ActivityType]
  BY <1>2, ClosedType, ActivityTyped DEF Destroy, Report, Links
<1>4. /\ entries' \in [Chains -> Entries \cup {None}]
      /\ entry' \in [Entries -> EntryType]
      /\ statuses' \in [Chains -> Statuses]
  BY <1>1, <1>2, ClosedType DEF Links
<1>5. DeadIsIdle' /\ ~Closed.live
  BY <1>1 DEF Links, DeadIsIdle, Closed
<1>6. \A d \in Entries : entry'[d].live => entry'[d].key \in Chains
  BY <1>1, <1>5 DEF Links
<1>7. OneEntryPerChain'
  BY <1>0, <1>1, <1>5 DEF Links, OneEntryPerChain, LiveEntries
<1>8. StatusIsCurrent'
  BY <1>0, <1>1, <1>7 DEF Links, StatusIsCurrent, OneEntryPerChain, LiveEntries
<1> QED
  BY <1>3, <1>4, <1>5, <1>6, <1>7, <1>8 DEF Links

LEMMA LinksStay ==
  ASSUME Links, UNCHANGED <<entries, entry, statuses, reported>>
  PROVE  Links'
  BY DEF Links, DeadIsIdle, OneEntryPerChain, LiveEntries, StatusIsCurrent

LEMMA IdleKeeps ==
  ASSUME Links, PoolAssumption,
         NEW c \in Chains, NEW e \in Entries, NEW r \in EntryType, NEW status,
         r.live, r.key = c, status = r.laneStatus,
         entries[c] = e \/ (entries[c] = None /\ ~entry[e].live),
         Idle(c, e, r, status)
  PROVE  Links'
<1>1. CASE Idles(r) /\ Delay = "zero"
  BY <1>1, DestroyKeeps DEF Idle
<1>2. CASE ~(Idles(r) /\ Delay = "zero")
  <2> DEFINE timed == [r EXCEPT !.destroyTimer = @ \/ (Idles(r) /\ Delay = "finite")]
  <2>1. /\ timed \in EntryType
        /\ timed.live /\ timed.key = c /\ status = timed.laneStatus
    BY DEF EntryType, Idles
  <2>2. Update(c, e, timed, status)
    BY <1>2 DEF Idle
  <2> QED
    BY <2>1, <2>2, UpdateKeeps
<1> QED
  BY <1>1, <1>2

\* A live entry is the one its chain has in the map.
LEMMA LiveInMap ==
  ASSUME Links, PoolAssumption, NEW e \in Entries, entry[e].live
  PROVE  /\ entry[e] \in EntryType
         /\ entry[e].key \in Chains
         /\ entries[entry[e].key] = e
         /\ statuses[entry[e].key] = entry[e].laneStatus
  BY DEF Links, OneEntryPerChain, LiveEntries, StatusIsCurrent, PoolAssumption

----------------------------------------------------------------------------
(* What a call has got hold of. *)

\* An entry lease() may count a lease on, and the calls that get hold of one: it is the
\* chain's own, or a new one that no lease names.
Sound(c, got) ==
  /\ got.entry \in Entries /\ got.now \in EntryType
  /\ got.now.live /\ got.now.key = c /\ got.status = got.now.laneStatus
  /\ entries[c] = got.entry \/ (entries[c] = None /\ ~entry[got.entry].live)
  /\ IF entry[got.entry].live THEN got.now.leases = entry[got.entry].leases
     ELSE got.now.leases = 0 /\ \A l \in Leases : lease[l].entry # got.entry

LEMMA BuildIsSound ==
  ASSUME Links, paused \in BOOLEAN, NEW c \in Chains, entries[c] = None, Fresh # {}
  PROVE  Sound(c, Build(c))
<1>1. NewEntry \in Fresh
  BY DEF NewEntry
<1>2. NewEntry \in Entries /\ ~entry[NewEntry].live /\ \A l \in Leases : lease[l].entry # NewEntry
  BY <1>1 DEF Fresh
<1>3. /\ Build(c).entry = NewEntry /\ Build(c).now = Built(c)
      /\ Build(c).status = Built(c).laneStatus
  BY DEF Build, Got
<1> QED
  BY <1>2, <1>3, BuiltType DEF Sound

LEMMA AcquiredIsSound ==
  ASSUME Links, PoolAssumption, paused \in BOOLEAN, NEW c \in Chains,
         entries[c] = None => Fresh # {}
  PROVE  Sound(c, Acquired(c)) /\ Sound(c, Reacquired(c))
<1>1. CASE entries[c] = None
  BY <1>1, BuildIsSound DEF Acquired, Reacquired
<1>2. CASE entries[c] # None
  <2> DEFINE e == entries[c]
  <2>1. e \in Entries
    BY <1>2 DEF Links
  <2>2. /\ entry[e].live /\ entry[e].key = c /\ entry[e] \in EntryType
        /\ statuses[c] = entry[e].laneStatus
    BY <1>2, <2>1 DEF Links, OneEntryPerChain, StatusIsCurrent
  <2> DEFINE r == [entry[e] EXCEPT !.open = @ \/ ~paused, !.destroyTimer = FALSE]
  <2>3. /\ r \in EntryType /\ r.live /\ r.key = c /\ r.leases = entry[e].leases
        /\ statuses[c] = r.laneStatus
    BY <2>2 DEF EntryType
  <2>4. Acquired(c) = Got(e, r, statuses[c]) /\ Reacquired(c) = Got(e, entry[e], statuses[c])
    BY <1>2 DEF Acquired, Reacquired
  <2> HIDE DEF r
  <2>5. Sound(c, Got(e, r, statuses[c]))
    BY <2>1, <2>2, <2>3 DEF Sound, Got
  <2>6. Sound(c, Got(e, entry[e], statuses[c]))
    BY <2>1, <2>2 DEF Sound, Got
  <2> QED
    BY <2>4, <2>5, <2>6
<1> QED
  BY <1>1, <1>2

----------------------------------------------------------------------------
(* Counting leases. *)

LEMMA SessionsFinite ==
  ASSUME PoolAssumption, NEW e
  PROVE  IsFiniteSet(Sessions(e)) /\ Cardinality(Sessions(e)) \in Nat
<1>1. Sessions(e) \subseteq Leases /\ IsFiniteSet(Leases)
  BY DEF Sessions, PoolAssumption
<1> QED
  BY <1>1, FS_Subset, FS_CardinalityType

\* The count is right after a step that keeps what consumers hold, as long as an entry it
\* leaves live has the count it had, or none if nobody names it.
LEMMA CountsKept ==
  ASSUME Counts, PoolAssumption, Links,
         \A l \in Leases : /\ lease'[l].state = lease[l].state
                           /\ lease'[l].entry = lease[l].entry,
         \A e \in Entries : entry'[e].live =>
            \/ entry[e].live /\ entry'[e].leases = entry[e].leases
            \/ entry'[e].leases = 0 /\ \A l \in Leases : lease[l].entry # e
  PROVE  Counts'
<1>1. ASSUME NEW e \in Entries
      PROVE  Sessions(e)' = Sessions(e)
  BY DEF Sessions
<1>2. LeasesCounted'
  <2> SUFFICES ASSUME NEW e \in Entries, entry'[e].live
               PROVE  /\ entry'[e].leases >= Cardinality(Sessions(e))
                      /\ "release" \notin Failing => entry'[e].leases = Cardinality(Sessions(e))
    BY <1>1 DEF LeasesCounted, LiveEntries
  <2>1. CASE entry[e].live /\ entry'[e].leases = entry[e].leases
    BY <2>1 DEF Counts, LeasesCounted, LiveEntries
  <2>2. CASE entry'[e].leases = 0 /\ \A l \in Leases : lease[l].entry # e
    <3>1. Sessions(e) = {}
      BY <2>2 DEF Sessions
    <3> QED
      BY <2>2, <3>1, FS_EmptySet
  <2> QED
    BY <2>1, <2>2
<1> QED
  BY <1>2 DEF Counts

\* lease() counts the lease it hands out.
LEMMA CountsTaken ==
  ASSUME Counts, Links, PoolAssumption, lease \in [Leases -> LeaseType],
         NEW c \in Chains, NEW got, Sound(c, got), NEW l \in Leases, lease[l].state # "held",
         NEW r, r.leases = got.now.leases + 1, entry' = [entry EXCEPT ![got.entry] = r],
         lease' = [lease EXCEPT ![l] = [entry |-> got.entry, state |-> "held", fate |-> "open"]]
  PROVE  Counts'
<1>1. got.entry \in Entries /\ got.now \in EntryType
  BY DEF Sound
<1>2. ASSUME NEW e \in Entries
      PROVE  Sessions(e)' = IF e = got.entry THEN Sessions(e) \cup {l} ELSE Sessions(e)
  BY <1>1, <1>2 DEF Sessions
<1>3. l \notin Sessions(got.entry)
  BY DEF Sessions
<1>4. Cardinality(Sessions(got.entry) \cup {l}) = Cardinality(Sessions(got.entry)) + 1
  BY <1>3, SessionsFinite, FS_AddElement
<1>5. entry'[got.entry].leases = got.now.leases + 1 /\ got.now.leases \in Nat
  BY <1>1 DEF Links, EntryType
<1>6. /\ got.now.leases >= Cardinality(Sessions(got.entry))
      /\ "release" \notin Failing => got.now.leases = Cardinality(Sessions(got.entry))
  <2>1. CASE entry[got.entry].live
    BY <1>1, <2>1 DEF Sound, Counts, LeasesCounted, LiveEntries
  <2>2. CASE ~entry[got.entry].live
    <3>1. Sessions(got.entry) = {} /\ got.now.leases = 0
      BY <2>2 DEF Sessions, Sound
    <3> QED
      BY <3>1, FS_EmptySet
  <2> QED
    BY <2>1, <2>2
<1>7. LeasesCounted'
  <2> SUFFICES ASSUME NEW e \in Entries, entry'[e].live
               PROVE  /\ entry'[e].leases >= Cardinality(Sessions(e)')
                      /\ "release" \notin Failing => entry'[e].leases = Cardinality(Sessions(e)')
    BY DEF LeasesCounted, LiveEntries
  <2>1. CASE e = got.entry
    <3>1. Cardinality(Sessions(e)') = Cardinality(Sessions(e)) + 1
      BY <1>2, <1>4, <2>1
    <3>2. Cardinality(Sessions(e)) \in Nat
      BY SessionsFinite
    <3> QED
      BY <1>5, <1>6, <2>1, <3>1, <3>2
  <2>2. CASE e # got.entry
    <3>1. entry'[e] = entry[e] /\ Sessions(e)' = Sessions(e)
      BY <1>2, <2>2 DEF Links
    <3> QED
      BY <3>1 DEF Counts, LeasesCounted, LiveEntries
  <2> QED
    BY <2>1, <2>2
<1>8. \A k \in Leases : lease'[k].state # "free" => lease'[k].entry \in Entries
  BY <1>1 DEF Counts
<1> QED
  BY <1>7, <1>8 DEF Counts

\* An entry may count leases nobody holds where ending a session or a follow may throw.
LEMMA CountsOver ==
  ASSUME Counts, PoolAssumption, Links, "release" \in Failing,
         \A l \in Leases : lease'[l].state # "free" => lease'[l].entry \in Entries,
         \A e \in Entries : Sessions(e)' \subseteq Sessions(e),
         \A e \in Entries : entry'[e].live =>
            /\ entry'[e].leases \in Nat
            /\ IF entry[e].live THEN entry'[e].leases >= entry[e].leases
               ELSE \A l \in Leases : lease[l].entry # e
  PROVE  Counts'
<1>1. ASSUME NEW d \in Entries, entry'[d].live
      PROVE  entry'[d].leases >= Cardinality(Sessions(d)')
  <2>1. \A A, B : IsFiniteSet(A) /\ B \subseteq A => Cardinality(B) <= Cardinality(A) /\ Cardinality(B) \in Nat
    BY FS_Subset, FS_CardinalityType, Zenon
  <2>2. Cardinality(Sessions(d)') <= Cardinality(Sessions(d)) /\ Cardinality(Sessions(d)') \in Nat
    BY <2>1, SessionsFinite
  <2>3. Cardinality(Sessions(d)) \in Nat
    BY SessionsFinite
  <2>4. CASE entry[d].live
    <3>1. entry[d].leases >= Cardinality(Sessions(d)) /\ entry[d].leases \in Nat
          /\ entry'[d].leases >= entry[d].leases /\ entry'[d].leases \in Nat
      BY <1>1, <2>4 DEF Counts, LeasesCounted, LiveEntries, Links, EntryType
    <3> QED
      BY <2>2, <2>3, <3>1
  <2>5. CASE ~entry[d].live
    <3>1. Sessions(d) = {} /\ entry'[d].leases \in Nat
      BY <1>1, <2>5 DEF Sessions
    <3> QED
      BY <2>2, <3>1, FS_EmptySet
  <2> QED
    BY <2>4, <2>5
<1> QED
  BY <1>1 DEF Counts, LeasesCounted, LiveEntries

\* A lease given back leaves the count of its live entry right.
LEMMA CountsGiven ==
  ASSUME Counts, Links, PoolAssumption, lease \in [Leases -> LeaseType],
         NEW l \in Leases, lease[l].state = "held",
         lease' = [lease EXCEPT ![l].state = "released"],
         \A e \in Entries : entry'[e].live =>
            /\ entry[e].live
            /\ entry'[e].leases = IF e = lease[l].entry THEN entry[e].leases - 1
                                  ELSE entry[e].leases
  PROVE  Counts'
<1> DEFINE e0 == lease[l].entry
<1>1. e0 \in Entries /\ l \in Sessions(e0)
  BY DEF Counts, Sessions
<1>2. ASSUME NEW e \in Entries
      PROVE  Sessions(e)' = IF e = e0 THEN Sessions(e) \ {l} ELSE Sessions(e)
  BY <1>2 DEF Sessions, LeaseType
<1>3. Cardinality(Sessions(e0) \ {l}) = Cardinality(Sessions(e0)) - 1
  <2>1. IsFiniteSet(Sessions(e0))
    BY SessionsFinite
  <2> HIDE DEF e0
  <2>2. \A S : IsFiniteSet(S) /\ l \in S => Cardinality(S \ {l}) = Cardinality(S) - 1
    BY FS_RemoveElement, Zenon
  <2> QED
    BY <1>1, <2>1, <2>2
<1>4. LeasesCounted'
  <2> SUFFICES ASSUME NEW e \in Entries, entry'[e].live
               PROVE  /\ entry'[e].leases >= Cardinality(Sessions(e)')
                      /\ "release" \notin Failing => entry'[e].leases = Cardinality(Sessions(e)')
    BY DEF LeasesCounted, LiveEntries
  <2>1. /\ entry[e].leases >= Cardinality(Sessions(e))
        /\ "release" \notin Failing => entry[e].leases = Cardinality(Sessions(e))
        /\ entry[e].leases \in Nat
    BY DEF Counts, LeasesCounted, LiveEntries, Links, EntryType
  <2>2. Cardinality(Sessions(e)) \in Nat
    BY SessionsFinite
  <2>3. CASE e = e0
    <3>1. Cardinality(Sessions(e)') = Cardinality(Sessions(e)) - 1
      BY <1>2, <1>3, <2>3
    <3>2. entry'[e].leases = entry[e].leases - 1
      BY <2>3
    <3> QED
      BY <2>1, <2>2, <3>1, <3>2
  <2>4. CASE e # e0
    BY <1>2, <2>1, <2>4
  <2> QED
    BY <2>3, <2>4
<1>5. \A k \in Leases : lease'[k].state # "free" => lease'[k].entry \in Entries
  BY DEF Counts, LeaseType
<1> QED
  BY <1>4, <1>5 DEF Counts

\* An entry a consumer holds a lease on counts at least that one.
LEMMA HeldIsCounted ==
  ASSUME Counts, Links, PoolAssumption,
         NEW l \in Leases, lease[l].state = "held", entry[lease[l].entry].live
  PROVE  /\ lease[l].entry \in Entries
         /\ entry[lease[l].entry].leases - 1 \in Nat
<1> DEFINE e == lease[l].entry
<1>1. e \in Entries /\ l \in Sessions(e)
  BY DEF Counts, Sessions
<1>2. Cardinality(Sessions(e)) > 0
  BY <1>1, SessionsFinite, FS_EmptySet
<1>3. entry[e].leases \in Nat /\ entry[e].leases >= Cardinality(Sessions(e))
  BY <1>1 DEF Counts, LeasesCounted, LiveEntries, Links, EntryType
<1> QED
  BY <1>1, <1>2, <1>3, SessionsFinite

----------------------------------------------------------------------------
(* The call stack. *)

\* Stack t is as good as s to whoever waits for an acquire: a call was pushed that is not
\* one, or a frame of such a call moved on.
Quiet(s, t) == t \in Seq(Frames) /\ \A l \in Leases \cup {None} : Awaits(t, l) \subseteq Awaits(s, l)

LEMMA FrameTypes ==
  /\ \A told \in SUBSET Leases : [call |-> "halt", todo |-> told] \in Frames
  /\ \A call \in LoopCalls : \A over \in SUBSET Entries :
       Loop(call, over) \in Frames
  /\ \A c \in Chains : \A l \in Leases \cup {None} :
       [call |-> "acquire", chain |-> c, lease |-> l] \in Frames
  BY DEF Frames, Loop

LEMMA QuietPush ==
  ASSUME NEW s \in Seq(Frames), NEW f \in Frames, f.call # "acquire"
  PROVE  Quiet(s, Push(s, f))
<1>1. Append(s, f) \in Seq(Frames) /\ Len(Append(s, f)) = Len(s) + 1 /\ Len(s) \in Nat
  OBVIOUS
<1>2. Append(s, f)[Len(s) + 1] = f /\ \A i \in 1 .. Len(s) : Append(s, f)[i] = s[i]
  OBVIOUS
<1>3. DOMAIN Append(s, f) = 1 .. (Len(s) + 1) /\ DOMAIN s = 1 .. Len(s)
  BY <1>1
<1>4. ASSUME NEW l \in Leases \cup {None}, NEW i \in Awaits(Append(s, f), l)
      PROVE  i \in Awaits(s, l)
  <2>1. i \in 1 .. (Len(s) + 1) /\ Append(s, f)[i].call = "acquire"
    BY <1>3 DEF Awaits
  <2>2. i # Len(s) + 1
    BY <1>2, <2>1
  <2>3. i \in 1 .. Len(s)
    BY <1>1, <2>1, <2>2
  <2> QED
    BY <1>2, <1>3, <2>3 DEF Awaits
<1> QED
  BY <1>1, <1>4 DEF Quiet, Push

LEMMA QuietTellHalt ==
  ASSUME NEW s \in Seq(Frames), NEW told \in SUBSET Leases
  PROVE  Quiet(s, TellHalt(s, told))
<1> DEFINE f == [call |-> "halt", todo |-> told]
<1>1. f \in Frames /\ f.call # "acquire"
  BY FrameTypes
<1>2. Quiet(s, Push(s, f))
  BY <1>1, QuietPush
<1>3. Quiet(s, s)
  BY DEF Quiet
<1> QED
  BY <1>2, <1>3 DEF TellHalt

LEMMA QuietTrans ==
  ASSUME NEW s, NEW t, NEW u, Quiet(s, t), Quiet(t, u)
  PROVE  Quiet(s, u)
  BY DEF Quiet

LEMMA QuietPop ==
  ASSUME NEW s \in Seq(Frames), s # <<>>
  PROVE  /\ Quiet(s, Pop(s))
         /\ \A l \in Leases : Len(s) \notin Awaits(Pop(s), l)
<1>1. Len(s) \in Nat /\ Len(s) >= 1
  OBVIOUS
<1>2. /\ Pop(s) \in Seq(Frames) /\ Len(Pop(s)) = Len(s) - 1
      /\ \A i \in 1 .. (Len(s) - 1) : Pop(s)[i] = s[i]
  <2>1. \A i \in 1 .. (Len(s) - 1) : s[i] \in Frames
    BY <1>1
  <2>2. /\ SubSeq(s, 1, Len(s) - 1) \in Seq(Frames)
        /\ Len(SubSeq(s, 1, Len(s) - 1)) = Len(s) - 1
        /\ \A i \in 1 .. (Len(s) - 1) : SubSeq(s, 1, Len(s) - 1)[i] = s[i]
    <3> DEFINE n == Len(s) - 1
    <3>1. n \in Int /\ 1 \in Int /\ n \in Nat
      BY <1>1
    <3> HIDE DEF n
    <3>2. /\ SubSeq(s, 1, n) \in Seq(Frames)
          /\ Len(SubSeq(s, 1, n)) = IF 1 <= n THEN n - 1 + 1 ELSE 0
          /\ \A i \in 1 .. n - 1 + 1 : SubSeq(s, 1, n)[i] = s[1 + i - 1]
      BY <2>1, <3>1, SubSeqProperties DEF n
    <3>3. /\ SubSeq(s, 1, n) \in Seq(Frames)
          /\ Len(SubSeq(s, 1, n)) = n
          /\ \A i \in 1 .. n : SubSeq(s, 1, n)[i] = s[i]
      BY <3>1, <3>2
    <3> QED
      BY <3>3 DEF n
  <2> QED
    BY <2>2 DEF Pop
<1>3. DOMAIN Pop(s) = 1 .. (Len(s) - 1) /\ DOMAIN s = 1 .. Len(s)
  BY <1>1, <1>2
<1> QED
  BY <1>1, <1>2, <1>3 DEF Quiet, Awaits

\* The innermost frame moved on: it is still a frame of the same call.
LEMMA QuietTop ==
  ASSUME NEW s \in Seq(Frames), s # <<>>, NEW f \in Frames, f.call # "acquire"
  PROVE  Quiet(s, [s EXCEPT ![Len(s)] = f])
<1>1. Len(s) \in Nat /\ Len(s) >= 1 /\ DOMAIN s = 1 .. Len(s)
  OBVIOUS
<1>2. [s EXCEPT ![Len(s)] = f] \in Seq(Frames)
  BY <1>1
<1>3. \A i \in 1 .. Len(s) : [s EXCEPT ![Len(s)] = f][i] = IF i = Len(s) THEN f ELSE s[i]
  BY <1>1
<1>4. DOMAIN [s EXCEPT ![Len(s)] = f] = 1 .. Len(s)
  BY <1>1
<1> QED
  BY <1>1, <1>2, <1>3, <1>4 DEF Quiet, Awaits

LEMMA TopFrame ==
  ASSUME stack \in Seq(Frames), Call # "none"
  PROVE  stack # <<>> /\ Top \in Frames /\ Call = Top.call /\ Len(stack) \in DOMAIN stack
  BY DEF Call, Top

LEMMA QuietLoop ==
  ASSUME stack \in Seq(Frames), Call \in LoopCalls, NEW e
  PROVE  Quiet(stack, Visited(e)) /\ Quiet(stack, Skipped(e))
<1>1. stack # <<>> /\ Top \in Frames /\ Call = Top.call
  BY TopFrame DEF Call, LoopCalls
<1>2. Top \in [call: LoopCalls, todo: SUBSET Entries, delivers: BOOLEAN]
  BY <1>1 DEF Frames, LoopCalls
<1> DEFINE f(d) == [Top EXCEPT !.todo = @ \ {e}, !.delivers = d]
<1>3. \A d \in BOOLEAN : f(d) \in Frames /\ f(d).call # "acquire"
  BY <1>2 DEF Frames, LoopCalls
<1>4. /\ Visited(e) = [stack EXCEPT ![Len(stack)] = f(TRUE)]
      /\ Skipped(e) = [stack EXCEPT ![Len(stack)] = f(FALSE)]
  <2> DEFINE n == Len(stack)
  <2>1. n \in DOMAIN stack /\ Top = stack[n]
    BY <1>1 DEF Top
  <2>2. ASSUME NEW d \in BOOLEAN
        PROVE  [stack EXCEPT ![n].todo = @ \ {e}, ![n].delivers = d] = [stack EXCEPT ![n] = f(d)]
    <3> HIDE DEF n
    <3> QED
      BY <1>2, <2>1
  <2> QED
    BY <2>2 DEF Visited, Skipped
<1> QED
  BY <1>1, <1>3, <1>4, QuietTop

LEMMA QuietPushLoop ==
  ASSUME NEW s \in Seq(Frames), NEW call \in LoopCalls, NEW over \in SUBSET Entries
  PROVE  Quiet(s, Push(s, Loop(call, over)))
<1>1. Loop(call, over) \in Frames /\ Loop(call, over).call # "acquire"
  BY FrameTypes DEF Loop, LoopCalls
<1> QED
  BY <1>1, QuietPush

\* Who waits for which acquire does not change with a quiet step that takes no lease.
LEMMA ApartKept ==
  ASSUME Apart, NEW t, Quiet(stack, t), stack' = t,
         \A l \in Leases : lease'[l].state = "held" => lease[l].state = "held"
  PROVE  stack' \in Seq(Frames) /\ Apart'
  BY DEF Apart, Quiet

----------------------------------------------------------------------------
(* What the calls share. *)

\* A halt keeps the invariant, whichever call runs into it.
LEMMA DestroyTells ==
  ASSUME IInv, PoolAssumption, NEW c \in Chains, NEW e \in Entries,
         entries[c] = e \/ (entries[c] = None /\ ~entry[e].live),
         Destroy(c, e), NEW t, Quiet(stack, t), stack' = t,
         UNCHANGED <<paused, watchers, lease, queued>>
  PROVE  IInv'
<1>1. Links'
  BY DestroyKeeps DEF IInv
<1>2. \A d \in Entries : entry'[d].live => entry[d].live /\ entry'[d].leases = entry[d].leases
  BY DEF Destroy, IInv, Links, Closed
<1>3. Counts'
  BY <1>2, CountsKept DEF IInv
<1>4. stack' \in Seq(Frames) /\ Apart'
  BY ApartKept DEF IInv
<1> QED
  BY <1>1, <1>3, <1>4 DEF IInv, Typed

\* What ending the follow writes.
LEMMA SyncedIs ==
  ASSUME NEW x \in EntryType
  PROVE  \A r \in {Synced(x), Dropped(x)} :
           /\ r \in EntryType /\ r.live = x.live /\ r.key = x.key /\ r.leases = x.leases
           /\ r.destroyTimer = x.destroyTimer /\ r.cut = x.cut /\ r.open = x.open
           /\ r.laneStatus = x.laneStatus /\ (r.watchFollow => x.watchFollow /\ ~FollowEnds(x))
  BY DEF EntryType, Synced, Dropped, FollowEnds

LEMMA TakeKeeps ==
  ASSUME IInv, PoolAssumption, NEW c \in Chains, NEW l \in Leases,
         NEW got, Sound(c, got), NEW s, Quiet(stack, s),
         lease[l].state # "held", Awaits(s, l) = {},
         Take(c, l, got, s)
  PROVE  IInv'
<1> DEFINE r == [got.now EXCEPT !.leases = @ + 1, !.cut = FALSE]
<1>1. /\ r \in EntryType /\ r.live /\ r.key = c /\ got.status = r.laneStatus
      /\ got.entry \in Entries /\ r.leases = got.now.leases + 1
  <2>1. PICK x : x = got.now
    OBVIOUS
  <2>2. /\ x \in EntryType /\ x.live /\ x.key = c /\ got.status = x.laneStatus
        /\ got.entry \in Entries
    BY <2>1 DEF Sound
  <2>3. PICK y : y = [x EXCEPT !.leases = x.leases + 1, !.cut = FALSE]
    OBVIOUS
  <2>4. /\ y \in EntryType /\ y.live /\ y.key = c /\ got.status = y.laneStatus
        /\ y.leases = x.leases + 1
    <3>1. x.leases + 1 \in Nat
      BY <2>2 DEF EntryType
    <3> QED
      BY <2>2, <2>3, <3>1 DEF EntryType
  <2>5. r = y
    BY <2>1, <2>3
  <2> QED
    BY <2>1, <2>2, <2>4, <2>5
<1>2. /\ Update(c, got.entry, r, got.status)
      /\ lease' = [lease EXCEPT ![l] = [entry |-> got.entry, state |-> "held", fate |-> "open"]]
      /\ UNCHANGED <<paused, watchers, queued>>
      /\ stack' = s \/ \E call \in {"watch", "sync"} : stack' = Push(s, Loop(call, {got.entry}))
  BY DEF Take
<1>3. Links'
  <2> HIDE DEF r
  <2> QED
    BY <1>1, <1>2, UpdateKeeps DEF IInv, Sound
<1>4. Counts'
  <2> HIDE DEF r
  <2>1. entry' = [entry EXCEPT ![got.entry] = r]
    BY <1>2 DEF Update, Put
  <2> QED
    BY <1>1, <1>2, <2>1, CountsTaken DEF IInv, Typed
<1>5. lease' \in [Leases -> LeaseType]
  BY <1>1, <1>2 DEF IInv, Typed, LeaseType
<1>6. Quiet(stack, stack') /\ Quiet(s, stack')
  <2>1. Quiet(s, s) /\ s \in Seq(Frames)
    BY DEF Quiet
  <2>2. \A call \in {"watch", "sync"} : Quiet(s, Push(s, Loop(call, {got.entry})))
    BY <1>1, <2>1, QuietPushLoop DEF LoopCalls
  <2> QED
    BY <1>2, <2>1, <2>2, QuietTrans
<1>7. Apart'
  BY <1>2, <1>6 DEF IInv, Typed, Apart, Quiet
<1> QED
  BY <1>2, <1>3, <1>4, <1>5, <1>6, <1>7 DEF IInv, Typed, Quiet

\* The lease that a throw of the follow's end leaves counted.
LEMMA TakeDropsKeeps ==
  ASSUME IInv, PoolAssumption, NEW c \in Chains, NEW got, Sound(c, got),
         NEW s, Quiet(stack, s), TakeDrops(c, got, s)
  PROVE  IInv'
<1> DEFINE r == Dropped([got.now EXCEPT !.leases = @ + 1])
<1>1. /\ r \in EntryType /\ r.live /\ r.key = c /\ got.status = r.laneStatus
      /\ got.entry \in Entries /\ r.leases = got.now.leases + 1 /\ got.now.leases \in Nat
  <2>1. PICK x : x = got.now
    OBVIOUS
  <2>2. /\ x \in EntryType /\ x.live /\ x.key = c /\ got.status = x.laneStatus
        /\ got.entry \in Entries
    BY <2>1 DEF Sound
  <2>3. PICK y : y = [x EXCEPT !.leases = @ + 1]
    OBVIOUS
  <2>4. /\ y \in EntryType /\ y.live /\ y.key = c /\ got.status = y.laneStatus
        /\ y.leases = x.leases + 1 /\ x.leases \in Nat
    BY <2>2, <2>3 DEF EntryType
  <2>5. r = Dropped(y)
    BY <2>1, <2>3
  <2> QED
    BY <2>1, <2>2, <2>4, <2>5, SyncedIs
<1>2. /\ Update(c, got.entry, r, got.status) /\ stack' = s /\ "release" \in Failing
      /\ UNCHANGED <<paused, watchers, lease, queued>>
  BY DEF TakeDrops
<1> HIDE DEF r
<1>3. Links'
  BY <1>1, <1>2, UpdateKeeps DEF IInv, Sound
<1>4. entry' = [entry EXCEPT ![got.entry] = r]
  BY <1>2 DEF Update, Put
<1>5. ASSUME NEW e \in Entries, entry'[e].live
      PROVE  /\ entry'[e].leases \in Nat
             /\ IF entry[e].live THEN entry'[e].leases >= entry[e].leases
                ELSE \A k \in Leases : lease[k].entry # e
  <2>1. entry[e].leases \in Nat
    BY DEF IInv, Links, EntryType
  <2>2. CASE e = got.entry
    BY <1>1, <1>4, <2>1, <2>2 DEF Sound, IInv, Links
  <2>3. CASE e # got.entry
    BY <1>4, <1>5, <2>1, <2>3 DEF IInv, Links
  <2> QED
    BY <2>2, <2>3
<1>6. Counts'
  BY <1>2, <1>5, CountsOver DEF IInv, Counts, Sessions
<1>7. stack' \in Seq(Frames) /\ Apart'
  BY <1>2, ApartKept DEF IInv
<1> QED
  BY <1>2, <1>3, <1>6, <1>7 DEF IInv, Typed

LEMMA IdleCounts ==
  ASSUME IInv, NEW c \in Chains, NEW e \in Entries, NEW r \in EntryType, NEW status,
         Idle(c, e, r, status)
  PROVE  \A d \in Entries : entry'[d].live =>
           IF d = e THEN entry'[d].leases = r.leases
           ELSE entry[d].live /\ entry'[d].leases = entry[d].leases
<1>1. CASE Idles(r) /\ Delay = "zero"
  BY <1>1 DEF Idle, Destroy, Closed, IInv, Links
<1>2. CASE ~(Idles(r) /\ Delay = "zero")
  <2> DEFINE timed == [r EXCEPT !.destroyTimer = @ \/ (Idles(r) /\ Delay = "finite")]
  <2>1. timed.leases = r.leases
    BY DEF EntryType
  <2>2. entry' = [entry EXCEPT ![e] = timed]
    BY <1>2 DEF Idle, Update, Put
  <2> HIDE DEF timed
  <2> QED
    BY <2>1, <2>2 DEF IInv, Links
<1> QED
  BY <1>1, <1>2

\* An entry that is written back with the count it had, or a new one with none.
LEMMA WrittenKeeps ==
  ASSUME IInv, PoolAssumption, NEW c \in Chains, NEW got, Sound(c, got),
         NEW t, Quiet(stack, t), stack' = t, queued' \subseteq Entries,
         UNCHANGED <<paused, watchers, lease>>,
         \/ Update(c, got.entry, got.now, got.status)
         \/ Idle(c, got.entry, got.now, got.status)
         \/ Put(c, got.entry, got.now, got.status) /\ reported' \in [Chains -> ActivityType]
  PROVE  IInv'
<1>1. Links'
  BY PutKeeps, UpdateKeeps, IdleKeeps DEF IInv, Sound
<1>2. got.entry \in Entries /\ got.now \in EntryType
  BY DEF Sound
<1>3. \A d \in Entries : entry'[d].live =>
        IF d = got.entry THEN entry'[d].leases = got.now.leases
        ELSE entry[d].live /\ entry'[d].leases = entry[d].leases
  <2>1. CASE Put(c, got.entry, got.now, got.status)
    BY <1>2, <2>1 DEF Put, IInv, Links
  <2>2. CASE Idle(c, got.entry, got.now, got.status)
    BY <1>2, <2>2, IdleCounts
  <2> QED
    BY <2>1, <2>2 DEF Update
<1>4. Counts'
  <2>1. ASSUME NEW e \in Entries, entry'[e].live
        PROVE  \/ entry[e].live /\ entry'[e].leases = entry[e].leases
               \/ entry'[e].leases = 0 /\ \A l \in Leases : lease[l].entry # e
    BY <1>3, <2>1 DEF Sound
  <2> QED
    BY <2>1, CountsKept DEF IInv
<1>5. stack' \in Seq(Frames) /\ Apart'
  BY ApartKept DEF IInv
<1> QED
  BY <1>1, <1>4, <1>5 DEF IInv, Typed

LEMMA ProceedKeeps ==
  ASSUME IInv, PoolAssumption, NEW c \in Chains, NEW l \in Leases \cup {None},
         NEW got, Sound(c, got), NEW s, Quiet(stack, s),
         l \in Leases => lease[l].state # "held" /\ Awaits(s, l) = {},
         Proceed(c, l, got, s)
  PROVE  IInv'
<1>0. got.entry \in Entries /\ Sessions(got.entry) \subseteq Leases
  BY DEF Sound, Sessions
<1>1. CASE l = None
  <2>1. queued' \subseteq Entries
    BY <1>0, <1>1 DEF Proceed, IInv, Typed
  <2> QED
    BY <1>1, <2>1, WrittenKeeps DEF Proceed
<1>2. CASE l # None /\ Take(c, l, got, s)
  BY <1>2, TakeKeeps
<1>5. CASE l # None /\ TakeDrops(c, got, s)
  BY <1>5, TakeDropsKeeps
<1>3. CASE l # None /\ TakeThrows(c, got, s)
  <2>1. queued' \subseteq Entries
    BY <1>3 DEF TakeThrows, IInv, Typed
  <2> QED
    BY <1>3, <2>1, WrittenKeeps DEF TakeThrows
<1>4. CASE l # None /\ TakeHalts(c, got, s)
  <2>1. Quiet(stack, TellHalt(s, Sessions(got.entry)))
    BY <1>0, QuietTellHalt, QuietTrans DEF Quiet
  <2> QED
    BY <1>0, <1>4, <2>1, DestroyTells DEF TakeHalts, Sound
<1> QED
  BY <1>1, <1>2, <1>3, <1>4, <1>5 DEF Proceed

----------------------------------------------------------------------------
(* One lemma per kind of step. *)

LEMMA AcquireHaltsKeeps ==
  ASSUME IInv, PoolAssumption, NEW c \in Chains, NEW l \in Leases \cup {None},
         l \in Leases => lease[l].state # "held" /\ l \notin LeasesInCalls,
         AcquireHalts(c, l)
  PROVE  IInv'
<1> DEFINE e == entries[c]
           f == [call |-> "acquire", chain |-> c, lease |-> l]
           s == Append(stack, f)
<1>1. e \in Entries /\ Sessions(e) \subseteq Leases
  BY DEF AcquireHalts, CanFailToReopen, IInv, Links, Sessions
<1>2. Destroy(c, e) /\ UNCHANGED <<paused, watchers, lease, queued>>
      /\ stack' = TellHalt(s, Sessions(e))
  BY DEF AcquireHalts, Push
<1>3. Links'
  BY <1>1, <1>2, DestroyKeeps DEF IInv
<1>4. \A d \in Entries : entry'[d].live => entry[d].live /\ entry'[d].leases = entry[d].leases
  BY <1>1, <1>2 DEF Destroy, IInv, Links, Closed
<1>5. Counts'
  BY <1>2, <1>4, CountsKept DEF IInv
<1>6. stack \in Seq(Frames) /\ f \in Frames
  BY FrameTypes DEF IInv, Typed
<1>7. s \in Seq(Frames) /\ Quiet(s, stack')
  <2>1. s \in Seq(Frames)
    BY <1>6
  <2> HIDE DEF s
  <2> QED
    BY <2>1, <1>1, <1>2, QuietTellHalt
<1>8. \A k \in Leases : Awaits(s, k) \subseteq Awaits(stack, k) \cup (IF k = l THEN {Len(s)} ELSE {})
  <2>1. /\ DOMAIN s = 1 .. (Len(stack) + 1) /\ DOMAIN stack = 1 .. Len(stack)
        /\ Len(stack) \in Nat /\ Len(s) = Len(stack) + 1
        /\ s[Len(stack) + 1] = f /\ \A i \in 1 .. Len(stack) : s[i] = stack[i]
    BY <1>6
  <2> HIDE DEF s
  <2>2. f.lease = l
    OBVIOUS
  <2> QED
    BY <2>1, <2>2 DEF Awaits
<1>9. l \in Leases => Awaits(stack, l) = {} /\ lease[l].state # "held"
  BY DEF LeasesInCalls, Awaits
<1>10. Apart'
  <2> HIDE DEF s, e
  <2> QED
    BY <1>2, <1>7, <1>8, <1>9 DEF IInv, Apart, Quiet
<1> QED
  BY <1>2, <1>3, <1>5, <1>7, <1>10 DEF IInv, Typed, Quiet

LEMMA ConnectKeeps ==
  ASSUME IInv, PoolAssumption, NEW c \in Chains,
         \/ GetLocalProvider(c)
         \/ \E l \in Leases : Connect(l, c)
  PROVE  IInv'
<1>0. Quiet(stack, stack) /\ paused \in BOOLEAN /\ None \notin Leases
  BY DEF IInv, Typed, Quiet, PoolAssumption
<1>1. ASSUME NEW l \in Leases \cup {None}, NEW got, got = Acquired(c),
             l \in Leases => lease[l].state # "held" /\ l \notin LeasesInCalls,
             Proceed(c, l, got, stack)
      PROVE  IInv'
  <2>1. Sound(c, got)
    BY <1>0, <1>1, AcquiredIsSound DEF Proceed, IInv
  <2>2. l \in Leases => Awaits(stack, l) = {}
    BY <1>1 DEF LeasesInCalls, Awaits
  <2> QED
    BY <1>0, <1>1, <2>1, <2>2, ProceedKeeps
<1>2. CASE GetLocalProvider(c)
  BY <1>0, <1>1, <1>2, AcquireHaltsKeeps DEF GetLocalProvider
<1>3. ASSUME NEW l \in Leases, Connect(l, c)
      PROVE  IInv'
  BY <1>1, <1>3, AcquireHaltsKeeps DEF Connect
<1> QED
  BY <1>2, <1>3

LEMMA ContinueKeeps ==
  ASSUME IInv, PoolAssumption, AcquireContinues
  PROVE  IInv'
<1> DEFINE c == Top.chain
           l == Top.lease
<1>1. /\ stack \in Seq(Frames) /\ stack # <<>> /\ Top \in Frames /\ Top.call = "acquire"
      /\ Len(stack) \in DOMAIN stack
  BY TopFrame DEF AcquireContinues, IInv, Typed
<1>2. c \in Chains /\ l \in Leases \cup {None}
  BY <1>1 DEF Frames, LoopCalls
<1>3. Sound(c, Reacquired(c))
  BY <1>2, AcquiredIsSound DEF AcquireContinues, Proceed, IInv, Typed
<1>4. Quiet(stack, Pop(stack))
  BY <1>1, QuietPop
<1>5. l \in Leases => lease[l].state # "held" /\ Awaits(Pop(stack), l) = {}
  <2>1. Len(stack) \in Awaits(stack, l)
    BY <1>1 DEF Awaits, Top
  <2>2. l \in Leases => Len(stack) \notin Awaits(Pop(stack), l)
    BY <1>1, QuietPop
  <2> QED
    BY <1>4, <2>1, <2>2 DEF IInv, Apart, Quiet
<1>6. Proceed(c, l, Reacquired(c), Pop(stack))
  BY DEF AcquireContinues
<1> HIDE DEF c, l
<1> QED
  BY <1>2, <1>3, <1>4, <1>5, <1>6, ProceedKeeps

\* A lease that goes back.
LEMMA GivenApart ==
  ASSUME IInv, NEW l \in Leases, lease' = [lease EXCEPT ![l].state = "released"]
  PROVE  /\ lease' \in [Leases -> LeaseType]
         /\ \A k \in Leases : lease'[k].state = "held" => lease[k].state = "held"
  BY DEF IInv, Typed, LeaseType

LEMMA ReleaseKeeps ==
  ASSUME IInv, PoolAssumption, NEW l \in Leases, Release(l)
  PROVE  IInv'
<1> DEFINE e == lease[l].entry
           c == entry[e].key
           left == entry[e].leases - 1
           r == Synced([entry[e] EXCEPT !.leases = left, !.cut = FALSE])
<1>1. /\ lease[l].state = "held"
      /\ lease' = [lease EXCEPT ![l].state = "released"]
      /\ IF entry[e].live THEN Idle(c, e, r, statuses[c])
         ELSE UNCHANGED <<entries, entry, statuses, reported>>
      /\ UNCHANGED <<paused, watchers, queued, stack>>
  BY DEF Release
<1>2. Links' /\ \A d \in Entries : entry'[d].live =>
                  /\ entry[d].live
                  /\ entry'[d].leases = IF d = e THEN entry[d].leases - 1 ELSE entry[d].leases
  <2>1. CASE ~entry[e].live
    BY <1>1, <2>1, LinksStay DEF IInv
  <2>2. CASE entry[e].live
    <3>1. e \in Entries /\ left \in Nat
      BY <1>1, <2>2, HeldIsCounted DEF IInv
    <3>2. /\ entry[e] \in EntryType /\ c \in Chains /\ entries[c] = e
          /\ statuses[c] = entry[e].laneStatus
      BY <2>2, <3>1, LiveInMap DEF IInv
    <3>3. /\ r \in EntryType /\ r.live /\ r.key = c /\ statuses[c] = r.laneStatus
          /\ r.leases = left
      <4>1. PICK x : x = [entry[e] EXCEPT !.leases = left, !.cut = FALSE]
        OBVIOUS
      <4>2. /\ x \in EntryType /\ x.live /\ x.key = c /\ statuses[c] = x.laneStatus
            /\ x.leases = left
        BY <2>2, <3>1, <3>2, <4>1 DEF EntryType
      <4> QED
        BY <4>1, <4>2, SyncedIs
    <3> HIDE DEF r
    <3>4. Idle(c, e, r, statuses[c])
      BY <1>1, <2>2
    <3>5. Links'
      BY <3>1, <3>2, <3>3, <3>4, IdleKeeps DEF IInv
    <3>6. \A d \in Entries : entry'[d].live =>
            IF d = e THEN entry'[d].leases = r.leases
            ELSE entry[d].live /\ entry'[d].leases = entry[d].leases
      BY <3>1, <3>2, <3>3, <3>4, IdleCounts
    <3> QED
      BY <2>2, <3>3, <3>5, <3>6
  <2> QED
    BY <2>1, <2>2
<1>3. Counts'
  BY <1>1, <1>2, CountsGiven DEF IInv, Typed
<1>4. stack' \in Seq(Frames) /\ Apart'
  BY <1>1, GivenApart DEF IInv, Typed, Apart
<1> QED
  BY <1>1, <1>2, <1>3, <1>4, GivenApart DEF IInv, Typed

LEMMA ReleaseFailsKeeps ==
  ASSUME IInv, PoolAssumption, NEW l \in Leases, ReleaseThrows(l) \/ ReleaseHalts(l)
  PROVE  IInv'
<1> DEFINE e == lease[l].entry
<1>0. /\ lease[l].state = "held" /\ lease' = [lease EXCEPT ![l].state = "released"]
      /\ "release" \in Failing /\ UNCHANGED <<paused, watchers, queued>>
  BY DEF ReleaseThrows, ReleaseHalts
<1>1. e \in Entries /\ Sessions(e) \ {l} \subseteq Leases
  BY <1>0 DEF IInv, Counts, Sessions
<1>2. Links' /\ \A d \in Entries : entry'[d].live => entry[d].live /\ entry'[d].leases = entry[d].leases
  <2>1. CASE ReleaseThrows(l)
    BY <2>1, LinksStay DEF ReleaseThrows, IInv
  <2>2. CASE ReleaseHalts(l)
    <3>1. entry[e].live /\ Destroy(entry[e].key, e)
      BY <2>2 DEF ReleaseHalts
    <3>2. entry[e].key \in Chains /\ entries[entry[e].key] = e
      BY <1>1, <3>1, LiveInMap DEF IInv
    <3>3. Links'
      BY <1>1, <3>1, <3>2, DestroyKeeps DEF IInv
    <3> QED
      BY <1>1, <3>1, <3>3 DEF Destroy, IInv, Links, Closed
  <2> QED
    BY <2>1, <2>2
<1>3. Counts'
  <2>1. \A k \in Leases : lease'[k].state # "free" => lease'[k].entry \in Entries
    BY <1>0, <1>1 DEF IInv, Typed, LeaseType, Counts
  <2>2. ASSUME NEW d \in Entries
        PROVE  Sessions(d)' \subseteq Sessions(d)
    BY <1>0 DEF Sessions, IInv, Typed, LeaseType
  <2>3. \A d \in Entries : entry[d].leases \in Nat
    BY DEF IInv, Links, EntryType
  <2> QED
    BY <1>0, <1>2, <2>1, <2>2, <2>3, CountsOver DEF IInv
<1>4. stack' \in Seq(Frames) /\ Apart'
  <2>1. Quiet(stack, stack')
    <3>1. CASE ReleaseThrows(l)
      BY <3>1 DEF ReleaseThrows, Quiet, IInv, Typed
    <3>2. CASE ReleaseHalts(l)
      BY <1>1, <3>2, QuietTellHalt DEF ReleaseHalts, IInv, Typed
    <3> QED
      BY <3>1, <3>2
  <2> QED
    BY <1>0, <2>1, GivenApart, ApartKept DEF IInv
<1> QED
  BY <1>0, <1>2, <1>3, <1>4, GivenApart DEF IInv, Typed

\* A release that the follow's end throws out of gives the lease back all the same.
LEMMA ReleaseDropsKeeps ==
  ASSUME IInv, PoolAssumption, NEW l \in Leases, ReleaseDrops(l)
  PROVE  IInv'
<1> DEFINE e == lease[l].entry
           c == entry[e].key
           left == entry[e].leases - 1
           r == Dropped([entry[e] EXCEPT !.leases = left, !.cut = TRUE])
<1>1. /\ lease[l].state = "held" /\ entry[e].live
      /\ lease' = [lease EXCEPT ![l].state = "released"]
      /\ Put(c, e, r, statuses[c])
      /\ UNCHANGED <<reported, paused, watchers, queued, stack>>
  BY DEF ReleaseDrops
<1>2. e \in Entries /\ left \in Nat
  BY <1>1, HeldIsCounted DEF IInv
<1>3. /\ entry[e] \in EntryType /\ c \in Chains /\ entries[c] = e
      /\ statuses[c] = entry[e].laneStatus
  BY <1>1, <1>2, LiveInMap DEF IInv
<1>4. /\ r \in EntryType /\ r.live /\ r.key = c /\ statuses[c] = r.laneStatus /\ r.leases = left
  <2>1. PICK x : x = [entry[e] EXCEPT !.leases = left, !.cut = TRUE]
    OBVIOUS
  <2>2. /\ x \in EntryType /\ x.live /\ x.key = c /\ statuses[c] = x.laneStatus /\ x.leases = left
    BY <1>1, <1>2, <1>3, <2>1 DEF EntryType
  <2> QED
    BY <2>1, <2>2, SyncedIs
<1> HIDE DEF r
<1>5. Links'
  BY <1>1, <1>2, <1>3, <1>4, PutKeeps DEF IInv, Links
<1>6. \A d \in Entries : entry'[d].live =>
        entry[d].live /\ entry'[d].leases = IF d = e THEN entry[d].leases - 1 ELSE entry[d].leases
  BY <1>1, <1>2, <1>4 DEF Put, IInv, Links
<1>7. Counts'
  BY <1>1, <1>6, CountsGiven DEF IInv, Typed
<1>8. stack' \in Seq(Frames) /\ Apart'
  BY <1>1, GivenApart DEF IInv, Typed, Apart
<1> QED
  BY <1>1, <1>5, <1>7, <1>8, GivenApart DEF IInv, Typed

\* A step that leaves of each entry what its chain and its leases are known by.
LEMMA AlikeKeeps ==
  ASSUME IInv, PoolAssumption, entry' \in [Entries -> EntryType],
         \A d \in Entries : /\ entry'[d].live = entry[d].live
                            /\ entry'[d].key = entry[d].key
                            /\ entry'[d].leases = entry[d].leases
                            /\ entry'[d].laneStatus = entry[d].laneStatus
                            /\ entry'[d].destroyTimer = entry[d].destroyTimer
                            /\ entry'[d].watchFollow => entry[d].watchFollow,
         NEW t, Quiet(stack, t), stack' = t,
         UNCHANGED <<entries, statuses, reported, paused, watchers, lease, queued>>
  PROVE  IInv'
<1>1. DeadIsIdle' /\ \A d \in Entries : entry'[d].live => entry'[d].key \in Chains
  BY DEF IInv, Links, DeadIsIdle
<1>2. OneEntryPerChain' /\ StatusIsCurrent'
  BY DEF IInv, Links, OneEntryPerChain, StatusIsCurrent, LiveEntries
<1>3. Links'
  BY <1>1, <1>2 DEF IInv, Links
<1>4. Counts'
  BY CountsKept DEF IInv
<1>5. stack' \in Seq(Frames) /\ Apart'
  BY ApartKept DEF IInv
<1> QED
  BY <1>3, <1>4, <1>5 DEF IInv, Typed

\* A step that writes a live entry back with the count it had.
LEMMA LiveWritten ==
  ASSUME IInv, PoolAssumption, NEW e \in Entries, entry[e].live,
         NEW r \in EntryType, r.live, r.key = entry[e].key, r.leases = entry[e].leases,
         NEW status, status = r.laneStatus,
         NEW t, Quiet(stack, t), stack' = t, queued' \subseteq Entries,
         UNCHANGED <<paused, watchers, lease>>,
         \/ Update(entry[e].key, e, r, status)
         \/ Idle(entry[e].key, e, r, status)
         \/ Put(entry[e].key, e, r, status) /\ reported' \in [Chains -> ActivityType]
  PROVE  IInv'
<1> DEFINE c == entry[e].key
           got == Got(e, r, status)
<1>1. c \in Chains /\ entries[c] = e
  BY LiveInMap DEF IInv
<1>2. Sound(c, got)
  BY <1>1 DEF Sound, Got
<1>3. got.entry = e /\ got.now = r /\ got.status = status
  BY DEF Got
<1> HIDE DEF c, got
<1>4. \/ Update(c, got.entry, got.now, got.status)
      \/ Idle(c, got.entry, got.now, got.status)
      \/ Put(c, got.entry, got.now, got.status) /\ reported' \in [Chains -> ActivityType]
  BY <1>3 DEF c
<1> QED
  BY <1>1, <1>2, <1>4, WrittenKeeps

\* A live entry whose chain halts.
LEMMA LiveHalts ==
  ASSUME IInv, PoolAssumption, NEW e \in Entries, entry[e].live,
         Destroy(entry[e].key, e), NEW s, Quiet(stack, s),
         stack' = s \/ stack' = TellHalt(s, Sessions(e)),
         UNCHANGED <<paused, watchers, lease, queued>>
  PROVE  IInv'
<1>1. entry[e].key \in Chains /\ entries[entry[e].key] = e
  BY LiveInMap DEF IInv
<1>2. Quiet(stack, stack')
  <2>1. Sessions(e) \in SUBSET Leases /\ s \in Seq(Frames)
    BY DEF Sessions, Quiet
  <2> QED
    BY <2>1, QuietTellHalt, QuietTrans
<1> QED
  BY <1>1, <1>2, DestroyTells

\* A step that leaves the chains and the leases alone.
LEMMA ChainsStay ==
  ASSUME IInv, PoolAssumption, UNCHANGED <<entries, entry, statuses, reported, lease>>,
         NEW t, Quiet(stack, t), stack' = t,
         queued' \subseteq Entries, paused' \in BOOLEAN, watchers' \subseteq Watchers
  PROVE  IInv'
<1>1. Links'
  BY LinksStay DEF IInv
<1>2. Counts'
  BY CountsKept DEF IInv
<1>3. stack' \in Seq(Frames) /\ Apart'
  BY ApartKept DEF IInv
<1> QED
  BY <1>1, <1>2, <1>3 DEF IInv, Typed

LEMMA TimersKeep ==
  ASSUME IInv, PoolAssumption, NEW e \in Entries, CountDown(e) \/ DestroyTimerFires(e)
  PROVE  IInv'
<1>0. Quiet(stack, stack)
  BY DEF Quiet, IInv, Typed
<1>1. CASE CountDown(e)
  <2>0. queued' \subseteq Entries
    BY <1>1 DEF CountDown, IInv, Typed
  <2>1. CASE Idles(entry[e])
    <3>1. entry[e].live /\ entry[e] \in EntryType /\ statuses[entry[e].key] = entry[e].laneStatus
      BY <2>1, LiveInMap DEF Idles, IInv
    <3> QED
      BY <1>0, <1>1, <2>0, <2>1, <3>1, LiveWritten DEF CountDown
  <2>2. CASE ~Idles(entry[e])
    BY <1>0, <1>1, <2>0, <2>2, ChainsStay DEF CountDown, IInv, Typed
  <2> QED
    BY <2>1, <2>2
<1>2. CASE DestroyTimerFires(e)
  <2>1. entry[e].live
    BY <1>2 DEF DestroyTimerFires, IInv, Links, DeadIsIdle, Closed
  <2> QED
    BY <1>0, <1>2, <2>1, LiveHalts DEF DestroyTimerFires
<1> QED
  BY <1>1, <1>2

LEMMA TransportsKeep ==
  ASSUME IInv, PoolAssumption, NEW e \in Entries,
         \/ \E status \in Statuses : LaneStatus(e, status)
         \/ \E following \in BOOLEAN : WatchFollowing(e, following)
         \/ LaneHalts(e)
  PROVE  IInv'
<1>0. Quiet(stack, stack) /\ queued \subseteq Entries
  BY DEF Quiet, IInv, Typed
<1>1. entry[e].live /\ entry[e] \in EntryType /\ statuses[entry[e].key] = entry[e].laneStatus
  BY LiveInMap DEF LaneStatus, WatchFollowing, LaneHalts, IInv
<1>2. ASSUME NEW status \in Statuses, LaneStatus(e, status)
      PROVE  IInv'
  <2> DEFINE r == [entry[e] EXCEPT !.laneStatus = status]
  <2>1. /\ r \in EntryType /\ r.live /\ r.key = entry[e].key /\ r.leases = entry[e].leases
        /\ status = r.laneStatus
    BY <1>1 DEF EntryType
  <2>2. Update(entry[e].key, e, r, status) /\ UNCHANGED <<paused, watchers, lease, queued, stack>>
    BY <1>2 DEF LaneStatus
  <2> HIDE DEF r
  <2> QED
    BY <1>0, <1>1, <2>1, <2>2, LiveWritten
<1>3. ASSUME NEW following \in BOOLEAN, WatchFollowing(e, following)
      PROVE  IInv'
  <2> DEFINE r == [entry[e] EXCEPT !.following = following]
             status == statuses[entry[e].key]
  <2>1. /\ r \in EntryType /\ r.live /\ r.key = entry[e].key /\ r.leases = entry[e].leases
        /\ status = r.laneStatus
    BY <1>1 DEF EntryType
  <2>2. Update(entry[e].key, e, r, status) /\ UNCHANGED <<paused, watchers, lease, queued, stack>>
    BY <1>3 DEF WatchFollowing
  <2> HIDE DEF r, status
  <2> QED
    BY <1>0, <1>1, <2>1, <2>2, LiveWritten
<1>4. CASE LaneHalts(e)
  BY <1>0, <1>1, <1>4, LiveHalts DEF LaneHalts
<1> QED
  BY <1>2, <1>3, <1>4

LEMMA TellsKeep ==
  ASSUME IInv, PoolAssumption, Return \/ \E l \in Leases : TellLease(l)
  PROVE  IInv'
<1>0. stack \in Seq(Frames) /\ stack # <<>> /\ Top \in Frames /\ Call = Top.call
  BY TopFrame DEF Return, TellLease, IInv, Typed, LoopCalls
<1>1. CASE Return
  <2>1. Quiet(stack, Pop(stack))
    BY <1>0, QuietPop
  <2> QED
    BY <1>1, <2>1, ChainsStay DEF Return, IInv, Typed
<1>2. ASSUME NEW l \in Leases, TellLease(l)
      PROVE  IInv'
  <2> DEFINE f == [Top EXCEPT !.todo = @ \ {l}]
             n == Len(stack)
  <2>1. Top \in [call: {"halt"}, todo: SUBSET Leases]
    BY <1>0, <1>2 DEF TellLease, Frames, LoopCalls
  <2>2. f \in Frames /\ f.call # "acquire"
    BY <2>1 DEF Frames
  <2>3. stack' = [stack EXCEPT ![n] = f]
    <3>1. n \in DOMAIN stack /\ Top = stack[n]
      BY <1>0 DEF Top
    <3>2. stack' = [stack EXCEPT ![n].todo = @ \ {l}]
      BY <1>2 DEF TellLease
    <3> HIDE DEF n
    <3> QED
      BY <3>1, <3>2
  <2> HIDE DEF f
  <2>4. Quiet(stack, stack')
    BY <1>0, <2>2, <2>3, QuietTop
  <2>5. /\ lease' \in [Leases -> LeaseType]
        /\ \A k \in Leases : lease'[k].state = lease[k].state /\ lease'[k].entry = lease[k].entry
    BY <1>2 DEF TellLease, IInv, Typed, LeaseType
  <2>6. UNCHANGED <<entries, entry, statuses, reported, paused, watchers, queued>>
    BY <1>2 DEF TellLease
  <2>7. Links'
    BY <2>6, LinksStay DEF IInv
  <2>8. Counts'
    BY <2>5, <2>6, CountsKept DEF IInv
  <2>9. stack' \in Seq(Frames) /\ Apart'
    BY <2>4, <2>5, ApartKept DEF IInv
  <2> QED
    BY <2>5, <2>6, <2>7, <2>8, <2>9 DEF IInv, Typed
<1> QED
  BY <1>1, <1>2

LEMMA LoopsKeep ==
  ASSUME IInv, PoolAssumption, NEW e \in Entries,
         PauseEntry(e) \/ ResumeEntry(e) \/ WatchEntry(e) \/ UnwatchEntry(e)
  PROVE  IInv'
<1>0. /\ Quiet(stack, Visited(e)) /\ Quiet(stack, Skipped(e)) /\ queued \subseteq Entries
      /\ queued' = queued /\ UNCHANGED <<paused, watchers, lease>>
  BY QuietLoop DEF PauseEntry, ResumeEntry, WatchEntry, UnwatchEntry, LoopCalls, IInv, Typed
<1> DEFINE c == entry[e].key
<1>1. entry[e].live => entry[e] \in EntryType /\ statuses[c] = entry[e].laneStatus
  BY LiveInMap DEF IInv
<1>2. ASSUME entry[e].live, Destroy(c, e), stack' = TellHalt(Visited(e), Sessions(e))
      PROVE  IInv'
  BY <1>0, <1>2, LiveHalts
<1>3. ASSUME stack' = Skipped(e), UNCHANGED <<entries, entry, statuses, reported>>
      PROVE  IInv'
  BY <1>0, <1>3, ChainsStay DEF IInv, Typed
<1>4. ASSUME entry[e].live, NEW r \in EntryType, r.live, r.key = c, r.leases = entry[e].leases,
             NEW status, status = r.laneStatus, stack' = Visited(e),
             \/ Update(c, e, r, status)
             \/ Put(c, e, r, status) /\ (Report(c, r, status) \/ UNCHANGED reported)
      PROVE  IInv'
  <2>1. Links /\ c \in Chains /\ status \in Statuses
    BY <1>4, LiveInMap DEF IInv, EntryType
  <2>2. Put(c, e, r, status) => reported' \in [Chains -> ActivityType]
    BY <1>4, <2>1, ReportTyped DEF Update
  <2> HIDE DEF c
  <2> QED
    BY <1>0, <1>4, <2>2, LiveWritten DEF c
<1>5. CASE PauseEntry(e)
  <2> DEFINE r == [entry[e] EXCEPT !.open = FALSE, !.laneStatus = "disconnected",
                                   !.following = @ /\ ~entry[e].watchFollow]
  <2>1. entry[e].live => /\ r \in EntryType /\ r.live /\ r.key = c /\ r.leases = entry[e].leases
                         /\ "disconnected" = r.laneStatus
    BY <1>1 DEF EntryType, Statuses
  <2>2. \/ /\ ~entry[e].live /\ stack' = Skipped(e)
           /\ UNCHANGED <<entries, entry, statuses, reported>>
        \/ entry[e].live /\ Update(c, e, r, "disconnected") /\ stack' = Visited(e)
        \/ entry[e].live /\ Destroy(c, e) /\ stack' = TellHalt(Visited(e), Sessions(e))
    BY <1>5 DEF PauseEntry
  <2> HIDE DEF r, c
  <2> QED
    BY <1>2, <1>3, <1>4, <2>1, <2>2
<1>6. CASE ResumeEntry(e)
  <2>1. CASE ~(entry[e].live /\ entry[e].leases > 0)
    BY <1>3, <1>6, <2>1 DEF ResumeEntry
  <2>2. CASE entry[e].live /\ Destroy(c, e) /\ stack' = TellHalt(Visited(e), Sessions(e))
    BY <1>2, <2>2
  <2>3. CASE /\ entry[e].live /\ entry' = [entry EXCEPT ![e].open = TRUE]
             /\ stack' = Visited(e) /\ UNCHANGED <<entries, statuses, reported>>
    <3>1. /\ entry' \in [Entries -> EntryType]
          /\ \A d \in Entries : /\ entry'[d].live = entry[d].live
                                /\ entry'[d].key = entry[d].key
                                /\ entry'[d].leases = entry[d].leases
                                /\ entry'[d].laneStatus = entry[d].laneStatus
                                /\ entry'[d].destroyTimer = entry[d].destroyTimer
                                /\ entry'[d].watchFollow = entry[d].watchFollow
      <4>1. entry \in [Entries -> EntryType] /\ entry[e] \in EntryType
        BY DEF IInv, Links
      <4>2. PICK x : x = [entry[e] EXCEPT !.open = TRUE]
        OBVIOUS
      <4>3. /\ x \in EntryType /\ x.live = entry[e].live /\ x.key = entry[e].key
            /\ x.leases = entry[e].leases /\ x.laneStatus = entry[e].laneStatus
            /\ x.destroyTimer = entry[e].destroyTimer /\ x.watchFollow = entry[e].watchFollow
        BY <4>1, <4>2 DEF EntryType
      <4>4. entry' = [entry EXCEPT ![e] = x]
        BY <2>3, <4>2
      <4> QED
        BY <4>1, <4>3, <4>4
    <3> QED
      BY <1>0, <2>3, <3>1, AlikeKeeps
  <2> QED
    BY <1>6, <2>1, <2>2, <2>3 DEF ResumeEntry
<1>7. CASE WatchEntry(e)
  <2> DEFINE opens == entry[e].leases > 0 /\ ~entry[e].watchFollow
             heard == [entry[e] EXCEPT !.cut = @ /\ entry[e].leases = 0]
             r == [heard EXCEPT !.watchFollow = @ \/ opens]
  <2>1. entry[e].live => \A x \in {heard, r} :
          /\ x \in EntryType /\ x.live /\ x.key = c /\ x.leases = entry[e].leases
          /\ statuses[c] = x.laneStatus
          /\ Activity(x, statuses[c]) = Activity(entry[e], statuses[c])
    BY <1>1 DEF EntryType, Activity
  <2>2. \/ /\ ~entry[e].live /\ stack' = Skipped(e)
           /\ UNCHANGED <<entries, entry, statuses, reported>>
        \/ /\ entry[e].live /\ Report(c, entry[e], statuses[c]) /\ stack' = Visited(e)
           /\ Put(c, e, r, statuses[c]) \/ Put(c, e, heard, statuses[c])
        \/ entry[e].live /\ Destroy(c, e) /\ stack' = TellHalt(Visited(e), Sessions(e))
    BY <1>7 DEF WatchEntry
  <2> HIDE DEF r, heard
  <2>3. entry[e].live /\ Report(c, entry[e], statuses[c])
          => Report(c, r, statuses[c]) /\ Report(c, heard, statuses[c])
    BY <2>1 DEF Report
  <2>4. ASSUME entry[e].live, NEW x \in {heard, r}, Put(c, e, x, statuses[c]), Report(c, entry[e], statuses[c]),
               stack' = Visited(e)
        PROVE  IInv'
    <3>1. Report(c, x, statuses[c])
      BY <2>3, <2>4
    <3> HIDE DEF c
    <3> QED
      BY <1>4, <2>1, <2>4, <3>1
  <2> HIDE DEF c
  <2> QED
    BY <1>2, <1>3, <2>2, <2>4
<1>8. CASE UnwatchEntry(e)
  <2>1. CASE ~entry[e].watchFollow
    BY <1>3, <1>8, <2>1 DEF UnwatchEntry
  <2>2. CASE entry[e].watchFollow
    <3>1. entry[e].live
      BY <2>2 DEF IInv, Links, DeadIsIdle
    <3>2. CASE Destroy(c, e) /\ stack' = TellHalt(Visited(e), Sessions(e))
      BY <1>2, <3>1, <3>2
    <3>3. CASE Put(c, e, Synced(entry[e]), statuses[c]) /\ stack' = Visited(e) /\ UNCHANGED reported
      <4>1. PICK r : r = Synced(entry[e])
        OBVIOUS
      <4>2. /\ r \in EntryType /\ r.live /\ r.key = c /\ r.leases = entry[e].leases
            /\ statuses[c] = r.laneStatus
        BY <1>1, <3>1, <4>1, SyncedIs
      <4> HIDE DEF c
      <4> QED
        BY <1>4, <3>1, <3>3, <4>1, <4>2
    <3>4. CASE /\ entry' = [f \in Entries |->
                             IF f = e THEN Dropped(entry[e])
                             ELSE [entry[f] EXCEPT !.cut = @ \/ (f \in Top.todo /\ entry[f].live)]]
               /\ stack' = Pop(stack) /\ UNCHANGED <<entries, statuses, reported>>
      <4>1. ASSUME NEW d \in Entries
            PROVE  /\ entry'[d] \in EntryType
                   /\ entry'[d].live = entry[d].live
                   /\ entry'[d].key = entry[d].key
                   /\ entry'[d].leases = entry[d].leases
                   /\ entry'[d].laneStatus = entry[d].laneStatus
                   /\ entry'[d].destroyTimer = entry[d].destroyTimer
                   /\ entry'[d].watchFollow => entry[d].watchFollow
        <5>1. entry[d] \in EntryType
          BY DEF IInv, Links
        <5>2. PICK cut \in BOOLEAN : cut = (entry[d].cut \/ (d \in Top.todo /\ entry[d].live))
          BY DEF EntryType
        <5>3. entry'[d] = Dropped(entry[d]) \/ entry'[d] = [entry[d] EXCEPT !.cut = cut]
          BY <3>4, <5>2
        <5> QED
          BY <5>1, <5>3 DEF EntryType, Dropped
      <4>2. entry' \in [Entries -> EntryType]
        BY <3>4, <4>1
      <4>3. Quiet(stack, Pop(stack))
        BY <1>8, TopFrame, QuietPop DEF UnwatchEntry, IInv, Typed
      <4> QED
        BY <1>0, <3>4, <4>1, <4>2, <4>3, AlikeKeeps
    <3> QED
      BY <1>8, <2>2, <3>2, <3>3, <3>4 DEF UnwatchEntry
  <2> QED
    BY <2>1, <2>2
<1> QED
  BY <1>5, <1>6, <1>7, <1>8

LEMMA OwnersKeep ==
  ASSUME IInv, PoolAssumption, OwnerStep
  PROVE  IInv'
<1>0. stack \in Seq(Frames) /\ Quiet(stack, stack)
  BY DEF IInv, Typed, Quiet
<1>1. \A call \in LoopCalls : Quiet(stack, Push(stack, Loop(call, LiveEntries)))
  BY <1>0, QuietPushLoop DEF LiveEntries
<1>2. CASE Pause \/ Resume
  BY <1>1, <1>2, ChainsStay DEF Pause, Resume, LoopCalls, IInv, Typed
<1>3. CASE \E w \in Watchers : Watch(w)
  BY <1>1, <1>3, ChainsStay DEF Watch, LoopCalls, IInv, Typed
<1>4. CASE \E w \in Watchers : Unwatch(w)
  <2>1. /\ UNCHANGED <<entries, entry, statuses, paused, lease, queued>>
        /\ watchers' \subseteq Watchers
        /\ stack' = stack \/ stack' = Push(stack, Loop("unwatch", LiveEntries))
        /\ reported' = reported \/ reported' = [c \in Chains |-> NoActivity]
    BY <1>4 DEF Unwatch, IInv, Typed
  <2>2. NoActivity \in ActivityType
    BY DEF NoActivity, ActivityType, Statuses
  <2>3. reported' \in [Chains -> ActivityType]
    BY <2>1, <2>2 DEF IInv, Links
  <2>4. Links'
    BY <2>1, <2>3 DEF IInv, Links, DeadIsIdle, OneEntryPerChain, StatusIsCurrent, LiveEntries
  <2>5. Counts'
    BY <2>1, CountsKept DEF IInv
  <2>6. Quiet(stack, stack')
    BY <1>0, <1>1, <2>1 DEF LoopCalls
  <2> QED
    BY <2>1, <2>4, <2>5, <2>6, ApartKept DEF IInv, Typed
<1>5. CASE DisconnectAll
  <2>1. Links'
    BY <1>5, ClosedType DEF DisconnectAll, Links, DeadIsIdle, Closed, OneEntryPerChain,
       LiveEntries, StatusIsCurrent, NoActivity, ActivityType, Statuses
  <2>2. /\ lease' \in [Leases -> LeaseType]
        /\ \A l \in Leases : lease'[l].state = lease[l].state /\ lease'[l].entry = lease[l].entry
    BY <1>5 DEF DisconnectAll, IInv, Typed, LeaseType
  <2>3. \A e \in Entries : ~entry'[e].live
    BY <1>5 DEF DisconnectAll, Closed
  <2>4. Counts'
    BY <2>2, <2>3, CountsKept DEF IInv
  <2>5. UNCHANGED <<paused, watchers, queued, stack>>
    BY <1>5 DEF DisconnectAll
  <2> QED
    BY <1>0, <2>1, <2>2, <2>4, <2>5, ApartKept DEF IInv, Typed
<1> QED
  BY <1>2, <1>3, <1>4, <1>5 DEF OwnerStep

----------------------------------------------------------------------------
(* The theorems. *)

LEMMA InitInvariant ==
  ASSUME PoolAssumption, Init
  PROVE  IInv
<1>1. Typed
  <2>1. <<>> \in Seq(Frames)
    OBVIOUS
  <2> QED
    BY <2>1 DEF Init, Typed, LeaseType
<1>2. Links
  BY ClosedType DEF Init, Links, DeadIsIdle, Closed, OneEntryPerChain, LiveEntries,
     StatusIsCurrent, NoActivity, ActivityType, Statuses
<1>3. Counts
  BY DEF Init, Counts, LeasesCounted, LiveEntries, Closed
<1>4. Apart
  BY DEF Init, Apart, Awaits
<1> QED
  BY <1>1, <1>2, <1>3, <1>4 DEF IInv

LEMMA NextInvariant ==
  ASSUME PoolAssumption, IInv, [Next]_vars
  PROVE  IInv'
<1>1. CASE UNCHANGED vars \/ \E l \in Leases : ReleaseAgain(l)
  <2>1. UNCHANGED vars
    BY <1>1 DEF ReleaseAgain
  <2> QED
    BY <2>1, ChainsStay DEF vars, IInv, Typed, Quiet
<1>2. CASE RuntimeStep
  BY <1>2, ContinueKeeps, TellsKeep, TimersKeep, LoopsKeep DEF RuntimeStep
<1>3. CASE ConsumerStep
  BY <1>1, <1>3, ConnectKeeps, ReleaseKeeps, ReleaseDropsKeeps, ReleaseFailsKeeps DEF ConsumerStep
<1>4. CASE TransportStep
  BY <1>4, TransportsKeep DEF TransportStep
<1>5. CASE OwnerStep
  BY <1>5, OwnersKeep
<1> QED
  BY <1>1, <1>2, <1>3, <1>4, <1>5 DEF Next

\* In every reachable state the pool's record is well formed and agrees with itself
\* (createChainPool).
THEOREM PoolInvariant == Spec => []IInv
<1>1. Init => IInv
  BY InitInvariant, PoolAssumption
<1>2. IInv /\ [Next]_vars => IInv'
  BY NextInvariant, PoolAssumption
<1> QED
  BY <1>1, <1>2, PTL DEF Spec

\* Every variable keeps its type: in particular no entry's count of leases goes below zero,
\* whatever consumers release twice, late or from inside a halt (disconnect).
THEOREM PoolTyped == Spec => []TypeOK
<1>1. IInv => TypeOK
  BY DEF IInv, Typed, Links, TypeOK
<1> QED
  BY <1>1, PoolInvariant, PTL

\* No chain is ever open twice, however its entries halt and are rebuilt (build, destroy).
THEOREM PoolOneEntryPerChain == Spec => []OneEntryPerChain
<1>1. IInv => OneEntryPerChain
  BY DEF IInv, Links
<1> QED
  BY <1>1, PoolInvariant, PTL

\* A live entry counts exactly the leases consumers hold on it, or more where a session's
\* disconnect threw: a late or second release of an earlier entry's lease is not counted
\* against the chain's present one (lease, disconnect).
THEOREM PoolLeasesCounted == Spec => []LeasesCounted
<1>1. IInv => LeasesCounted
  BY DEF IInv, Counts
<1> QED
  BY <1>1, PoolInvariant, PTL

\* The status a status listener reads is that of the chain's live entry, and disconnected
\* when it has none, between any two steps of any calls (destroy, applyStatus).
THEOREM PoolStatusIsCurrent == Spec => []StatusIsCurrent
<1>1. IInv => StatusIsCurrent
  BY DEF IInv, Links
<1> QED
  BY <1>1, PoolInvariant, PTL

----------------------------------------------------------------------------
(* The countdown.  Where a chain that was paused always opens again, no call *)
(* to acquire() is ever interrupted, and a countdown never meets a lease.    *)

\* No acquire is waiting for a halt it caused to be told.
NoAcquire == \A l \in Leases \cup {None} : Awaits(stack, l) = {}

LEMMA NoAcquireHalts ==
  ASSUME "resume" \notin Failing
  PROVE  \A c, l : ~AcquireHalts(c, l)
  BY DEF AcquireHalts, CanFailToReopen

LEMMA NoContinue ==
  ASSUME IInv, NoAcquire
  PROVE  ~AcquireContinues
<1> SUFFICES ASSUME AcquireContinues PROVE FALSE
  OBVIOUS
<1>1. /\ Top \in Frames /\ Top.call = "acquire" /\ Len(stack) \in DOMAIN stack
  BY TopFrame DEF AcquireContinues, IInv, Typed
<1>2. Top.lease \in Leases \cup {None}
  BY <1>1 DEF Frames, LoopCalls
<1>3. Len(stack) \in Awaits(stack, Top.lease)
  BY <1>1 DEF Awaits, Top
<1> QED
  BY <1>2, <1>3 DEF NoAcquire

\* What every step that is not an interrupted acquire does to the stack.
LEMMA StepIsQuiet ==
  ASSUME IInv, PoolAssumption, Next, ~AcquireContinues, \A c, l : ~AcquireHalts(c, l)
  PROVE  Quiet(stack, stack')
<1>0. /\ stack \in Seq(Frames) /\ Quiet(stack, stack)
      /\ \A told \in SUBSET Leases : Quiet(stack, TellHalt(stack, told))
      /\ \A e : Sessions(e) \in SUBSET Leases
  BY QuietTellHalt DEF IInv, Typed, Quiet, Sessions
<1>1. ASSUME NEW e \in Entries,
             PauseEntry(e) \/ ResumeEntry(e) \/ WatchEntry(e) \/ UnwatchEntry(e)
      PROVE  Quiet(stack, stack')
  <2>0. Call \in LoopCalls
    BY <1>1 DEF PauseEntry, ResumeEntry, WatchEntry, UnwatchEntry, LoopCalls
  <2>1. Quiet(stack, Visited(e)) /\ Quiet(stack, Skipped(e))
    BY <1>0, <2>0, QuietLoop
  <2>2. Quiet(stack, TellHalt(Visited(e), Sessions(e)))
    BY <1>0, <2>1, QuietTellHalt, QuietTrans DEF Quiet
  <2>3. Quiet(stack, Pop(stack))
    BY <1>0, <2>0, QuietPop, TopFrame DEF LoopCalls
  <2>4. \/ stack' \in {Visited(e), Skipped(e), Pop(stack)}
        \/ stack' = TellHalt(Visited(e), Sessions(e))
    BY <1>1 DEF PauseEntry, ResumeEntry, WatchEntry, UnwatchEntry
  <2> QED
    BY <2>1, <2>2, <2>3, <2>4
<1>2. CASE Return
  BY <1>0, <1>2, QuietPop, TopFrame DEF Return, LoopCalls
<1>3. ASSUME NEW l \in Leases, TellLease(l)
      PROVE  Quiet(stack, stack')
  <2> DEFINE f == [Top EXCEPT !.todo = @ \ {l}]
             n == Len(stack)
  <2>1. stack # <<>> /\ Top \in Frames /\ Call = Top.call
    BY <1>0, <1>3, TopFrame DEF TellLease
  <2>2. Top \in [call: {"halt"}, todo: SUBSET Leases]
    BY <2>1, <1>3 DEF TellLease, Frames, LoopCalls
  <2>3. f \in Frames /\ f.call # "acquire"
    BY <2>2 DEF Frames
  <2>4. stack' = [stack EXCEPT ![n] = f]
    <3>1. n \in DOMAIN stack /\ Top = stack[n] /\ stack' = [stack EXCEPT ![n].todo = @ \ {l}]
      BY <1>0, <1>3, <2>1 DEF Top, TellLease
    <3> HIDE DEF n
    <3> QED
      BY <3>1
  <2> HIDE DEF f
  <2> QED
    BY <1>0, <2>1, <2>3, <2>4, QuietTop
<1>4. ASSUME NEW call \in LoopCalls, NEW over \in SUBSET Entries
      PROVE  Quiet(stack, Push(stack, Loop(call, over)))
  BY <1>0, QuietPushLoop
<1>5. CASE OwnerStep
  <2>1. LiveEntries \in SUBSET Entries
    BY DEF LiveEntries
  <2>2. stack' = stack \/ \E call \in LoopCalls : stack' = Push(stack, Loop(call, LiveEntries))
    BY <1>5 DEF OwnerStep, Pause, Resume, Watch, Unwatch, DisconnectAll, LoopCalls
  <2> QED
    BY <1>0, <1>4, <2>1, <2>2
<1>6. ASSUME NEW c \in Chains, NEW l, Proceed(c, l, Acquired(c), stack)
      PROVE  Quiet(stack, stack')
  <2>1. paused \in BOOLEAN
    BY DEF IInv, Typed
  <2>2. Acquired(c).entry \in Entries
    BY <1>6, <2>1, AcquiredIsSound DEF Proceed, IInv, Sound
  <2>3. {Acquired(c).entry} \in SUBSET Entries
    BY <2>2
  <2>4. \/ stack' = stack
        \/ \E call \in LoopCalls : stack' = Push(stack, Loop(call, {Acquired(c).entry}))
        \/ stack' = TellHalt(stack, Sessions(Acquired(c).entry))
    BY <1>6 DEF Proceed, Take, TakeDrops, TakeThrows, TakeHalts, LoopCalls
  <2> QED
    BY <1>0, <1>4, <2>3, <2>4
<1>7. CASE ConsumerStep
  <2>1. CASE \E l \in Leases : \/ Release(l) \/ ReleaseAgain(l) \/ ReleaseDrops(l)
                               \/ ReleaseThrows(l) \/ ReleaseHalts(l)
    BY <1>0, <2>1 DEF Release, ReleaseAgain, ReleaseDrops, ReleaseThrows, ReleaseHalts, vars
  <2> QED
    BY <1>6, <1>7, <2>1 DEF ConsumerStep, Connect, GetLocalProvider
<1>8. CASE TransportStep
  BY <1>0, <1>8 DEF TransportStep, LaneStatus, WatchFollowing, LaneHalts
<1>9. CASE \E e \in Entries : CountDown(e) \/ DestroyTimerFires(e)
  BY <1>0, <1>9 DEF CountDown, DestroyTimerFires
<1> QED
  BY <1>1, <1>2, <1>3, <1>5, <1>7, <1>8, <1>9 DEF Next, RuntimeStep

\* An entry that counts down is not leased, as far as its own record goes.
Unleased(r) == r.destroyTimer => r.leases = 0

LEMMA UpdateTimes ==
  ASSUME NoCountdownUnderLease, Links, NEW c, NEW e \in Entries, NEW r, Unleased(r), NEW status,
         \/ Put(c, e, r, status) \/ Update(c, e, r, status)
         \/ Destroy(c, e)
         \/ r \in EntryType /\ Idle(c, e, r, status)
  PROVE  NoCountdownUnderLease'
<1>1. CASE Put(c, e, r, status) \/ Update(c, e, r, status)
  BY <1>1 DEF Update, Put, Unleased, NoCountdownUnderLease, Links
<1>2. CASE Destroy(c, e)
  BY <1>2 DEF Destroy, Closed, NoCountdownUnderLease, Links
<1>3. CASE r \in EntryType /\ Idle(c, e, r, status) /\ ~Destroy(c, e)
  <2> DEFINE timed == [r EXCEPT !.destroyTimer = @ \/ (Idles(r) /\ Delay = "finite")]
  <2>1. timed.destroyTimer => timed.leases = 0
    BY <1>3 DEF EntryType, Idles, Unleased
  <2>2. entry' = [entry EXCEPT ![e] = timed]
    BY <1>3 DEF Idle, Update, Put
  <2> HIDE DEF timed
  <2> QED
    BY <2>1, <2>2 DEF NoCountdownUnderLease, Links
<1> QED
  BY <1>1, <1>2, <1>3

LEMMA AcquiredIsUnleased ==
  ASSUME Links, NEW c \in Chains, NEW got, got = Acquired(c)
  PROVE  Unleased(got.now) /\ ~got.now.destroyTimer
<1>1. CASE entries[c] = None
  BY <1>1 DEF Acquired, Build, Got, Built, Closed, Unleased
<1>2. CASE entries[c] # None
  <2> DEFINE x == entry[entries[c]]
             r == [x EXCEPT !.open = @ \/ ~paused, !.destroyTimer = FALSE]
  <2>1. x \in EntryType
    BY <1>2 DEF Links
  <2>2. ~r.destroyTimer
    BY <2>1 DEF EntryType
  <2>3. got.now = r
    BY <1>2 DEF Acquired, Got
  <2> QED
    BY <2>2, <2>3 DEF Unleased
<1> QED
  BY <1>1, <1>2

LEMMA ConsumersTime ==
  ASSUME IInv, PoolAssumption, NoCountdownUnderLease, ConsumerStep, \A c, l : ~AcquireHalts(c, l)
  PROVE  NoCountdownUnderLease'
<1>1. ASSUME NEW c \in Chains, NEW l, NEW got, got = Acquired(c), Proceed(c, l, got, stack)
      PROVE  NoCountdownUnderLease'
  <2>1. paused \in BOOLEAN /\ Links
    BY DEF IInv, Typed
  <2>2. Unleased(got.now) /\ ~got.now.destroyTimer
    BY <1>1, <2>1, AcquiredIsUnleased
  <2>3. got.entry \in Entries /\ got.now \in EntryType
    BY <1>1, <2>1, AcquiredIsSound DEF Proceed, Sound
  <2>4. CASE Take(c, l, got, stack)
    <3> DEFINE r == [got.now EXCEPT !.leases = @ + 1, !.cut = FALSE]
    <3>1. Unleased(r)
      BY <2>2, <2>3 DEF Unleased, EntryType
    <3>2. Update(c, got.entry, r, got.status)
      BY <2>4 DEF Take
    <3> HIDE DEF r
    <3> QED
      BY <2>1, <2>3, <3>1, <3>2, UpdateTimes
  <2>5. CASE TakeDrops(c, got, stack)
    <3> DEFINE r == Dropped([got.now EXCEPT !.leases = @ + 1])
    <3>1. Unleased(r)
      BY <2>2, <2>3 DEF Unleased, EntryType, Dropped
    <3>2. Update(c, got.entry, r, got.status)
      BY <2>5 DEF TakeDrops
    <3> HIDE DEF r
    <3> QED
      BY <2>1, <2>3, <3>1, <3>2, UpdateTimes
  <2> QED
    BY <1>1, <2>1, <2>2, <2>3, <2>4, <2>5, UpdateTimes DEF Proceed, TakeThrows, TakeHalts
<1>2. ASSUME NEW l \in Leases, Release(l)
      PROVE  NoCountdownUnderLease'
  <2> DEFINE e == lease[l].entry
             c == entry[e].key
             left == entry[e].leases - 1
             r == Synced([entry[e] EXCEPT !.leases = left, !.cut = FALSE])
  <2>1. CASE ~entry[e].live
    BY <1>2, <2>1 DEF Release, NoCountdownUnderLease
  <2>2. CASE entry[e].live
    <3>1. e \in Entries /\ left \in Nat /\ entry[e] \in EntryType
      BY <1>2, <2>2, HeldIsCounted DEF Release, IInv, Links
    <3>2. ~entry[e].destroyTimer
      BY <3>1 DEF NoCountdownUnderLease, EntryType
    <3>3. Unleased(r) /\ r \in EntryType
      <4>1. PICK x : x = [entry[e] EXCEPT !.leases = left, !.cut = FALSE]
        OBVIOUS
      <4>2. x \in EntryType /\ ~x.destroyTimer
        BY <3>1, <3>2, <4>1 DEF EntryType
      <4> QED
        BY <4>1, <4>2, SyncedIs DEF Unleased
    <3>4. Idle(c, e, r, statuses[c])
      BY <1>2, <2>2 DEF Release
    <3> HIDE DEF r
    <3> QED
      BY <3>1, <3>3, <3>4, UpdateTimes DEF IInv
  <2> QED
    BY <2>1, <2>2
<1>3. ASSUME NEW l \in Leases, ReleaseAgain(l) \/ ReleaseThrows(l)
      PROVE  NoCountdownUnderLease'
  BY <1>3 DEF ReleaseAgain, ReleaseThrows, vars, NoCountdownUnderLease
<1>5. ASSUME NEW l \in Leases, ReleaseDrops(l)
      PROVE  NoCountdownUnderLease'
  <2> DEFINE e == lease[l].entry
             r == Dropped([entry[e] EXCEPT !.leases = @ - 1, !.cut = TRUE])
  <2>1. e \in Entries /\ entry[e].leases - 1 \in Nat /\ entry[e] \in EntryType
    BY <1>5, HeldIsCounted DEF ReleaseDrops, IInv, Links
  <2>2. ~entry[e].destroyTimer
    BY <2>1 DEF NoCountdownUnderLease, EntryType
  <2>3. Unleased(r)
    BY <2>1, <2>2 DEF Unleased, EntryType, Dropped
  <2>4. Put(entry[e].key, e, r, statuses[entry[e].key])
    BY <1>5 DEF ReleaseDrops
  <2> HIDE DEF r
  <2> QED
    BY <2>1, <2>3, <2>4, UpdateTimes DEF IInv
<1>4. ASSUME NEW l \in Leases, ReleaseHalts(l)
      PROVE  NoCountdownUnderLease'
  <2> DEFINE e == lease[l].entry
  <2>1. e \in Entries /\ Destroy(entry[e].key, e)
    BY <1>4 DEF ReleaseHalts, IInv, Counts
  <2> HIDE DEF e
  <2> QED
    BY <2>1 DEF Destroy, Closed, NoCountdownUnderLease, IInv, Links
<1> QED
  BY <1>1, <1>2, <1>3, <1>4, <1>5 DEF ConsumerStep, Connect, GetLocalProvider

LEMMA OthersTime ==
  ASSUME IInv, NoCountdownUnderLease,
         \/ TransportStep \/ OwnerStep \/ Return
         \/ \E l \in Leases : TellLease(l)
         \/ \E e \in Entries : \/ CountDown(e) \/ DestroyTimerFires(e)
                               \/ PauseEntry(e) \/ ResumeEntry(e)
                               \/ WatchEntry(e) \/ UnwatchEntry(e)
  PROVE  NoCountdownUnderLease'
<1>0. Links
  BY DEF IInv
<1>1. ASSUME NEW e \in Entries
      PROVE  Unleased(entry[e]) /\ entry[e] \in EntryType
  BY <1>0 DEF Unleased, NoCountdownUnderLease, Links
<1>2. ASSUME NEW e \in Entries, NEW status \in Statuses, LaneStatus(e, status)
      PROVE  NoCountdownUnderLease'
  <2> DEFINE r == [entry[e] EXCEPT !.laneStatus = status]
  <2>1. Unleased(r)
    BY <1>1 DEF Unleased, EntryType
  <2> QED
    BY <1>0, <1>2, <2>1, UpdateTimes DEF LaneStatus
<1>3. ASSUME NEW e \in Entries, NEW following \in BOOLEAN, WatchFollowing(e, following)
      PROVE  NoCountdownUnderLease'
  <2> DEFINE r == [entry[e] EXCEPT !.following = following]
  <2>1. Unleased(r)
    BY <1>1 DEF Unleased, EntryType
  <2> QED
    BY <1>0, <1>3, <2>1, UpdateTimes DEF WatchFollowing
<1>4. ASSUME NEW e \in Entries, LaneHalts(e) \/ DestroyTimerFires(e)
      PROVE  NoCountdownUnderLease'
  BY <1>0, <1>1, <1>4, UpdateTimes DEF LaneHalts, DestroyTimerFires
<1>5. ASSUME NEW e \in Entries, CountDown(e)
      PROVE  NoCountdownUnderLease'
  <2>1. CASE Idles(entry[e])
    BY <1>0, <1>1, <1>5, <2>1, UpdateTimes DEF CountDown
  <2> QED
    BY <1>5, <2>1 DEF CountDown, NoCountdownUnderLease
<1>6. ASSUME NEW e \in Entries, PauseEntry(e)
      PROVE  NoCountdownUnderLease'
  <2> DEFINE r == [entry[e] EXCEPT !.open = FALSE, !.laneStatus = "disconnected",
                                   !.following = @ /\ ~entry[e].watchFollow]
  <2>1. Unleased(r)
    BY <1>1 DEF Unleased, EntryType
  <2>2. \/ UNCHANGED entry
        \/ Update(entry[e].key, e, r, "disconnected")
        \/ Destroy(entry[e].key, e)
    BY <1>6 DEF PauseEntry
  <2> HIDE DEF r
  <2> QED
    BY <1>0, <2>1, <2>2, UpdateTimes DEF NoCountdownUnderLease
<1>7. ASSUME NEW e \in Entries, ResumeEntry(e)
      PROVE  NoCountdownUnderLease'
  <2>1. CASE Destroy(entry[e].key, e)
    BY <1>0, <1>1, <2>1, UpdateTimes
  <2>2. CASE UNCHANGED entry \/ entry' = [entry EXCEPT ![e].open = TRUE]
    BY <1>0, <2>2 DEF NoCountdownUnderLease, Links, EntryType
  <2> QED
    BY <1>7, <2>1, <2>2 DEF ResumeEntry
<1>8. ASSUME NEW e \in Entries, WatchEntry(e)
      PROVE  NoCountdownUnderLease'
  <2> DEFINE c == entry[e].key
             opens == entry[e].leases > 0 /\ ~entry[e].watchFollow
             heard == [entry[e] EXCEPT !.cut = @ /\ entry[e].leases = 0]
             r == [heard EXCEPT !.watchFollow = @ \/ opens]
  <2>1. Unleased(r) /\ Unleased(heard)
    BY <1>1 DEF Unleased, EntryType
  <2>2. \/ UNCHANGED entry
        \/ Put(c, e, r, statuses[c])
        \/ Put(c, e, heard, statuses[c])
        \/ Destroy(c, e)
    BY <1>8 DEF WatchEntry
  <2> HIDE DEF r, heard
  <2> QED
    BY <1>0, <1>1, <2>1, <2>2, UpdateTimes DEF NoCountdownUnderLease
<1>11. ASSUME NEW e \in Entries, UnwatchEntry(e)
       PROVE  NoCountdownUnderLease'
  <2>1. Unleased(Synced(entry[e]))
    BY <1>1, SyncedIs DEF Unleased
  <2>2. CASE Destroy(entry[e].key, e)
    BY <1>0, <1>1, <2>2, UpdateTimes
  <2>3. CASE Put(entry[e].key, e, Synced(entry[e]), statuses[entry[e].key])
    BY <1>0, <2>1, <2>3, UpdateTimes
  <2>4. CASE entry' = [f \in Entries |->
                         IF f = e THEN Dropped(entry[e])
                         ELSE [entry[f] EXCEPT !.cut = @ \/ (f \in Top.todo /\ entry[f].live)]]
    <3>1. \A f \in Entries : /\ entry'[f].destroyTimer = entry[f].destroyTimer
                             /\ entry'[f].leases = entry[f].leases
      BY <1>1, <2>4, SyncedIs DEF EntryType
    <3> QED
      BY <3>1 DEF NoCountdownUnderLease
  <2> QED
    BY <1>11, <2>2, <2>3, <2>4 DEF UnwatchEntry, NoCountdownUnderLease
<1>9. CASE OwnerStep
  <2>1. CASE UNCHANGED entry
    BY <2>1 DEF NoCountdownUnderLease
  <2>2. CASE DisconnectAll
    BY <2>2 DEF DisconnectAll, Closed, NoCountdownUnderLease
  <2> QED
    BY <1>9, <2>1, <2>2 DEF OwnerStep, Pause, Resume, Watch, Unwatch
<1>10. CASE Return \/ \E l \in Leases : TellLease(l)
  BY <1>10 DEF Return, TellLease, NoCountdownUnderLease
<1> QED
  BY <1>2, <1>3, <1>4, <1>5, <1>6, <1>7, <1>8, <1>9, <1>10, <1>11 DEF TransportStep

\* What stays true while no reopening fails.
Countdown == IInv /\ NoAcquire /\ NoCountdownUnderLease

LEMMA CountdownKept ==
  ASSUME PoolAssumption, "resume" \notin Failing, Countdown, [Next]_vars
  PROVE  Countdown'
<1>1. IInv'
  BY NextInvariant DEF Countdown
<1>2. ~AcquireContinues /\ \A c, l : ~AcquireHalts(c, l)
  BY NoContinue, NoAcquireHalts DEF Countdown
<1>3. CASE UNCHANGED vars
  BY <1>1, <1>3 DEF Countdown, NoAcquire, NoCountdownUnderLease, vars
<1>4. CASE Next
  <2>1. Quiet(stack, stack')
    BY <1>2, <1>4, StepIsQuiet DEF Countdown
  <2>2. NoAcquire'
    BY <2>1 DEF Countdown, NoAcquire, Quiet
  <2>3. NoCountdownUnderLease'
    BY <1>2, <1>4, ConsumersTime, OthersTime DEF Countdown, Next, RuntimeStep
  <2> QED
    BY <1>1, <2>2, <2>3 DEF Countdown
<1> QED
  BY <1>3, <1>4

\* Where a paused chain always opens again, no countdown ever runs on a leased chain
\* (acquire, idle).  The one way to a countdown under a lease is an acquire() whose reopening
\* failed and which takes the entry a halt handler left behind.
THEOREM PoolNoCountdownUnderLease ==
  ASSUME "resume" \notin Failing
  PROVE  Spec => []NoCountdownUnderLease
<1>1. Init => Countdown
  <2>1. Init => IInv
    BY InitInvariant, PoolAssumption
  <2>2. Init => NoAcquire
    BY DEF Init, NoAcquire, Awaits
  <2>3. Init => NoCountdownUnderLease
    BY DEF Init, NoCountdownUnderLease, Closed
  <2> QED
    BY <2>1, <2>2, <2>3 DEF Countdown
<1>2. Countdown /\ [Next]_vars => Countdown'
  BY CountdownKept, PoolAssumption
<1>3. Countdown => NoCountdownUnderLease
  BY DEF Countdown
<1> QED
  BY <1>1, <1>2, <1>3, PTL DEF Spec

\* Under the same condition a destroy timer that fires closes a chain nobody leases.
THEOREM PoolCountdownCloses ==
  ASSUME "resume" \notin Failing
  PROVE  Spec => CountdownClosesUnleased
<1>1. NoCountdownUnderLease /\ [Next]_vars
        => [\A e \in Entries : DestroyTimerFires(e) => entry[e].leases = 0]_vars
  BY DEF NoCountdownUnderLease, DestroyTimerFires
<1> QED
  BY <1>1, PoolNoCountdownUnderLease, PTL DEF Spec, CountdownClosesUnleased

----------------------------------------------------------------------------
(* Loops.  A pause, a resume or a watch goes over the entries it found, and *)
(* consumers run in between: what such a loop still owes an entry is all    *)
(* that may be missing from it (Underway).                                  *)

\* What stack s has in progress: a loop of some kind that has still to reach entry e, such a
\* loop at all, and an acquire of chain c that waits for the halt it caused to be told.
Looping(s, call, e) == \E i \in DOMAIN s : s[i].call = call /\ e \in s[i].todo
Calling(s, call) == \E i \in DOMAIN s : s[i].call = call
Acquiring(s, c) == \E i \in DOMAIN s : s[i].call = "acquire" /\ s[i].chain = c

\* A connection that should not be open, or should, is one a loop has still to reach; and an
\* acquire that goes on finds its chain gone or open.
Opening ==
  /\ \A e \in Entries : entry[e].live =>
       /\ paused /\ entry[e].open => Looping(stack, "pause", e)
       /\ ~paused /\ entry[e].leases > 0 /\ ~entry[e].open => Looping(stack, "resume", e)
  /\ Calling(stack, "pause") => paused
  /\ Calling(stack, "resume") => ~paused
  /\ \A c \in Chains : Acquiring(stack, c) =>
       ~paused /\ (entries[c] = None \/ entry[entries[c]].open)

\* A call that ends the follow of entry e is on its way to it.
Unwatching(s, e) == Looping(s, "unwatch", e) \/ Looping(s, "sync", e)

\* The watchers' follow of a live entry is wanted, or a call will end it, but for one cut short.
Wanted(r, s, e) == r.watchFollow => r.live /\ r.leases > 0 /\ (watchers # {} \/ r.cut \/ Unwatching(s, e))

\* What the watchers have not heard of chain c is what a loop has still to tell them.
Heard(c) == \/ reported[c] = Current(c)
            \/ entries[c] # None /\ (entry[entries[c]].cut \/ Looping(stack, "watch", entries[c]))

Watching ==
  /\ Calling(stack, "watch") => watchers # {}
  /\ Calling(stack, "unwatch") \/ Calling(stack, "sync") => watchers = {}
  /\ \A e \in Entries : Wanted(entry[e], stack, e)
  /\ \A c \in Chains : IF watchers = {} THEN reported[c] = NoActivity ELSE Heard(c)

Underway == Opening /\ Watching

\* From stack s to t the loops reach no entry but those of `gone`, none starts but those of
\* `new`, and no acquire waits that did not, but for those of `chains`.
Flow(s, t, gone, new, chains) ==
  /\ \A call \in LoopCalls, e \in Entries :
       Looping(s, call, e) /\ <<call, e>> \notin gone => Looping(t, call, e)
  /\ \A call \in LoopCalls : Calling(t, call) => Calling(s, call) \/ call \in new
  /\ \A c \in Chains : Acquiring(t, c) => Acquiring(s, c) \/ c \in chains

LEMMA FlowSame == \A s : Flow(s, s, {}, {}, {})
  BY DEF Flow

LEMMA FlowOn ==
  ASSUME NEW s, NEW t, NEW u, NEW gone, NEW new, NEW chains,
         Flow(s, t, gone, new, chains), Flow(t, u, {}, {}, {})
  PROVE  Flow(s, u, gone, new, chains)
  BY DEF Flow

LEMMA FlowTo ==
  ASSUME NEW s, NEW t, NEW u, NEW gone, NEW new, NEW chains,
         Flow(s, t, {}, {}, {}), Flow(t, u, gone, new, chains)
  PROVE  Flow(s, u, gone, new, chains)
  BY DEF Flow

LEMMA FlowPush ==
  ASSUME NEW s \in Seq(Frames), NEW f \in Frames, NEW u, u = Push(s, f)
  PROVE  /\ f.call = "halt" => Flow(s, u, {}, {}, {})
         /\ f.call \in LoopCalls => /\ Flow(s, u, {}, {f.call}, {})
                                    /\ \A e \in f.todo : Looping(u, f.call, e)
         /\ f.call = "acquire" => Flow(s, u, {}, {}, {f.chain})
<1>1. /\ DOMAIN u = DOMAIN s \cup {Len(s) + 1}
      /\ \A i \in DOMAIN s : u[i] = s[i]
      /\ u[Len(s) + 1] = f /\ Len(s) + 1 \in DOMAIN u
  BY DEF Push
<1>2. \A call, e : Looping(s, call, e) => Looping(u, call, e)
  BY <1>1 DEF Looping
<1>3. \A call : Calling(u, call) => Calling(s, call) \/ call = f.call
  BY <1>1 DEF Calling
<1>4. \A c : Acquiring(u, c) => Acquiring(s, c) \/ (f.call = "acquire" /\ c = f.chain)
  BY <1>1 DEF Acquiring
<1>5. \A e \in f.todo : Looping(u, f.call, e)
  BY <1>1 DEF Looping
<1> QED
  BY <1>2, <1>3, <1>4, <1>5 DEF Flow, LoopCalls

LEMMA FlowHalt ==
  ASSUME NEW s \in Seq(Frames), NEW told \in SUBSET Leases
  PROVE  Flow(s, TellHalt(s, told), {}, {}, {})
<1> DEFINE f == [call |-> "halt", todo |-> told]
<1>1. f \in Frames /\ f.call = "halt"
  BY FrameTypes
<1>2. Flow(s, Push(s, f), {}, {}, {})
  BY <1>1, FlowPush
<1> QED
  BY <1>2, FlowSame DEF TellHalt

LEMMA FlowLoop ==
  ASSUME NEW s \in Seq(Frames), NEW call \in LoopCalls, NEW over \in SUBSET Entries,
         NEW u, u = Push(s, Loop(call, over))
  PROVE  Flow(s, u, {}, {call}, {}) /\ \A e \in over : Looping(u, call, e)
<1>1. /\ Loop(call, over) \in Frames /\ Loop(call, over).call = call
      /\ Loop(call, over).todo = over
  BY FrameTypes DEF LoopCalls, Loop
<1> QED
  BY <1>1, FlowPush

LEMMA FlowAcquire ==
  ASSUME NEW s \in Seq(Frames), NEW c \in Chains, NEW l \in Leases \cup {None}
  PROVE  Flow(s, Push(s, [call |-> "acquire", chain |-> c, lease |-> l]), {}, {}, {c})
<1> DEFINE f == [call |-> "acquire", chain |-> c, lease |-> l]
<1>1. f \in Frames /\ f.call = "acquire" /\ f.chain = c
  BY FrameTypes
<1> HIDE DEF f
<1>2. Flow(s, Push(s, f), {}, {}, {c})
  BY <1>1, FlowPush
<1> QED
  BY <1>2 DEF f

LEMMA FlowPopOver ==
  ASSUME NEW s \in Seq(Frames), s # <<>>, NEW gone,
         s[Len(s)].call \in LoopCalls =>
           \A e \in Entries : e \in s[Len(s)].todo => <<s[Len(s)].call, e>> \in gone
  PROVE  Flow(s, Pop(s), gone, {}, {})
<1>1. /\ DOMAIN Pop(s) = DOMAIN s \ {Len(s)}
      /\ \A i \in DOMAIN Pop(s) : Pop(s)[i] = s[i]
      /\ Len(s) \in DOMAIN s
  BY DEF Pop
<1>2. ASSUME NEW call \in LoopCalls, NEW e \in Entries,
             Looping(s, call, e), <<call, e>> \notin gone
      PROVE  Looping(Pop(s), call, e)
  <2>1. PICK i \in DOMAIN s : s[i].call = call /\ e \in s[i].todo
    BY <1>2 DEF Looping
  <2>2. i # Len(s)
    BY <1>2, <2>1
  <2> QED
    BY <1>1, <2>1, <2>2 DEF Looping
<1> QED
  BY <1>1, <1>2 DEF Flow, Calling, Acquiring

LEMMA FlowPop ==
  ASSUME NEW s \in Seq(Frames), s # <<>>, s[Len(s)].call \in LoopCalls => s[Len(s)].todo = {}
  PROVE  Flow(s, Pop(s), {}, {}, {})
  BY FlowPopOver

\* The innermost call goes on: it is of the same kind, and over what it had left.
LEMMA FlowTop ==
  ASSUME NEW s \in Seq(Frames), s # <<>>, NEW f, f.call = s[Len(s)].call, f.call # "acquire",
         NEW gone, f.call \in LoopCalls =>
           \A e \in Entries : e \in s[Len(s)].todo /\ <<f.call, e>> \notin gone => e \in f.todo,
         NEW u, u = [s EXCEPT ![Len(s)] = f]
  PROVE  Flow(s, u, gone, {}, {})
<1>1. /\ Len(s) \in DOMAIN s /\ DOMAIN u = DOMAIN s /\ u[Len(s)] = f
      /\ \A i \in DOMAIN s : i # Len(s) => u[i] = s[i]
  OBVIOUS
<1>2. ASSUME NEW call \in LoopCalls, NEW e \in Entries,
             Looping(s, call, e), <<call, e>> \notin gone
      PROVE  Looping(u, call, e)
  BY <1>1, <1>2 DEF Looping
<1>3. \A call : Calling(u, call) => Calling(s, call)
  BY <1>1 DEF Calling
<1>4. \A c : Acquiring(u, c) => Acquiring(s, c)
  BY <1>1 DEF Acquiring
<1> QED
  BY <1>2, <1>3, <1>4 DEF Flow

LEMMA FlowVisited ==
  ASSUME stack \in Seq(Frames), Call \in LoopCalls, NEW e
  PROVE  /\ Flow(stack, Visited(e), {<<Call, e>>}, {}, {})
         /\ Flow(stack, Skipped(e), {<<Call, e>>}, {}, {})
         /\ Calling(stack, Call)
<1>1. stack # <<>> /\ Top \in Frames /\ Call = Top.call /\ Len(stack) \in DOMAIN stack
  BY TopFrame DEF Call, LoopCalls
<1>2. Top \in [call: LoopCalls, todo: SUBSET Entries, delivers: BOOLEAN]
  BY <1>1 DEF Frames, LoopCalls
<1> DEFINE f(d) == [Top EXCEPT !.todo = @ \ {e}, !.delivers = d]
<1>3. ASSUME NEW d \in BOOLEAN
      PROVE  f(d).call = Top.call /\ f(d).todo = Top.todo \ {e}
  BY <1>2
<1>4. /\ Visited(e) = [stack EXCEPT ![Len(stack)] = f(TRUE)]
      /\ Skipped(e) = [stack EXCEPT ![Len(stack)] = f(FALSE)]
  <2> DEFINE n == Len(stack)
  <2>1. n \in DOMAIN stack /\ Top = stack[n]
    BY <1>1 DEF Top
  <2>2. ASSUME NEW d \in BOOLEAN
        PROVE  [stack EXCEPT ![n].todo = @ \ {e}, ![n].delivers = d] = [stack EXCEPT ![n] = f(d)]
    <3> HIDE DEF n
    <3> QED
      BY <1>2, <2>1
  <2> QED
    BY <2>2 DEF Visited, Skipped
<1> HIDE DEF f
<1>5. ASSUME NEW d \in BOOLEAN
      PROVE  Flow(stack, [stack EXCEPT ![Len(stack)] = f(d)], {<<Call, e>>}, {}, {})
  <2>1. /\ f(d).call = stack[Len(stack)].call /\ f(d).call # "acquire"
        /\ \A x \in Entries : x \in stack[Len(stack)].todo /\ <<f(d).call, x>> \notin {<<Call, e>>}
                                => x \in f(d).todo
    BY <1>1, <1>2, <1>3 DEF Top, LoopCalls
  <2> QED
    BY <1>1, <2>1, FlowTop
<1>6. Calling(stack, Call)
  BY <1>1 DEF Calling, Top
<1> QED
  BY <1>4, <1>5, <1>6

LEMMA FlowTell ==
  ASSUME stack \in Seq(Frames), NEW l \in Leases, TellLease(l)
  PROVE  Flow(stack, stack', {}, {}, {})
<1>1. stack # <<>> /\ Top \in Frames /\ Top.call = "halt" /\ Len(stack) \in DOMAIN stack
  BY TopFrame DEF TellLease
<1>2. Top \in [call: {"halt"}, todo: SUBSET Leases]
  BY <1>1 DEF Frames, LoopCalls
<1> DEFINE f == [Top EXCEPT !.todo = @ \ {l}]
           n == Len(stack)
<1>3. f.call = "halt"
  BY <1>2
<1>4. stack' = [stack EXCEPT ![n] = f]
  <2>1. n \in DOMAIN stack /\ Top = stack[n] /\ stack' = [stack EXCEPT ![n].todo = @ \ {l}]
    BY <1>1 DEF Top, TellLease
  <2> HIDE DEF n
  <2> QED
    BY <2>1
<1> HIDE DEF f
<1>5. f.call = stack[Len(stack)].call /\ f.call \notin LoopCalls
  BY <1>1, <1>3 DEF Top, LoopCalls
<1> QED
  BY <1>1, <1>3, <1>4, <1>5, FlowTop

\* A step leaves alone whether the pool is paused and who watches.
Settled == UNCHANGED <<paused, watchers>>

\* An entry written back is open as the pool is, or as it was; it is not leased anew while
\* it is closed; and the watchers' follow is open on a leased entry only.
Fits(e, r) ==
  /\ \/ r.open = ~paused
     \/ /\ entry[e].live /\ r.open = entry[e].open
        /\ r.leases > 0 => entry[e].leases > 0 \/ paused
  /\ Wanted(r, stack', e)

\* What the watchers have not heard of it for a throw stays so until its count of leases changes.
CutStays(e, r) == entry[e].live /\ entry[e].cut => r.cut \/ r.leases # entry[e].leases

\* Calls that open or close no connection.
Hearing == {"watch", "unwatch", "sync"}

\* What a loop over entries may be that a step starts.
Starts(new) ==
  /\ new \subseteq Hearing
  /\ "watch" \in new => watchers # {}
  /\ "unwatch" \in new \/ "sync" \in new => watchers = {}

\* A step that writes an entry back is past it in these loops.
PassedBy(gone, e, r) ==
  \A d \in Entries, call \in LoopCalls :
    <<call, d>> \in gone => d = e /\ (call \in Hearing \/ r.open = ~paused)

\* What the watchers are told of an entry written back: what there is to tell, or nothing, where
\* nobody watches, where it is cut short, or where there is nothing new.
Tells(c, e, r, status, gone) ==
  \/ Report(c, r, status)
  \/ /\ UNCHANGED reported
     /\ \/ watchers = {} \/ r.cut
        \/ /\ Activity(r, status) = Current(c)
           /\ entries[c] = None \/ ~entry[e].cut
           /\ <<"watch", e>> \notin gone

LEMMA ChainsApart ==
  ASSUME Links, PoolAssumption, NEW c \in Chains, NEW e \in Entries,
         entries[c] = e \/ (entries[c] = None /\ ~entry[e].live)
  PROVE  \A d \in Chains : d # c => entries[d] # e
  BY DEF Links, OneEntryPerChain, PoolAssumption

LEMMA UpdateOpens ==
  ASSUME IInv, PoolAssumption, Opening, Settled,
         NEW c \in Chains, NEW e \in Entries, NEW r \in EntryType, NEW status,
         entries[c] = e \/ (entries[c] = None /\ ~entry[e].live),
         Put(c, e, r, status), Fits(e, r),
         NEW gone, PassedBy(gone, e, r), NEW new, Starts(new), Flow(stack, stack', gone, new, {})
  PROVE  Opening'
<1>1. /\ entries' = [entries EXCEPT ![c] = e] /\ entry' = [entry EXCEPT ![e] = r]
      /\ entries \in [Chains -> Entries \cup {None}] /\ entry \in [Entries -> EntryType]
      /\ r.open \in BOOLEAN /\ r.leases \in Nat /\ paused \in BOOLEAN /\ paused' = paused
  BY DEF Put, IInv, Links, Typed, EntryType, Settled
<1>2. ASSUME NEW d \in Entries, entry'[d].live
      PROVE  /\ paused /\ entry'[d].open => Looping(stack', "pause", d)
             /\ ~paused /\ entry'[d].leases > 0 /\ ~entry'[d].open => Looping(stack', "resume", d)
  <2>1. CASE d # e
    BY <1>1, <1>2, <2>1 DEF Opening, Flow, LoopCalls, PassedBy
  <2>2. CASE d = e /\ r.open = ~paused
    BY <1>1, <2>2
  <2>3. CASE d = e /\ r.open # ~paused
    <3>1. /\ entry[e].live /\ r.open = entry[e].open
          /\ r.leases > 0 => entry[e].leases > 0 \/ paused
      BY <2>3 DEF Fits
    <3>2. /\ Looping(stack, "pause", e) => Looping(stack', "pause", e)
          /\ Looping(stack, "resume", e) => Looping(stack', "resume", e)
      BY <2>3 DEF Flow, LoopCalls, PassedBy, Hearing
    <3> QED
      BY <1>1, <2>3, <3>1, <3>2 DEF Opening
  <2> QED
    BY <2>1, <2>2, <2>3
<1>3. (Calling(stack', "pause") => paused) /\ (Calling(stack', "resume") => ~paused)
  BY DEF Flow, Opening, LoopCalls, Starts, Hearing
<1>4. ASSUME NEW d \in Chains, Acquiring(stack', d)
      PROVE  ~paused /\ (entries'[d] = None \/ entry'[entries'[d]].open)
  <2>1. ~paused /\ (entries[d] = None \/ entry[entries[d]].open)
    BY <1>4 DEF Flow, Opening
  <2>2. CASE d = c
    <3>1. entry[e].live => entries[d] = e /\ e # None
      BY <2>2 DEF PoolAssumption
    <3> QED
      BY <1>1, <2>1, <2>2, <3>1 DEF Fits
  <2>3. CASE d # c
    <3>1. entries[d] # e
      BY <2>3, ChainsApart DEF IInv
    <3> QED
      BY <1>1, <2>1, <2>3, <3>1
  <2> QED
    BY <2>2, <2>3
<1> QED
  BY <1>1, <1>2, <1>3, <1>4 DEF Opening

LEMMA PutTells ==
  ASSUME IInv, PoolAssumption, Watching, Settled,
         NEW c \in Chains, NEW e \in Entries, NEW r \in EntryType, NEW status,
         r.live, entries[c] = e \/ (entries[c] = None /\ ~entry[e].live),
         Put(c, e, r, status), Fits(e, r),
         NEW gone, PassedBy(gone, e, r), Tells(c, e, r, status, gone),
         NEW new, Starts(new), Flow(stack, stack', gone, new, {})
  PROVE  Watching'
<1>1. /\ entries' = [entries EXCEPT ![c] = e] /\ entry' = [entry EXCEPT ![e] = r]
      /\ statuses' = [statuses EXCEPT ![c] = status]
      /\ entries \in [Chains -> Entries \cup {None}] /\ entry \in [Entries -> EntryType]
      /\ statuses \in [Chains -> Statuses] /\ reported \in [Chains -> ActivityType]
      /\ watchers' = watchers /\ e # None
  BY DEF Put, IInv, Links, PoolAssumption, Settled
<1>2. /\ Calling(stack', "watch") => watchers # {}
      /\ Calling(stack', "unwatch") \/ Calling(stack', "sync") => watchers = {}
  BY DEF Flow, Watching, LoopCalls, Starts
<1>3. ASSUME NEW d \in Entries
      PROVE  Wanted(entry'[d], stack', d)
  <2>1. CASE d = e
    BY <1>1, <2>1 DEF Fits
  <2>2. CASE d # e
    <3>1. Unwatching(stack, d) => Unwatching(stack', d)
      BY <2>2 DEF Flow, LoopCalls, PassedBy, Unwatching
    <3> QED
      BY <1>1, <2>2, <3>1 DEF Watching, Wanted
  <2> QED
    BY <2>1, <2>2
<1>4. Current(c)' = Activity(r, status)
  BY <1>1 DEF Current, Activity
<1>5. ASSUME NEW d \in Chains, d # c
      PROVE  /\ Current(d)' = Current(d) /\ entries'[d] = entries[d] /\ entries[d] # e
             /\ reported'[d] = reported[d]
  <2>1. entries[d] # e
    BY <1>5, ChainsApart DEF IInv
  <2>2. reported'[d] = reported[d]
    BY <1>1, <1>5 DEF Tells, Report
  <2> QED
    BY <1>1, <1>5, <2>1, <2>2 DEF Current, Activity
<1>6. ASSUME NEW d \in Chains
      PROVE  IF watchers = {} THEN reported'[d] = NoActivity ELSE Heard(d)'
  <2>1. CASE watchers = {}
    BY <1>1, <2>1 DEF Watching, Tells, Report
  <2>2. CASE watchers # {} /\ d = c
    <3>1. CASE Report(c, r, status)
      BY <1>1, <1>4, <2>2, <3>1 DEF Report, Heard
    <3>2. CASE r.cut
      BY <1>1, <2>2, <3>2 DEF Heard
    <3>3. CASE /\ UNCHANGED reported /\ Activity(r, status) = Current(c)
               /\ entries[c] = None \/ ~entry[e].cut
               /\ <<"watch", e>> \notin gone
      <4>1. reported[c] = Current(c) \/ (entries[c] = e /\ Looping(stack, "watch", e))
        BY <2>2, <3>3 DEF Watching, Heard
      <4>2. Looping(stack, "watch", e) => Looping(stack', "watch", e)
        BY <3>3 DEF Flow, LoopCalls
      <4> QED
        BY <1>1, <1>4, <2>2, <3>3, <4>1, <4>2 DEF Heard
    <3> QED
      BY <2>2, <3>1, <3>2, <3>3 DEF Tells
  <2>3. CASE watchers # {} /\ d # c
    <3>1. Heard(d)
      BY <2>3 DEF Watching
    <3>2. entries[d] # None /\ Looping(stack, "watch", entries[d]) => Looping(stack', "watch", entries[d])
      BY <1>1, <1>5, <2>3 DEF Flow, LoopCalls, PassedBy
    <3>3. entries[d] # None => entry'[entries[d]].cut = entry[entries[d]].cut
      BY <1>1, <1>5, <2>3
    <3> QED
      BY <1>5, <2>3, <3>1, <3>2, <3>3 DEF Heard
  <2> QED
    BY <2>1, <2>2, <2>3
<1> QED
  BY <1>1, <1>2, <1>3, <1>6 DEF Watching, Wanted

LEMMA DestroyUnderway ==
  ASSUME IInv, PoolAssumption, Underway, Settled, NEW c \in Chains, NEW e \in Entries,
         entries[c] = e \/ (entries[c] = None /\ ~entry[e].live), Destroy(c, e),
         NEW gone, \A d \in Entries, call \in LoopCalls : <<call, d>> \in gone => d = e,
         NEW chains, chains = {} \/ (chains = {c} /\ ~paused),
         Flow(stack, stack', gone, {}, chains)
  PROVE  Underway'
<1>1. /\ entries' = [entries EXCEPT ![c] = None] /\ entry' = [entry EXCEPT ![e] = Closed]
      /\ statuses' = [statuses EXCEPT ![c] = "disconnected"]
      /\ entries \in [Chains -> Entries \cup {None}] /\ entry \in [Entries -> EntryType]
      /\ statuses \in [Chains -> Statuses] /\ reported \in [Chains -> ActivityType]
      /\ paused' = paused /\ watchers' = watchers
      /\ reported' = IF watchers = {} THEN reported
                     ELSE [reported EXCEPT ![c] = Activity(Closed, "disconnected")]
  BY DEF Destroy, Report, IInv, Links, Settled
<1>2. ~Closed.live /\ ~Closed.watchFollow
  BY DEF Closed
<1>7. \A d \in Entries, call \in LoopCalls : d # e /\ Looping(stack, call, d) => Looping(stack', call, d)
  BY DEF Flow
<1>3. \A d \in Chains : d # c => entries[d] # e
  BY ChainsApart DEF IInv
<1>4. \A d \in Entries : entry'[d].live => entry'[d] = entry[d] /\ d # e
  BY <1>1, <1>2
<1>5. Opening'
  <2>1. ASSUME NEW d \in Entries, entry'[d].live
        PROVE  /\ paused /\ entry'[d].open => Looping(stack', "pause", d)
               /\ ~paused /\ entry'[d].leases > 0 /\ ~entry'[d].open => Looping(stack', "resume", d)
    BY <1>4, <2>1 DEF Underway, Opening, Flow, LoopCalls
  <2>2. (Calling(stack', "pause") => paused) /\ (Calling(stack', "resume") => ~paused)
    BY DEF Flow, Underway, Opening, LoopCalls
  <2>3. ASSUME NEW d \in Chains, Acquiring(stack', d)
        PROVE  ~paused /\ (entries'[d] = None \/ entry'[entries'[d]].open)
    <3>1. CASE d = c
      BY <1>1, <2>3, <3>1 DEF Flow, Underway, Opening
    <3>2. CASE d # c
      BY <1>1, <1>3, <2>3, <3>2 DEF Flow, Underway, Opening
    <3> QED
      BY <3>1, <3>2
  <2> QED
    BY <1>1, <2>1, <2>2, <2>3 DEF Opening
<1>6. Watching'
  <2>1. /\ Calling(stack', "watch") => watchers # {}
        /\ Calling(stack', "unwatch") \/ Calling(stack', "sync") => watchers = {}
    BY DEF Flow, Underway, Watching, LoopCalls
  <2>2. \A d \in Entries : Wanted(entry'[d], stack', d)
    BY <1>1, <1>2, <1>7 DEF Underway, Watching, Wanted, Unwatching, LoopCalls
  <2>3. Current(c)' = Activity(Closed, "disconnected")
    BY <1>1 DEF Current, Activity
  <2>4. \A d \in Chains : d # c => Current(d)' = Current(d) /\ entries'[d] = entries[d]
    BY <1>1, <1>3 DEF Current, Activity
  <2>5. ASSUME NEW d \in Chains
        PROVE  IF watchers = {} THEN reported'[d] = NoActivity ELSE Heard(d)'
    <3>1. CASE watchers = {} \/ d = c
      BY <1>1, <2>3, <3>1 DEF Underway, Watching, Heard
    <3>2. CASE watchers # {} /\ d # c
      <4>1. Heard(d)
        BY <3>2 DEF Underway, Watching
      <4>2. entries[d] # None => /\ Looping(stack, "watch", entries[d]) => Looping(stack', "watch", entries[d])
                                 /\ entry'[entries[d]].cut = entry[entries[d]].cut
        BY <1>1, <1>3, <1>7, <3>2 DEF LoopCalls
      <4>3. reported'[d] = reported[d]
        BY <1>1, <3>2
      <4> QED
        BY <2>4, <3>2, <4>1, <4>2, <4>3 DEF Heard
    <3> QED
      BY <3>1, <3>2
  <2> QED
    BY <1>1, <2>1, <2>2, <2>5 DEF Watching, Wanted
<1> QED
  BY <1>5, <1>6 DEF Underway

LEMMA PutUnderway ==
  ASSUME IInv, PoolAssumption, Underway, Settled,
         NEW c \in Chains, NEW e \in Entries, NEW r \in EntryType, NEW status,
         r.live, entries[c] = e \/ (entries[c] = None /\ ~entry[e].live), Fits(e, r),
         Put(c, e, r, status), NEW gone, PassedBy(gone, e, r), Tells(c, e, r, status, gone),
         NEW new, Starts(new), Flow(stack, stack', gone, new, {})
  PROVE  Underway'
  BY UpdateOpens, PutTells DEF Underway

LEMMA UpdateUnderway ==
  ASSUME IInv, PoolAssumption, Underway, Settled,
         NEW c \in Chains, NEW e \in Entries, NEW r \in EntryType, NEW status,
         r.live, entries[c] = e \/ (entries[c] = None /\ ~entry[e].live), Fits(e, r), CutStays(e, r),
         Update(c, e, r, status) \/ Idle(c, e, r, status),
         NEW gone, PassedBy(gone, e, r), <<"watch", e>> \notin gone,
         NEW new, Starts(new), new = {} \/ Update(c, e, r, status),
         Flow(stack, stack', gone, new, {})
  PROVE  Underway'
<1>0. ASSUME NEW x \in EntryType, x.live, Fits(e, x), CutStays(e, x), x.open = r.open, Update(c, e, x, status)
      PROVE  Underway'
  <2>1. Put(c, e, x, status) /\ PassedBy(gone, e, x)
    BY <1>0 DEF Update, PassedBy
  <2>2. Activity(x, status) = Current(c) => entries[c] = None \/ ~entry[e].cut \/ x.cut
    <3>1. CASE entries[c] = e
      <4>1. entry[e].live /\ e # None /\ entry[e] \in EntryType
        BY <3>1, PoolAssumption DEF IInv, Links, OneEntryPerChain, PoolAssumption
      <4>2. Activity(x, status).consumers = x.leases
        BY <1>0 DEF Activity
      <4>3. Current(c).consumers = entry[e].leases
        BY <3>1, <4>1 DEF Activity, Current
      <4> QED
        BY <1>0, <4>1, <4>2, <4>3 DEF CutStays
    <3> QED
      BY <3>1
  <2>3. Tells(c, e, x, status, gone)
    BY <1>0, <2>2 DEF Update, Tells
  <2> QED
    BY <1>0, <2>1, <2>3, PutUnderway
<1>1. CASE Update(c, e, r, status)
  BY <1>0, <1>1
<1>2. CASE Idle(c, e, r, status) /\ Idles(r) /\ Delay = "zero" /\ ~Update(c, e, r, status)
  <2>1. \A d \in Entries, call \in LoopCalls : <<call, d>> \in gone => d = e
    BY DEF PassedBy
  <2> QED
    BY <1>2, <2>1, DestroyUnderway DEF Idle
<1>3. CASE /\ Idle(c, e, r, status) /\ ~(Idles(r) /\ Delay = "zero")
           /\ ~Update(c, e, r, status)
  <2> DEFINE timed == [r EXCEPT !.destroyTimer = @ \/ (Idles(r) /\ Delay = "finite")]
  <2>1. /\ timed \in EntryType /\ timed.live /\ timed.open = r.open /\ timed.cut = r.cut
        /\ timed.leases = r.leases /\ timed.watchFollow = r.watchFollow
    BY DEF EntryType, Idles
  <2>2. Update(c, e, timed, status)
    BY <1>3 DEF Idle
  <2> HIDE DEF timed
  <2>4. Fits(e, timed) /\ CutStays(e, timed)
    BY <2>1 DEF Fits, Wanted, CutStays
  <2> QED
    BY <1>0, <2>1, <2>2, <2>4
<1> QED
  BY <1>1, <1>2, <1>3

\* The chains stay as they are, and a loop passes over an entry that is gone, or over one
\* nobody leases that need not open again, or over one whose follow is not open.
LEMMA StillUnderway ==
  ASSUME IInv, Underway, Settled, UNCHANGED <<entries, entry, statuses, reported>>,
         NEW gone, \A d \in Entries, call \in LoopCalls :
           <<call, d>> \in gone => \/ ~entry[d].live \/ (call = "resume" /\ entry[d].leases = 0)
                                   \/ call \in {"unwatch", "sync"} /\ ~entry[d].watchFollow,
         Flow(stack, stack', gone, {}, {})
  PROVE  Underway'
<1>1. Opening'
  <2>1. ASSUME NEW d \in Entries, entry[d].live
        PROVE  /\ paused /\ entry[d].open => Looping(stack', "pause", d)
               /\ ~paused /\ entry[d].leases > 0 /\ ~entry[d].open => Looping(stack', "resume", d)
    <3>1. <<"pause", d>> \notin gone
      BY <2>1 DEF LoopCalls
    <3>2. entry[d].leases > 0 => <<"resume", d>> \notin gone
      <4>1. <<"resume", d>> \in gone => entry[d].leases = 0
        BY <2>1 DEF LoopCalls
      <4>2. ~(0 > 0)
        OBVIOUS
      <4> QED
        BY <4>1, <4>2
    <3> QED
      BY <2>1, <3>1, <3>2 DEF Underway, Opening, Flow, LoopCalls
  <2>2. (Calling(stack', "pause") => paused) /\ (Calling(stack', "resume") => ~paused)
    BY DEF Flow, Underway, Opening, LoopCalls
  <2>3. \A c \in Chains : Acquiring(stack', c) =>
          ~paused /\ (entries[c] = None \/ entry[entries[c]].open)
    BY DEF Flow, Underway, Opening
  <2> QED
    BY <2>1, <2>2, <2>3 DEF Opening, Settled
<1>2. \A c \in Chains : Current(c)' = Current(c)
  BY DEF Current, Activity
<1>3. \A c \in Chains : entries[c] # None => entries[c] \in Entries /\ entry[entries[c]].live
  BY DEF IInv, Links, OneEntryPerChain
<1>4. \A c \in Chains : entries[c] # None /\ Looping(stack, "watch", entries[c]) => Looping(stack', "watch", entries[c])
  BY <1>3 DEF Flow, LoopCalls
<1>5. /\ Calling(stack', "watch") => watchers # {}
      /\ Calling(stack', "unwatch") \/ Calling(stack', "sync") => watchers = {}
  BY DEF Flow, Underway, Watching, LoopCalls
<1>7. ASSUME NEW d \in Entries
      PROVE  Wanted(entry[d], stack', d)
  <2>1. CASE entry[d].watchFollow
    <3>1. Wanted(entry[d], stack, d)
      BY DEF Underway, Watching
    <3>2. Unwatching(stack, d) => Unwatching(stack', d)
      BY <2>1, <3>1 DEF Unwatching, Wanted, Flow, LoopCalls
    <3> QED
      BY <3>1, <3>2 DEF Wanted
  <2> QED
    BY <2>1 DEF Wanted
<1>6. Watching'
  <2>1. \A c \in Chains : Heard(c) => Heard(c)'
    BY <1>2, <1>4 DEF Heard
  <2> QED
    BY <1>5, <1>7, <2>1 DEF Underway, Watching, Settled, Wanted
<1> QED
  BY <1>1, <1>6 DEF Underway

\* An acquired entry is open as the pool is, or it is one of a paused pool as it was.
Apt(got) ==
  /\ \/ got.now.open = ~paused
     \/ entry[got.entry].live /\ got.now.open = entry[got.entry].open /\ paused
  /\ Wanted(got.now, stack, got.entry)
  /\ entry[got.entry].live /\ entry[got.entry].cut => got.now.cut

LEMMA AcquiredIsApt ==
  ASSUME IInv, PoolAssumption, Underway, NEW c \in Chains, NEW got,
         got = Acquired(c) \/ (got = Reacquired(c) /\ Acquiring(stack, c)), Sound(c, got)
  PROVE  Apt(got)
<1>1. CASE entries[c] = None
  <2>1. got.now = Built(c)
    BY <1>1 DEF Acquired, Reacquired, Build, Got
  <2>2. ~entry[got.entry].live
    BY <1>1, PoolAssumption DEF Sound, PoolAssumption
  <2> QED
    BY <2>1, <2>2 DEF Built, Closed, Apt, Wanted
<1>2. CASE entries[c] # None
  <2> DEFINE x == entry[entries[c]]
             r == [x EXCEPT !.open = @ \/ ~paused, !.destroyTimer = FALSE]
  <2>1. /\ x \in EntryType /\ x.live /\ paused \in BOOLEAN
        /\ Wanted(x, stack, entries[c])
    BY <1>2 DEF IInv, Typed, Links, OneEntryPerChain, Underway, Watching
  <2>2. CASE got = Acquired(c)
    <3>1. got.now = r /\ got.entry = entries[c]
      BY <1>2, <2>2 DEF Acquired, Got
    <3>2. /\ r.open = (x.open \/ ~paused) /\ r.watchFollow = x.watchFollow /\ r.leases = x.leases
          /\ r.live = x.live /\ r.cut = x.cut
      BY <2>1 DEF EntryType
    <3>3. x.open \in BOOLEAN
      BY <2>1 DEF EntryType
    <3> HIDE DEF r
    <3>4. CASE paused
      BY <2>1, <3>1, <3>2, <3>3, <3>4 DEF Apt, Wanted
    <3>5. CASE ~paused
      BY <2>1, <3>1, <3>2, <3>3, <3>5 DEF Apt, Wanted
    <3> QED
      BY <3>4, <3>5
  <2>3. CASE got = Reacquired(c) /\ Acquiring(stack, c)
    <3>1. got.now = x /\ got.entry = entries[c]
      BY <1>2, <2>3 DEF Reacquired, Got
    <3>2. ~paused /\ x.open /\ x.open \in BOOLEAN
      BY <1>2, <2>1, <2>3 DEF Underway, Opening, EntryType
    <3> QED
      BY <2>1, <3>1, <3>2 DEF Apt
  <2> QED
    BY <2>2, <2>3
<1> QED
  BY <1>1, <1>2

LEMMA ProceedUnderway ==
  ASSUME IInv, PoolAssumption, Underway, NEW c \in Chains, NEW l,
         NEW got, Sound(c, got), Apt(got),
         NEW s \in Seq(Frames), Flow(stack, s, {}, {}, {}), Proceed(c, l, got, s)
  PROVE  Underway'
<1>1. /\ got.entry \in Entries /\ got.now \in EntryType /\ got.now.live
      /\ entries[c] = got.entry \/ (entries[c] = None /\ ~entry[got.entry].live)
  BY DEF Sound
<1>2. Settled
  BY DEF Proceed, Take, TakeDrops, TakeThrows, TakeHalts, Settled
<1>6. ASSUME stack' = s
      PROVE  Wanted(got.now, stack', got.entry)
  BY <1>1, <1>6 DEF Apt, Wanted, Unwatching, Flow, LoopCalls
<1>7. Starts({}) /\ \A e, r : PassedBy({}, e, r)
  BY DEF Starts, PassedBy
<1>8. entry[got.entry].leases \in Nat
  BY <1>1 DEF IInv, Links, EntryType
<1>3. CASE \/ Update(c, got.entry, got.now, got.status) /\ stack' = s
           \/ TakeThrows(c, got, s)
  <2>1. /\ stack' = s
        /\ \/ Update(c, got.entry, got.now, got.status)
           \/ Idle(c, got.entry, got.now, got.status)
    BY <1>3 DEF TakeThrows
  <2>2. Fits(got.entry, got.now) /\ CutStays(got.entry, got.now)
    BY <1>6, <2>1 DEF Apt, Fits, CutStays
  <2> QED
    BY <1>1, <1>2, <1>7, <2>1, <2>2, UpdateUnderway
<1>4. CASE Take(c, l, got, s)
  <2> DEFINE r == [got.now EXCEPT !.leases = @ + 1, !.cut = FALSE]
             u(call) == Push(s, Loop(call, {got.entry}))
  <2>1. /\ r \in EntryType /\ r.live /\ r.open = got.now.open /\ r.leases > 0
        /\ r.watchFollow = got.now.watchFollow /\ r.leases = got.now.leases + 1
        /\ got.now.leases \in Nat
    <3>1. PICK x : x = got.now
      OBVIOUS
    <3>2. x \in EntryType /\ x.live /\ x.leases \in Nat /\ x.leases + 1 \in Nat /\ x.leases + 1 > 0
      BY <1>1, <3>1 DEF EntryType
    <3>3. PICK y : y = [x EXCEPT !.leases = x.leases + 1, !.cut = FALSE]
      OBVIOUS
    <3>4. /\ y \in EntryType /\ y.live /\ y.open = x.open /\ y.leases = x.leases + 1
          /\ y.watchFollow = x.watchFollow
      BY <3>2, <3>3 DEF EntryType
    <3>5. r = y
      BY <3>1, <3>3
    <3> QED
      BY <3>1, <3>2, <3>4, <3>5
  <2>2. /\ Update(c, got.entry, r, got.status)
        /\ \/ watchers # {} /\ stack' = u("watch")
           \/ watchers = {} /\ stack' = u("sync")
           \/ ~FollowEnds(r) /\ stack' = s
    <3>1. r.leases # 0
      BY <2>1
    <3>2. /\ Update(c, got.entry, r, got.status)
          /\ stack' = CASE watchers # {} /\ ~r.watchFollow -> u("watch")
                        [] FollowEnds(r) -> u("sync")
                        [] OTHER -> s
      BY <1>4 DEF Take
    <3> HIDE DEF r, u
    <3> QED
      BY <3>1, <3>2 DEF FollowEnds
  <2>4. ASSUME NEW call \in {"watch", "sync"}
        PROVE  Flow(stack, u(call), {}, {call}, {}) /\ Looping(u(call), call, got.entry)
    <3>1. call \in LoopCalls /\ {got.entry} \in SUBSET Entries
      BY <1>1 DEF LoopCalls
    <3>2. PICK v : v = u(call)
      OBVIOUS
    <3>3. Flow(s, v, {}, {call}, {}) /\ Looping(v, call, got.entry)
      BY <3>1, <3>2, FlowLoop
    <3> QED
      BY <3>2, <3>3, FlowTo
  <2> HIDE DEF r, u
  <2>7. ASSUME Wanted(r, stack', got.entry)
        PROVE  Fits(got.entry, r) /\ CutStays(got.entry, r)
    <3>1. entry[got.entry].live => got.now.leases = entry[got.entry].leases
      BY DEF Sound
    <3>2. entry[got.entry].live => r.leases # entry[got.entry].leases
      BY <1>8, <2>1, <3>1
    <3> QED
      BY <2>1, <2>7, <3>2 DEF Apt, Fits, CutStays
  <2>5. CASE watchers # {} /\ stack' = u("watch")
    <3>1. Fits(got.entry, r) /\ CutStays(got.entry, r) /\ Starts({"watch"})
      BY <2>1, <2>5, <2>7 DEF Wanted, Starts, Hearing
    <3> QED
      BY <1>1, <1>2, <1>7, <2>1, <2>2, <2>4, <2>5, <3>1, UpdateUnderway
  <2>8. CASE watchers = {} /\ stack' = u("sync")
    <3>1. Fits(got.entry, r) /\ CutStays(got.entry, r) /\ Starts({"sync"})
      BY <2>1, <2>4, <2>7, <2>8 DEF Wanted, Unwatching, Starts, Hearing
    <3> QED
      BY <1>1, <1>2, <1>7, <2>1, <2>2, <2>4, <2>8, <3>1, UpdateUnderway
  <2>6. CASE ~FollowEnds(r) /\ stack' = s
    <3>1. Fits(got.entry, r) /\ CutStays(got.entry, r)
      BY <2>1, <2>6, <2>7 DEF Wanted, FollowEnds
    <3> QED
      BY <1>1, <1>2, <1>7, <2>1, <2>2, <2>6, <3>1, UpdateUnderway
  <2> QED
    BY <2>2, <2>5, <2>6, <2>8
<1>9. CASE TakeDrops(c, got, s)
  <2> DEFINE x == [got.now EXCEPT !.leases = @ + 1]
             r == Dropped(x)
  <2>1. /\ r \in EntryType /\ r.live /\ r.open = got.now.open
        /\ ~r.watchFollow /\ r.leases = got.now.leases + 1
        /\ got.now.leases \in Nat
    <3>1. x \in EntryType /\ x.live /\ x.open = got.now.open /\ x.leases = got.now.leases + 1
          /\ got.now.leases \in Nat
      BY <1>1 DEF EntryType
    <3> HIDE DEF x
    <3> QED
      BY <3>1 DEF EntryType, Dropped
  <2>2. Update(c, got.entry, r, got.status) /\ stack' = s
    BY <1>9 DEF TakeDrops
  <2>3. entry[got.entry].live => got.now.leases = entry[got.entry].leases
    BY DEF Sound
  <2> HIDE DEF r, x
  <2>4. Fits(got.entry, r) /\ CutStays(got.entry, r)
    BY <1>8, <2>1, <2>3 DEF Apt, Fits, Wanted, CutStays
  <2> QED
    BY <1>1, <1>2, <1>7, <2>1, <2>2, <2>4, UpdateUnderway
<1>5. CASE TakeHalts(c, got, s)
  <2>1. Destroy(c, got.entry) /\ stack' = TellHalt(s, Sessions(got.entry))
    BY <1>5 DEF TakeHalts
  <2>2. Flow(stack, stack', {}, {}, {})
    BY <2>1, FlowHalt, FlowTo DEF Sessions
  <2> QED
    BY <1>1, <1>2, <2>1, <2>2, DestroyUnderway
<1> QED
  BY <1>3, <1>4, <1>5, <1>9 DEF Proceed

LEMMA AcquiresUnderway ==
  ASSUME IInv, PoolAssumption, Underway, NEW c \in Chains,
         \/ GetLocalProvider(c)
         \/ \E l \in Leases : Connect(l, c)
  PROVE  Underway'
<1>0. stack \in Seq(Frames) /\ paused \in BOOLEAN
  BY DEF IInv, Typed
<1>1. ASSUME NEW l, NEW got, got = Acquired(c), Proceed(c, l, got, stack)
      PROVE  Underway'
  <2>1. Sound(c, got)
    BY <1>0, <1>1, AcquiredIsSound DEF Proceed, IInv
  <2> QED
    BY <1>0, <1>1, <2>1, AcquiredIsApt, FlowSame, ProceedUnderway
<1>2. ASSUME NEW l \in Leases \cup {None}, AcquireHalts(c, l)
      PROVE  Underway'
  <2> DEFINE s == Push(stack, [call |-> "acquire", chain |-> c, lease |-> l])
             e == entries[c]
  <2>1. /\ e \in Entries /\ Destroy(c, e) /\ ~paused /\ Settled
        /\ stack' = TellHalt(s, Sessions(e))
    BY <1>2 DEF AcquireHalts, CanFailToReopen, IInv, Links, Settled
  <2>2. s \in Seq(Frames) /\ Flow(stack, s, {}, {}, {c})
    BY <1>0, FlowAcquire, FrameTypes DEF Push
  <2> HIDE DEF s, e
  <2>3. Flow(stack, stack', {}, {}, {c})
    BY <2>1, <2>2, FlowHalt, FlowOn DEF Sessions
  <2> QED
    BY <2>1, <2>3, DestroyUnderway DEF e
<1> QED
  BY <1>1, <1>2 DEF GetLocalProvider, Connect

LEMMA ContinueUnderway ==
  ASSUME IInv, PoolAssumption, Underway, AcquireContinues
  PROVE  Underway'
<1> DEFINE c == Top.chain
           l == Top.lease
           s == Pop(stack)
<1>1. /\ stack \in Seq(Frames) /\ stack # <<>> /\ Top \in Frames /\ Top.call = "acquire"
      /\ Len(stack) \in DOMAIN stack
  BY TopFrame DEF AcquireContinues, IInv, Typed
<1>2. c \in Chains /\ Acquiring(stack, c)
  BY <1>1 DEF Frames, Acquiring, Top, LoopCalls
<1>3. s \in Seq(Frames) /\ Flow(stack, s, {}, {}, {})
  <2>1. stack[Len(stack)].call \notin LoopCalls
    BY <1>1 DEF Top, LoopCalls
  <2> QED
    BY <1>1, <2>1, FlowPop, QuietPop DEF Quiet
<1>4. PICK got : got = Reacquired(c)
  OBVIOUS
<1>5. Proceed(c, l, got, s)
  BY <1>4 DEF AcquireContinues
<1>6. Sound(c, got)
  BY <1>2, <1>4, <1>5, AcquiredIsSound DEF Proceed, IInv, Typed
<1>7. Apt(got)
  BY <1>2, <1>4, <1>6, AcquiredIsApt
<1> HIDE DEF c, l, s
<1> QED
  BY <1>2, <1>3, <1>5, <1>6, <1>7, ProceedUnderway

LEMMA ReleasesUnderway ==
  ASSUME IInv, PoolAssumption, Underway, NEW l \in Leases,
         Release(l) \/ ReleaseDrops(l) \/ ReleaseThrows(l) \/ ReleaseHalts(l)
  PROVE  Underway'
<1> DEFINE e == lease[l].entry
           c == entry[e].key
<1>0. /\ stack \in Seq(Frames) /\ Settled /\ Flow(stack, stack, {}, {}, {})
      /\ Sessions(e) \ {l} \in SUBSET Leases /\ lease[l].state = "held" /\ e \in Entries
  BY FlowSame DEF Release, ReleaseDrops, ReleaseThrows, ReleaseHalts, Settled, IInv, Typed, Sessions, Counts
<1>4. Starts({}) /\ \A r : PassedBy({}, e, r)
  BY DEF Starts, PassedBy
<1>1. CASE ReleaseThrows(l) \/ (Release(l) /\ ~entry[e].live)
  BY <1>0, <1>1, StillUnderway DEF ReleaseThrows, Release
<1>2. CASE ReleaseHalts(l)
  <2>1. /\ Destroy(c, e) /\ c \in Chains /\ entries[c] = e
        /\ stack' = TellHalt(stack, Sessions(e) \ {l})
    BY <1>0, <1>2, LiveInMap DEF ReleaseHalts, IInv
  <2>2. Flow(stack, stack', {}, {}, {})
    BY <1>0, <2>1, FlowHalt
  <2> HIDE DEF c, e
  <2> QED
    BY <1>0, <2>1, <2>2, DestroyUnderway
<1>3. CASE Release(l) /\ entry[e].live
  <2> DEFINE left == entry[e].leases - 1
             x == [entry[e] EXCEPT !.leases = left, !.cut = FALSE]
             r == Synced(x)
  <2>1. /\ Idle(c, e, r, statuses[c]) /\ stack' = stack
        /\ c \in Chains /\ entries[c] = e /\ entry[e] \in EntryType
        /\ left \in Nat /\ entry[e].leases \in Nat
    BY <1>0, <1>3, LiveInMap, HeldIsCounted DEF Release, IInv, EntryType
  <2>2. /\ x \in EntryType /\ x.live /\ x.open = entry[e].open /\ x.leases = left
    BY <1>3, <2>1 DEF EntryType
  <2> HIDE DEF x
  <2>4. /\ r \in EntryType /\ r.live /\ r.open = entry[e].open /\ r.leases = left
        /\ r.watchFollow => watchers # {} /\ left # 0
    BY <2>2, SyncedIs DEF FollowEnds
  <2>3. Fits(e, r) /\ CutStays(e, r)
    <3>1. (left > 0 => entry[e].leases > 0) /\ left # entry[e].leases /\ (left # 0 => left > 0)
      BY <2>1
    <3> HIDE DEF r, left
    <3> QED
      BY <1>3, <2>4, <3>1 DEF Fits, Wanted, CutStays
  <2> HIDE DEF r, c, e
  <2> QED
    BY <1>0, <1>4, <2>1, <2>3, <2>4, UpdateUnderway
<1>5. CASE ReleaseDrops(l)
  <2> DEFINE left == entry[e].leases - 1
             x == [entry[e] EXCEPT !.leases = left, !.cut = TRUE]
             r == Dropped(x)
  <2>1. /\ Put(c, e, r, statuses[c]) /\ UNCHANGED <<reported, stack>> /\ entry[e].live
        /\ c \in Chains /\ entries[c] = e /\ entry[e] \in EntryType
        /\ left \in Nat /\ entry[e].leases \in Nat
    BY <1>0, <1>5, LiveInMap, HeldIsCounted DEF ReleaseDrops, IInv, EntryType
  <2>2. /\ x \in EntryType /\ x.live /\ x.open = entry[e].open /\ x.leases = left /\ x.cut
    BY <2>1 DEF EntryType
  <2> HIDE DEF x
  <2>4. /\ r \in EntryType /\ r.live /\ r.open = entry[e].open /\ r.leases = left
        /\ ~r.watchFollow /\ r.cut
    BY <2>2, SyncedIs DEF Dropped, EntryType
  <2>3. Fits(e, r)
    <3>1. (left > 0 => entry[e].leases > 0) /\ left # entry[e].leases
      BY <2>1
    <3> HIDE DEF r, left
    <3> QED
      BY <2>1, <2>4, <3>1 DEF Fits, Wanted
  <2>5. Tells(c, e, r, statuses[c], {})
    BY <2>1, <2>4 DEF Tells
  <2> HIDE DEF r, c, e
  <2> QED
    BY <1>0, <1>4, <2>1, <2>3, <2>4, <2>5, PutUnderway
<1> QED
  BY <1>1, <1>2, <1>3, <1>5

\* A live entry is written back as it was, but for what its status and its follow read.
LEMMA WrittenUnderway ==
  ASSUME IInv, PoolAssumption, Underway, Settled, NEW e \in Entries, entry[e].live,
         NEW r \in EntryType, r.live, r.open = entry[e].open, r.leases = entry[e].leases,
         r.watchFollow = entry[e].watchFollow, r.cut = entry[e].cut, NEW status,
         Update(entry[e].key, e, r, status) \/ Idle(entry[e].key, e, r, status),
         UNCHANGED stack
  PROVE  Underway'
<1>1. entry[e].key \in Chains /\ entries[entry[e].key] = e
  BY LiveInMap DEF IInv
<1>2. Fits(e, r) /\ CutStays(e, r)
  BY DEF Fits, CutStays, Underway, Watching, Wanted, Unwatching, Looping
<1>3. Flow(stack, stack', {}, {}, {})
  BY FlowSame
<1>4. Starts({}) /\ PassedBy({}, e, r)
  BY DEF Starts, PassedBy
<1> QED
  BY <1>1, <1>2, <1>3, <1>4, UpdateUnderway

LEMMA EntriesUnderway ==
  ASSUME IInv, PoolAssumption, Underway, NEW e \in Entries,
         \/ CountDown(e) \/ DestroyTimerFires(e) \/ LaneHalts(e)
         \/ \E status \in Statuses : LaneStatus(e, status)
         \/ \E following \in BOOLEAN : WatchFollowing(e, following)
  PROVE  Underway'
<1>0. Settled
  BY DEF CountDown, DestroyTimerFires, LaneHalts, LaneStatus, WatchFollowing, Settled
<1>1. ASSUME entry[e].live
      PROVE  entry[e] \in EntryType /\ entry[e].key \in Chains /\ entries[entry[e].key] = e
  BY <1>1, LiveInMap DEF IInv
<1>2. CASE CountDown(e)
  <2>1. CASE Idles(entry[e])
    BY <1>0, <1>1, <1>2, <2>1, WrittenUnderway DEF CountDown, Idles
  <2>2. CASE ~Idles(entry[e])
    BY <1>0, <1>2, <2>2, FlowSame, StillUnderway DEF CountDown
  <2> QED
    BY <2>1, <2>2
<1>3. CASE DestroyTimerFires(e) \/ LaneHalts(e)
  <2>1. entry[e].live /\ Destroy(entry[e].key, e)
    BY <1>3 DEF DestroyTimerFires, LaneHalts, IInv, Links, DeadIsIdle
  <2>2. Flow(stack, stack', {}, {}, {})
    BY <1>3, FlowSame, FlowHalt DEF DestroyTimerFires, LaneHalts, IInv, Typed, Sessions
  <2> QED
    BY <1>0, <1>1, <2>1, <2>2, DestroyUnderway
<1>4. ASSUME NEW status \in Statuses, LaneStatus(e, status)
      PROVE  Underway'
  <2> DEFINE r == [entry[e] EXCEPT !.laneStatus = status]
  <2>1. entry[e].live /\ Update(entry[e].key, e, r, status) /\ UNCHANGED stack
    BY <1>4 DEF LaneStatus
  <2>2. /\ r \in EntryType /\ r.live /\ r.open = entry[e].open
        /\ r.leases = entry[e].leases /\ r.watchFollow = entry[e].watchFollow
        /\ r.cut = entry[e].cut
    BY <1>1, <2>1 DEF EntryType
  <2> HIDE DEF r
  <2> QED
    BY <1>0, <2>1, <2>2, WrittenUnderway
<1>5. ASSUME NEW following \in BOOLEAN, WatchFollowing(e, following)
      PROVE  Underway'
  <2> DEFINE r == [entry[e] EXCEPT !.following = following]
             status == statuses[entry[e].key]
  <2>1. entry[e].live /\ Update(entry[e].key, e, r, status) /\ UNCHANGED stack
    BY <1>5 DEF WatchFollowing
  <2>2. /\ r \in EntryType /\ r.live /\ r.open = entry[e].open
        /\ r.leases = entry[e].leases /\ r.watchFollow = entry[e].watchFollow
        /\ r.cut = entry[e].cut
    BY <1>1, <2>1 DEF EntryType
  <2> HIDE DEF r, status
  <2> QED
    BY <1>0, <2>1, <2>2, WrittenUnderway
<1> QED
  BY <1>2, <1>3, <1>4, <1>5

LEMMA TellsUnderway ==
  ASSUME IInv, Underway, Return \/ \E l \in Leases : TellLease(l)
  PROVE  Underway'
<1>1. stack \in Seq(Frames) /\ stack # <<>>
  BY TopFrame DEF IInv, Typed, Return, TellLease, LoopCalls
<1>2. Flow(stack, stack', {}, {}, {})
  <2>1. CASE Return
    BY <1>1, <2>1, FlowPop DEF Return, Top
  <2>2. CASE \E l \in Leases : TellLease(l)
    BY <1>1, <2>2, FlowTell
  <2> QED
    BY <2>1, <2>2
<1> QED
  BY <1>2, StillUnderway DEF Return, TellLease, Settled

\* The loop over the watchers' follows ends early.
UnwatchAborts(e) ==
  /\ entry' = [f \in Entries |->
                 IF f = e THEN Dropped(entry[e])
                 ELSE [entry[f] EXCEPT !.cut = @ \/ (f \in Top.todo /\ entry[f].live)]]
  /\ stack' = Pop(stack)
  /\ UNCHANGED <<entries, statuses, reported>>

LEMMA AbortedIs ==
  ASSUME Links, NEW e \in Entries, UnwatchAborts(e)
  PROVE  \A d \in Entries :
           /\ entry'[d] \in EntryType
           /\ entry'[d].live = entry[d].live /\ entry'[d].key = entry[d].key
           /\ entry'[d].leases = entry[d].leases /\ entry'[d].open = entry[d].open
           /\ entry'[d].laneStatus = entry[d].laneStatus
           /\ entry'[d].destroyTimer = entry[d].destroyTimer
           /\ entry'[d].following = entry[d].following
           /\ entry'[d].watchFollow => entry[d].watchFollow /\ d # e
           /\ entry[d].cut => entry'[d].cut
           /\ d \in Top.todo /\ d # e /\ entry[d].live => entry'[d].cut
<1> SUFFICES ASSUME NEW d \in Entries
             PROVE  /\ entry'[d] \in EntryType
                    /\ entry'[d].live = entry[d].live /\ entry'[d].key = entry[d].key
                    /\ entry'[d].leases = entry[d].leases /\ entry'[d].open = entry[d].open
                    /\ entry'[d].laneStatus = entry[d].laneStatus
                    /\ entry'[d].destroyTimer = entry[d].destroyTimer
                    /\ entry'[d].following = entry[d].following
                    /\ entry'[d].watchFollow => entry[d].watchFollow /\ d # e
                    /\ entry[d].cut => entry'[d].cut
                    /\ d \in Top.todo /\ d # e /\ entry[d].live => entry'[d].cut
  OBVIOUS
<1>1. PICK x \in EntryType : x = entry[d]
  BY DEF Links
<1>2. CASE d = e
  BY <1>1, <1>2 DEF UnwatchAborts, Dropped, EntryType
<1>3. CASE d # e
  BY <1>1, <1>3 DEF UnwatchAborts, EntryType
<1> QED
  BY <1>2, <1>3

LEMMA AbortUnderway ==
  ASSUME IInv, PoolAssumption, Underway, Settled, Call = "unwatch", NEW e \in Entries, UnwatchAborts(e)
  PROVE  Underway'
<1> DEFINE gone == {<<"unwatch", d>> : d \in Top.todo}
<1>1. stack # <<>> /\ stack \in Seq(Frames) /\ Top.call = "unwatch" /\ Len(stack) \in DOMAIN stack
  BY TopFrame DEF IInv, Typed
<1>2. Flow(stack, stack', gone, {}, {})
  <2>1. \A d \in Entries : d \in stack[Len(stack)].todo => <<stack[Len(stack)].call, d>> \in gone
    BY <1>1 DEF Top
  <2> HIDE DEF gone
  <2> QED
    BY <1>1, <2>1, FlowPopOver DEF UnwatchAborts
<1>3. \A d : <<"unwatch", d>> \in gone => d \in Top.todo
  OBVIOUS
<1>4. \A call, d : <<call, d>> \in gone => call = "unwatch"
  OBVIOUS
<1> HIDE DEF gone
<1>5. \A d \in Entries : /\ entry'[d].live = entry[d].live /\ entry'[d].leases = entry[d].leases
                         /\ entry'[d].open = entry[d].open /\ entry'[d].following = entry[d].following
                         /\ entry'[d].watchFollow => entry[d].watchFollow /\ d # e
                         /\ entry[d].cut => entry'[d].cut
                         /\ d \in Top.todo /\ d # e /\ entry[d].live => entry'[d].cut
  BY AbortedIs DEF IInv
<1>6. UNCHANGED <<entries, statuses, reported, paused, watchers>>
  BY DEF UnwatchAborts, Settled
<1>7. Opening'
  <2>1. ASSUME NEW d \in Entries, entry'[d].live
        PROVE  /\ paused /\ entry'[d].open => Looping(stack', "pause", d)
               /\ ~paused /\ entry'[d].leases > 0 /\ ~entry'[d].open => Looping(stack', "resume", d)
    BY <1>2, <1>4, <1>5, <2>1 DEF Underway, Opening, Flow, LoopCalls
  <2>2. (Calling(stack', "pause") => paused) /\ (Calling(stack', "resume") => ~paused)
    BY <1>2 DEF Flow, Underway, Opening, LoopCalls
  <2>3. ASSUME NEW c \in Chains, Acquiring(stack', c)
        PROVE  ~paused /\ (entries[c] = None \/ entry'[entries[c]].open)
    BY <1>2, <1>5, <2>3 DEF Flow, Underway, Opening, IInv, Links
  <2> QED
    BY <1>6, <2>1, <2>2, <2>3 DEF Opening
<1>8. watchers = {}
  BY <1>1 DEF Underway, Watching, Calling, Top
<1>9. ASSUME NEW d \in Entries
      PROVE  Wanted(entry'[d], stack', d)
  <2>1. Unwatching(stack, d) => Unwatching(stack', d) \/ d \in Top.todo
    BY <1>2, <1>3, <1>4 DEF Flow, Unwatching, LoopCalls
  <2> QED
    BY <1>5, <1>8, <2>1 DEF Underway, Watching, Wanted
<1>10. Watching'
  BY <1>2, <1>6, <1>8, <1>9 DEF Underway, Watching, Wanted, Flow, LoopCalls
<1> QED
  BY <1>7, <1>10 DEF Underway

LEMMA LoopsUnderway ==
  ASSUME IInv, PoolAssumption, Underway, NEW e \in Entries,
         PauseEntry(e) \/ ResumeEntry(e) \/ WatchEntry(e) \/ UnwatchEntry(e)
  PROVE  Underway'
<1> DEFINE c == entry[e].key
           gone == {<<Call, e>>}
<1>0. /\ stack \in Seq(Frames) /\ Settled /\ Call \in LoopCalls
      /\ Sessions(e) \in SUBSET Leases
  BY DEF PauseEntry, ResumeEntry, WatchEntry, UnwatchEntry, Settled, IInv, Typed, LoopCalls, Sessions
<1>1. entry[e].live => entry[e] \in EntryType /\ c \in Chains /\ entries[c] = e
  BY LiveInMap DEF IInv
<1>2. /\ Flow(stack, Visited(e), gone, {}, {}) /\ Flow(stack, Skipped(e), gone, {}, {})
      /\ Calling(stack, Call)
  BY <1>0, FlowVisited
<1>3. Visited(e) \in Seq(Frames)
  BY <1>0, QuietLoop DEF Quiet, LoopCalls
<1>4. Flow(stack, TellHalt(Visited(e), Sessions(e)), gone, {}, {})
  BY <1>0, <1>2, <1>3, FlowHalt, FlowOn
<1>5. \A d \in Entries, call \in LoopCalls : <<call, d>> \in gone => d = e /\ call = Call
  OBVIOUS
<1>6. /\ Call = "pause" => paused
      /\ Call = "resume" => ~paused
      /\ Call = "watch" => watchers # {}
      /\ Call \in {"unwatch", "sync"} => watchers = {}
  BY <1>2 DEF Underway, Opening, Watching
<1>14. Starts({})
  BY DEF Starts
<1> HIDE DEF gone
<1>7. ASSUME entry[e].live, Destroy(c, e), stack' = TellHalt(Visited(e), Sessions(e))
      PROVE  Underway'
  BY <1>0, <1>1, <1>4, <1>5, <1>7, DestroyUnderway
<1>8. ASSUME stack' = Skipped(e), UNCHANGED <<entries, entry, statuses, reported>>,
             \/ ~entry[e].live \/ (Call = "resume" /\ entry[e].leases = 0)
             \/ Call \in {"unwatch", "sync"} /\ ~entry[e].watchFollow
      PROVE  Underway'
  BY <1>0, <1>2, <1>5, <1>8, StillUnderway
<1>9. ASSUME entry[e].live, NEW r \in EntryType, r.live, Fits(e, r), NEW status,
             Call \in Hearing \/ r.open = ~paused, stack' = Visited(e),
             \/ Put(c, e, r, status) /\ Tells(c, e, r, status, gone)
             \/ Update(c, e, r, status) /\ CutStays(e, r) /\ Call # "watch"
      PROVE  Underway'
  <2>1. PassedBy(gone, e, r) /\ (Call # "watch" => <<"watch", e>> \notin gone)
    BY <1>5, <1>9 DEF PassedBy, LoopCalls
  <2> QED
    BY <1>0, <1>1, <1>2, <1>9, <1>14, <2>1, PutUnderway, UpdateUnderway
<1>10. CASE PauseEntry(e)
  <2> DEFINE r == [entry[e] EXCEPT !.open = FALSE, !.laneStatus = "disconnected",
                                   !.following = @ /\ ~entry[e].watchFollow]
  <2>0. paused /\ Call = "pause"
    BY <1>6, <1>10 DEF PauseEntry
  <2>1. entry[e].live => /\ r \in EntryType /\ r.live /\ r.open = FALSE /\ r.cut = entry[e].cut
                         /\ r.leases = entry[e].leases /\ r.watchFollow = entry[e].watchFollow
    BY <1>1 DEF EntryType, Statuses
  <2>2. \/ /\ ~entry[e].live /\ stack' = Skipped(e)
           /\ UNCHANGED <<entries, entry, statuses, reported>>
        \/ entry[e].live /\ Update(c, e, r, "disconnected") /\ stack' = Visited(e)
        \/ entry[e].live /\ Destroy(c, e) /\ stack' = TellHalt(Visited(e), Sessions(e))
    BY <1>10 DEF PauseEntry
  <2> HIDE DEF r, c
  <2>3. ASSUME entry[e].live, stack' = Visited(e)
        PROVE  Fits(e, r) /\ CutStays(e, r) /\ r.open = ~paused
    <3>1. Unwatching(stack, e) => Unwatching(stack', e)
      BY <1>2, <1>5, <2>0, <2>3 DEF Flow, Unwatching, LoopCalls
    <3> QED
      BY <2>0, <2>1, <2>3, <3>1 DEF Fits, CutStays, Underway, Watching, Wanted
  <2> QED
    BY <1>7, <1>8, <1>9, <2>0, <2>1, <2>2, <2>3
<1>11. CASE ResumeEntry(e)
  <2>0. ~paused /\ Call = "resume"
    BY <1>6, <1>11 DEF ResumeEntry
  <2>1. CASE ~entry[e].live \/ ~(entry[e].leases > 0)
    <3>1. ~entry[e].live \/ entry[e].leases = 0
      BY <1>1, <2>1 DEF EntryType
    <3> QED
      BY <1>8, <1>11, <2>0, <2>1, <3>1 DEF ResumeEntry
  <2>2. CASE entry[e].live /\ Destroy(c, e) /\ stack' = TellHalt(Visited(e), Sessions(e))
    BY <1>7, <2>2
  <2>3. CASE /\ entry[e].live /\ entry' = [entry EXCEPT ![e].open = TRUE]
             /\ stack' = Visited(e) /\ UNCHANGED <<entries, statuses, reported>>
    <3>1. \A d \in Entries : /\ entry'[d].live = entry[d].live
                             /\ entry'[d].leases = entry[d].leases
                             /\ entry'[d].watchFollow = entry[d].watchFollow
                             /\ entry'[d].following = entry[d].following
                             /\ entry'[d].cut = entry[d].cut
                             /\ d # e => entry'[d].open = entry[d].open
      BY <2>3 DEF IInv, Links, EntryType
    <3>2. entry'[e].open
      BY <2>3 DEF IInv, Links, EntryType
    <3>3. /\ \A call \in LoopCalls, d \in Entries :
               Looping(stack, call, d) /\ (d # e \/ call # "resume") => Looping(stack', call, d)
          /\ \A call \in LoopCalls : Calling(stack', call) => Calling(stack, call)
          /\ \A d \in Chains : Acquiring(stack', d) => Acquiring(stack, d)
      BY <1>2, <1>5, <2>0, <2>3 DEF Flow
    <3>4. Opening'
      <4>1. ASSUME NEW d \in Entries, entry'[d].live
            PROVE  ~paused /\ entry'[d].leases > 0 /\ ~entry'[d].open => Looping(stack', "resume", d)
        BY <3>1, <3>2, <3>3, <4>1 DEF Underway, Opening, LoopCalls
      <4>2. ASSUME NEW d \in Chains, Acquiring(stack', d)
            PROVE  entries[d] = None \/ entry'[entries[d]].open
        BY <3>1, <3>2, <3>3, <4>2 DEF Underway, Opening, IInv, Links
      <4>3. Calling(stack', "pause") => paused
        BY <3>3 DEF Underway, Opening, LoopCalls
      <4> QED
        BY <1>0, <2>0, <2>3, <4>1, <4>2, <4>3 DEF Opening, Settled
    <3>5. Watching'
      <4>1. \A d \in Chains : Current(d)' = Current(d)
        BY <2>3, <3>1 DEF Current, Activity, IInv, Links
      <4>2. \A d \in Chains : entries[d] # None /\ Looping(stack, "watch", entries[d])
                                => Looping(stack', "watch", entries[d])
        BY <3>3 DEF LoopCalls, IInv, Links
      <4>3. /\ Calling(stack', "watch") => watchers # {}
            /\ Calling(stack', "unwatch") \/ Calling(stack', "sync") => watchers = {}
        BY <3>3 DEF Underway, Watching, LoopCalls
      <4>4. \A d \in Entries : Wanted(entry'[d], stack', d)
        BY <3>1, <3>3 DEF Underway, Watching, Wanted, Unwatching, LoopCalls
      <4>5. \A d \in Chains : entries[d] # None => entry'[entries[d]].cut = entry[entries[d]].cut
        BY <3>1 DEF IInv, Links
      <4>6. \A d \in Chains : Heard(d) => Heard(d)'
        BY <2>3, <4>1, <4>2, <4>5 DEF Heard
      <4> QED
        BY <1>0, <2>3, <4>3, <4>4, <4>6 DEF Underway, Watching, Settled, Wanted
    <3> QED
      BY <3>4, <3>5 DEF Underway
  <2> QED
    BY <1>11, <2>1, <2>2, <2>3 DEF ResumeEntry
<1>12. CASE WatchEntry(e)
  <2> DEFINE opens == entry[e].leases > 0 /\ ~entry[e].watchFollow
             heard == [entry[e] EXCEPT !.cut = @ /\ entry[e].leases = 0]
             r == [heard EXCEPT !.watchFollow = @ \/ opens]
  <2>0. watchers # {} /\ Call = "watch"
    BY <1>6, <1>12 DEF WatchEntry
  <2>1. ASSUME entry[e].live, NEW x \in {r, heard}
        PROVE  /\ x \in EntryType /\ x.live /\ x.open = entry[e].open
               /\ x.leases = entry[e].leases /\ x.following = entry[e].following
               /\ x.watchFollow => entry[e].watchFollow \/ entry[e].leases > 0
               /\ x.cut = (entry[e].cut /\ entry[e].leases = 0)
    <3>1. /\ heard \in EntryType /\ heard.live /\ heard.open = entry[e].open
          /\ heard.leases = entry[e].leases /\ heard.following = entry[e].following
          /\ heard.watchFollow = entry[e].watchFollow
          /\ heard.cut = (entry[e].cut /\ entry[e].leases = 0)
      BY <1>1, <2>1 DEF EntryType
    <3> HIDE DEF heard
    <3> QED
      BY <2>1, <3>1 DEF EntryType
  <2>2. \/ /\ ~entry[e].live /\ stack' = Skipped(e)
           /\ UNCHANGED <<entries, entry, statuses, reported>>
        \/ /\ entry[e].live /\ stack' = Visited(e) /\ Report(c, entry[e], statuses[c])
           /\ \E x \in {r, heard} : Put(c, e, x, statuses[c])
        \/ entry[e].live /\ Destroy(c, e) /\ stack' = TellHalt(Visited(e), Sessions(e))
    BY <1>12 DEF WatchEntry
  <2> HIDE DEF r, heard, c
  <2>3. ASSUME entry[e].live, NEW x \in {r, heard}, Put(c, e, x, statuses[c]),
               stack' = Visited(e), Report(c, entry[e], statuses[c])
        PROVE  Underway'
    <3>1. PICK y : y = x
      OBVIOUS
    <3>2. /\ y \in EntryType /\ y.live /\ y.open = entry[e].open
          /\ y.leases = entry[e].leases /\ y.following = entry[e].following
          /\ y.watchFollow => entry[e].watchFollow \/ entry[e].leases > 0
          /\ y.cut = (entry[e].cut /\ entry[e].leases = 0)
      BY <2>1, <2>3, <3>1
    <3>3. Activity(y, statuses[c]) = Activity(entry[e], statuses[c])
      BY <2>3, <3>2 DEF Activity
    <3>4. Tells(c, e, y, statuses[c], gone)
      BY <2>3, <3>3 DEF Tells, Report
    <3>5. Wanted(y, stack', e)
      BY <2>0, <3>2 DEF Wanted, Underway, Watching
    <3> QED
      BY <1>9, <2>0, <2>3, <3>1, <3>2, <3>4, <3>5 DEF Fits, Hearing
  <2> QED
    BY <1>7, <1>8, <2>2, <2>3
<1>13. CASE UnwatchEntry(e)
  <2> DEFINE r == Synced(entry[e])
  <2>0. watchers = {} /\ Call \in {"unwatch", "sync"}
    BY <1>6, <1>13 DEF UnwatchEntry
  <2>1. ASSUME entry[e].watchFollow
        PROVE  /\ entry[e].live /\ r \in EntryType /\ r.live /\ r.open = entry[e].open
               /\ r.leases = entry[e].leases /\ ~r.watchFollow
    <3>1. entry[e].live
      BY <2>1 DEF IInv, Links, DeadIsIdle
    <3>2. FollowEnds(entry[e])
      BY <2>0, <2>1 DEF FollowEnds
    <3> QED
      BY <1>1, <3>1, <3>2, SyncedIs
  <2>2. \/ /\ ~entry[e].watchFollow /\ stack' = Skipped(e)
           /\ UNCHANGED <<entries, entry, statuses, reported>>
        \/ /\ entry[e].watchFollow /\ Put(c, e, r, statuses[c])
           /\ stack' = Visited(e) /\ UNCHANGED reported
        \/ /\ entry[e].watchFollow /\ Call = "unwatch" /\ UnwatchAborts(e)
        \/ /\ entry[e].watchFollow /\ Destroy(c, e)
           /\ stack' = TellHalt(Visited(e), Sessions(e))
    BY <1>13 DEF UnwatchEntry, UnwatchAborts
  <2> HIDE DEF r, c
  <2>3. CASE entry[e].watchFollow /\ Put(c, e, r, statuses[c]) /\ stack' = Visited(e) /\ UNCHANGED reported
    <3>1. Fits(e, r) /\ Tells(c, e, r, statuses[c], gone)
      BY <2>0, <2>1, <2>3 DEF Fits, Wanted, Tells
    <3> QED
      BY <1>9, <2>0, <2>1, <2>3, <3>1 DEF Hearing
  <2>4. CASE Call = "unwatch" /\ UnwatchAborts(e)
    BY <1>0, <2>4, AbortUnderway
  <2> QED
    BY <1>7, <1>8, <2>0, <2>1, <2>2, <2>3, <2>4
<1> QED
  BY <1>10, <1>11, <1>12, <1>13

LEMMA OwnersUnderway ==
  ASSUME IInv, PoolAssumption, Underway, OwnerStep
  PROVE  Underway'
<1>0. /\ stack = <<>> /\ LiveEntries \in SUBSET Entries /\ stack \in Seq(Frames)
      /\ \A call, e : ~Looping(stack, call, e)
      /\ \A call : ~Calling(stack, call)
      /\ \A c : ~Acquiring(stack, c)
  <2>1. stack = <<>>
    BY DEF OwnerStep, Pause, Resume, DisconnectAll, Watch, Unwatch, Turn
  <2>2. DOMAIN stack = {}
    BY <2>1
  <2> QED
    BY <2>1, <2>2 DEF LiveEntries, Looping, Calling, Acquiring
<1>1. ASSUME NEW call \in LoopCalls, stack' = Push(stack, Loop(call, LiveEntries))
      PROVE  /\ \A e \in Entries : entry[e].live => Looping(stack', call, e)
             /\ \A other \in LoopCalls : Calling(stack', other) => other = call
             /\ \A c \in Chains : ~Acquiring(stack', c)
  <2>1. PICK u : u = Push(stack, Loop(call, LiveEntries))
    OBVIOUS
  <2>2. Flow(stack, u, {}, {call}, {}) /\ \A e \in LiveEntries : Looping(u, call, e)
    BY <1>0, <2>1, FlowLoop
  <2> QED
    BY <1>0, <1>1, <2>1, <2>2 DEF Flow, LiveEntries
<1>2. CASE Pause \/ Resume
  <2>1. UNCHANGED <<entries, entry, statuses, reported, watchers>>
    BY <1>2 DEF Pause, Resume
  <2>2. \A c \in Chains : Current(c)' = Current(c)
    BY <2>1 DEF Current, Activity
  <2>3. CASE Pause
    <3>1. paused' /\ stack' = Push(stack, Loop("pause", LiveEntries))
      BY <2>3 DEF Pause
    <3>2. Opening'
      BY <1>1, <2>1, <3>1 DEF Opening, LoopCalls
    <3>3. Watching'
      BY <1>0, <1>1, <2>1, <2>2, <3>1 DEF Underway, Watching, LoopCalls, Wanted, Unwatching, Heard
    <3> QED
      BY <3>2, <3>3 DEF Underway
  <2>4. CASE Resume
    <3>1. paused' = FALSE /\ stack' = Push(stack, Loop("resume", LiveEntries))
      BY <2>4 DEF Resume
    <3>2. Opening'
      BY <1>1, <2>1, <3>1 DEF Opening, LoopCalls
    <3>3. Watching'
      BY <1>0, <1>1, <2>1, <2>2, <3>1 DEF Underway, Watching, LoopCalls, Wanted, Unwatching, Heard
    <3> QED
      BY <3>2, <3>3 DEF Underway
  <2> QED
    BY <1>2, <2>3, <2>4
<1>3. ASSUME NEW w \in Watchers, Watch(w)
      PROVE  Underway'
  <2>1. /\ UNCHANGED <<entries, entry, statuses, reported, paused>> /\ watchers' # {}
        /\ stack' = Push(stack, Loop("watch", LiveEntries))
    BY <1>3 DEF Watch
  <2>2. Opening'
    BY <1>0, <1>1, <2>1 DEF Underway, Opening, LoopCalls
  <2>3. \A c \in Chains : Current(c)' = Current(c)
    BY <2>1 DEF Current, Activity
  <2>4. ASSUME NEW c \in Chains
        PROVE  \/ reported[c] = Current(c)
               \/ entries[c] # None /\ (entry[entries[c]].cut \/ Looping(stack', "watch", entries[c]))
    <3>1. CASE entries[c] # None
      <4>1. entries[c] \in Entries /\ entry[entries[c]].live
        BY <3>1 DEF IInv, Links, OneEntryPerChain
      <4> QED
        BY <1>1, <2>1, <3>1, <4>1 DEF LoopCalls
    <3>2. CASE entries[c] = None
      <4>1. Current(c) = NoActivity
        BY <3>2 DEF Current, Activity, Closed, NoActivity, IInv, Links, StatusIsCurrent
      <4> QED
        BY <1>0, <3>2, <4>1 DEF Underway, Watching, Heard
    <3> QED
      BY <3>1, <3>2
  <2>5. \A e \in Entries : entry[e].watchFollow => entry[e].live /\ entry[e].leases > 0
    BY DEF Underway, Watching, Wanted
  <2>7. ~Calling(stack', "unwatch") /\ ~Calling(stack', "sync")
    BY <1>1, <2>1 DEF LoopCalls
  <2>6. Watching'
    BY <2>1, <2>3, <2>4, <2>5, <2>7 DEF Watching, Wanted, Heard
  <2> QED
    BY <2>2, <2>6 DEF Underway
<1>4. ASSUME NEW w \in Watchers, Unwatch(w)
      PROVE  Underway'
  <2>1. UNCHANGED <<entries, entry, statuses, paused>>
    BY <1>4 DEF Unwatch
  <2>4. \A c \in Chains : Current(c)' = Current(c)
    BY <2>1 DEF Current, Activity
  <2>2. CASE watchers' # {}
    <3>1. UNCHANGED <<reported, stack>> /\ watchers # {}
      BY <1>4, <2>2 DEF Unwatch
    <3> QED
      BY <1>0, <2>1, <2>2, <2>4, <3>1 DEF Underway, Opening, Watching, Wanted, Heard
  <2>3. CASE watchers' = {}
    <3>1. /\ stack' = Push(stack, Loop("unwatch", LiveEntries))
          /\ \A c \in Chains : reported'[c] = NoActivity
      BY <1>4, <2>3 DEF Unwatch
    <3>3. Opening'
      BY <1>0, <1>1, <2>1, <3>1 DEF Underway, Opening, LoopCalls
    <3>4. Watching'
      <4>1. ~Calling(stack', "watch")
        BY <1>1, <3>1 DEF LoopCalls
      <4>2. ASSUME NEW e \in Entries, entry[e].watchFollow
            PROVE  entry[e].live /\ entry[e].leases > 0 /\ Looping(stack', "unwatch", e)
        BY <1>1, <3>1, <4>2 DEF Underway, Watching, Wanted, LoopCalls
      <4> QED
        BY <2>1, <2>3, <3>1, <4>1, <4>2 DEF Watching, Wanted, Unwatching
    <3> QED
      BY <3>3, <3>4 DEF Underway
  <2> QED
    BY <2>2, <2>3
<1>5. CASE DisconnectAll
  <2>1. /\ \A c \in Chains : /\ entries'[c] = None /\ statuses'[c] = "disconnected"
                             /\ reported'[c] = NoActivity
        /\ \A e \in Entries : ~entry'[e].live /\ ~entry'[e].watchFollow
        /\ UNCHANGED <<paused, watchers, stack>>
    BY <1>5 DEF DisconnectAll, Closed
  <2>2. \A c \in Chains : Current(c)' = NoActivity
    BY <2>1 DEF Current, Activity, Closed, NoActivity
  <2>3. Opening'
    BY <1>0, <2>1 DEF Opening
  <2>4. Watching'
    <3>1. \A call : ~Calling(stack', call)
      BY <1>0, <2>1
    <3> QED
      BY <2>1, <2>2, <3>1 DEF Watching, Wanted, Heard
  <2> QED
    BY <2>3, <2>4 DEF Underway
<1> QED
  BY <1>2, <1>3, <1>4, <1>5 DEF OwnerStep

LEMMA NextUnderway ==
  ASSUME PoolAssumption, IInv, Underway, [Next]_vars
  PROVE  Underway'
<1>1. CASE UNCHANGED vars \/ \E l \in Leases : ReleaseAgain(l)
  <2>1. UNCHANGED vars
    BY <1>1 DEF ReleaseAgain
  <2> QED
    BY <2>1, FlowSame, StillUnderway DEF vars, Settled
<1>2. CASE RuntimeStep
  BY <1>2, ContinueUnderway, TellsUnderway, EntriesUnderway, LoopsUnderway DEF RuntimeStep
<1>3. CASE ConsumerStep
  BY <1>1, <1>3, AcquiresUnderway, ReleasesUnderway DEF ConsumerStep
<1>4. CASE TransportStep
  BY <1>4, EntriesUnderway DEF TransportStep
<1>5. CASE OwnerStep
  BY <1>5, OwnersUnderway
<1> QED
  BY <1>1, <1>2, <1>3, <1>4, <1>5 DEF Next

\* Whatever consumers do inside a delivery, a loop in progress accounts for everything a
\* pause, a resume or the watchers still miss (pause, resume, watch).
THEOREM PoolUnderway == Spec => [](IInv /\ Underway)
<1>1. Init => IInv /\ Underway
  <2>1. Init => IInv
    BY InitInvariant, PoolAssumption
  <2>2. Init => Underway
    BY DEF Init, Underway, Opening, Watching, Wanted, Closed, Calling, Acquiring
  <2> QED
    BY <2>1, <2>2
<1>2. IInv /\ Underway /\ [Next]_vars => (IInv /\ Underway)'
  BY NextInvariant, NextUnderway, PoolAssumption
<1> QED
  BY <1>1, <1>2, PTL DEF Spec

\* Between turns no loop is in progress.
LEMMA TurnIsQuiet ==
  ASSUME Turn
  PROVE  (\A call, e : ~Looping(stack, call, e)) /\ (\A e : ~Unwatching(stack, e))
  BY DEF Turn, Looping, Unwatching

\* Between turns a paused pool has no connection open and a running one has every leased
\* chain open, whatever a consumer leased, released or halted inside the loops' deliveries,
\* and whichever calls failed (pause, resume, acquire).
THEOREM PoolPauseIsComplete == Spec => []PauseIsComplete
<1>1. Underway => PauseIsComplete
  BY TurnIsQuiet DEF Underway, Opening, PauseIsComplete, LiveEntries
<1> QED
  BY <1>1, PoolUnderway, PTL

\* Between turns the watchers' follow is open on held and watched chains only, and the last
\* activity the watchers heard of each chain is the chain's own; but for an entry that a throw out
\* of that follow's end left without its report or its sync, until a later call makes up for it
\* (syncWatchFollow, report).
THEOREM PoolWatchingIsCurrent == Spec => []WatchingIsCurrent
<1>1. Underway => WatchFollowIsWanted
  BY TurnIsQuiet DEF Underway, Watching, Wanted, WatchFollowIsWanted
<1>2. Underway => WatchersAreCurrent
  BY TurnIsQuiet DEF Underway, Watching, Heard, Current, WatchersAreCurrent
<1> QED
  BY <1>1, <1>2, PoolUnderway, PTL DEF WatchingIsCurrent

----------------------------------------------------------------------------
(***************************************************************************)
(* ChainPool implements ChainLeases, for any number of chains, entries,     *)
(* leases and watchers, where a paused chain always opens again.            *)
(*                                                                          *)
(* It rests on one fact about the halts that are still being told (Told):   *)
(* each lease is owed the news by one of them at most, its chain is gone by *)
(* then, and a lease whose chain is gone heard so or is still owed it.      *)
(***************************************************************************)

\* The halts of stack s that have still to tell lease l.
Owing(s, l) == {i \in DOMAIN s : s[i].call = "halt" /\ l \in s[i].todo}

Told ==
  \A l \in Leases :
    /\ \A i, j \in Owing(stack, l) : i = j
    /\ Owing(stack, l) # {} =>
         /\ lease[l].fate = "open"
         /\ lease[l].state = "held" => ~entry[lease[l].entry].live
    /\ lease[l].state = "held" =>
         IF entry[lease[l].entry].live THEN lease[l].fate = "open"
         ELSE lease[l].fate # "open" \/ Owing(stack, l) # {}

LeasesInv == Countdown /\ Told

\* What the abstract specification sees of the pool.
Up == [c \in Chains |-> entries[c] # None]
Holders == [c \in Chains |-> IF entries[c] = None THEN {} ELSE Sessions(entries[c])]
Taken == {l \in Leases : lease[l].state = "held"}
Unloaded == {l \in Leases : lease[l].fate = "unloaded"}
Owed == {l \in Leases : \E i \in DOMAIN stack : stack[i].call = "halt" /\ l \in stack[i].todo}

----------------------------------------------------------------------------
(* The stack. *)

\* Stack t owes the leases of `told` the news, and all others what s did.
News(s, t, told) ==
  \A l \in Leases : /\ l \notin told => Owing(t, l) = Owing(s, l)
                    /\ l \in told /\ Owing(s, l) = {} => \E n : Owing(t, l) = {n}

LEMMA PushNews ==
  ASSUME NEW s \in Seq(Frames), NEW f \in Frames, f.call # "halt"
  PROVE  News(s, Push(s, f), {})
<1>1. /\ DOMAIN Push(s, f) = DOMAIN s \cup {Len(s) + 1}
      /\ \A i \in DOMAIN s : Push(s, f)[i] = s[i]
      /\ Push(s, f)[Len(s) + 1] = f
  BY DEF Push
<1>. QED BY <1>1 DEF News, Owing

LEMMA TellHaltNews ==
  ASSUME NEW s \in Seq(Frames), NEW told \in SUBSET Leases
  PROVE  News(s, TellHalt(s, told), told)
<1> DEFINE f == [call |-> "halt", todo |-> told]
<1>1. CASE told = {}
  BY <1>1 DEF TellHalt, News
<1>2. CASE told # {}
  <2>1. /\ DOMAIN Push(s, f) = DOMAIN s \cup {Len(s) + 1}
        /\ \A i \in DOMAIN s : Push(s, f)[i] = s[i]
        /\ Push(s, f)[Len(s) + 1] = f
        /\ Len(s) + 1 \notin DOMAIN s
    BY FrameTypes DEF Push
  <2>2. \A l \in Leases : Owing(Push(s, f), l) = Owing(s, l) \cup (IF l \in told THEN {Len(s) + 1} ELSE {})
    BY <2>1 DEF Owing
  <2>3. TellHalt(s, told) = Push(s, f)
    BY <1>2 DEF TellHalt
  <2>. QED BY <2>2, <2>3 DEF News
<1>. QED BY <1>1, <1>2

LEMMA PopNews ==
  ASSUME NEW s \in Seq(Frames), s # <<>>, s[Len(s)].call # "halt" \/ s[Len(s)].todo = {}
  PROVE  News(s, Pop(s), {})
<1>1. /\ DOMAIN Pop(s) = DOMAIN s \ {Len(s)}
      /\ \A i \in DOMAIN Pop(s) : Pop(s)[i] = s[i]
      /\ Len(s) \in DOMAIN s
  BY DEF Pop
<1>2. \A l \in Leases : Len(s) \notin Owing(s, l)
  BY DEF Owing
<1>. QED BY <1>1, <1>2 DEF News, Owing

\* A loop that goes on to the next entry owes nobody anything.
LEMMA LoopNews ==
  ASSUME stack \in Seq(Frames), Call \in LoopCalls, NEW e
  PROVE  News(stack, Visited(e), {}) /\ News(stack, Skipped(e), {})
<1>1. stack # <<>> /\ Top \in Frames /\ Call = Top.call /\ Len(stack) \in DOMAIN stack
  BY TopFrame DEF Call, LoopCalls
<1>2. Top \in [call: LoopCalls, todo: SUBSET Entries, delivers: BOOLEAN]
  BY <1>1 DEF Frames, LoopCalls
<1>3. ASSUME NEW f, f.call \in LoopCalls
      PROVE  News(stack, [stack EXCEPT ![Len(stack)] = f], {})
  BY <1>1, <1>2, <1>3 DEF News, Owing, Top, LoopCalls
<1> DEFINE f(d) == [Top EXCEPT !.todo = @ \ {e}, !.delivers = d]
<1>4. \A d \in BOOLEAN : f(d).call \in LoopCalls
  BY <1>2
<1>5. /\ Visited(e) = [stack EXCEPT ![Len(stack)] = f(TRUE)]
      /\ Skipped(e) = [stack EXCEPT ![Len(stack)] = f(FALSE)]
  <2> DEFINE n == Len(stack)
  <2>1. n \in DOMAIN stack /\ Top = stack[n]
    BY <1>1 DEF Top
  <2>2. ASSUME NEW d \in BOOLEAN
        PROVE  [stack EXCEPT ![n].todo = @ \ {e}, ![n].delivers = d] = [stack EXCEPT ![n] = f(d)]
    <3> HIDE DEF n
    <3>. QED BY <1>2, <2>1
  <2>. QED BY <2>2 DEF Visited, Skipped
<1> HIDE DEF f
<1>6. \A d \in BOOLEAN : News(stack, [stack EXCEPT ![Len(stack)] = f(d)], {})
  BY <1>3, <1>4
<1>. QED BY <1>5, <1>6

----------------------------------------------------------------------------
(* What a step may do, and what the abstract specification makes of it. *)

\* News from one stack to the next, and on to a third.
LEMMA NewsOn ==
  ASSUME NEW s, NEW t, NEW u, NEW told, News(s, t, {}), News(t, u, told)
  PROVE  News(s, u, told)
  BY DEF News

\* Nobody hears anything, and no chain that someone leases goes.
Calm ==
  /\ News(stack, stack', {})
  /\ \A l \in Leases :
       lease'[l].state = "held" => entry'[lease[l].entry].live = entry[lease[l].entry].live

LEMMA CalmTold ==
  ASSUME Told, Calm,
         \A l \in Leases : lease'[l] = lease[l] \/ (lease'[l].state # "held" /\ lease'[l].fate = lease[l].fate)
  PROVE  Told'
<1>1. \A l \in Leases : Owing(stack', l) = Owing(stack, l)
  BY DEF Calm, News
<1>2. ASSUME NEW l \in Leases
      PROVE  /\ \A i, j \in Owing(stack', l) : i = j
             /\ Owing(stack', l) # {} =>
                  /\ lease'[l].fate = "open"
                  /\ lease'[l].state = "held" => ~entry'[lease'[l].entry].live
             /\ lease'[l].state = "held" =>
                  IF entry'[lease'[l].entry].live THEN lease'[l].fate = "open"
                  ELSE lease'[l].fate # "open" \/ Owing(stack', l) # {}
  <2>1. CASE lease'[l] = lease[l]
    BY <1>1, <2>1 DEF Told, Calm
  <2>2. CASE lease'[l].state # "held" /\ lease'[l].fate = lease[l].fate
    BY <1>1, <2>2 DEF Told
  <2>. QED BY <2>1, <2>2
<1>. QED BY <1>2 DEF Told, Owing

\* Who is owed the news is who some halt has still to tell.
LEMMA OwedIs ==
  /\ Owed = {l \in Leases : Owing(stack, l) # {}}
  /\ Owed' = {l \in Leases : Owing(stack', l) # {}}
  BY DEF Owed, Owing

LEMMA CalmOwed ==
  ASSUME News(stack, stack', {})
  PROVE  Owed' = Owed
  BY OwedIs DEF News

\* A step that leaves the map and the leases alone is a stutter.
LEMMA StutterStep ==
  ASSUME UNCHANGED <<entries, lease>>, News(stack, stack', {})
  PROVE  UNCHANGED Promise!vars
<1>1. Owed' = Owed
  BY CalmOwed
<1>2. Up' = Up /\ Holders' = Holders /\ Taken' = Taken /\ Unloaded' = Unloaded
  BY DEF Up, Holders, Taken, Unloaded, Sessions
<1>. QED BY <1>1, <1>2 DEF Promise!vars, Up, Holders, Taken, Unloaded, Owed

\* A chain is built that nobody leases yet.
LEMMA OpenStep ==
  ASSUME PoolAssumption, NEW c \in Chains, NEW e \in Entries, entries \in [Chains -> Entries \cup {None}],
         entries[c] = None, entries' = [entries EXCEPT ![c] = e], \A l \in Leases : lease[l].entry # e,
         UNCHANGED lease, News(stack, stack', {})
  PROVE  Promise!Open(c)
<1>1. Owed' = Owed
  BY CalmOwed
<1>2. Taken' = Taken /\ Unloaded' = Unloaded
  BY DEF Taken, Unloaded
<1>3. Holders' = Holders
  BY DEF Holders, Sessions
<1>4. ~Up[c] /\ Up' = [Up EXCEPT ![c] = TRUE]
  BY DEF Up, PoolAssumption
<1>. QED BY <1>1, <1>2, <1>3, <1>4 DEF Promise!Open, Up, Holders, Taken, Unloaded, Owed

\* The leases held on each entry, and of them what the abstract specification sees.
On == [e \in Entries |-> Sessions(e)]

LEMMA HoldersOn ==
  ASSUME entries \in [Chains -> Entries \cup {None}], entries' \in [Chains -> Entries \cup {None}]
  PROVE  /\ \A d \in Chains : Holders[d] = IF entries[d] = None THEN {} ELSE On[entries[d]]
         /\ \A d \in Chains : Holders'[d] = IF entries'[d] = None THEN {} ELSE On'[entries'[d]]
         /\ \A e \in Entries : On[e] = Sessions(e)
         /\ \A e \in Entries : On'[e] = {k \in Leases : lease'[k].state = "held" /\ lease'[k].entry = e}
<1>1. /\ \A e \in Entries : On[e] = Sessions(e)
      /\ \A e \in Entries : On'[e] = {k \in Leases : lease'[k].state = "held" /\ lease'[k].entry = e}
  BY DEF On, Sessions
<1>2. /\ \A d \in Chains : Holders[d] = IF entries[d] = None THEN {} ELSE On[entries[d]]
      /\ \A d \in Chains : Holders'[d] = IF entries'[d] = None THEN {} ELSE On'[entries'[d]]
  BY DEF Holders, On, Sessions
<1>. QED BY <1>1, <1>2

\* One chain's holders change.
LEMMA HoldersExcept ==
  ASSUME NEW c \in Chains, NEW h, \A d \in Chains : Holders'[d] = IF d = c THEN h ELSE Holders[d]
  PROVE  Holders' = [Holders EXCEPT ![c] = h]
  BY DEF Holders

LEMMA HoldersSame ==
  ASSUME \A d \in Chains : Holders'[d] = Holders[d]
  PROVE  Holders' = Holders
  BY DEF Holders

\* What every step keeps, and what it is to the abstract specification.
Kept == Told' /\ (Promise!Next \/ UNCHANGED Promise!vars)

\* The map, the leases and what is owed stay as they are.
LEMMA StillKept ==
  ASSUME LeasesInv, UNCHANGED <<entries, lease>>, News(stack, stack', {}),
         \A e \in Entries : entry'[e].live = entry[e].live
  PROVE  Kept
<1>1. Calm
  BY DEF Calm, LeasesInv, Countdown, IInv, Counts
<1>2. Told'
  BY <1>1, CalmTold DEF LeasesInv
<1>. QED BY <1>2, StutterStep DEF Kept

\* A chain is written back, or built.
LEMMA OpenKept ==
  ASSUME LeasesInv, PoolAssumption, NEW c \in Chains, NEW got, Sound(c, got),
         NEW r, r.live, NEW status, Put(c, got.entry, r, status),
         UNCHANGED lease, News(stack, stack', {})
  PROVE  Kept
<1>1. /\ entries' = [entries EXCEPT ![c] = got.entry]
      /\ entry' = [entry EXCEPT ![got.entry] = r]
      /\ entries \in [Chains -> Entries \cup {None}] /\ entry \in [Entries -> EntryType]
      /\ got.entry \in Entries
  BY DEF Put, LeasesInv, Countdown, IInv, Links, Sound
<1>2. CASE entries[c] = got.entry
  <2>1. entries' = entries
    BY <1>1, <1>2
  <2>2. entry[got.entry].live
    BY <1>1, <1>2 DEF LeasesInv, Countdown, IInv, Links, OneEntryPerChain, PoolAssumption
  <2>3. \A e \in Entries : entry'[e].live = entry[e].live
    BY <1>1, <2>2 DEF EntryType
  <2>. QED BY <2>1, <2>3, StillKept
<1>3. CASE entries[c] # got.entry
  <2>1. entries[c] = None /\ ~entry[got.entry].live /\ \A l \in Leases : lease[l].entry # got.entry
    BY <1>3 DEF Sound
  <2>2. Calm
    BY <1>1, <2>1 DEF Calm, LeasesInv, Countdown, IInv, Counts
  <2>3. Told'
    BY <2>2, CalmTold DEF LeasesInv
  <2>4. Promise!Open(c)
    BY <1>1, <2>1, OpenStep
  <2>. QED BY <2>3, <2>4 DEF Kept, Promise!Next
<1>. QED BY <1>2, <1>3

\* A chain goes, and those who lease it are owed the news: quietly, if there are none.
LEMMA HaltKept ==
  ASSUME LeasesInv, PoolAssumption, NEW c \in Chains, NEW e \in Entries,
         \/ entries[c] = e
         \/ entries[c] = None /\ ~entry[e].live /\ \A l \in Leases : lease[l].entry # e,
         Destroy(c, e), UNCHANGED lease, News(stack, stack', Sessions(e))
  PROVE  Kept
<1>1. /\ entries' = [entries EXCEPT ![c] = None]
      /\ entry' = [entry EXCEPT ![e] = Closed]
      /\ entries \in [Chains -> Entries \cup {None}] /\ entry \in [Entries -> EntryType]
      /\ Closed.live = FALSE
  BY DEF Destroy, LeasesInv, Countdown, IInv, Links, Closed
<1>2. \A l \in Leases : lease[l].state = "held" => lease[l].entry \in Entries
  BY DEF LeasesInv, Countdown, IInv, Counts
<1>3. CASE entries[c] = None /\ ~entry[e].live /\ \A l \in Leases : lease[l].entry # e
  <2>1. entries' = entries
    BY <1>1, <1>3
  <2>2. Sessions(e) = {}
    BY <1>3 DEF Sessions
  <2>3. \A d \in Entries : entry'[d].live = entry[d].live
    BY <1>1, <1>3 DEF EntryType
  <2>. QED BY <2>1, <2>2, <2>3, StillKept
<1>4. CASE entries[c] = e
  <2>1. entry[e].live /\ e # None
    BY <1>4 DEF LeasesInv, Countdown, IInv, Links, OneEntryPerChain, PoolAssumption
  <2>2. Told'
    <3>1. ASSUME NEW l \in Leases, l \in Sessions(e)
          PROVE  /\ \A i, j \in Owing(stack', l) : i = j
                 /\ Owing(stack', l) # {}
                 /\ lease[l].fate = "open" /\ ~entry'[lease[l].entry].live
      <4>1. lease[l].state = "held" /\ lease[l].entry = e /\ Owing(stack, l) = {} /\ lease[l].fate = "open"
        BY <2>1, <3>1 DEF Sessions, Told, LeasesInv
      <4>2. PICK n : Owing(stack', l) = {n}
        BY <3>1, <4>1 DEF News
      <4>. QED BY <1>1, <4>1, <4>2
    <3>2. ASSUME NEW l \in Leases, l \notin Sessions(e)
          PROVE  /\ Owing(stack', l) = Owing(stack, l)
                 /\ lease[l].state = "held" => entry'[lease[l].entry] = entry[lease[l].entry]
      BY <1>1, <1>2, <3>2 DEF News, Sessions
    <3>. QED BY <3>1, <3>2 DEF Told, LeasesInv, Owing
  <2>3. Owed' = Owed \cup Sessions(e)
    <3>1. \A l \in Leases : Owing(stack', l) # {} <=> Owing(stack, l) # {} \/ l \in Sessions(e)
      BY <2>1 DEF News, Sessions, Told, LeasesInv
    <3>. QED BY <3>1, OwedIs DEF Sessions
  <2>4. Taken' = Taken \ {} /\ Unloaded' = Unloaded
    BY DEF Taken, Unloaded
  <2>5. Up[c] /\ Up' = [Up EXCEPT ![c] = FALSE]
    BY <1>1, <1>4, <2>1 DEF Up
  <2>6. Holders[c] = Sessions(e) /\ Holders' = [Holders EXCEPT ![c] = {}]
    BY <1>1, <1>4, <2>1 DEF Holders, Sessions
  <2>7. Promise!Halt(c, {})
    BY <2>3, <2>4, <2>5, <2>6 DEF Promise!Halt, Up, Holders, Taken, Unloaded, Owed
  <2>. QED BY <2>2, <2>7 DEF Kept, Promise!Next
<1>. QED BY <1>3, <1>4

\* A chain nobody counts a lease on has no session.
LEMMA UncountedIsFree ==
  ASSUME LeasesInv, PoolAssumption, NEW e \in Entries, entry[e].live, entry[e].leases = 0
  PROVE  Sessions(e) = {}
<1>1. Cardinality(Sessions(e)) = 0
  BY SessionsFinite DEF LeasesInv, Countdown, IInv, Counts, LeasesCounted, LiveEntries
<1>. QED BY <1>1, SessionsFinite, FS_EmptySet

\* The countdown of an entry without a lease, in idle().
LEMMA IdleKept ==
  ASSUME LeasesInv, PoolAssumption, NEW c \in Chains, NEW got, Sound(c, got),
         Idle(c, got.entry, got.now, got.status), UNCHANGED lease, News(stack, stack', {})
  PROVE  Kept
<1> DEFINE r == [got.now EXCEPT !.destroyTimer = @ \/ (Idles(got.now) /\ Delay = "finite")]
<1>1. got.now \in EntryType /\ got.now.live /\ got.entry \in Entries
  BY DEF Sound
<1>2. CASE Idles(got.now) /\ Delay = "zero"
  <2>1. Destroy(c, got.entry) /\ got.now.leases = 0
    BY <1>2 DEF Idle, Idles
  <2>2. Sessions(got.entry) = {}
    <3>1. CASE entry[got.entry].live
      BY <1>1, <2>1, <3>1, UncountedIsFree DEF Sound
    <3>2. CASE ~entry[got.entry].live
      BY <3>2 DEF Sound, Sessions
    <3>. QED BY <3>1, <3>2
  <2>3. CASE entries[c] = got.entry
    BY <1>1, <2>1, <2>2, <2>3, HaltKept
  <2>4. CASE entries[c] # got.entry
    BY <1>1, <2>1, <2>2, <2>4, HaltKept DEF Sound
  <2>. QED BY <2>3, <2>4
<1>3. CASE ~(Idles(got.now) /\ Delay = "zero")
  <2>1. Put(c, got.entry, r, got.status)
    BY <1>3 DEF Idle, Update
  <2>2. r.live
    BY <1>1 DEF EntryType
  <2> HIDE DEF r
  <2>. QED BY <2>1, <2>2, OpenKept
<1>. QED BY <1>2, <1>3

\* A lease is handed out.
LEMMA TakeKept ==
  ASSUME LeasesInv, PoolAssumption, NEW c \in Chains, NEW l \in Leases, NEW got, Sound(c, got),
         lease[l].state # "held", l \notin LeasesInCalls, Take(c, l, got, stack)
  PROVE  Kept
<1> DEFINE r == [got.now EXCEPT !.leases = @ + 1, !.cut = FALSE]
           e == got.entry
           taken == [entry |-> e, state |-> "held", fate |-> "open"]
<1>1. /\ r.live /\ e \in Entries /\ e # None
      /\ entries[c] = e \/ (entries[c] = None /\ ~entry[e].live)
      /\ entry[e].live \/ \A k \in Leases : lease[k].entry # e
  BY DEF Sound, EntryType, PoolAssumption
<1>2. /\ entries' = [entries EXCEPT ![c] = e]
      /\ entry' = [entry EXCEPT ![e] = r]
      /\ lease' = [lease EXCEPT ![l] = taken]
      /\ lease \in [Leases -> LeaseType]
      /\ entries \in [Chains -> Entries \cup {None}] /\ entry \in [Entries -> EntryType]
  BY DEF Take, Update, Put, LeasesInv, Countdown, IInv, Typed, Links
<1>3. News(stack, stack', {})
  <2>1. News(stack, stack, {})
    BY DEF News
  <2>2. \A call \in {"watch", "sync"} : Loop(call, {e}) \in Frames /\ Loop(call, {e}).call # "halt"
    BY <1>1, FrameTypes DEF Loop, LoopCalls
  <2>3. stack \in Seq(Frames)
    BY DEF LeasesInv, Countdown, IInv, Typed
  <2>4. stack' = stack \/ \E call \in {"watch", "sync"} : stack' = Push(stack, Loop(call, {e}))
    BY DEF Take
  <2>. QED BY <2>1, <2>2, <2>3, <2>4, PushNews
<1>4. Owing(stack, l) = {} /\ Owing(stack', l) = {}
  <2>1. Owing(stack, l) = {}
    BY DEF LeasesInCalls, Owing
  <2>. QED BY <1>3, <2>1 DEF News
<1>5. ASSUME NEW k \in Leases, k # l
      PROVE  /\ lease'[k] = lease[k] /\ Owing(stack', k) = Owing(stack, k)
             /\ lease[k].state = "held" => entry'[lease[k].entry].live = entry[lease[k].entry].live
  <2>1. lease'[k] = lease[k] /\ Owing(stack', k) = Owing(stack, k)
    BY <1>2, <1>3, <1>5 DEF News
  <2>2. lease[k].state = "held" => lease[k].entry \in Entries
    BY DEF LeasesInv, Countdown, IInv, Counts
  <2>3. ASSUME lease[k].entry = e PROVE entry'[e].live = entry[e].live
    <3>1. entry[e].live
      BY <1>1, <2>3
    <3>. QED BY <1>1, <1>2, <3>1 DEF EntryType
  <2>. QED BY <1>2, <2>1, <2>2, <2>3
<1>6. /\ lease'[l].state = "held" /\ lease'[l].entry = e /\ lease'[l].fate = "open"
      /\ entry'[e].live
  BY <1>1, <1>2
<1> HIDE DEF r, e, taken
<1>7. Told'
  <2>1. ASSUME NEW k \in Leases
        PROVE  /\ \A i, j \in Owing(stack', k) : i = j
               /\ Owing(stack', k) # {} =>
                    /\ lease'[k].fate = "open"
                    /\ lease'[k].state = "held" => ~entry'[lease'[k].entry].live
               /\ lease'[k].state = "held" =>
                    IF entry'[lease'[k].entry].live THEN lease'[k].fate = "open"
                    ELSE lease'[k].fate # "open" \/ Owing(stack', k) # {}
    <3>1. CASE k = l
      BY <1>4, <1>6, <3>1
    <3>2. CASE k # l
      BY <1>5, <3>2 DEF Told, LeasesInv
    <3>. QED BY <3>1, <3>2
  <2>. QED BY <2>1 DEF Told, Owing
<1>8. Owed' = Owed /\ l \notin Owed
  BY <1>3, <1>4, CalmOwed, OwedIs
<1>9. l \notin Taken /\ Taken' = Taken \cup {l} /\ Unloaded' = Unloaded \ {l}
  BY <1>5, <1>6 DEF Taken, Unloaded
<1>10. Up' = [Up EXCEPT ![c] = TRUE]
  BY <1>1, <1>2 DEF Up
<1>11. Holders' = [Holders EXCEPT ![c] = @ \cup {l}]
  <2>0. entries' \in [Chains -> Entries \cup {None}]
    BY <1>1, <1>2
  <2>1. \A x \in Entries : On'[x] = IF x = e THEN On[x] \cup {l} ELSE On[x]
    <3>1. /\ \A x \in Entries : On[x] = {k \in Leases : lease[k].state = "held" /\ lease[k].entry = x}
          /\ \A x \in Entries : On'[x] = {k \in Leases : lease'[k].state = "held" /\ lease'[k].entry = x}
      BY DEF On, Sessions
    <3>2. ASSUME NEW x \in Entries, NEW k \in Leases
          PROVE  k \in On'[x] <=> k \in (IF x = e THEN On[x] \cup {l} ELSE On[x])
      BY <1>5, <1>6, <3>1
    <3>3. \A x \in Entries : On[x] \subseteq Leases /\ On'[x] \subseteq Leases
      BY <3>1
    <3>. QED BY <3>2, <3>3
  <2>2. \A d \in Chains : d # c => entries[d] # e
    <3>1. \A d \in Chains : entries[d] = e => entry[e].live /\ entry[e].key = d
      BY <1>1 DEF LeasesInv, Countdown, IInv, Links, OneEntryPerChain
    <3>. QED BY <1>1, <3>1
  <2>3. entries[c] = None => On[e] = {}
    BY <1>1 DEF On, Sessions
  <2>4. \A d \in Chains : Holders'[d] = IF d = c THEN Holders[d] \cup {l} ELSE Holders[d]
    <3>1. \A d \in Chains : entries'[d] = IF d = c THEN e ELSE entries[d]
      BY <1>2
    <3>2. /\ \A d \in Chains : Holders[d] = IF entries[d] = None THEN {} ELSE On[entries[d]]
          /\ \A d \in Chains : Holders'[d] = IF entries'[d] = None THEN {} ELSE On'[entries'[d]]
      BY <1>2, <2>0, HoldersOn
    <3>3. e # None /\ e \in Entries
      BY <1>1
    <3>4. \A d \in Chains : entries[d] # None => entries[d] \in Entries
      BY <1>2
    <3>5. ASSUME NEW d \in Chains, d = c PROVE Holders'[d] = Holders[d] \cup {l}
      <4>1. entries'[d] = e /\ Holders'[d] = On'[e] /\ On'[e] = On[e] \cup {l}
        BY <2>1, <3>1, <3>2, <3>3, <3>5
      <4>2. Holders[d] = On[e]
        BY <1>1, <2>3, <3>2, <3>3, <3>5
      <4>. QED BY <4>1, <4>2
    <3>6. ASSUME NEW d \in Chains, d # c PROVE Holders'[d] = Holders[d]
      <4>1. entries'[d] = entries[d] /\ entries[d] # e
        BY <2>2, <3>1, <3>6
      <4>2. entries[d] # None => On'[entries[d]] = On[entries[d]]
        BY <2>1, <3>4, <4>1
      <4>3. Holders'[d] = IF entries[d] = None THEN {} ELSE On'[entries[d]]
        BY <3>2, <4>1
      <4>. QED BY <3>2, <4>2, <4>3
    <3>. QED BY <3>5, <3>6
  <2>. QED BY <2>4 DEF Holders
<1>12. Promise!Take(c, l)
  BY <1>8, <1>9, <1>10, <1>11 DEF Promise!Take, Up, Holders, Taken, Unloaded, Owed
<1>. QED BY <1>7, <1>12 DEF Kept, Promise!Next

\* A halt that a leaving lease causes.
LEMMA LeavingIsNext ==
  ASSUME NEW c \in Chains, NEW l, l \in Holders[c], Promise!Halt(c, {l})
  PROVE  Promise!Next
  BY DEF Promise!Next, Holders

\* A lease that is given back is in nobody's hands, and its own chain may go with it.
Given(l) ==
  /\ lease[l].state = "held"
  /\ lease' = [lease EXCEPT ![l].state = "released"]

LEMMA GivenIs ==
  ASSUME LeasesInv, NEW l \in Leases, Given(l)
  PROVE  /\ lease'[l].state = "released" /\ lease'[l].fate = lease[l].fate
         /\ \A k \in Leases : k # l => lease'[k] = lease[k]
         /\ Taken' = Taken \ {l} /\ Unloaded' = Unloaded /\ l \in Taken
         /\ \A x \in Entries : On'[x] = On[x] \ {l}
         /\ lease[l].entry \in Entries
<1>1. lease \in [Leases -> LeaseType] /\ lease[l].entry \in Entries
  BY DEF LeasesInv, Countdown, IInv, Typed, Counts, Given
<1>2. /\ lease'[l].state = "released" /\ lease'[l].fate = lease[l].fate
      /\ \A k \in Leases : k # l => lease'[k] = lease[k]
  BY <1>1 DEF Given, LeaseType
<1>. QED BY <1>1, <1>2 DEF Taken, Unloaded, On, Sessions, Given

\* Its chain stays as it was, whether it is there or gone.
LEMMA GiveKept ==
  ASSUME LeasesInv, PoolAssumption, NEW l \in Leases, Given(l),
         entries' = entries, News(stack, stack', {}), \A e \in Entries : entry'[e].live = entry[e].live
  PROVE  Kept
<1> DEFINE e == lease[l].entry
           c == entry[e].key
<1>1. Calm
  BY DEF Calm, LeasesInv, Countdown, IInv, Counts, Given, Typed, LeaseType
<1>2. Told'
  BY <1>1, GivenIs, CalmTold DEF LeasesInv
<1>3. Owed' = Owed /\ Up' = Up
  BY CalmOwed DEF Up
<1>4. /\ entries \in [Chains -> Entries \cup {None}] /\ entries' \in [Chains -> Entries \cup {None}]
      /\ \A d \in Chains : entries[d] # None => entry[entries[d]].live /\ entry[entries[d]].key = d
  BY DEF LeasesInv, Countdown, IInv, Links, OneEntryPerChain
<1>5. /\ \A d \in Chains : Holders'[d] = Holders[d] \ {l}
      /\ \A d \in Chains : l \in Holders[d] <=> entries[d] = e
  <2>1. e \in Entries /\ e # None /\ l \in On[e] /\ \A x \in Entries : x # e => l \notin On[x]
    <3>1. e \in Entries /\ e # None
      BY GivenIs DEF PoolAssumption
    <3>. QED BY <3>1 DEF On, Sessions, Given
  <2> HIDE DEF e
  <2>. QED BY <1>4, <2>1, GivenIs, HoldersOn
<1>6. CASE entry[e].live
  <2>1. c \in Chains /\ entries[c] = e /\ e # None
    BY <1>6, GivenIs DEF LeasesInv, Countdown, IInv, Links, OneEntryPerChain, LiveEntries, PoolAssumption
  <2>2. l \in Holders[c] /\ \A d \in Chains : d # c => l \notin Holders[d]
    BY <1>4, <1>5, <2>1
  <2>3. Holders' = [Holders EXCEPT ![c] = @ \ {l}]
    <3> HIDE DEF c
    <3>1. \A d \in Chains : Holders'[d] = IF d = c THEN Holders[c] \ {l} ELSE Holders[d]
      <4>1. ASSUME NEW d \in Chains, d # c PROVE Holders'[d] = Holders[d]
        <5>1. Holders'[d] = Holders[d] \ {l} /\ l \notin Holders[d]
          BY <1>5, <2>2, <4>1
        <5>. QED BY <5>1
      <4>2. Holders'[c] = Holders[c] \ {l}
        BY <1>5, <2>1
      <4>. QED BY <4>1, <4>2
    <3>. QED BY <2>1, <3>1, HoldersExcept
  <2>4. Promise!Give(c, l)
    BY <1>3, <2>2, <2>3, GivenIs DEF Promise!Give, Up, Holders, Taken, Unloaded, Owed
  <2>. QED BY <1>2, <2>1, <2>4 DEF Kept, Promise!Next
<1>7. CASE ~entry[e].live
  <2>1. \A d \in Chains : l \notin Holders[d]
    BY <1>4, <1>5, <1>7, GivenIs DEF PoolAssumption
  <2>2. Holders' = Holders
    <3>1. ASSUME NEW d \in Chains PROVE Holders'[d] = Holders[d]
      <4>1. Holders'[d] = Holders[d] \ {l} /\ l \notin Holders[d]
        BY <1>5, <2>1
      <4>. QED BY <4>1
    <3>. QED BY <3>1, HoldersSame
  <2>3. Promise!Forget(l)
    BY <1>3, <2>1, <2>2, GivenIs DEF Promise!Forget, Up, Holders, Taken, Unloaded, Owed
  <2>. QED BY <1>2, <2>3 DEF Kept, Promise!Next
<1>. QED BY <1>6, <1>7

\* It halts its chain, which the others on it are owed the news of.
LEMMA GiveHaltsKept ==
  ASSUME LeasesInv, PoolAssumption, NEW l \in Leases, Given(l),
         NEW e \in Entries, e = lease[l].entry, entry[e].live, NEW c, c = entry[e].key,
         Destroy(c, e), News(stack, stack', Sessions(e) \ {l})
  PROVE  Kept /\ (Sessions(e) = {l} => Promise!Give(c, l))
<1>1. /\ entries' = [entries EXCEPT ![c] = None]
      /\ entry' = [entry EXCEPT ![e] = Closed]
      /\ entries \in [Chains -> Entries \cup {None}] /\ entry \in [Entries -> EntryType]
      /\ Closed.live = FALSE
  BY DEF Destroy, LeasesInv, Countdown, IInv, Links, Closed
<1>2. /\ c \in Chains /\ entries[c] = e /\ e # None /\ e \in Entries
      /\ \A d \in Chains : entries[d] # None => entry[entries[d]].key = d
  BY GivenIs DEF LeasesInv, Countdown, IInv, Links, OneEntryPerChain, LiveEntries, PoolAssumption
<1>3. Told'
  <2>1. ASSUME NEW k \in Leases, k \in Sessions(e) \ {l}
        PROVE  /\ \A i, j \in Owing(stack', k) : i = j
               /\ Owing(stack', k) # {}
               /\ lease'[k] = lease[k] /\ lease[k].fate = "open" /\ ~entry'[lease[k].entry].live
    <3>1. lease[k].state = "held" /\ lease[k].entry = e /\ Owing(stack, k) = {} /\ lease[k].fate = "open"
      BY <2>1 DEF Sessions, Told, LeasesInv
    <3>2. PICK n : Owing(stack', k) = {n}
      BY <2>1, <3>1 DEF News
    <3>. QED BY <1>1, <1>2, <2>1, <3>1, <3>2, GivenIs
  <2>2. ASSUME NEW k \in Leases, k \notin Sessions(e), k # l
        PROVE  /\ Owing(stack', k) = Owing(stack, k) /\ lease'[k] = lease[k]
               /\ lease[k].state = "held" => entry'[lease[k].entry] = entry[lease[k].entry]
    <3>1. lease[k].state = "held" => lease[k].entry \in Entries
      BY DEF LeasesInv, Countdown, IInv, Counts
    <3>. QED BY <1>1, <2>2, <3>1, GivenIs DEF News, Sessions
  <2>3. /\ Owing(stack', l) = Owing(stack, l)
        /\ lease'[l].state # "held" /\ lease'[l].fate = lease[l].fate
    BY GivenIs DEF News
  <2>4. ASSUME NEW k \in Leases
        PROVE  /\ \A i, j \in Owing(stack', k) : i = j
               /\ Owing(stack', k) # {} =>
                    /\ lease'[k].fate = "open"
                    /\ lease'[k].state = "held" => ~entry'[lease'[k].entry].live
               /\ lease'[k].state = "held" =>
                    IF entry'[lease'[k].entry].live THEN lease'[k].fate = "open"
                    ELSE lease'[k].fate # "open" \/ Owing(stack', k) # {}
    <3>1. CASE k \in Sessions(e) \ {l}
      BY <2>1, <3>1
    <3>2. CASE k \notin Sessions(e) /\ k # l
      BY <2>2, <3>2 DEF Told, LeasesInv
    <3>3. CASE k = l
      BY <2>3, <3>3 DEF Told, LeasesInv
    <3>. QED BY <3>1, <3>2, <3>3
  <2>. QED BY <2>4 DEF Told, Owing
<1>4. Owed' = Owed \cup (Sessions(e) \ {l})
  <2>1. \A k \in Leases : Owing(stack', k) # {} <=> Owing(stack, k) # {} \/ k \in Sessions(e) \ {l}
    BY DEF News, Sessions, Told, LeasesInv
  <2>. QED BY <2>1, OwedIs DEF Sessions
<1>5. Up[c] /\ Up' = [Up EXCEPT ![c] = FALSE]
  BY <1>1, <1>2 DEF Up
<1>6. /\ entries' \in [Chains -> Entries \cup {None}]
      /\ l \in Sessions(e) /\ \A x \in Entries : x # e => l \notin On[x]
  BY <1>1 DEF On, Sessions, Given
<1>7. /\ l \in Holders[c] /\ Holders[c] = Sessions(e)
      /\ Holders' = [Holders EXCEPT ![c] = {}]
  <2>1. \A d \in Chains : Holders'[d] = IF d = c THEN {} ELSE Holders[d]
    <3>1. ASSUME NEW d \in Chains, d = c PROVE Holders'[d] = {}
      BY <1>1, <1>6, <3>1, HoldersOn
    <3>2. ASSUME NEW d \in Chains, d # c PROVE Holders'[d] = Holders[d]
      <4>1. entries'[d] = entries[d] /\ entries[d] # e
        BY <1>1, <1>2, <3>2
      <4>2. entries[d] # None => l \notin On[entries[d]] /\ On'[entries[d]] = On[entries[d]] \ {l}
        BY <1>1, <1>6, <4>1, GivenIs
      <4>3. Holders'[d] = IF entries[d] = None THEN {} ELSE On'[entries[d]]
        BY <1>1, <1>6, <4>1, HoldersOn
      <4>4. Holders[d] = IF entries[d] = None THEN {} ELSE On[entries[d]]
        BY <1>1, <1>6, HoldersOn
      <4>. QED BY <4>2, <4>3, <4>4
    <3>. QED BY <3>1, <3>2
  <2>2. Holders' = [Holders EXCEPT ![c] = {}]
    BY <2>1 DEF Holders
  <2>. QED BY <1>1, <1>2, <1>6, <2>2, HoldersOn
<1>8. /\ Promise!Halt(c, {l})
      /\ Sessions(e) = {l} => Promise!Give(c, l)
  <2>1. Promise!Halt(c, {l})
    BY <1>4, <1>5, <1>7, GivenIs DEF Promise!Halt, Up, Holders, Taken, Unloaded, Owed
  <2>2. ASSUME Sessions(e) = {l} PROVE Promise!Give(c, l)
    <3>1. Owed' = Owed /\ Holders[c] = {l}
      BY <1>4, <1>7, <2>2
    <3>2. Holders' = [Holders EXCEPT ![c] = @ \ {l}]
      BY <1>7, <3>1, <1>2 DEF Holders
    <3>. QED BY <1>5, <1>7, <3>1, <3>2, GivenIs DEF Promise!Give, Up, Holders, Taken, Unloaded, Owed
  <2>. QED BY <2>1, <2>2
<1>9. Promise!Next
  BY <1>2, <1>7, <1>8, LeavingIsNext
<1>. QED BY <1>3, <1>8, <1>9 DEF Kept

\* One halted session hears it.
LEMMA TellKept ==
  ASSUME LeasesInv, NEW l \in Leases, TellLease(l)
  PROVE  Kept
<1> DEFINE n == Len(stack)
           f == [Top EXCEPT !.todo = @ \ {l}]
<1>1. /\ stack \in Seq(Frames) /\ lease \in [Leases -> LeaseType]
      /\ stack # <<>> /\ Top \in [call: {"halt"}, todo: SUBSET Leases] /\ n \in DOMAIN stack /\ Top = stack[n]
  <2>1. stack \in Seq(Frames) /\ lease \in [Leases -> LeaseType]
    BY DEF LeasesInv, Countdown, IInv, Typed
  <2>2. stack # <<>> /\ Top \in Frames /\ Call = Top.call /\ n \in DOMAIN stack
    BY <2>1, TopFrame DEF TellLease
  <2>. QED BY <2>1, <2>2 DEF TellLease, Frames, LoopCalls, Top
<1>2. stack' = [stack EXCEPT ![n] = f]
  <2>1. stack' = [stack EXCEPT ![n].todo = @ \ {l}]
    BY DEF TellLease
  <2> HIDE DEF n
  <2>. QED BY <1>1, <2>1
<1>3. f.call = "halt" /\ f.todo = Top.todo \ {l} /\ Top.call = "halt" /\ l \in Top.todo
  BY <1>1 DEF TellLease
<1>4. Owing(stack, l) = {n}
  <2>1. n \in Owing(stack, l)
    BY <1>1, <1>3 DEF Owing
  <2>. QED BY <2>1 DEF Told, LeasesInv
<1>5. \A k \in Leases : Owing(stack', k) = IF k = l THEN {} ELSE Owing(stack, k)
  <2> HIDE DEF f, n
  <2>1. DOMAIN stack' = DOMAIN stack /\ \A i \in DOMAIN stack : stack'[i] = IF i = n THEN f ELSE stack[i]
    BY <1>1, <1>2
  <2>2. ASSUME NEW k \in Leases, k # l PROVE Owing(stack', k) = Owing(stack, k)
    BY <1>1, <1>3, <2>1, <2>2 DEF Owing
  <2>3. Owing(stack', l) = {}
    <3>1. \A i \in Owing(stack', l) : i \in Owing(stack, l) /\ i # n
      BY <1>1, <1>3, <2>1 DEF Owing
    <3>. QED BY <1>4, <3>1
  <2>. QED BY <2>2, <2>3
<1>6. /\ lease'[l].fate = "told" /\ lease'[l].state = lease[l].state /\ lease'[l].entry = lease[l].entry
      /\ \A k \in Leases : k # l => lease'[k] = lease[k]
      /\ lease[l].fate = "open" /\ (lease[l].state = "held" => ~entry[lease[l].entry].live)
      /\ UNCHANGED <<entries, entry>>
  BY <1>1, <1>4 DEF TellLease, LeaseType, Told, LeasesInv
<1>7. Told'
  <2>1. ASSUME NEW k \in Leases
        PROVE  /\ \A i, j \in Owing(stack', k) : i = j
               /\ Owing(stack', k) # {} =>
                    /\ lease'[k].fate = "open"
                    /\ lease'[k].state = "held" => ~entry'[lease'[k].entry].live
               /\ lease'[k].state = "held" =>
                    IF entry'[lease'[k].entry].live THEN lease'[k].fate = "open"
                    ELSE lease'[k].fate # "open" \/ Owing(stack', k) # {}
    <3>1. CASE k = l
      BY <1>5, <1>6, <3>1
    <3>2. CASE k # l
      BY <1>5, <1>6, <3>2 DEF Told, LeasesInv
    <3>. QED BY <3>1, <3>2
  <2>. QED BY <2>1 DEF Told, Owing
<1>8. l \in Owed /\ Owed' = Owed \ {l}
  BY <1>4, <1>5, OwedIs
<1>9. Taken' = Taken /\ Unloaded' = Unloaded /\ Up' = Up /\ Holders' = Holders
  <2>1. \A k \in Leases : lease'[k].state = lease[k].state /\ lease'[k].entry = lease[k].entry
    BY <1>6
  <2>2. Taken' = Taken /\ Up' = Up /\ Holders' = Holders
    BY <1>6, <2>1 DEF Taken, Up, Holders, Sessions
  <2>3. \A k \in Leases : lease'[k].fate = "unloaded" <=> lease[k].fate = "unloaded"
    BY <1>6
  <2>. QED BY <2>2, <2>3 DEF Unloaded
<1>10. Promise!Tell(l)
  BY <1>8, <1>9 DEF Promise!Tell, Up, Holders, Taken, Unloaded, Owed
<1>. QED BY <1>7, <1>10 DEF Kept, Promise!Next

\* Everything goes away between turns, when nobody is owed anything.
LEMMA UnloadKept ==
  ASSUME LeasesInv, PoolAssumption, DisconnectAll
  PROVE  Kept
<1>1. /\ stack = <<>> /\ stack' = stack
      /\ entries' = [c \in Chains |-> None] /\ entry' = [e \in Entries |-> Closed] /\ Closed.live = FALSE
      /\ lease \in [Leases -> LeaseType]
      /\ \A l \in Leases : lease[l].state = "held" => lease[l].entry \in Entries
  BY DEF DisconnectAll, Turn, Closed, LeasesInv, Countdown, IInv, Typed, Counts
<1>2. \A l \in Leases : Owing(stack, l) = {} /\ Owing(stack', l) = {}
  BY <1>1 DEF Owing
<1>3. ASSUME NEW l \in Leases
      PROVE  IF lease[l].state = "held" /\ entry[lease[l].entry].live
             THEN /\ lease'[l].state = "held" /\ lease'[l].entry = lease[l].entry
                  /\ lease'[l].fate = "unloaded"
             ELSE lease'[l] = lease[l]
  BY <1>1 DEF DisconnectAll, LeaseType
<1>4. Told'
  <2>1. ASSUME NEW l \in Leases
        PROVE  /\ Owing(stack', l) = {}
               /\ lease'[l].state = "held" =>
                    ~entry'[lease'[l].entry].live /\ lease'[l].fate # "open"
    BY <1>1, <1>2, <1>3 DEF Told, LeasesInv
  <2>. QED BY <2>1 DEF Told, Owing
<1>5. Owed' = Owed
  BY <1>2, OwedIs
<1>6. Taken' = Taken /\ Up' = [c \in Chains |-> FALSE] /\ Holders' = [c \in Chains |-> {}]
  <2>1. \A l \in Leases : lease'[l].state = lease[l].state
    BY <1>3
  <2>. QED BY <1>1, <2>1 DEF Taken, Up, Holders
<1>7. Unloaded' = Unloaded \cup UNION {Holders[c] : c \in Chains}
  <2>1. ASSUME NEW l \in Leases
        PROVE  lease[l].state = "held" /\ entry[lease[l].entry].live <=> \E c \in Chains : l \in Holders[c]
    <3>1. \A c \in Chains : l \in Holders[c] <=> entries[c] # None /\ lease[l].state = "held" /\ lease[l].entry = entries[c]
      BY DEF Holders, Sessions
    <3>2. \A c \in Chains : entries[c] # None => entry[entries[c]].live
      BY DEF LeasesInv, Countdown, IInv, Links, OneEntryPerChain
    <3>3. ASSUME lease[l].state = "held", entry[lease[l].entry].live
          PROVE  \E c \in Chains : l \in Holders[c]
      <4>1. /\ lease[l].entry \in Entries /\ lease[l].entry # None
            /\ entry[lease[l].entry].key \in Chains /\ entries[entry[lease[l].entry].key] = lease[l].entry
        BY <1>1, <3>3 DEF LeasesInv, Countdown, IInv, Links, OneEntryPerChain, LiveEntries, PoolAssumption
      <4>. QED BY <3>1, <3>3, <4>1
    <3>. QED BY <3>1, <3>2, <3>3
  <2>2. \A c \in Chains : Holders[c] \subseteq Leases
    BY DEF Holders, Sessions
  <2>3. \A l \in Leases : lease'[l].fate = "unloaded" <=>
          lease[l].fate = "unloaded" \/ (lease[l].state = "held" /\ entry[lease[l].entry].live)
    BY <1>3
  <2>4. \A l : l \in Unloaded' <=> l \in Unloaded \/ \E c \in Chains : l \in Holders[c]
    BY <2>1, <2>2, <2>3 DEF Unloaded
  <2>. QED BY <2>4
<1>8. Promise!Unload
  BY <1>5, <1>6, <1>7 DEF Promise!Unload, Up, Holders, Taken, Unloaded, Owed
<1>. QED BY <1>4, <1>8 DEF Kept, Promise!Next

----------------------------------------------------------------------------
(* The steps of the pool. *)

LEMMA WrittenBack ==
  ASSUME LeasesInv, PoolAssumption, NEW e \in Entries, entry[e].live,
         NEW r \in EntryType, r.live, NEW status, Put(entry[e].key, e, r, status)
  PROVE  entries' = entries /\ \A d \in Entries : entry'[d].live = entry[d].live
<1>1. /\ entries \in [Chains -> Entries \cup {None}] /\ entry \in [Entries -> EntryType]
      /\ entries[entry[e].key] = e
  BY LiveInMap DEF LeasesInv, Countdown, IInv, Links
<1>. QED BY <1>1 DEF Put, EntryType

LEMMA ProceedKept ==
  ASSUME LeasesInv, PoolAssumption, NEW c \in Chains, NEW l \in Leases \cup {None},
         l \in Leases => lease[l].state # "held" /\ l \notin LeasesInCalls,
         NEW got, got = Acquired(c), Proceed(c, l, got, stack)
  PROVE  Kept
<1>1. Sound(c, got) /\ stack \in Seq(Frames) /\ got.entry \in Entries /\ got.now.live
  BY AcquiredIsSound DEF Proceed, LeasesInv, Countdown, IInv, Typed, Sound
<1>2. News(stack, stack, {}) /\ News(stack, TellHalt(stack, Sessions(got.entry)), Sessions(got.entry))
  <2>1. Sessions(got.entry) \in SUBSET Leases
    BY DEF Sessions
  <2>. QED BY <1>1, <2>1, TellHaltNews DEF News
<1>3. CASE l = None
  BY <1>1, <1>2, <1>3, OpenKept DEF Proceed, Update
<1>4. CASE l # None /\ Take(c, l, got, stack)
  BY <1>1, <1>4, TakeKept
<1>5. CASE l # None /\ TakeThrows(c, got, stack)
  BY <1>1, <1>2, <1>5, IdleKept DEF TakeThrows
<1>6. CASE l # None /\ TakeHalts(c, got, stack)
  BY <1>1, <1>2, <1>6, HaltKept DEF TakeHalts, Sound
<1>7. CASE l # None /\ TakeDrops(c, got, stack)
  <2>1. PICK r : r = Dropped([got.now EXCEPT !.leases = @ + 1])
    OBVIOUS
  <2>2. r.live
    BY <1>1, <2>1 DEF Sound, EntryType, Dropped
  <2>3. Put(c, got.entry, r, got.status) /\ stack' = stack /\ UNCHANGED lease
    BY <1>7, <2>1 DEF TakeDrops, Update
  <2>. QED BY <1>1, <1>2, <2>2, <2>3, OpenKept
<1>. QED BY <1>3, <1>4, <1>5, <1>6, <1>7 DEF Proceed

LEMMA ReleaseKept ==
  ASSUME LeasesInv, PoolAssumption, NEW l \in Leases, Release(l)
  PROVE  Kept
<1> DEFINE left(e) == entry[e].leases - 1
           r(e) == Synced([entry[e] EXCEPT !.leases = left(e), !.cut = FALSE])
           timed(e) == [r(e) EXCEPT !.destroyTimer = @ \/ (Idles(r(e)) /\ Delay = "finite")]
<1>1. Given(l) /\ News(stack, stack', {})
  BY DEF Release, Given, News
<1>2. PICK e \in Entries : e = lease[l].entry
  BY <1>1, GivenIs
<1>3. PICK c : c = entry[e].key
  OBVIOUS
<1>4. CASE ~entry[e].live
  BY <1>1, <1>2, <1>4, GiveKept DEF Release
<1>5. CASE entry[e].live
  <2>1. Idle(c, e, r(e), statuses[c])
    BY <1>2, <1>3, <1>5 DEF Release
  <2>2. entry[e] \in EntryType /\ left(e) \in Nat
    BY <1>1, <1>2, <1>5, HeldIsCounted DEF Given, LeasesInv, Countdown, IInv, Links
  <2>3. r(e) \in EntryType /\ r(e).live /\ r(e).leases = left(e)
    <3>1. PICK x : x = [entry[e] EXCEPT !.leases = left(e), !.cut = FALSE]
      OBVIOUS
    <3>2. x \in EntryType /\ x.live /\ x.leases = left(e)
      BY <1>5, <2>2, <3>1 DEF EntryType
    <3>. QED BY <3>1, <3>2, SyncedIs
  <2>4. timed(e) \in EntryType /\ timed(e).live
    <3> HIDE DEF r
    <3>. QED BY <2>3 DEF EntryType
  <2> HIDE DEF r
  <2>5. CASE Idles(r(e)) /\ Delay = "zero"
    <3>1. Destroy(c, e) /\ left(e) = 0
      BY <2>1, <2>3, <2>5 DEF Idle, Idles
    <3>2. Sessions(e) = {l}
      <4>1. l \in Sessions(e)
        BY <1>1, <1>2 DEF Sessions, Given
      <4>2. IsFiniteSet(Sessions(e)) /\ Cardinality(Sessions(e)) \in Nat /\ Cardinality(Sessions(e)) <= 1
        <5>1. entry[e].leases >= Cardinality(Sessions(e))
          BY <1>5 DEF LeasesInv, Countdown, IInv, Counts, LeasesCounted, LiveEntries
        <5>. QED BY <2>2, <3>1, <5>1, SessionsFinite DEF EntryType
      <4>3. /\ IsFiniteSet(Sessions(e) \ {l})
            /\ Cardinality(Sessions(e) \ {l}) = Cardinality(Sessions(e)) - 1
        BY <4>1, <4>2, FS_RemoveElement
      <4>4. Cardinality(Sessions(e) \ {l}) = 0
        BY <4>2, <4>3, FS_CardinalityType
      <4>5. Sessions(e) \ {l} = {}
        BY <4>3, <4>4, FS_EmptySet
      <4>. QED BY <4>1, <4>5
    <3>3. News(stack, stack', Sessions(e) \ {l})
      BY <1>1, <3>2 DEF News
    <3>. QED BY <1>1, <1>2, <1>3, <1>5, <3>1, <3>3, GiveHaltsKept
  <2>6. CASE ~(Idles(r(e)) /\ Delay = "zero")
    <3>1. Put(c, e, timed(e), statuses[c])
      BY <2>1, <2>6 DEF Idle, Update
    <3> HIDE DEF timed
    <3>. QED BY <1>1, <1>3, <1>5, <2>4, <3>1, WrittenBack, GiveKept
  <2>. QED BY <2>5, <2>6
<1>. QED BY <1>4, <1>5

LEMMA ReleaseFailsKept ==
  ASSUME LeasesInv, PoolAssumption, NEW l \in Leases,
         ReleaseThrows(l) \/ ReleaseHalts(l) \/ ReleaseDrops(l)
  PROVE  Kept
<1>1. Given(l)
  BY DEF ReleaseThrows, ReleaseHalts, ReleaseDrops, Given
<1>2. CASE ReleaseThrows(l)
  BY <1>1, <1>2, GiveKept DEF ReleaseThrows, News
<1>3. CASE ReleaseHalts(l)
  <2>1. PICK e \in Entries : e = lease[l].entry
    BY <1>1, GivenIs
  <2>2. PICK c : c = entry[e].key
    OBVIOUS
  <2>3. stack' = TellHalt(stack, Sessions(e) \ {l}) /\ Destroy(c, e) /\ entry[e].live
    BY <1>3, <2>1, <2>2 DEF ReleaseHalts
  <2>4. News(stack, stack', Sessions(e) \ {l})
    <3>1. Sessions(e) \ {l} \in SUBSET Leases /\ stack \in Seq(Frames)
      BY DEF Sessions, LeasesInv, Countdown, IInv, Typed
    <3>. QED BY <2>3, <3>1, TellHaltNews
  <2>. QED BY <1>1, <2>1, <2>2, <2>3, <2>4, GiveHaltsKept
<1>4. CASE ReleaseDrops(l)
  <2> DEFINE left(e) == entry[e].leases - 1
  <2>1. PICK e \in Entries : e = lease[l].entry
    BY <1>1, GivenIs
  <2>2. PICK x : x = [entry[e] EXCEPT !.leases = left(e), !.cut = TRUE]
    OBVIOUS
  <2>3. /\ Put(entry[e].key, e, Dropped(x), statuses[entry[e].key]) /\ entry[e].live
        /\ stack' = stack
    BY <1>4, <2>1, <2>2 DEF ReleaseDrops
  <2>4. entry[e] \in EntryType /\ left(e) \in Nat
    BY <1>1, <2>1, <2>3, HeldIsCounted DEF Given, LeasesInv, Countdown, IInv, Links
  <2>5. x \in EntryType /\ x.live
    BY <2>2, <2>3, <2>4 DEF EntryType
  <2>6. Dropped(x) \in EntryType /\ Dropped(x).live
    BY <2>5, SyncedIs
  <2>7. News(stack, stack', {})
    BY <2>3 DEF News
  <2>. QED BY <1>1, <2>3, <2>6, <2>7, WrittenBack, GiveKept
<1>. QED BY <1>2, <1>3, <1>4

\* A live chain halts, in a step that owes its leases the news.
LEMMA LiveHaltsKept ==
  ASSUME LeasesInv, PoolAssumption, NEW e \in Entries, entry[e].live,
         Destroy(entry[e].key, e), UNCHANGED lease, News(stack, stack', Sessions(e))
  PROVE  Kept
<1>1. entry[e].key \in Chains /\ entries[entry[e].key] = e
  BY LiveInMap DEF LeasesInv, Countdown, IInv
<1>2. PICK c \in Chains : c = entry[e].key
  BY <1>1
<1>. QED BY <1>1, <1>2, HaltKept

LEMMA TimersKept ==
  ASSUME LeasesInv, PoolAssumption, NEW e \in Entries, CountDown(e) \/ DestroyTimerFires(e)
  PROVE  Kept
<1>1. News(stack, stack', {}) /\ UNCHANGED lease
  BY DEF CountDown, DestroyTimerFires, News
<1>2. CASE DestroyTimerFires(e)
  <2>1. entry[e].live /\ entry[e].leases = 0
    BY <1>2 DEF DestroyTimerFires, LeasesInv, Countdown, NoCountdownUnderLease, IInv, Links, DeadIsIdle
  <2>2. Sessions(e) = {}
    BY <2>1, UncountedIsFree
  <2>. QED BY <1>1, <1>2, <2>1, <2>2, LiveHaltsKept DEF DestroyTimerFires
<1>3. CASE CountDown(e) /\ Idles(entry[e])
  <2>1. entry[e].live
    BY <1>3 DEF Idles
  <2>2. /\ entry[e].key \in Chains /\ entries[entry[e].key] = e /\ entry[e] \in EntryType
        /\ statuses[entry[e].key] = entry[e].laneStatus
    BY <2>1, LiveInMap DEF LeasesInv, Countdown, IInv
  <2>3. PICK c \in Chains : c = entry[e].key
    BY <2>2
  <2>4. PICK got : got = Got(e, entry[e], statuses[c])
    OBVIOUS
  <2>5. got.entry = e /\ got.now = entry[e] /\ got.status = statuses[c]
    BY <2>4 DEF Got
  <2>6. Sound(c, got)
    BY <2>1, <2>2, <2>3, <2>5 DEF Sound
  <2>7. Idle(c, got.entry, got.now, got.status)
    BY <1>3, <2>3, <2>5 DEF CountDown
  <2>. QED BY <1>1, <2>6, <2>7, IdleKept
<1>4. CASE CountDown(e) /\ ~Idles(entry[e])
  BY <1>1, <1>4, StillKept DEF CountDown
<1>. QED BY <1>2, <1>3, <1>4

LEMMA TransportsKept ==
  ASSUME LeasesInv, PoolAssumption, NEW e \in Entries,
         \/ \E status \in Statuses : LaneStatus(e, status)
         \/ \E following \in BOOLEAN : WatchFollowing(e, following)
         \/ LaneHalts(e)
  PROVE  Kept
<1>0. entry[e] \in EntryType /\ stack \in Seq(Frames)
  BY DEF LeasesInv, Countdown, IInv, Typed, Links
<1>1. ASSUME NEW r \in EntryType, entry[e].live, r.live, NEW status, Put(entry[e].key, e, r, status),
             UNCHANGED <<lease, stack>>
      PROVE  Kept
  <2>1. News(stack, stack', {})
    BY <1>1 DEF News
  <2>. QED BY <1>1, <2>1, WrittenBack, StillKept
<1>2. ASSUME NEW status \in Statuses, LaneStatus(e, status)
      PROVE  Kept
  <2> DEFINE r == [entry[e] EXCEPT !.laneStatus = status]
  <2>1. r \in EntryType /\ r.live /\ entry[e].live /\ Put(entry[e].key, e, r, status)
    BY <1>0, <1>2 DEF LaneStatus, Update, EntryType
  <2> HIDE DEF r
  <2>. QED BY <1>1, <1>2, <2>1 DEF LaneStatus
<1>3. ASSUME NEW following \in BOOLEAN, WatchFollowing(e, following)
      PROVE  Kept
  <2> DEFINE r == [entry[e] EXCEPT !.following = following]
  <2>1. /\ r \in EntryType /\ r.live /\ entry[e].live
        /\ Put(entry[e].key, e, r, statuses[entry[e].key])
    BY <1>0, <1>3 DEF WatchFollowing, Update, EntryType
  <2> HIDE DEF r
  <2>. QED BY <1>1, <1>3, <2>1 DEF WatchFollowing
<1>4. CASE LaneHalts(e)
  <2>1. Sessions(e) \in SUBSET Leases
    BY DEF Sessions
  <2>. QED BY <1>0, <1>4, <2>1, TellHaltNews, LiveHaltsKept DEF LaneHalts
<1>. QED BY <1>2, <1>3, <1>4

\* One turn of a loop: the entry is passed over, written back, or halted.
LEMMA LoopsKept ==
  ASSUME LeasesInv, PoolAssumption, NEW e \in Entries,
         PauseEntry(e) \/ ResumeEntry(e) \/ WatchEntry(e) \/ UnwatchEntry(e)
  PROVE  Kept
<1>1. stack \in Seq(Frames) /\ entry[e] \in EntryType /\ entry \in [Entries -> EntryType]
  BY DEF LeasesInv, Countdown, IInv, Typed, Links
<1>2. News(stack, Visited(e), {}) /\ News(stack, Skipped(e), {}) /\ Visited(e) \in Seq(Frames)
  <2>1. Call \in LoopCalls
    BY DEF PauseEntry, ResumeEntry, WatchEntry, UnwatchEntry, LoopCalls
  <2>. QED BY <1>1, <2>1, LoopNews, QuietLoop DEF Quiet
<1>3. News(stack, TellHalt(Visited(e), Sessions(e)), Sessions(e))
  <2>1. Sessions(e) \in SUBSET Leases
    BY DEF Sessions
  <2>. QED BY <1>2, <2>1, TellHaltNews, NewsOn
<1>4. lease' = lease
  BY DEF PauseEntry, ResumeEntry, WatchEntry, UnwatchEntry
<1>5. ASSUME stack' = Skipped(e) \/ stack' = Visited(e), UNCHANGED <<entries, entry>>
      PROVE  Kept
  BY <1>2, <1>4, <1>5, StillKept
<1>6. ASSUME NEW r \in EntryType, r.live, entry[e].live, stack' = Visited(e), NEW status,
             Put(entry[e].key, e, r, status)
      PROVE  Kept
  BY <1>2, <1>4, <1>6, WrittenBack, StillKept
<1>7. ASSUME entry[e].live, Destroy(entry[e].key, e), stack' = TellHalt(Visited(e), Sessions(e))
      PROVE  Kept
  BY <1>3, <1>4, <1>7, LiveHaltsKept
<1>8. CASE PauseEntry(e)
  <2> DEFINE r == [entry[e] EXCEPT !.open = FALSE, !.laneStatus = "disconnected",
                            !.following = @ /\ ~entry[e].watchFollow]
  <2>1. entry[e].live => r \in EntryType /\ r.live
    BY <1>1 DEF EntryType, Statuses
  <2>2. \/ stack' = Skipped(e) /\ UNCHANGED <<entries, entry>>
        \/ entry[e].live /\ Put(entry[e].key, e, r, "disconnected") /\ stack' = Visited(e)
        \/ entry[e].live /\ Destroy(entry[e].key, e) /\ stack' = TellHalt(Visited(e), Sessions(e))
    BY <1>8 DEF PauseEntry, Update
  <2> HIDE DEF r
  <2>. QED BY <1>5, <1>6, <1>7, <2>1, <2>2
<1>9. CASE ResumeEntry(e)
  <2>1. CASE stack' = Visited(e) /\ entry' = [entry EXCEPT ![e].open = TRUE] /\ entries' = entries
    <3>1. \A d \in Entries : entry'[d].live = entry[d].live
      BY <1>1, <2>1 DEF EntryType
    <3>. QED BY <1>2, <1>4, <2>1, <3>1, StillKept
  <2>. QED BY <1>5, <1>7, <1>9, <2>1 DEF ResumeEntry
<1>10. CASE WatchEntry(e)
  <2> DEFINE c == entry[e].key
             heard == [entry[e] EXCEPT !.cut = @ /\ entry[e].leases = 0]
             r == [heard EXCEPT !.watchFollow = @ \/ (entry[e].leases > 0 /\ ~entry[e].watchFollow)]
  <2>1. entry[e].live => heard \in EntryType /\ heard.live
    BY <1>1 DEF EntryType
  <2>2. entry[e].live => r \in EntryType /\ r.live
    <3> HIDE DEF heard
    <3>. QED BY <2>1 DEF EntryType
  <2>3. \/ stack' = Skipped(e) /\ UNCHANGED <<entries, entry>>
        \/ entry[e].live /\ Put(c, e, r, statuses[c]) /\ stack' = Visited(e)
        \/ entry[e].live /\ Put(c, e, heard, statuses[c]) /\ stack' = Visited(e)
        \/ entry[e].live /\ Destroy(c, e) /\ stack' = TellHalt(Visited(e), Sessions(e))
    BY <1>10 DEF WatchEntry
  <2> HIDE DEF r, heard
  <2>. QED BY <1>5, <1>6, <1>7, <2>1, <2>2, <2>3
<1>11. CASE UnwatchEntry(e)
  <2> DEFINE c == entry[e].key
  <2>1. entry[e].watchFollow => entry[e].live
    BY DEF LeasesInv, Countdown, IInv, Links, DeadIsIdle
  <2>2. Synced(entry[e]) \in EntryType /\ Synced(entry[e]).live = entry[e].live
    BY <1>1, SyncedIs
  <2>3. \/ stack' = Skipped(e) /\ UNCHANGED <<entries, entry>>
        \/ entry[e].live /\ Put(c, e, Synced(entry[e]), statuses[c]) /\ stack' = Visited(e)
        \/ Call = "unwatch" /\ UnwatchAborts(e)
        \/ entry[e].live /\ Destroy(c, e) /\ stack' = TellHalt(Visited(e), Sessions(e))
    BY <1>11, <2>1 DEF UnwatchEntry, UnwatchAborts
  <2>4. ASSUME Call = "unwatch", UnwatchAborts(e)
        PROVE  Kept
    <3>1. stack # <<>> /\ Top.call # "halt" /\ Top = stack[Len(stack)]
      BY <1>1, <2>4, TopFrame DEF Top
    <3>2. News(stack, stack', {})
      BY <1>1, <2>4, <3>1, PopNews DEF UnwatchAborts
    <3>3. \A d \in Entries : entry'[d].live = entry[d].live
      BY <2>4, AbortedIs DEF LeasesInv, Countdown, IInv
    <3>. QED BY <1>4, <2>4, <3>2, <3>3, StillKept DEF UnwatchAborts
  <2>. QED BY <1>5, <1>6, <1>7, <2>2, <2>3, <2>4
<1>. QED BY <1>8, <1>9, <1>10, <1>11

LEMMA OwnersKept ==
  ASSUME LeasesInv, PoolAssumption, OwnerStep
  PROVE  Kept
<1>1. stack \in Seq(Frames) /\ entry \in [Entries -> EntryType] /\ LiveEntries \in SUBSET Entries
  BY DEF LeasesInv, Countdown, IInv, Typed, Links, LiveEntries
<1>0. News(stack, stack, {}) /\ \A call \in LoopCalls : News(stack, Push(stack, Loop(call, LiveEntries)), {})
  <2>1. ASSUME NEW call \in LoopCalls
        PROVE  Loop(call, LiveEntries) \in Frames /\ Loop(call, LiveEntries).call # "halt"
    BY <1>1, FrameTypes DEF Loop, LoopCalls
  <2>. QED BY <1>1, <2>1, PushNews DEF News
<1>2. ASSUME Pause \/ Resume \/ \E w \in Watchers : Watch(w)
      PROVE  Kept
  BY <1>0, <1>2, StillKept DEF Pause, Resume, Watch, LoopCalls
<1>3. ASSUME NEW w \in Watchers, Unwatch(w)
      PROVE  Kept
  BY <1>0, <1>3, StillKept DEF Unwatch, LoopCalls
<1>. QED BY <1>2, <1>3, UnloadKept DEF OwnerStep

LEMMA ReturnKept ==
  ASSUME LeasesInv, Return
  PROVE  Kept
<1>1. stack \in Seq(Frames) /\ stack # <<>> /\ Top.todo = {} /\ Top = stack[Len(stack)]
  BY TopFrame DEF Return, LeasesInv, Countdown, IInv, Typed, Top, LoopCalls
<1>2. News(stack, stack', {})
  BY <1>1, PopNews DEF Return
<1>. QED BY <1>2, StillKept DEF Return

\* Every step of the pool keeps the halts told, and is one of the abstract specification or none.
LEMMA StepKept ==
  ASSUME LeasesInv, PoolAssumption, "resume" \notin Failing, [Next]_vars
  PROVE  Kept
<1>1. ~AcquireContinues /\ \A c, l : ~AcquireHalts(c, l)
  BY NoContinue, NoAcquireHalts DEF LeasesInv, Countdown
<1>2. ASSUME NEW c \in Chains, NEW l \in Leases \cup {None},
             l \in Leases => lease[l].state # "held" /\ l \notin LeasesInCalls,
             Proceed(c, l, Acquired(c), stack)
      PROVE  Kept
  <2>1. PICK got : got = Acquired(c)
    OBVIOUS
  <2>2. Proceed(c, l, got, stack)
    BY <1>2, <2>1
  <2>. QED BY <1>2, <2>1, <2>2, ProceedKept
<1>3. CASE UNCHANGED vars \/ \E l \in Leases : ReleaseAgain(l)
  BY <1>3, StillKept DEF ReleaseAgain, vars, News
<1>4. CASE ConsumerStep
  <2>1. ASSUME NEW c \in Chains, GetLocalProvider(c)
        PROVE  Kept
    BY <1>1, <1>2, <2>1 DEF GetLocalProvider, PoolAssumption
  <2>2. ASSUME NEW l \in Leases, NEW c \in Chains, Connect(l, c)
        PROVE  Kept
    BY <1>1, <1>2, <2>2 DEF Connect
  <2>. QED BY <1>3, <1>4, <2>1, <2>2, ReleaseKept, ReleaseFailsKept DEF ConsumerStep
<1>5. CASE RuntimeStep
  BY <1>1, <1>5, ReturnKept, TellKept, TimersKept, LoopsKept DEF RuntimeStep
<1>6. CASE TransportStep
  BY <1>6, TransportsKept DEF TransportStep
<1>. QED BY <1>3, <1>4, <1>5, <1>6, OwnersKept DEF Next

LEMMA InitKept ==
  ASSUME PoolAssumption, Init
  PROVE  LeasesInv /\ Promise!Init
<1>1. Countdown
  <2>1. NoAcquire /\ NoCountdownUnderLease
    BY DEF Init, NoAcquire, Awaits, NoCountdownUnderLease, Closed
  <2>. QED BY <2>1, InitInvariant DEF Countdown
<1>2. \A l \in Leases : Owing(stack, l) = {}
  BY DEF Init, Owing
<1>3. Told
  BY <1>2 DEF Init, Told
<1>4. Promise!Init
  <2>1. Up = [c \in Chains |-> FALSE] /\ Holders = [c \in Chains |-> {}]
    BY DEF Init, Up, Holders
  <2>2. Taken = {} /\ Unloaded = {} /\ Owed = {}
    BY DEF Init, Taken, Unloaded, Owed
  <2>. QED BY <2>1, <2>2 DEF Promise!Init, Up, Holders, Taken, Unloaded, Owed
<1>. QED BY <1>1, <1>3, <1>4 DEF LeasesInv

----------------------------------------------------------------------------
(* The theorems. *)

THEOREM PoolTold ==
  ASSUME "resume" \notin Failing
  PROVE  Spec => []LeasesInv
<1>1. Init => LeasesInv
  BY InitKept, PoolAssumption
<1>2. LeasesInv /\ [Next]_vars => LeasesInv'
  BY StepKept, CountdownKept, PoolAssumption DEF LeasesInv, Kept
<1>. QED BY <1>1, <1>2, PTL DEF Spec

\* Between turns a lease whose chain is gone has heard so, or went with the whole pool: halts
\* reach every session of the entry they end, however the handlers they call open, release
\* and halt other chains meanwhile, where a paused chain always opens again (destroy, halt).
THEOREM PoolHaltIsHeard ==
  ASSUME "resume" \notin Failing
  PROVE  Spec => []HaltIsHeard
<1>1. LeasesInv => HaltIsHeard
  <2> SUFFICES ASSUME LeasesInv, Turn, NEW l \in Leases, lease[l].state = "held"
               PROVE  entry[lease[l].entry].live <=> lease[l].fate = "open"
    BY DEF HaltIsHeard
  <2>1. Owing(stack, l) = {}
    BY DEF Turn, Owing
  <2>. QED BY <2>1 DEF LeasesInv, Told
<1>. QED BY <1>1, PoolTold, PTL

\* The pool keeps the promise its consumers rely on: each of its steps is one of ChainLeases, or
\* none that a consumer could tell, where a paused chain always opens again (lease, halt, idle,
\* disconnectAll).
THEOREM PoolKeepsPromise ==
  ASSUME "resume" \notin Failing
  PROVE  Spec => LeasePromise
<1>1. Init => Promise!Init
  BY InitKept, PoolAssumption
<1>2. LeasesInv /\ [Next]_vars => [Promise!Next]_(Promise!vars)
  BY StepKept, PoolAssumption DEF Kept
<1>. QED BY <1>1, <1>2, PoolTold, PTL DEF Spec, LeasePromise, Promise!Spec

----------------------------------------------------------------------------
(* No chain is stranded: whichever call leaves an entry without a lease has  *)
(* its idle check queued, or its countdown running, unless it was cut short. *)

Timed(r) == r.destroyTimer => Delay = "finite"

\* An entry without a lease is on its way out, as far as the pool means it to go.
Leaves(r) ==
  r.live /\ r.leases = 0 => Delay = "never" \/ r.cut \/ (Delay = "finite" /\ r.destroyTimer)

Ending == \A e \in Entries : Timed(entry[e]) /\ (e \in queued \/ Leaves(entry[e]))

LEMMA EndingWritten ==
  ASSUME Ending, PoolAssumption, entry \in [Entries -> EntryType], NEW e \in Entries, NEW r \in EntryType,
         Timed(r), NEW c, NEW status, queued \subseteq queued' \cup {e},
         \/ Put(c, e, r, status) /\ (e \in queued' \/ Leaves(r))
         \/ Destroy(c, e)
         \/ Idle(c, e, r, status)
  PROVE  Ending'
<1>1. ASSUME NEW x \in EntryType, entry' = [entry EXCEPT ![e] = x], Timed(x), e \in queued' \/ Leaves(x)
      PROVE  Ending'
  BY <1>1 DEF Ending, Timed, Leaves
<1>2. CASE Put(c, e, r, status) /\ (e \in queued' \/ Leaves(r))
  BY <1>1, <1>2 DEF Put
<1>3. CASE Destroy(c, e)
  <2>1. Closed \in EntryType /\ Timed(Closed) /\ Leaves(Closed)
    BY ClosedType DEF Closed, Timed, Leaves
  <2>. QED BY <1>1, <1>3, <2>1 DEF Destroy
<1>4. CASE Idle(c, e, r, status) /\ ~Destroy(c, e)
  <2> DEFINE x == [r EXCEPT !.destroyTimer = @ \/ (Idles(r) /\ Delay = "finite")]
  <2>1. Update(c, e, x, status) /\ ~(Idles(r) /\ Delay = "zero")
    BY <1>4 DEF Idle
  <2>2. x \in EntryType /\ Timed(x) /\ Leaves(x)
    BY <2>1 DEF EntryType, Timed, Leaves, Idles, PoolAssumption
  <2> HIDE DEF x
  <2>. QED BY <1>1, <2>1, <2>2 DEF Update, Put
<1>. QED BY <1>2, <1>3, <1>4

\* The entry a call got hold of is as timed as it was.
LEMMA AcquiredIsTimed ==
  ASSUME Ending, entries \in [Chains -> Entries \cup {None}], entry \in [Entries -> EntryType], NEW c \in Chains
  PROVE  Timed(Acquired(c).now) /\ Timed(Reacquired(c).now)
<1>1. CASE entries[c] = None
  BY <1>1 DEF Acquired, Reacquired, Build, Got, Built, Closed, Timed
<1>2. CASE entries[c] # None
  <2>1. entries[c] \in Entries /\ entry[entries[c]] \in EntryType
    BY <1>2
  <2>. QED BY <1>2, <2>1 DEF Acquired, Reacquired, Got, Timed, Ending, EntryType
<1>. QED BY <1>1, <1>2

LEMMA ProceedEnds ==
  ASSUME Ending, IInv, PoolAssumption, NEW c \in Chains, NEW l, NEW s, NEW got, Sound(c, got), Timed(got.now),
         Proceed(c, l, got, s)
  PROVE  Ending'
<1>1. got.entry \in Entries /\ got.now \in EntryType /\ entry \in [Entries -> EntryType]
  BY DEF Sound, IInv, Links
<1>2. CASE l = None
  BY <1>1, <1>2, EndingWritten DEF Proceed, Update
<1>0. PICK x \in EntryType : x = got.now
  BY <1>1
<1>3. CASE Take(c, l, got, s)
  <2> DEFINE r == [got.now EXCEPT !.leases = @ + 1, !.cut = FALSE]
  <2>1. r \in EntryType /\ Timed(r) /\ Leaves(r)
    <3>1. PICK y : y = [x EXCEPT !.leases = x.leases + 1, !.cut = FALSE]
      OBVIOUS
    <3>2. x.leases + 1 \in Nat /\ x.leases + 1 # 0
      BY DEF EntryType
    <3>3. y \in EntryType /\ y.destroyTimer = x.destroyTimer /\ y.leases = x.leases + 1
      BY <3>1, <3>2 DEF EntryType
    <3>. QED BY <1>0, <3>1, <3>2, <3>3 DEF Timed, Leaves
  <2>2. Put(c, got.entry, r, got.status) /\ queued' = queued
    BY <1>3 DEF Take, Update
  <2> HIDE DEF r
  <2>. QED BY <1>1, <2>1, <2>2, EndingWritten
<1>4. CASE TakeThrows(c, got, s) \/ TakeHalts(c, got, s)
  BY <1>1, <1>4, EndingWritten DEF TakeThrows, TakeHalts
<1>5. CASE TakeDrops(c, got, s)
  <2>1. PICK y : y = [x EXCEPT !.leases = @ + 1]
    OBVIOUS
  <2>2. y \in EntryType /\ y.destroyTimer = x.destroyTimer /\ y.leases # 0
    BY <2>1 DEF EntryType
  <2>3. Dropped(y) \in EntryType /\ Timed(Dropped(y)) /\ Leaves(Dropped(y))
    BY <1>0, <2>2, SyncedIs DEF Timed, Leaves
  <2>4. Put(c, got.entry, Dropped(y), got.status) /\ queued' = queued
    BY <1>0, <1>5, <2>1 DEF TakeDrops, Update
  <2>. QED BY <1>1, <2>3, <2>4, EndingWritten
<1>. QED BY <1>2, <1>3, <1>4, <1>5 DEF Proceed

LEMMA ConsumersEnd ==
  ASSUME Ending, IInv, PoolAssumption, ConsumerStep \/ AcquireContinues
  PROVE  Ending'
<1>0. Links /\ Typed /\ entry \in [Entries -> EntryType] /\ entries \in [Chains -> Entries \cup {None}]
  BY DEF IInv, Links
<1>1. ASSUME NEW c \in Chains, NEW l, NEW s, NEW got, got = Acquired(c) \/ got = Reacquired(c),
             Proceed(c, l, got, s)
      PROVE  Ending'
  <2>1. Sound(c, got)
    BY <1>0, <1>1, AcquiredIsSound DEF Proceed, Typed
  <2>2. Timed(got.now)
    BY <1>0, <1>1, AcquiredIsTimed
  <2>. QED BY <1>1, <2>1, <2>2, ProceedEnds
<1>2. ASSUME NEW c \in Chains, NEW l, AcquireHalts(c, l)
      PROVE  Ending'
  <2>1. entries[c] \in Entries /\ entry[entries[c]] \in EntryType /\ Timed(entry[entries[c]])
    BY <1>0, <1>2 DEF AcquireHalts, CanFailToReopen, Ending
  <2>2. Destroy(c, entries[c]) /\ queued' = queued
    BY <1>2 DEF AcquireHalts
  <2>3. PICK e \in Entries : e = entries[c]
    BY <2>1
  <2>. QED BY <1>0, <2>1, <2>2, <2>3, EndingWritten
<1>3. ASSUME NEW c \in Chains, NEW l, NEW s,
             Proceed(c, l, Acquired(c), s) \/ Proceed(c, l, Reacquired(c), s) \/ AcquireHalts(c, l)
      PROVE  Ending'
  <2>1. PICK got : got = Acquired(c)
    OBVIOUS
  <2>2. PICK again : again = Reacquired(c)
    OBVIOUS
  <2>3. Proceed(c, l, got, s) \/ Proceed(c, l, again, s) \/ AcquireHalts(c, l)
    BY <1>3, <2>1, <2>2
  <2>. QED BY <1>1, <1>2, <2>1, <2>2, <2>3
<1>4. CASE AcquireContinues
  <2>1. Top.chain \in Chains
    BY <1>0, <1>4, TopFrame DEF AcquireContinues, Typed, Frames, LoopCalls
  <2>2. PICK c \in Chains : c = Top.chain
    BY <2>1
  <2>3. PICK l : l = Top.lease
    OBVIOUS
  <2>4. PICK s : s = Pop(stack)
    OBVIOUS
  <2>5. Proceed(c, l, Reacquired(c), s)
    BY <1>4, <2>2, <2>3, <2>4 DEF AcquireContinues
  <2>. QED BY <1>3, <2>5
<1>5. ASSUME NEW l \in Leases, Release(l)
      PROVE  Ending'
  <2>1. PICK e \in Entries : e = lease[l].entry
    BY <1>5 DEF Release, IInv, Counts
  <2>2. PICK c : c = entry[e].key
    OBVIOUS
  <2> DEFINE left == entry[e].leases - 1
             r == Synced([entry[e] EXCEPT !.leases = left, !.cut = FALSE])
  <2>3. CASE entry[e].live
    <3>1. entry[e] \in EntryType /\ left \in Nat /\ Timed(entry[e])
      BY <1>0, <1>5, <2>1, <2>3, HeldIsCounted DEF Release, IInv, Ending
    <3>2. r \in EntryType /\ Timed(r)
      <4>1. PICK x : x = [entry[e] EXCEPT !.leases = left, !.cut = FALSE]
        OBVIOUS
      <4>2. x \in EntryType /\ Timed(x)
        BY <3>1, <4>1 DEF EntryType, Timed
      <4>. QED BY <4>1, <4>2, SyncedIs DEF Timed
    <3>3. Idle(c, e, r, statuses[c]) /\ queued' = queued
      BY <1>5, <2>1, <2>2, <2>3 DEF Release
    <3> HIDE DEF r
    <3>. QED BY <1>0, <3>2, <3>3, EndingWritten
  <2>4. CASE ~entry[e].live
    BY <1>5, <2>1, <2>4 DEF Release, Ending
  <2>. QED BY <2>3, <2>4
<1>6. ASSUME NEW l \in Leases, ReleaseHalts(l)
      PROVE  Ending'
  <2>1. PICK e \in Entries : e = lease[l].entry
    BY <1>6 DEF ReleaseHalts, IInv, Counts
  <2>2. PICK c : c = entry[e].key
    OBVIOUS
  <2>3. Destroy(c, e) /\ queued' = queued /\ entry[e] \in EntryType /\ Timed(entry[e])
    BY <1>0, <1>6, <2>1, <2>2 DEF ReleaseHalts, Ending
  <2>. QED BY <1>0, <2>3, EndingWritten
<1>7. ASSUME NEW l \in Leases, ReleaseAgain(l) \/ ReleaseThrows(l)
      PROVE  Ending'
  BY <1>7 DEF ReleaseAgain, ReleaseThrows, vars, Ending
<1>8. ASSUME NEW l \in Leases, ReleaseDrops(l)
      PROVE  Ending'
  <2>1. PICK e \in Entries : e = lease[l].entry
    BY <1>8 DEF ReleaseDrops, IInv, Counts
  <2> DEFINE left == entry[e].leases - 1
  <2>2. PICK x : x = [entry[e] EXCEPT !.leases = left, !.cut = TRUE]
    OBVIOUS
  <2>3. /\ Put(entry[e].key, e, Dropped(x), statuses[entry[e].key]) /\ queued' = queued
        /\ entry[e].live /\ lease[l].state = "held"
    BY <1>8, <2>1, <2>2 DEF ReleaseDrops
  <2>4. entry[e] \in EntryType /\ left \in Nat /\ Timed(entry[e])
    BY <1>0, <2>1, <2>3, HeldIsCounted DEF IInv, Ending
  <2>5. x \in EntryType /\ Timed(x) /\ x.cut
    BY <2>2, <2>4 DEF EntryType, Timed
  <2>6. Dropped(x) \in EntryType /\ Timed(Dropped(x)) /\ Leaves(Dropped(x))
    BY <2>5, SyncedIs DEF Timed, Leaves, PoolAssumption
  <2>. QED BY <1>0, <2>3, <2>6, EndingWritten
<1>. QED BY <1>3, <1>4, <1>5, <1>6, <1>7, <1>8 DEF ConsumerStep, Connect, GetLocalProvider

LEMMA EntriesEnd ==
  ASSUME Ending, IInv, PoolAssumption, NEW e \in Entries,
         \/ CountDown(e) \/ DestroyTimerFires(e) \/ PauseEntry(e) \/ ResumeEntry(e) \/ WatchEntry(e)
         \/ UnwatchEntry(e)
         \/ \E status \in Statuses : LaneStatus(e, status)
         \/ \E following \in BOOLEAN : WatchFollowing(e, following)
         \/ LaneHalts(e)
  PROVE  Ending'
<1>0. /\ entry \in [Entries -> EntryType] /\ entry[e] \in EntryType /\ Timed(entry[e])
      /\ e \in queued \/ Leaves(entry[e])
  BY DEF IInv, Links, Ending
\* What a step may write that neither leases the entry nor touches its countdown.
<1> DEFINE Alike(r) == /\ r \in EntryType /\ r.live = entry[e].live
                       /\ r.leases = entry[e].leases /\ r.destroyTimer = entry[e].destroyTimer
                       /\ entry[e].cut /\ entry[e].leases = 0 => r.cut
<1>1. ASSUME NEW r, Alike(r), NEW c, NEW status, Put(c, e, r, status), queued' = queued
      PROVE  Ending'
  <2>1. r \in EntryType /\ Timed(r) /\ (e \in queued' \/ Leaves(r))
    BY <1>0, <1>1 DEF Timed, Leaves
  <2>. QED BY <1>0, <1>1, <2>1, EndingWritten
<1>2. ASSUME NEW c, Destroy(c, e), queued' = queued
      PROVE  Ending'
  BY <1>0, <1>2, EndingWritten
<1>3. PICK c : c = entry[e].key
  OBVIOUS
<1>4. CASE CountDown(e)
  <2>1. CASE Idles(entry[e])
    <3>1. Idle(c, e, entry[e], statuses[c]) /\ queued' = queued \ {e}
      BY <1>3, <1>4, <2>1 DEF CountDown
    <3>. QED BY <1>0, <3>1, EndingWritten
  <2>2. CASE ~Idles(entry[e])
    <3>1. entry' = entry /\ queued' = queued \ {e}
      BY <1>4, <2>2 DEF CountDown
    <3>2. Leaves(entry[e])
      BY <1>0, <2>2 DEF Idles, Leaves, Timed
    <3>. QED BY <3>1, <3>2 DEF Ending
  <2>. QED BY <2>1, <2>2
<1>5. CASE DestroyTimerFires(e) \/ LaneHalts(e)
  BY <1>2, <1>3, <1>5 DEF DestroyTimerFires, LaneHalts
<1>6. ASSUME UNCHANGED <<entry, queued>>
      PROVE  Ending'
  BY <1>6 DEF Ending
<1>7. CASE PauseEntry(e)
  <2> DEFINE r == [entry[e] EXCEPT !.open = FALSE, !.laneStatus = "disconnected",
                            !.following = @ /\ ~entry[e].watchFollow]
  <2>1. Alike(r)
    BY <1>0 DEF EntryType, Statuses
  <2>2. queued' = queued /\ (entry' = entry \/ Put(c, e, r, "disconnected") \/ Destroy(c, e))
    BY <1>3, <1>7 DEF PauseEntry, Update
  <2> HIDE DEF r, Alike
  <2>. QED BY <1>1, <1>2, <1>6, <2>1, <2>2
<1>8. CASE ResumeEntry(e)
  <2>1. CASE entry' = [entry EXCEPT ![e].open = TRUE] /\ queued' = queued
    <3> DEFINE r == [entry[e] EXCEPT !.open = TRUE]
    <3>1. Alike(r) /\ entry' = [entry EXCEPT ![e] = r]
      BY <1>0, <2>1 DEF EntryType
    <3>2. Timed(r) /\ (e \in queued' \/ Leaves(r))
      BY <1>0, <2>1, <3>1 DEF Timed, Leaves
    <3> HIDE DEF r, Alike
    <3>. QED BY <1>0, <2>1, <3>1, <3>2 DEF Ending
  <2>2. queued' = queued /\ (entry' = entry \/ Destroy(c, e) \/ entry' = [entry EXCEPT ![e].open = TRUE])
    BY <1>3, <1>8 DEF ResumeEntry
  <2> HIDE DEF Alike
  <2>. QED BY <1>2, <1>6, <2>1, <2>2
<1>9. CASE WatchEntry(e)
  <2> DEFINE heard == [entry[e] EXCEPT !.cut = @ /\ entry[e].leases = 0]
             r == [heard EXCEPT !.watchFollow = @ \/ (entry[e].leases > 0 /\ ~entry[e].watchFollow)]
  <2>1. Alike(heard)
    BY <1>0 DEF EntryType
  <2>2. Alike(r)
    <3> HIDE DEF heard
    <3>. QED BY <2>1 DEF EntryType
  <2>3. queued' = queued /\ (\/ entry' = entry \/ Put(c, e, r, statuses[c])
                             \/ Put(c, e, heard, statuses[c]) \/ Destroy(c, e))
    BY <1>3, <1>9 DEF WatchEntry
  <2> HIDE DEF r, heard, Alike
  <2>. QED BY <1>1, <1>2, <1>6, <2>1, <2>2, <2>3
<1>10. ASSUME NEW status \in Statuses, LaneStatus(e, status)
       PROVE  Ending'
  <2> DEFINE r == [entry[e] EXCEPT !.laneStatus = status]
  <2>1. Alike(r)
    BY <1>0 DEF EntryType
  <2>2. queued' = queued /\ Put(c, e, r, status)
    BY <1>3, <1>10 DEF LaneStatus, Update
  <2> HIDE DEF r, Alike
  <2>. QED BY <1>1, <2>1, <2>2
<1>11. ASSUME NEW following \in BOOLEAN, WatchFollowing(e, following)
       PROVE  Ending'
  <2> DEFINE r == [entry[e] EXCEPT !.following = following]
  <2>1. Alike(r)
    BY <1>0 DEF EntryType
  <2>2. queued' = queued /\ Put(c, e, r, statuses[c])
    BY <1>3, <1>11 DEF WatchFollowing, Update
  <2> HIDE DEF r, Alike
  <2>. QED BY <1>1, <2>1, <2>2
<1>12. CASE UnwatchEntry(e)
  <2>1. Alike(Synced(entry[e]))
    BY <1>0, SyncedIs
  <2>2. queued' = queued /\ (\/ entry' = entry \/ Put(c, e, Synced(entry[e]), statuses[c])
                             \/ UnwatchAborts(e) \/ Destroy(c, e))
    BY <1>3, <1>12 DEF UnwatchEntry, UnwatchAborts
  <2>3. ASSUME UnwatchAborts(e), queued' = queued PROVE Ending'
    <3>1. \A d \in Entries : /\ entry'[d].live = entry[d].live /\ entry'[d].leases = entry[d].leases
                             /\ entry'[d].destroyTimer = entry[d].destroyTimer
                             /\ entry[d].cut => entry'[d].cut
      BY <2>3, AbortedIs DEF IInv
    <3>. QED BY <2>3, <3>1 DEF Ending, Timed, Leaves
  <2> HIDE DEF Alike
  <2>. QED BY <1>1, <1>2, <1>6, <2>1, <2>2, <2>3
<1>. QED BY <1>4, <1>5, <1>7, <1>8, <1>9, <1>10, <1>11, <1>12

LEMMA EndingKept ==
  ASSUME Ending, IInv, PoolAssumption, [Next]_vars
  PROVE  Ending'
<1>1. ASSUME UNCHANGED <<entry, queued>>
      PROVE  Ending'
  BY <1>1 DEF Ending
<1>2. CASE UNCHANGED vars \/ Return \/ \E l \in Leases : TellLease(l)
  BY <1>1, <1>2 DEF vars, Return, TellLease
<1>3. CASE Pause \/ Resume \/ \E w \in Watchers : Watch(w) \/ Unwatch(w)
  BY <1>1, <1>3 DEF Pause, Resume, Watch, Unwatch
<1>4. CASE DisconnectAll
  BY <1>4 DEF DisconnectAll, Ending, Closed, Timed, Leaves
<1>. QED BY <1>2, <1>3, <1>4, ConsumersEnd, EntriesEnd
          DEF Next, RuntimeStep, ConsumerStep, TransportStep, OwnerStep

\* Between turns a chain without a lease is counting down, whatever a consumer did to it in
\* the middle of a halt or a pause, and whichever of its calls failed, but for one whose release
\* a throw of the watchers' follow cut short (idle, acquire, getLocalProvider).
THEOREM PoolUnleasedCountsDown == Spec => []UnleasedCountsDown
<1>1. Init => Ending
  BY DEF Init, Ending, Closed, Timed, Leaves
<1>2. IInv /\ Ending /\ [Next]_vars => Ending'
  BY EndingKept, PoolAssumption
<1>3. Ending => UnleasedCountsDown
  BY DEF Ending, Leaves, UnleasedCountsDown, Turn, LiveEntries
<1>. QED BY <1>1, <1>2, <1>3, PoolInvariant, PTL DEF Spec

\* Nothing waits for what will not come: no chain stays open without a lease or a countdown,
\* and no lease believes in a chain that is gone, where a paused chain always opens again and
\* but for an entry whose release a throw of the watchers' follow cut short (idle, acquire,
\* destroy, halt).
THEOREM PoolNothingIsStranded ==
  ASSUME "resume" \notin Failing
  PROVE  Spec => []NothingIsStranded
<1>1. UnleasedCountsDown /\ HaltIsHeard => NothingIsStranded
  BY DEF NothingIsStranded
<1>. QED BY <1>1, PoolUnleasedCountsDown, PoolHaltIsHeard, PTL

=============================================================================
