------------------------ MODULE LanesLifecycleProofs ------------------------
(***************************************************************************)
(* Theorems about ChainLanes, PageCore and WorkerLifecycle, three parts     *)
(* that share no state.                                                     *)
(*                                                                          *)
(* ChainLanes, for any set of consumers, any follow limit and any set of    *)
(* failing calls.  Between the steps of a call the properties of a chain at *)
(* rest do not hold, and consumers act there.  The inductive invariant says *)
(* of each what `work` still has to do about it: a follow without a session *)
(* is on a lane that is to be shut, a consumer that has not heard the halt  *)
(* is to be told, a lane still open under a pause is to be paused.  Its     *)
(* first part (Underway) says what each unfinished step may rely on when    *)
(* its turn comes: the lane a follow was given is open and has room.        *)
(*                                                                          *)
(* PageCore, for any number of requests, products, cores and retries.  The  *)
(* inductive invariant says what a core that was not dialed yet looks like  *)
(* (Blank), that the requests and the cores keep the same books (Books),    *)
(* which core may have nobody (Homes) and what became of the runtimes       *)
(* (Runtimes).                                                              *)
(*                                                                          *)
(* WorkerLifecycle, for any number of tabs and any limit of missed beats:   *)
(* the worker's pause is every tab's (PauseInv), and the worker closes      *)
(* itself only after everyone heard (HearInv).                              *)
(***************************************************************************)
EXTENDS ChainLanes, PageCore, WorkerLifecycle, FiniteSetTheorems, SequenceTheorems, WellFoundedInduction, TLAPS

----------------------------------------------------------------------------
(* The lanes. *)

Halting == {"haltLane", "tell", "shut"}
Pausing == {"pause", "stop", "paused"}
Uses == {"connect", "follow"}
Opening == {"halt", "reported"} \cup Uses

FollowType == [by : Consumers, on : LaneIds, stage : Counted \cup {"over"}]
LaneType == [status : Statuses, sessions : SUBSET Consumers, up : BOOLEAN]
StepType == [do : Opening \cup Halting \cup Pausing \cup {"end"}, lane : LaneIds \cup {None},
             of : Consumers \cup Nat \cup {None}]

Typed ==
  /\ nextLane \in 1 .. MaxLanes /\ lanes \subseteq 0 .. nextLane - 1
  /\ lane \in [LaneIds -> LaneType]
  /\ \A l \in LaneIds : IsFiniteSet(lane[l].sessions)
  /\ follow \in Seq(FollowType) /\ \A n \in DOMAIN follow : follow[n].on < nextLane
  /\ paused \in BOOLEAN /\ halted \in BOOLEAN /\ closed \in BOOLEAN /\ reported \in Statuses
  /\ consumer \in [Consumers -> {"new", "open", "left"}]
  /\ home \in [Consumers -> LaneIds \cup {None}]
  /\ \A c \in Consumers : consumer[c] = "open" => home[c] \in LaneIds
  /\ halts \in [Consumers -> 0 .. 1]
  /\ work \in Seq(StepType)

\* No lane is in use yet, no step of the pool halts it or tells its status.
Plain(w) == \A x \in Range(w) : x.do \notin Opening

\* The steps that need the lane as it was picked come first.
Ordered(w) ==
  \A i \in DOMAIN w : w[i].do \in Opening => i = 1 \/ (i = 2 /\ w[1].do = "reported" /\ w[2].do \in Uses)

\* What a step names.
Names(x) ==
  /\ x.do # "halt" => x.lane \in LaneIds
  /\ x.do \in {"tell", "end"} \cup Uses => x.of \in Consumers
  /\ x.do = "stop" => x.of \in DOMAIN follow

\* What a step relies on.
Meant(x) ==
  /\ x.do \in Uses => x.lane \in lanes
  /\ x.do \in Uses \cup {"reported"} => ~halted /\ ~closed
  /\ x.do = "connect" => consumer[x.of] = "new"
  /\ x.do = "follow" => consumer[x.of] = "open" /\ HasRoom(x.lane)
  /\ x.do = "end" => consumer[x.of] = "left"
  /\ x.do \in Halting \cup {"halt"} => halted
  /\ x.do \in Halting => x.lane \notin lanes
  /\ x.do = "shut" => lane[x.lane].sessions = {}
  /\ x.do \in Pausing => paused

Underway == Ordered(work) /\ \A x \in Range(work) : Names(x) /\ Meant(x)

Pending(step, l) == \E x \in Range(work) : x.do = step /\ x.lane = l

\* A follow that runs or waits has its session, or its lane is to be shut.
FollowsHeld ==
  \A n \in DOMAIN follow : follow[n].stage \in Waiting =>
    follow[n].by \in lane[follow[n].on].sessions \/ Pending("shut", follow[n].on)

\* A session is of a consumer that is there, or is to end.
SessionsHeld ==
  \A l \in lanes : \A c \in lane[l].sessions :
    consumer[c] = "open" \/ \E x \in Range(work) : x.do = "end" /\ x.lane = l /\ x.of = c

\* Until the chain halts, a consumer that is there has its home.
HomesHeld ==
  ~closed /\ (halted => Doing("halt")) =>
    \A c \in Consumers : consumer[c] = "open" => home[c] \in lanes /\ c \in lane[home[c]].sessions

\* An extra lane is open for a session, or for the one it was opened for.
ExtraHeld == \A l \in lanes \ {0} : lane[l].sessions # {} \/ \E x \in Range(work) : x.do \in Uses /\ x.lane = l

\* Nothing is left of a lane that is not open, or it is to be shut.
GoneEmpty ==
  \A l \in LaneIds \ lanes :
    \/ /\ lane[l].sessions = {} /\ ~lane[l].up
       /\ \A n \in DOMAIN follow : follow[n].on = l => follow[n].stage \notin Counted
    \/ Pending("haltLane", l) \/ Pending("shut", l)

\* A chain that was closed only ends the sessions its consumers leave.
ClosedRests == closed => ~halted /\ lanes = {} /\ \A x \in Range(work) : x.do = "end"

HaltedGone == halted => lanes = {} \/ Doing("halt")

\* A consumer that has not heard the halt is to be told.
HaltOwed ==
  halted => \A c \in Consumers : consumer[c] = "open" =>
    \/ halts[c] = 1
    \/ Doing("halt")
    \/ \E x \in Range(work) : x.do = "haltLane" /\ c \in lane[x.lane].sessions
    \/ \E x \in Range(work) : x.do = "tell" /\ x.of = c

\* A lane that is open under a pause is to be paused.
LanesUp == ~halted => \A l \in lanes : IF paused THEN ~lane[l].up \/ Pending("pause", l) ELSE lane[l].up

\* A lane that does not say so yet is to be set disconnected.
PausedSaid == ~halted /\ paused => \A l \in lanes : lane[l].status = "disconnected" \/ Pending("paused", l)

\* A follow that still runs, or whose release waits, is on a lane to be paused, or is to be stopped.
PausedIdle ==
  paused => \A n \in DOMAIN follow : follow[n].on \in lanes /\ follow[n].stage \in {"held", "released"} =>
    Pending("pause", follow[n].on) \/ \E x \in Range(work) : x.do = "stop" /\ x.of = n

Held == FollowsHeld /\ SessionsHeld /\ HomesHeld /\ ExtraHeld /\ GoneEmpty
Owed == ClosedRests /\ HaltedGone /\ HaltOwed /\ LanesUp /\ PausedSaid /\ PausedIdle
LanesInv == Typed /\ Underway /\ LimitKept /\ Held /\ Owed

----------------------------------------------------------------------------
(* Sets of lanes. *)

\* The least of some numbers is one of them.
LEMMA LowestIs ==
  ASSUME NEW S \in SUBSET Nat, S # {}
  PROVE  Lowest(S) \in S /\ \A k \in S : Lowest(S) <= k
<1>1. \E R : IsWellFoundedOn(R, Nat) /\ \A x, y \in Nat : y < x => <<y, x>> \in R
  <2>1. \A x, y \in Nat : y < x => <<y, x>> \in OpToRel(<, Nat)
    BY DEF OpToRel
  <2>. QED BY <2>1, NatLessThanWellFounded
<1>2. PICK R : IsWellFoundedOn(R, Nat) /\ \A x, y \in Nat : y < x => <<y, x>> \in R
  BY <1>1
<1>3. PICK x \in S : \A y \in S : ~(<<y, x>> \in R)
  BY <1>2, WFMin
<1>4. \A y \in S : ~(y < x)
  BY <1>2, <1>3, Zenon
<1>5. \E l \in S : \A k \in S : l <= k
  BY <1>4
<1>. QED BY <1>5 DEF Lowest

\* A finite set of numbers can be walked in order: an element's place is how many are not above it.
LEMMA AscendingIs ==
  ASSUME NEW S \in SUBSET Nat, IsFiniteSet(S)
  PROVE  /\ Cardinality(S) \in Nat
         /\ Ascending(S) \in [1 .. Cardinality(S) -> S]
         /\ \A x \in S : \E i \in 1 .. Cardinality(S) : Ascending(S)[i] = x
<1> DEFINE n == Cardinality(S)
           Upto(x) == {y \in S : y <= x}
           place == [x \in S |-> Cardinality(Upto(x))]
<1>1. n \in Nat
  BY FS_CardinalityType
<1>2. \A x \in S : IsFiniteSet(Upto(x)) /\ Cardinality(Upto(x)) \in 1 .. n
  <2>1. SUFFICES ASSUME NEW x \in S
                 PROVE  IsFiniteSet(Upto(x)) /\ Cardinality(Upto(x)) \in 1 .. n
    OBVIOUS
  <2>2. Upto(x) \in SUBSET S /\ x \in Upto(x)
    OBVIOUS
  <2>3. IsFiniteSet(Upto(x)) /\ Cardinality(Upto(x)) <= n
    BY <2>2, FS_Subset
  <2>4. Cardinality(Upto(x)) \in Nat /\ Cardinality(Upto(x)) # 0
    BY <2>2, <2>3, FS_CardinalityType, FS_EmptySet
  <2>. QED BY <1>1, <2>3, <2>4
<1>3. \A x, y \in S : x < y => place[x] < place[y]
  <2>1. SUFFICES ASSUME NEW x \in S, NEW y \in S, x < y
                 PROVE  Cardinality(Upto(x)) < Cardinality(Upto(y))
    OBVIOUS
  <2>2. Upto(x) \in SUBSET Upto(y) /\ y \in Upto(y) /\ y \notin Upto(x)
    <3>1. x \in Nat /\ y \in Nat /\ \A z \in S : z \in Nat
      OBVIOUS
    <3>2. \A z \in S : z <= x => z <= y
      BY <2>1, <3>1
    <3>3. y <= y /\ ~(y <= x)
      BY <2>1, <3>1
    <3>. QED BY <3>2, <3>3
  <2>3. Cardinality(Upto(x)) <= Cardinality(Upto(y)) /\ Cardinality(Upto(x)) # Cardinality(Upto(y))
    BY <1>2, <2>2, FS_Subset
  <2>. QED BY <1>1, <1>2, <2>3
<1>4. place \in Injection(S, 1 .. n)
  <2>1. \A x \in S : place[x] \in 1 .. n
    BY <1>2
  <2>2. place \in [S -> 1 .. n]
    BY <2>1
  <2>3. \A x, y \in S : x # y => place[x] # place[y]
    <3>1. SUFFICES ASSUME NEW x \in S, NEW y \in S, x # y
                   PROVE  place[x] # place[y]
      OBVIOUS
    <3>2. x < y \/ y < x
      BY <3>1
    <3>3. place[x] < place[y] \/ place[y] < place[x]
      BY <1>3, <3>2
    <3>4. place[x] \in Nat /\ place[y] \in Nat
      BY <1>1, <2>1
    <3>. QED BY <3>3, <3>4
  <2>. QED BY <2>2, <2>3 DEF Injection, IsInjective
<1>5. place \in Surjection(S, 1 .. n)
  <2>1. IsFiniteSet(1 .. n) /\ Cardinality(1 .. n) = n
    BY <1>1, FS_Interval
  <2>. QED BY <1>4, <2>1, FS_Injection
<1>6. \E s \in [1 .. n -> S] : \A i, j \in DOMAIN s : i < j => s[i] < s[j]
  <2>1. \A i \in 1 .. n : \E x \in S : place[x] = i
    BY <1>5 DEF Surjection
  <2> DEFINE s == [i \in 1 .. n |-> CHOOSE x \in S : place[x] = i]
  <2>2. \A i \in 1 .. n : s[i] \in S /\ place[s[i]] = i
    BY <2>1
  <2>3. \A i, j \in 1 .. n : i < j => s[i] < s[j]
    <3>1. SUFFICES ASSUME NEW i \in 1 .. n, NEW j \in 1 .. n, i < j, ~(s[i] < s[j])
                   PROVE  FALSE
      OBVIOUS
    <3>2. s[i] \in S /\ s[j] \in S /\ place[s[i]] = i /\ place[s[j]] = j
      BY <2>2
    <3> HIDE DEF s
    <3>3. s[i] = s[j] \/ s[j] < s[i]
      <4>1. s[i] \in Nat /\ s[j] \in Nat
        BY <3>2
      <4>. QED BY <3>1, <4>1
    <3>4. s[j] < s[i] => place[s[j]] < place[s[i]]
      BY <1>3, <3>2
    <3> HIDE DEF place
    <3>. QED BY <1>1, <3>1, <3>2, <3>3, <3>4
  <2>4. s \in [1 .. n -> S]
    BY <2>2
  <2>. QED BY <2>3, <2>4
<1>7. Ascending(S) \in [1 .. n -> S] /\ \A i, j \in 1 .. n : i < j => Ascending(S)[i] < Ascending(S)[j]
  BY <1>6 DEF Ascending
<1>8. Ascending(S) \in Injection(1 .. n, S)
  <2>1. \A i, j \in 1 .. n : i # j => Ascending(S)[i] # Ascending(S)[j]
    <3>1. SUFFICES ASSUME NEW i \in 1 .. n, NEW j \in 1 .. n, i # j
                   PROVE  Ascending(S)[i] # Ascending(S)[j]
      OBVIOUS
    <3>2. i < j \/ j < i
      BY <1>1, <3>1
    <3>3. Ascending(S)[i] \in Nat /\ Ascending(S)[j] \in Nat
      BY <1>7
    <3>. QED BY <1>7, <3>2, <3>3
  <2>. QED BY <1>7, <2>1 DEF Injection, IsInjective
<1>9. Ascending(S) \in Surjection(1 .. n, S)
  <2>1. IsFiniteSet(1 .. n) /\ Cardinality(1 .. n) = n
    BY <1>1, FS_Interval
  <2>. QED BY <1>8, <2>1, FS_Injection
<1>. QED BY <1>1, <1>7, <1>9 DEF Surjection

\* What SetToSeq returns lists every element, and what it may list is in any order.
LEMMA SetToSeqIs ==
  ASSUME NEW S, IsFiniteSet(S)
  PROVE  /\ SetToSeq(S) \in SetToSeqs(S)
         /\ \A s \in SetToSeqs(S) : /\ s \in Seq(S) /\ DOMAIN s = 1 .. Len(s)
                                    /\ \A x \in S : \E i \in DOMAIN s : s[i] = x
<1>1. PICK n \in Nat : n = Cardinality(S) /\ ExistsBijection(1 .. n, S)
  BY FS_CardinalityType
<1>2. IsFiniteSet(1 .. n) /\ Cardinality(1 .. n) = n
  BY FS_Interval
<1>3. ASSUME NEW s \in [1 .. n -> S], \A i, j \in 1 .. n : i # j => s[i] # s[j]
      PROVE  s \in Seq(S) /\ DOMAIN s = 1 .. Len(s) /\ \A x \in S : \E i \in DOMAIN s : s[i] = x
  <2>1. s \in Injection(1 .. n, S)
    BY <1>3 DEF Injection, IsInjective
  <2>2. s \in Surjection(1 .. n, S)
    BY <1>1, <1>2, <2>1, FS_Injection
  <2>. QED BY <2>2 DEF Surjection
<1>4. \E s \in [1 .. n -> S] : IsInjective(s)
  BY <1>1 DEF ExistsBijection, Bijection, Injection
<1>5. SetToSeq(S) \in [1 .. n -> S] /\ IsInjective(SetToSeq(S))
  BY <1>1, <1>4 DEF SetToSeq
<1>6. \A i, j \in 1 .. n : i # j => SetToSeq(S)[i] # SetToSeq(S)[j]
  BY <1>5 DEF IsInjective
<1>7. SetToSeqs(S) = {s \in [1 .. n -> S] : \A i, j \in 1 .. n : i # j => s[i] # s[j]}
  BY <1>1 DEF SetToSeqs
<1>. QED BY <1>3, <1>5, <1>6, <1>7

----------------------------------------------------------------------------
(* The work. *)

\* What a step does, on which lane and for whom.
LEMMA DoIs ==
  ASSUME LanesAssumption, NEW step \in Opening \cup Halting \cup Pausing \cup {"end"}, NEW l \in LaneIds \cup {None},
         NEW c \in Consumers \cup Nat \cup {None}
  PROVE  Do(step, l, c) \in StepType /\ Do(step, l, c).do = step /\ Do(step, l, c).lane = l /\ Do(step, l, c).of = c
  BY DEF Do, StepType

\* The first step and those after it are all the steps.
LEMMA HeadIs ==
  ASSUME NEW w \in Seq(StepType), w # <<>>
  PROVE  /\ Head(w) \in StepType /\ Tail(w) \in Seq(StepType)
         /\ Range(w) = Range(Tail(w)) \cup {Head(w)}
         /\ Head(w) = w[1] /\ 1 \in DOMAIN w
<1>1. /\ DOMAIN w = 1 .. Len(w) /\ Len(w) \in Nat \ {0} /\ Head(w) = w[1] /\ Tail(w) \in Seq(StepType)
      /\ DOMAIN Tail(w) = 1 .. Len(w) - 1 /\ \A i \in DOMAIN Tail(w) : Tail(w)[i] = w[i + 1]
  OBVIOUS
<1>2. \A i \in DOMAIN w : i = 1 \/ (i - 1 \in DOMAIN Tail(w) /\ Tail(w)[i - 1] = w[i])
  BY <1>1
<1>3. \A i \in DOMAIN Tail(w) : i + 1 \in DOMAIN w
  BY <1>1
<1>4. \A x \in Range(w) : x \in Range(Tail(w)) \cup {Head(w)}
  <2>1. \A i \in DOMAIN Tail(w) : Tail(w)[i] \in Range(Tail(w))
    BY DEF Range
  <2>2. \A i \in DOMAIN w : w[i] \in Range(Tail(w)) \cup {Head(w)}
    BY <1>1, <1>2, <2>1
  <2>. QED BY <2>2 DEF Range
<1>5. \A x \in Range(Tail(w)) \cup {Head(w)} : x \in Range(w)
  BY <1>1, <1>3 DEF Range
<1>. QED BY <1>1, <1>4, <1>5

\* The steps put on top come in addition.
LEMMA OnIs ==
  ASSUME NEW s \in Seq(StepType), NEW t \in Seq(StepType)
  PROVE  s \o t \in Seq(StepType) /\ Range(s \o t) = Range(s) \cup Range(t)
<1>1. /\ DOMAIN s = 1 .. Len(s) /\ DOMAIN t = 1 .. Len(t) /\ Len(s) \in Nat /\ Len(t) \in Nat
      /\ s \o t \in Seq(StepType) /\ DOMAIN (s \o t) = 1 .. Len(s) + Len(t)
      /\ \A i \in DOMAIN s : i \in DOMAIN (s \o t) /\ (s \o t)[i] = s[i]
      /\ \A i \in DOMAIN t : Len(s) + i \in DOMAIN (s \o t) /\ (s \o t)[Len(s) + i] = t[i]
  OBVIOUS
<1>2. \A i \in DOMAIN (s \o t) : i \in DOMAIN s \/ (i - Len(s) \in DOMAIN t /\ (s \o t)[i] = t[i - Len(s)])
  BY <1>1
<1>3. \A x \in Range(s \o t) : x \in Range(s) \cup Range(t)
  BY <1>1, <1>2 DEF Range
<1>4. \A x \in Range(s) \cup Range(t) : x \in Range(s \o t)
  BY <1>1 DEF Range
<1>. QED BY <1>1, <1>3, <1>4

\* A call of one step.
LEMMA OneIs ==
  ASSUME NEW x \in StepType
  PROVE  <<x>> \in Seq(StepType) /\ Range(<<x>>) = {x}
  BY DEF Range

\* A call of none.
LEMMA NoneIs == <<>> \in Seq(StepType) /\ Range(<<>>) = {}
  BY DEF Range

\* After the first step there is none that picked a lane, but for what goes on with a lane just reported.
LEMMA RestIs ==
  ASSUME NEW w \in Seq(StepType), Ordered(w), w # <<>>
  PROVE  /\ Ordered(Tail(w))
         /\ Head(w).do # "reported" => Plain(Tail(w))
         /\ Head(w).do \notin Opening => Plain(w)
<1>1. /\ DOMAIN w = 1 .. Len(w) /\ Len(w) \in Nat \ {0} /\ Head(w) = w[1]
      /\ DOMAIN Tail(w) = 1 .. Len(w) - 1 /\ \A i \in DOMAIN Tail(w) : i + 1 \in DOMAIN w /\ Tail(w)[i] = w[i + 1]
  OBVIOUS
<1>2. \A i \in DOMAIN Tail(w) : Tail(w)[i].do \in Opening => i = 1 /\ w[1].do = "reported"
  BY <1>1 DEF Ordered
<1>3. Ordered(Tail(w))
  BY <1>2 DEF Ordered
<1>4. Head(w).do # "reported" => Plain(Tail(w))
  BY <1>1, <1>2 DEF Plain, Range
<1>5. Head(w).do \notin Opening => Plain(w)
  BY <1>1, <1>4, HeadIs DEF Plain, Opening
<1>. QED BY <1>3, <1>4, <1>5

\* What may come on top of steps that picked no lane.
LEMMA FirstIs ==
  ASSUME NEW w \in Seq(StepType), Plain(w), NEW x \in StepType
  PROVE  /\ Ordered(w) /\ Ordered(<<x>> \o w)
         /\ x.do \notin Opening => Plain(<<x>> \o w)
         /\ \A y \in StepType : y.do = "reported" /\ x.do \in Uses => Ordered(<<y>> \o (<<x>> \o w))
<1>1. \A i \in DOMAIN w : w[i].do \notin Opening
  BY DEF Plain, Range
<1>2. /\ DOMAIN (<<x>> \o w) = 1 .. 1 + Len(w) /\ (<<x>> \o w)[1] = x /\ DOMAIN w = 1 .. Len(w) /\ Len(w) \in Nat
      /\ \A i \in DOMAIN (<<x>> \o w) : i # 1 => i - 1 \in DOMAIN w /\ (<<x>> \o w)[i] = w[i - 1]
  OBVIOUS
<1>3. Ordered(w) /\ Ordered(<<x>> \o w)
  BY <1>1, <1>2 DEF Ordered
<1>4. x.do \notin Opening => Plain(<<x>> \o w)
  <2>1. Range(<<x>> \o w) = {x} \cup Range(w)
    BY OnIs, OneIs
  <2>. QED BY <2>1 DEF Plain
<1>5. ASSUME NEW y \in StepType, y.do = "reported", x.do \in Uses
      PROVE  Ordered(<<y>> \o (<<x>> \o w))
  <2> DEFINE v == <<x>> \o w
             u == <<y>> \o v
  <2>1. v \in Seq(StepType)
    BY OnIs, OneIs
  <2>2. /\ DOMAIN u = 1 .. 1 + Len(v) /\ u[1] = y /\ DOMAIN v = 1 .. Len(v) /\ Len(v) \in Nat /\ Len(v) = 1 + Len(w)
        /\ \A i \in DOMAIN u : i # 1 => i - 1 \in DOMAIN v /\ u[i] = v[i - 1]
    BY <2>1
  <2>3. \A i \in DOMAIN u : i # 1 /\ i # 2 => u[i].do \notin Opening
    <3>1. SUFFICES ASSUME NEW i \in DOMAIN u, i # 1, i # 2
                   PROVE  u[i].do \notin Opening
      OBVIOUS
    <3>2. i - 1 \in DOMAIN v /\ u[i] = v[i - 1] /\ i - 1 # 1
      BY <2>2, <3>1
    <3>3. i - 2 \in DOMAIN w /\ v[i - 1] = w[i - 2]
      BY <1>2, <2>2, <3>1, <3>2
    <3>. QED BY <1>1, <3>2, <3>3
  <2>4. 2 \in DOMAIN u /\ u[2] = x
    BY <1>2, <2>2
  <2> HIDE DEF u
  <2>5. Ordered(u)
    BY <1>5, <2>2, <2>3, <2>4 DEF Ordered
  <2>. QED BY <2>5 DEF u
<1>. QED BY <1>3, <1>4, <1>5

\* Steps that pick no lane, on top of others that pick none, are in order.
LEMMA PlainIs ==
  ASSUME NEW s \in Seq(StepType), NEW t \in Seq(StepType), Plain(s), Plain(t)
  PROVE  Plain(s \o t) /\ Ordered(s \o t) /\ Ordered(t)
<1>1. s \o t \in Seq(StepType) /\ Plain(s \o t)
  BY OnIs DEF Plain
<1>2. \A w \in Seq(StepType) : Plain(w) => Ordered(w)
  BY DEF Plain, Ordered, Range
<1>. QED BY <1>1, <1>2

\* A step on each of some lanes: one for every lane, and none for another.
LEMMA OnEachIs ==
  ASSUME LanesAssumption, NEW S \in SUBSET LaneIds, NEW step \in Halting \cup Pausing
  PROVE  /\ OnEach(S, step) \in Seq(StepType) /\ Plain(OnEach(S, step))
         /\ \A x \in Range(OnEach(S, step)) : x.do = step /\ x.lane \in S
         /\ \A l \in S : \E x \in Range(OnEach(S, step)) : x.do = step /\ x.lane = l
<1>1. S \in SUBSET Nat /\ IsFiniteSet(S)
  <2>1. LaneIds \in SUBSET Nat /\ IsFiniteSet(LaneIds)
    BY FS_Interval DEF LanesAssumption, LaneIds
  <2>. QED BY <2>1, FS_Subset
<1>2. PICK n \in Nat : n = Cardinality(S)
  BY <1>1, FS_CardinalityType
<1>3. PICK a : a = Ascending(S)
  OBVIOUS
<1>4. a \in [1 .. n -> S] /\ \A x \in S : \E i \in 1 .. n : a[i] = x
  BY <1>1, <1>2, <1>3, AscendingIs
<1>5. OnEach(S, step) = [i \in 1 .. n |-> Do(step, a[i], None)]
  BY <1>2, <1>3 DEF OnEach
<1>6. \A l \in S : Do(step, l, None) \in StepType /\ Do(step, l, None).do = step /\ Do(step, l, None).lane = l
  BY DoIs
<1>7. OnEach(S, step) \in Seq(StepType)
  BY <1>4, <1>5, <1>6
<1>8. Range(OnEach(S, step)) = {Do(step, l, None) : l \in S}
  BY <1>4, <1>5 DEF Range
<1>9. Plain(OnEach(S, step))
  BY <1>6, <1>8 DEF Plain, Opening, Uses, Halting, Pausing
<1>. QED BY <1>6, <1>7, <1>8, <1>9

\* A chain whose steps picked no lane is not about to halt.
LEMMA PlainRests ==
  ASSUME NEW w \in Seq(StepType), Plain(w), w # <<>>
  PROVE  Head(w).do \notin Opening
  BY HeadIs DEF Plain

----------------------------------------------------------------------------
(* Counting follows. *)

\* How many follows a lane runs is a number.
LEMMA CountIs ==
  ASSUME NEW l, follow \in Seq(FollowType)
  PROVE  IsFiniteSet({n \in DOMAIN follow : follow[n].on = l /\ follow[n].stage \in Counted}) /\ CountFollows(l) \in Nat
<1> DEFINE C == {n \in DOMAIN follow : follow[n].on = l /\ follow[n].stage \in Counted}
<1>1. DOMAIN follow = 1 .. Len(follow) /\ Len(follow) \in Nat
  OBVIOUS
<1>2. IsFiniteSet(DOMAIN follow) /\ C \in SUBSET DOMAIN follow
  BY <1>1, FS_Interval
<1>3. IsFiniteSet(C)
  BY <1>2, FS_Subset
<1>. QED BY <1>3, FS_CardinalityType DEF CountFollows

\* What a lane runs grows only by what starts to count.
LEMMA CountFewer ==
  ASSUME NEW l, follow \in Seq(FollowType), follow' \in Seq(FollowType),
         \A n \in DOMAIN follow' : follow'[n].on = l /\ follow'[n].stage \in Counted =>
           n \in DOMAIN follow /\ follow[n].on = l /\ follow[n].stage \in Counted
  PROVE  CountFollows(l)' <= CountFollows(l) /\ CountFollows(l)' \in Nat /\ CountFollows(l) \in Nat
<1> DEFINE C == {n \in DOMAIN follow : follow[n].on = l /\ follow[n].stage \in Counted}
           C2 == {n \in DOMAIN follow' : follow'[n].on = l /\ follow'[n].stage \in Counted}
<1>1. IsFiniteSet(C)
  BY CountIs
<1>2. C2 \in SUBSET C
  OBVIOUS
<1>3. IsFiniteSet(C2) /\ Cardinality(C2) <= Cardinality(C)
  BY <1>1, <1>2, FS_Subset
<1>4. CountFollows(l) = Cardinality(C) /\ CountFollows(l)' = Cardinality(C2)
  BY DEF CountFollows
<1>. QED BY <1>1, <1>3, <1>4, FS_CardinalityType

\* One follow more counts for one.
LEMMA CountOneMore ==
  ASSUME NEW l, NEW f, follow \in Seq(FollowType), follow' = Append(follow, f)
  PROVE  /\ CountFollows(l)' \in Nat /\ CountFollows(l) \in Nat /\ CountFollows(l)' <= CountFollows(l) + 1
         /\ f.on # l => CountFollows(l)' <= CountFollows(l)
<1> DEFINE C == {n \in DOMAIN follow : follow[n].on = l /\ follow[n].stage \in Counted}
           C2 == {n \in DOMAIN follow' : follow'[n].on = l /\ follow'[n].stage \in Counted}
           m == Len(follow) + 1
<1>1. IsFiniteSet(C)
  BY CountIs
<1>2. DOMAIN follow' = 1 .. m /\ DOMAIN follow = 1 .. Len(follow) /\ Len(follow) \in Nat /\ follow'[m] = f
      /\ \A n \in DOMAIN follow : follow'[n] = follow[n]
  OBVIOUS
<1>3. C2 \in SUBSET (C \cup {m}) /\ (f.on # l => C2 \in SUBSET C)
  BY <1>2
<1>4. IsFiniteSet(C \cup {m}) /\ Cardinality(C \cup {m}) <= Cardinality(C) + 1 /\ Cardinality(C) \in Nat
      /\ Cardinality(C \cup {m}) \in Nat
  <2>1. IsFiniteSet(C \cup {m}) /\ Cardinality(C) \in Nat
        /\ Cardinality(C \cup {m}) = IF m \in C THEN Cardinality(C) ELSE Cardinality(C) + 1
    BY <1>1, FS_AddElement, FS_CardinalityType
  <2> HIDE DEF C, m
  <2>. QED BY <2>1
<1>5. IsFiniteSet(C2) /\ Cardinality(C2) \in Nat
      /\ Cardinality(C2) <= Cardinality(C \cup {m}) /\ (f.on # l => Cardinality(C2) <= Cardinality(C))
  <2>1. IsFiniteSet(C2) /\ Cardinality(C2) <= Cardinality(C \cup {m})
    BY <1>3, <1>4, FS_Subset
  <2>2. f.on # l => Cardinality(C2) <= Cardinality(C)
    BY <1>1, <1>3, FS_Subset
  <2>. QED BY <2>1, <2>2, FS_CardinalityType
<1>6. CountFollows(l) = Cardinality(C) /\ CountFollows(l)' = Cardinality(C2)
  BY DEF CountFollows
<1> HIDE DEF C, C2, m
<1>. QED BY <1>4, <1>5, <1>6

----------------------------------------------------------------------------
(* The steps of the calls under way. *)

\* The step whose turn it is, and those after it.
LEMMA PopIs ==
  ASSUME LanesInv, work # <<>>
  PROVE  /\ work \in Seq(StepType) /\ Tail(work) \in Seq(StepType)
         /\ Head(work) \in StepType /\ Names(Head(work)) /\ Meant(Head(work))
         /\ \A x \in Range(work) : x \in Range(Tail(work)) \/ x = Head(work)
         /\ \A x \in Range(Tail(work)) : x \in Range(work) /\ x \in StepType /\ Names(x) /\ Meant(x)
                                     /\ (x.do # "halt" => x.lane \in LaneIds)
         /\ Ordered(Tail(work))
         /\ Head(work).do # "reported" => Plain(Tail(work))
         /\ Head(work).do \notin Opening => Plain(work)
<1>1. work \in Seq(StepType) /\ Ordered(work) /\ \A x \in Range(work) : Names(x) /\ Meant(x)
  BY DEF LanesInv, Typed, Underway
<1>2. /\ Head(work) \in StepType /\ Tail(work) \in Seq(StepType)
      /\ Range(work) = Range(Tail(work)) \cup {Head(work)}
  BY <1>1, HeadIs
<1>3. \A x \in Range(Tail(work)) : x \in StepType
  BY <1>2 DEF Range
<1>4. \A x \in Range(work) : x.do # "halt" => x.lane \in LaneIds
  BY <1>1 DEF Names
<1>. QED BY <1>1, <1>2, <1>3, <1>4, RestIs

\* A step that is over leaves the rest as it was.
LEMMA NoHaltIsNext ==
  ASSUME NEW w \in Seq(StepType), Plain(w)
  PROVE  ~(w # <<>> /\ Head(w).do = "halt")
  BY PlainRests DEF Opening

\* What the typing says of each open lane, session and follow.
LEMMA TypedIs ==
  ASSUME LanesAssumption, Typed
  PROVE  /\ lanes \in SUBSET LaneIds /\ IsFiniteSet(lanes) /\ None \notin LaneIds /\ LaneIds \in SUBSET Nat
         /\ \A l \in LaneIds : lane[l] \in LaneType /\ lane[l].sessions \subseteq Consumers
         /\ \A n \in DOMAIN follow : /\ follow[n] \in FollowType /\ follow[n].on \in LaneIds /\ follow[n].by \in Consumers
                                     /\ follow[n].stage \in Counted \cup {"over"}
<1>1. lanes \in SUBSET LaneIds /\ None \notin LaneIds /\ LaneIds \in SUBSET Nat
  BY DEF Typed, LaneIds, LanesAssumption
<1>2. IsFiniteSet(LaneIds)
  BY FS_Interval DEF LaneIds, LanesAssumption
<1>3. IsFiniteSet(lanes)
  BY <1>1, <1>2, FS_Subset
<1>4. \A l \in LaneIds : lane[l] \in LaneType /\ lane[l].sessions \subseteq Consumers
  BY DEF Typed, LaneType
<1>5. \A n \in DOMAIN follow : follow[n] \in FollowType
  BY DEF Typed
<1>. QED BY <1>1, <1>3, <1>4, <1>5 DEF FollowType

\* A step under way that neither halts the chain nor goes on with a lane just picked.
LEMMA StepIs ==
  ASSUME LanesAssumption, LanesInv, NEW step, step \notin Opening, Doing(step)
  PROVE  /\ work # <<>> /\ Head(work).do = step /\ Head(work).lane \in LaneIds /\ ~Doing("halt")
         /\ Names(Head(work)) /\ Meant(Head(work)) /\ Head(work) \in Range(work)
         /\ Tail(work) \in Seq(StepType) /\ Plain(Tail(work)) /\ Ordered(Tail(work))
         /\ \A x \in Range(work) : (x \in Range(Tail(work)) \/ x = Head(work)) /\ x.do \notin Uses
         /\ \A x \in Range(Tail(work)) : /\ x \in Range(work) /\ Names(x) /\ Meant(x)
                                         /\ x.do \notin Opening /\ x.lane \in LaneIds
<1>1. work # <<>> /\ Head(work).do = step /\ ~Doing("halt")
  BY DEF Doing, Opening
<1>2. "halt" \in Opening /\ "reported" \in Opening
  BY DEF Opening
<1>3. Plain(Tail(work))
  BY <1>1, <1>2, PopIs
<1>4. \A x \in Range(Tail(work)) : x.do \notin Opening
  BY <1>3 DEF Plain
<1>5. Head(work).lane \in LaneIds
  BY <1>1, <1>2, PopIs DEF Names
<1>6. \A x \in Range(work) : x.do \notin Uses
  BY <1>1, <1>4, PopIs DEF Opening
<1>7. Head(work) \in Range(work)
  BY <1>1, HeadIs, PopIs
<1>. QED BY <1>1, <1>2, <1>3, <1>4, <1>5, <1>6, <1>7, PopIs

\* Such a step that only ends leaves the others as they were.
LEMMA EndsIs ==
  ASSUME LanesAssumption, LanesInv, NEW step, step \notin Opening, Doing(step), work' = Tail(work)
  PROVE  /\ work' \in Seq(StepType) /\ Plain(work') /\ Ordered(work') /\ ~Doing("halt") /\ ~Doing("halt")'
         /\ \A x \in Range(work) : (x \in Range(work') \/ x = Head(work)) /\ x.do \notin Uses
         /\ \A x \in Range(work') : x \in Range(work) /\ Names(x) /\ Meant(x) /\ x.do \notin Opening /\ x.lane \in LaneIds
  BY StepIs, NoHaltIsNext DEF Doing

\* A follow that goes to another stage.
LEMMA StageIs ==
  ASSUME NEW f \in FollowType, NEW s \in Counted \cup {"over"}
  PROVE  LET g == [f EXCEPT !.stage = s]
         IN  g \in FollowType /\ g.on = f.on /\ g.by = f.by /\ g.stage = s
  BY DEF FollowType

\* What a lane that is shut has left.
LEMMA ShutIs ==
  ASSUME LanesAssumption, Typed, NEW L \in SUBSET LaneIds
  PROVE  /\ Shut(L, lane) \in [LaneIds -> LaneType]
         /\ \A l \in L : Shut(L, lane)[l].sessions = {} /\ ~Shut(L, lane)[l].up
         /\ \A l \in LaneIds \ L : Shut(L, lane)[l] = lane[l]
         /\ \A l \in LaneIds : IsFiniteSet(Shut(L, lane)[l].sessions)
<1>1. ASSUME NEW o \in LaneType
      PROVE  /\ [o EXCEPT !.sessions = {}, !.up = FALSE] \in LaneType
             /\ [o EXCEPT !.sessions = {}, !.up = FALSE].sessions = {} /\ ~[o EXCEPT !.sessions = {}, !.up = FALSE].up
  BY <1>1 DEF LaneType
<1> DEFINE none(o) == [o EXCEPT !.sessions = {}, !.up = FALSE]
<1>2. \A o \in LaneType : none(o) \in LaneType /\ none(o).sessions = {} /\ ~none(o).up
  BY <1>1
<1>3. Shut(L, lane) = [l \in LaneIds |-> IF l \in L THEN none(lane[l]) ELSE lane[l]]
  BY DEF Shut
<1> HIDE DEF none
<1>4. \A l \in LaneIds : lane[l] \in LaneType /\ IsFiniteSet(lane[l].sessions)
  BY TypedIs DEF Typed
<1>5. \A l \in L : Shut(L, lane)[l] = none(lane[l])
  BY <1>3
<1>6. \A l \in LaneIds \ L : Shut(L, lane)[l] = lane[l]
  BY <1>3
<1>7. \A l \in LaneIds : Shut(L, lane)[l] \in LaneType /\ IsFiniteSet(Shut(L, lane)[l].sessions)
  BY <1>2, <1>4, <1>5, <1>6, FS_EmptySet
<1>8. \A l \in L : Shut(L, lane)[l].sessions = {} /\ ~Shut(L, lane)[l].up
  BY <1>2, <1>4, <1>5
<1>9. Shut(L, lane) \in [LaneIds -> LaneType]
  BY <1>3, <1>7
<1>. QED BY <1>6, <1>7, <1>8, <1>9

\* What is left of the follows of lanes that are gone.
LEMMA DropIs ==
  ASSUME LanesAssumption, Typed, NEW L, NEW d, d = DropFollows(L)
  PROVE  /\ d \in Seq(FollowType) /\ DOMAIN d = DOMAIN follow
         /\ \A n \in DOMAIN follow : /\ d[n].on = follow[n].on /\ d[n].by = follow[n].by
                                     /\ follow[n].on \in L => d[n].stage = "over"
                                     /\ follow[n].on \notin L => d[n] = follow[n]
                                     /\ d[n].stage \in Counted => d[n] = follow[n]
<1>1. \A n \in DOMAIN follow : d[n] = IF follow[n].on \in L THEN [follow[n] EXCEPT !.stage = "over"] ELSE follow[n]
  BY DEF DropFollows
<1>2. DOMAIN follow = 1 .. Len(follow) /\ Len(follow) \in Nat /\ d = [n \in 1 .. Len(follow) |-> d[n]]
  BY DEF Typed, DropFollows
<1>3. "over" \notin Counted
  BY DEF Counted
<1>4. \A n \in DOMAIN follow : follow[n] \in FollowType
  BY TypedIs
<1>5. ASSUME NEW n \in DOMAIN follow
      PROVE  /\ d[n] \in FollowType /\ d[n].on = follow[n].on /\ d[n].by = follow[n].by
             /\ follow[n].on \in L => d[n].stage = "over"
             /\ follow[n].on \notin L => d[n] = follow[n]
  <2>1. "over" \in Counted \cup {"over"} /\ follow[n] \in FollowType
    BY <1>4
  <2> DEFINE g == [follow[n] EXCEPT !.stage = "over"]
  <2>2. g \in FollowType /\ g.on = follow[n].on /\ g.by = follow[n].by /\ g.stage = "over"
    BY <2>1, StageIs
  <2>3. d[n] = IF follow[n].on \in L THEN g ELSE follow[n]
    BY <1>1
  <2> HIDE DEF g
  <2>. QED BY <2>1, <2>2, <2>3
<1>6. d \in Seq(FollowType)
  BY <1>2, <1>5
<1>. QED BY <1>2, <1>3, <1>5, <1>6

\* The follows of a session that ends stay where they are, none of them waited for.
LEMMA EndFollowsIs ==
  ASSUME LanesAssumption, Typed, NEW c, NEW l, NEW d, d = EndFollows(c, l)
  PROVE  /\ d \in Seq(FollowType) /\ DOMAIN d = DOMAIN follow
         /\ \A n \in DOMAIN follow : /\ d[n].on = follow[n].on /\ d[n].by = follow[n].by
                                     /\ d[n].stage \in Counted => follow[n].stage \in Counted
                                     /\ d[n].stage \in Waiting => d[n] = follow[n] /\ (follow[n].by # c \/ follow[n].on # l)
                                     /\ d[n].stage \in {"held", "released"} => follow[n].stage \in {"held", "released"}
<1> DEFINE to(s) == IF s = "asked" THEN "orphaned" ELSE IF s = "held" THEN "released" ELSE s
<1>1. \A n \in DOMAIN follow :
        d[n] = IF follow[n].by # c \/ follow[n].on # l THEN follow[n] ELSE [follow[n] EXCEPT !.stage = to(@)]
  BY DEF EndFollows
<1>2. DOMAIN follow = 1 .. Len(follow) /\ Len(follow) \in Nat /\ d = [n \in 1 .. Len(follow) |-> d[n]]
  BY DEF Typed, EndFollows
<1>3. \A n \in DOMAIN follow : follow[n] \in FollowType /\ follow[n].stage \in Counted \cup {"over"}
  BY TypedIs
<1>4. ASSUME NEW s \in Counted \cup {"over"}
      PROVE  /\ to(s) \in Counted \cup {"over"} /\ to(s) \notin Waiting
             /\ to(s) \in Counted => s \in Counted
             /\ to(s) \in {"held", "released"} => s \in {"held", "released"}
  BY DEF Counted, Waiting
<1>5. ASSUME NEW n \in DOMAIN follow
      PROVE  /\ d[n] \in FollowType /\ d[n].on = follow[n].on /\ d[n].by = follow[n].by
             /\ (d[n] = follow[n] /\ (follow[n].by # c \/ follow[n].on # l)) \/ d[n].stage = to(follow[n].stage)
  <2> DEFINE s == to(follow[n].stage)
             g == [follow[n] EXCEPT !.stage = s]
  <2>1. s \in Counted \cup {"over"} /\ follow[n] \in FollowType
    BY <1>3, <1>4
  <2>2. d[n] = IF follow[n].by # c \/ follow[n].on # l THEN follow[n] ELSE g
    BY <1>1
  <2> HIDE DEF s
  <2>3. g \in FollowType /\ g.on = follow[n].on /\ g.by = follow[n].by /\ g.stage = s
    BY <2>1, StageIs
  <2> HIDE DEF g
  <2>. QED BY <2>1, <2>2, <2>3 DEF s
<1> HIDE DEF to
<1>6. d \in Seq(FollowType)
  BY <1>2, <1>5
<1>. QED BY <1>2, <1>3, <1>4, <1>5, <1>6

\* The first report of a halt has the pool halt the chain before anything else goes on.
LEMMA ReportHaltIs ==
  ASSUME LanesAssumption, NEW before, NEW w \in Seq(StepType), w = Tail(before), Plain(w), ~halted, ReportHalt(before)
  PROVE  /\ halted' = TRUE /\ Doing("halt")' /\ work' \in Seq(StepType) /\ Ordered(work')
         /\ \A x \in Range(w) : x \in Range(work')
         /\ \A x \in Range(work') : x \in Range(w) \/ x.do = "halt"
<1> DEFINE h == Do("halt", None, None)
<1>1. h \in StepType /\ h.do = "halt"
  <2>1. "halt" \in Opening \cup Halting \cup Pausing \cup {"end"}
    BY DEF Opening
  <2>. QED BY <2>1 DEF Do, StepType
<1>2. work' = <<h>> \o w /\ halted' = TRUE
  BY DEF ReportHalt
<1> HIDE DEF h
<1>3. <<h>> \in Seq(StepType) /\ Range(<<h>>) = {h}
  BY <1>1, OneIs
<1>4. work' \in Seq(StepType) /\ Range(work') = {h} \cup Range(w)
  BY <1>2, <1>3, OnIs
<1>5. Ordered(work')
  BY <1>1, <1>2, FirstIs
<1>6. work' # <<>> /\ Head(work') = h
  BY <1>1, <1>2
<1>. QED BY <1>1, <1>2, <1>4, <1>5, <1>6 DEF Doing

\* A lane whose sessions change is otherwise as it was.
Holding(l, S) == [lane EXCEPT ![l].sessions = S]

\* What Holding changes, and what it keeps.
LEMMA HoldingIs ==
  ASSUME Typed, NEW l \in LaneIds, NEW S \in SUBSET Consumers, IsFiniteSet(S), NEW d, d = Holding(l, S)
  PROVE  /\ d \in [LaneIds -> LaneType] /\ \A k \in LaneIds : IsFiniteSet(d[k].sessions)
         /\ d[l].sessions = S
         /\ \A k \in LaneIds : (k # l => d[k] = lane[k]) /\ d[k].up = lane[k].up /\ d[k].status = lane[k].status
<1> DEFINE o == [lane[l] EXCEPT !.sessions = S]
<1>1. lane \in [LaneIds -> LaneType] /\ lane[l] \in LaneType /\ \A k \in LaneIds : IsFiniteSet(lane[k].sessions)
  BY DEF Typed
<1>2. o \in LaneType /\ o.sessions = S /\ o.up = lane[l].up /\ o.status = lane[l].status
  BY <1>1 DEF LaneType
<1>3. d = [lane EXCEPT ![l] = o]
  BY DEF Holding
<1> HIDE DEF o
<1>4. d \in [LaneIds -> LaneType] /\ d[l] = o /\ \A k \in LaneIds : k # l => d[k] = lane[k]
  BY <1>1, <1>2, <1>3
<1>. QED BY <1>1, <1>2, <1>4

\* Where consumers may act no lane is picked and no halt is about to begin.
LEMMA MayActIs ==
  ASSUME LanesInv, MayAct
  PROVE  /\ work \in Seq(StepType) /\ Plain(work) /\ ~Doing("halt")
         /\ \A x \in Range(work) : Names(x) /\ Meant(x) /\ x.do \notin Opening /\ x.do \notin Uses /\ x.lane \in LaneIds
<1>1. work \in Seq(StepType) /\ Ordered(work) /\ \A x \in Range(work) : Names(x) /\ Meant(x)
  BY DEF LanesInv, Typed, Underway
<1>2. Plain(work)
  <2>1. CASE work = <<>>
    BY <2>1, NoneIs DEF Plain
  <2>2. CASE work # <<>>
    <3>1. Head(work).do \notin Opening
      BY <2>2 DEF MayAct, Opening, Uses
    <3>. QED BY <1>1, <2>2, <3>1, RestIs
  <2>. QED BY <2>1, <2>2
<1>3. \A x \in Range(work) : x.do \notin Opening /\ x.do \notin Uses /\ x.do # "halt"
  BY <1>2 DEF Plain, Opening
<1>4. \A x \in Range(work) : x.lane \in LaneIds
  BY <1>1, <1>3 DEF Names
<1>. QED BY <1>1, <1>2, <1>3, <1>4, NoHaltIsNext DEF Doing

\* How many homes a lane has is a number.
LEMMA CountHomesIs ==
  ASSUME Typed, NEW l \in LaneIds
  PROVE  CountHomes(l) \in Nat
<1>1. IsFiniteSet(lane[l].sessions)
  BY DEF Typed
<1>2. {c \in lane[l].sessions : home[c] = l} \in SUBSET lane[l].sessions
  OBVIOUS
<1>3. IsFiniteSet({c \in lane[l].sessions : home[c] = l})
  BY <1>1, <1>2, FS_Subset
<1>. QED BY <1>3, FS_CardinalityType DEF CountHomes

\* While a lane has room, the one that is picked is open and has room.
LEMMA PicksIs ==
  ASSUME LanesAssumption, Typed, Roomy # {}
  PROVE  /\ PickHome \in Roomy
         /\ \A c \in Consumers : home[c] \in lanes => PickFollow(c) \in Roomy
<1>1. Roomy \in SUBSET Nat /\ Roomy \in SUBSET LaneIds
  BY TypedIs DEF Roomy
<1>2. Lowest(Roomy) \in Roomy
  BY <1>1, LowestIs
<1> DEFINE Counts == {CountHomes(l) : l \in Roomy}
           Fewest == {l \in Roomy : \A k \in Roomy : CountHomes(l) <= CountHomes(k)}
<1>3. Counts \in SUBSET Nat /\ Counts # {}
  <2>1. \A l \in LaneIds : CountHomes(l) \in Nat
    BY CountHomesIs
  <2>2. \A l \in Roomy : CountHomes(l) \in Nat
    BY <1>1, <2>1
  <2>3. Counts \in SUBSET Nat
    BY <2>2
  <2>4. PICK l : l \in Roomy
    OBVIOUS
  <2>5. CountHomes(l) \in Counts
    BY <2>4
  <2>. QED BY <2>3, <2>5
<1>4. Lowest(Counts) \in Counts /\ \A n \in Counts : Lowest(Counts) <= n
  BY <1>3, LowestIs
<1>5. PICK l \in Roomy : CountHomes(l) = Lowest(Counts)
  BY <1>4
<1>6. l \in Fewest
  BY <1>4, <1>5
<1>7. Fewest \in SUBSET Nat /\ Fewest # {} /\ Fewest \subseteq Roomy
  BY <1>1, <1>6
<1>8. PickHome = Lowest(Fewest)
  BY DEF PickHome
<1> HIDE DEF Fewest
<1>9. PickHome \in Roomy
  BY <1>7, <1>8, LowestIs
<1>. QED BY <1>2, <1>9 DEF PickFollow, Roomy

\* A follow that goes to another stage leaves the others as they are.
Going(n, s) == [follow EXCEPT ![n].stage = s]

\* What Going changes, and what it keeps.
LEMMA GoingIs ==
  ASSUME Typed, NEW n \in DOMAIN follow, NEW s \in Counted \cup {"over"}, NEW d, d = Going(n, s)
  PROVE  /\ d \in Seq(FollowType) /\ DOMAIN d = DOMAIN follow
         /\ d[n].on = follow[n].on /\ d[n].by = follow[n].by /\ d[n].stage = s
         /\ \A m \in DOMAIN follow : m # n => d[m] = follow[m]
<1> DEFINE g == [follow[n] EXCEPT !.stage = s]
<1>1. follow \in Seq(FollowType) /\ follow[n] \in FollowType
  BY DEF Typed
<1>2. g \in FollowType /\ g.on = follow[n].on /\ g.by = follow[n].by /\ g.stage = s
  BY <1>1, StageIs
<1>3. d = [follow EXCEPT ![n] = g]
  BY DEF Going
<1> HIDE DEF g
<1>4. d \in Seq(FollowType) /\ DOMAIN d = DOMAIN follow /\ d[n] = g /\ \A m \in DOMAIN follow : m # n => d[m] = follow[m]
  BY <1>1, <1>2, <1>3
<1>. QED BY <1>2, <1>4

\* A lane that reports a status, or whose transport opens or closes, keeps its sessions.
Saying(l, s) == [lane EXCEPT ![l].status = s]
Raised(L) == [l \in LaneIds |-> IF l \in L THEN [lane[l] EXCEPT !.up = TRUE] ELSE lane[l]]
Lowered(L) == [l \in LaneIds |-> IF l \in L THEN [lane[l] EXCEPT !.up = FALSE] ELSE lane[l]]

\* What Saying changes, and what it keeps.
LEMMA SayingIs ==
  ASSUME Typed, NEW l \in LaneIds, NEW s \in Statuses, NEW d, d = Saying(l, s)
  PROVE  /\ d \in [LaneIds -> LaneType] /\ d[l].status = s
         /\ \A k \in LaneIds : (k # l => d[k] = lane[k]) /\ d[k].up = lane[k].up /\ d[k].sessions = lane[k].sessions
<1> DEFINE o == [lane[l] EXCEPT !.status = s]
<1>1. lane \in [LaneIds -> LaneType] /\ lane[l] \in LaneType
  BY DEF Typed
<1>2. o \in LaneType /\ o.sessions = lane[l].sessions /\ o.up = lane[l].up /\ o.status = s
  BY <1>1 DEF LaneType
<1>3. d = [lane EXCEPT ![l] = o]
  BY DEF Saying
<1> HIDE DEF o
<1>4. d \in [LaneIds -> LaneType] /\ d[l] = o /\ \A k \in LaneIds : k # l => d[k] = lane[k]
  BY <1>1, <1>2, <1>3
<1>. QED BY <1>1, <1>2, <1>4

\* The transports of some lanes open.
LEMMA RaisedIs ==
  ASSUME Typed, NEW L \in SUBSET LaneIds, NEW d, d = Raised(L)
  PROVE  /\ d \in [LaneIds -> LaneType]
         /\ \A k \in LaneIds : d[k].sessions = lane[k].sessions /\ d[k].status = lane[k].status
         /\ \A k \in L : d[k].up
         /\ \A k \in LaneIds \ L : d[k] = lane[k]
<1> DEFINE to(o) == [o EXCEPT !.up = TRUE]
<1>1. \A k \in LaneIds : lane[k] \in LaneType
  BY DEF Typed
<1>2. ASSUME NEW o \in LaneType
      PROVE  to(o) \in LaneType /\ to(o).sessions = o.sessions /\ to(o).status = o.status /\ to(o).up = TRUE
  BY DEF LaneType
<1>3. d = [k \in LaneIds |-> IF k \in L THEN to(lane[k]) ELSE lane[k]]
  BY DEF Raised
<1> HIDE DEF to
<1>4. /\ \A k \in L : d[k] = to(lane[k])
      /\ \A k \in LaneIds \ L : d[k] = lane[k]
  BY <1>3
<1>5. \A k \in LaneIds : d[k] \in LaneType
  BY <1>1, <1>2, <1>4
<1>6. d \in [LaneIds -> LaneType]
  BY <1>3, <1>5
<1>7. \A k \in L : lane[k] \in LaneType
  BY <1>1
<1>8. /\ \A k \in LaneIds : d[k].sessions = lane[k].sessions /\ d[k].status = lane[k].status
      /\ \A k \in L : d[k].up
  BY <1>2, <1>4, <1>7
<1>. QED BY <1>4, <1>6, <1>8

\* The transports of some lanes close.
LEMMA LoweredIs ==
  ASSUME Typed, NEW L \in SUBSET LaneIds, NEW d, d = Lowered(L)
  PROVE  /\ d \in [LaneIds -> LaneType]
         /\ \A k \in LaneIds : d[k].sessions = lane[k].sessions /\ d[k].status = lane[k].status
         /\ \A k \in L : ~d[k].up
         /\ \A k \in LaneIds \ L : d[k] = lane[k]
<1> DEFINE to(o) == [o EXCEPT !.up = FALSE]
<1>1. \A k \in LaneIds : lane[k] \in LaneType
  BY DEF Typed
<1>2. ASSUME NEW o \in LaneType
      PROVE  to(o) \in LaneType /\ to(o).sessions = o.sessions /\ to(o).status = o.status /\ to(o).up = FALSE
  BY DEF LaneType
<1>3. d = [k \in LaneIds |-> IF k \in L THEN to(lane[k]) ELSE lane[k]]
  BY DEF Lowered
<1> HIDE DEF to
<1>4. /\ \A k \in L : d[k] = to(lane[k])
      /\ \A k \in LaneIds \ L : d[k] = lane[k]
  BY <1>3
<1>5. \A k \in LaneIds : d[k] \in LaneType
  BY <1>1, <1>2, <1>4
<1>6. d \in [LaneIds -> LaneType]
  BY <1>3, <1>5
<1>7. \A k \in L : lane[k] \in LaneType
  BY <1>1
<1>8. /\ \A k \in LaneIds : d[k].sessions = lane[k].sessions /\ d[k].status = lane[k].status
      /\ \A k \in L : ~d[k].up
  BY <1>2, <1>4, <1>7
<1>. QED BY <1>4, <1>6, <1>8

\* The parts of the invariant, and what the types say of a lane's sessions and of follows.
LEMMA LanesParts ==
  ASSUME LanesAssumption, LanesInv
  PROVE  /\ Typed /\ Underway /\ LimitKept /\ FollowsHeld /\ SessionsHeld /\ HomesHeld /\ ExtraHeld /\ GoneEmpty
         /\ ClosedRests /\ HaltedGone /\ HaltOwed /\ LanesUp /\ PausedSaid /\ PausedIdle
         /\ lanes \in SUBSET LaneIds /\ \A l \in LaneIds : lane[l].sessions \subseteq Consumers
         /\ \A n \in DOMAIN follow : follow[n].on \in LaneIds /\ follow[n].by \in Consumers /\ follow[n].stage \in Counted \cup {"over"}
  BY TypedIs DEF LanesInv, Held, Owed

\* The chain halts: every lane's halt is to be told.
LEMMA HaltLanesKeeps ==
  ASSUME LanesAssumption, LanesInv, HaltLanes
  PROVE  LanesInv'
<1>1. /\ Typed /\ Underway /\ LimitKept /\ FollowsHeld /\ SessionsHeld /\ HomesHeld /\ ExtraHeld /\ GoneEmpty
      /\ ClosedRests /\ HaltedGone /\ HaltOwed /\ LanesUp /\ PausedSaid /\ PausedIdle
  BY DEF LanesInv, Held, Owed
<1>0. /\ lanes \in SUBSET LaneIds /\ \A l \in LaneIds : lane[l].sessions \subseteq Consumers
      /\ \A n \in DOMAIN follow : follow[n].on \in LaneIds /\ follow[n].by \in Consumers /\ follow[n].stage \in Counted \cup {"over"}
  BY <1>1, TypedIs
<1>2. /\ work # <<>> /\ Doing("halt") /\ Head(work).do = "halt" /\ halted /\ ~closed /\ lanes \in SUBSET LaneIds
      /\ \A x \in Range(work) : x \in Range(Tail(work)) \/ x.do = "halt"
      /\ \A x \in Range(Tail(work)) : x \in Range(work) /\ Names(x) /\ Meant(x)
      /\ Tail(work) \in Seq(StepType) /\ Plain(Tail(work))
  BY <1>1, PopIs DEF HaltLanes, Doing, Typed, Meant, ClosedRests, LaneIds, LanesAssumption
<1>3. /\ work' \in Seq(StepType) /\ Plain(work') /\ Ordered(work')
      /\ \A x \in Range(work') : x \in Range(Tail(work)) \/ (x.do = "haltLane" /\ x.lane \in lanes)
      /\ \A x \in Range(Tail(work)) : x \in Range(work')
      /\ \A l \in lanes : \E x \in Range(work') : x.do = "haltLane" /\ x.lane = l
  <2> DEFINE due == OnEach(lanes, "haltLane")
  <2>1. /\ due \in Seq(StepType) /\ Plain(due)
        /\ \A x \in Range(due) : x.do = "haltLane" /\ x.lane \in lanes
        /\ \A l \in lanes : \E x \in Range(due) : x.do = "haltLane" /\ x.lane = l
    <3>1. "haltLane" \in Halting \cup Pausing
      BY DEF Halting
    <3>. QED BY <1>2, <3>1, OnEachIs
  <2>2. work' = due \o Tail(work)
    BY DEF HaltLanes
  <2> HIDE DEF due
  <2>3. Range(work') = Range(due) \cup Range(Tail(work)) /\ work' \in Seq(StepType)
    BY <1>2, <2>1, <2>2, OnIs
  <2>4. Plain(work') /\ Ordered(work')
    BY <1>2, <2>1, <2>2, PlainIs
  <2>. QED BY <2>1, <2>3, <2>4
<1>4. ~Doing("halt")'
  BY <1>3, NoHaltIsNext DEF Doing
<1>5. /\ lanes' = {} /\ reported' = "disconnected" /\ nextLane' = nextLane /\ lane' = lane /\ follow' = follow
      /\ paused' = paused /\ halted' = halted /\ closed' = closed /\ consumer' = consumer /\ home' = home /\ halts' = halts
  BY DEF HaltLanes
<1>6. Typed'
  BY <1>0, <1>1, <1>2, <1>3, <1>4, <1>5 DEF Typed, Statuses
<1>7. Underway'
  <2>1. \A x \in Range(work') : x.do \notin Opening
    BY <1>3 DEF Plain
  <2>2. SUFFICES ASSUME NEW x \in Range(work')
                 PROVE  Names(x)' /\ Meant(x)'
    BY <1>3 DEF Underway
  <2>3. CASE x \in Range(Tail(work))
    BY <1>2, <1>5, <2>1, <2>3 DEF Names, Meant, Opening, Uses
  <2>4. CASE x.do = "haltLane" /\ x.lane \in lanes
    BY <1>2, <1>5, <2>4 DEF Names, Meant, Uses, Pausing
  <2>. QED BY <1>3, <2>3, <2>4
<1>8. LimitKept'
  BY <1>0, <1>1, <1>2, <1>3, <1>4, <1>5 DEF LimitKept
<1>9. FollowsHeld'
  BY <1>0, <1>1, <1>2, <1>3, <1>4, <1>5 DEF FollowsHeld, Pending
<1>10. SessionsHeld'
  BY <1>0, <1>1, <1>2, <1>3, <1>4, <1>5 DEF SessionsHeld
<1>11. HomesHeld'
  BY <1>0, <1>1, <1>2, <1>3, <1>4, <1>5 DEF HomesHeld
<1>12. ExtraHeld'
  BY <1>0, <1>1, <1>2, <1>3, <1>4, <1>5 DEF ExtraHeld
<1>13. GoneEmpty'
  BY <1>0, <1>1, <1>2, <1>3, <1>4, <1>5 DEF GoneEmpty, Pending
<1>14. ClosedRests'
  BY <1>0, <1>1, <1>2, <1>3, <1>4, <1>5 DEF ClosedRests
<1>15. HaltedGone'
  BY <1>0, <1>1, <1>2, <1>3, <1>4, <1>5 DEF HaltedGone
<1>16. HaltOwed'
  BY <1>0, <1>1, <1>2, <1>3, <1>4, <1>5 DEF HaltOwed, HomesHeld
<1>17. LanesUp'
  BY <1>0, <1>1, <1>2, <1>3, <1>4, <1>5 DEF LanesUp, Pending
<1>18. PausedSaid'
  BY <1>0, <1>1, <1>2, <1>3, <1>4, <1>5 DEF PausedSaid, Pending
<1>19. PausedIdle'
  BY <1>0, <1>1, <1>2, <1>3, <1>4, <1>5 DEF PausedIdle, Pending
<1>. QED BY <1>6, <1>7, <1>8, <1>9, <1>10, <1>11, <1>12, <1>13, <1>14, <1>15, <1>16, <1>17, <1>18, <1>19 DEF LanesInv, Held, Owed

\* A lane's consumers are to be told, and its transport is to be shut.
LEMMA HaltLaneKeeps ==
  ASSUME LanesAssumption, LanesInv, HaltLane
  PROVE  LanesInv'
<1>1. /\ Typed /\ Underway /\ LimitKept /\ FollowsHeld /\ SessionsHeld /\ HomesHeld /\ ExtraHeld /\ GoneEmpty
      /\ ClosedRests /\ HaltedGone /\ HaltOwed /\ LanesUp /\ PausedSaid /\ PausedIdle
  BY DEF LanesInv, Held, Owed
<1>0. /\ lanes \in SUBSET LaneIds /\ \A l \in LaneIds : lane[l].sessions \subseteq Consumers
      /\ \A n \in DOMAIN follow : follow[n].on \in LaneIds /\ follow[n].by \in Consumers /\ follow[n].stage \in Counted \cup {"over"}
  BY <1>1, TypedIs
<1> DEFINE l == Head(work).lane
           due == SetToSeq(lane[l].sessions)
           tells == [i \in DOMAIN due |-> Do("tell", l, due[i])]
<1>2. /\ work # <<>> /\ Head(work).do = "haltLane" /\ ~Doing("halt") /\ Head(work).lane = l /\ l \in LaneIds
      /\ Tail(work) \in Seq(StepType) /\ Plain(Tail(work)) /\ Meant(Head(work))
      /\ \A x \in Range(work) : (x \in Range(Tail(work)) \/ x = Head(work)) /\ x.do \notin Uses
      /\ \A x \in Range(Tail(work)) : x \in Range(work) /\ Names(x) /\ Meant(x) /\ x.do \notin Opening /\ x.lane \in LaneIds
  <2>1. Doing("haltLane")
    BY Zenon DEF HaltLane
  <2>2. "haltLane" \notin Opening
    BY DEF Opening, Uses
  <2>. QED BY <2>1, <2>2, StepIs
<1>3. l \notin lanes /\ halted /\ ~closed
  BY <1>1, <1>2 DEF Meant, Halting, ClosedRests
<1>4. IsFiniteSet(lane[l].sessions) /\ lane[l].sessions \subseteq Consumers /\ lane \in [LaneIds -> LaneType]
  BY <1>0, <1>1, <1>2 DEF Typed
<1>5. /\ lanes' = lanes /\ reported' = reported /\ nextLane' = nextLane /\ follow' = follow
      /\ paused' = paused /\ halted' = halted /\ closed' = closed /\ consumer' = consumer /\ home' = home /\ halts' = halts
  BY DEF HaltLane
<1>6. /\ work' \in Seq(StepType) /\ Plain(work') /\ Ordered(work')
      /\ \A x \in Range(work') : \/ x \in Range(Tail(work))
                                 \/ x.do = "tell" /\ x.lane = l /\ x.of \in Consumers
                                 \/ x.do = "shut" /\ x.lane = l
      /\ \A x \in Range(Tail(work)) : x \in Range(work')
      /\ \A c \in lane[l].sessions : \E x \in Range(work') : x.do = "tell" /\ x.of = c
      /\ \E x \in Range(work') : x.do = "shut" /\ x.lane = l
  <2>0. work' = tells \o <<Do("shut", l, None)>> \o Tail(work)
    BY DEF HaltLane
  <2>1. due \in Seq(lane[l].sessions) /\ DOMAIN due = 1 .. Len(due) /\ \A c \in lane[l].sessions : \E i \in DOMAIN due : due[i] = c
    BY <1>4, SetToSeqIs
  <2>2. \A c \in Consumers : /\ Do("tell", l, c) \in StepType /\ Do("tell", l, c).do = "tell" /\ Do("tell", l, c).lane = l
                             /\ Do("tell", l, c).of = c
    <3>1. "tell" \in Opening \cup Halting \cup Pausing \cup {"end"}
      BY DEF Halting
    <3>. QED BY <1>2, <3>1, DoIs
  <2>3. /\ Do("shut", l, None) \in StepType /\ Do("shut", l, None).do = "shut" /\ Do("shut", l, None).lane = l
    <3>1. "shut" \in Opening \cup Halting \cup Pausing \cup {"end"}
      BY DEF Halting
    <3>. QED BY <1>2, <3>1, DoIs
  <2> HIDE DEF due
  <2>4. \A i \in DOMAIN due : due[i] \in Consumers
    BY <1>4, <2>1
  <2>5. DOMAIN tells = DOMAIN due /\ \A i \in DOMAIN due : tells[i] = Do("tell", l, due[i])
    OBVIOUS
  <2>6. tells \in Seq(StepType)
    BY <2>1, <2>2, <2>4
  <2>7. \A x \in Range(tells) : x.do = "tell" /\ x.lane = l /\ x.of \in Consumers
    BY <2>2, <2>4, <2>5 DEF Range
  <2>8. \A c \in lane[l].sessions : \E x \in Range(tells) : x.do = "tell" /\ x.of = c
    BY <1>4, <2>1, <2>2, <2>5 DEF Range
  <2> HIDE DEF tells
  <2> DEFINE shut == <<Do("shut", l, None)>>
  <2>9. shut \in Seq(StepType) /\ Range(shut) = {Do("shut", l, None)}
    BY <2>3, OneIs
  <2> HIDE DEF shut
  <2>10. Range(tells \o shut) = Range(tells) \cup Range(shut) /\ tells \o shut \in Seq(StepType)
    BY <2>6, <2>9, OnIs
  <2>11. Range(work') = Range(tells \o shut) \cup Range(Tail(work)) /\ work' \in Seq(StepType)
    BY <1>2, <2>0, <2>10, OnIs DEF shut
  <2>12. Plain(tells \o shut)
    BY <2>3, <2>7, <2>9, <2>10 DEF Plain, Opening, Uses
  <2>13. Plain(work') /\ Ordered(work')
    BY <1>2, <2>0, <2>10, <2>12, PlainIs DEF shut
  <2>. QED BY <2>0, <2>3, <2>7, <2>8, <2>9, <2>10, <2>11, <2>13
<1>7. /\ lane' \in [LaneIds -> LaneType] /\ lane'[l].sessions = {} /\ \A k \in LaneIds : IsFiniteSet(lane'[k].sessions)
      /\ \A k \in LaneIds : k # l => lane'[k] = lane[k]
      /\ \A k \in LaneIds : lane'[k].sessions \subseteq lane[k].sessions
      /\ ~Doing("halt")'
  <2>1. /\ lane' \in [LaneIds -> LaneType] /\ lane'[l].sessions = {} /\ \A k \in LaneIds : k # l => lane'[k] = lane[k]
    <3>1. lane' = [lane EXCEPT ![l].sessions = {}]
      BY Zenon DEF HaltLane
    <3>2. [lane[l] EXCEPT !.sessions = {}] \in LaneType
      BY <1>2, <1>4 DEF LaneType
    <3> HIDE DEF l
    <3>. QED BY <1>2, <1>4, <3>1, <3>2
  <2>2. \A k \in LaneIds : IsFiniteSet(lane'[k].sessions)
    BY <1>1, <2>1, FS_EmptySet DEF Typed
  <2>. QED BY <1>6, <2>1, <2>2, NoHaltIsNext DEF Doing
<1> HIDE DEF l
<1>8. Typed'
  BY <1>0, <1>1, <1>2, <1>3, <1>4, <1>5, <1>6, <1>7 DEF Typed
<1>9. Underway'
  <2>1. \A x \in Range(work') : x.do \notin Opening
    BY <1>6 DEF Plain
  <2>2. SUFFICES ASSUME NEW x \in Range(work')
                 PROVE  Names(x)' /\ Meant(x)'
    BY <1>6 DEF Underway
  <2>3. CASE x \in Range(Tail(work))
    BY <1>2, <1>3, <1>5, <1>7, <2>1, <2>3 DEF Names, Meant, Opening, Uses, Halting

  <2>4. CASE x.do = "tell" /\ x.lane = l /\ x.of \in Consumers
    BY <1>2, <1>3, <1>5, <1>7, <2>4 DEF Names, Meant, Halting, Uses, Pausing
  <2>5. CASE x.do = "shut" /\ x.lane = l
    BY <1>2, <1>3, <1>5, <1>7, <2>5 DEF Names, Meant, Halting, Uses, Pausing
  <2>. QED BY <1>6, <2>3, <2>4, <2>5
<1>10. LimitKept'
  <2>1. \A k \in lanes : CountFollows(k)' = CountFollows(k)
    BY <1>5 DEF CountFollows
  <2>. QED BY <1>1, <1>5, <2>1 DEF LimitKept
<1>11. FollowsHeld'
  BY <1>0, <1>1, <1>2, <1>3, <1>4, <1>5, <1>6, <1>7 DEF FollowsHeld, Pending
<1>12. SessionsHeld'
  BY <1>0, <1>1, <1>2, <1>3, <1>4, <1>5, <1>6, <1>7 DEF SessionsHeld
<1>13. HomesHeld'
  BY <1>0, <1>1, <1>2, <1>3, <1>4, <1>5, <1>6, <1>7 DEF HomesHeld
<1>14. ExtraHeld'
  BY <1>0, <1>1, <1>2, <1>3, <1>4, <1>5, <1>6, <1>7 DEF ExtraHeld
<1>15. GoneEmpty'
  BY <1>0, <1>1, <1>2, <1>3, <1>4, <1>5, <1>6, <1>7 DEF GoneEmpty, Pending
<1>16. ClosedRests'
  BY <1>0, <1>1, <1>2, <1>3, <1>4, <1>5, <1>6, <1>7 DEF ClosedRests
<1>17. HaltedGone'
  BY <1>0, <1>1, <1>2, <1>3, <1>4, <1>5, <1>6, <1>7 DEF HaltedGone
<1>18. HaltOwed'
  BY <1>0, <1>1, <1>2, <1>3, <1>4, <1>5, <1>6, <1>7 DEF HaltOwed
<1>19. LanesUp'
  BY <1>0, <1>1, <1>2, <1>3, <1>4, <1>5, <1>6, <1>7 DEF LanesUp, Pending
<1>20. PausedSaid'
  BY <1>0, <1>1, <1>2, <1>3, <1>4, <1>5, <1>6, <1>7 DEF PausedSaid, Pending
<1>21. PausedIdle'
  BY <1>0, <1>1, <1>2, <1>3, <1>4, <1>5, <1>6, <1>7 DEF PausedIdle, Pending
<1>. QED BY <1>8, <1>9, <1>10, <1>11, <1>12, <1>13, <1>14, <1>15, <1>16, <1>17, <1>18, <1>19, <1>20, <1>21 DEF LanesInv, Held, Owed

\* A consumer is told of the halt on one lane, and what it ran there is over.
LEMMA TellHaltKeeps ==
  ASSUME LanesAssumption, LanesInv, TellHalt
  PROVE  LanesInv'
<1>1. /\ Typed /\ Underway /\ LimitKept /\ FollowsHeld /\ SessionsHeld /\ HomesHeld /\ ExtraHeld /\ GoneEmpty
      /\ ClosedRests /\ HaltedGone /\ HaltOwed /\ LanesUp /\ PausedSaid /\ PausedIdle
  BY DEF LanesInv, Held, Owed
<1>0. /\ lanes \in SUBSET LaneIds /\ \A l \in LaneIds : lane[l].sessions \subseteq Consumers
      /\ \A n \in DOMAIN follow : follow[n].on \in LaneIds /\ follow[n].by \in Consumers /\ follow[n].stage \in Counted \cup {"over"}
  BY <1>1, TypedIs
<1>2. /\ Head(work).do = "tell" /\ Head(work).lane \in LaneIds /\ Names(Head(work)) /\ Meant(Head(work)) /\ work' = Tail(work)
      /\ work' \in Seq(StepType) /\ Plain(work') /\ Ordered(work') /\ ~Doing("halt") /\ ~Doing("halt")'
      /\ \A x \in Range(work) : (x \in Range(work') \/ x = Head(work)) /\ x.do \notin Uses
      /\ \A x \in Range(work') : x \in Range(work) /\ Names(x) /\ Meant(x) /\ x.do \notin Opening /\ x.lane \in LaneIds
  <2>1. Doing("tell") /\ work' = Tail(work)
    BY Zenon DEF TellHalt
  <2>2. "tell" \notin Opening
    BY DEF Opening, Uses
  <2>3. Head(work).lane \in LaneIds /\ Names(Head(work)) /\ Meant(Head(work))
    BY <2>1, <2>2, StepIs
  <2>. QED BY <2>1, <2>2, <2>3, EndsIs DEF Doing
<1>3. PICK l \in LaneIds, c \in Consumers :
        /\ l = Head(work).lane /\ c = Head(work).of /\ l \notin lanes /\ halted /\ ~closed
        /\ follow' = [n \in DOMAIN follow |->
                        IF follow[n].by = c /\ follow[n].on = l /\ follow[n].stage \in Waiting
                        THEN [follow[n] EXCEPT !.stage = "over"] ELSE follow[n]]
        /\ halts' = [halts EXCEPT ![c] = IF @ = 0 THEN 1 ELSE @]
  <2>1. Head(work).of \in Consumers /\ Head(work).lane \notin lanes /\ halted /\ ~closed
    BY <1>1, <1>2 DEF Names, Meant, Halting, ClosedRests
  <2>. QED BY <1>2, <2>1 DEF TellHalt, HandleHalt
<1>4. /\ lanes' = lanes /\ reported' = reported /\ nextLane' = nextLane /\ lane' = lane
      /\ paused' = paused /\ halted' = halted /\ closed' = closed /\ consumer' = consumer /\ home' = home
  BY Zenon DEF TellHalt
<1>5. /\ follow' \in Seq(FollowType) /\ DOMAIN follow' = DOMAIN follow
      /\ \A n \in DOMAIN follow : /\ follow'[n].on = follow[n].on /\ follow'[n].by = follow[n].by
                                  /\ follow'[n].stage = follow[n].stage \/ follow'[n].stage = "over"
  <2>1. \A n \in DOMAIN follow : follow'[n] \in FollowType
    BY <1>0, <1>1, <1>3, TypedIs DEF FollowType
  <2>2. DOMAIN follow = 1 .. Len(follow) /\ Len(follow) \in Nat
    BY <1>1 DEF Typed
  <2>3. \A n \in DOMAIN follow : /\ follow'[n].on = follow[n].on /\ follow'[n].by = follow[n].by
                                 /\ follow'[n].stage = follow[n].stage \/ follow'[n].stage = "over"
    BY <1>1, <1>3, TypedIs DEF FollowType
  <2>. QED BY <1>3, <2>1, <2>2, <2>3
<1>6. halts' \in [Consumers -> 0 .. 1] /\ halts'[c] = 1 /\ \A k \in Consumers : k # c => halts'[k] = halts[k]
  BY <1>1, <1>3 DEF Typed
<1>7. Typed'
  BY <1>0, <1>1, <1>2, <1>3, <1>4, <1>5, <1>6 DEF Typed
<1>8. Underway'
  <2>1. SUFFICES ASSUME NEW x \in Range(work')
                 PROVE  Names(x)' /\ Meant(x)'
    BY <1>2 DEF Underway
  <2>. QED BY <1>2, <1>3, <1>4, <1>5, <2>1 DEF Names, Meant, Opening, Uses, Halting, Pausing
<1>9. LimitKept'
  <2>1. SUFFICES ASSUME NEW k \in lanes'
                 PROVE  (CountFollows(k) <= FollowLimit)'
    BY DEF LimitKept
  <2>2. CountFollows(k)' <= CountFollows(k) /\ CountFollows(k)' \in Nat /\ CountFollows(k) \in Nat
    BY <1>1, <1>5, CountFewer DEF Typed, Counted
  <2>. QED BY <1>1, <1>4, <2>2 DEF LimitKept, LanesAssumption
<1>10. FollowsHeld'
  BY <1>0, <1>1, <1>2, <1>3, <1>4, <1>5, <1>6 DEF FollowsHeld, Pending
<1>11. SessionsHeld'
  BY <1>0, <1>1, <1>2, <1>3, <1>4, <1>5, <1>6 DEF SessionsHeld
<1>12. HomesHeld'
  BY <1>0, <1>1, <1>2, <1>3, <1>4, <1>5, <1>6 DEF HomesHeld
<1>13. ExtraHeld'
  BY <1>0, <1>1, <1>2, <1>3, <1>4, <1>5, <1>6 DEF ExtraHeld
<1>14. GoneEmpty'
  BY <1>0, <1>1, <1>2, <1>3, <1>4, <1>5, <1>6 DEF GoneEmpty, Pending
<1>15. ClosedRests'
  BY <1>0, <1>1, <1>2, <1>3, <1>4, <1>5, <1>6 DEF ClosedRests
<1>16. HaltedGone'
  BY <1>0, <1>1, <1>2, <1>3, <1>4, <1>5, <1>6 DEF HaltedGone
<1>17. HaltOwed'
  BY <1>0, <1>1, <1>2, <1>3, <1>4, <1>5, <1>6 DEF HaltOwed
<1>18. LanesUp'
  BY <1>0, <1>1, <1>2, <1>3, <1>4, <1>5, <1>6 DEF LanesUp, Pending
<1>19. PausedSaid'
  BY <1>0, <1>1, <1>2, <1>3, <1>4, <1>5, <1>6 DEF PausedSaid, Pending
<1>20. PausedIdle'
  BY <1>0, <1>1, <1>2, <1>3, <1>4, <1>5, <1>6 DEF PausedIdle, Pending
<1>. QED BY <1>7, <1>8, <1>9, <1>10, <1>11, <1>12, <1>13, <1>14, <1>15, <1>16, <1>17, <1>18, <1>19, <1>20 DEF LanesInv, Held, Owed

\* A halted lane's transport closes: no session was left on it, and nothing of it goes on.
LEMMA ShutLaneKeeps ==
  ASSUME LanesAssumption, LanesInv, ShutLane
  PROVE  LanesInv'
<1>1. /\ Typed /\ Underway /\ LimitKept /\ FollowsHeld /\ SessionsHeld /\ HomesHeld /\ ExtraHeld /\ GoneEmpty
      /\ ClosedRests /\ HaltedGone /\ HaltOwed /\ LanesUp /\ PausedSaid /\ PausedIdle
  BY DEF LanesInv, Held, Owed
<1>0. /\ lanes \in SUBSET LaneIds /\ \A l \in LaneIds : lane[l].sessions \subseteq Consumers
      /\ \A n \in DOMAIN follow : follow[n].on \in LaneIds /\ follow[n].by \in Consumers /\ follow[n].stage \in Counted \cup {"over"}
  BY <1>1, TypedIs
<1>2. /\ Head(work).do = "shut" /\ Head(work).lane \in LaneIds /\ Names(Head(work)) /\ Meant(Head(work)) /\ work' = Tail(work)
      /\ work' \in Seq(StepType) /\ Plain(work') /\ Ordered(work') /\ ~Doing("halt") /\ ~Doing("halt")'
      /\ \A x \in Range(work) : (x \in Range(work') \/ x = Head(work)) /\ x.do \notin Uses
      /\ \A x \in Range(work') : x \in Range(work) /\ Names(x) /\ Meant(x) /\ x.do \notin Opening /\ x.lane \in LaneIds
  <2>1. Doing("shut") /\ work' = Tail(work)
    BY Zenon DEF ShutLane
  <2>2. "shut" \notin Opening
    BY DEF Opening, Uses
  <2>3. Head(work).lane \in LaneIds /\ Names(Head(work)) /\ Meant(Head(work))
    BY <2>1, <2>2, StepIs
  <2>. QED BY <2>1, <2>2, <2>3, EndsIs DEF Doing
<1>3. PICK l \in LaneIds : l = Head(work).lane /\ l \notin lanes /\ halted /\ ~closed /\ lane[l].sessions = {}
  BY <1>1, <1>2 DEF Meant, Halting, ClosedRests
<1>4. /\ lanes' = lanes /\ reported' = reported /\ nextLane' = nextLane /\ halts' = halts
      /\ paused' = paused /\ halted' = halted /\ closed' = closed /\ consumer' = consumer /\ home' = home
  BY Zenon DEF ShutLane
<1>5. /\ follow' \in Seq(FollowType) /\ DOMAIN follow' = DOMAIN follow
      /\ \A n \in DOMAIN follow : /\ follow'[n].on = follow[n].on /\ follow'[n].by = follow[n].by
                                  /\ follow[n].on = l => follow'[n].stage = "over"
                                  /\ follow[n].on # l => follow'[n] = follow[n]
  <2>1. follow' = DropFollows({l})
    BY <1>3, Zenon DEF ShutLane
  <2>. QED BY <1>1, <2>1, DropIs
<1>6. /\ lane' \in [LaneIds -> LaneType] /\ lane'[l].sessions = {} /\ ~lane'[l].up
      /\ \A k \in LaneIds : lane'[k].sessions = lane[k].sessions /\ IsFiniteSet(lane'[k].sessions)
      /\ \A k \in LaneIds : k # l => lane'[k] = lane[k]
  <2>1. lane' = Shut({l}, lane)
    BY <1>3, Zenon DEF ShutLane
  <2>2. /\ lane' \in [LaneIds -> LaneType] /\ lane'[l].sessions = {} /\ ~lane'[l].up
        /\ \A k \in LaneIds : k # l => lane'[k] = lane[k]
        /\ \A k \in LaneIds : IsFiniteSet(lane'[k].sessions)
    BY <1>1, <2>1, ShutIs
  <2>. QED BY <1>3, <2>2
<1>7. Typed'
  BY <1>0, <1>1, <1>2, <1>3, <1>4, <1>5, <1>6 DEF Typed
<1>8. Underway'
  <2>1. SUFFICES ASSUME NEW x \in Range(work')
                 PROVE  Names(x)' /\ Meant(x)'
    BY <1>2 DEF Underway
  <2>. QED BY <1>2, <1>3, <1>4, <1>5, <1>6, <2>1 DEF Names, Meant, Opening, Uses, Halting, Pausing
<1>9. LimitKept'
  <2>1. \A n \in DOMAIN follow' : follow'[n].stage \in Counted => follow'[n].stage = follow[n].stage
    BY <1>5 DEF Counted
  <2>2. SUFFICES ASSUME NEW k \in lanes'
                 PROVE  (CountFollows(k) <= FollowLimit)'
    BY DEF LimitKept
  <2>3. CountFollows(k)' <= CountFollows(k) /\ CountFollows(k)' \in Nat /\ CountFollows(k) \in Nat
    BY <1>1, <1>5, <2>1, CountFewer DEF Typed, Counted
  <2>. QED BY <1>1, <1>4, <2>3 DEF LimitKept, LanesAssumption
<1>10. FollowsHeld'
  BY <1>0, <1>1, <1>2, <1>3, <1>4, <1>5, <1>6 DEF FollowsHeld, Pending, Waiting
<1>11. SessionsHeld'
  BY <1>0, <1>1, <1>2, <1>3, <1>4, <1>5, <1>6 DEF SessionsHeld
<1>12. HomesHeld'
  BY <1>0, <1>1, <1>2, <1>3, <1>4, <1>5, <1>6 DEF HomesHeld
<1>13. ExtraHeld'
  BY <1>0, <1>1, <1>2, <1>3, <1>4, <1>5, <1>6 DEF ExtraHeld
<1>14. GoneEmpty'
  BY <1>0, <1>1, <1>2, <1>3, <1>4, <1>5, <1>6 DEF GoneEmpty, Pending, Counted
<1>15. ClosedRests'
  BY <1>0, <1>1, <1>2, <1>3, <1>4, <1>5, <1>6 DEF ClosedRests
<1>16. HaltedGone'
  BY <1>0, <1>1, <1>2, <1>3, <1>4, <1>5, <1>6 DEF HaltedGone
<1>17. HaltOwed'
  BY <1>0, <1>1, <1>2, <1>3, <1>4, <1>5, <1>6 DEF HaltOwed
<1>18. LanesUp'
  BY <1>0, <1>1, <1>2, <1>3, <1>4, <1>5, <1>6 DEF LanesUp, Pending
<1>19. PausedSaid'
  BY <1>0, <1>1, <1>2, <1>3, <1>4, <1>5, <1>6 DEF PausedSaid, Pending
<1>20. PausedIdle'
  BY <1>0, <1>1, <1>2, <1>3, <1>4, <1>5, <1>6 DEF PausedIdle, Pending
<1>. QED BY <1>7, <1>8, <1>9, <1>10, <1>11, <1>12, <1>13, <1>14, <1>15, <1>16, <1>17, <1>18, <1>19, <1>20 DEF LanesInv, Held, Owed

\* The listeners have heard of the new lane, and the call that needed it goes on.
LEMMA LaneReportedKeeps ==
  ASSUME LanesAssumption, LanesInv, LaneReported
  PROVE  LanesInv'
<1> USE LanesParts
<1>2. /\ Head(work).do = "reported" /\ ~halted /\ ~closed /\ work' = Tail(work)
      /\ work' \in Seq(StepType) /\ Ordered(work')
      /\ \A x \in Range(work) : x \in Range(work') \/ x = Head(work)
      /\ \A x \in Range(work') : x \in Range(work) /\ Names(x) /\ Meant(x)
  <2>1. Doing("reported") /\ work' = Tail(work)
    BY Zenon DEF LaneReported
  <2>2. work # <<>> /\ Head(work).do = "reported"
    BY <2>1 DEF Doing
  <2>3. ~halted /\ ~closed
    BY <2>2, PopIs DEF Meant
  <2>. QED BY <2>1, <2>2, <2>3, PopIs
<1>3. /\ lanes' = lanes /\ reported' = reported /\ nextLane' = nextLane /\ lane' = lane /\ follow' = follow
      /\ paused' = paused /\ halted' = halted /\ closed' = closed /\ consumer' = consumer /\ home' = home /\ halts' = halts
  BY Zenon DEF LaneReported
<1>4. Typed'
  BY <1>2, <1>3 DEF Typed
<1>5. Underway'
  <2>1. SUFFICES ASSUME NEW x \in Range(work')
                 PROVE  Names(x)' /\ Meant(x)'
    BY <1>2 DEF Underway
  <2>. QED BY <1>2, <1>3, <2>1 DEF Names, Meant, HasRoom, CountFollows
<1>6. LimitKept'
  <2>1. \A k \in lanes' : CountFollows(k)' = CountFollows(k)
    BY <1>3 DEF CountFollows
  <2>. QED BY <1>3, <2>1 DEF LimitKept
<1>7. FollowsHeld'
  BY <1>2, <1>3 DEF FollowsHeld, Pending
<1>8. SessionsHeld'
  BY <1>2, <1>3 DEF SessionsHeld
<1>9. HomesHeld'
  BY <1>2, <1>3 DEF HomesHeld
<1>10. ExtraHeld'
  BY <1>2, <1>3 DEF ExtraHeld, Uses
<1>11. GoneEmpty'
  BY <1>2, <1>3 DEF GoneEmpty, Pending
<1>12. ClosedRests'
  BY <1>2, <1>3 DEF ClosedRests
<1>13. HaltedGone'
  BY <1>2, <1>3 DEF HaltedGone
<1>14. HaltOwed'
  BY <1>2, <1>3 DEF HaltOwed
<1>15. LanesUp'
  BY <1>2, <1>3 DEF LanesUp, Pending
<1>16. PausedSaid'
  BY <1>2, <1>3 DEF PausedSaid, Pending
<1>17. PausedIdle'
  BY <1>2, <1>3 DEF PausedIdle, Pending
<1>. QED BY <1>4, <1>5, <1>6, <1>7, <1>8, <1>9, <1>10, <1>11, <1>12, <1>13, <1>14, <1>15, <1>16, <1>17 DEF LanesInv, Held, Owed

\* A session of a call under way ends, and with it an extra lane that it leaves empty.
LEMMA EndKeeps ==
  ASSUME LanesAssumption, LanesInv, NEW l, NEW c, work # <<>>, Head(work).do \in {"end"} \cup Uses,
         l = Head(work).lane, c = Head(work).of, EndSession(l, c), UNCHANGED <<nextLane, paused, closed, home, halts>>,
         consumer' = consumer \/ consumer' = [consumer EXCEPT ![c] = "left"],
         Head(work).do = "connect" => consumer'[c] = "left",
         Head(work).do = "follow" => consumer' = consumer /\ c \notin lane[l].sessions
  PROVE  LanesInv'
<1>1. /\ Typed /\ Underway /\ LimitKept /\ FollowsHeld /\ SessionsHeld /\ HomesHeld /\ ExtraHeld /\ GoneEmpty
      /\ ClosedRests /\ HaltedGone /\ HaltOwed /\ LanesUp /\ PausedSaid /\ PausedIdle
  BY DEF LanesInv, Held, Owed
<1>0. /\ lanes \in SUBSET LaneIds /\ \A k \in LaneIds : lane[k].sessions \subseteq Consumers
      /\ \A n \in DOMAIN follow : follow[n].on \in LaneIds /\ follow[n].by \in Consumers /\ follow[n].stage \in Counted \cup {"over"}
  BY <1>1, TypedIs
<1>2. /\ l \in LaneIds /\ c \in Consumers /\ Meant(Head(work)) /\ ~Doing("halt")
      /\ Tail(work) \in Seq(StepType) /\ Plain(Tail(work)) /\ Ordered(Tail(work))
      /\ Head(work).lane = l /\ Head(work).of = c /\ Head(work).do \in {"end", "connect", "follow"}
      /\ \A x \in Range(work) : x \in Range(Tail(work)) \/ x = Head(work)
      /\ \A x \in Range(Tail(work)) : x \in Range(work) /\ Names(x) /\ Meant(x) /\ x.do \notin Opening /\ x.lane \in LaneIds
  <2>1. Head(work).do # "halt" /\ Head(work).do # "reported"
    BY DEF Uses
  <2>2. \A x \in Range(Tail(work)) : x.do \notin Opening
    BY <2>1, PopIs DEF Plain
  <2>3. "halt" \in Opening
    BY DEF Opening
  <2>4. Names(Head(work)) /\ (Head(work).do \in Uses \/ Head(work).do = "end")
    BY PopIs
  <2>5. l \in LaneIds /\ c \in Consumers
    BY <2>1, <2>4 DEF Names
  <2>6. Head(work).do \in {"end", "connect", "follow"}
    BY DEF Uses
  <2>. QED BY <2>1, <2>2, <2>3, <2>5, <2>6, PopIs DEF Doing
<1>3. /\ nextLane' = nextLane /\ paused' = paused /\ closed' = closed /\ home' = home /\ halts' = halts
      /\ consumer' \in [Consumers -> {"new", "open", "left"}] /\ \A k \in Consumers : k # c => consumer'[k] = consumer[k]
      /\ consumer'[c] = consumer[c] \/ consumer'[c] = "left"
      /\ Head(work).do # "follow" => consumer'[c] = "left" /\ consumer[c] # "open"
      /\ Head(work).do = "follow" => c \notin lane[l].sessions
      /\ consumer'[c] = "open" <=> consumer[c] = "open"
      /\ halted => Head(work).do = "end" /\ lanes = {}
  <2>1. /\ Head(work).do = "end" => consumer[c] = "left"
        /\ Head(work).do = "connect" => consumer[c] = "new"
        /\ Head(work).do = "follow" => consumer[c] = "open"
        /\ Head(work).do \in Uses => ~halted
    BY <1>2 DEF Meant
  <2>2. consumer \in [Consumers -> {"new", "open", "left"}]
    BY <1>1 DEF Typed
  <2>. QED BY <1>1, <1>2, <2>1, <2>2 DEF HaltedGone, Uses
<1>4. PICK shuts \in BOOLEAN :
        /\ shuts <=> l # 0 /\ lane[l].sessions \ {c} = {} /\ l \in lanes
        /\ lanes' = IF shuts THEN lanes \ {l} ELSE lanes
        /\ lane' = IF shuts THEN Shut({l}, lane) ELSE [lane EXCEPT ![l].sessions = lane[l].sessions \ {c}]
        /\ follow' = IF shuts THEN DropFollows({l}) ELSE EndFollows(c, l)
        /\ reported' \in Statuses
        /\ \/ work' = Tail(work) /\ halted' = halted
           \/ shuts /\ ReportHalt(work)
  <2>1. IsEmpty(l, lane[l].sessions \ {c}) <=> l # 0 /\ lane[l].sessions \ {c} = {} /\ l \in lanes
    BY DEF IsEmpty
  <2>2. \A open : GetStatus(open, lane) \in Statuses
    BY DEF GetStatus, Statuses
  <2>3. reported \in Statuses
    BY <1>1 DEF Typed
  <2>4. IsEmpty(l, lane[l].sessions \ {c}) \in BOOLEAN
    BY DEF IsEmpty
  <2>. QED BY <2>1, <2>2, <2>3, <2>4 DEF EndSession
<1>5. /\ lanes' \subseteq lanes /\ \A k \in lanes : k # l => k \in lanes'
      /\ shuts => lane[l].sessions \ {c} = {}
      /\ shuts => l \in lanes /\ l \notin lanes' /\ l # 0 /\ ~halted
      /\ ~shuts => lanes' = lanes
      /\ l \in lanes' => l = 0 \/ lane[l].sessions \ {c} # {}
      /\ reported' \in Statuses
  BY <1>3, <1>4
<1>6. /\ lane' \in [LaneIds -> LaneType] /\ \A k \in LaneIds : IsFiniteSet(lane'[k].sessions)
      /\ \A k \in LaneIds : k # l => lane'[k] = lane[k]
      /\ lane'[l].sessions = lane[l].sessions \ {c}
      /\ shuts => ~lane'[l].up
      /\ ~shuts => lane'[l].up = lane[l].up /\ lane'[l].status = lane[l].status
  <2>1. CASE shuts
    BY <1>1, <1>2, <1>4, <2>1, ShutIs
  <2>2. CASE ~shuts
    <3>1. lane' = [lane EXCEPT ![l] = [lane[l] EXCEPT !.sessions = lane[l].sessions \ {c}]]
      BY <1>4, <2>2
    <3> DEFINE o == [lane[l] EXCEPT !.sessions = lane[l].sessions \ {c}]
    <3>2. lane \in [LaneIds -> LaneType] /\ lane[l] \in LaneType /\ \A k \in LaneIds : IsFiniteSet(lane[k].sessions)
      BY <1>1, <1>2 DEF Typed
    <3>3. o \in LaneType /\ o.sessions = lane[l].sessions \ {c} /\ o.up = lane[l].up /\ o.status = lane[l].status
      BY <3>2 DEF LaneType
    <3>4. IsFiniteSet(lane[l].sessions \ {c})
      BY <1>2, <3>2, FS_Subset
    <3> HIDE DEF o
    <3>5. lane' \in [LaneIds -> LaneType] /\ lane'[l] = o /\ \A k \in LaneIds : k # l => lane'[k] = lane[k]
      BY <1>2, <3>1, <3>2, <3>3 DEF o
    <3>. QED BY <2>2, <3>2, <3>3, <3>4, <3>5
  <2>. QED BY <2>1, <2>2
<1>7. /\ follow' \in Seq(FollowType) /\ DOMAIN follow' = DOMAIN follow
      /\ \A n \in DOMAIN follow :
           /\ follow'[n].on = follow[n].on /\ follow'[n].by = follow[n].by
           /\ follow'[n].stage \in Counted => follow[n].stage \in Counted
           /\ follow'[n].stage \in Waiting => follow'[n] = follow[n] /\ (follow[n].by # c \/ follow[n].on # l)
           /\ follow'[n].stage \in {"held", "released"} => follow[n].stage \in {"held", "released"}
           /\ shuts /\ follow[n].on = l => follow'[n].stage \notin Counted
  <2>1. CASE shuts
    <3>1. "over" \notin Counted /\ Waiting \subseteq Counted /\ {"held", "released"} \subseteq Counted
      BY DEF Counted, Waiting
    <3>2. follow' = DropFollows({l})
      BY <1>4, <2>1
    <3>3. /\ follow' \in Seq(FollowType) /\ DOMAIN follow' = DOMAIN follow
          /\ \A n \in DOMAIN follow : /\ follow'[n].on = follow[n].on /\ follow'[n].by = follow[n].by
                                      /\ follow[n].on = l => follow'[n].stage = "over"
                                      /\ follow'[n].stage \in Counted => follow'[n] = follow[n]
      BY <1>1, <3>2, DropIs
    <3>. QED BY <3>1, <3>3
  <2>2. CASE ~shuts
    <3>1. follow' = EndFollows(c, l)
      BY <1>4, <2>2
    <3>2. /\ follow' \in Seq(FollowType) /\ DOMAIN follow' = DOMAIN follow
          /\ \A n \in DOMAIN follow :
               /\ follow'[n].on = follow[n].on /\ follow'[n].by = follow[n].by
               /\ follow'[n].stage \in Counted => follow[n].stage \in Counted
               /\ follow'[n].stage \in Waiting => follow'[n] = follow[n] /\ (follow[n].by # c \/ follow[n].on # l)
               /\ follow'[n].stage \in {"held", "released"} => follow[n].stage \in {"held", "released"}
      BY <1>1, <3>1, EndFollowsIs
    <3>. QED BY <2>2, <3>2
  <2>. QED BY <2>1, <2>2
<1>8. /\ work' \in Seq(StepType) /\ Ordered(work') /\ \A x \in Range(Tail(work)) : x \in Range(work')
      /\ \A x \in Range(work') : x \in Range(Tail(work)) \/ x.do = "halt"
      /\ \/ halted' = halted /\ ~Doing("halt")' /\ \A x \in Range(work') : x.do # "halt"
         \/ ~halted /\ halted' /\ Doing("halt")' /\ shuts
  <2>1. CASE work' = Tail(work) /\ halted' = halted
    <3>1. "halt" \in Opening
      BY DEF Opening
    <3>. QED BY <1>2, <2>1, <3>1, NoHaltIsNext DEF Doing
  <2>2. CASE shuts /\ ReportHalt(work)
    <3>1. ~halted /\ ReportHalt(work)
      BY <1>5, <2>2
    <3>. QED BY <1>2, <2>2, <3>1, ReportHaltIs
  <2>. QED BY <1>4, <2>1, <2>2
<1>9. Typed'
  <2>1. lanes' \subseteq 0 .. nextLane' - 1 /\ nextLane' \in 1 .. MaxLanes
    BY <1>1, <1>3, <1>5 DEF Typed
  <2>2. \A n \in DOMAIN follow' : follow'[n].on < nextLane'
    BY <1>1, <1>3, <1>7 DEF Typed
  <2>3. \A k \in Consumers : consumer'[k] = "open" => home'[k] \in LaneIds
    BY <1>1, <1>2, <1>3 DEF Typed
  <2>4. halted' \in BOOLEAN
    BY <1>1, <1>8 DEF Typed
  <2>. QED BY <1>1, <1>3, <1>5, <1>6, <1>7, <1>8, <2>1, <2>2, <2>3, <2>4 DEF Typed
<1>10. Underway'
  <2>1. SUFFICES ASSUME NEW x \in Range(work')
                 PROVE  Names(x)' /\ Meant(x)'
    BY <1>8 DEF Underway
  <2>2. CASE x \in Range(Tail(work))
    <3>1. x \in Range(work) /\ Names(x) /\ Meant(x) /\ x.do \notin Opening /\ x.lane \in LaneIds
      BY <1>2, <2>2
    <3>2. Names(x)'
      BY <1>7, <3>1 DEF Names
    <3>3. x.do \in Halting => x.lane \notin lanes' /\ halted'
      BY <1>5, <1>8, <3>1 DEF Meant
    <3>4. x.do = "shut" => lane'[x.lane].sessions = {}
      BY <1>2, <1>6, <3>1 DEF Meant
    <3>5. x.do = "end" => x.of \in Consumers /\ consumer'[x.of] = "left"
      BY <1>2, <1>3, <3>1 DEF Meant, Names
    <3>6. x.do \in Pausing => paused'
      BY <1>3, <3>1 DEF Meant
    <3>. QED BY <3>1, <3>2, <3>3, <3>4, <3>5, <3>6 DEF Meant, Opening, Uses
  <2>3. CASE x.do = "halt"
    BY <1>8, <2>1, <2>3 DEF Names, Meant, Uses, Halting, Pausing
  <2>. QED BY <1>8, <2>2, <2>3
<1>11. LimitKept'
  <2>1. SUFFICES ASSUME NEW k \in lanes'
                 PROVE  (CountFollows(k) <= FollowLimit)'
    BY DEF LimitKept
  <2>2. CountFollows(k)' <= CountFollows(k) /\ CountFollows(k)' \in Nat /\ CountFollows(k) \in Nat
    BY <1>1, <1>7, CountFewer DEF Typed, Counted
  <2>. QED BY <1>1, <1>3, <1>5, <2>2 DEF LimitKept, LanesAssumption
<1>12. FollowsHeld'
  <2>1. SUFFICES ASSUME NEW n \in DOMAIN follow', follow'[n].stage \in Waiting
                 PROVE  \/ follow'[n].by \in lane'[follow'[n].on].sessions
                        \/ \E x \in Range(work') : x.do = "shut" /\ x.lane = follow'[n].on
    BY DEF FollowsHeld, Pending
  <2>2. n \in DOMAIN follow /\ follow'[n] = follow[n] /\ (follow[n].by # c \/ follow[n].on # l) /\ follow[n].on \in LaneIds
    BY <1>0, <1>7, <2>1
  <2>3. CASE follow[n].by \in lane[follow[n].on].sessions
    BY <1>2, <1>6, <2>2, <2>3
  <2>4. CASE Pending("shut", follow[n].on)
    BY <1>2, <1>8, <2>2, <2>4 DEF Pending, Uses
  <2>. QED BY <1>1, <2>1, <2>2, <2>3, <2>4 DEF FollowsHeld
<1>13. SessionsHeld'
  <2>1. SUFFICES ASSUME NEW k \in lanes', NEW d \in lane'[k].sessions, consumer'[d] # "open"
                 PROVE  \E x \in Range(work') : x.do = "end" /\ x.lane = k /\ x.of = d
    BY DEF SessionsHeld
  <2>2. k \in lanes /\ k \in LaneIds /\ d \in lane[k].sessions /\ ~(k = l /\ d = c)
    BY <1>0, <1>2, <1>5, <1>6, <2>1
  <2>3. d \in Consumers
    BY <1>0, <2>2
  <2>4. consumer[d] # "open"
    BY <1>3, <2>1, <2>3
  <2>5. PICK x \in Range(work) : x.do = "end" /\ x.lane = k /\ x.of = d
    BY <1>1, <2>2, <2>4 DEF SessionsHeld
  <2>. QED BY <1>2, <1>8, <2>2, <2>5
<1>14. HomesHeld'
  <2>1. SUFFICES ASSUME ~closed', halted' => Doing("halt")', NEW k \in Consumers, consumer'[k] = "open"
                 PROVE  home'[k] \in lanes' /\ k \in lane'[home'[k]].sessions
    BY DEF HomesHeld
  <2>2. ~closed /\ ~halted /\ consumer[k] = "open"
    BY <1>3, <1>8, <2>1
  <2>3. home[k] \in lanes /\ home[k] \in LaneIds /\ k \in lane[home[k]].sessions
    BY <1>0, <1>1, <2>2 DEF HomesHeld
  <2>4. ~(home[k] = l /\ k = c)
    BY <1>3, <2>1, <2>2, <2>3
  <2>5. k \in lane'[home[k]].sessions
    BY <1>2, <1>6, <2>3, <2>4
  <2>6. home[k] = l => k \in lane[l].sessions \ {c}
    BY <2>3, <2>4
  <2>7. home[k] = l => ~shuts
    BY <1>5, <2>6
  <2>. QED BY <1>3, <1>5, <2>3, <2>5, <2>7
<1>15. ExtraHeld'
  BY <1>0, <1>1, <1>2, <1>3, <1>5, <1>6, <1>7, <1>8 DEF ExtraHeld
<1>16. GoneEmpty'
  <2>1. SUFFICES ASSUME NEW k \in LaneIds \ lanes'
                 PROVE  \/ /\ lane'[k].sessions = {} /\ ~lane'[k].up
                           /\ \A n \in DOMAIN follow' : follow'[n].on = k => follow'[n].stage \notin Counted
                        \/ Pending("haltLane", k)' \/ Pending("shut", k)'
    BY DEF GoneEmpty
  <2>2. CASE k \in lanes
    BY <1>5, <1>6, <1>7, <2>1, <2>2
  <2>3. CASE k \notin lanes
    <3>1. CASE Pending("haltLane", k) \/ Pending("shut", k)
      BY <1>2, <1>8, <3>1 DEF Pending, Uses
    <3>2. CASE /\ lane[k].sessions = {} /\ ~lane[k].up
               /\ \A n \in DOMAIN follow : follow[n].on = k => follow[n].stage \notin Counted
      BY <1>2, <1>5, <1>6, <1>7, <2>1, <2>3, <3>2
    <3>. QED BY <1>1, <2>1, <2>3, <3>1, <3>2 DEF GoneEmpty
  <2>. QED BY <2>2, <2>3
<1>17. ClosedRests'
  BY <1>0, <1>1, <1>2, <1>3, <1>5, <1>6, <1>7, <1>8 DEF ClosedRests
<1>18. HaltedGone'
  BY <1>0, <1>1, <1>2, <1>3, <1>5, <1>6, <1>7, <1>8 DEF HaltedGone
<1>19. HaltOwed'
  <2>1. SUFFICES ASSUME halted', ~Doing("halt")', NEW k \in Consumers, consumer'[k] = "open", halts'[k] # 1
                 PROVE  \/ \E x \in Range(work') : x.do = "haltLane" /\ k \in lane'[x.lane].sessions
                        \/ \E x \in Range(work') : x.do = "tell" /\ x.of = k
    BY DEF HaltOwed
  <2>2. halted /\ Head(work).do = "end" /\ consumer[k] = "open" /\ k # c /\ halts[k] # 1
    BY <1>3, <1>8, <2>1
  <2>3. CASE \E x \in Range(work) : x.do = "tell" /\ x.of = k
    BY <1>2, <1>8, <2>2, <2>3
  <2>4. CASE \E x \in Range(work) : x.do = "haltLane" /\ k \in lane[x.lane].sessions
    <3>1. PICK x \in Range(work) : x.do = "haltLane" /\ k \in lane[x.lane].sessions
      BY <2>4
    <3>2. x \in Range(Tail(work)) /\ x \in Range(work') /\ x.lane \in LaneIds
      BY <1>2, <1>8, <2>2, <3>1
    <3>3. k \in lane'[x.lane].sessions
      BY <1>2, <1>6, <2>2, <3>1, <3>2
    <3>. QED BY <3>1, <3>2, <3>3
  <2>. QED BY <1>1, <1>2, <2>2, <2>3, <2>4 DEF HaltOwed
<1>20. LanesUp'
  <2>1. SUFFICES ASSUME ~halted', NEW k \in lanes'
                 PROVE  IF paused' THEN ~lane'[k].up \/ Pending("pause", k)' ELSE lane'[k].up
    BY DEF LanesUp
  <2>2. ~halted /\ k \in lanes /\ k \in LaneIds /\ lane'[k].up = lane[k].up
    BY <1>0, <1>2, <1>5, <1>6, <1>8, <2>1
  <2>3. Pending("pause", k) => Pending("pause", k)'
    BY <1>2, <1>8 DEF Pending, Uses
  <2>. QED BY <1>1, <1>3, <2>2, <2>3 DEF LanesUp
<1>21. PausedSaid'
  <2>1. SUFFICES ASSUME ~halted', paused', NEW k \in lanes'
                 PROVE  lane'[k].status = "disconnected" \/ Pending("paused", k)'
    BY DEF PausedSaid
  <2>2. ~halted /\ k \in lanes /\ k \in LaneIds /\ lane'[k].status = lane[k].status
    BY <1>0, <1>2, <1>5, <1>6, <1>8, <2>1
  <2>3. Pending("paused", k) => Pending("paused", k)'
    BY <1>2, <1>8 DEF Pending, Uses
  <2>. QED BY <1>1, <1>3, <2>1, <2>2, <2>3 DEF PausedSaid
<1>22. PausedIdle'
  <2>1. SUFFICES ASSUME paused', NEW n \in DOMAIN follow', follow'[n].on \in lanes', follow'[n].stage \in {"held", "released"}
                 PROVE  \/ \E x \in Range(work') : x.do = "pause" /\ x.lane = follow'[n].on
                        \/ \E x \in Range(work') : x.do = "stop" /\ x.of = n
    BY DEF PausedIdle, Pending
  <2>2. paused /\ n \in DOMAIN follow /\ follow[n].on \in lanes /\ follow[n].stage \in {"held", "released"}
        /\ follow'[n].on = follow[n].on
    BY <1>3, <1>5, <1>7, <2>1
  <2>3. Pending("pause", follow[n].on) => \E x \in Range(work') : x.do = "pause" /\ x.lane = follow[n].on
    BY <1>2, <1>8 DEF Pending
  <2>4. ASSUME NEW x \in Range(work), x.do = "stop"
        PROVE  x \in Range(work')
    BY <1>2, <1>8, <2>4 DEF Uses
  <2>. QED BY <1>1, <2>2, <2>3, <2>4 DEF PausedIdle
<1>. QED BY <1>9, <1>10, <1>11, <1>12, <1>13, <1>14, <1>15, <1>16, <1>17, <1>18, <1>19, <1>20, <1>21, <1>22 DEF LanesInv, Held, Owed

\* A consumer is connected on the lane that was picked, or its follow goes out on it.
OpenHome(l, c) ==
  /\ lane' = [lane EXCEPT ![l].sessions = @ \cup {c}]
  /\ consumer' = [consumer EXCEPT ![c] = "open"] /\ home' = [home EXCEPT ![c] = l]
  /\ work' = Tail(work)
  /\ UNCHANGED <<lanes, follow, reported, halted>> /\ UNCHANGED <<nextLane, paused, closed, halts>>

OpenFollow(l, c) ==
  /\ lane' = [lane EXCEPT ![l].sessions = @ \cup {c}]
  /\ follow' = Append(follow, [by |-> c, on |-> l, stage |-> "asked"])
  /\ work' = Tail(work)
  /\ UNCHANGED <<lanes, reported, halted>> /\ UNCHANGED <<nextLane, paused, closed, consumer, home, halts>>

\* A consumer that disconnects ends its sessions one by one.
LEMMA EndOneKeeps ==
  ASSUME LanesAssumption, LanesInv, EndOne
  PROVE  LanesInv'
<1> DEFINE l == Head(work).lane
           c == Head(work).of
<1>1. work # <<>> /\ Head(work).do = "end" /\ EndSession(l, c) /\ UNCHANGED <<nextLane, paused, closed, consumer, home, halts>>
  BY Zenon DEF EndOne, Doing
<1>2. /\ UNCHANGED <<nextLane, paused, closed, home, halts>> /\ consumer' = consumer
      /\ Head(work).do \in {"end"} \cup Uses /\ Head(work).do # "connect" /\ Head(work).do # "follow"
  BY <1>1
<1> HIDE DEF l, c
<1>. QED BY <1>1, <1>2, EndKeeps DEF l, c

\* A consumer is connected: it has its home on the lane that was picked.
LEMMA OpenHomeKeeps ==
  ASSUME LanesAssumption, LanesInv, NEW l, NEW c, work # <<>>, Head(work).do = "connect", l = Head(work).lane, c = Head(work).of,
         OpenHome(l, c)
  PROVE  LanesInv'
<1> USE LanesParts
<1>2. /\ Head(work).do = "connect" /\ Meant(Head(work)) /\ Names(Head(work)) /\ ~Doing("halt") /\ l = Head(work).lane /\ work' = Tail(work)
      /\ l \in LaneIds /\ c \in Consumers /\ l \in lanes /\ ~halted /\ ~closed /\ consumer[c] = "new"
      /\ work' \in Seq(StepType) /\ Ordered(work') /\ ~Doing("halt")'
      /\ \A x \in Range(work) : x \in Range(work') \/ x = Head(work)
      /\ \A x \in Range(work') : x \in Range(work) /\ Names(x) /\ Meant(x) /\ x.do \notin Opening /\ x.do \notin Uses /\ x.lane \in LaneIds
  <2>1. Head(work).do \in Uses /\ Head(work).do # "halt" /\ work' = Tail(work)
    BY DEF Uses, OpenHome
  <2>2. /\ Names(Head(work)) /\ Meant(Head(work)) /\ Plain(Tail(work)) /\ Tail(work) \in Seq(StepType) /\ Ordered(Tail(work))
        /\ \A x \in Range(work) : x \in Range(Tail(work)) \/ x = Head(work)
        /\ \A x \in Range(Tail(work)) : /\ x \in Range(work) /\ Names(x) /\ Meant(x)
                                        /\ (x.do # "halt" => x.lane \in LaneIds)
    BY PopIs
  <2>3. \A x \in Range(Tail(work)) : x.do \notin Opening /\ x.do \notin Uses /\ x.do # "halt"
    BY <2>2 DEF Plain, Opening
  <2>4. l \in LaneIds /\ c \in Consumers /\ l \in lanes /\ ~halted /\ ~closed /\ consumer[c] = "new"
    BY <2>1, <2>2 DEF Names, Meant
  <2>. QED BY <2>1, <2>2, <2>3, <2>4, NoHaltIsNext DEF Doing
<1>3. /\ lanes' = lanes /\ reported' = reported /\ nextLane' = nextLane /\ follow' = follow
      /\ paused' = paused /\ halted' = halted /\ closed' = closed /\ halts' = halts
  BY DEF OpenHome
<1>4. /\ lane'[l].sessions # {}
      /\ lane' \in [LaneIds -> LaneType] /\ \A k \in LaneIds : IsFiniteSet(lane'[k].sessions)
      /\ lane'[l].sessions = lane[l].sessions \cup {c}
      /\ \A k \in LaneIds : (k # l => lane'[k] = lane[k]) /\ lane'[k].up = lane[k].up /\ lane'[k].status = lane[k].status
  <2> DEFINE S == lane[l].sessions \cup {c}
  <2>1. S \in SUBSET Consumers /\ S # {}
    BY <1>2
  <2>2. IsFiniteSet(S)
    <3>1. IsFiniteSet(lane[l].sessions)
      BY <1>2 DEF Typed
    <3>. QED BY <3>1, FS_AddElement
  <2>3. lane' = Holding(l, S)
    BY DEF Holding, OpenHome
  <2> HIDE DEF S
  <2>4. /\ lane' \in [LaneIds -> LaneType] /\ \A k \in LaneIds : IsFiniteSet(lane'[k].sessions)
        /\ lane'[l].sessions = S
        /\ \A k \in LaneIds : (k # l => lane'[k] = lane[k]) /\ lane'[k].up = lane[k].up /\ lane'[k].status = lane[k].status
    BY <1>2, <2>1, <2>2, <2>3, HoldingIs
  <2>. QED BY <2>1, <2>4 DEF S
<1>5. /\ consumer' \in [Consumers -> {"new", "open", "left"}] /\ home' \in [Consumers -> LaneIds \cup {None}]
      /\ consumer'[c] = "open" /\ home'[c] = l
      /\ \A k \in Consumers : k # c => consumer'[k] = consumer[k] /\ home'[k] = home[k]
  BY <1>2 DEF Typed, OpenHome
<1>6. Typed'
  <2>1. \A k \in Consumers : consumer'[k] = "open" => home'[k] \in LaneIds
    BY <1>2, <1>5 DEF Typed
  <2>. QED BY <1>2, <1>3, <1>4, <1>5, <2>1 DEF Typed
<1>7. Underway'
  <2>1. SUFFICES ASSUME NEW x \in Range(work')
                 PROVE  Names(x)' /\ Meant(x)'
    BY <1>2 DEF Underway
  <2>. QED BY <1>2, <1>3, <1>4, <1>5, <2>1 DEF Names, Meant, Opening, Uses, Halting
<1>8. LimitKept'
  <2>1. \A k \in lanes' : CountFollows(k)' = CountFollows(k)
    BY <1>3 DEF CountFollows
  <2>. QED BY <1>3, <2>1 DEF LimitKept
<1>9. FollowsHeld'
  <2>1. SUFFICES ASSUME NEW n \in DOMAIN follow, follow[n].stage \in Waiting
                 PROVE  \/ follow[n].by \in lane'[follow[n].on].sessions
                        \/ \E x \in Range(work') : x.do = "shut" /\ x.lane = follow[n].on
    BY <1>3 DEF FollowsHeld, Pending
  <2>2. lane[follow[n].on].sessions \subseteq lane'[follow[n].on].sessions
    BY <1>4
  <2>3. \A x \in Range(work) : x.do = "shut" => x \in Range(work')
    BY <1>2
  <2>. QED BY <2>1, <2>2, <2>3 DEF FollowsHeld, Pending
<1>10. SessionsHeld'
  BY <1>2, <1>3, <1>4, <1>5 DEF SessionsHeld
<1>11. HomesHeld'
  <2>1. SUFFICES ASSUME NEW k \in Consumers, ~closed, consumer'[k] = "open"
                 PROVE  home'[k] \in lanes /\ k \in lane'[home'[k]].sessions
    BY <1>3 DEF HomesHeld
  <2>2. CASE k = c
    BY <1>2, <1>4, <1>5, <2>2
  <2>3. CASE k # c
    <3>1. home'[k] = home[k] /\ consumer[k] = "open"
      BY <1>5, <2>1, <2>3
    <3>2. home[k] \in lanes /\ k \in lane[home[k]].sessions
      BY <1>2, <2>1, <3>1 DEF HomesHeld
    <3>. QED BY <1>4, <3>1, <3>2
  <2>. QED BY <2>2, <2>3
<1>12. ExtraHeld'
  <2>1. SUFFICES ASSUME NEW k \in lanes, k # 0, k # l
                 PROVE  lane'[k].sessions # {} \/ \E x \in Range(work') : x.do \in Uses /\ x.lane = k
    BY <1>3, <1>4 DEF ExtraHeld
  <2>2. lane'[k].sessions = lane[k].sessions
    BY <1>4, <2>1
  <2>3. ASSUME NEW x \in Range(work), x.lane = k
        PROVE  x \in Range(work')
    BY <1>2, <2>1, <2>3
  <2>. QED BY <2>1, <2>2, <2>3 DEF ExtraHeld
<1>13. GoneEmpty'
  BY <1>2, <1>3, <1>4, <1>5 DEF GoneEmpty, Pending
<1>14. ClosedRests'
  BY <1>2, <1>3, <1>4, <1>5 DEF ClosedRests
<1>15. HaltedGone'
  BY <1>2, <1>3, <1>4, <1>5 DEF HaltedGone
<1>16. HaltOwed'
  BY <1>2, <1>3, <1>4, <1>5 DEF HaltOwed
<1>17. LanesUp'
  BY <1>2, <1>3, <1>4, <1>5 DEF LanesUp, Pending
<1>18. PausedSaid'
  BY <1>2, <1>3, <1>4, <1>5 DEF PausedSaid, Pending
<1>19. PausedIdle'
  BY <1>2, <1>3, <1>4, <1>5 DEF PausedIdle, Pending
<1>. QED BY <1>6, <1>7, <1>8, <1>9, <1>10, <1>11, <1>12, <1>13, <1>14, <1>15, <1>16, <1>17, <1>18, <1>19 DEF LanesInv, Held, Owed

\* A consumer is connected, or its connection fails and what was opened for it closes.
LEMMA ConnectHomeKeeps ==
  ASSUME LanesAssumption, LanesInv, ConnectHome
  PROVE  LanesInv'
<1> DEFINE l == Head(work).lane
           c == Head(work).of
<1>1. work # <<>> /\ Head(work).do = "connect"
  BY Zenon DEF ConnectHome, Doing
<1>2. Head(work).do \in {"end"} \cup Uses /\ Head(work).do # "follow"
  BY <1>1 DEF Uses
<1>3. CASE OpenHome(l, c)
  <2> HIDE DEF l, c
  <2>. QED BY <1>1, <1>3, OpenHomeKeeps DEF l, c
<1>4. CASE /\ EndSession(l, c) /\ consumer' = [consumer EXCEPT ![c] = "left"] /\ UNCHANGED home
           /\ UNCHANGED <<nextLane, paused, closed, halts>>
  <2>1. UNCHANGED <<nextLane, paused, closed, home, halts>>
    BY <1>4
  <2>2. consumer'[c] = "left"
    <3>1. c \in Consumers
      BY <1>1, <1>2, PopIs DEF Names
    <3>. QED BY <1>4, <3>1 DEF LanesInv, Typed
  <2> HIDE DEF l, c
  <2>. QED BY <1>1, <1>2, <1>4, <2>1, <2>2, EndKeeps DEF l, c
<1>. QED BY <1>3, <1>4 DEF ConnectHome, OpenHome

\* A follow goes out on the lane that was picked, which has room for it.
LEMMA OpenFollowKeeps ==
  ASSUME LanesAssumption, LanesInv, NEW l, NEW c, work # <<>>, Head(work).do = "follow", l = Head(work).lane, c = Head(work).of,
         OpenFollow(l, c)
  PROVE  LanesInv'
<1>1. /\ Typed /\ Underway /\ LimitKept /\ FollowsHeld /\ SessionsHeld /\ HomesHeld /\ ExtraHeld /\ GoneEmpty
      /\ ClosedRests /\ HaltedGone /\ HaltOwed /\ LanesUp /\ PausedSaid /\ PausedIdle
  BY DEF LanesInv, Held, Owed
<1>0. /\ lanes \in SUBSET LaneIds /\ \A k \in LaneIds : lane[k].sessions \subseteq Consumers
      /\ \A n \in DOMAIN follow : follow[n].on \in LaneIds /\ follow[n].by \in Consumers /\ follow[n].stage \in Counted \cup {"over"}
  BY <1>1, TypedIs
<1>2. /\ Head(work).do = "follow" /\ Meant(Head(work)) /\ Names(Head(work)) /\ ~Doing("halt") /\ l = Head(work).lane /\ work' = Tail(work)
      /\ l \in LaneIds /\ c \in Consumers /\ l \in lanes /\ ~halted /\ ~closed /\ consumer[c] = "open"
      /\ work' \in Seq(StepType) /\ Ordered(work') /\ ~Doing("halt")'
      /\ \A x \in Range(work) : x \in Range(work') \/ x = Head(work)
      /\ \A x \in Range(work') : x \in Range(work) /\ Names(x) /\ Meant(x) /\ x.do \notin Opening /\ x.do \notin Uses /\ x.lane \in LaneIds
  <2>1. Head(work).do \in Uses /\ Head(work).do # "halt" /\ work' = Tail(work)
    BY DEF Uses, OpenFollow
  <2>2. /\ Names(Head(work)) /\ Meant(Head(work)) /\ Plain(Tail(work)) /\ Tail(work) \in Seq(StepType) /\ Ordered(Tail(work))
        /\ \A x \in Range(work) : x \in Range(Tail(work)) \/ x = Head(work)
        /\ \A x \in Range(Tail(work)) : /\ x \in Range(work) /\ Names(x) /\ Meant(x)
                                        /\ (x.do # "halt" => x.lane \in LaneIds)
    BY PopIs
  <2>3. \A x \in Range(Tail(work)) : x.do \notin Opening /\ x.do \notin Uses /\ x.do # "halt"
    BY <2>2 DEF Plain, Opening
  <2>4. l \in LaneIds /\ c \in Consumers /\ l \in lanes /\ ~halted /\ ~closed /\ consumer[c] = "open"
    BY <2>1, <2>2 DEF Names, Meant
  <2>. QED BY <2>1, <2>2, <2>3, <2>4, NoHaltIsNext DEF Doing
<1>3. /\ lanes' = lanes /\ reported' = reported /\ nextLane' = nextLane /\ consumer' = consumer /\ home' = home
      /\ paused' = paused /\ halted' = halted /\ closed' = closed /\ halts' = halts
  BY DEF OpenFollow
<1>4. /\ lane'[l].sessions # {}
      /\ lane' \in [LaneIds -> LaneType] /\ \A k \in LaneIds : IsFiniteSet(lane'[k].sessions)
      /\ lane'[l].sessions = lane[l].sessions \cup {c}
      /\ \A k \in LaneIds : (k # l => lane'[k] = lane[k]) /\ lane'[k].up = lane[k].up /\ lane'[k].status = lane[k].status
  <2> DEFINE S == lane[l].sessions \cup {c}
  <2>1. S \in SUBSET Consumers /\ S # {}
    BY <1>0, <1>2
  <2>2. IsFiniteSet(S)
    <3>1. IsFiniteSet(lane[l].sessions)
      BY <1>1, <1>2 DEF Typed
    <3>. QED BY <3>1, FS_AddElement
  <2>3. lane' = Holding(l, S)
    BY DEF Holding, OpenFollow
  <2> HIDE DEF S
  <2>4. /\ lane' \in [LaneIds -> LaneType] /\ \A k \in LaneIds : IsFiniteSet(lane'[k].sessions)
        /\ lane'[l].sessions = S
        /\ \A k \in LaneIds : (k # l => lane'[k] = lane[k]) /\ lane'[k].up = lane[k].up /\ lane'[k].status = lane[k].status
    BY <1>1, <1>2, <2>1, <2>2, <2>3, HoldingIs
  <2>. QED BY <2>1, <2>4 DEF S
<1>5. PICK f \in FollowType : f.by = c /\ f.on = l /\ f.stage = "asked" /\ follow' = Append(follow, f)
  <2> DEFINE f == [by |-> c, on |-> l, stage |-> "asked"]
  <2>1. f \in FollowType /\ f.by = c /\ f.on = l /\ f.stage = "asked"
    BY <1>2 DEF FollowType, Counted
  <2>. QED BY <2>1 DEF OpenFollow
<1>6. /\ follow' \in Seq(FollowType) /\ DOMAIN follow \subseteq DOMAIN follow'
      /\ \A n \in DOMAIN follow : follow'[n] = follow[n]
      /\ \A n \in DOMAIN follow' :
           n \in DOMAIN follow \/ (follow'[n].by = c /\ follow'[n].on = l /\ follow'[n].stage = "asked")
  <2>1. follow \in Seq(FollowType)
    BY <1>1 DEF Typed
  <2>2. \A n \in DOMAIN follow' : n \in DOMAIN follow \/ follow'[n] = f
    BY <1>5, <2>1
  <2>. QED BY <1>5, <2>1, <2>2
<1>7. HasRoom(l)
  BY <1>2 DEF Meant
<1>8. Typed'
  <2>1. \A n \in DOMAIN follow' : follow'[n].on < nextLane'
    BY <1>1, <1>2, <1>3, <1>5, <1>6 DEF Typed
  <2>. QED BY <1>1, <1>2, <1>3, <1>4, <1>6, <2>1 DEF Typed
<1>9. Underway'
  <2>1. SUFFICES ASSUME NEW x \in Range(work')
                 PROVE  Names(x)' /\ Meant(x)'
    BY <1>2 DEF Underway
  <2>. QED BY <1>2, <1>3, <1>4, <1>6, <2>1 DEF Names, Meant, Opening, Uses, Halting
<1>10. LimitKept'
  <2>1. SUFFICES ASSUME NEW k \in lanes
                 PROVE  CountFollows(k)' <= FollowLimit
    BY <1>3 DEF LimitKept
  <2>2. follow \in Seq(FollowType) /\ FollowLimit \in Nat
    BY <1>1 DEF Typed, LanesAssumption
  <2>3. /\ CountFollows(k)' \in Nat /\ CountFollows(k) \in Nat /\ CountFollows(k)' <= CountFollows(k) + 1
        /\ l # k => CountFollows(k)' <= CountFollows(k)
    BY <1>5, <2>2, CountOneMore
  <2>4. CountFollows(k) <= FollowLimit /\ (k = l => CountFollows(k) < FollowLimit)
    BY <1>1, <1>7 DEF LimitKept, HasRoom
  <2>. QED BY <2>2, <2>3, <2>4
<1>11. FollowsHeld'
  <2>1. SUFFICES ASSUME NEW n \in DOMAIN follow', follow'[n].stage \in Waiting
                 PROVE  \/ follow'[n].by \in lane'[follow'[n].on].sessions
                        \/ \E x \in Range(work') : x.do = "shut" /\ x.lane = follow'[n].on
    BY DEF FollowsHeld, Pending
  <2>2. CASE follow'[n].by = c /\ follow'[n].on = l
    BY <1>4, <2>2
  <2>3. CASE n \in DOMAIN follow
    <3>1. follow'[n] = follow[n] /\ follow[n].on \in LaneIds
      BY <1>0, <1>6, <2>3
    <3>2. CASE follow[n].by \in lane[follow[n].on].sessions
      BY <1>4, <3>1, <3>2
    <3>3. CASE Pending("shut", follow[n].on)
      BY <1>2, <3>1, <3>3 DEF Pending
    <3>. QED BY <1>1, <2>1, <2>3, <3>1, <3>2, <3>3 DEF FollowsHeld
  <2>. QED BY <1>6, <2>2, <2>3
<1>12. SessionsHeld'
  BY <1>0, <1>1, <1>2, <1>3, <1>4, <1>6, <1>7 DEF SessionsHeld
<1>13. HomesHeld'
  BY <1>0, <1>1, <1>2, <1>3, <1>4, <1>6, <1>7 DEF HomesHeld
<1>14. ExtraHeld'
  <2>1. SUFFICES ASSUME NEW k \in lanes, k # 0, k # l
                 PROVE  lane'[k].sessions # {} \/ \E x \in Range(work') : x.do \in Uses /\ x.lane = k
    BY <1>3, <1>4 DEF ExtraHeld
  <2>2. lane'[k].sessions = lane[k].sessions
    BY <1>0, <1>4, <2>1
  <2>3. ASSUME NEW x \in Range(work), x.lane = k
        PROVE  x \in Range(work')
    BY <1>2, <2>1, <2>3
  <2>. QED BY <1>1, <2>1, <2>2, <2>3 DEF ExtraHeld
<1>15. GoneEmpty'
  <2>1. SUFFICES ASSUME NEW k \in LaneIds, k \notin lanes
                 PROVE  \/ /\ lane'[k].sessions = {} /\ ~lane'[k].up
                           /\ \A n \in DOMAIN follow' : follow'[n].on = k => follow'[n].stage \notin Counted
                        \/ Pending("haltLane", k)' \/ Pending("shut", k)'
    BY <1>3 DEF GoneEmpty
  <2>2. k # l /\ lane'[k] = lane[k]
    BY <1>2, <1>4, <2>1
  <2>3. CASE Pending("haltLane", k) \/ Pending("shut", k)
    BY <1>2, <2>3 DEF Pending
  <2>4. CASE lane[k].sessions = {} /\ ~lane[k].up /\ \A n \in DOMAIN follow : follow[n].on = k => follow[n].stage \notin Counted
    BY <1>6, <2>2, <2>4
  <2>. QED BY <1>1, <2>1, <2>3, <2>4 DEF GoneEmpty
<1>16. ClosedRests'
  BY <1>0, <1>1, <1>2, <1>3, <1>4, <1>6, <1>7 DEF ClosedRests
<1>17. HaltedGone'
  BY <1>0, <1>1, <1>2, <1>3, <1>4, <1>6, <1>7 DEF HaltedGone
<1>18. HaltOwed'
  BY <1>0, <1>1, <1>2, <1>3, <1>4, <1>6, <1>7 DEF HaltOwed
<1>19. LanesUp'
  BY <1>0, <1>1, <1>2, <1>3, <1>4, <1>6, <1>7 DEF LanesUp, Pending
<1>20. PausedSaid'
  BY <1>0, <1>1, <1>2, <1>3, <1>4, <1>6, <1>7 DEF PausedSaid, Pending
<1>21. PausedIdle'
  <2>1. SUFFICES ASSUME paused', NEW n \in DOMAIN follow', follow'[n].on \in lanes', follow'[n].stage \in {"held", "released"}
                 PROVE  \/ \E x \in Range(work') : x.do = "pause" /\ x.lane = follow'[n].on
                        \/ \E x \in Range(work') : x.do = "stop" /\ x.of = n
    BY DEF PausedIdle, Pending
  <2>2. n \in DOMAIN follow /\ follow'[n] = follow[n]
    BY <1>6, <2>1
  <2>3. \A x \in Range(work) : x.do \in {"pause", "stop"} => x \in Range(work')
    BY <1>2
  <2>. QED BY <1>1, <1>3, <2>1, <2>2, <2>3 DEF PausedIdle, Pending
<1>. QED BY <1>8, <1>9, <1>10, <1>11, <1>12, <1>13, <1>14, <1>15, <1>16, <1>17, <1>18, <1>19, <1>20, <1>21 DEF LanesInv, Held, Owed

\* A follow goes out, or its session fails to open and what was opened for it closes.
LEMMA SendFollowKeeps ==
  ASSUME LanesAssumption, LanesInv, SendFollow
  PROVE  LanesInv'
<1> DEFINE l == Head(work).lane
           c == Head(work).of
<1>1. work # <<>> /\ Head(work).do = "follow"
  BY Zenon DEF SendFollow, Doing
<1>2. Head(work).do \in {"end"} \cup Uses /\ Head(work).do # "connect"
  BY <1>1 DEF Uses
<1>3. CASE OpenFollow(l, c)
  <2> HIDE DEF l, c
  <2>. QED BY <1>1, <1>3, OpenFollowKeeps DEF l, c
<1>4. CASE /\ c \notin lane[l].sessions /\ EndSession(l, c)
           /\ UNCHANGED <<nextLane, paused, closed, consumer, home, halts>>
  <2>1. UNCHANGED <<nextLane, paused, closed, home, halts>> /\ consumer' = consumer
    BY <1>4
  <2> HIDE DEF l, c
  <2>. QED BY <1>1, <1>2, <1>4, <2>1, EndKeeps DEF l, c
<1>. QED BY <1>3, <1>4 DEF SendFollow, OpenFollow

\* A consumer's call goes on with a lane it picked.
GoesOn(step, l, c) ==
  /\ work' = <<Do(step, l, c)>> \o work
  /\ UNCHANGED <<lanes, nextLane, lane, reported, halted>> /\ UNCHANGED <<follow, paused, closed, consumer, home, halts>>

\* A consumer's call goes on with a lane that has room for it.
LEMMA PickKeeps ==
  ASSUME LanesAssumption, LanesInv, NEW step \in Uses, NEW l \in Roomy, NEW c \in Consumers, MayAct, ~halted, ~closed,
         step = "connect" => consumer[c] = "new", step = "follow" => consumer[c] = "open",
         GoesOn(step, l, c)
  PROVE  LanesInv'
<1> USE LanesParts
<1>2. /\ l \in lanes /\ l \in LaneIds /\ HasRoom(l)
      /\ \A x \in Range(work) : Names(x) /\ Meant(x)
  BY MayActIs DEF Roomy
<1>3. PICK y \in StepType : y.do = step /\ y.lane = l /\ y.of = c /\ work' = <<y>> \o work
  <2>1. step \in Opening \cup Halting \cup Pausing \cup {"end"}
    BY DEF Opening
  <2>2. l \in LaneIds \cup {None} /\ c \in Consumers \cup Nat \cup {None}
    BY <1>2
  <2>3. Do(step, l, c) \in StepType /\ Do(step, l, c).do = step /\ Do(step, l, c).lane = l /\ Do(step, l, c).of = c
    BY <2>1, <2>2, DoIs
  <2>4. work' = <<Do(step, l, c)>> \o work
    BY DEF GoesOn
  <2>. QED BY <2>3, <2>4
<1>4. /\ lanes' = lanes /\ reported' = reported /\ nextLane' = nextLane /\ lane' = lane /\ follow' = follow
      /\ paused' = paused /\ halted' = halted /\ closed' = closed /\ consumer' = consumer /\ home' = home /\ halts' = halts
  BY DEF GoesOn
<1>5. /\ work' \in Seq(StepType) /\ Ordered(work')
      /\ \A x \in Range(work') : x \in Range(work) \/ x = y
      /\ \A x \in Range(work) : x \in Range(work')
  <2>1. work \in Seq(StepType) /\ Plain(work)
    BY MayActIs
  <2>2. <<y>> \in Seq(StepType) /\ Range(<<y>>) = {y}
    BY OneIs
  <2>3. work' \in Seq(StepType) /\ Range(work') = {y} \cup Range(work)
    BY <1>3, <2>1, <2>2, OnIs
  <2>4. Ordered(work')
    BY <1>3, <2>1, FirstIs
  <2>. QED BY <2>3, <2>4
<1>6. \A k \in lanes : CountFollows(k)' = CountFollows(k)
  BY <1>4 DEF CountFollows
<1>7. Typed'
  BY <1>2, <1>4, <1>5, <1>6 DEF Typed
<1>8. Underway'
  <2>1. SUFFICES ASSUME NEW x \in Range(work')
                 PROVE  Names(x)' /\ Meant(x)'
    BY <1>5 DEF Underway
  <2>2. CASE x = y
    <3>1. step \in {"connect", "follow"}
      BY DEF Uses
    <3>. QED BY <1>2, <1>3, <1>4, <1>6, <2>2, <3>1 DEF Names, Meant, HasRoom, Uses, Halting, Pausing
  <2>3. CASE x \in Range(work)
    <3>1. Names(x) /\ Meant(x) /\ x.do \notin Uses
      BY <2>3, MayActIs
    <3>. QED BY <1>4, <3>1 DEF Names, Meant, Uses
  <2>. QED BY <1>5, <2>2, <2>3
<1>9. LimitKept'
  BY <1>4, <1>6 DEF LimitKept
<1>10. FollowsHeld'
  BY <1>2, <1>4, <1>5, <1>6 DEF FollowsHeld, Pending
<1>11. SessionsHeld'
  BY <1>2, <1>4, <1>5, <1>6 DEF SessionsHeld
<1>12. HomesHeld'
  BY <1>2, <1>4, <1>5, <1>6 DEF HomesHeld
<1>13. ExtraHeld'
  BY <1>2, <1>4, <1>5, <1>6 DEF ExtraHeld
<1>14. GoneEmpty'
  BY <1>2, <1>4, <1>5, <1>6 DEF GoneEmpty, Pending
<1>15. ClosedRests'
  BY <1>2, <1>4, <1>5, <1>6 DEF ClosedRests
<1>16. HaltedGone'
  BY <1>2, <1>4, <1>5, <1>6 DEF HaltedGone
<1>17. HaltOwed'
  BY <1>2, <1>4, <1>5, <1>6 DEF HaltOwed
<1>18. LanesUp'
  BY <1>2, <1>4, <1>5, <1>6 DEF LanesUp, Pending
<1>19. PausedSaid'
  BY <1>2, <1>4, <1>5, <1>6 DEF PausedSaid, Pending
<1>20. PausedIdle'
  BY <1>2, <1>4, <1>5, <1>6 DEF PausedIdle, Pending
<1>. QED BY <1>7, <1>8, <1>9, <1>10, <1>11, <1>12, <1>13, <1>14, <1>15, <1>16, <1>17, <1>18, <1>19, <1>20 DEF LanesInv, Held, Owed

\* A consumer's call goes on with a new lane, which is connected unless the chain is paused.
LEMMA AddLaneKeeps ==
  ASSUME LanesAssumption, LanesInv, NEW step \in Uses, NEW c \in Consumers, MayAct, ~halted, ~closed,
         step = "connect" => consumer[c] = "new", step = "follow" => consumer[c] = "open",
         AddLane(step, c), UNCHANGED <<follow, paused, closed, consumer, home, halts>>
  PROVE  LanesInv'
<1> USE LanesParts
<1>2. /\ work \in Seq(StepType) /\ Plain(work)
      /\ \A x \in Range(work) : Names(x) /\ Meant(x) /\ x.do \notin Opening /\ x.do \notin Uses /\ x.lane \in LaneIds /\ x.do \notin Halting
  <2>1. \A x \in Range(work) : Meant(x) => x.do \notin Halting
    BY DEF Meant
  <2>. QED BY <2>1, MayActIs
<1>3. PICK l \in LaneIds :
        /\ l = nextLane /\ l \notin lanes /\ nextLane' = l + 1 /\ lanes' = lanes \cup {l} /\ nextLane' \in 1 .. MaxLanes
        /\ lanes' \subseteq 0 .. nextLane' - 1
        /\ \A n \in DOMAIN follow : follow[n].on # l /\ follow[n].on < nextLane'
        /\ lane' = [lane EXCEPT ![l] = NewLane] /\ reported' = GetStatus(lanes', lane') /\ halted' = halted
        /\ work' = (IF reported' = reported THEN <<>> ELSE <<Do("reported", l, None)>>) \o <<Do(step, l, c)>> \o work
  <2>1. nextLane \in 1 .. MaxLanes /\ nextLane < MaxLanes /\ lanes \subseteq 0 .. nextLane - 1 /\ MaxLanes \in Nat
        /\ \A n \in DOMAIN follow : follow[n].on < nextLane
    BY DEF Typed, AddLane, LanesAssumption
  <2>2. nextLane \in LaneIds /\ nextLane \notin lanes /\ nextLane + 1 \in 1 .. MaxLanes
    BY <2>1 DEF LaneIds
  <2>3. lanes \cup {nextLane} \subseteq 0 .. (nextLane + 1) - 1
    BY <2>1
  <2>4. \A n \in DOMAIN follow : follow[n].on # nextLane /\ follow[n].on < nextLane + 1
    BY <2>1 DEF LaneIds
  <2>. QED BY <2>2, <2>3, <2>4 DEF AddLane
<1>4. /\ follow' = follow /\ paused' = paused /\ closed' = closed /\ consumer' = consumer /\ home' = home /\ halts' = halts
      /\ halted' = halted /\ reported' \in Statuses
  BY <1>3 DEF GetStatus, Statuses
<1>5. /\ lane' \in [LaneIds -> LaneType] /\ \A k \in LaneIds : IsFiniteSet(lane'[k].sessions)
      /\ \A k \in LaneIds : k # l => lane'[k] = lane[k]
      /\ lane'[l].sessions = {} /\ lane'[l].up = ~paused /\ (paused => lane'[l].status = "disconnected")
  <2>1. /\ NewLane \in LaneType /\ NewLane.sessions = {} /\ NewLane.up = ~paused
        /\ paused => NewLane.status = "disconnected"
    BY DEF NewLane, LaneType, Statuses, Typed
  <2>2. lane \in [LaneIds -> LaneType] /\ \A k \in LaneIds : IsFiniteSet(lane[k].sessions)
    BY DEF Typed
  <2>3. lane' \in [LaneIds -> LaneType] /\ lane'[l] = NewLane /\ \A k \in LaneIds : k # l => lane'[k] = lane[k]
    BY <1>3, <2>1, <2>2
  <2>. QED BY <2>1, <2>2, <2>3, FS_EmptySet
<1>6. /\ work' \in Seq(StepType) /\ Ordered(work') /\ ~Doing("halt")'
      /\ \A x \in Range(work') : x \in Range(work) \/ (x.lane = l /\ (x.do = "reported" \/ (x.do = step /\ x.of = c)))
      /\ \A x \in Range(work) : x \in Range(work')
      /\ \E x \in Range(work') : x.do \in Uses /\ x.lane = l
  <2> DEFINE r == Do("reported", l, None)
             y == Do(step, l, c)
             w == <<y>> \o work
  <2>1. /\ r \in StepType /\ r.do = "reported" /\ r.lane = l /\ y \in StepType /\ y.do = step /\ y.lane = l /\ y.of = c
        /\ step # "halt"
    BY DEF Do, StepType, Opening, Uses
  <2>2. work' = (IF reported' = reported THEN <<>> ELSE <<r>>) \o <<y>> \o work
    BY <1>3
  <2> HIDE DEF r, y
  <2>3. <<y>> \in Seq(StepType) /\ Range(<<y>>) = {y} /\ <<r>> \in Seq(StepType) /\ Range(<<r>>) = {r}
    BY <2>1, OneIs
  <2>4. w \in Seq(StepType) /\ Range(w) = {y} \cup Range(work) /\ Ordered(w) /\ Ordered(<<r>> \o w)
    BY <1>2, <2>1, <2>3, OnIs, FirstIs
  <2>5. <<r>> \o w \in Seq(StepType) /\ Range(<<r>> \o w) = {r} \cup Range(w)
    BY <2>3, <2>4, OnIs
  <2>6. w # <<>> /\ Head(w) = y /\ <<r>> \o w # <<>> /\ Head(<<r>> \o w) = r
    BY <1>2, <2>1, <2>4
  <2>7. work' = w \/ work' = <<r>> \o w
    <3>1. <<r>> \o <<y>> \o work = <<r>> \o w
      BY <1>2, <2>3, ConcatAssociative
    <3>2. <<>> \o <<y>> = <<y>>
      BY <2>3
    <3>. QED BY <2>2, <3>1, <3>2
  <2> HIDE DEF w
  <2>8. work' \in Seq(StepType) /\ Ordered(work') /\ (Range(work') = {y} \cup Range(work) \/ Range(work') = {r, y} \cup Range(work))
    BY <2>4, <2>5, <2>7
  <2>9. ~Doing("halt")'
    BY <2>1, <2>6, <2>7 DEF Doing
  <2>10. y \in Range(work') /\ \A x \in Range(work) : x \in Range(work')
    BY <2>8
  <2>11. \A x \in Range(work') : x \in Range(work) \/ x = r \/ x = y
    BY <2>8
  <2>12. \A x \in Range(work') : x \in Range(work) \/ (x.lane = l /\ (x.do = "reported" \/ (x.do = step /\ x.of = c)))
    BY <2>1, <2>11
  <2>13. \E x \in Range(work') : x.do \in Uses /\ x.lane = l
    BY <2>1, <2>10
  <2>. QED BY <2>8, <2>9, <2>10, <2>12, <2>13
<1>7. /\ \A k \in LaneIds : CountFollows(k)' = CountFollows(k)
      /\ CountFollows(l) = 0 /\ 0 < FollowLimit
  <2>1. {n \in DOMAIN follow : follow[n].on = l /\ follow[n].stage \in Counted} = {}
    BY <1>3
  <2>2. CountFollows(l) = 0
    BY <2>1, FS_EmptySet DEF CountFollows
  <2>3. \A k \in LaneIds : CountFollows(k)' = CountFollows(k)
    BY <1>4 DEF CountFollows
  <2>. QED BY <2>2, <2>3 DEF LanesAssumption
<1>8. l \in lanes' /\ \A k \in lanes' : k \in lanes \/ k = l
  BY <1>3
<1>9. \A k \in lanes : k \in lanes' /\ k # l
  BY <1>3
<1>10. nextLane' \in 1 .. MaxLanes /\ lanes' \subseteq 0 .. nextLane' - 1 /\ \A n \in DOMAIN follow : follow[n].on # l /\ follow[n].on < nextLane'
  BY <1>3
<1>11. Typed'
  BY <1>2, <1>4, <1>5, <1>6, <1>7, <1>8, <1>9, <1>10 DEF Typed
<1>12. Underway'
  <2>1. SUFFICES ASSUME NEW x \in Range(work')
                 PROVE  Names(x)' /\ Meant(x)'
    BY <1>6 DEF Underway
  <2>2. step \in {"connect", "follow"}
    BY DEF Uses
  <2>3. CASE x \in Range(work)
    <3>1. Names(x) /\ Meant(x) /\ x.do \notin Opening /\ x.do \notin Uses /\ x.do \notin Halting
      BY <1>2, <2>3
    <3>. QED BY <1>4, <3>1 DEF Names, Meant, Opening, Uses, Halting
  <2>4. CASE x.lane = l /\ x.do = "reported"
    BY <1>4, <2>4 DEF Names, Meant, Uses, Halting, Pausing
  <2>5. CASE x.lane = l /\ x.do = step /\ x.of = c
    <3>1. Names(x)'
      BY <2>2, <2>5 DEF Names, Uses
    <3>2. HasRoom(x.lane)'
      BY <1>7, <2>5 DEF HasRoom
    <3>. QED BY <1>4, <1>8, <2>2, <2>5, <3>1, <3>2 DEF Meant, Uses, Halting, Pausing
  <2>. QED BY <1>6, <2>3, <2>4, <2>5
<1>13. LimitKept'
  <2>1. \A k \in lanes : k \in LaneIds /\ CountFollows(k) <= FollowLimit
    BY DEF LimitKept
  <2>. QED BY <1>7, <1>8, <2>1 DEF LimitKept, LanesAssumption
<1>14. FollowsHeld'
  <2>1. SUFFICES ASSUME NEW n \in DOMAIN follow, follow[n].stage \in Waiting
                 PROVE  \/ follow[n].by \in lane'[follow[n].on].sessions
                        \/ \E x \in Range(work') : x.do = "shut" /\ x.lane = follow[n].on
    BY <1>4 DEF FollowsHeld, Pending
  <2>2. lane'[follow[n].on] = lane[follow[n].on]
    BY <1>5, <1>10
  <2>. QED BY <1>6, <2>1, <2>2 DEF FollowsHeld, Pending
<1>15. SessionsHeld'
  <2>1. SUFFICES ASSUME NEW k \in lanes', NEW e \in lane'[k].sessions
                 PROVE  consumer[e] = "open" \/ \E x \in Range(work') : x.do = "end" /\ x.lane = k /\ x.of = e
    BY <1>4 DEF SessionsHeld
  <2>2. k \in lanes /\ k # l
    BY <1>5, <1>8, <1>9, <2>1
  <2>3. lane'[k] = lane[k]
    BY <1>5, <2>2
  <2>4. consumer[e] = "open" \/ \E x \in Range(work) : x.do = "end" /\ x.lane = k /\ x.of = e
    BY <2>1, <2>2, <2>3 DEF SessionsHeld
  <2>. QED BY <1>6, <2>4
<1>16. HomesHeld'
  <2>1. SUFFICES ASSUME NEW k \in Consumers, consumer[k] = "open"
                 PROVE  home[k] \in lanes' /\ k \in lane'[home[k]].sessions
    BY <1>4 DEF HomesHeld
  <2>2. home[k] \in lanes /\ k \in lane[home[k]].sessions
    BY <2>1 DEF HomesHeld
  <2>. QED BY <1>5, <1>9, <2>2
<1>17. ExtraHeld'
  BY <1>2, <1>4, <1>5, <1>6, <1>7, <1>8, <1>9, <1>10 DEF ExtraHeld
<1>18. GoneEmpty'
  BY <1>2, <1>4, <1>5, <1>6, <1>7, <1>8, <1>9, <1>10 DEF GoneEmpty, Pending
<1>19. ClosedRests'
  BY <1>2, <1>4, <1>5, <1>6, <1>7, <1>8, <1>9, <1>10 DEF ClosedRests
<1>20. HaltedGone'
  BY <1>2, <1>4, <1>5, <1>6, <1>7, <1>8, <1>9, <1>10 DEF HaltedGone
<1>21. HaltOwed'
  BY <1>2, <1>4, <1>5, <1>6, <1>7, <1>8, <1>9, <1>10 DEF HaltOwed
<1>22. LanesUp'
  <2>1. SUFFICES ASSUME NEW k \in lanes'
                 PROVE  IF paused THEN ~lane'[k].up \/ Pending("pause", k)' ELSE lane'[k].up
    BY <1>4 DEF LanesUp
  <2>2. Pending("pause", k) => Pending("pause", k)'
    BY <1>6 DEF Pending
  <2>3. paused \in BOOLEAN
    BY DEF Typed
  <2>4. CASE k = l
    BY <1>5, <2>3, <2>4
  <2>5. CASE k \in lanes
    BY <1>5, <1>9, <2>2, <2>5 DEF LanesUp
  <2>. QED BY <1>8, <2>1, <2>4, <2>5
<1>23. PausedSaid'
  BY <1>2, <1>4, <1>5, <1>6, <1>7, <1>8, <1>9, <1>10 DEF PausedSaid, Pending
<1>24. PausedIdle'
  <2>1. SUFFICES ASSUME paused, NEW n \in DOMAIN follow, follow[n].on \in lanes', follow[n].stage \in {"held", "released"}
                 PROVE  \/ \E x \in Range(work') : x.do = "pause" /\ x.lane = follow[n].on
                        \/ \E x \in Range(work') : x.do = "stop" /\ x.of = n
    BY <1>4 DEF PausedIdle, Pending
  <2>2. follow[n].on \in lanes
    BY <1>8, <1>10, <2>1
  <2>. QED BY <1>6, <2>1, <2>2 DEF PausedIdle, Pending
<1>. QED BY <1>11, <1>12, <1>13, <1>14, <1>15, <1>16, <1>17, <1>18, <1>19, <1>20, <1>21, <1>22, <1>23, <1>24 DEF LanesInv, Held, Owed

\* The chain is found to have halted, and the lanes are as they were but for their transports.
Halts(before) ==
  /\ ReportHalt(before) /\ nextLane' \in nextLane .. MaxLanes
  /\ lane' \in [LaneIds -> LaneType] /\ \A l \in LaneIds : lane'[l].sessions = lane[l].sessions
  /\ \A l \in LaneIds \ lanes : lane'[l] = lane[l]
  /\ paused' \in BOOLEAN /\ (paused' => paused) /\ (paused' = paused \/ work = <<>>)
  /\ UNCHANGED <<lanes, follow, closed, reported, consumer, home, halts>>

\* A lane cannot be built or opened, or ends for good: the chain is to halt.
LEMMA HaltsKeeps ==
  ASSUME LanesAssumption, LanesInv, MayAct, NEW before, Tail(before) = work, ~halted, ~closed, Halts(before)
  PROVE  LanesInv'
<1>1. /\ Typed /\ Underway /\ LimitKept /\ FollowsHeld /\ SessionsHeld /\ HomesHeld /\ ExtraHeld /\ GoneEmpty
      /\ ClosedRests /\ HaltedGone /\ HaltOwed /\ LanesUp /\ PausedSaid /\ PausedIdle
  BY DEF LanesInv, Held, Owed
<1>0. /\ lanes \in SUBSET LaneIds /\ \A l \in LaneIds : lane[l].sessions \subseteq Consumers
      /\ \A n \in DOMAIN follow : follow[n].on \in LaneIds /\ follow[n].by \in Consumers /\ follow[n].stage \in Counted \cup {"over"}
  BY <1>1, TypedIs
<1>2. /\ work \in Seq(StepType) /\ Plain(work)
      /\ \A x \in Range(work) : Names(x) /\ Meant(x) /\ x.do \notin Opening /\ x.do \notin Uses /\ x.lane \in LaneIds /\ x.do \notin Halting
  <2>1. \A x \in Range(work) : Meant(x) => x.do \notin Halting
    BY DEF Meant
  <2>. QED BY <2>1, MayActIs
<1>3. /\ lanes' = lanes /\ follow' = follow /\ closed' = closed /\ reported' = reported /\ consumer' = consumer
      /\ home' = home /\ halts' = halts /\ paused' \in BOOLEAN /\ (paused' => paused) /\ (paused' = paused \/ work = <<>>)
  BY DEF Halts
<1>4. /\ nextLane' \in 1 .. MaxLanes /\ lanes' \subseteq 0 .. nextLane' - 1 /\ \A n \in DOMAIN follow' : follow'[n].on < nextLane'
  <2>1. /\ nextLane \in 1 .. MaxLanes /\ lanes \subseteq 0 .. nextLane - 1 /\ MaxLanes \in Nat
        /\ \A n \in DOMAIN follow : follow[n].on < nextLane
    BY <1>1 DEF Typed, LanesAssumption
  <2>2. nextLane' \in nextLane .. MaxLanes
    BY DEF Halts
  <2>3. \A n \in DOMAIN follow : follow[n].on \in Nat
    BY <1>0 DEF LaneIds
  <2>4. nextLane' \in 1 .. MaxLanes /\ nextLane <= nextLane'
    BY <2>1, <2>2
  <2>5. lanes' \subseteq 0 .. nextLane' - 1
    <3>1. \A m, n \in Nat : m <= n => \A k \in 0 .. m - 1 : k \in 0 .. n - 1
      OBVIOUS
    <3>2. nextLane \in Nat /\ nextLane' \in Nat
      BY <2>1, <2>4
    <3>. QED BY <1>3, <2>1, <2>4, <3>1, <3>2
  <2>6. \A n \in DOMAIN follow' : follow'[n].on < nextLane'
    BY <1>3, <2>1, <2>3, <2>4
  <2>. QED BY <2>4, <2>5, <2>6
<1>5. /\ lane' \in [LaneIds -> LaneType] /\ \A l \in LaneIds : lane'[l].sessions = lane[l].sessions /\ IsFiniteSet(lane'[l].sessions)
      /\ \A l \in LaneIds \ lanes : lane'[l] = lane[l]
  BY <1>1 DEF Halts, Typed
<1>6. /\ halted' = TRUE /\ Doing("halt")' /\ work' \in Seq(StepType) /\ Ordered(work')
      /\ \A x \in Range(work) : x \in Range(work')
      /\ \A x \in Range(work') : x \in Range(work) \/ x.do = "halt"
  BY <1>2, ReportHaltIs DEF Halts
<1>7. \A x \in Range(work) : paused' = paused
  BY <1>3, NoneIs
<1>8. Typed'
  BY <1>0, <1>1, <1>2, <1>3, <1>4, <1>5, <1>6, <1>7 DEF Typed
<1>9. Underway'
  <2>1. SUFFICES ASSUME NEW x \in Range(work')
                 PROVE  Names(x)' /\ Meant(x)'
    BY <1>6 DEF Underway
  <2>2. CASE x \in Range(work)
    <3>1. Names(x) /\ Meant(x) /\ x.do \notin Opening /\ x.do \notin Uses /\ x.do \notin Halting
      BY <1>2, <2>2
    <3>. QED BY <1>3, <1>6, <1>7, <2>2, <3>1 DEF Names, Meant, Opening, Uses, Halting
  <2>3. CASE x.do = "halt"
    BY <1>3, <1>6, <2>3 DEF Names, Meant, Uses, Halting, Pausing
  <2>. QED BY <1>6, <2>2, <2>3
<1>10. LimitKept'
  <2>1. \A k \in lanes' : CountFollows(k)' = CountFollows(k)
    BY <1>3 DEF CountFollows
  <2>. QED BY <1>1, <1>3, <2>1 DEF LimitKept
<1>11. FollowsHeld'
  BY <1>0, <1>1, <1>2, <1>3, <1>4, <1>5, <1>6, <1>7 DEF FollowsHeld, Pending
<1>12. SessionsHeld'
  BY <1>0, <1>1, <1>2, <1>3, <1>4, <1>5, <1>6, <1>7 DEF SessionsHeld
<1>13. HomesHeld'
  BY <1>0, <1>1, <1>2, <1>3, <1>4, <1>5, <1>6, <1>7 DEF HomesHeld
<1>14. ExtraHeld'
  BY <1>0, <1>1, <1>2, <1>3, <1>4, <1>5, <1>6, <1>7 DEF ExtraHeld
<1>15. GoneEmpty'
  BY <1>0, <1>1, <1>2, <1>3, <1>4, <1>5, <1>6, <1>7 DEF GoneEmpty, Pending
<1>16. ClosedRests'
  BY <1>0, <1>1, <1>2, <1>3, <1>4, <1>5, <1>6, <1>7 DEF ClosedRests
<1>17. HaltedGone'
  BY <1>0, <1>1, <1>2, <1>3, <1>4, <1>5, <1>6, <1>7 DEF HaltedGone
<1>18. HaltOwed'
  BY <1>0, <1>1, <1>2, <1>3, <1>4, <1>5, <1>6, <1>7 DEF HaltOwed
<1>19. LanesUp'
  BY <1>0, <1>1, <1>2, <1>3, <1>4, <1>5, <1>6, <1>7 DEF LanesUp, Pending
<1>20. PausedSaid'
  BY <1>0, <1>1, <1>2, <1>3, <1>4, <1>5, <1>6, <1>7 DEF PausedSaid, Pending
<1>21. PausedIdle'
  BY <1>0, <1>1, <1>2, <1>3, <1>4, <1>5, <1>6, <1>7 DEF PausedIdle, Pending
<1>. QED BY <1>8, <1>9, <1>10, <1>11, <1>12, <1>13, <1>14, <1>15, <1>16, <1>17, <1>18, <1>19, <1>20, <1>21 DEF LanesInv, Held, Owed

\* A lane cannot be built: the call that wanted it ends with the chain's halt.
LEMMA BuildFailsKeeps ==
  ASSUME LanesAssumption, LanesInv, MayAct, ~halted, ~closed, BuildFails,
         UNCHANGED <<follow, paused, closed, consumer, home, halts>>
  PROVE  LanesInv'
<1> DEFINE before == <<None>> \o work
<1>1. work \in Seq(StepType) /\ Typed
  BY MayActIs DEF LanesInv
<1>2. Tail(before) = work
  BY <1>1
<1>3. /\ nextLane' = nextLane + 1 /\ nextLane < MaxLanes /\ ReportHalt(before)
      /\ lanes' = lanes /\ lane' = lane /\ reported' = reported
  BY DEF BuildFails
<1> HIDE DEF before
<1>4. nextLane' \in nextLane .. MaxLanes
  BY <1>1, <1>3 DEF Typed, LanesAssumption
<1>5. Halts(before)
  BY <1>1, <1>3, <1>4 DEF Halts, Typed
<1>. QED BY <1>2, <1>5, HaltsKeeps

\* A consumer connects.
LEMMA ConnectKeeps ==
  ASSUME LanesAssumption, LanesInv, NEW c \in Consumers, Connect(c)
  PROVE  LanesInv'
<1>1. /\ MayAct /\ consumer[c] = "new" /\ ~halted /\ ~closed /\ UNCHANGED <<follow, paused, closed, consumer, home, halts>>
      /\ \/ Roomy # {} /\ GoesOn("connect", PickHome, c)
         \/ AddLane("connect", c)
         \/ BuildFails
  BY Zenon DEF Connect, GoesOn
<1>2. "connect" \in Uses /\ "connect" # "follow"
  BY DEF Uses
<1>3. CASE Roomy # {} /\ GoesOn("connect", PickHome, c)
  <2>1. PickHome \in Roomy
    BY <1>3, PicksIs DEF LanesInv
  <2>. QED BY <1>1, <1>2, <1>3, <2>1, PickKeeps
<1>4. CASE AddLane("connect", c)
  BY <1>1, <1>2, <1>4, AddLaneKeeps
<1>5. CASE BuildFails
  BY <1>1, <1>5, BuildFailsKeeps
<1>. QED BY <1>1, <1>3, <1>4, <1>5

\* A consumer follows.
LEMMA FollowKeeps ==
  ASSUME LanesAssumption, LanesInv, NEW c \in Consumers, Follow(c)
  PROVE  LanesInv'
<1>1. /\ MayAct /\ consumer[c] = "open" /\ ~halted /\ home[c] \in lanes /\ UNCHANGED <<follow, paused, closed, consumer, home, halts>>
      /\ \/ Roomy # {} /\ GoesOn("follow", PickFollow(c), c)
         \/ AddLane("follow", c)
         \/ BuildFails
  BY Zenon DEF Follow, GoesOn
<1>2. "follow" \in Uses /\ "follow" # "connect"
  BY DEF Uses
<1>3. ~closed
  BY <1>1 DEF LanesInv, Owed, ClosedRests
<1>4. CASE Roomy # {} /\ GoesOn("follow", PickFollow(c), c)
  <2>1. PickFollow(c) \in Roomy
    BY <1>1, <1>4, PicksIs DEF LanesInv
  <2>. QED BY <1>1, <1>2, <1>3, <1>4, <2>1, PickKeeps
<1>5. CASE AddLane("follow", c)
  BY <1>1, <1>2, <1>3, <1>5, AddLaneKeeps
<1>6. CASE BuildFails
  BY <1>1, <1>3, <1>6, BuildFailsKeeps
<1>. QED BY <1>1, <1>4, <1>5, <1>6

\* A follow is answered, released or over, and no lane gets more to run.
FollowChanges ==
  /\ follow' \in Seq(FollowType) /\ DOMAIN follow' = DOMAIN follow
  /\ \A n \in DOMAIN follow :
       /\ follow'[n].on = follow[n].on /\ follow'[n].by = follow[n].by
       /\ follow'[n].stage \in Counted => follow[n].stage \in Counted
       /\ follow'[n].stage \in Waiting => follow[n].stage \in Waiting
       /\ paused /\ follow[n].on \in lanes /\ follow'[n].stage \in {"held", "released"} => follow[n].stage \in {"held", "released"}
  /\ UNCHANGED <<lanes, nextLane, lane, paused, halted, closed, reported, consumer, home, halts, work>>

\* No lane runs more for it, and what is known of each follow still holds.
LEMMA FollowChangesKeeps ==
  ASSUME LanesAssumption, LanesInv, FollowChanges
  PROVE  LanesInv'
<1> USE LanesParts
<1>2. /\ lanes' = lanes /\ nextLane' = nextLane /\ lane' = lane /\ paused' = paused /\ halted' = halted /\ work' = work
      /\ closed' = closed /\ reported' = reported /\ consumer' = consumer /\ home' = home /\ halts' = halts
  BY DEF FollowChanges
<1>3. /\ follow' \in Seq(FollowType) /\ DOMAIN follow' = DOMAIN follow
      /\ \A n \in DOMAIN follow : /\ follow'[n].on = follow[n].on /\ follow'[n].by = follow[n].by
                                  /\ follow'[n].stage \in Counted => follow[n].stage \in Counted
                                  /\ follow'[n].stage \in Waiting => follow[n].stage \in Waiting
  BY DEF FollowChanges
<1>4. \A n \in DOMAIN follow : paused /\ follow[n].on \in lanes /\ follow'[n].stage \in {"held", "released"} =>
                                 follow[n].stage \in {"held", "released"}
  BY DEF FollowChanges
<1>5. Doing("halt")' <=> Doing("halt")
  BY <1>2 DEF Doing
<1>6. Typed'
  BY <1>2, <1>3, <1>4, <1>5 DEF Typed
<1>7. Underway'
  <2>1. \A x \in Range(work) : Names(x)' <=> Names(x)
    BY <1>2, <1>3 DEF Names
  <2>2. \A k \in lanes : CountFollows(k)' <= CountFollows(k) /\ CountFollows(k)' \in Nat /\ CountFollows(k) \in Nat
    BY <1>3, CountFewer DEF Typed
  <2>3. ASSUME NEW x \in Range(work), Meant(x)
        PROVE  Meant(x)'
    <3>1. x.do = "follow" => HasRoom(x.lane)'
      BY <2>2, <2>3 DEF Meant, HasRoom, Uses, LanesAssumption
    <3>. QED BY <1>2, <2>3, <3>1 DEF Meant
  <2>4. Ordered(work)' <=> Ordered(work)
    BY <1>2 DEF Ordered
  <2>. QED BY <1>2, <2>1, <2>3, <2>4 DEF Underway
<1>8. LimitKept'
  <2>1. SUFFICES ASSUME NEW k \in lanes'
                 PROVE  (CountFollows(k) <= FollowLimit)'
    BY DEF LimitKept
  <2>2. CountFollows(k)' <= CountFollows(k) /\ CountFollows(k)' \in Nat /\ CountFollows(k) \in Nat
    BY <1>3, CountFewer DEF Typed, Counted
  <2>. QED BY <1>2, <2>2 DEF LimitKept, LanesAssumption
<1>9. FollowsHeld'
  BY <1>2, <1>3, <1>4, <1>5 DEF FollowsHeld, Pending
<1>10. SessionsHeld'
  BY <1>2, <1>3, <1>4, <1>5 DEF SessionsHeld
<1>11. HomesHeld'
  BY <1>2, <1>3, <1>4, <1>5 DEF HomesHeld
<1>12. ExtraHeld'
  BY <1>2, <1>3, <1>4, <1>5 DEF ExtraHeld
<1>13. GoneEmpty'
  BY <1>2, <1>3, <1>4, <1>5 DEF GoneEmpty, Pending
<1>14. ClosedRests'
  BY <1>2, <1>3, <1>4, <1>5 DEF ClosedRests
<1>15. HaltedGone'
  BY <1>2, <1>3, <1>4, <1>5 DEF HaltedGone
<1>16. HaltOwed'
  BY <1>2, <1>3, <1>4, <1>5 DEF HaltOwed
<1>17. LanesUp'
  BY <1>2, <1>3, <1>4, <1>5 DEF LanesUp, Pending
<1>18. PausedSaid'
  BY <1>2, <1>3, <1>4, <1>5 DEF PausedSaid, Pending
<1>19. PausedIdle'
  BY <1>2, <1>3, <1>4, <1>5 DEF PausedIdle, Pending
<1>. QED BY <1>6, <1>7, <1>8, <1>9, <1>10, <1>11, <1>12, <1>13, <1>14, <1>15, <1>16, <1>17, <1>18, <1>19 DEF LanesInv, Held, Owed

\* A consumer drops a follow.
LEMMA UnfollowKeeps ==
  ASSUME LanesAssumption, LanesInv, NEW n \in DOMAIN follow, Unfollow(n)
  PROVE  LanesInv'
<1>1. Typed
  BY DEF LanesInv
<1>2. follow' = Going(n, "released") /\ follow[n].stage = "held"
  BY DEF Unfollow, Going
<1>3. UNCHANGED <<lanes, nextLane, lane, paused, halted, closed, reported, consumer, home, halts, work>>
  BY Zenon DEF Unfollow
<1>4. "released" \in Counted /\ "released" \notin Waiting /\ "held" \in Counted
  BY DEF Counted, Waiting
<1>5. /\ follow' \in Seq(FollowType) /\ DOMAIN follow' = DOMAIN follow
      /\ follow'[n].on = follow[n].on /\ follow'[n].by = follow[n].by /\ follow'[n].stage = "released"
      /\ \A m \in DOMAIN follow : m # n => follow'[m] = follow[m]
  BY <1>1, <1>2, <1>4, GoingIs
<1>6. FollowChanges
  BY <1>2, <1>3, <1>4, <1>5 DEF FollowChanges
<1>. QED BY <1>6, FollowChangesKeeps

\* A node answers only on a lane whose transport is open, so not on one that is paused.
LEMMA NodeAnswersKeeps ==
  ASSUME LanesAssumption, LanesInv, NEW n \in DOMAIN follow, NEW stage \in Counted \cup {"over"}, NodeAnswers(n, stage)
  PROVE  LanesInv'
<1>1. Typed /\ LanesUp /\ HaltedGone
  BY DEF LanesInv, Owed
<1>2. /\ work = <<>> /\ lane[follow[n].on].up /\ follow[n].stage \in Counted /\ stage \in Answered[follow[n].stage]
      /\ follow' = Going(n, stage)
  BY DEF NodeAnswers, Quiet, Going
<1>3. UNCHANGED <<lanes, nextLane, lane, paused, halted, closed, reported, consumer, home, halts, work>>
  BY Zenon DEF NodeAnswers
<1>4. stage \in Waiting => follow[n].stage \in Waiting
  BY <1>2 DEF Answered, Counted, Waiting
<1>5. /\ follow' \in Seq(FollowType) /\ DOMAIN follow' = DOMAIN follow
      /\ follow'[n].on = follow[n].on /\ follow'[n].by = follow[n].by /\ follow'[n].stage = stage
      /\ \A m \in DOMAIN follow : m # n => follow'[m] = follow[m]
  BY <1>1, <1>2, GoingIs
<1>6. ~(paused /\ follow[n].on \in lanes)
  BY <1>1, <1>2, NoneIs DEF LanesUp, HaltedGone, Doing, Pending
<1>7. FollowChanges
  BY <1>2, <1>3, <1>4, <1>5, <1>6 DEF FollowChanges
<1>. QED BY <1>7, FollowChangesKeeps

\* A paused lane's follow is stopped.
LEMMA TellStopKeeps ==
  ASSUME LanesAssumption, LanesInv, TellStop
  PROVE  LanesInv'
<1> USE LanesParts
<1>2. /\ Head(work).do = "stop" /\ Head(work).lane \in LaneIds /\ Names(Head(work)) /\ Meant(Head(work)) /\ work' = Tail(work)
      /\ work' \in Seq(StepType) /\ Plain(work') /\ Ordered(work') /\ ~Doing("halt") /\ ~Doing("halt")'
      /\ \A x \in Range(work) : (x \in Range(work') \/ x = Head(work)) /\ x.do \notin Uses
      /\ \A x \in Range(work') : x \in Range(work) /\ Names(x) /\ Meant(x) /\ x.do \notin Opening /\ x.lane \in LaneIds
  <2>1. Doing("stop") /\ work' = Tail(work)
    BY Zenon DEF TellStop
  <2>2. "stop" \notin Opening
    BY DEF Opening, Uses
  <2>3. Head(work).lane \in LaneIds /\ Names(Head(work)) /\ Meant(Head(work))
    BY <2>1, <2>2, StepIs
  <2>. QED BY <2>1, <2>2, <2>3, EndsIs DEF Doing
<1>3. /\ lanes' = lanes /\ nextLane' = nextLane /\ lane' = lane /\ paused' = paused /\ halted' = halted
      /\ closed' = closed /\ reported' = reported /\ consumer' = consumer /\ home' = home /\ halts' = halts
  BY Zenon DEF TellStop
<1>4. PICK m \in DOMAIN follow : m = Head(work).of /\ follow' = Going(m, "over")
  BY <1>2 DEF Names, TellStop, Going
<1>5. /\ follow' \in Seq(FollowType) /\ DOMAIN follow' = DOMAIN follow
      /\ follow'[m].stage = "over"
      /\ \A n \in DOMAIN follow : /\ follow'[n].on = follow[n].on /\ follow'[n].by = follow[n].by
                                  /\ follow'[n].stage = follow[n].stage \/ follow'[n].stage = "over"
  <2>1. "over" \in Counted \cup {"over"}
    OBVIOUS
  <2>. QED BY <1>4, <2>1, GoingIs
<1>6. "over" \notin Counted /\ "over" \notin Waiting
  BY DEF Counted, Waiting
<1>7. Typed'
  BY <1>2, <1>3, <1>4, <1>5, <1>6 DEF Typed
<1>8. Underway'
  <2>1. SUFFICES ASSUME NEW x \in Range(work')
                 PROVE  Names(x)' /\ Meant(x)'
    BY <1>2 DEF Underway
  <2>. QED BY <1>2, <1>3, <1>5, <2>1 DEF Names, Meant, Opening, Uses, Halting, Pausing
<1>9. LimitKept'
  <2>1. SUFFICES ASSUME NEW k \in lanes'
                 PROVE  (CountFollows(k) <= FollowLimit)'
    BY DEF LimitKept
  <2>2. CountFollows(k)' <= CountFollows(k) /\ CountFollows(k)' \in Nat /\ CountFollows(k) \in Nat
    BY <1>5, <1>6, CountFewer DEF Typed, Counted
  <2>. QED BY <1>3, <2>2 DEF LimitKept, LanesAssumption
<1>10. FollowsHeld'
  BY <1>2, <1>3, <1>4, <1>5, <1>6 DEF FollowsHeld, Pending
<1>11. SessionsHeld'
  BY <1>2, <1>3, <1>4, <1>5, <1>6 DEF SessionsHeld
<1>12. HomesHeld'
  BY <1>2, <1>3, <1>4, <1>5, <1>6 DEF HomesHeld
<1>13. ExtraHeld'
  BY <1>2, <1>3, <1>4, <1>5, <1>6 DEF ExtraHeld
<1>14. GoneEmpty'
  <2>1. \A k \in LaneIds : Pending("haltLane", k) \/ Pending("shut", k) => (Pending("haltLane", k) \/ Pending("shut", k))'
    BY <1>2 DEF Pending
  <2>2. \A n \in DOMAIN follow' : n \in DOMAIN follow /\ follow'[n].on = follow[n].on /\ (follow'[n].stage \in Counted => follow[n].stage \in Counted)
    BY <1>5, <1>6
  <2>. QED BY <1>3, <2>1, <2>2 DEF GoneEmpty
<1>15. ClosedRests'
  BY <1>2, <1>3, <1>4, <1>5, <1>6 DEF ClosedRests
<1>16. HaltedGone'
  BY <1>2, <1>3, <1>4, <1>5, <1>6 DEF HaltedGone
<1>17. HaltOwed'
  BY <1>2, <1>3, <1>4, <1>5, <1>6 DEF HaltOwed
<1>18. LanesUp'
  BY <1>2, <1>3, <1>4, <1>5, <1>6 DEF LanesUp, Pending
<1>19. PausedSaid'
  BY <1>2, <1>3, <1>4, <1>5, <1>6 DEF PausedSaid, Pending
<1>20. PausedIdle'
  BY <1>2, <1>3, <1>4, <1>5, <1>6 DEF PausedIdle, Pending
<1>. QED BY <1>7, <1>8, <1>9, <1>10, <1>11, <1>12, <1>13, <1>14, <1>15, <1>16, <1>17, <1>18, <1>19, <1>20 DEF LanesInv, Held, Owed

\* The chain is paused: every lane is to be paused, and then to be set disconnected.
LEMMA PauseKeeps ==
  ASSUME LanesAssumption, LanesInv, Pause
  PROVE  LanesInv'
<1> USE LanesParts
<1>2. /\ work = <<>> /\ ~paused /\ paused' = TRUE /\ ~halted /\ ~closed /\ ~Doing("halt") /\ lanes' = lanes /\ nextLane' = nextLane /\ lane' = lane
      /\ halted' = halted /\ closed' = closed /\ reported' = reported /\ consumer' = consumer /\ home' = home /\ halts' = halts
      /\ follow' = follow /\ work' = OnEach(lanes, "pause") \o OnEach(lanes, "paused")
      /\ \A x \in Range(work) : FALSE
  BY NoneIs DEF Pause, Quiet, Doing
<1>3. /\ work' \in Seq(StepType) /\ Ordered(work') /\ ~Doing("halt")'
      /\ \A x \in Range(work') : x.do \in {"pause", "paused"} /\ x.lane \in lanes
      /\ \A l \in lanes : \E x \in Range(work') : x.do = "pause" /\ x.lane = l
      /\ \A l \in lanes : \E x \in Range(work') : x.do = "paused" /\ x.lane = l
  <2> DEFINE a == OnEach(lanes, "pause")
             b == OnEach(lanes, "paused")
  <2>1. "pause" \in Halting \cup Pausing /\ "paused" \in Halting \cup Pausing
    BY DEF Pausing
  <2>2. /\ a \in Seq(StepType) /\ Plain(a)
        /\ \A x \in Range(a) : x.do = "pause" /\ x.lane \in lanes
        /\ \A l \in lanes : \E x \in Range(a) : x.do = "pause" /\ x.lane = l
    BY <2>1, OnEachIs
  <2>3. /\ b \in Seq(StepType) /\ Plain(b)
        /\ \A x \in Range(b) : x.do = "paused" /\ x.lane \in lanes
        /\ \A l \in lanes : \E x \in Range(b) : x.do = "paused" /\ x.lane = l
    BY <2>1, OnEachIs
  <2>4. work' = a \o b
    BY <1>2
  <2> HIDE DEF a, b
  <2>5. work' \in Seq(StepType) /\ Range(work') = Range(a) \cup Range(b)
    BY <2>2, <2>3, <2>4, OnIs
  <2>6. Plain(work') /\ Ordered(work')
    BY <2>2, <2>3, <2>4, PlainIs
  <2>. QED BY <2>2, <2>3, <2>5, <2>6, NoHaltIsNext DEF Doing
<1>4. /\ paused' = TRUE /\ ~halted /\ ~closed /\ ~Doing("halt") /\ lanes' = lanes /\ nextLane' = nextLane /\ lane' = lane
      /\ halted' = halted /\ closed' = closed /\ reported' = reported /\ consumer' = consumer /\ home' = home /\ halts' = halts
      /\ follow' = follow /\ \A x \in Range(work) : FALSE
  BY <1>2
<1>5. Typed'
  BY <1>3, <1>4 DEF Typed
<1>6. Underway'
  <2>1. SUFFICES ASSUME NEW x \in Range(work')
                 PROVE  Names(x)' /\ Meant(x)'
    BY <1>3 DEF Underway
  <2>. QED BY <1>3, <1>4, <2>1 DEF Names, Meant, Opening, Uses, Halting, Pausing
<1>7. LimitKept'
  <2>1. \A k \in lanes' : CountFollows(k)' = CountFollows(k)
    BY <1>4 DEF CountFollows
  <2>. QED BY <1>4, <2>1 DEF LimitKept
<1>8. FollowsHeld'
  BY <1>3, <1>4 DEF FollowsHeld, Pending
<1>9. SessionsHeld'
  BY <1>3, <1>4 DEF SessionsHeld
<1>10. HomesHeld'
  BY <1>3, <1>4 DEF HomesHeld
<1>11. ExtraHeld'
  BY <1>3, <1>4 DEF ExtraHeld
<1>12. GoneEmpty'
  BY <1>3, <1>4 DEF GoneEmpty, Pending
<1>13. ClosedRests'
  BY <1>3, <1>4 DEF ClosedRests
<1>14. HaltedGone'
  BY <1>3, <1>4 DEF HaltedGone
<1>15. HaltOwed'
  BY <1>3, <1>4 DEF HaltOwed
<1>16. LanesUp'
  BY <1>3, <1>4 DEF LanesUp, Pending
<1>17. PausedSaid'
  BY <1>3, <1>4 DEF PausedSaid, Pending
<1>18. PausedIdle'
  BY <1>3, <1>4 DEF PausedIdle, Pending
<1>. QED BY <1>5, <1>6, <1>7, <1>8, <1>9, <1>10, <1>11, <1>12, <1>13, <1>14, <1>15, <1>16, <1>17, <1>18 DEF LanesInv, Held, Owed

\* What waits to be released on a lane whose connection closes is answered.
Answering(l) ==
  [n \in DOMAIN follow |-> IF follow[n].on = l /\ follow[n].stage = "released" THEN [follow[n] EXCEPT !.stage = "over"] ELSE follow[n]]

\* What Answering changes, and what it keeps.
LEMMA AnsweringIs ==
  ASSUME Typed, NEW l, NEW d, d = Answering(l)
  PROVE  /\ d \in Seq(FollowType) /\ DOMAIN d = DOMAIN follow
         /\ \A n \in DOMAIN follow : /\ d[n].on = follow[n].on /\ d[n].by = follow[n].by
                                     /\ d[n].stage = follow[n].stage \/ d[n].stage = "over"
                                     /\ follow[n].on = l => d[n].stage # "released"
<1>1. DOMAIN follow = 1 .. Len(follow) /\ Len(follow) \in Nat /\ d = [n \in 1 .. Len(follow) |-> d[n]]
  BY DEF Typed, Answering
<1>2. ASSUME NEW n \in DOMAIN follow
      PROVE  /\ d[n] \in FollowType /\ d[n].on = follow[n].on /\ d[n].by = follow[n].by
             /\ d[n].stage = follow[n].stage \/ d[n].stage = "over"
             /\ follow[n].on = l => d[n].stage # "released"
  <2> DEFINE g == [follow[n] EXCEPT !.stage = "over"]
  <2>1. follow[n] \in FollowType /\ "over" \in Counted \cup {"over"}
    BY DEF Typed
  <2>2. g \in FollowType /\ g.on = follow[n].on /\ g.by = follow[n].by /\ g.stage = "over"
    BY <2>1, StageIs
  <2>3. d[n] = IF follow[n].on = l /\ follow[n].stage = "released" THEN g ELSE follow[n]
    BY DEF Answering
  <2> HIDE DEF g
  <2>. QED BY <2>1, <2>2, <2>3
<1>3. d \in Seq(FollowType)
  BY <1>1, <1>2
<1>. QED BY <1>1, <1>2, <1>3

\* A lane's connection closes: its follows are to be stopped.
LEMMA PauseLaneKeeps ==
  ASSUME LanesAssumption, LanesInv, PauseLane
  PROVE  LanesInv'
<1>1. /\ Typed /\ Underway /\ LimitKept /\ FollowsHeld /\ SessionsHeld /\ HomesHeld /\ ExtraHeld /\ GoneEmpty
      /\ ClosedRests /\ HaltedGone /\ HaltOwed /\ LanesUp /\ PausedSaid /\ PausedIdle
  BY DEF LanesInv, Held, Owed
<1>0. /\ lanes \in SUBSET LaneIds /\ \A l \in LaneIds : lane[l].sessions \subseteq Consumers
      /\ \A n \in DOMAIN follow : follow[n].on \in LaneIds /\ follow[n].by \in Consumers /\ follow[n].stage \in Counted \cup {"over"}
  BY <1>1, TypedIs
<1>2. PICK l \in LaneIds :
        /\ l = Head(work).lane /\ Head(work).do = "pause" /\ ~Doing("halt") /\ Meant(Head(work)) /\ ~closed
        /\ Tail(work) \in Seq(StepType) /\ Plain(Tail(work))
        /\ \A x \in Range(work) : (x \in Range(Tail(work)) \/ x = Head(work)) /\ x.do \notin Uses
        /\ \A x \in Range(Tail(work)) : x \in Range(work) /\ Names(x) /\ Meant(x) /\ x.do \notin Opening /\ x.lane \in LaneIds
  <2>1. Doing("pause")
    BY Zenon DEF PauseLane
  <2>2. "pause" \notin Opening
    BY DEF Opening, Uses
  <2>3. ~closed
    BY <1>1, <2>1, <2>2, StepIs DEF ClosedRests
  <2>. QED BY <2>1, <2>2, <2>3, StepIs
<1>3. /\ lanes' = lanes /\ nextLane' = nextLane /\ paused' = paused /\ halted' = halted /\ paused
      /\ closed' = closed /\ reported' = reported /\ consumer' = consumer /\ home' = home /\ halts' = halts
  BY <1>2 DEF PauseLane, Meant, Pausing
<1>4. /\ lane' \in [LaneIds -> LaneType] /\ \A k \in LaneIds : IsFiniteSet(lane'[k].sessions)
      /\ \A k \in LaneIds : lane'[k].sessions = lane[k].sessions /\ lane'[k].status = lane[k].status
      /\ ~lane'[l].up
      /\ \A k \in LaneIds : k # l => lane'[k] = lane[k]
  <2>1. lane' = [lane EXCEPT ![l].up = FALSE]
    BY <1>2 DEF PauseLane
  <2>2. lane' = Lowered({l})
    BY <1>1, <2>1 DEF Lowered, Typed
  <2>3. {l} \in SUBSET LaneIds
    OBVIOUS
  <2>4. /\ lane' \in [LaneIds -> LaneType]
        /\ \A k \in LaneIds : lane'[k].sessions = lane[k].sessions /\ lane'[k].status = lane[k].status
        /\ \A k \in {l} : ~lane'[k].up
        /\ \A k \in LaneIds \ {l} : lane'[k] = lane[k]
    BY <1>1, <2>2, <2>3, LoweredIs
  <2>. QED BY <1>1, <2>4 DEF Typed
<1>5. /\ follow' \in Seq(FollowType) /\ DOMAIN follow' = DOMAIN follow
      /\ \A n \in DOMAIN follow : /\ follow'[n].on = follow[n].on /\ follow'[n].by = follow[n].by
                                  /\ follow'[n].stage = follow[n].stage \/ follow'[n].stage = "over"
                                  /\ follow[n].on = l => follow'[n].stage # "released"
  <2>1. follow' = Answering(l)
    BY <1>2 DEF PauseLane, Answering
  <2>. QED BY <1>1, <2>1, AnsweringIs
<1>6. /\ work' \in Seq(StepType) /\ Plain(work') /\ Ordered(work') /\ ~Doing("halt")'
      /\ \A x \in Range(work') : x \in Range(Tail(work)) \/ (x.do = "stop" /\ x.lane = l /\ x.of \in DOMAIN follow)
      /\ \A x \in Range(Tail(work)) : x \in Range(work')
      /\ \A n \in DOMAIN follow : follow[n].on = l /\ follow[n].stage = "held" => \E x \in Range(work') : x.do = "stop" /\ x.of = n
  <2> DEFINE held == {n \in DOMAIN follow : follow[n].on = l /\ follow[n].stage = "held"}
             a == Ascending(held)
             stops == [i \in 1 .. Cardinality(held) |-> Do("stop", l, a[i])]
  <2>1. held \in SUBSET Nat /\ held \subseteq DOMAIN follow /\ IsFiniteSet(held)
    <3>1. DOMAIN follow = 1 .. Len(follow) /\ Len(follow) \in Nat
      BY <1>1 DEF Typed
    <3>2. IsFiniteSet(DOMAIN follow)
      <4>1. IsFiniteSet(1 .. Len(follow))
        BY <3>1, FS_Interval
      <4>. QED BY <3>1, <4>1
    <3>3. held \in SUBSET (DOMAIN follow) /\ DOMAIN follow \subseteq Nat
      BY <3>1
    <3>4. IsFiniteSet(held)
      BY <3>2, <3>3, FS_Subset
    <3>. QED BY <3>3, <3>4
  <2>2. work' = stops \o Tail(work)
    BY <1>2 DEF PauseLane
  <2>3. \A n \in held : Do("stop", l, n) \in StepType /\ Do("stop", l, n).do = "stop" /\ Do("stop", l, n).lane = l /\ Do("stop", l, n).of = n
    <3>1. "stop" \in Opening \cup Halting \cup Pausing \cup {"end"}
      BY DEF Pausing
    <3>. QED BY <1>2, <2>1, <3>1 DEF Do, StepType
  <2>4. PICK k \in Nat : k = Cardinality(held)
    BY <2>1, AscendingIs
  <2>5. a \in [1 .. k -> held] /\ \A n \in held : \E i \in 1 .. k : a[i] = n
    BY <2>1, <2>4, AscendingIs
  <2>6. stops = [i \in 1 .. k |-> Do("stop", l, a[i])]
    BY <2>4
  <2>7. \A n \in DOMAIN follow : follow[n].on = l /\ follow[n].stage = "held" => n \in held
    OBVIOUS
  <2> HIDE DEF a, held, stops
  <2>8. stops \in Seq(StepType)
    BY <2>3, <2>5, <2>6
  <2>9. Range(stops) = {Do("stop", l, n) : n \in held}
    BY <2>5, <2>6 DEF Range
  <2>10. Plain(stops)
    BY <2>3, <2>9 DEF Plain, Opening, Uses
  <2>11. work' \in Seq(StepType) /\ Range(work') = Range(stops) \cup Range(Tail(work))
    BY <1>2, <2>2, <2>8, OnIs
  <2>12. Plain(work') /\ Ordered(work')
    BY <1>2, <2>2, <2>8, <2>10, PlainIs
  <2>13. \A x \in Range(stops) : x.do = "stop" /\ x.lane = l /\ x.of \in DOMAIN follow
    BY <2>1, <2>3, <2>9
  <2>14. \A n \in held : \E x \in Range(stops) : x.do = "stop" /\ x.of = n
    BY <2>3, <2>9
  <2>. QED BY <2>7, <2>11, <2>12, <2>13, <2>14, NoHaltIsNext DEF Doing
<1>7. "over" \notin Counted /\ "over" \notin Waiting
  BY DEF Counted, Waiting
<1>8. Typed'
  BY <1>0, <1>1, <1>2, <1>3, <1>4, <1>5, <1>6, <1>7 DEF Typed
<1>9. Underway'
  <2>1. SUFFICES ASSUME NEW x \in Range(work')
                 PROVE  Names(x)' /\ Meant(x)'
    BY <1>6 DEF Underway
  <2>2. CASE x \in Range(Tail(work))
    BY <1>2, <1>3, <1>4, <1>5, <2>2 DEF Names, Meant, Opening, Uses, Halting
  <2>3. CASE x.do = "stop" /\ x.lane = l /\ x.of \in DOMAIN follow
    BY <1>3, <1>5, <2>3 DEF Names, Meant, Uses, Halting, Pausing
  <2>. QED BY <1>6, <2>2, <2>3
<1>10. LimitKept'
  <2>1. SUFFICES ASSUME NEW k \in lanes'
                 PROVE  (CountFollows(k) <= FollowLimit)'
    BY DEF LimitKept
  <2>2. CountFollows(k)' <= CountFollows(k) /\ CountFollows(k)' \in Nat /\ CountFollows(k) \in Nat
    BY <1>1, <1>5, <1>7, CountFewer DEF Typed, Counted
  <2>. QED BY <1>1, <1>3, <2>2 DEF LimitKept, LanesAssumption
<1>11. FollowsHeld'
  <2>1. \A k : Pending("shut", k) => Pending("shut", k)'
    BY <1>2, <1>6 DEF Pending
  <2>2. \A n \in DOMAIN follow' : /\ n \in DOMAIN follow /\ follow'[n].on = follow[n].on /\ follow'[n].by = follow[n].by
                                  /\ follow'[n].stage \in Waiting => follow[n].stage \in Waiting
                                  /\ lane'[follow'[n].on].sessions = lane[follow[n].on].sessions
    BY <1>0, <1>4, <1>5, <1>7
  <2>. QED BY <1>1, <2>1, <2>2 DEF FollowsHeld
<1>12. SessionsHeld'
  BY <1>0, <1>1, <1>2, <1>3, <1>4, <1>5, <1>6, <1>7 DEF SessionsHeld
<1>13. HomesHeld'
  BY <1>0, <1>1, <1>2, <1>3, <1>4, <1>5, <1>6, <1>7 DEF HomesHeld
<1>14. ExtraHeld'
  BY <1>0, <1>1, <1>2, <1>3, <1>4, <1>5, <1>6, <1>7 DEF ExtraHeld
<1>15. GoneEmpty'
  <2>1. \A k \in LaneIds : Pending("haltLane", k) \/ Pending("shut", k) => (Pending("haltLane", k) \/ Pending("shut", k))'
    BY <1>2, <1>6 DEF Pending
  <2>2. \A n \in DOMAIN follow' : n \in DOMAIN follow /\ follow'[n].on = follow[n].on /\ (follow'[n].stage \in Counted => follow[n].stage \in Counted)
    BY <1>5, <1>7
  <2>3. \A k \in LaneIds : lane'[k].sessions = lane[k].sessions /\ (~lane[k].up => ~lane'[k].up)
    BY <1>4
  <2>. QED BY <1>1, <1>3, <2>1, <2>2, <2>3 DEF GoneEmpty
<1>16. ClosedRests'
  BY <1>0, <1>1, <1>2, <1>3, <1>4, <1>5, <1>6, <1>7 DEF ClosedRests
<1>17. HaltedGone'
  BY <1>0, <1>1, <1>2, <1>3, <1>4, <1>5, <1>6, <1>7 DEF HaltedGone
<1>18. HaltOwed'
  <2>1. \A c \in Consumers : /\ (\E x \in Range(work) : x.do = "haltLane" /\ c \in lane[x.lane].sessions) =>
                                  \E x \in Range(work') : x.do = "haltLane" /\ c \in lane'[x.lane].sessions
                             /\ (\E x \in Range(work) : x.do = "tell" /\ x.of = c) => \E x \in Range(work') : x.do = "tell" /\ x.of = c
    BY <1>2, <1>4, <1>6
  <2>2. ~Doing("halt")
    BY <1>2
  <2>. QED BY <1>1, <1>3, <2>1, <2>2 DEF HaltOwed
<1>19. LanesUp'
  BY <1>0, <1>1, <1>2, <1>3, <1>4, <1>5, <1>6, <1>7 DEF LanesUp, Pending
<1>20. PausedSaid'
  BY <1>0, <1>1, <1>2, <1>3, <1>4, <1>5, <1>6, <1>7 DEF PausedSaid, Pending
<1>21. PausedIdle'
  <2>1. SUFFICES ASSUME NEW n \in DOMAIN follow, follow[n].on \in lanes, follow'[n].stage \in {"held", "released"}
                 PROVE  \/ \E x \in Range(work') : x.do = "pause" /\ x.lane = follow[n].on
                        \/ \E x \in Range(work') : x.do = "stop" /\ x.of = n
    BY <1>3, <1>5 DEF PausedIdle, Pending
  <2>2. follow'[n].stage = follow[n].stage
    BY <1>5, <2>1
  <2>3. CASE follow[n].on = l
    BY <1>5, <1>6, <2>1, <2>2, <2>3
  <2>4. CASE follow[n].on # l
    BY <1>1, <1>2, <1>3, <1>6, <2>1, <2>2, <2>4 DEF PausedIdle, Pending
  <2>. QED BY <2>3, <2>4
<1>. QED BY <1>8, <1>9, <1>10, <1>11, <1>12, <1>13, <1>14, <1>15, <1>16, <1>17, <1>18, <1>19, <1>20, <1>21 DEF LanesInv, Held, Owed

\* A paused lane says that it is disconnected.
LEMMA LanePausedKeeps ==
  ASSUME LanesAssumption, LanesInv, LanePaused
  PROVE  LanesInv'
<1> USE LanesParts
<1>2. /\ Head(work).do = "paused" /\ Head(work).lane \in LaneIds /\ Names(Head(work)) /\ Meant(Head(work)) /\ work' = Tail(work)
      /\ work' \in Seq(StepType) /\ Plain(work') /\ Ordered(work') /\ ~Doing("halt") /\ ~Doing("halt")'
      /\ \A x \in Range(work) : (x \in Range(work') \/ x = Head(work)) /\ x.do \notin Uses
      /\ \A x \in Range(work') : x \in Range(work) /\ Names(x) /\ Meant(x) /\ x.do \notin Opening /\ x.lane \in LaneIds
  <2>1. Doing("paused") /\ work' = Tail(work)
    BY Zenon DEF LanePaused
  <2>2. "paused" \notin Opening
    BY DEF Opening, Uses
  <2>3. Head(work).lane \in LaneIds /\ Names(Head(work)) /\ Meant(Head(work))
    BY <2>1, <2>2, StepIs
  <2>. QED BY <2>1, <2>2, <2>3, EndsIs DEF Doing
<1>3. /\ lanes' = lanes /\ nextLane' = nextLane /\ follow' = follow /\ paused' = paused /\ halted' = halted
      /\ closed' = closed /\ consumer' = consumer /\ home' = home /\ halts' = halts /\ reported' \in Statuses
  <2>1. GetStatus(lanes, lane') \in Statuses /\ reported \in Statuses
    BY DEF GetStatus, Statuses, Typed
  <2>. QED BY <2>1 DEF LanePaused
<1>4. PICK l \in LaneIds : l = Head(work).lane
  BY <1>2
<1>5. /\ lane' \in [LaneIds -> LaneType] /\ \A k \in LaneIds : IsFiniteSet(lane'[k].sessions)
      /\ \A k \in LaneIds : lane'[k].sessions = lane[k].sessions /\ lane'[k].up = lane[k].up
      /\ l \in lanes => lane'[l].status = "disconnected"
      /\ \A k \in LaneIds : k \notin lanes \/ k # l => lane'[k] = lane[k]
  <2>1. lane' = IF l \in lanes THEN Saying(l, "disconnected") ELSE lane
    BY <1>4 DEF LanePaused, Saying
  <2>2. "disconnected" \in Statuses
    BY DEF Statuses
  <2>3. CASE l \in lanes
    <3>1. /\ lane' \in [LaneIds -> LaneType] /\ lane'[l].status = "disconnected"
          /\ \A k \in LaneIds : (k # l => lane'[k] = lane[k]) /\ lane'[k].up = lane[k].up /\ lane'[k].sessions = lane[k].sessions
      BY <2>1, <2>2, <2>3, SayingIs
    <3>. QED BY <2>3, <3>1 DEF Typed
  <2>4. CASE l \notin lanes
    BY <2>1, <2>4 DEF Typed
  <2>. QED BY <2>3, <2>4
<1>6. Typed'
  BY <1>2, <1>3, <1>4, <1>5 DEF Typed
<1>7. Underway'
  <2>1. SUFFICES ASSUME NEW x \in Range(work')
                 PROVE  Names(x)' /\ Meant(x)'
    BY <1>2 DEF Underway
  <2>. QED BY <1>2, <1>3, <1>5, <2>1 DEF Names, Meant, Opening, Uses, Halting, Pausing
<1>8. LimitKept'
  <2>1. \A k \in lanes' : CountFollows(k)' = CountFollows(k)
    BY <1>3 DEF CountFollows
  <2>. QED BY <1>3, <2>1 DEF LimitKept
<1>9. FollowsHeld'
  BY <1>2, <1>3, <1>4, <1>5 DEF FollowsHeld, Pending
<1>10. SessionsHeld'
  BY <1>2, <1>3, <1>4, <1>5 DEF SessionsHeld
<1>11. HomesHeld'
  BY <1>2, <1>3, <1>4, <1>5 DEF HomesHeld
<1>12. ExtraHeld'
  BY <1>2, <1>3, <1>4, <1>5 DEF ExtraHeld
<1>13. GoneEmpty'
  BY <1>2, <1>3, <1>4, <1>5 DEF GoneEmpty, Pending
<1>14. ClosedRests'
  BY <1>2, <1>3, <1>4, <1>5 DEF ClosedRests
<1>15. HaltedGone'
  BY <1>2, <1>3, <1>4, <1>5 DEF HaltedGone
<1>16. HaltOwed'
  <2>1. \A c \in Consumers : /\ (\E x \in Range(work) : x.do = "haltLane" /\ c \in lane[x.lane].sessions) =>
                                  \E x \in Range(work') : x.do = "haltLane" /\ c \in lane'[x.lane].sessions
                             /\ (\E x \in Range(work) : x.do = "tell" /\ x.of = c) => \E x \in Range(work') : x.do = "tell" /\ x.of = c
    BY <1>2, <1>5
  <2>2. ~Doing("halt")
    BY <1>2
  <2>. QED BY <1>3, <2>1, <2>2 DEF HaltOwed
<1>17. LanesUp'
  BY <1>2, <1>3, <1>4, <1>5 DEF LanesUp, Pending
<1>18. PausedSaid'
  BY <1>2, <1>3, <1>4, <1>5 DEF PausedSaid, Pending
<1>19. PausedIdle'
  BY <1>2, <1>3, <1>4, <1>5 DEF PausedIdle, Pending
<1>. QED BY <1>6, <1>7, <1>8, <1>9, <1>10, <1>11, <1>12, <1>13, <1>14, <1>15, <1>16, <1>17, <1>18, <1>19 DEF LanesInv, Held, Owed

\* A lane's transport tells a status, which it does only while it is open.
LEMMA LaneStatusKeeps ==
  ASSUME LanesAssumption, LanesInv, NEW l \in lanes, NEW news \in Statuses, LaneStatus(l, news)
  PROVE  LanesInv'
<1> USE LanesParts
<1>2. /\ l \in LaneIds /\ ~halted /\ lanes' = lanes /\ nextLane' = nextLane /\ follow' = follow /\ paused' = paused /\ halted' = halted /\ work' = work
      /\ closed' = closed /\ consumer' = consumer /\ home' = home /\ halts' = halts /\ reported' \in Statuses
  <2>1. GetStatus(lanes, lane') \in Statuses
    BY DEF GetStatus, Statuses
  <2>. QED BY <2>1 DEF LaneStatus
<1>3. ~paused
  <2>1. work = <<>> /\ ~halted /\ lane[l].up
    BY DEF LaneStatus, Quiet
  <2>. QED BY <2>1, NoneIs DEF LanesUp, Pending
<1>4. /\ lane' \in [LaneIds -> LaneType] /\ \A k \in LaneIds : IsFiniteSet(lane'[k].sessions)
      /\ \A k \in LaneIds : lane'[k].sessions = lane[k].sessions /\ lane'[k].up = lane[k].up
  <2>1. lane' = Saying(l, news)
    BY DEF LaneStatus, Saying
  <2>2. /\ lane' \in [LaneIds -> LaneType]
        /\ \A k \in LaneIds : lane'[k].up = lane[k].up /\ lane'[k].sessions = lane[k].sessions
    BY <1>2, <2>1, SayingIs
  <2>. QED BY <2>2 DEF Typed
<1>5. Doing("halt")' <=> Doing("halt")
  BY <1>2 DEF Doing
<1>6. Typed'
  BY <1>2, <1>3, <1>4, <1>5 DEF Typed
<1>7. Underway'
  <2>1. \A x \in Range(work) : Names(x)' <=> Names(x)
    BY <1>2 DEF Names
  <2>2. \A k : CountFollows(k)' = CountFollows(k)
    BY <1>2 DEF CountFollows
  <2>3. ASSUME NEW x \in Range(work), Names(x), Meant(x)
        PROVE  Meant(x)'
    <3>1. x.do = "shut" => x.lane \in LaneIds
      BY <2>3 DEF Names
    <3>. QED BY <1>2, <1>4, <2>2, <2>3, <3>1 DEF Meant, HasRoom
  <2>4. Ordered(work)' <=> Ordered(work)
    BY <1>2 DEF Ordered
  <2>. QED BY <1>2, <2>1, <2>3, <2>4 DEF Underway
<1>8. LimitKept'
  <2>1. \A k \in lanes' : CountFollows(k)' = CountFollows(k)
    BY <1>2 DEF CountFollows
  <2>. QED BY <1>2, <2>1 DEF LimitKept
<1>9. FollowsHeld'
  BY <1>2, <1>3, <1>4, <1>5 DEF FollowsHeld, Pending
<1>10. SessionsHeld'
  BY <1>2, <1>3, <1>4, <1>5 DEF SessionsHeld
<1>11. HomesHeld'
  BY <1>2, <1>3, <1>4, <1>5 DEF HomesHeld
<1>12. ExtraHeld'
  BY <1>2, <1>3, <1>4, <1>5 DEF ExtraHeld
<1>13. GoneEmpty'
  BY <1>2, <1>3, <1>4, <1>5 DEF GoneEmpty, Pending
<1>14. ClosedRests'
  BY <1>2, <1>3, <1>4, <1>5 DEF ClosedRests
<1>15. HaltedGone'
  BY <1>2, <1>3, <1>4, <1>5 DEF HaltedGone
<1>16. HaltOwed'
  BY <1>2, <1>3, <1>4, <1>5 DEF HaltOwed
<1>17. LanesUp'
  BY <1>2, <1>3, <1>4, <1>5 DEF LanesUp, Pending
<1>18. PausedSaid'
  BY <1>2, <1>3, <1>4, <1>5 DEF PausedSaid, Pending
<1>19. PausedIdle'
  BY <1>2, <1>3, <1>4, <1>5 DEF PausedIdle, Pending
<1>. QED BY <1>6, <1>7, <1>8, <1>9, <1>10, <1>11, <1>12, <1>13, <1>14, <1>15, <1>16, <1>17, <1>18, <1>19 DEF LanesInv, Held, Owed

\* A lane's transport has ended for good.
LEMMA LaneHaltsKeeps ==
  ASSUME LanesAssumption, LanesInv, NEW l \in lanes, LaneHalts(l)
  PROVE  LanesInv'
<1>1. Typed /\ HaltedGone /\ ClosedRests
  BY DEF LanesInv, Owed
<1>2. work = <<>> /\ ReportHalt(<<None>>) /\ UNCHANGED <<lanes, nextLane, lane, follow, paused, closed, reported, consumer, home, halts>>
  BY DEF LaneHalts, Quiet
<1>3. ~halted /\ ~closed /\ MayAct
  BY <1>1, <1>2 DEF HaltedGone, ClosedRests, Doing, MayAct
<1>4. Halts(<<None>>)
  <2>1. nextLane' \in nextLane .. MaxLanes
    BY <1>1, <1>2 DEF Typed, LanesAssumption
  <2>. QED BY <1>1, <1>2, <2>1 DEF Halts, Typed
<1>5. Tail(<<None>>) = work
  BY <1>2
<1>. QED BY <1>3, <1>4, <1>5, HaltsKeeps

\* The chain is resumed, and every lane's transport opens again.
LEMMA ReopenKeeps ==
  ASSUME LanesAssumption, LanesInv, work = <<>>, ~halted, ~closed, lane' = Raised(lanes), paused' = FALSE,
         UNCHANGED <<halted, work, lanes, nextLane, follow, closed, reported, consumer, home, halts>>
  PROVE  LanesInv'
<1> USE LanesParts
<1>2. /\ lanes' = lanes /\ nextLane' = nextLane /\ follow' = follow /\ paused' = FALSE /\ halted' = halted /\ work' = work
      /\ closed' = closed /\ consumer' = consumer /\ home' = home /\ halts' = halts /\ reported' = reported
      /\ work = <<>> /\ ~halted /\ \A x \in Range(work) : FALSE
  BY NoneIs
<1>3. /\ lane' \in [LaneIds -> LaneType] /\ \A k \in LaneIds : IsFiniteSet(lane'[k].sessions)
      /\ \A k \in LaneIds : lane'[k].sessions = lane[k].sessions
      /\ \A k \in lanes : lane'[k].up
      /\ \A k \in LaneIds \ lanes : lane'[k] = lane[k]
  <2>1. /\ lane' \in [LaneIds -> LaneType]
        /\ \A k \in LaneIds : lane'[k].sessions = lane[k].sessions /\ lane'[k].status = lane[k].status
        /\ \A k \in lanes : lane'[k].up
        /\ \A k \in LaneIds \ lanes : lane'[k] = lane[k]
    BY RaisedIs
  <2>. QED BY <2>1 DEF Typed
<1>4. ~Doing("halt")' /\ ~Doing("halt")
  BY <1>2 DEF Doing
<1>5. Typed'
  <2>1. /\ nextLane' \in 1 .. MaxLanes /\ lanes' \subseteq 0 .. nextLane' - 1 /\ follow' \in Seq(FollowType) /\ work' \in Seq(StepType)
        /\ \A n \in DOMAIN follow' : follow'[n].on < nextLane'
    BY <1>2 DEF Typed
  <2>2. /\ paused' \in BOOLEAN /\ halted' \in BOOLEAN /\ closed' \in BOOLEAN /\ reported' \in Statuses
        /\ consumer' \in [Consumers -> {"new", "open", "left"}] /\ home' \in [Consumers -> LaneIds \cup {None}]
        /\ \A k \in Consumers : consumer'[k] = "open" => home'[k] \in LaneIds
        /\ halts' \in [Consumers -> 0 .. 1]
    BY <1>2 DEF Typed
  <2>. QED BY <1>3, <2>1, <2>2 DEF Typed
<1>6. Underway'
  BY <1>2 DEF Underway, Ordered
<1>7. LimitKept'
  <2>1. \A k \in lanes' : CountFollows(k)' = CountFollows(k)
    BY <1>2 DEF CountFollows
  <2>. QED BY <1>2, <2>1 DEF LimitKept
<1>8. FollowsHeld'
  BY <1>2, <1>3, <1>4 DEF FollowsHeld, Pending
<1>9. SessionsHeld'
  BY <1>2, <1>3, <1>4 DEF SessionsHeld
<1>10. HomesHeld'
  BY <1>2, <1>3, <1>4 DEF HomesHeld
<1>11. ExtraHeld'
  BY <1>2, <1>3, <1>4 DEF ExtraHeld
<1>12. GoneEmpty'
  BY <1>2, <1>3, <1>4 DEF GoneEmpty, Pending
<1>13. ClosedRests'
  BY <1>2, <1>3, <1>4 DEF ClosedRests
<1>14. HaltedGone'
  BY <1>2, <1>3, <1>4 DEF HaltedGone
<1>15. HaltOwed'
  BY <1>2, <1>3, <1>4 DEF HaltOwed
<1>16. LanesUp'
  BY <1>2, <1>3, <1>4 DEF LanesUp, Pending
<1>17. PausedSaid'
  BY <1>2, <1>3, <1>4 DEF PausedSaid, Pending
<1>18. PausedIdle'
  BY <1>2, <1>3, <1>4 DEF PausedIdle, Pending
<1>. QED BY <1>5, <1>6, <1>7, <1>8, <1>9, <1>10, <1>11, <1>12, <1>13, <1>14, <1>15, <1>16, <1>17, <1>18 DEF LanesInv, Held, Owed

\* The chain is resumed, and a lane that does not open halts it.
LEMMA ResumeKeeps ==
  ASSUME LanesAssumption, LanesInv, Resume
  PROVE  LanesInv'
<1>1. /\ work = <<>> /\ paused /\ ~halted /\ ~closed /\ paused' = FALSE
      /\ UNCHANGED <<lanes, nextLane, follow, closed, reported, consumer, home, halts>>
      /\ \/ lane' = Raised(lanes) /\ UNCHANGED <<halted, work>>
         \/ ReportHalt(<<None>>) /\ \E fails \in lanes : lane' = Raised(lanes \ {fails})
  BY Zenon DEF Resume, Quiet, Raised
<1>2. Typed /\ lanes \in SUBSET LaneIds
  BY TypedIs DEF LanesInv
<1>3. CASE lane' = Raised(lanes) /\ UNCHANGED <<halted, work>>
  BY <1>1, <1>3, ReopenKeeps
<1>4. CASE ReportHalt(<<None>>) /\ \E fails \in lanes : lane' = Raised(lanes \ {fails})
  <2>1. PICK fails \in lanes : lane' = Raised(lanes \ {fails})
    BY <1>4
  <2> DEFINE opened == lanes \ {fails}
  <2>2. opened \in SUBSET LaneIds /\ opened \subseteq lanes /\ lane' = Raised(opened)
    BY <1>2, <2>1
  <2> HIDE DEF opened
  <2>3. /\ lane' \in [LaneIds -> LaneType] /\ \A k \in LaneIds : lane'[k].sessions = lane[k].sessions
        /\ \A k \in LaneIds \ opened : lane'[k] = lane[k]
    BY <1>2, <2>2, RaisedIs
  <2>4. nextLane' \in nextLane .. MaxLanes
    BY <1>1, <1>2 DEF Typed, LanesAssumption
  <2>5. Halts(<<None>>)
    BY <1>1, <1>4, <2>2, <2>3, <2>4 DEF Halts
  <2>6. MayAct /\ Tail(<<None>>) = work
    BY <1>1 DEF MayAct
  <2>. QED BY <1>1, <2>5, <2>6, HaltsKeeps
<1>. QED BY <1>1, <1>3, <1>4

\* The chain closes, and with it every lane.
LEMMA DisconnectAllKeeps ==
  ASSUME LanesAssumption, LanesInv, DisconnectAll
  PROVE  LanesInv'
<1> USE LanesParts
<1>2. /\ work = <<>> /\ work' = work /\ ~halted /\ lanes' = {} /\ nextLane' = nextLane /\ paused' = paused /\ halted' = halted
      /\ closed' = TRUE /\ reported' = "disconnected" /\ consumer' = consumer /\ home' = home /\ halts' = halts
      /\ \A x \in Range(work) : FALSE
  BY NoneIs DEF DisconnectAll, Quiet
<1>3. /\ follow' \in Seq(FollowType) /\ DOMAIN follow' = DOMAIN follow
      /\ \A n \in DOMAIN follow : /\ follow'[n].on = follow[n].on /\ follow'[n].by = follow[n].by
                                  /\ follow[n].on \in lanes => follow'[n].stage = "over"
                                  /\ follow[n].on \notin lanes => follow'[n] = follow[n]
  BY DropIs DEF DisconnectAll
<1>4. /\ lane' \in [LaneIds -> LaneType] /\ \A k \in LaneIds : IsFiniteSet(lane'[k].sessions)
      /\ \A k \in lanes : lane'[k].sessions = {} /\ ~lane'[k].up
      /\ \A k \in LaneIds \ lanes : lane'[k] = lane[k]
  BY ShutIs DEF DisconnectAll
<1>5. "over" \notin Counted /\ Waiting \subseteq Counted
  BY DEF Counted, Waiting
<1>6. \A k \in LaneIds \ lanes : /\ lane[k].sessions = {} /\ ~lane[k].up
                                 /\ \A n \in DOMAIN follow : follow[n].on = k => follow[n].stage \notin Counted
  BY <1>2 DEF GoneEmpty, Pending
<1>7. \A n \in DOMAIN follow : follow'[n].stage \notin Counted
  <2>1. SUFFICES ASSUME NEW n \in DOMAIN follow
                 PROVE  follow'[n].stage \notin Counted
    OBVIOUS
  <2>2. CASE follow[n].on \in lanes
    BY <1>3, <1>5, <2>2
  <2>3. CASE follow[n].on \notin lanes
    BY <1>3, <1>6, <2>3
  <2>. QED BY <2>2, <2>3
<1>8. Typed'
  <2>1. "disconnected" \in Statuses
    BY DEF Statuses
  <2>. QED BY <1>2, <1>3, <1>4, <2>1 DEF Typed
<1>9. Underway'
  BY <1>2 DEF Underway, Ordered
<1>10. LimitKept'
  BY <1>2, <1>3, <1>4, <1>5, <1>6, <1>7 DEF LimitKept
<1>11. FollowsHeld'
  BY <1>2, <1>3, <1>4, <1>5, <1>6, <1>7 DEF FollowsHeld, Pending
<1>12. SessionsHeld'
  BY <1>2, <1>3, <1>4, <1>5, <1>6, <1>7 DEF SessionsHeld
<1>13. HomesHeld'
  BY <1>2, <1>3, <1>4, <1>5, <1>6, <1>7 DEF HomesHeld
<1>14. ExtraHeld'
  BY <1>2, <1>3, <1>4, <1>5, <1>6, <1>7 DEF ExtraHeld
<1>15. GoneEmpty'
  BY <1>2, <1>3, <1>4, <1>5, <1>6, <1>7 DEF GoneEmpty, Pending
<1>16. ClosedRests'
  BY <1>2, <1>3, <1>4, <1>5, <1>6, <1>7 DEF ClosedRests
<1>17. HaltedGone'
  BY <1>2, <1>3, <1>4, <1>5, <1>6, <1>7 DEF HaltedGone
<1>18. HaltOwed'
  BY <1>2 DEF HaltOwed
<1>19. LanesUp'
  BY <1>2, <1>3, <1>4, <1>5, <1>6, <1>7 DEF LanesUp, Pending
<1>20. PausedSaid'
  BY <1>2, <1>3, <1>4, <1>5, <1>6, <1>7 DEF PausedSaid, Pending
<1>21. PausedIdle'
  BY <1>2, <1>3, <1>4, <1>5, <1>6, <1>7 DEF PausedIdle, Pending
<1>. QED BY <1>8, <1>9, <1>10, <1>11, <1>12, <1>13, <1>14, <1>15, <1>16, <1>17, <1>18, <1>19, <1>20, <1>21 DEF LanesInv, Held, Owed

\* A consumer disconnects: its sessions are to end.
LEMMA LeaveKeeps ==
  ASSUME LanesAssumption, LanesInv, NEW c \in Consumers, Leave(c)
  PROVE  LanesInv'
<1> USE LanesParts
<1>2. /\ work \in Seq(StepType) /\ Plain(work) /\ ~Doing("halt") /\ consumer[c] = "open"
      /\ \A x \in Range(work) : Names(x) /\ Meant(x) /\ x.do \notin Opening /\ x.do \notin Uses /\ x.lane \in LaneIds
  BY MayActIs DEF Leave
<1>3. /\ lanes' = lanes /\ nextLane' = nextLane /\ lane' = lane /\ follow' = follow /\ paused' = paused /\ halted' = halted
      /\ closed' = closed /\ reported' = reported /\ home' = home /\ halts' = halts
  BY Zenon DEF Leave
<1>4. /\ consumer' \in [Consumers -> {"new", "open", "left"}] /\ consumer'[c] = "left"
      /\ \A k \in Consumers : k # c => consumer'[k] = consumer[k]
  <2>1. consumer' = [consumer EXCEPT ![c] = "left"] /\ consumer \in [Consumers -> {"new", "open", "left"}]
    BY DEF Leave, Typed
  <2>. QED BY <2>1
<1>5. /\ work' \in Seq(StepType) /\ Ordered(work') /\ ~Doing("halt")'
      /\ \A x \in Range(work') : x \in Range(work) \/ (x.do = "end" /\ x.lane \in LaneIds /\ x.of = c)
      /\ \A x \in Range(work) : x \in Range(work')
      /\ \A l \in LaneIds : c \in lane[l].sessions => \E x \in Range(work') : x.do = "end" /\ x.lane = l /\ x.of = c
  <2>1. PICK order \in SetToSeqs(LanesOf(c)) : work' = [i \in DOMAIN order |-> Do("end", order[i], c)] \o work
    BY Zenon DEF Leave
  <2>2. LanesOf(c) \subseteq LaneIds /\ IsFiniteSet(LanesOf(c)) /\ \A l \in LaneIds : c \in lane[l].sessions => l \in LanesOf(c)
    <3>1. IsFiniteSet(LaneIds) /\ LanesOf(c) \in SUBSET LaneIds
      BY FS_Interval DEF LaneIds, LanesAssumption, LanesOf
    <3>. QED BY <3>1, FS_Subset DEF LanesOf
  <2>3. order \in Seq(LanesOf(c)) /\ DOMAIN order = 1 .. Len(order) /\ \A l \in LanesOf(c) : \E i \in DOMAIN order : order[i] = l
    BY <2>2, SetToSeqIs
  <2>4. \A l \in LaneIds : Do("end", l, c) \in StepType /\ Do("end", l, c).do = "end" /\ Do("end", l, c).lane = l /\ Do("end", l, c).of = c
    BY DEF Do, StepType
  <2> DEFINE ends == [i \in DOMAIN order |-> Do("end", order[i], c)]
  <2>5. \A i \in DOMAIN order : order[i] \in LanesOf(c) /\ order[i] \in LaneIds
    BY <2>2, <2>3
  <2>6. ends \in Seq(StepType)
    BY <2>3, <2>4, <2>5
  <2>7. \A x \in Range(ends) : x.do = "end" /\ x.lane \in LaneIds /\ x.of = c
    BY <2>4, <2>5 DEF Range
  <2>8. \A l \in LanesOf(c) : \E x \in Range(ends) : x.do = "end" /\ x.lane = l /\ x.of = c
    <3>1. DOMAIN ends = DOMAIN order /\ \A i \in DOMAIN order : ends[i] = Do("end", order[i], c)
      OBVIOUS
    <3> HIDE DEF ends
    <3>. QED BY <2>2, <2>3, <2>4, <3>1 DEF Range
  <2>9. work' = ends \o work
    BY <2>1
  <2> HIDE DEF ends
  <2>10. work' \in Seq(StepType) /\ Range(work') = Range(ends) \cup Range(work)
    BY <1>2, <2>6, <2>9, OnIs
  <2>11. Plain(ends)
    BY <2>7 DEF Plain, Opening, Uses
  <2>12. Plain(work') /\ Ordered(work')
    BY <1>2, <2>6, <2>9, <2>11, PlainIs
  <2>. QED BY <2>2, <2>7, <2>8, <2>10, <2>12, NoHaltIsNext DEF Doing
<1>6. \A k \in Consumers : consumer'[k] = "open" => consumer[k] = "open" /\ k # c
  BY <1>4
<1>7. Typed'
  BY <1>2, <1>3, <1>4, <1>5, <1>6 DEF Typed
<1>8. Underway'
  <2>1. SUFFICES ASSUME NEW x \in Range(work')
                 PROVE  Names(x)' /\ Meant(x)'
    BY <1>5 DEF Underway
  <2>2. CASE x \in Range(work)
    <3>1. Names(x) /\ Meant(x) /\ x.do \notin Uses /\ x.do \notin Opening
      BY <1>2, <2>2
    <3>. QED BY <1>3, <1>4, <3>1 DEF Names, Meant, Uses, Opening, Halting, Pausing
  <2>3. CASE x.do = "end" /\ x.lane \in LaneIds /\ x.of = c
    BY <1>3, <1>4, <2>3 DEF Names, Meant, Uses, Halting, Pausing
  <2>. QED BY <1>5, <2>2, <2>3
<1>9. LimitKept'
  <2>1. \A k \in lanes' : CountFollows(k)' = CountFollows(k)
    BY <1>3 DEF CountFollows
  <2>. QED BY <1>3, <2>1 DEF LimitKept
<1>10. FollowsHeld'
  BY <1>2, <1>3, <1>4, <1>5, <1>6 DEF FollowsHeld, Pending
<1>11. SessionsHeld'
  <2>1. SUFFICES ASSUME NEW k \in lanes, NEW d \in lane[k].sessions, consumer'[d] # "open"
                 PROVE  \E x \in Range(work') : x.do = "end" /\ x.lane = k /\ x.of = d
    BY <1>3 DEF SessionsHeld
  <2>2. k \in LaneIds /\ d \in Consumers
    OBVIOUS
  <2>3. CASE d = c
    BY <1>5, <2>1, <2>2, <2>3
  <2>4. CASE d # c
    <3>1. consumer[d] # "open"
      BY <1>4, <2>1, <2>2, <2>4
    <3>. QED BY <1>5, <2>1, <3>1 DEF SessionsHeld
  <2>. QED BY <2>3, <2>4
<1>12. HomesHeld'
  BY <1>2, <1>3, <1>4, <1>5, <1>6 DEF HomesHeld
<1>13. ExtraHeld'
  BY <1>2, <1>3, <1>4, <1>5, <1>6 DEF ExtraHeld
<1>14. GoneEmpty'
  BY <1>2, <1>3, <1>4, <1>5, <1>6 DEF GoneEmpty, Pending
<1>15. ClosedRests'
  BY <1>2, <1>3, <1>4, <1>5, <1>6 DEF ClosedRests
<1>16. HaltedGone'
  BY <1>2, <1>3, <1>4, <1>5, <1>6 DEF HaltedGone
<1>17. HaltOwed'
  BY <1>2, <1>3, <1>4, <1>5, <1>6 DEF HaltOwed
<1>18. LanesUp'
  BY <1>2, <1>3, <1>4, <1>5, <1>6 DEF LanesUp, Pending
<1>19. PausedSaid'
  BY <1>2, <1>3, <1>4, <1>5, <1>6 DEF PausedSaid, Pending
<1>20. PausedIdle'
  BY <1>2, <1>3, <1>4, <1>5, <1>6 DEF PausedIdle, Pending
<1>. QED BY <1>7, <1>8, <1>9, <1>10, <1>11, <1>12, <1>13, <1>14, <1>15, <1>16, <1>17, <1>18, <1>19, <1>20 DEF LanesInv, Held, Owed

----------------------------------------------------------------------------
(* The invariant. *)

\* A chain starts with one lane, on which nothing runs.
LEMMA InitInv == ASSUME LanesAssumption, Init PROVE LanesInv
<1>1. 0 \in LaneIds /\ 1 \in 1 .. MaxLanes /\ 0 \in 0 .. 1 - 1 /\ None \notin LaneIds
  BY DEF LaneIds, LanesAssumption
<1>2. /\ work = <<>> /\ lanes = {0} /\ nextLane = 1 /\ follow = <<>> /\ halted = FALSE /\ closed = FALSE
      /\ paused \in BOOLEAN /\ reported \in Statuses
      /\ consumer \in [Consumers -> {"new", "open", "left"}] /\ \A c \in Consumers : consumer[c] = "new"
      /\ home \in [Consumers -> LaneIds \cup {None}] /\ halts \in [Consumers -> 0 .. 1]
      /\ ~Doing("halt") /\ \A x \in Range(work) : FALSE
  <2>1. NewLane.status \in Statuses
    BY DEF NewLane, Statuses
  <2>2. work = <<>>
    BY DEF Init
  <2>3. ~Doing("halt") /\ \A x \in Range(work) : FALSE
    BY <2>2, NoneIs DEF Doing
  <2>. QED BY <2>1, <2>2, <2>3 DEF Init
<1>3. /\ lane \in [LaneIds -> LaneType] /\ \A l \in LaneIds : lane[l].sessions = {}
      /\ lane[0].up = ~paused /\ (paused => lane[0].status = "disconnected")
      /\ \A l \in LaneIds : l # 0 => ~lane[l].up
  <2> DEFINE off == [NewLane EXCEPT !.up = FALSE]
  <2>1. /\ NewLane \in LaneType /\ NewLane.sessions = {} /\ NewLane.up = ~paused
        /\ paused => NewLane.status = "disconnected"
        /\ off \in LaneType /\ off.sessions = {} /\ ~off.up
    BY <1>2 DEF NewLane, LaneType, Statuses
  <2>2. lane = [l \in LaneIds |-> IF l = 0 THEN NewLane ELSE off]
    BY DEF Init
  <2> HIDE DEF off
  <2>3. lane[0] = NewLane /\ \A l \in LaneIds : l # 0 => lane[l] = off
    BY <1>1, <2>2
  <2>4. \A l \in LaneIds : lane[l] \in LaneType /\ lane[l].sessions = {} /\ (l # 0 => ~lane[l].up)
    BY <2>1, <2>3
  <2>5. lane \in [LaneIds -> LaneType]
    BY <2>2, <2>4
  <2>. QED BY <2>1, <2>3, <2>4, <2>5
<1>4. follow \in Seq(FollowType) /\ DOMAIN follow = {} /\ work \in Seq(StepType)
  BY <1>2
<1>5. Typed
  BY <1>1, <1>2, <1>3, <1>4, FS_EmptySet DEF Typed
<1>6. Underway
  BY <1>2 DEF Underway, Ordered
<1>7. LimitKept
  <2>1. \A l : {n \in DOMAIN follow : follow[n].on = l /\ follow[n].stage \in Counted} = {}
    BY <1>4
  <2>2. \A l : CountFollows(l) = 0
    BY <2>1, FS_EmptySet DEF CountFollows
  <2>. QED BY <2>2 DEF LimitKept, LanesAssumption
<1>8. Held
  BY <1>1, <1>2, <1>3, <1>4 DEF Held, FollowsHeld, SessionsHeld, HomesHeld, ExtraHeld, GoneEmpty
<1>9. Owed
  BY <1>1, <1>2, <1>3, <1>4 DEF Owed, ClosedRests, HaltedGone, HaltOwed, LanesUp, PausedSaid, PausedIdle
<1>. QED BY <1>5, <1>6, <1>7, <1>8, <1>9 DEF LanesInv

\* The invariant is about the variables alone.
LEMMA StutterKeeps == ASSUME LanesInv, UNCHANGED vars PROVE LanesInv'
<1>1. /\ lanes' = lanes /\ nextLane' = nextLane /\ lane' = lane /\ follow' = follow /\ paused' = paused /\ halted' = halted
      /\ closed' = closed /\ reported' = reported /\ consumer' = consumer /\ home' = home /\ halts' = halts /\ work' = work
  BY DEF vars
<1>2. \A l : (CountFollows(l)' = CountFollows(l)) /\ (HasRoom(l)' <=> HasRoom(l))
  BY <1>1 DEF CountFollows, HasRoom
<1>3. Doing("halt")' <=> Doing("halt")
  BY <1>1 DEF Doing
<1>4. Typed' /\ LimitKept'
  BY <1>1, <1>2 DEF LanesInv, Typed, LimitKept
<1>5. Underway'
  <2>1. \A x : (Names(x)' <=> Names(x)) /\ (Meant(x)' <=> Meant(x))
    BY <1>1, <1>2 DEF Names, Meant
  <2>. QED BY <1>1, <2>1 DEF LanesInv, Underway, Ordered
<1>6. Held'
  BY <1>1, <1>3 DEF LanesInv, Held, FollowsHeld, SessionsHeld, HomesHeld, ExtraHeld, GoneEmpty, Pending
<1>7. Owed'
  BY <1>1, <1>3 DEF LanesInv, Owed, ClosedRests, HaltedGone, HaltOwed, LanesUp, PausedSaid, PausedIdle, Pending
<1>. QED BY <1>4, <1>5, <1>6, <1>7 DEF LanesInv

\* Every step keeps the invariant.
LEMMA NextKeeps == ASSUME LanesAssumption, LanesInv, [Next]_vars PROVE LanesInv'
<1>1. CASE UNCHANGED vars
  BY <1>1, StutterKeeps
<1>2. CASE ConsumerStep
  <2>1. ASSUME NEW c \in Consumers, Connect(c) \/ Follow(c) \/ Leave(c)
        PROVE  LanesInv'
    BY <2>1, ConnectKeeps, FollowKeeps, LeaveKeeps
  <2>2. ASSUME NEW n \in DOMAIN follow, Unfollow(n)
        PROVE  LanesInv'
    BY <2>2, UnfollowKeeps
  <2>. QED BY <1>2, <2>1, <2>2 DEF ConsumerStep
<1>3. CASE LanesStep
  <2>1. CASE HaltLanes \/ HaltLane \/ TellHalt \/ ShutLane
    BY <2>1, HaltLanesKeeps, HaltLaneKeeps, TellHaltKeeps, ShutLaneKeeps
  <2>2. CASE LaneReported \/ EndOne \/ ConnectHome \/ SendFollow
    BY <2>2, LaneReportedKeeps, EndOneKeeps, ConnectHomeKeeps, SendFollowKeeps
  <2>3. CASE PauseLane \/ TellStop \/ LanePaused
    BY <2>3, PauseLaneKeeps, TellStopKeeps, LanePausedKeeps
  <2>. QED BY <1>3, <2>1, <2>2, <2>3 DEF LanesStep
<1>4. CASE PoolStep
  BY <1>4, PauseKeeps, ResumeKeeps, DisconnectAllKeeps DEF PoolStep
<1>5. CASE NodeStep
  <2>1. ASSUME NEW l \in lanes, LaneHalts(l)
        PROVE  LanesInv'
    BY <2>1, LaneHaltsKeeps
  <2>2. ASSUME NEW l \in lanes, NEW news \in Reports, LaneStatus(l, news)
        PROVE  LanesInv'
    <3>1. news \in Statuses
      BY DEF Statuses, LanesAssumption
    <3>. QED BY <2>2, <3>1, LaneStatusKeeps
  <2>3. ASSUME NEW n \in DOMAIN follow, NEW stage \in Counted \cup {"over"}, NodeAnswers(n, stage)
        PROVE  LanesInv'
    BY <2>3, NodeAnswersKeeps
  <2>. QED BY <1>5, <2>1, <2>2, <2>3 DEF NodeStep
<1>. QED BY <1>1, <1>2, <1>3, <1>4, <1>5 DEF Next

\* What an unfinished call still owes is on its stack of work, and what is picked for it stays good until its turn comes.
THEOREM LanesInvariant == Spec => []LanesInv
<1>1. Init => LanesInv
  BY LanesAssumption, InitInv
<1>2. LanesInv /\ [Next]_vars => LanesInv'
  BY LanesAssumption, NextKeeps
<1>. QED BY <1>1, <1>2, PTL DEF Spec

\* At rest nothing is owed.
LEMMA AtRest ==
  ASSUME LanesAssumption, LanesInv, Quiet
  PROVE  ~Doing("halt") /\ \A x \in Range(work) : FALSE
  BY NoneIs DEF Quiet, Doing

\* The typing implies the type invariant of the runs.
LEMMA TypedTypeOK ==
  ASSUME LanesAssumption, Typed
  PROVE  TypeOK
<1>1. \A n \in DOMAIN follow : follow[n] \in FollowType
  BY DEF Typed
<1>. QED BY <1>1 DEF Typed, TypeOK, LaneType, FollowType

\* No lane is asked to run more follows than its node takes, whatever is in flight on it (hasRoom, countFollows).
THEOREM LanesLimitKept == Spec => []LimitKept
<1>1. LanesInv => LimitKept
  BY DEF LanesInv
<1>. QED BY <1>1, LanesInvariant, PTL

\* Between calls an extra lane is open only for a session on it, nothing is left of a lane that is not open, and a follow
\* that runs or waits has its consumer's session on its lane (closeIfEmpty, connectSession, disconnect, halt).
THEOREM LanesSessionsAgree == Spec => []SessionsAgree
<1>1. ASSUME LanesInv
      PROVE  SessionsAgree
  <2>1. /\ Typed /\ FollowsHeld /\ SessionsHeld /\ HomesHeld /\ ExtraHeld /\ GoneEmpty
    BY <1>1 DEF LanesInv, Held
  <2>2. TypeOK
    BY <2>1, LanesAssumption, TypedTypeOK
  <2>3. /\ lanes \in SUBSET LaneIds
        /\ \A n \in DOMAIN follow : follow[n].on \in LaneIds
    BY <2>1, LanesAssumption, TypedIs
  <2>4. ExtraLanesInUse
    <3>1. SUFFICES ASSUME Quiet
                   PROVE  /\ \A l \in lanes \ {0} : lane[l].sessions # {}
                          /\ \A l \in LaneIds \ lanes : lane[l].sessions = {} /\ ~lane[l].up /\ CountFollows(l) = 0
      BY DEF ExtraLanesInUse
    <3>2. \A x \in Range(work) : FALSE
      BY <1>1, <3>1, LanesAssumption, AtRest
    <3>3. \A l \in lanes \ {0} : lane[l].sessions # {}
      BY <2>1, <3>2 DEF ExtraHeld
    <3>4. ASSUME NEW l \in LaneIds \ lanes
          PROVE  lane[l].sessions = {} /\ ~lane[l].up /\ CountFollows(l) = 0
      <4>1. /\ lane[l].sessions = {} /\ ~lane[l].up
            /\ \A n \in DOMAIN follow : follow[n].on = l => follow[n].stage \notin Counted
        BY <2>1, <3>2, <3>4 DEF GoneEmpty, Pending
      <4>2. {n \in DOMAIN follow : follow[n].on = l /\ follow[n].stage \in Counted} = {}
        BY <4>1
      <4>3. CountFollows(l) = 0
        BY <4>2, FS_EmptySet DEF CountFollows
      <4>. QED BY <4>1, <4>3
    <3>. QED BY <3>3, <3>4
  <2>5. FollowsHaveSessions
    <3>1. SUFFICES ASSUME Quiet
                   PROVE  FollowsHaveSessions
      BY DEF FollowsHaveSessions
    <3>2. ~Doing("halt") /\ \A x \in Range(work) : FALSE
      BY <1>1, <3>1, LanesAssumption, AtRest
    <3>3. \A n \in DOMAIN follow : follow[n].stage \in Waiting => follow[n].by \in lane[follow[n].on].sessions
      BY <2>1, <3>2 DEF FollowsHeld, Pending
    <3>4. \A l \in lanes : \A c \in lane[l].sessions : consumer[c] = "open"
      BY <2>1, <3>2 DEF SessionsHeld
    <3>5. ~halted /\ ~closed => \A c \in Consumers : consumer[c] = "open" => c \in lane[home[c]].sessions
      BY <2>1 DEF HomesHeld
    <3>. QED BY <3>3, <3>4, <3>5 DEF FollowsHaveSessions
  <2>. QED BY <2>2, <2>4, <2>5 DEF SessionsAgree
<1>. QED BY <1>1, LanesInvariant, PTL

\* A halt closes every lane and reaches every consumer that is there, and a pause reaches every lane and what runs on it,
\* those opened while it goes on included (halt, handleHalt, pause, resume, createLane).
THEOREM LanesEveryLaneFollows == Spec => []EveryLaneFollows
<1>1. ASSUME LanesInv
      PROVE  EveryLaneFollows
  <2>1. Typed /\ HaltedGone /\ HaltOwed /\ LanesUp /\ PausedSaid /\ PausedIdle
    BY <1>1 DEF LanesInv, Owed
  <2>2. SUFFICES ASSUME Quiet
                 PROVE  EveryLaneFollows
    BY DEF EveryLaneFollows, HaltIsHeard, PauseIsComplete
  <2>3. ~Doing("halt") /\ \A x \in Range(work) : FALSE
    BY <1>1, <2>2, LanesAssumption, AtRest
  <2>4. halted => lanes = {} /\ \A c \in Consumers : consumer[c] = "open" => halts[c] = 1
    BY <2>1, <2>3 DEF HaltedGone, HaltOwed
  <2>5. \A l \in lanes : lane[l].up \in BOOLEAN
    BY <2>1, LanesAssumption, TypedIs DEF LaneType
  <2>6. \A l \in lanes : lane[l].up <=> ~paused
    BY <2>1, <2>3, <2>4 DEF LanesUp, Pending
  <2>7. paused => \A l \in lanes : lane[l].status = "disconnected"
    BY <2>1, <2>3, <2>4 DEF PausedSaid, Pending
  <2>8. paused => \A n \in DOMAIN follow : follow[n].on \in lanes => follow[n].stage \notin {"held", "released"}
    BY <2>1, <2>3 DEF PausedIdle, Pending
  <2>. QED BY <2>2, <2>4, <2>6, <2>7, <2>8 DEF EveryLaneFollows, HaltIsHeard, PauseIsComplete
<1>. QED BY <1>1, LanesInvariant, PTL

----------------------------------------------------------------------------
(* The page's cores. *)

\* A core that was not dialed yet has nothing.
Blank == \A i \in Ids : core[i].st = "none" => core[i] = NoCore /\ runs[i] = "none"

\* A request is at a core exactly when the core counts it, and then the core is in the page. It
\* waits until the core is up.
Books ==
  /\ \A l \in Leases : lease[l].at = "none" => lease[l] = NoLease
  /\ \A l \in Leases : lease[l].at # "none" =>
       lease[l].of \in Ids /\ Live(lease[l].of) /\ (lease[l].at = "held" <=> core[lease[l].of].boot = "up")
  /\ \A i \in Ids, l \in Leases : l \in core[i].holders <=> lease[l].at # "none" /\ lease[l].of = i

\* The page's core is in the page. One nobody holds is the page's.
Homes ==
  /\ current # Nil => Live(current)
  /\ \A i \in Ids : core[i].lingers => Live(i) /\ core[i].holders = {} /\ core[i].boot = "up"
  /\ UnheldServes

\* A runtime is there exactly while its core is up and in the page.
Runtimes ==
  \A i \in Ids : /\ runs[i] # "twice"
                 /\ runs[i] = "up" <=> Live(i) /\ core[i].boot = "up"
                 /\ runs[i] = "disposed" => ~Live(i)

IInv == PageTypeOK /\ Blank /\ Books /\ Homes /\ Runtimes

----------------------------------------------------------------------------
(* Blanks and types. *)

LEMMA BlankTypes == CoreAssumption => NoCore \in CoreType /\ NoLease \in LeaseType
  BY DEF CoreAssumption, NoCore, CoreType, NoLease, LeaseType

LEMMA InitInvariant == CoreAssumption /\ PageInit => IInv
<1> SUFFICES ASSUME CoreAssumption, PageInit PROVE IInv
  OBVIOUS
<1>1. PageTypeOK
  BY BlankTypes DEF PageInit, PageTypeOK, CoreAssumption
<1>2. Blank /\ Books /\ Homes /\ Runtimes
  BY DEF PageInit, Blank, Books, Homes, Runtimes, UnheldServes, Live, NoCore, NoLease
<1>. QED BY <1>1, <1>2 DEF IInv

----------------------------------------------------------------------------
(* Leases. *)

\* What is left of a core that is disposed of.
Disposed(c) == [c EXCEPT !.st = "gone", !.lingers = FALSE, !.boot = IF c.boot = "waiting" THEN "dropped" ELSE c.boot]

LEMMA DisposedFields ==
  ASSUME NEW c \in CoreType
  PROVE  /\ Disposed(c) \in CoreType
         /\ Disposed(c).st = "gone" /\ ~Disposed(c).lingers
         /\ Disposed(c).holders = c.holders
         /\ Disposed(c).boot = IF c.boot = "waiting" THEN "dropped" ELSE c.boot
<1>1. Disposed(c) \in CoreType
  BY DEF Disposed, CoreType
<1>. QED BY <1>1 DEF Disposed, CoreType

LEMMA DisposeOne ==
  ASSUME NEW cs \in [Ids -> CoreType], NEW i \in Ids
  PROVE  Dispose(cs, i) = [cs EXCEPT ![i] = Disposed(cs[i])]
  BY DEF Dispose, Disposed, CoreType

\* The leases of a core that nobody is at any more, once those at core i went.
LeftBy(i) == [l \in Leases |-> IF lease[l].of = i THEN NoLease ELSE lease[l]]

----------------------------------------------------------------------------
(* What a step may do to one core. *)

\* A core leaves the page, and everyone at it is gone with it.
LEMMA LeavesKeeps ==
  ASSUME CoreAssumption, IInv, NEW i \in Ids, NEW c \in CoreType, Live(i), c.holders = {},
         Become([core EXCEPT ![i] = Disposed(c)]), lease' = LeftBy(i),
         current' = IF current = i THEN Nil ELSE current,
         product' = product \/ current = i, product' \in Products, changes' \in 0 .. MaxChanges
  PROVE  IInv'
<1> DEFINE cs == [core EXCEPT ![i] = Disposed(c)]
<1>1. /\ core' = cs
      /\ runs' = [j \in Ids |-> IF Live(j) /\ cs[j].st = "gone" THEN Ended(runs[j]) ELSE runs[j]]
  BY DEF Become
<1>2. /\ cs \in [Ids -> CoreType] /\ \A j \in Ids : j # i => cs[j] = core[j]
      /\ cs[i] = Disposed(c)
  BY DisposedFields DEF IInv, PageTypeOK
<1>3. cs[i].st = "gone" /\ ~cs[i].lingers /\ cs[i].holders = {}
  BY <1>2, DisposedFields
<1> HIDE DEF cs
<1>5. PageTypeOK'
  <2>1. runs' \in [Ids -> {"none", "up", "disposed", "twice"}]
    BY <1>1 DEF IInv, PageTypeOK, Ended
  <2>2. lease' \in [Leases -> LeaseType]
    BY BlankTypes DEF IInv, PageTypeOK, LeftBy
  <2>. QED BY <1>1, <1>2, <2>1, <2>2 DEF IInv, PageTypeOK
<1>6. Blank'
  BY <1>1, <1>2, <1>3 DEF IInv, Blank, Live
<1>7. Books'
  <2>1. \A l \in Leases : lease'[l] = IF lease[l].of = i THEN NoLease ELSE lease[l]
    BY DEF LeftBy
  <2>2. \A l \in Leases : lease'[l].at # "none" =>
          lease'[l].of \in Ids \ {i} /\ core[lease'[l].of].st = "live"
          /\ (lease'[l].at = "held" <=> core[lease'[l].of].boot = "up")
    BY <2>1 DEF IInv, Books, Live, NoLease
  <2>3. ASSUME NEW j \in Ids, NEW l \in Leases
        PROVE  l \in cs[j].holders <=> lease'[l].at # "none" /\ lease'[l].of = j
    <3>1. CASE j = i
      BY <1>3, <2>2, <3>1
    <3>2. CASE j # i
      BY <1>2, <2>1, <3>2 DEF IInv, Books, NoLease, CoreAssumption
    <3>. QED BY <3>1, <3>2
  <2>4. \A l \in Leases : lease'[l].at = "none" => lease'[l] = NoLease
    BY <2>1 DEF IInv, Books
  <2>. QED BY <1>1, <1>2, <2>2, <2>3, <2>4 DEF Books, Live
<1>8. Homes'
  BY <1>1, <1>2, <1>3 DEF IInv, PageTypeOK, Homes, Live, UnheldServes, CoreAssumption
<1>9. Runtimes'
  BY <1>1, <1>2, <1>3 DEF IInv, PageTypeOK, Runtimes, Live, Ended
<1>. QED BY <1>5, <1>6, <1>7, <1>8, <1>9 DEF IInv

\* What the books say of one core.
LEMMA AtCore ==
  ASSUME CoreAssumption, IInv, NEW i \in Ids, NEW l \in Leases
  PROVE  /\ lease[l].at = "none" => lease[l] = NoLease /\ lease[l].of # i
         /\ lease[l].of = i => /\ l \in core[i].holders /\ Live(i)
                               /\ lease[l].at = "held" <=> core[i].boot = "up"
         /\ l \in core[i].holders <=> lease[l].at # "none" /\ lease[l].of = i
<1>1. lease[l].at = "none" => lease[l] = NoLease
  BY DEF IInv, Books
<1>2. NoLease.of # i
  BY DEF NoLease, CoreAssumption
<1>3. /\ l \in core[i].holders <=> lease[l].at # "none" /\ lease[l].of = i
      /\ lease[l].at # "none" /\ lease[l].of = i => Live(i) /\ (lease[l].at = "held" <=> core[i].boot = "up")
  BY DEF IInv, Books
<1>. QED BY <1>1, <1>2, <1>3

\* A core nobody is at takes no request along.
LEMMA NobodyLeaves ==
  ASSUME IInv, NEW i \in Ids, core[i].holders = {}, Nil \notin Ids, UNCHANGED lease
  PROVE  lease' = LeftBy(i)
<1>1. \A l \in Leases : lease[l].of # i
  BY DEF IInv, Books, NoLease
<1>. QED BY <1>1 DEF LeftBy, IInv, PageTypeOK

\* Core i stays where it is as c, with r for its runtime, and the requests at it agree.
Stays(i, c, r) ==
  /\ c \in CoreType /\ c.st = core[i].st /\ c.st # "none" /\ r \in {"none", "up", "disposed"}
  /\ core' = [core EXCEPT ![i] = c] /\ runs' = [runs EXCEPT ![i] = r] /\ UNCHANGED <<product, current, changes>>
  /\ r = "up" <=> Live(i) /\ c.boot = "up"
  /\ r = "disposed" => ~Live(i)
  /\ c.lingers => Live(i) /\ c.holders = {} /\ c.boot = "up"
  /\ Live(i) /\ c.holders = {} => i = current /\ c.product = product /\ (c.lingers \/ c.redial)
  /\ lease' \in [Leases -> LeaseType]
  /\ \A l \in Leases :
       /\ lease'[l].at = "none" => lease'[l] = NoLease
       /\ lease'[l].of = i \/ (lease[l].of = i /\ lease'[l] = NoLease) \/ lease'[l] = lease[l]
       /\ lease'[l].of = i => Live(i) /\ (lease'[l].at = "held" <=> c.boot = "up")
       /\ lease'[l].of = i => lease[l].at = "none" \/ lease[l].of = i
       /\ l \in c.holders <=> lease'[l].at # "none" /\ lease'[l].of = i

LEMMA StaysKeeps ==
  ASSUME CoreAssumption, IInv, NEW i \in Ids, NEW c, NEW r, Stays(i, c, r)
  PROVE  IInv'
<1> USE DEF Stays
<1>1. core' \in [Ids -> CoreType] /\ core'[i] = c /\ \A j \in Ids : j # i => core'[j] = core[j]
  BY DEF IInv, PageTypeOK
<1>2. \A j \in Ids : runs'[j] = IF j = i THEN r ELSE runs[j]
  BY DEF IInv, PageTypeOK
<1>3. PageTypeOK'
  BY <1>1 DEF IInv, PageTypeOK
<1>4. Blank'
  BY <1>1, <1>2 DEF IInv, Blank
<1>5. Books'
  <2>2. \A l \in Leases : lease'[l].at # "none" =>
          /\ lease'[l].of \in Ids /\ core'[lease'[l].of].st = "live"
          /\ lease'[l].at = "held" <=> core'[lease'[l].of].boot = "up"
    BY <1>1 DEF IInv, Books, NoLease, Live
  <2>3. \A j \in Ids, l \in Leases : l \in core'[j].holders <=> lease'[l].at # "none" /\ lease'[l].of = j
    <3> SUFFICES ASSUME NEW j \in Ids, NEW l \in Leases
                 PROVE  l \in core'[j].holders <=> lease'[l].at # "none" /\ lease'[l].of = j
      OBVIOUS
    <3>1. CASE j = i
      BY <1>1, <3>1
    <3>2. CASE j # i
      BY <1>1, <3>2 DEF IInv, Books, NoLease
    <3>. QED BY <3>1, <3>2
  <2>. QED BY <2>2, <2>3 DEF Books, Live
<1>6. Homes'
  BY <1>1 DEF IInv, Homes, Live, UnheldServes
<1>7. Runtimes'
  BY <1>1, <1>2 DEF IInv, Runtimes, Live
<1>. QED BY <1>3, <1>4, <1>5, <1>6, <1>7 DEF IInv

\* A core is dialed for requests that are at no core, or to replace one that went down, and the one before goes if
\* nobody is at it.
LEMMA DialKeeps ==
  ASSUME CoreAssumption, IInv, NEW cs \in [Ids -> CoreType], NEW holders \in SUBSET Leases, NEW redial \in BOOLEAN,
         \A i \in Ids : cs[i] = core[i] \/ (Live(i) /\ cs[i] = [core[i] EXCEPT !.faulted = TRUE]),
         \A l \in holders : lease[l] = NoLease, IF redial THEN current # Nil ELSE holders # {},
         Dial(cs, holders, redial), UNCHANGED <<product, changes>>
  PROVE  IInv'
<1>1. PICK j \in Ids :
        /\ cs[j].st = "none"
        /\ LET dialed == [cs EXCEPT ![j] = [NoCore EXCEPT !.st = "live", !.product = product, !.holders = holders,
                                              !.redial = redial,
                                              !.boot = IF redial /\ ~SlotIsFree(cs) THEN "waiting" ELSE "booting"]]
           IN Become(IF current # Nil /\ cs[current].holders = {} THEN Dispose(dialed, current) ELSE dialed)
        /\ current' = j
        /\ lease' = [l \in Leases |-> IF l \in holders THEN [at |-> "waiting", of |-> j, down |-> FALSE]
                                      ELSE [lease[l] EXCEPT !.down = @ \/ (redial /\ lease[l].of = current)]]
  BY DEF Dial
<1> DEFINE new == [NoCore EXCEPT !.st = "live", !.product = product, !.holders = holders, !.redial = redial,
                                 !.boot = IF redial /\ ~SlotIsFree(cs) THEN "waiting" ELSE "booting"]
           dialed == [cs EXCEPT ![j] = new]
           goes(i) == i = current /\ cs[i].holders = {}
           after == IF current # Nil /\ cs[current].holders = {} THEN Dispose(dialed, current) ELSE dialed
<1>2. new \in CoreType
  BY BlankTypes DEF NoCore, CoreType, IInv, PageTypeOK
<1>3. /\ new.st = "live" /\ new.product = product /\ new.holders = holders /\ ~new.lingers
      /\ new.redial = redial /\ new.boot \in {"waiting", "booting"}
  BY DEF NoCore
<1> HIDE DEF new
<1>4. dialed \in [Ids -> CoreType]
  BY <1>2
<1>5. \A i \in Ids : /\ cs[i].st = core[i].st /\ cs[i].holders = core[i].holders /\ cs[i].boot = core[i].boot
                     /\ cs[i].product = core[i].product /\ cs[i].lingers = core[i].lingers
                     /\ cs[i].redial = core[i].redial
  BY DEF IInv, PageTypeOK, CoreType
<1>6. current # Nil => current \in Ids /\ current # j /\ Live(current)
  BY <1>1, <1>5 DEF IInv, PageTypeOK, Homes, Live
<1>7. core[j].st = "none" /\ core[j] = NoCore /\ runs[j] = "none"
  BY <1>1, <1>5 DEF IInv, Blank
<1>8. after \in [Ids -> CoreType] /\ \A i \in Ids : after[i] = IF i = j THEN new ELSE IF goes(i) THEN Disposed(cs[i]) ELSE cs[i]
  <2>1. CASE current # Nil /\ cs[current].holders = {}
    <3>1. dialed[current] = cs[current] /\ Disposed(dialed[current]) \in CoreType
      BY <1>4, <1>6, <2>1, DisposedFields
    <3>2. after = [dialed EXCEPT ![current] = Disposed(cs[current])]
      BY <1>4, <1>6, <2>1, <3>1, DisposeOne
    <3>. QED BY <1>4, <1>6, <2>1, <3>1, <3>2
  <2>2. CASE ~(current # Nil /\ cs[current].holders = {})
    BY <1>4, <2>2 DEF CoreAssumption
  <2>. QED BY <2>1, <2>2
<1>9. /\ core' = after
      /\ runs' = [i \in Ids |-> IF Live(i) /\ after[i].st = "gone" THEN Ended(runs[i]) ELSE runs[i]]
  BY <1>1 DEF Become, new
<1>10. \A i \in Ids : goes(i) => Live(i) /\ core[i].holders = {}
  BY <1>5, <1>6 DEF CoreAssumption
<1>11. \A i \in Ids : LET c == Disposed(cs[i]) IN
         c.st = "gone" /\ ~c.lingers /\ c.holders = cs[i].holders
         /\ c.boot = IF cs[i].boot = "waiting" THEN "dropped" ELSE cs[i].boot
  BY DisposedFields
<1> HIDE DEF after, dialed
<1>12. /\ core'[j].st = "live" /\ core'[j].product = product /\ core'[j].holders = holders /\ ~core'[j].lingers
       /\ core'[j].redial = redial /\ core'[j].boot \in {"waiting", "booting"}
  BY <1>3, <1>8, <1>9
<1>13. \A i \in Ids \ {j} : goes(i) =>
         /\ core'[i].st = "gone" /\ ~core'[i].lingers /\ core'[i].holders = {}
  BY <1>8, <1>9, <1>11
<1>14. \A i \in Ids \ {j} : ~goes(i) =>
         /\ core'[i].st = core[i].st /\ core'[i].holders = core[i].holders /\ core'[i].boot = core[i].boot
         /\ core'[i].lingers = core[i].lingers /\ (core[i].st = "none" => core'[i] = core[i])
  BY <1>5, <1>8, <1>9 DEF Live
<1>15. \A l \in Leases :
         /\ l \in holders => lease[l].at = "none" /\ lease'[l] = [at |-> "waiting", of |-> j, down |-> FALSE]
         /\ l \notin holders => lease'[l].at = lease[l].at /\ lease'[l].of = lease[l].of
         /\ l \notin holders /\ lease[l].at = "none" => lease'[l] = NoLease
  <2>1. \A l \in Leases : lease[l] \in LeaseType /\ (lease[l].at = "none" => lease[l] = NoLease)
    BY DEF IInv, PageTypeOK, Books
  <2>2. \A l \in Leases : lease[l].at = "none" => ~(redial /\ lease[l].of = current)
    BY <1>6, <2>1 DEF NoLease, CoreAssumption
  <2>3. \A l \in Leases : l \in holders => lease[l].at = "none"
    BY DEF NoLease
  <2> SUFFICES ASSUME NEW l \in Leases
               PROVE  /\ l \in holders => lease[l].at = "none" /\ lease'[l] = [at |-> "waiting", of |-> j, down |-> FALSE]
                      /\ l \notin holders => lease'[l].at = lease[l].at /\ lease'[l].of = lease[l].of
                      /\ l \notin holders /\ lease[l].at = "none" => lease'[l] = NoLease
    OBVIOUS
  <2>4. l \in holders => lease'[l] = [at |-> "waiting", of |-> j, down |-> FALSE]
    BY <1>1
  <2>5. l \notin holders => lease'[l] = [lease[l] EXCEPT !.down = @ \/ (redial /\ lease[l].of = current)]
    BY <1>1
  <2>6. l \notin holders => lease'[l].at = lease[l].at /\ lease'[l].of = lease[l].of
    BY <2>1, <2>5 DEF LeaseType
  <2>7. l \notin holders /\ lease[l].at = "none" => lease'[l] = NoLease
    <3> SUFFICES ASSUME l \notin holders, lease[l].at = "none" PROVE lease'[l] = NoLease
      OBVIOUS
    <3>1. (NoLease.down \/ (redial /\ lease[l].of = current)) = FALSE
      BY <2>2 DEF NoLease
    <3>2. lease'[l] = [NoLease EXCEPT !.down = FALSE]
      BY <2>1, <2>5, <3>1
    <3>. QED BY <3>2 DEF NoLease
  <2>. QED BY <2>3, <2>4, <2>6, <2>7
<1>16. \A l \in Leases : lease[l].at # "none" => lease[l].of \in Ids \ {j} /\ Live(lease[l].of) /\ ~goes(lease[l].of)
  BY <1>5, <1>7 DEF IInv, Books, Live
<1> HIDE DEF goes
<1>17. PageTypeOK'
  <2>1. runs' \in [Ids -> {"none", "up", "disposed", "twice"}]
    BY <1>9 DEF IInv, PageTypeOK, Ended
  <2>2. lease' \in [Leases -> LeaseType]
    <3>1. \A l \in Leases : [lease[l] EXCEPT !.down = @ \/ (redial /\ lease[l].of = current)] \in LeaseType
      BY DEF IInv, PageTypeOK, LeaseType
    <3>. QED BY <1>1, <3>1 DEF LeaseType
  <2>. QED BY <1>1, <1>8, <1>9, <2>1, <2>2 DEF IInv, PageTypeOK
<1>18. Blank'
  BY <1>9, <1>12, <1>13, <1>14 DEF IInv, Blank, Live
<1>19. Books'
  <2>1. \A l \in Leases : lease'[l].at # "none" =>
          /\ lease'[l].of \in Ids /\ core'[lease'[l].of].st = "live"
          /\ lease'[l].at = "held" <=> core'[lease'[l].of].boot = "up"
    BY <1>12, <1>14, <1>15, <1>16 DEF IInv, Books, Live
  <2>2. ASSUME NEW i \in Ids, NEW l \in Leases
        PROVE  l \in core'[i].holders <=> lease'[l].at # "none" /\ lease'[l].of = i
    <3>1. CASE i = j
      BY <1>12, <1>15, <1>16, <3>1
    <3>2. CASE i # j /\ goes(i)
      BY <1>13, <1>15, <1>16, <3>2
    <3>3. CASE i # j /\ ~goes(i)
      BY <1>14, <1>15, <1>16, <3>3 DEF IInv, Books
    <3>. QED BY <3>1, <3>2, <3>3
  <2>. QED BY <1>15, <2>1, <2>2 DEF Books, Live
<1>20. Homes'
  <2>1. \A i \in Ids \ {j} : Live(i)' => Live(i) /\ core'[i].holders # {}
    BY <1>5, <1>13, <1>14 DEF IInv, Homes, UnheldServes, Live, goes
  <2>. QED BY <1>1, <1>12, <1>13, <1>14, <2>1 DEF IInv, Homes, UnheldServes, Live
<1>21. Runtimes'
  BY <1>7, <1>9, <1>10, <1>12, <1>13, <1>14 DEF IInv, PageTypeOK, Runtimes, Live, Ended
<1>. QED BY <1>17, <1>18, <1>19, <1>20, <1>21 DEF IInv

----------------------------------------------------------------------------
(* The actions. *)

LEMMA AcquireKeeps ==
  ASSUME CoreAssumption, IInv, NEW l \in Leases, Acquire(l)
  PROVE  IInv'
<1>1. CASE (\A i \in Ids : ~Serves(i)) /\ Dial(core, {l}, FALSE)
  <2>1. core \in [Ids -> CoreType] /\ {l} \in SUBSET Leases /\ lease[l] = NoLease /\ UNCHANGED <<product, changes>>
    BY DEF Acquire, IInv, PageTypeOK
  <2>. QED BY <1>1, <2>1, DialKeeps
<1>2. ASSUME NEW i \in Ids, Serves(i), UNCHANGED current,
             Become([core EXCEPT ![i].holders = @ \cup {l}, ![i].lingers = FALSE]),
             lease' = [lease EXCEPT ![l] = [at |-> IF core[i].boot = "up" THEN "held" ELSE "waiting", of |-> i,
                                            down |-> FALSE]]
      PROVE  IInv'
  <2> DEFINE c == [core[i] EXCEPT !.holders = @ \cup {l}, !.lingers = FALSE]
  <2>1. c \in CoreType /\ c.st = "live" /\ Live(i) /\ c.boot = core[i].boot /\ c.holders = core[i].holders \cup {l}
        /\ ~c.lingers
    BY <1>2 DEF Serves, IInv, PageTypeOK, Homes, CoreType, Live, CoreAssumption
  <2>2. core' = [core EXCEPT ![i] = c]
    BY <1>2 DEF Become, IInv, PageTypeOK, CoreType
  <2>3. runs' = [runs EXCEPT ![i] = runs[i]]
    BY <2>1, <2>2, <1>2 DEF Become, IInv, PageTypeOK, Live
  <2> HIDE DEF c
  <2>4. /\ lease' \in [Leases -> LeaseType] /\ lease'[l].of = i /\ (lease'[l].at = "held" <=> c.boot = "up")
        /\ lease'[l].at # "none" /\ \A k \in Leases \ {l} : lease'[k] = lease[k]
    BY <1>2, <2>1 DEF IInv, PageTypeOK, LeaseType
  <2>5. lease[l] = NoLease /\ lease[l].at = "none" /\ UNCHANGED <<product, changes>>
    BY DEF Acquire, NoLease
  <2>6. runs[i] \in {"none", "up"} /\ (runs[i] = "up" <=> c.boot = "up")
    BY <2>1 DEF IInv, PageTypeOK, Runtimes
  <2>7. \A k \in Leases : /\ k \in c.holders <=> lease'[k].at # "none" /\ lease'[k].of = i
                          /\ lease'[k].at = "none" => lease'[k] = NoLease
                          /\ lease'[k].of = i => (lease'[k].at = "held" <=> c.boot = "up")
                          /\ lease'[k].of = i => lease[k].at = "none" \/ lease[k].of = i
    BY <2>1, <2>4, <2>5 DEF IInv, Books, NoLease, CoreAssumption
  <2>8. Stays(i, c, runs[i])
    BY <1>2, <2>1, <2>2, <2>3, <2>4, <2>5, <2>6, <2>7 DEF Stays, Live
  <2>. QED BY <2>8, StaysKeeps
<1>. QED BY <1>1, <1>2 DEF Acquire

LEMMA ReleaseKeeps ==
  ASSUME CoreAssumption, IInv, NEW l \in Leases, Release(l)
  PROVE  IInv'
<1> DEFINE i == lease[l].of
           c == [core[i] EXCEPT !.holders = @ \ {l}]
           cs == [core EXCEPT ![i].holders = @ \ {l}]
<1>1. i \in Ids /\ Live(i) /\ core[i].boot = "up" /\ l \in core[i].holders
  BY DEF Release, IInv, Books
<1>2. c \in CoreType /\ c.holders = core[i].holders \ {l} /\ c.st = "live" /\ c.boot = "up" /\ c.lingers = core[i].lingers
      /\ c.product = core[i].product
  BY <1>1 DEF IInv, PageTypeOK, CoreType, Live
<1>3. cs = [core EXCEPT ![i] = c] /\ cs \in [Ids -> CoreType] /\ cs[i] = c
  BY <1>1, <1>2 DEF IInv, PageTypeOK
<1>4. /\ lease' = [lease EXCEPT ![l] = NoLease] /\ UNCHANGED <<product, changes>>
      /\ IF cs[i].holders # {} THEN Become(cs) /\ UNCHANGED current
         ELSE IF Lingers(i) THEN Become([cs EXCEPT ![i].lingers = TRUE]) /\ UNCHANGED current
         ELSE Become(Dispose(cs, i)) /\ current' = IF current = i THEN Nil ELSE current
  BY DEF Release
<1>5. /\ lease' \in [Leases -> LeaseType] /\ lease'[l] = NoLease /\ \A k \in Leases \ {l} : lease'[k] = lease[k]
      /\ lease[l].of = i /\ NoLease.of \notin Ids /\ NoLease.at = "none"
  BY <1>4, BlankTypes DEF IInv, PageTypeOK, NoLease, CoreAssumption
<1>6. runs[i] = "up"
  BY <1>1 DEF IInv, Runtimes
<1>7. \A k \in Leases : /\ k \in c.holders <=> lease'[k].at # "none" /\ lease'[k].of = i
                        /\ lease'[k].of = i => lease[k].of = i /\ lease'[k].at = "held"
                        /\ lease'[k].at = "none" => lease'[k] = NoLease
                        /\ lease'[k].of = i \/ (lease[k].of = i /\ lease'[k] = NoLease) \/ lease'[k] = lease[k]
  BY <1>1, <1>2, <1>5 DEF IInv, Books
<1> HIDE DEF c, cs
<1>8. CASE cs[i].holders # {}
  <2>1. core' = [core EXCEPT ![i] = c] /\ UNCHANGED current
    BY <1>3, <1>4, <1>8 DEF Become
  <2>2. runs' = [runs EXCEPT ![i] = "up"]
    BY <1>1, <1>2, <1>3, <1>4, <1>6, <1>8 DEF Become, IInv, PageTypeOK, Live
  <2>3. ~c.lingers
    BY <1>2, <1>3, <1>8 DEF IInv, Homes
  <2> HIDE DEF i
  <2>4. Stays(i, c, "up")
    BY <1>1, <1>2, <1>3, <1>4, <1>5, <1>7, <1>8, <2>1, <2>2, <2>3 DEF Stays, Live
  <2>. QED BY <1>1, <2>4, StaysKeeps
<1>9. CASE cs[i].holders = {} /\ Lingers(i)
  <2> DEFINE d == [c EXCEPT !.lingers = TRUE]
  <2>1. d \in CoreType /\ d.holders = c.holders /\ d.st = "live" /\ d.boot = "up" /\ d.lingers /\ d.product = c.product
    BY <1>2 DEF CoreType
  <2>2. core' = [core EXCEPT ![i] = d] /\ UNCHANGED current
    BY <1>1, <1>3, <1>4, <1>9 DEF Become, IInv, PageTypeOK
  <2>3. runs' = [runs EXCEPT ![i] = "up"]
    <3>1. Become(core')
      BY <1>4, <1>9 DEF Become
    <3>. QED BY <1>1, <1>6, <2>1, <2>2, <3>1 DEF Become, IInv, PageTypeOK, Live
  <2>4. i = current /\ d.product = product
    BY <1>2, <1>9, <2>1 DEF Lingers, Serves
  <2> HIDE DEF i, d
  <2>5. Stays(i, d, "up")
    BY <1>1, <1>2, <1>3, <1>4, <1>5, <1>7, <1>9, <2>1, <2>2, <2>3, <2>4 DEF Stays, Live
  <2>. QED BY <1>1, <2>5, StaysKeeps
<1>10. CASE cs[i].holders = {} /\ ~Lingers(i)
  <2>1. Become([core EXCEPT ![i] = Disposed(c)]) /\ current' = IF current = i THEN Nil ELSE current
    <3>1. Dispose(cs, i) = [core EXCEPT ![i] = Disposed(c)]
      <4>1. Dispose(cs, i) = [cs EXCEPT ![i] = Disposed(c)]
        BY <1>1, <1>3, DisposeOne
      <4>2. [cs EXCEPT ![i] = Disposed(c)] = [core EXCEPT ![i] = Disposed(c)]
        BY <1>1, <1>3 DEF IInv, PageTypeOK
      <4>. QED BY <4>1, <4>2
    <3>. QED BY <1>4, <1>10, <3>1
  <2>2. lease' = LeftBy(i)
    <3>1. \A k \in Leases : lease'[k] = IF lease[k].of = i THEN NoLease ELSE lease[k]
      BY <1>1, <1>2, <1>3, <1>5, <1>7, <1>10 DEF IInv, Books
    <3>. QED BY <1>4, <3>1 DEF LeftBy, IInv, PageTypeOK
  <2> HIDE DEF i
  <2>. QED BY <1>1, <1>2, <1>3, <1>4, <1>10, <2>1, <2>2, LeavesKeeps DEF IInv, PageTypeOK
<1>. QED BY <1>8, <1>9, <1>10

LEMMA DelayEndsKeeps ==
  ASSUME CoreAssumption, IInv, NEW i \in Ids, DelayEnds(i)
  PROVE  IInv'
<1>1. Live(i) /\ core[i].holders = {} /\ core[i] \in CoreType
  BY DEF DelayEnds, IInv, PageTypeOK, Homes
<1>2. Become([core EXCEPT ![i] = Disposed(core[i])]) /\ current' = IF current = i THEN Nil ELSE current
  BY DisposeOne DEF DelayEnds, IInv, PageTypeOK
<1>3. lease' = LeftBy(i)
  BY <1>1, NobodyLeaves DEF DelayEnds, CoreAssumption
<1>. QED BY <1>1, <1>2, <1>3, LeavesKeeps DEF DelayEnds, IInv, PageTypeOK

LEMMA SetProductKeeps ==
  ASSUME CoreAssumption, IInv, NEW p \in Products, SetProduct(p)
  PROVE  IInv'
<1>1. product' = p /\ p # product /\ changes' \in 0 .. MaxChanges /\ UNCHANGED lease
  BY DEF SetProduct, IInv, PageTypeOK, CoreAssumption
<1>2. CASE current # Nil /\ core[current].holders = {} /\ core[current].product # p
  <2>1. current \in Ids /\ Live(current) /\ core[current] \in CoreType
    BY <1>2 DEF IInv, PageTypeOK, Homes
  <2>2. Become([core EXCEPT ![current] = Disposed(core[current])]) /\ current' = Nil
    BY <1>2, <2>1, DisposeOne DEF SetProduct, IInv, PageTypeOK
  <2>3. lease' = LeftBy(current)
    BY <1>1, <1>2, <2>1, NobodyLeaves DEF CoreAssumption
  <2>. QED BY <1>1, <1>2, <2>1, <2>2, <2>3, LeavesKeeps
<1>3. CASE ~(current # Nil /\ core[current].holders = {} /\ core[current].product # p)
  <2>1. UNCHANGED <<core, runs, current, lease>>
    BY <1>1, <1>3 DEF SetProduct
  <2>2. \A i \in Ids : Live(i) => core[i].holders # {}
    BY <1>1, <1>3 DEF IInv, Homes, UnheldServes, CoreAssumption
  <2>. QED BY <1>1, <2>1, <2>2 DEF IInv, PageTypeOK, Blank, Books, Homes, UnheldServes, Runtimes, Live
<1>. QED BY <1>2, <1>3

LEMMA BootsKeeps ==
  ASSUME CoreAssumption, IInv, NEW i \in Ids, Boots(i)
  PROVE  IInv'
<1> DEFINE c == [core[i] EXCEPT !.boot = IF Live(i) THEN "up" ELSE "dropped"]
           r == IF Live(i) THEN "up" ELSE "disposed"
<1>1. /\ core' = [core EXCEPT ![i] = c] /\ runs' = [runs EXCEPT ![i] = r] /\ UNCHANGED <<product, current, changes>>
      /\ core[i].boot = "booting"
  BY DEF Boots, IInv, PageTypeOK
<1>2. \A l \in Leases : lease'[l] = IF l \in core[i].holders THEN [lease[l] EXCEPT !.at = "held"] ELSE lease[l]
  BY DEF Boots
<1>3. /\ c \in CoreType /\ c.st = core[i].st /\ c.holders = core[i].holders /\ c.lingers = core[i].lingers
      /\ c.product = core[i].product /\ c.redial = core[i].redial /\ c.boot = IF Live(i) THEN "up" ELSE "dropped"
  BY DEF IInv, PageTypeOK, CoreType
<1>4. c.st # "none" /\ ~c.lingers
  BY <1>1, <1>3 DEF IInv, Blank, Homes, NoCore
<1>5. lease' \in [Leases -> LeaseType]
  BY DEF Boots, IInv, PageTypeOK, LeaseType
<1>6. \A l \in Leases : lease[l] \in LeaseType /\ (l \in core[i].holders <=> lease[l].at # "none" /\ lease[l].of = i)
  BY DEF IInv, PageTypeOK, Books
<1>7. \A l \in Leases : /\ lease'[l].of = lease[l].of /\ (lease'[l].at = "none" <=> lease[l].at = "none")
                        /\ lease[l].of # i \/ lease[l].at = "none" => lease'[l] = lease[l]
                        /\ l \in core[i].holders => lease'[l].at = "held"
  BY <1>2, <1>6 DEF LeaseType
<1>8. \A l \in Leases : /\ lease[l].at = "none" => lease[l] = NoLease /\ lease[l].of # i
                        /\ lease[l].of = i => l \in core[i].holders /\ Live(i)
  BY <1>6, AtCore DEF Live
<1>9. Live(i) /\ c.holders = {} => i = current /\ c.product = product /\ c.redial
  BY <1>3, <1>4 DEF IInv, Homes, UnheldServes
<1>10. r \in {"none", "up", "disposed"} /\ (r = "up" <=> Live(i) /\ c.boot = "up") /\ (r = "disposed" => ~Live(i))
  BY <1>3
<1> HIDE DEF c, r
<1>11. Stays(i, c, r)
  BY <1>1, <1>3, <1>4, <1>5, <1>6, <1>7, <1>8, <1>9, <1>10 DEF Stays
<1>. QED BY <1>11, StaysKeeps

\* A core changes but for its holders and its place, and the requests at it do not.
LEMMA SameHoldersKeeps ==
  ASSUME CoreAssumption, IInv, NEW i \in Ids, NEW c \in CoreType,
         core' = [core EXCEPT ![i] = c], runs' = [runs EXCEPT ![i] = runs[i]],
         UNCHANGED <<product, current, changes>>,
         core[i].st # "none", c.st = core[i].st, c.holders = core[i].holders, c.lingers = core[i].lingers,
         c.product = core[i].product, c.redial = core[i].redial, c.boot = "up" <=> core[i].boot = "up",
         lease' \in [Leases -> LeaseType],
         \A l \in Leases : /\ lease'[l].of = lease[l].of /\ lease'[l].at = lease[l].at
                           /\ lease[l].of # i => lease'[l] = lease[l]
  PROVE  IInv'
<1>1. \A l \in Leases : /\ lease[l].at = "none" => lease[l] = NoLease /\ lease[l].of # i
                        /\ lease[l].of = i => Live(i) /\ (lease[l].at = "held" <=> c.boot = "up")
                        /\ l \in c.holders <=> lease[l].at # "none" /\ lease[l].of = i
  BY AtCore DEF Live
<1>2. c.lingers => Live(i) /\ c.holders = {} /\ c.boot = "up"
  BY DEF IInv, Homes
<1>3. Live(i) /\ c.holders = {} => i = current /\ c.product = product /\ (c.lingers \/ c.redial)
  BY DEF IInv, Homes, UnheldServes
<1>4. /\ runs[i] \in {"none", "up", "disposed"} /\ (runs[i] = "up" <=> Live(i) /\ c.boot = "up")
      /\ runs[i] = "disposed" => ~Live(i)
  BY DEF IInv, PageTypeOK, Runtimes
<1>5. Stays(i, c, runs[i])
  <2>1. \A l \in Leases :
         /\ lease'[l].at = "none" => lease'[l] = NoLease
         /\ lease'[l].of = i \/ (lease[l].of = i /\ lease'[l] = NoLease) \/ lease'[l] = lease[l]
         /\ lease'[l].of = i => Live(i) /\ (lease'[l].at = "held" <=> c.boot = "up")
         /\ lease'[l].of = i => lease[l].at = "none" \/ lease[l].of = i
         /\ l \in c.holders <=> lease'[l].at # "none" /\ lease'[l].of = i
    BY <1>1 DEF Live
  <2>. QED BY <1>2, <1>3, <1>4, <2>1 DEF Stays
<1>. QED BY <1>5, StaysKeeps

LEMMA BootFailsKeeps ==
  ASSUME CoreAssumption, IInv, NEW i \in Ids, BootFails(i)
  PROVE  IInv'
<1>1. core[i].boot = "booting" /\ core[i].st # "none" /\ ~core[i].lingers /\ UNCHANGED <<product, changes>>
  BY DEF BootFails, IInv, Blank, Homes, NoCore
<1>2. \A c \in CoreType : c.st = core[i].st /\ Become([core EXCEPT ![i] = c]) =>
        core' = [core EXCEPT ![i] = c] /\ runs' = [runs EXCEPT ![i] = runs[i]]
  BY DEF Become, IInv, PageTypeOK, Live
<1>3. CASE ~Live(i)
  <2> DEFINE c == [core[i] EXCEPT !.boot = "dropped"]
  <2>1. /\ c \in CoreType /\ c.st = core[i].st /\ c.holders = core[i].holders /\ c.lingers = core[i].lingers
        /\ c.product = core[i].product /\ c.redial = core[i].redial /\ c.boot = "dropped"
    BY DEF IInv, PageTypeOK, CoreType
  <2>2. Become([core EXCEPT ![i] = c]) /\ UNCHANGED <<lease, current>>
    BY <1>3 DEF BootFails, IInv, PageTypeOK
  <2> HIDE DEF c
  <2>. QED BY <1>1, <1>2, <2>1, <2>2, SameHoldersKeeps DEF IInv, PageTypeOK
<1>4. CASE Live(i) /\ core[i].redial /\ core[i].retry < Retries
  <2> DEFINE c == [core[i] EXCEPT !.boot = "waiting", !.retry = @ + 1]
  <2>0. core[i] \in CoreType /\ core[i].retry + 1 \in 0 .. Retries
    BY <1>4 DEF IInv, PageTypeOK, CoreType, CoreAssumption
  <2>1. /\ c \in CoreType /\ c.st = core[i].st /\ c.holders = core[i].holders /\ c.lingers = core[i].lingers
        /\ c.product = core[i].product /\ c.redial = core[i].redial /\ c.boot = "waiting"
    BY <2>0 DEF CoreType
  <2>2. Become([core EXCEPT ![i].boot = "waiting", ![i].retry = @ + 1]) /\ UNCHANGED <<lease, current>>
    BY <1>4 DEF BootFails
  <2>3. Become([core EXCEPT ![i] = c])
    BY <2>2 DEF IInv, PageTypeOK, CoreType
  <2> HIDE DEF c
  <2>. QED BY <1>1, <1>2, <2>1, <2>2, <2>3, SameHoldersKeeps DEF IInv, PageTypeOK
<1>5. CASE Live(i) /\ ~(core[i].redial /\ core[i].retry < Retries)
  <2> DEFINE failed == [core EXCEPT ![i].boot = "failed", ![i].faulted = TRUE, ![i].holders = {}]
             c == [core[i] EXCEPT !.boot = "failed", !.faulted = TRUE, !.holders = {}]
  <2>1. /\ c \in CoreType /\ c.st = core[i].st /\ c.holders = {} /\ c.lingers = core[i].lingers
        /\ c.product = core[i].product /\ c.redial = core[i].redial /\ c.boot = "failed"
    BY DEF IInv, PageTypeOK, CoreType
  <2>2. failed = [core EXCEPT ![i] = c] /\ failed \in [Ids -> CoreType] /\ failed[i] = c
    <3>1. failed = [core EXCEPT ![i] = c]
      BY DEF IInv, PageTypeOK, CoreType
    <3>. QED BY <2>1, <3>1 DEF IInv, PageTypeOK
  <2>3. /\ lease' = [l \in Leases |-> IF l \in core[i].holders THEN NoLease ELSE lease[l]]
        /\ IF core[i].holders = {} THEN Become(failed) /\ UNCHANGED current
           ELSE Become(Dispose(failed, i)) /\ current' = IF current = i THEN Nil ELSE current
    BY <1>5 DEF BootFails
  <2> HIDE DEF c, failed
  <2>4. CASE core[i].holders = {}
    <3>1. UNCHANGED lease /\ lease' \in [Leases -> LeaseType] /\ UNCHANGED current
      BY <2>3, <2>4 DEF IInv, PageTypeOK
    <3>2. core' = [core EXCEPT ![i] = c] /\ runs' = [runs EXCEPT ![i] = runs[i]]
      BY <1>2, <2>1, <2>2, <2>3, <2>4
    <3>. QED BY <1>1, <2>1, <2>4, <3>1, <3>2, SameHoldersKeeps
  <2>5. CASE core[i].holders # {}
    <3>1. Dispose(failed, i) = [core EXCEPT ![i] = Disposed(c)]
      <4>1. Dispose(failed, i) = [failed EXCEPT ![i] = Disposed(c)]
        BY <2>2, DisposeOne
      <4>. QED BY <2>2, <4>1 DEF IInv, PageTypeOK
    <3>2. lease' = LeftBy(i)
      <4>1. \A l \in Leases : l \in core[i].holders <=> lease[l].of = i
        BY DEF IInv, Books, NoLease, CoreAssumption
      <4>. QED BY <2>3, <4>1 DEF LeftBy
    <3>. QED BY <1>1, <1>5, <2>1, <2>3, <2>5, <3>1, <3>2, LeavesKeeps DEF IInv, PageTypeOK
  <2>. QED BY <2>4, <2>5
<1>. QED BY <1>3, <1>4, <1>5

LEMMA RedialsKeeps ==
  ASSUME CoreAssumption, IInv, NEW i \in Ids, Redials(i)
  PROVE  IInv'
<1> DEFINE c == [core[i] EXCEPT !.boot = "booting"]
<1>0. core[i] \in CoreType
  BY DEF IInv, PageTypeOK
<1>1. /\ c \in CoreType /\ c.st = core[i].st /\ c.holders = core[i].holders /\ c.lingers = core[i].lingers
      /\ c.product = core[i].product /\ c.redial = core[i].redial /\ c.boot = "booting"
  BY <1>0 DEF CoreType
<1>2. /\ core' = [core EXCEPT ![i] = c] /\ UNCHANGED <<product, current, lease, changes>> /\ core[i].boot = "waiting"
      /\ runs' = [runs EXCEPT ![i] = runs[i]]
  BY DEF Redials, IInv, PageTypeOK
<1>3. core[i].st # "none"
  BY <1>2 DEF IInv, Blank, NoCore
<1> HIDE DEF c
<1>. QED BY <1>1, <1>2, <1>3, SameHoldersKeeps DEF IInv, PageTypeOK

LEMMA GoesDownKeeps ==
  ASSUME CoreAssumption, IInv, NEW i \in Ids, GoesDown(i)
  PROVE  IInv'
<1> DEFINE down == [core EXCEPT ![i].faulted = TRUE]
           c == [core[i] EXCEPT !.faulted = TRUE]
<1>0. core[i] \in CoreType
  BY DEF IInv, PageTypeOK
<1>1. /\ c \in CoreType /\ c.st = core[i].st /\ c.holders = core[i].holders /\ c.lingers = core[i].lingers
      /\ c.product = core[i].product /\ c.redial = core[i].redial /\ c.boot = core[i].boot
  BY <1>0 DEF CoreType
<1>2. down = [core EXCEPT ![i] = c] /\ down \in [Ids -> CoreType] /\ down[i] = c
  BY <1>1 DEF IInv, PageTypeOK
<1>3. Live(i) /\ UNCHANGED <<product, changes>>
  BY DEF GoesDown
<1>4. CASE i = current /\ core[i].holders # {}
  <2>1. Dial(down, {}, TRUE) /\ current # Nil /\ {} \in SUBSET Leases
    BY <1>4 DEF GoesDown, CoreAssumption
  <2>2. \A j \in Ids : down[j] = core[j] \/ (Live(j) /\ down[j] = [core[j] EXCEPT !.faulted = TRUE])
    BY <1>3 DEF IInv, PageTypeOK
  <2> HIDE DEF down, c
  <2>. QED BY <1>2, <1>3, <2>1, <2>2, DialKeeps
<1>5. CASE i = current /\ core[i].holders = {}
  <2>1. Become(Dispose(down, i)) /\ current' = Nil /\ UNCHANGED lease
    BY <1>5 DEF GoesDown
  <2>2. Dispose(down, i) = [core EXCEPT ![i] = Disposed(c)]
    <3> HIDE DEF down, c
    <3>1. Dispose(down, i) = [down EXCEPT ![i] = Disposed(c)]
      BY <1>2, DisposeOne
    <3>. QED BY <1>2, <3>1 DEF IInv, PageTypeOK
  <2>3. lease' = LeftBy(i)
    BY <1>5, <2>1, NobodyLeaves DEF CoreAssumption
  <2> HIDE DEF down, c
  <2>. QED BY <1>1, <1>3, <1>5, <2>1, <2>2, <2>3, LeavesKeeps DEF IInv, PageTypeOK
<1>6. CASE i # current
  <2>1. Become(down) /\ UNCHANGED current
        /\ lease' = [l \in Leases |-> IF lease[l].of = i THEN [lease[l] EXCEPT !.down = TRUE] ELSE lease[l]]
    BY <1>6 DEF GoesDown
  <2>2. \A l \in Leases : [lease[l] EXCEPT !.down = TRUE] \in LeaseType
    BY DEF IInv, PageTypeOK, LeaseType
  <2>3. lease' \in [Leases -> LeaseType]
    BY <2>1, <2>2 DEF IInv, PageTypeOK
  <2>4. \A l \in Leases : /\ lease'[l].of = lease[l].of /\ lease'[l].at = lease[l].at
                          /\ lease[l].of # i => lease'[l] = lease[l]
    BY <2>1 DEF IInv, PageTypeOK, LeaseType
  <2> HIDE DEF down, c
  <2>5. core' = [core EXCEPT ![i] = c] /\ runs' = [runs EXCEPT ![i] = runs[i]]
    BY <1>1, <1>2, <1>3, <2>1 DEF Become, IInv, PageTypeOK, Live
  <2>6. core[i].st # "none" /\ UNCHANGED current
    BY <1>3, <2>1 DEF Live
  <2>. QED BY <1>1, <1>3, <2>3, <2>4, <2>5, <2>6, SameHoldersKeeps
<1>. QED BY <1>4, <1>5, <1>6

----------------------------------------------------------------------------
(* The theorems. *)

LEMMA StepInvariant == CoreAssumption /\ IInv /\ [PageNext]_pageVars => IInv'
<1> SUFFICES ASSUME CoreAssumption, IInv, [PageNext]_pageVars PROVE IInv'
  OBVIOUS
<1>1. CASE UNCHANGED pageVars
  BY <1>1 DEF pageVars, IInv, PageTypeOK, Blank, Books, Homes, UnheldServes, Runtimes, Live
<1>2. CASE \E l \in Leases : Acquire(l) \/ Release(l)
  BY <1>2, AcquireKeeps, ReleaseKeeps
<1>3. CASE \E p \in Products : SetProduct(p)
  BY <1>3, SetProductKeeps
<1>4. CASE \E i \in Ids : DelayEnds(i) \/ Boots(i) \/ BootFails(i) \/ Redials(i) \/ GoesDown(i)
  BY <1>4, DelayEndsKeeps, BootsKeeps, BootFailsKeeps, RedialsKeeps, GoesDownKeeps
<1>. QED BY <1>1, <1>2, <1>3, <1>4 DEF PageNext

LEMMA CoreInvariant == PageSpec => []IInv
<1>1. PageInit => IInv
  BY InitInvariant, CoreAssumption
<1>2. IInv /\ [PageNext]_pageVars => IInv'
  BY StepInvariant, CoreAssumption
<1>. QED BY <1>1, <1>2, PTL DEF PageSpec

\* What a request hears that was at a core before and is not afterwards.
Replaced ==
  \A l \in Leases : /\ lease'[l].down /\ ~lease[l].down => current' # lease[l].of
                    /\ lease'[l].at # "none" /\ lease[l].at = "none" => ~core'[lease'[l].of].faulted

\* A request that is at another core, or not told, hears nothing of it.
LEMMA QuietReplaces ==
  ASSUME IInv, \A l \in Leases : lease'[l] = NoLease \/ lease'[l].down = lease[l].down,
         \A l \in Leases : lease[l].at = "none" => lease'[l].at = "none"
  PROVE  Replaced
  BY DEF Replaced, NoLease

LEMMA DialReplaces ==
  ASSUME CoreAssumption, IInv, NEW cs \in [Ids -> CoreType], NEW holders \in SUBSET Leases, NEW redial \in BOOLEAN,
         \A i \in Ids : cs[i].st = core[i].st, IF redial THEN current # Nil ELSE holders # {}, Dial(cs, holders, redial)
  PROVE  Replaced
<1>1. PICK j \in Ids :
        /\ cs[j].st = "none"
        /\ LET dialed == [cs EXCEPT ![j] = [NoCore EXCEPT !.st = "live", !.product = product, !.holders = holders,
                                              !.redial = redial,
                                              !.boot = IF redial /\ ~SlotIsFree(cs) THEN "waiting" ELSE "booting"]]
           IN Become(IF current # Nil /\ cs[current].holders = {} THEN Dispose(dialed, current) ELSE dialed)
        /\ current' = j
        /\ lease' = [l \in Leases |-> IF l \in holders THEN [at |-> "waiting", of |-> j, down |-> FALSE]
                                      ELSE [lease[l] EXCEPT !.down = @ \/ (redial /\ lease[l].of = current)]]
  BY DEF Dial
<1>2. current # Nil => current \in Ids /\ current # j
  BY <1>1 DEF IInv, PageTypeOK, Homes, Live
<1>3. ~core'[j].faulted
  <2> DEFINE new == [NoCore EXCEPT !.st = "live", !.product = product, !.holders = holders, !.redial = redial,
                                   !.boot = IF redial /\ ~SlotIsFree(cs) THEN "waiting" ELSE "booting"]
             dialed == [cs EXCEPT ![j] = new]
  <2>1. ~new.faulted
    BY DEF NoCore
  <2> HIDE DEF new
  <2>2. dialed[j] = new /\ DOMAIN dialed = Ids
    OBVIOUS
  <2>3. core' = IF current # Nil /\ cs[current].holders = {} THEN Dispose(dialed, current) ELSE dialed
    BY <1>1 DEF Become, new
  <2> HIDE DEF dialed
  <2>4. core'[j] = new
    BY <1>2, <2>2, <2>3 DEF Dispose
  <2>. QED BY <2>1, <2>4
<1>4. ASSUME NEW l \in Leases
      PROVE  /\ lease'[l].down /\ ~lease[l].down => current' # lease[l].of
             /\ lease'[l].at # "none" /\ lease[l].at = "none" => ~core'[lease'[l].of].faulted
  <2>1. CASE l \in holders
    BY <1>1, <1>3, <2>1
  <2>2. CASE l \notin holders
    <3>1. lease'[l] = [lease[l] EXCEPT !.down = @ \/ (redial /\ lease[l].of = current)] /\ lease[l] \in LeaseType
      BY <1>1, <2>2 DEF IInv, PageTypeOK
    <3>2. lease'[l].at = lease[l].at
      BY <3>1 DEF LeaseType
    <3>3. lease'[l].down /\ ~lease[l].down => redial /\ lease[l].of = current
      BY <3>1 DEF LeaseType
    <3>. QED BY <1>1, <1>2, <3>2, <3>3
  <2>. QED BY <2>1, <2>2
<1>. QED BY <1>4 DEF Replaced

LEMMA StepReplaces == CoreAssumption /\ IInv /\ [PageNext]_pageVars => Replaced \/ UNCHANGED pageVars
<1> SUFFICES ASSUME CoreAssumption, IInv, PageNext PROVE Replaced
  OBVIOUS
<1>0. core \in [Ids -> CoreType] /\ lease \in [Leases -> LeaseType]
  BY DEF IInv, PageTypeOK
<1>1. ASSUME NEW l \in Leases, Acquire(l) PROVE Replaced
  <2>1. CASE Dial(core, {l}, FALSE)
    BY <1>0, <2>1, DialReplaces
  <2>2. ASSUME NEW i \in Ids, Serves(i), Become([core EXCEPT ![i].holders = @ \cup {l}, ![i].lingers = FALSE]),
               lease' = [lease EXCEPT ![l] = [at |-> IF core[i].boot = "up" THEN "held" ELSE "waiting", of |-> i,
                                              down |-> FALSE]]
        PROVE  Replaced
    <3>1. core'[i].faulted = core[i].faulted /\ ~core[i].faulted
      BY <1>0, <2>2 DEF Become, Serves, CoreType
    <3>2. /\ lease'[l].of = i /\ ~lease'[l].down
          /\ \A k \in Leases \ {l} : lease'[k] = lease[k]
      BY <1>0, <2>2
    <3>. QED BY <3>1, <3>2 DEF Replaced
  <2>. QED BY <1>1, <2>1, <2>2 DEF Acquire
<1>2. ASSUME NEW l \in Leases, Release(l) PROVE Replaced
  <2>1. lease' = [lease EXCEPT ![l] = NoLease]
    BY <1>2 DEF Release
  <2>. QED BY <1>0, <2>1, QuietReplaces DEF NoLease
<1>3. ASSUME NEW p \in Products, SetProduct(p) PROVE Replaced
  BY <1>3, QuietReplaces DEF SetProduct
<1>4. ASSUME NEW i \in Ids, DelayEnds(i) \/ Redials(i) PROVE Replaced
  BY <1>4, QuietReplaces DEF DelayEnds, Redials
<1>5. ASSUME NEW i \in Ids, Boots(i) PROVE Replaced
  <2>1. \A l \in Leases : lease'[l] = IF l \in core[i].holders THEN [lease[l] EXCEPT !.at = "held"] ELSE lease[l]
    BY <1>5 DEF Boots
  <2>2. \A l \in core[i].holders : lease[l].at # "none"
    BY <1>0 DEF IInv, Books, CoreType
  <2>. QED BY <1>0, <2>1, <2>2, QuietReplaces DEF LeaseType
<1>6. ASSUME NEW i \in Ids, BootFails(i) PROVE Replaced
  <2>1. \A l \in Leases : lease'[l] \in {NoLease, lease[l]}
    BY <1>6 DEF BootFails
  <2>2. NoLease.at = "none"
    BY DEF NoLease
  <2>3. \A l \in Leases : lease'[l] = NoLease \/ lease'[l].down = lease[l].down
    BY <2>1
  <2>4. \A l \in Leases : lease[l].at = "none" => lease'[l].at = "none"
    BY <2>1, <2>2
  <2>. QED BY <2>3, <2>4, QuietReplaces
<1>7. ASSUME NEW i \in Ids, GoesDown(i) PROVE Replaced
  <2> DEFINE down == [core EXCEPT ![i].faulted = TRUE]
  <2>1. CASE i = current /\ core[i].holders # {}
    <3>1. Dial(down, {}, TRUE) /\ current # Nil
      BY <1>7, <2>1 DEF GoesDown, CoreAssumption
    <3>2. down \in [Ids -> CoreType] /\ \A j \in Ids : down[j].st = core[j].st
      BY <1>0 DEF CoreType
    <3> HIDE DEF down
    <3>. QED BY <3>1, <3>2, DialReplaces
  <2>2. CASE i = current /\ core[i].holders = {}
    BY <1>7, <2>2, QuietReplaces DEF GoesDown
  <2>3. CASE i # current
    <3>1. UNCHANGED current
          /\ lease' = [l \in Leases |-> IF lease[l].of = i THEN [lease[l] EXCEPT !.down = TRUE] ELSE lease[l]]
      BY <1>7, <2>3 DEF GoesDown
    <3>2. \A l \in Leases : lease'[l].at = lease[l].at /\ (lease[l].of # i => lease'[l] = lease[l])
      BY <1>0, <3>1 DEF LeaseType
    <3>. QED BY <2>3, <3>1, <3>2 DEF Replaced
  <2>. QED BY <2>1, <2>2, <2>3
<1>. QED BY <1>1, <1>2, <1>3, <1>4, <1>5, <1>6, <1>7 DEF PageNext

\* CoresAreHeld: no core is disposed under a request that waits for it or holds it, and none stays in the page for
\* nobody, whatever faults, product changes and delays come (acquire, release, setProduct, dispose).
THEOREM CoresHeld == PageSpec => []CoresAreHeld
<1>1. IInv => CoresAreHeld
  BY DEF IInv, Books, Homes, UnheldServes, CoresAreHeld, LeasedStays
<1>. QED BY <1>1, CoreInvariant, PTL

\* RuntimeGoesOnce: a runtime that booted, in time or after its core was let go, is disposed exactly once (attempt,
\* dispose).
THEOREM RuntimesGo == PageSpec => []RuntimeGoesOnce
<1>1. IInv => RuntimeGoesOnce
  BY DEF IInv, Runtimes, RuntimeGoesOnce
<1>. QED BY <1>1, CoreInvariant, PTL

\* DownIsReplaced: who hears that its core went down finds another one in the page already, and no request gets a core
\* that went down (takeDown, acquire).
THEOREM LostAreReplaced == PageSpec => DownIsReplaced
<1>1. IInv /\ [PageNext]_pageVars => [Replaced]_pageVars
  BY StepReplaces, CoreAssumption
<1>2. Replaced <=> \A l \in Leases :
        /\ (lease'[l].down /\ ~lease[l].down => current' # lease[l].of)
        /\ (lease'[l].at # "none" /\ lease[l].at = "none" => ~core'[lease'[l].of].faulted)
  BY DEF Replaced
<1>. QED BY <1>1, <1>2, CoreInvariant, PTL DEF PageSpec, DownIsReplaced

(***************************************************************************)
(* The worker                                                               *)
(***************************************************************************)
\* A tab that was not served yet asks for no pause, and connects only once.
Asking ==
  /\ port \in [Tabs -> {"none", "queued", "served", "released", "closed"}]
  /\ asks \in [Tabs -> BOOLEAN]
  /\ \A t \in Tabs : port[t] \in {"none", "queued"} => ~asks[t]
  /\ \A t \in Tabs : tab[t] = "away" => port[t] = "none"
  /\ tab \in [Tabs -> {"away", "open", "gone"}]
  /\ spoke \subseteq {t \in Tabs : port[t] = "released"}

PauseInv == Asking /\ PauseIsEveryTabs

\* Every tab served waits to hear why, has its status open or was told.
HearInv ==
  /\ port \in [Tabs -> {"none", "queued", "served", "released", "closed"}]
  /\ closing \in {"none", "on_connect", "scheduled", "flushed", "closed", "disposed"}
  /\ closing \in {"scheduled", "flushed"} => reached
  /\ closing \in {"on_connect", "scheduled", "flushed"} => phase = "failed"
  /\ phase = "failed" => status = {}
  /\ closes \in Nat
  /\ \A t \in Served : t \in unheard \cup status \cup told

----------------------------------------------------------------------------
(* The pause. *)

\* Tabs that go leave a pause of those that stay.
LEMMA LetGoPause ==
  ASSUME PauseInv, NEW gone, gone \subseteq Served, NEW state,
         state \in [Tabs -> {"none", "queued", "served", "released", "closed"}],
         \A t \in Tabs : state[t] # port[t] =>
             port[t] \in {"served", "released"} /\ state[t] \in {"released", "closed"},
         {t \in Tabs : state[t] = "served"} = Served \ gone,
         LetGo(gone, state), UNCHANGED <<asks, tab>>
  PROVE  PauseInv'
<1>1. CASE MayClose(Unheard(gone))
  BY <1>1 DEF LetGo, CloseWorker, LetGoOfEveryPort, PauseInv, Asking, PauseIsEveryTabs, SetPort, Served
<1>2. CASE ~MayClose(Unheard(gone))
  <2>1. /\ port' = state /\ everyTabPaused' = EveryTabPaused(gone)
        /\ spoke' = {t \in spoke : state[t] = "released"}
    BY <1>2 DEF LetGo
  <2>2. Asking'
    BY <2>1 DEF PauseInv, Asking
  <2>3. Served' = Served \ gone
    BY <2>1 DEF Served
  <2>4. PauseIsEveryTabs'
    BY <2>1, <2>3 DEF PauseInv, PauseIsEveryTabs, EveryTabPaused
  <2>. QED BY <2>2, <2>4 DEF PauseInv
<1>. QED BY <1>1, <1>2

LEMMA PausePorts ==
  ASSUME PauseInv, NEW t \in Tabs,
         \/ HandleConnect(t) \/ HandleMessage(t) \/ ClosePort(t) \/ TabConnects(t) \/ TabLeaves(t)
         \/ \E message \in Messages : TabPosts(t, message)
  PROVE  PauseInv'
<1>1. CASE HandleConnect(t)
  <2>1. Served' = Served \cup {t} /\ ~asks'[t] /\ ~everyTabPaused'
    BY <1>1 DEF PauseInv, Asking, HandleConnect, SetPort, Served
  <2>2. Asking'
    BY <1>1 DEF PauseInv, Asking, HandleConnect, SetPort
  <2>. QED BY <2>1, <2>2 DEF PauseInv, PauseIsEveryTabs
<1>2. CASE HandleMessage(t)
  <2>. UNCHANGED tab
    BY <1>2 DEF HandleMessage
  <2>1. CASE port[t] = "released"
    BY <1>2, <2>1 DEF HandleMessage, PauseInv, Asking, PauseIsEveryTabs, Served
  <2>2. CASE port[t] = "served" /\ HandleStatus(t)
    BY <2>2 DEF HandleStatus, CloseWorker, LetGoOfEveryPort, SetPort,
                PauseInv, Asking, PauseIsEveryTabs, Served
  <2>3. ASSUME NEW pauses \in BOOLEAN, port[t] = "served", HandlePause(t, pauses)
        PROVE  PauseInv'
    BY <2>3 DEF HandlePause, PauseInv, Asking, PauseIsEveryTabs, Served
  <2>4. CASE port[t] = "served" /\ UNCHANGED <<port, asks, spoke, everyTabPaused>>
    BY <2>4 DEF PauseInv, Asking, PauseIsEveryTabs, Served
  <2>. QED BY <1>2, <2>1, <2>2, <2>3, <2>4 DEF HandleMessage
<1>3. CASE ClosePort(t)
  <2> DEFINE gone == {t} \cap Served
             state == SetPort({t}, "closed")
  <2>1. /\ LetGo(gone, state) /\ UNCHANGED <<asks, tab>>
        /\ port[t] \in {"served", "released"}
    BY <1>3 DEF ClosePort
  <2>2. /\ state \in [Tabs -> {"none", "queued", "served", "released", "closed"}]
        /\ \A u \in Tabs : state[u] = IF u = t THEN "closed" ELSE port[u]
    BY DEF SetPort, PauseInv, Asking
  <2>3. gone \subseteq Served /\ {u \in Tabs : state[u] = "served"} = Served \ gone
    BY <2>2 DEF Served
  <2> HIDE DEF gone, state
  <2>4. \A u \in Tabs : state[u] # port[u] =>
          port[u] \in {"served", "released"} /\ state[u] \in {"released", "closed"}
    BY <2>1, <2>2
  <2>. QED BY <2>1, <2>2, <2>3, <2>4, LetGoPause
<1>4. CASE TabConnects(t)
  <2>1. /\ port' = SetPort({t}, "queued") /\ UNCHANGED <<asks, spoke, everyTabPaused>>
        /\ tab' = [tab EXCEPT ![t] = "open"] /\ port[t] = "none"
    BY <1>4 DEF TabConnects, PauseInv, Asking
  <2>2. Served' = Served
    BY <2>1 DEF SetPort, Served
  <2>. QED BY <2>1, <2>2 DEF SetPort, PauseInv, Asking, PauseIsEveryTabs
<1>5. CASE TabLeaves(t) \/ \E message \in Messages : TabPosts(t, message)
  BY <1>5 DEF TabLeaves, TabPosts, ports, PauseInv, Asking, PauseIsEveryTabs, Served
<1>. QED BY <1>1, <1>2, <1>3, <1>4, <1>5

LEMMA PauseWorker ==
  ASSUME PauseInv,
         Beat \/ MarkReady \/ Fail \/ CloseTimerFires \/ MarkFlushed \/ DisposeWorker
  PROVE  PauseInv'
<1>1. CASE Beat
  <2> DEFINE state == [t \in Tabs |-> IF t \in spoke THEN "closed" ELSE SetPort(Silent, "released")[t]]
  <2>1. LetGo(Silent, state) /\ UNCHANGED <<asks, tab>>
    BY <1>1 DEF Beat
  <2>2. Silent \subseteq Served
    BY DEF Silent
  <2>3. /\ state \in [Tabs -> {"none", "queued", "served", "released", "closed"}]
        /\ \A t \in Tabs : state[t] = IF t \in spoke THEN "closed"
                                       ELSE IF t \in Silent THEN "released" ELSE port[t]
    BY DEF SetPort, PauseInv, Asking
  <2> HIDE DEF state
  <2>4. \A t \in Tabs : state[t] # port[t] =>
          port[t] \in {"served", "released"} /\ state[t] \in {"released", "closed"}
    BY <2>2, <2>3 DEF PauseInv, Asking, Served
  <2>5. {t \in Tabs : state[t] = "served"} = Served \ Silent
    BY <2>2, <2>3 DEF PauseInv, Asking, Served
  <2>. QED BY <2>1, <2>2, <2>3, <2>4, <2>5, LetGoPause
<1>2. CASE MarkReady \/ Fail \/ CloseTimerFires
  BY <1>2 DEF MarkReady, Fail, CloseTimerFires, ports, PauseInv, Asking, PauseIsEveryTabs, Served
<1>3. CASE MarkFlushed
  BY <1>3 DEF MarkFlushed, CloseWorker, LetGoOfEveryPort, SetPort, ports,
              PauseInv, Asking, PauseIsEveryTabs, Served
<1>4. CASE DisposeWorker
  BY <1>4 DEF DisposeWorker, LetGoOfEveryPort, SetPort, PauseInv, Asking, PauseIsEveryTabs, Served
<1>. QED BY <1>1, <1>2, <1>3, <1>4

----------------------------------------------------------------------------
(* The close. *)

\* What a step that closes the worker shows of it.
Heard ==
  closes' # closes =>
    /\ closes = 0 /\ closing # "disposed" /\ phase = "failed" /\ reached
    /\ \A t \in Served : t \in told' \/ tab[t] = "gone" \/ missed[t] = MissedBeats

\* A worker that may close told everyone it serves, but for those it lets go of.
LEMMA MayCloseTold ==
  ASSUME HearInv, NEW gone, MayClose(Unheard(gone))
  PROVE  /\ closing = "flushed" /\ phase = "failed" /\ reached
         /\ \A t \in Served \ gone : t \in told
  BY DEF HearInv, MayClose, Unheard

LEMMA CloseKeeps ==
  ASSUME HearInv, CloseWorker, UNCHANGED <<phase, reached>>
  PROVE  HearInv'
<1>1. /\ closing' = "closed" /\ closes' = closes + 1 /\ unheard' = {} /\ status' = {}
      /\ port' = SetPort({t \in Tabs : port[t] \in {"served", "released"}}, "closed")
  BY DEF CloseWorker, LetGoOfEveryPort
<1>. QED BY <1>1 DEF HearInv, Served, SetPort

\* Tabs the worker lets go of may be the last it waited for.
LEMMA LetGoHears ==
  ASSUME HearInv, NEW gone, gone \subseteq Served, NEW state,
         state \in [Tabs -> {"none", "queued", "served", "released", "closed"}],
         {t \in Tabs : state[t] = "served"} = Served \ gone,
         \A t \in gone : tab[t] = "gone" \/ missed[t] = MissedBeats,
         LetGo(gone, state), UNCHANGED <<phase, reached, told>>, Running
  PROVE  HearInv' /\ Heard
<1>1. CASE MayClose(Unheard(gone))
  <2>1. CloseWorker
    BY <1>1 DEF LetGo
  <2>. QED BY <1>1, <2>1, MayCloseTold, CloseKeeps DEF Heard, Running
<1>2. CASE ~MayClose(Unheard(gone))
  <2>1. /\ unheard' = unheard \ gone /\ status' = status \ gone /\ port' = state
        /\ UNCHANGED <<closing, closes>>
    BY <1>2 DEF LetGo, Unheard
  <2>2. Served' = Served \ gone
    BY <2>1 DEF Served
  <2>. QED BY <2>1, <2>2 DEF HearInv, Heard
<1>. QED BY <1>1, <1>2

LEMMA HearPorts ==
  ASSUME HearInv, NEW t \in Tabs,
         \/ HandleConnect(t) \/ HandleMessage(t) \/ ClosePort(t) \/ TabConnects(t) \/ TabLeaves(t)
         \/ \E message \in Messages : TabPosts(t, message)
  PROVE  HearInv' /\ Heard
<1>1. CASE HandleConnect(t)
  <2>1. /\ Served' = Served \cup {t} /\ unheard' = unheard \cup {t} /\ reached'
        /\ UNCHANGED <<phase, status, told, closes>>
    BY <1>1 DEF HandleConnect, SetPort, Served, HearInv, history
  <2>2. \/ UNCHANGED closing
        \/ closing = "on_connect" /\ closing' = "scheduled"
    BY <1>1, <2>1 DEF HandleConnect, CloseDeadWorker
  <2>3. port' \in [Tabs -> {"none", "queued", "served", "released", "closed"}]
    BY <1>1 DEF HandleConnect, SetPort, HearInv
  <2>4. HearInv'
    BY <2>1, <2>2, <2>3 DEF HearInv
  <2>. QED BY <2>1, <2>4 DEF Heard
<1>2. CASE HandleMessage(t)
  <2>. Running /\ UNCHANGED <<phase, reached, tab>>
    BY <1>2 DEF HandleMessage
  <2>1. CASE port[t] = "served" /\ HandleStatus(t)
    <3>1. CASE MayClose(Unheard({t}))
      <4>1. CloseWorker /\ t \in told' /\ told \subseteq told'
        BY <2>1, <3>1, MayCloseTold DEF HandleStatus
      <4>. QED BY <3>1, <4>1, MayCloseTold, CloseKeeps DEF Heard, Running
    <3>2. CASE ~MayClose(Unheard({t}))
      <4>1. /\ unheard' = unheard \ {t} /\ UNCHANGED <<port, closing, closes>>
            /\ phase = "failed" => told' = told \cup {t} /\ UNCHANGED status
            /\ phase # "failed" => status' = status \cup {t} /\ UNCHANGED told
        BY <2>1, <3>2 DEF HandleStatus, Unheard
      <4>2. HearInv'
        BY <4>1 DEF HearInv, Served
      <4>. QED BY <4>1, <4>2 DEF Heard
    <3>. QED BY <3>1, <3>2
  <2>2. CASE UNCHANGED <<port, unheard, status, closing, history>>
    BY <2>2 DEF history, HearInv, Heard, Served
  <2>. QED BY <1>2, <2>1, <2>2 DEF HandleMessage, HandlePause, history
<1>3. CASE ClosePort(t)
  <2> DEFINE gone == {t} \cap Served
             state == SetPort({t}, "closed")
  <2>1. LetGo(gone, state) /\ UNCHANGED <<phase, reached, told>> /\ Running /\ tab[t] = "gone"
    BY <1>3 DEF ClosePort
  <2>2. state \in [Tabs -> {"none", "queued", "served", "released", "closed"}]
    BY DEF SetPort, HearInv
  <2>3. gone \subseteq Served /\ {u \in Tabs : state[u] = "served"} = Served \ gone
    BY DEF SetPort, Served, HearInv
  <2>4. \A u \in gone : tab[u] = "gone"
    BY <2>1
  <2> HIDE DEF gone, state
  <2>. QED BY <2>1, <2>2, <2>3, <2>4, LetGoHears
<1>4. CASE TabConnects(t)
  <2>1. /\ port' = SetPort({t}, "queued") /\ UNCHANGED <<phase, closing, reached, status, unheard, history>>
    BY <1>4 DEF TabConnects, own
  <2>. QED BY <2>1 DEF SetPort, HearInv, Heard, Served, history
<1>5. CASE TabLeaves(t) \/ \E message \in Messages : TabPosts(t, message)
  <2>1. UNCHANGED <<own, ports, history>>
    BY <1>5 DEF TabLeaves, TabPosts
  <2>. QED BY <2>1 DEF own, ports, history, HearInv, Heard, Served
<1>. QED BY <1>1, <1>2, <1>3, <1>4, <1>5

LEMMA HearWorker ==
  ASSUME PauseInv, HearInv,
         Beat \/ MarkReady \/ Fail \/ CloseTimerFires \/ MarkFlushed \/ DisposeWorker
  PROVE  HearInv' /\ Heard
<1>1. CASE Beat
  <2> DEFINE state == [t \in Tabs |-> IF t \in spoke THEN "closed" ELSE SetPort(Silent, "released")[t]]
  <2>1. LetGo(Silent, state) /\ UNCHANGED <<phase, reached, told>> /\ Running
    BY <1>1 DEF Beat
  <2>2. Silent \subseteq Served /\ \A t \in Silent : missed[t] = MissedBeats
    BY DEF Silent
  <2>3. state \in [Tabs -> {"none", "queued", "served", "released", "closed"}]
    BY DEF SetPort, HearInv
  <2>4. {t \in Tabs : state[t] = "served"} = Served \ Silent
    BY <2>2 DEF SetPort, Served, PauseInv, Asking
  <2> HIDE DEF state
  <2>. QED BY <2>1, <2>2, <2>3, <2>4, LetGoHears
<1>2. CASE MarkReady \/ CloseTimerFires
  BY <1>2 DEF MarkReady, CloseTimerFires, ports, history, HearInv, Heard, Served
<1>3. CASE Fail
  <2>1. /\ phase' = "failed" /\ told' = told \cup status /\ status' = {}
        /\ UNCHANGED <<reached, port, unheard, closes>>
    BY <1>3 DEF Fail
  <2>2. closing' = IF closing \notin {"none", "on_connect"} THEN closing
                   ELSE IF reached THEN "scheduled" ELSE "on_connect"
    BY <1>3, <2>1 DEF Fail, CloseDeadWorker
  <2>3. HearInv'
    BY <2>1, <2>2 DEF HearInv, Served
  <2>. QED BY <2>1, <2>3 DEF Heard
<1>4. CASE MarkFlushed
  <2>. Running /\ UNCHANGED <<phase, reached, told>>
    BY <1>4 DEF MarkFlushed
  <2>1. CASE closing = "scheduled" /\ unheard = {}
    <3>1. CloseWorker
      BY <1>4, <2>1 DEF MarkFlushed
    <3>2. phase = "failed" /\ reached /\ \A t \in Served : t \in told
      BY <2>1 DEF HearInv
    <3>. QED BY <2>1, <3>1, <3>2, CloseKeeps DEF Heard, Running
  <2>2. CASE closing # "scheduled"
    BY <1>4, <2>2 DEF MarkFlushed, ports, HearInv, Heard, Served
  <2>3. CASE closing = "scheduled" /\ unheard # {}
    BY <1>4, <2>3 DEF MarkFlushed, HearInv, Heard, Served
  <2>. QED BY <2>1, <2>2, <2>3
<1>5. CASE DisposeWorker
  BY <1>5 DEF DisposeWorker, LetGoOfEveryPort, SetPort, history, HearInv, Heard, Served
<1>. QED BY <1>1, <1>2, <1>3, <1>4, <1>5

----------------------------------------------------------------------------
(* The theorems about the worker. *)

LEMMA PauseHolds == WorkerSpec => []PauseInv
<1>1. WorkerInit => PauseInv
  BY DEF WorkerInit, PauseInv, Asking, PauseIsEveryTabs, Served
<1>2. PauseInv /\ [WorkerNext]_workerVars => PauseInv'
  <2> SUFFICES ASSUME PauseInv, [WorkerNext]_workerVars PROVE PauseInv'
    OBVIOUS
  <2>1. CASE UNCHANGED workerVars
    BY <2>1 DEF workerVars, ports, PauseInv, Asking, PauseIsEveryTabs, Served
  <2>2. CASE TabStep
    BY <2>2, PausePorts DEF TabStep
  <2>3. CASE WorkerStep
    BY <2>3, PausePorts, PauseWorker DEF WorkerStep
  <2>. QED BY <2>1, <2>2, <2>3 DEF WorkerNext
<1>. QED BY <1>1, <1>2, PTL DEF WorkerSpec

\* PauseIsEveryTabs: whoever connected, left, was released or changed its mind, while any tab is
\* served the network is paused exactly when all of them ask for it (updateEveryTabPaused).
THEOREM WorkerPause == WorkerSpec => []PauseIsEveryTabs
<1>1. PauseInv => PauseIsEveryTabs
  BY DEF PauseInv
<1>. QED BY <1>1, PauseHolds, PTL

\* ClosesOnceHeard: the worker closes itself once, only when it failed and was not disposed, and
\* everyone it serves was told why, went away or was silent for too long (closeOnceHeard,
\* markFlushed, dispose).
THEOREM WorkerCloses == WorkerSpec => ClosesOnceHeard
<1>1. WorkerInit => HearInv
  BY DEF WorkerInit, HearInv, Served
<1>2. PauseInv /\ HearInv /\ [WorkerNext]_workerVars => HearInv' /\ Heard
  <2> SUFFICES ASSUME PauseInv, HearInv, [WorkerNext]_workerVars PROVE HearInv' /\ Heard
    OBVIOUS
  <2>1. CASE UNCHANGED workerVars
    BY <2>1 DEF workerVars, own, ports, history, HearInv, Heard, Served
  <2>2. CASE TabStep
    BY <2>2, HearPorts DEF TabStep
  <2>3. CASE WorkerStep
    BY <2>3, HearPorts, HearWorker DEF WorkerStep
  <2>. QED BY <2>1, <2>2, <2>3 DEF WorkerNext
<1>. QED BY <1>1, <1>2, PauseHolds, PTL DEF WorkerSpec, ClosesOnceHeard, Heard

=============================================================================
