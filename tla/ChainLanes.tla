---------------------------- MODULE ChainLanes ----------------------------
(***************************************************************************)
(* The lanes of one chain (packages/chains/src/createChainLanes.ts) and the *)
(* router each consumer has over them (createLaneRouter.ts): connections of *)
(* one broker each, opened and closed to stay under the chain's follow      *)
(* limit.  A broker appears by its sessions and its follows, as             *)
(* ChainBroker counts them, and a lane's transport by whether it is open.   *)
(*                                                                          *)
(* Calls are synchronous and run to their end, except where they deliver    *)
(* something: `work` is what the calls under way have yet to do, the        *)
(* innermost first, and consumers act between its steps.  A new lane's      *)
(* status reaches only status listeners, which do not act on the lanes.     *)
(***************************************************************************)
EXTENDS Naturals, Sequences, SequencesExt, FiniteSets

CONSTANTS Consumers,    \* consumer ids, each connected once
          None,         \* no lane
          FollowLimit,  \* followLimit of the chain's transport
          Reports,      \* the statuses a lane's transport reports
          Failing,      \* which of "build", "connect", "close", "open" may throw
          MaxLanes,     \* bound on the lane ids
          MaxFollows    \* bound on the follows sent

ASSUME LanesAssumption ==
  /\ Reports \subseteq {"connecting", "connected", "disconnected"}
  /\ Failing \subseteq {"build", "connect", "close", "open"}
  /\ None \notin Nat
  /\ FollowLimit \in Nat \ {0} /\ MaxLanes \in Nat \ {0} /\ MaxFollows \in Nat

VARIABLES lanes,     \* the ids of the open lanes
          nextLane,
          lane,      \* each lane: its status, the consumers with a session on it, and whether its transport is open
          follow,    \* the follows sent, each with its owner, its lane and its stage at the broker
          paused, halted, closed, reported,
          consumer,  \* where each consumer is in its life
          home,      \* its home lane
          halts,     \* history: the halts it heard
          work

vars == <<lanes, nextLane, lane, follow, paused, halted, closed, reported, consumer, home, halts, work>>

LaneIds == 0 .. MaxLanes - 1
Statuses == {"connecting", "connected", "disconnected"}
Waiting == {"asked", "held"}                              \* its owner waits for its answer or its events
Counted == {"asked", "held", "orphaned", "released"}      \* what countFollows() counts

TypeOK ==
  /\ nextLane \in 1 .. MaxLanes /\ lanes \subseteq 0 .. nextLane - 1
  /\ lane \in [LaneIds -> [status : Statuses, sessions : SUBSET Consumers, up : BOOLEAN]]
  /\ \A n \in DOMAIN follow : follow[n] \in [by : Consumers, on : LaneIds, stage : Counted \cup {"over"}]
  /\ reported \in Statuses /\ consumer \in [Consumers -> {"new", "open", "left"}]
  /\ \A c \in Consumers : consumer[c] = "open" => home[c] \in LaneIds
  /\ halts \in [Consumers -> 0 .. 1]

\* Mutant of NewLane: a lane built while paused connects.
NewLaneOpen == [status |-> IF paused THEN "disconnected" ELSE "connecting", sessions |-> {}, up |-> TRUE]

NewLane == [status |-> IF paused THEN "disconnected" ELSE "connecting", sessions |-> {}, up |-> ~paused]

Init ==
  /\ paused \in BOOLEAN
  /\ lanes = {0} /\ nextLane = 1
  /\ lane = [l \in LaneIds |-> IF l = 0 THEN NewLane ELSE [NewLane EXCEPT !.up = FALSE]]
  /\ follow = <<>> /\ halted = FALSE /\ closed = FALSE
  /\ reported = NewLane.status
  /\ consumer = [c \in Consumers |-> "new"] /\ home = [c \in Consumers |-> None]
  /\ halts = [c \in Consumers |-> 0] /\ work = <<>>

----------------------------------------------------------------------------
(* Bookkeeping. *)

\* Mutant of CountFollows: what is in flight is not counted.
CountHeld(l) == Cardinality({n \in DOMAIN follow : follow[n].on = l /\ follow[n].stage = "held"})

CountFollows(l) == Cardinality({n \in DOMAIN follow : follow[n].on = l /\ follow[n].stage \in Counted})

HasRoom(l) == CountFollows(l) < FollowLimit
Roomy == {l \in lanes : HasRoom(l)}
Lowest(S) == CHOOSE l \in S : \A k \in S : l <= k
CountHomes(l) == Cardinality({c \in lane[l].sessions : home[c] = l})

\* pickHomeLane() among the open lanes: the fewest homes, the lowest id on a tie.
PickHome == Lowest({l \in Roomy : \A k \in Roomy : CountHomes(l) <= CountHomes(k)})

GetStatus(open, of) ==
  IF open = {} \/ \E l \in open : of[l].status = "disconnected" THEN "disconnected"
  ELSE IF \A l \in open : of[l].status = "connected" THEN "connected" ELSE "connecting"

Doing(step) == work # <<>> /\ Head(work).do = step
Do(step, l, c) == [do |-> step, lane |-> l, of |-> c]

\* The lanes are kept in the order they were opened, and walked in it.
Ascending(S) == CHOOSE s \in [1 .. Cardinality(S) -> S] : \A i, j \in DOMAIN s : i < j => s[i] < s[j]
OnEach(S, step) == [i \in 1 .. Cardinality(S) |-> Do(step, Ascending(S)[i], None)]

\* The follows of a session that ends: an answer still to come is nobody's, and what was held is
\* released.
EndFollows(c, l) ==
  [n \in DOMAIN follow |->
     IF follow[n].by # c \/ follow[n].on # l THEN follow[n]
     ELSE [follow[n] EXCEPT !.stage = IF @ = "asked" THEN "orphaned" ELSE IF @ = "held" THEN "released" ELSE @]]

\* The follows of a lane whose broker and transport are gone.
DropFollows(L) ==
  [n \in DOMAIN follow |-> IF follow[n].on \in L THEN [follow[n] EXCEPT !.stage = "over"] ELSE follow[n]]

Shut(L, of) == [l \in LaneIds |-> IF l \in L THEN [of[l] EXCEPT !.sessions = {}, !.up = FALSE] ELSE of[l]]

----------------------------------------------------------------------------
(* Halting. *)

\* reportHalt(): the pool hears the first halt and at once halts every lane.
ReportHalt(before) ==
  /\ halted' = TRUE
  /\ work' = IF halted THEN Tail(before) ELSE <<Do("halt", None, None)>> \o Tail(before)

\* halt(): the lanes are gone before anyone hears of it.
HaltLanes ==
  /\ Doing("halt")
  /\ lanes' = {} /\ reported' = "disconnected"
  /\ work' = OnEach(lanes, "haltLane") \o Tail(work)
  /\ UNCHANGED <<nextLane, lane, follow, paused, halted, closed, consumer, home, halts>>

\* Mutant of HaltLane: the lane closes without a word.
HaltLaneQuietly ==
  /\ Doing("haltLane")
  /\ work' = <<Do("shut", Head(work).lane, None)>> \o Tail(work)
  /\ UNCHANGED <<lanes, nextLane, lane, follow, paused, halted, closed, reported, consumer, home, halts>>

\* The broker takes its sessions out before it tells the first.
HaltLane ==
  /\ Doing("haltLane")
  /\ LET l == Head(work).lane
         told == SetToSeq(lane[l].sessions)
     IN  /\ work' = [i \in DOMAIN told |-> Do("tell", l, told[i])] \o <<Do("shut", l, None)>> \o Tail(work)
         /\ lane' = [lane EXCEPT ![l].sessions = {}]
  /\ UNCHANGED <<lanes, nextLane, follow, paused, halted, closed, reported, consumer, home, halts>>

\* handleHalt(): a consumer hears one halt, whichever of its lanes tells first.
HandleHalt(c) == halts' = [halts EXCEPT ![c] = IF @ = 0 THEN 1 ELSE @]

\* A session's requests in flight and follows are answered and stopped, and then it hears the halt.
TellHalt ==
  /\ Doing("tell")
  /\ LET l == Head(work).lane
         c == Head(work).of
     IN  /\ follow' = [n \in DOMAIN follow |->
                         IF follow[n].by = c /\ follow[n].on = l /\ follow[n].stage \in Waiting
                         THEN [follow[n] EXCEPT !.stage = "over"] ELSE follow[n]]
         /\ HandleHalt(c)
  /\ work' = Tail(work)
  /\ UNCHANGED <<lanes, nextLane, lane, paused, halted, closed, reported, consumer, home>>

\* The lane's transport closes once its sessions were told.
ShutLane ==
  /\ Doing("shut")
  /\ lane' = Shut({Head(work).lane}, lane)
  /\ follow' = DropFollows({Head(work).lane})
  /\ work' = Tail(work)
  /\ UNCHANGED <<lanes, nextLane, paused, halted, closed, reported, consumer, home, halts>>

----------------------------------------------------------------------------
(* Opening and closing lanes. *)

\* addLane(): the new lane is reported, and then the call that needed it goes on with it.
AddLane(then, c) ==
  /\ nextLane < MaxLanes
  /\ lanes' = lanes \cup {nextLane} /\ nextLane' = nextLane + 1
  /\ lane' = [lane EXCEPT ![nextLane] = NewLane]
  /\ reported' = GetStatus(lanes', lane')
  /\ work' = (IF reported' = reported THEN <<>> ELSE <<Do("reported", nextLane, None)>>)
               \o <<Do(then, nextLane, c)>> \o work
  /\ UNCHANGED halted

\* The status listeners have heard of the new lane.
LaneReported ==
  /\ Doing("reported")
  /\ work' = Tail(work)
  /\ UNCHANGED <<lanes, nextLane, lane, follow, paused, halted, closed, reported, consumer, home, halts>>

\* A lane that cannot be built halts the chain.
BuildFails ==
  /\ "build" \in Failing /\ nextLane < MaxLanes
  /\ nextLane' = nextLane + 1
  /\ ReportHalt(<<None>> \o work)
  /\ UNCHANGED <<lanes, lane, reported>>

\* Mutant of IsEmpty: an extra lane stays once it is empty.
IsNeverEmpty(l, sessions) == FALSE

\* closeIfEmpty(): an extra lane goes with its last session.
IsEmpty(l, sessions) == l # 0 /\ sessions = {} /\ l \in lanes

\* A session of consumer c on lane l ends, and an extra lane it leaves empty closes, which may
\* throw and then halts the chain.
EndSession(l, c) ==
  LET sessions == lane[l].sessions \ {c}
      closes == IsEmpty(l, sessions)
      open == IF closes THEN lanes \ {l} ELSE lanes
  IN  /\ lanes' = open
      /\ lane' = IF closes THEN Shut({l}, lane) ELSE [lane EXCEPT ![l].sessions = sessions]
      /\ follow' = IF closes THEN DropFollows({l}) ELSE EndFollows(c, l)
      /\ reported' = IF closes THEN GetStatus(open, lane) ELSE reported
      /\ \/ work' = Tail(work) /\ UNCHANGED halted
         \/ closes /\ "close" \in Failing /\ ReportHalt(work)

\* One session of a consumer that disconnects.
EndOne ==
  /\ Doing("end")
  /\ EndSession(Head(work).lane, Head(work).of)
  /\ UNCHANGED <<nextLane, paused, closed, consumer, home, halts>>

\* connectSession() on the lane that was picked, for the consumer's home or for its follow.
ConnectHome ==
  /\ Doing("connect")
  /\ LET l == Head(work).lane
         c == Head(work).of
     IN  \/ /\ lane' = [lane EXCEPT ![l].sessions = @ \cup {c}]
            /\ consumer' = [consumer EXCEPT ![c] = "open"] /\ home' = [home EXCEPT ![c] = l]
            /\ work' = Tail(work)
            /\ UNCHANGED <<lanes, follow, reported, halted>>
         \/ /\ "connect" \in Failing
            /\ EndSession(l, c)
            /\ consumer' = [consumer EXCEPT ![c] = "left"] /\ UNCHANGED home
  /\ UNCHANGED <<nextLane, paused, closed, halts>>

\* openLaneSession() if it has none there yet, and the follow goes out on it.
SendFollow ==
  /\ Doing("follow")
  /\ LET l == Head(work).lane
         c == Head(work).of
     IN  \/ /\ lane' = [lane EXCEPT ![l].sessions = @ \cup {c}]
            /\ follow' = Append(follow, [by |-> c, on |-> l, stage |-> "asked"])
            /\ work' = Tail(work)
            /\ UNCHANGED <<lanes, reported, halted>>
         \/ /\ "connect" \in Failing /\ c \notin lane[l].sessions
            /\ EndSession(l, c)
  /\ UNCHANGED <<nextLane, paused, closed, consumer, home, halts>>

----------------------------------------------------------------------------
(* The consumers, which act at rest and inside deliveries. *)

\* Inside a halt and a pause consumers hear something.
MayAct == IF work = <<>> THEN TRUE ELSE Head(work).do \in {"haltLane", "tell", "shut", "pause", "stop", "paused"}

Connect(c) ==
  /\ MayAct /\ consumer[c] = "new" /\ ~halted /\ ~closed
  /\ \/ /\ Roomy # {}
        /\ work' = <<Do("connect", PickHome, c)>> \o work
        /\ UNCHANGED <<lanes, nextLane, lane, reported, halted>>
     \/ Roomy = {} /\ AddLane("connect", c)
     \/ Roomy = {} /\ BuildFails
  /\ UNCHANGED <<follow, paused, closed, consumer, home, halts>>

\* pickFollowLane() among the open lanes: home, or the lowest.
PickFollow(c) == IF HasRoom(home[c]) THEN home[c] ELSE Lowest(Roomy)

\* A follow.  One no lane can take is answered with an error at once.
Follow(c) ==
  /\ MayAct /\ consumer[c] = "open" /\ Len(follow) < MaxFollows
  /\ ~halted /\ home[c] \in lanes
  /\ \/ /\ Roomy # {}
        /\ work' = <<Do("follow", PickFollow(c), c)>> \o work
        /\ UNCHANGED <<lanes, nextLane, lane, reported, halted>>
     \/ Roomy = {} /\ AddLane("follow", c)
     \/ Roomy = {} /\ BuildFails
  /\ UNCHANGED <<follow, paused, closed, consumer, home, halts>>

\* An unfollow goes to the lane that holds the follow's token.
Unfollow(n) ==
  /\ MayAct /\ consumer[follow[n].by] = "open" /\ follow[n].stage = "held"
  /\ follow' = [follow EXCEPT ![n].stage = "released"]
  /\ UNCHANGED <<lanes, nextLane, lane, paused, halted, closed, reported, consumer, home, halts, work>>

\* Mutant of LanesOf: only the home session ends.
HomeOf(c) == {home[c]}

LanesOf(c) == {l \in LaneIds : c \in lane[l].sessions}

\* disconnect(): every session the consumer has ends, one after the other, its home's first and the others in the
\* order they were opened, which is any.
Leave(c) ==
  /\ MayAct /\ consumer[c] = "open"
  /\ consumer' = [consumer EXCEPT ![c] = "left"]
  /\ \E order \in SetToSeqs(LanesOf(c)) :
       /\ home[c] \in LanesOf(c) => order[1] = home[c]
       /\ work' = [i \in DOMAIN order |-> Do("end", order[i], c)] \o work
  /\ UNCHANGED <<lanes, nextLane, lane, follow, paused, halted, closed, reported, home, halts>>

----------------------------------------------------------------------------
(* The pool. *)

Quiet == work = <<>>

\* pause(): every lane's connection closes, and then every lane still open is disconnected.
Pause ==
  /\ Quiet /\ ~paused /\ ~halted /\ ~closed
  /\ paused' = TRUE
  /\ work' = OnEach(lanes, "pause") \o OnEach(lanes, "paused")
  /\ UNCHANGED <<lanes, nextLane, lane, follow, halted, closed, reported, consumer, home, halts>>

\* A lane's follows are stopped one by one and its releases answered; an unanswered follow is kept.
PauseLane ==
  /\ Doing("pause")
  /\ LET l == Head(work).lane
         held == {n \in DOMAIN follow : follow[n].on = l /\ follow[n].stage = "held"}
     IN  /\ lane' = [lane EXCEPT ![l].up = FALSE]
         /\ follow' = [n \in DOMAIN follow |->
                         IF follow[n].on = l /\ follow[n].stage = "released"
                         THEN [follow[n] EXCEPT !.stage = "over"] ELSE follow[n]]
         /\ work' = [i \in 1 .. Cardinality(held) |-> Do("stop", l, Ascending(held)[i])] \o Tail(work)
  /\ UNCHANGED <<lanes, nextLane, paused, halted, closed, reported, consumer, home, halts>>

TellStop ==
  /\ Doing("stop")
  /\ follow' = [follow EXCEPT ![Head(work).of].stage = "over"]
  /\ work' = Tail(work)
  /\ UNCHANGED <<lanes, nextLane, lane, paused, halted, closed, reported, consumer, home, halts>>

\* The combined status is reported once, after the last lane.
LanePaused ==
  /\ Doing("paused")
  /\ lane' = IF Head(work).lane \in lanes THEN [lane EXCEPT ![Head(work).lane].status = "disconnected"] ELSE lane
  /\ reported' = IF Len(work) = 1 \/ work[2].do # "paused" THEN GetStatus(lanes, lane') ELSE reported
  /\ work' = Tail(work)
  /\ UNCHANGED <<lanes, nextLane, follow, paused, halted, closed, consumer, home, halts>>

\* resume(): one that throws leaves its lane closed, and the pool halts the chain.
Resume ==
  /\ Quiet /\ paused /\ ~halted /\ ~closed
  /\ paused' = FALSE
  /\ \/ /\ lane' = [l \in LaneIds |-> IF l \in lanes THEN [lane[l] EXCEPT !.up = TRUE] ELSE lane[l]]
        /\ UNCHANGED <<halted, work>>
     \/ /\ "open" \in Failing
        /\ \E fails \in lanes :
             lane' = [l \in LaneIds |-> IF l \in lanes \ {fails} THEN [lane[l] EXCEPT !.up = TRUE] ELSE lane[l]]
        /\ ReportHalt(<<None>>)
  /\ UNCHANGED <<lanes, nextLane, follow, closed, reported, consumer, home, halts>>

\* disconnectAll(): the chain is closed quietly.
DisconnectAll ==
  /\ Quiet /\ ~halted /\ ~closed
  /\ closed' = TRUE
  /\ lanes' = {} /\ lane' = Shut(lanes, lane) /\ follow' = DropFollows(lanes)
  /\ reported' = "disconnected"
  /\ UNCHANGED <<nextLane, paused, halted, consumer, home, halts, work>>

----------------------------------------------------------------------------
(* A lane's transport and node (external). *)

\* The hooks of a lane's transport: a status, or the end of it for good.
LaneStatus(l, status) ==
  /\ Quiet /\ l \in lanes /\ ~halted /\ lane[l].up /\ lane[l].status # status
  /\ lane' = [lane EXCEPT ![l].status = status]
  /\ reported' = GetStatus(lanes, lane')
  /\ UNCHANGED <<lanes, nextLane, follow, paused, halted, closed, consumer, home, halts, work>>

LaneHalts(l) ==
  /\ Quiet /\ l \in lanes
  /\ ReportHalt(<<None>>)
  /\ UNCHANGED <<lanes, nextLane, lane, follow, paused, closed, reported, consumer, home, halts>>

\* The stages a follow goes to when its node answers its request, its release, or ends it.
Answered == [asked |-> {"held", "over"}, orphaned |-> {"released", "over"}, released |-> {"over"},
             held |-> {"over"}]

NodeAnswers(n, stage) ==
  /\ Quiet /\ lane[follow[n].on].up
  /\ follow[n].stage \in Counted /\ stage \in Answered[follow[n].stage]
  /\ follow' = [follow EXCEPT ![n].stage = stage]
  /\ UNCHANGED <<lanes, nextLane, lane, paused, halted, closed, reported, consumer, home, halts, work>>
----------------------------------------------------------------------------

ConsumerStep ==
  \/ \E c \in Consumers : Connect(c) \/ Follow(c) \/ Leave(c)
  \/ \E n \in DOMAIN follow : Unfollow(n)

LanesStep ==
  \/ HaltLanes \/ HaltLane \/ TellHalt \/ ShutLane
  \/ LaneReported \/ EndOne \/ ConnectHome \/ SendFollow
  \/ PauseLane \/ TellStop \/ LanePaused

PoolStep == Pause \/ Resume \/ DisconnectAll

NodeStep ==
  \/ \E l \in lanes : LaneHalts(l) \/ \E status \in Reports : LaneStatus(l, status)
  \/ \E n \in DOMAIN follow, stage \in Counted \cup {"over"} : NodeAnswers(n, stage)

Next == ConsumerStep \/ LanesStep \/ PoolStep \/ NodeStep

Spec == Init /\ [][Next]_vars

----------------------------------------------------------------------------
(* Properties. *)

\* No lane is asked to run more follows than its node takes (hasRoom, countFollows).
LimitKept == \A l \in lanes : CountFollows(l) <= FollowLimit

\* Between calls an extra lane is open only for a session on it, and a lane that is not open has
\* neither sessions nor follows nor a connection (closeIfEmpty, halt, disconnectAll).
ExtraLanesInUse ==
  Quiet => /\ \A l \in lanes \ {0} : lane[l].sessions # {}
           /\ \A l \in LaneIds \ lanes : lane[l].sessions = {} /\ ~lane[l].up /\ CountFollows(l) = 0

\* A follow that runs or waits has its consumer's session on its lane; a consumer that left has
\* none anywhere (disconnect, connectSession).
FollowsHaveSessions ==
  Quiet => /\ \A n \in DOMAIN follow : follow[n].stage \in Waiting => follow[n].by \in lane[follow[n].on].sessions
           /\ \A l \in lanes : \A c \in lane[l].sessions : consumer[c] = "open"
           /\ ~halted /\ ~closed => \A c \in Consumers : consumer[c] = "open" => c \in lane[home[c]].sessions

\* A halt closes every lane and reaches every consumer that is there (handleHalt, halt).
HaltIsHeard ==
  Quiet /\ halted => lanes = {} /\ \A c \in Consumers : consumer[c] = "open" => halts[c] = 1

\* A lane is connected exactly while the chain is not paused, whenever it was opened, and while
\* paused what each holds is at most waiting for the resume (pause, resume, createLane).
PauseIsComplete ==
  Quiet =>
    /\ \A l \in lanes : lane[l].up <=> ~paused
    /\ paused => \A l \in lanes : lane[l].status = "disconnected"
    /\ paused => \A n \in DOMAIN follow : follow[n].on \in lanes => follow[n].stage \notin {"held", "released"}

\* Between calls sessions, lanes and follows agree, whatever failed or left on the way: no lane is open for nobody,
\* and no follow is on a lane its consumer has no session on (closeIfEmpty, disconnect, halt).
SessionsAgree == TypeOK /\ ExtraLanesInUse /\ FollowsHaveSessions

\* What is told to the chain reaches all of it: a halt every consumer, a pause every lane, those opened while it goes
\* on included (halt, pause, createLane).
EveryLaneFollows == HaltIsHeard /\ PauseIsComplete

=============================================================================
