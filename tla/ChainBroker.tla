---------------------------- MODULE ChainBroker ----------------------------
(***************************************************************************)
(* The broker of packages/chains/src/createChainBroker.ts, with its pending *)
(* requests, owned tokens and early subscriptions: many sessions share one  *)
(* connection to a node, each under request ids and subscription tokens of  *)
(* its own.                                                                 *)
(*                                                                          *)
(* Deliveries are synchronous.  `work` is what the upstream message being   *)
(* handled still has to deliver, and sessions may send, leave or halt the   *)
(* broker between two of its deliveries.  The next upstream message waits   *)
(* until it is empty.                                                       *)
(*                                                                          *)
(* The node and its two ordered channels are external: the node answers     *)
(* each tracked request once, and may send events of a subscription before  *)
(* the answer that names it.                                                *)
(***************************************************************************)
EXTENDS Naturals, Sequences, SequencesExt, FiniteSets

CONSTANTS Sessions,       \* session ids, each connected once
          Kinds,          \* the subscriptions asked for: "follow", "watch"
          Habits,         \* what else sessions send: "call", and "notify" for requests without an id
          None,           \* no token, no client
          Shares,         \* whether the node may answer a watch with one it already runs
          FollowLimit,    \* the follows a lane lets the broker hold
          MaxRequests,    \* bound on the requests after which sessions only release what they hold
          MaxEvents,      \* bound on the events the node sends
          MaxGarbled,     \* bound on the answers that do not parse
          MaxEarlyTokens, \* MAX_EARLY_SUBSCRIPTION_TOKENS
          MaxEarlyEvents  \* MAX_EARLY_SUBSCRIPTION_EVENTS_PER_TOKEN

ASSUME BrokerAssumption ==
  /\ Kinds \subseteq {"follow", "watch"} /\ Habits \subseteq {"call", "notify"}
  /\ Shares \in BOOLEAN
  /\ None \notin Nat /\ None \notin Sessions
  /\ {FollowLimit, MaxRequests, MaxEvents, MaxGarbled, MaxEarlyTokens, MaxEarlyEvents} \subseteq Nat
  /\ MaxEarlyTokens > 0 /\ MaxEarlyEvents > 0

VARIABLES session,   \* where each session is in its life
          pending,   \* the requests in flight, each with its broker id and owner
          counter,   \* the broker ids given out
          owned,     \* the subscriptions sessions hold, each under its local token
          early,     \* events held by token until an answer names it, the oldest token first
          work,      \* what the message being handled has yet to deliver
          toNode, fromNode,
          node,      \* the subscriptions the node runs, and the events it sent of each ever
          asked,     \* history: the requests of the sessions
          heard      \* history: what was heard under each local token

vars == <<session, pending, counter, owned, early, work, toNode, fromNode, node, asked, heard>>

ReleaseOf(kind) == IF kind = "follow" THEN "unfollow" ELSE "unwatch"
Releases == {ReleaseOf(kind) : kind \in Kinds}
Methods == Kinds \cup Releases \cup {"call"}

Halting == work # <<>> /\ Head(work).do = "halt"

\* A request's owner, as forwardForSession and sendRelease name it.
Owner(kind, s, client, method, token) ==
  [kind |-> kind, session |-> s, client |-> client, method |-> method, token |-> token]

TypeOK ==
  /\ session \in [Sessions -> {"new", "open", "halting", "quit", "left", "halted"}]
  /\ \A p \in pending :
       /\ p.id \in 1 .. counter
       /\ p.owner.kind \in {"session", "orphan", "release"}
       /\ p.owner.kind = "session" /\ ~Halting => session[p.owner.session] = "open"
       /\ p.owner.method \in Methods /\ p.owner.token \in DOMAIN node.sent \cup {None}
  /\ \A o \in owned : /\ o.local \in DOMAIN heard /\ o.token \in DOMAIN node.sent
                      /\ o.kind \in Kinds /\ (Halting \/ session[o.session] = "open")
  /\ \A i \in DOMAIN early : early[i].token \in DOMAIN node.sent /\ Len(early[i].events) \in 1 .. MaxEarlyEvents
  /\ \A i, j \in DOMAIN early : early[i].token = early[j].token => i = j
  /\ Len(early) <= MaxEarlyTokens
  /\ \A n \in DOMAIN asked : asked[n].session \in Sessions /\ asked[n].answers \in Nat

Init ==
  /\ session = [s \in Sessions |-> "new"]
  /\ pending = {} /\ counter = 0 /\ owned = {} /\ early = <<>> /\ work = <<>>
  /\ toNode = <<>> /\ fromNode = <<>>
  /\ node = [subs |-> {}, lost |-> {}, sent |-> <<>>, events |-> 0, garbled |-> 0]
  /\ asked = <<>> /\ heard = <<>>

----------------------------------------------------------------------------
(* Bookkeeping. *)

Holders(t) == {o \in owned : o.token = t}

\* Subscriptions in the order their local tokens were given out, which is that of the maps' keys.
InOrder(held) ==
  CHOOSE s \in [1 .. Cardinality(held) -> held] :
    \A i, j \in 1 .. Cardinality(held) : i < j => s[i].local < s[j].local

Releasing(t) == \E p \in pending : p.owner.token = t /\ p.owner.method \in Releases
MayOpen == \E p \in pending : p.owner.method \in Kinds

\* Mutant of CountFollows: a follow in flight is not counted.
CountHeld == Cardinality({o.token : o \in {x \in owned : x.kind = "follow"}})

\* countFollows(): a follow stays counted from its request to the answer to its unfollow.
CountFollows ==
  Cardinality({o.token : o \in {x \in owned : x.kind = "follow"}})
    + Cardinality({p \in pending : p.owner.method \in {"follow", "unfollow"}})

\* Mutant of EarlyDropped: what was delivered stays held.
EarlyKept(t) == early

\* Where events of token t are held, in one place at most.
EarlyAt(t) == {i \in DOMAIN early : early[i].token = t}
EarlyDropped(t) == IF EarlyAt(t) = {} THEN early ELSE RemoveAt(early, CHOOSE i \in EarlyAt(t) : TRUE)
EarlyOf(t) == IF EarlyAt(t) = {} THEN <<>> ELSE early[CHOOSE i \in EarlyAt(t) : TRUE].events

\* An event of a token no answer has named yet, within both caps.
Buffered(event) ==
  LET t == event.token
      room == IF Len(early) >= MaxEarlyTokens THEN Tail(early) ELSE early
  IN  IF EarlyAt(t) = {} THEN Append(room, [token |-> t, events |-> <<event>>])
      ELSE [i \in DOMAIN early |->
              IF early[i].token = t /\ Len(early[i].events) < MaxEarlyEvents
              THEN [early[i] EXCEPT !.events = Append(@, event)] ELSE early[i]]

\* Requests go upstream under fresh broker ids, each owned until its answer arrives.
Track(left, owners) ==
  /\ pending' = left \cup {[id |-> counter + i, owner |-> owners[i]] : i \in DOMAIN owners}
  /\ counter' = counter + Len(owners)
  /\ toNode' = toNode \o [i \in DOMAIN owners |->
                 [id |-> counter + i, method |-> owners[i].method, token |-> owners[i].token]]

\* The release of token t the broker sends itself.
SentRelease(kind, t) == Owner("release", None, 0, ReleaseOf(kind), t)

Asked(s, withId, answers) == Append(asked, [session |-> s, withId |-> withId, answers |-> answers])
Client == Len(asked) + 1

\* A session's request is refused, or answered, without going upstream.
AnswerHere(s, withId) ==
  /\ asked' = Asked(s, withId, IF withId THEN 1 ELSE 0)
  /\ UNCHANGED <<pending, counter, toNode>>

\* Mutant of Forward: only what opens a subscription is tracked.
ForwardOpens(s, withId, method, token) ==
  /\ asked' = Asked(s, withId, 0)
  /\ IF method \in Kinds THEN Track(pending, <<Owner("session", s, Client, method, token)>>)
     ELSE /\ toNode' = Append(toNode, [id |-> 0, method |-> method, token |-> token])
          /\ UNCHANGED <<pending, counter>>

\* forwardForSession(): a request without an id has no answer for its session, and is tracked
\* only where the follows the node holds depend on it.
Forward(s, withId, method, token) ==
  /\ asked' = Asked(s, withId, 0)
  /\ IF withId THEN Track(pending, <<Owner("session", s, Client, method, token)>>)
     ELSE IF method = "follow" THEN Track(pending, <<Owner("orphan", None, 0, method, token)>>)
     ELSE IF method = "unfollow" THEN Track(pending, <<Owner("release", None, 0, method, token)>>)
     ELSE /\ toNode' = Append(toNode, [id |-> 0, method |-> method, token |-> token])
          /\ UNCHANGED <<pending, counter>>

----------------------------------------------------------------------------
(* The sessions. *)

Connect(s) ==
  /\ session[s] = "new" /\ ~Halting
  /\ session' = [session EXCEPT ![s] = "open"]
  /\ UNCHANGED <<pending, counter, owned, early, work, toNode, fromNode, node, asked, heard>>

CanSend(s) == session[s] = "open" /\ Len(asked) < MaxRequests

\* What a session holds it may release whatever it has sent.
CanRelease(s, l) ==
  /\ session[s] = "open"
  /\ Len(asked) < MaxRequests \/ \E o \in owned : o.local = l /\ o.session = s

\* A follow goes to a broker whose lane has room.  A watch without an id is not modelled: the
\* node answers nobody.
Subscribe(s, kind, withId) ==
  /\ CanSend(s)
  /\ kind = "follow" => CountFollows < FollowLimit
  /\ withId \/ (kind = "follow" /\ "notify" \in Habits)
  /\ Forward(s, withId, kind, None)
  /\ UNCHANGED <<session, owned, early, work, fromNode, node, heard>>

\* Any other request names a local token or none.  One another session holds is refused, and
\* one nobody holds goes upstream as it is.
Call(s, l) ==
  /\ CanSend(s) /\ "call" \in Habits
  /\ IF \E o \in owned : o.local = l /\ o.session # s THEN AnswerHere(s, TRUE)
     ELSE Forward(s, TRUE, "call", None)
  /\ UNCHANGED <<session, owned, early, work, fromNode, node, heard>>

\* An unfollow or an unwatch of local token l.  Only the last holder's goes upstream.
Release(s, l, withId) ==
  /\ CanRelease(s, l) /\ (withId \/ "notify" \in Habits)
  /\ \/ /\ \A o \in owned : ~(o.local = l /\ o.session = s)
        /\ AnswerHere(s, withId)
        /\ UNCHANGED owned
     \/ \E o \in owned : /\ o.local = l /\ o.session = s
                         /\ owned' = owned \ {o}
                         /\ IF Holders(o.token) = {o} THEN Forward(s, withId, ReleaseOf(o.kind), o.token)
                            ELSE AnswerHere(s, withId)
  /\ UNCHANGED <<session, early, work, fromNode, node, heard>>

\* Mutant of Orphaned: the requests of a session that left are forgotten.
OrphanedForgotten(s) == {p \in pending : p.owner.session # s}

\* The requests of a session that leaves stay in flight, owned by nobody.
Orphaned(s) ==
  {IF p.owner.session = s
   THEN [p EXCEPT !.owner = Owner("orphan", None, 0, p.owner.method, p.owner.token)] ELSE p : p \in pending}

\* disconnectSession(): what the session alone held is released upstream.
Leave(s) ==
  LET mine == {o \in owned : o.session = s}
      last == {o \in mine : \A x \in Holders(o.token) : x.session = s /\ x.local <= o.local}
  IN  /\ session[s] = "open"
      /\ session' = [session EXCEPT ![s] = "left"]
      /\ owned' = owned \ mine
      /\ Track(Orphaned(s), [i \in 1 .. Cardinality(last) |->
                 LET o == InOrder(last)[i] IN SentRelease(o.kind, o.token)])
      /\ UNCHANGED <<early, work, fromNode, node, asked, heard>>

\* disconnectUpstream(): the connection closes, and the node drops what it ran for it.
DropUpstream ==
  /\ pending' = {} /\ owned' = {} /\ early' = <<>>
  /\ toNode' = <<>> /\ fromNode' = <<>>
  /\ node' = [node EXCEPT !.subs = {}, !.lost = {}]
  /\ UNCHANGED <<counter, work>>

DisconnectAll ==
  /\ ~Halting /\ \E s \in Sessions : session[s] # "new"
  /\ session' = [s \in Sessions |-> IF session[s] = "open" THEN "left" ELSE session[s]]
  /\ DropUpstream
  /\ UNCHANGED <<asked, heard>>

\* halt(): the transport is gone.  The sessions are taken out at once, and told one by one.
Halt ==
  /\ ~Halting /\ \E s \in Sessions : session[s] = "open"
  /\ session' = [s \in Sessions |-> IF session[s] = "open" THEN "halting" ELSE session[s]]
  /\ work' = <<[do |-> "halt"]>> \o work
  /\ UNCHANGED <<pending, counter, owned, early, toNode, fromNode, node, asked, heard>>

\* A session that ends itself while others are told is none of the broker's any more, and changes
\* nothing.
LeaveHalting(s) ==
  /\ session[s] = "halting"
  /\ session' = [session EXCEPT ![s] = "quit"]
  /\ UNCHANGED <<pending, counter, owned, early, work, toNode, fromNode, node, asked, heard>>

\* Mutant of HaltAnswers: only requests for a subscription are answered.
HaltAnswersOpening(s, n) ==
  \E p \in pending : p.owner.session = s /\ p.owner.client = n /\ p.owner.method \in Kinds

HaltAnswers(s, n) == \E p \in pending : p.owner.session = s /\ p.owner.client = n

\* answerHaltedSession(): an error for each of its requests in flight and a stop of each of its
\* follows, and then the halt.
HaltSession(s) ==
  /\ Halting /\ session[s] \in {"halting", "quit"}
  /\ session' = [session EXCEPT ![s] = IF @ = "quit" THEN "left" ELSE "halted"]
  /\ asked' = [n \in DOMAIN asked |->
                 [asked[n] EXCEPT !.answers = IF HaltAnswers(s, n) THEN @ + 1 ELSE @]]
  /\ heard' = [l \in DOMAIN heard |->
                 [heard[l] EXCEPT !.ended = @ \/ \E o \in owned : o.local = l /\ o.session = s
                                                                 /\ o.kind = "follow"]]
  /\ UNCHANGED <<pending, counter, owned, early, work, toNode, fromNode, node>>

HaltEnds ==
  /\ Halting /\ \A s \in Sessions : session[s] \notin {"halting", "quit"}
  /\ pending' = {} /\ owned' = {} /\ early' = <<>> /\ toNode' = <<>> /\ fromNode' = <<>>
  /\ node' = [node EXCEPT !.subs = {}, !.lost = {}]
  /\ work' = Tail(work)
  /\ UNCHANGED <<session, counter, asked, heard>>

----------------------------------------------------------------------------
(* Messages from the node. *)

FromNode(kind) == work = <<>> /\ fromNode # <<>> /\ Head(fromNode).msg = kind

\* The session hears the answer to its request n.
Answered(n) == asked' = [asked EXCEPT ![n].answers = @ + 1]

\* Mutant of AnswerSession: the events that came first are never delivered.
AnswerSessionOnly(owner, token) ==
  /\ Answered(owner.client)
  /\ owned' = owned \cup {[local |-> Len(heard) + 1, session |-> owner.session,
                           token |-> token, kind |-> owner.method]}
  /\ heard' = Append(heard, [session |-> owner.session, token |-> token, events |-> <<>>,
                             ended |-> FALSE])
  /\ UNCHANGED work

\* answerSession(): an answer that names a subscription maps it to a new local token, and the
\* events held for it follow.
AnswerSession(owner, token) ==
  /\ Answered(owner.client)
  /\ owned' = owned \cup {[local |-> Len(heard) + 1, session |-> owner.session,
                           token |-> token, kind |-> owner.method]}
  /\ heard' = Append(heard, [session |-> owner.session, token |-> token, events |-> <<>>,
                             ended |-> FALSE])
  /\ work' = <<[do |-> "flush", token |-> token]>>

\* answerOrphan(): a subscription nobody waits on and nobody holds is released at once.
AnswerOrphan(p, token) ==
  IF token # None /\ p.owner.method \in Kinds /\ Holders(token) = {}
  THEN /\ early' = EarlyDropped(token)
       /\ Track(pending \ {p}, <<SentRelease(p.owner.method, token)>>)
  ELSE pending' = pending \ {p} /\ UNCHANGED <<early, counter, toNode>>

\* handleUpstreamResponse(): the answer goes to its request's owner.  One to an unknown id is dropped.
HandleAnswer ==
  /\ FromNode("answer")
  /\ fromNode' = Tail(fromNode)
  /\ LET answer == Head(fromNode)
         known == {p \in pending : p.id = answer.id}
     IN  IF known = {} THEN UNCHANGED <<pending, counter, early, toNode, owned, heard, work, asked>>
         ELSE \E p \in known :
           \/ /\ p.owner.kind = "session"
              /\ IF answer.token # None /\ p.owner.method \in Kinds THEN AnswerSession(p.owner, answer.token)
                 ELSE Answered(p.owner.client) /\ UNCHANGED <<owned, heard, work>>
              /\ pending' = pending \ {p}
              /\ UNCHANGED <<early, counter, toNode>>
           \/ /\ p.owner.kind = "orphan"
              /\ AnswerOrphan(p, answer.token)
              /\ UNCHANGED <<owned, heard, work, asked>>
           \/ /\ p.owner.kind = "release"
              /\ pending' = pending \ {p}
              /\ UNCHANGED <<early, counter, toNode, owned, heard, work, asked>>
  /\ UNCHANGED <<session, node>>

HandleEvent ==
  /\ FromNode("event")
  /\ fromNode' = Tail(fromNode)
  /\ work' = <<[do |-> "event", event |-> Head(fromNode).event]>>
  /\ UNCHANGED <<session, pending, counter, owned, early, toNode, node, asked, heard>>

Working(kind) == work # <<>> /\ Head(work).do = kind

\* flush(): the held events are handled as if they had just arrived.
Flush ==
  /\ Working("flush")
  /\ LET t == Head(work).token
         events == EarlyOf(t)
     IN  /\ work' = [i \in DOMAIN events |-> [do |-> "event", event |-> events[i]]] \o Tail(work)
         /\ early' = EarlyDropped(t)
  /\ UNCHANGED <<session, pending, counter, owned, toNode, fromNode, node, asked, heard>>

\* Mutant of Ended: a final event leaves its subscription held.
EndedHeld(event) == owned

\* A final event releases its subscription before anyone hears it.
Ended(event) == IF event.ends THEN owned \ Holders(event.token) ELSE owned

\* handleUpstreamSubscription(): the event goes to every session that holds its token.
Route ==
  /\ Working("event")
  /\ LET event == Head(work).event
         holders == InOrder(Holders(event.token))
     IN  /\ owned' = Ended(event)
         /\ work' = [i \in DOMAIN holders |-> [do |-> "tell", owned |-> holders[i], event |-> event]]
                      \o Tail(work)
         /\ early' = IF holders = <<>> /\ ~Releasing(event.token) /\ MayOpen
                     THEN Buffered(event) ELSE early
  /\ UNCHANGED <<session, pending, counter, toNode, fromNode, node, asked, heard>>

\* Mutants of Tells: what an earlier delivery of the same event ended is told all the same.
TellsAll(o, event) == session[o.session] # "new"
TellsReleased(o, event) == session[o.session] = "open"

\* An earlier delivery can end the session or release its token.
Tells(o, event) == session[o.session] = "open" /\ (event.ends \/ o \in owned)

Tell ==
  /\ Working("tell")
  /\ LET o == Head(work).owned
         event == Head(work).event
     IN  heard' = IF Tells(o, event)
                  THEN [heard EXCEPT ![o.local].events = Append(@, event.number),
                                     ![o.local].ended = @ \/ event.ends]
                  ELSE heard
  /\ work' = Tail(work)
  /\ UNCHANGED <<session, pending, counter, owned, early, toNode, fromNode, node, asked>>

----------------------------------------------------------------------------
(* The node (external). *)

Sub(t, kind) == [token |-> t, kind |-> kind]
EventMsg(t, number, ends) ==
  [msg |-> "event", event |-> [token |-> t, number |-> number, ends |-> ends]]
AnswerMsg(id, t) == [msg |-> "answer", id |-> id, token |-> t]

\* The node reads one request that opens a subscription: it refuses it, runs a new one, with
\* or without a first event before the answer, or names a watch it already runs.
NodeOpens ==
  /\ toNode # <<>> /\ Head(toNode).method \in Kinds
  /\ toNode' = Tail(toNode)
  /\ LET q == Head(toNode)
         t == Len(node.sent) + 1
     IN  \/ /\ fromNode' = Append(fromNode, AnswerMsg(q.id, None))
            /\ UNCHANGED node
         \/ /\ fromNode' = Append(fromNode, AnswerMsg(q.id, t))
            /\ node' = [node EXCEPT !.subs = @ \cup {Sub(t, q.method)}, !.sent = Append(@, 0)]
         \/ \E ends \in BOOLEAN :
              /\ node.events < MaxEvents
              /\ fromNode' = fromNode \o <<EventMsg(t, 1, ends), AnswerMsg(q.id, t)>>
              /\ node' = [node EXCEPT !.subs = IF ends THEN @ ELSE @ \cup {Sub(t, q.method)},
                                      !.sent = Append(@, 1), !.events = @ + 1]
         \/ /\ Shares /\ q.method = "watch"
            /\ \E x \in node.subs : /\ x.kind = "watch"
                                    /\ fromNode' = Append(fromNode, AnswerMsg(q.id, x.token))
            /\ UNCHANGED node
         \/ /\ node.garbled < MaxGarbled
            /\ fromNode' = Append(fromNode, AnswerMsg(q.id, None))
            /\ node' = [node EXCEPT !.subs = @ \cup {Sub(t, q.method)}, !.lost = @ \cup {t},
                                    !.sent = Append(@, 0), !.garbled = @ + 1]
  /\ UNCHANGED <<session, pending, counter, owned, early, work, asked, heard>>

NodeReads ==
  /\ toNode # <<>> /\ Head(toNode).method \notin Kinds
  /\ toNode' = Tail(toNode)
  /\ LET q == Head(toNode)
     IN  /\ fromNode' = IF q.id = 0 THEN fromNode ELSE Append(fromNode, AnswerMsg(q.id, None))
         /\ node' = IF q.method \in Releases
                    THEN [node EXCEPT !.subs = {x \in @ : x.token # q.token}] ELSE node
  /\ UNCHANGED <<session, pending, counter, owned, early, work, asked, heard>>

NodeSends(x, ends) ==
  /\ x \in node.subs
  /\ node.events < MaxEvents
  /\ fromNode' = Append(fromNode, EventMsg(x.token, node.sent[x.token] + 1, ends))
  /\ node' = [node EXCEPT !.sent[x.token] = @ + 1, !.events = @ + 1,
                          !.subs = IF ends THEN @ \ {x} ELSE @]
  /\ UNCHANGED <<session, pending, counter, owned, early, work, toNode, asked, heard>>

----------------------------------------------------------------------------

SessionStep ==
  \E s \in Sessions :
    \/ Connect(s) \/ Leave(s) \/ LeaveHalting(s)
    \/ \E kind \in Kinds, withId \in BOOLEAN : Subscribe(s, kind, withId)
    \/ \E l \in DOMAIN heard : Call(s, l)
    \/ \E l \in DOMAIN heard, withId \in BOOLEAN : Release(s, l, withId)

BrokerStep ==
  \/ HandleAnswer \/ HandleEvent \/ Flush \/ Route \/ Tell
  \/ HaltEnds \/ \E s \in Sessions : HaltSession(s)

\* What the node does while the broker halts is lost with the connection.
NodeStep ==
  /\ ~Halting
  /\ \/ NodeOpens \/ NodeReads
     \/ \E x \in node.subs, ends \in BOOLEAN : NodeSends(x, ends)

OwnerStep == DisconnectAll \/ Halt

Next == SessionStep \/ BrokerStep \/ NodeStep \/ OwnerStep

Spec == Init /\ [][Next]_vars

\* The runtime handles what arrives, and the node reads what it is sent.
FairSpec == Spec /\ WF_vars(BrokerStep) /\ WF_vars(NodeOpens \/ NodeReads)

----------------------------------------------------------------------------
(* Properties. *)

\* Every request with an id is answered at most once, an open session's unanswered one is
\* still in flight under it, and a session that heard the halt has every answer (handleUpstreamResponse,
\* answerHaltedSession).
AnsweredOnce ==
  \A n \in DOMAIN asked :
    LET r == asked[n]
        waits == \E p \in pending : p.owner.kind = "session" /\ p.owner.client = n
    IN  /\ r.answers <= 1
        /\ r.withId /\ session[r.session] = "open" => (r.answers = 0 <=> waits)
        /\ r.withId /\ session[r.session] = "halted" => r.answers = 1

\* No subscription runs at the node for nobody: someone holds it, its release or its answer
\* is on the way.  An answer that did not parse never named it (answerOrphan, disconnectSession).
NoLeak ==
  \A x \in node.subs : x.token \notin node.lost =>
    \/ Holders(x.token) # {}
    \/ \E i \in DOMAIN toNode : toNode[i].token = x.token /\ toNode[i].method \in Releases
    \/ \E i \in DOMAIN fromNode : fromNode[i].msg = "answer" /\ fromNode[i].token = x.token

\* What a session holds is alive at the node, or its end is on the way to it: a session never
\* waits on a subscription that ended (handleUpstreamSubscription, buffer, flush).
HeldIsLive ==
  \A o \in owned :
    \/ \E x \in node.subs : x.token = o.token
    \/ \E i \in DOMAIN fromNode : fromNode[i].msg = "event" /\ fromNode[i].event.token = o.token
                                  /\ fromNode[i].event.ends
    \/ \E i \in DOMAIN work : \/ work[i].do = "flush" /\ work[i].token = o.token
                              \/ work[i].do = "event" /\ work[i].event.token = o.token

\* What runs at the node is what the broker holds for its open sessions, but for what is on its way (orphanSession,
\* adopt, disconnectSession).
HoldingsAgree == TypeOK /\ NoLeak

\* The node never runs more follows than its limit, but for one whose answer did not parse, which the broker can neither
\* count nor release (hasRoom, countFollows).
FollowLimitKept ==
  Cardinality({x \in node.subs : x.kind = "follow" /\ x.token \notin node.lost}) <= FollowLimit

\* Each local token hears its own subscription's events in the order the node sent them, each
\* once, the ones that came before the answer included, and none after its final one (buffer, flush,
\* handleUpstreamSubscription).
HeardInOrder ==
  \A l \in DOMAIN heard : \A i, j \in DOMAIN heard[l].events :
    i < j => heard[l].events[i] < heard[l].events[j]

\* Without sharing, and with room for all that comes early, no event is missed either: what was heard is a run of
\* the events from the first, and nobody waits on a subscription whose final event is lost (buffer, flush).
HeardAll ==
  /\ \A l \in DOMAIN heard : \A i \in DOMAIN heard[l].events : heard[l].events[i] = i
  /\ HeldIsLive

Gone(s) == session[s] \in {"left", "halted"}

\* A session that left, or was told of the halt, hears and is answered nothing more, and nothing is heard of a
\* subscription its session released but the final event whose delivery had begun, even where consumers act from the
\* middle of a delivery (handleUpstreamSubscription, answerSession, halt).
GoneIsQuiet ==
  [][/\ \A l \in DOMAIN heard : /\ Gone(heard[l].session) => heard'[l] = heard[l]
                                /\ (\A o \in owned : o.local # l) /\ heard'[l].events # heard[l].events
                                     => heard'[l].ended
     /\ \A n \in DOMAIN asked : Gone(asked[n].session) => asked'[n] = asked[n]]_vars

\* Of a session that stays, every request with an id is answered in the end: it does not go on waiting for one, whatever
\* else it asks meanwhile (track, take).
IsOwed(s) ==
  session[s] = "open" /\ \E n \in DOMAIN asked : asked[n].session = s /\ asked[n].withId /\ asked[n].answers = 0

AnswersCome == \A s \in Sessions : IsOwed(s) ~> ~IsOwed(s)

\* A subscription nobody holds and nobody waits on ends at the node (sendRelease).
UnheldEnds ==
  \A t \in 1 .. MaxRequests :
    (\E x \in node.subs : x.token = t /\ t \notin node.lost) ~>
      (Holders(t) # {} \/ \A x \in node.subs : x.token # t)
============================================================================
