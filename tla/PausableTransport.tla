------------------------- MODULE PausableTransport -------------------------
(***************************************************************************)
(* One connection of packages/chains/src/createPausableTransport.ts: its    *)
(* transport connection closes at a pause and opens again at a resume while *)
(* its consumer, a chain broker, stays connected.                           *)
(*                                                                          *)
(* `work` is what a pause still has to deliver.  Inside those deliveries,   *)
(* as at any other time, the consumer may send, release, leave, pause or    *)
(* resume.  The node and its channels are external: a closed transport      *)
(* connection may still deliver what it had queued.                         *)
(***************************************************************************)
EXTENDS Naturals, Sequences, SequencesExt, FiniteSets

CONSTANTS Methods,      \* what the consumer sends: "follow", "watch", "op", "unpin", "query"
          None,         \* no token
          Reuses,       \* whether each transport connection issues the ids of the one before it
          MaxRequests,  \* bound on the requests sent, releases included
          MaxGeneration \* bound on the openings and closings before a pause

ASSUME TransportAssumption ==
  /\ Methods \subseteq {"follow", "watch", "op", "unpin", "query"}
  /\ Reuses \in BOOLEAN /\ MaxRequests \in Nat /\ MaxGeneration \in Nat /\ None \notin Nat \X Nat

VARIABLES paused,     \* the flag of the transport
          conn,       \* the consumer's connection: "open", or "left"
          generation, \* bumped on each opening and on each close
          upstream,   \* the generation of the open transport connection, 0 without one
          inFlight, kept, held,
          follows, openedIds, closedIds,
          work,       \* what a pause has yet to deliver
          toNode, fromNode,
          node,       \* what the node runs for the open transport connection, and the ids it issued there
          asked,      \* history: the requests, and the answers each had
          holds       \* history: the subscriptions the consumer was told of and has not released

vars == <<paused, conn, generation, upstream, inFlight, kept, held, follows, openedIds, closedIds,
          work, toNode, fromNode, node, asked, holds>>
books == <<inFlight, kept, held, follows, openedIds, closedIds>>

Opening == {"follow", "watch"}         \* isOpeningMethod()
Releasing == {"release", "unpin"}      \* isReleaseMethod()
Ids(queue) == {queue[i].n : i \in DOMAIN queue}
Sorted(queue) == \A i, j \in DOMAIN queue : i < j => queue[i].n < queue[j].n

\* A queue without request n, and the entries of a queue at some of its places, in order.
Without(queue, n) ==
  IF n \in Ids(queue) THEN RemoveAt(queue, CHOOSE i \in DOMAIN queue : queue[i].n = n) ELSE queue
InOrder(at) == CHOOSE f \in [1 .. Cardinality(at) -> at] : \A i, j \in DOMAIN f : i < j => f[i] < f[j]
Picked(queue, at) == [i \in 1 .. Cardinality(at) |-> queue[InOrder(at)[i]]]

TypeOK ==
  /\ paused \in BOOLEAN /\ conn \in {"open", "left"}
  /\ upstream \in {0, generation}
  /\ upstream # 0 => kept = <<>> /\ held = <<>> /\ ~paused
  /\ upstream = 0 => inFlight = <<>> /\ follows = {} /\ openedIds = {} /\ node.subs = {}
  /\ conn = "left" => upstream = 0 /\ kept = <<>> /\ held = <<>> /\ closedIds = {}
  /\ follows \subseteq openedIds
  /\ Ids(inFlight) \cup Ids(kept) \cup Ids(held) \subseteq DOMAIN asked

Init ==
  /\ paused \in BOOLEAN
  /\ conn = "open" /\ generation = IF paused THEN 0 ELSE 1
  /\ upstream = generation
  /\ inFlight = <<>> /\ kept = <<>> /\ held = <<>>
  /\ follows = {} /\ openedIds = {} /\ closedIds = {}
  /\ work = <<>> /\ toNode = <<>> /\ fromNode = <<>>
  /\ node = [subs |-> {}, issued |-> 0]
  /\ asked = <<>> /\ holds = {}

----------------------------------------------------------------------------
(* The consumer. *)

\* Mutant of IsClosedId: an id that the open connection issued again counts as closed too.
WasClosedId(token) == token \in closedIds

\* A release of an id only a closed transport connection issued has nobody to go to.
IsClosedId(token) == token \in closedIds /\ token \notin openedIds

Ask(method, answers) == asked' = Append(asked, [method |-> method, answers |-> answers])

AnswerReleaseLocally(method, token) ==
  /\ Ask(method, 1)
  /\ closedIds' = IF method = "release" THEN closedIds \ {token} ELSE closedIds
  /\ UNCHANGED <<inFlight, held, follows, openedIds, toNode>>

Hold(q) ==
  /\ Ask(q.method, 0)
  /\ held' = Append(held, q)
  /\ UNCHANGED <<inFlight, follows, openedIds, closedIds, toNode>>

\* forget(): a release ends its id.  An unpin names a follow that stays.
Forget(q) ==
  LET ended == IF q.method = "release" THEN {q.token} ELSE {}
  IN  /\ openedIds' = openedIds \ ended
      /\ follows' = follows \ ended
      /\ closedIds' = closedIds \ ended

Pass(q) ==
  /\ Ask(q.method, 0)
  /\ Forget(q)
  /\ inFlight' = Append(inFlight, q)
  /\ toNode' = Append(toNode, q)
  /\ UNCHANGED held

\* send(): `of` is the generation of the subscription the request names.
Send(method, token, of) ==
  LET q == [n |-> Len(asked) + 1, method |-> method, token |-> token, of |-> of]
  IN  /\ conn = "open" /\ Len(asked) < MaxRequests
      /\ IF method \in Releasing /\ IsClosedId(token) THEN AnswerReleaseLocally(method, token)
         ELSE IF upstream = 0 THEN Hold(q) ELSE Pass(q)
      /\ UNCHANGED <<paused, conn, generation, upstream, kept, work, fromNode, node>>

Request(method) ==
  /\ method \in Methods \cap {"follow", "watch", "query"}
  /\ Send(method, None, 0)
  /\ UNCHANGED holds

Operate(h, method) ==
  /\ method \in Methods \cap {"op", "unpin"} /\ h.kind = "follow"
  /\ Send(method, h.token, h.gen)
  /\ UNCHANGED holds

Release(h) ==
  /\ Send("release", h.token, h.gen)
  /\ holds' = holds \ {h}

\* disconnect(): nothing is answered, and nothing is delivered any more.
Leave ==
  /\ conn = "open"
  /\ conn' = "left"
  /\ generation' = generation + 1 /\ upstream' = 0
  /\ inFlight' = <<>> /\ kept' = <<>> /\ held' = <<>>
  /\ follows' = {} /\ openedIds' = {} /\ closedIds' = {}
  /\ toNode' = <<>> /\ node' = [node EXCEPT !.subs = {}]
  /\ UNCHANGED <<paused, work, fromNode, asked, holds>>

----------------------------------------------------------------------------
(* The owner of the transport. *)

\* Mutant of Outcome: a release is sent again.
OutcomeKeepsReleases(method) == IF method = "op" THEN "failed" ELSE "kept"

\* getPauseOutcome(): what a pause does to a request in flight.
Outcome(method) ==
  IF method \in Releasing THEN "done" ELSE IF method = "op" THEN "failed" ELSE "kept"

\* Mutant of PauseStops: the follows are not stopped.
NoStops == <<>>

PauseStops ==
  SetToSeq({[do |-> "stop", gen |-> generation, token |-> t] : t \in follows})

KeptAt == {i \in DOMAIN inFlight : Outcome(inFlight[i].method) = "kept"}

PauseAnswers ==
  LET over == Picked(inFlight, DOMAIN inFlight \ KeptAt)
  IN  [i \in DOMAIN over |-> [do |-> "answer", n |-> over[i].n]]

\* The transport connection closes, and the rest is delivered whether or not closing it threw.
CloseConnection ==
  /\ upstream' = 0 /\ generation' = generation + 1
  /\ closedIds' = closedIds \cup openedIds
  /\ openedIds' = {} /\ follows' = {} /\ inFlight' = <<>>
  /\ kept' = Picked(inFlight, KeptAt)
  /\ work' = PauseStops \o PauseAnswers \o work
  /\ toNode' = <<>> /\ node' = [node EXCEPT !.subs = {}]

Pause ==
  /\ ~paused /\ generation < MaxGeneration
  /\ paused' = TRUE
  /\ IF upstream = 0 THEN UNCHANGED <<upstream, generation, books, work, toNode, node>>
     ELSE CloseConnection /\ UNCHANGED held
  /\ UNCHANGED <<conn, fromNode, asked, holds>>

\* Mutants of Resent: what was sent while paused goes first, or is lost.
ResentKept == kept
ResentHeldFirst == held \o kept

Resent == kept \o held

\* What is sent again names no id the transport knows, so nothing is answered from inside the loop.
OpenConnection ==
  /\ generation' = generation + 1 /\ upstream' = generation'
  /\ inFlight' = Resent /\ toNode' = Resent
  /\ kept' = <<>> /\ held' = <<>>
  /\ node' = [subs |-> {}, issued |-> 0]
  /\ UNCHANGED <<follows, openedIds, closedIds>>

\* Opening may throw: the connection stays closed and keeps what it held.
OpenFails ==
  /\ generation' = generation + 1
  /\ UNCHANGED <<upstream, books, toNode, node>>

Resume ==
  /\ paused
  /\ paused' = FALSE
  /\ IF conn = "left" \/ upstream # 0 THEN UNCHANGED <<generation, upstream, books, toNode, node>>
     ELSE OpenConnection \/ OpenFails
  /\ UNCHANGED <<conn, work, fromNode, asked, holds>>

----------------------------------------------------------------------------
(* Deliveries. *)

HearAnswer(n) == asked' = [asked EXCEPT ![n].answers = @ + 1]
HearStop(gen, token) == holds' = {h \in holds : ~(h.gen = gen /\ h.token = token)}

\* deliver(): what a pause ends is told one by one, unless the consumer has left.
DeliverAtPause ==
  /\ work # <<>>
  /\ work' = Tail(work)
  /\ LET x == Head(work)
     IN  \/ conn = "left" /\ UNCHANGED <<asked, holds>>
         \/ conn = "open" /\ x.do = "stop" /\ HearStop(x.gen, x.token) /\ UNCHANGED asked
         \/ conn = "open" /\ x.do = "answer" /\ HearAnswer(x.n) /\ UNCHANGED holds
  /\ UNCHANGED <<paused, conn, generation, upstream, books, toNode, fromNode, node>>

\* noteAnswer(): an answer that opens a subscription names an id of the open connection.
NoteAnswer(message) ==
  /\ inFlight' = Without(inFlight, message.n)
  /\ IF message.n \in Ids(inFlight) /\ message.token # None
     THEN /\ openedIds' = openedIds \cup {message.token}
          /\ follows' = IF asked[message.n].method = "follow" THEN follows \cup {message.token} ELSE follows
     ELSE UNCHANGED <<openedIds, follows>>

ReceiveAnswer(message) ==
  /\ message.msg = "answer"
  /\ NoteAnswer(message)
  /\ HearAnswer(message.n)
  /\ holds' = IF message.token = None THEN holds
              ELSE holds \cup {[gen |-> message.gen, token |-> message.token,
                                kind |-> asked[message.n].method]}

ForgetStopped(token) == follows' = follows \ {token} /\ openedIds' = openedIds \ {token}

ReceiveStop(message) ==
  /\ message.msg = "stop"
  /\ ForgetStopped(message.token)
  /\ HearStop(message.gen, message.token)
  /\ UNCHANGED <<inFlight, asked>>

\* Mutant of IsCurrent: a closed transport connection still delivers.
IsAnyones(message) == conn = "open"

IsCurrent(message) == message.gen = generation

\* receive(): only the transport connection open now is heard.
Receive ==
  /\ work = <<>> /\ fromNode # <<>>
  /\ fromNode' = Tail(fromNode)
  /\ LET message == Head(fromNode)
     IN  IF IsCurrent(message) THEN ReceiveAnswer(message) \/ ReceiveStop(message)
         ELSE UNCHANGED <<inFlight, follows, openedIds, asked, holds>>
  /\ UNCHANGED <<paused, conn, generation, upstream, kept, held, closedIds, work, toNode, node>>

----------------------------------------------------------------------------
(* The node (external). *)

\* The ids of a transport connection, which may be those of the one before it.
Issued(i) == <<IF Reuses THEN 0 ELSE generation, i>>
NodeSays(message) == fromNode' = Append(fromNode, message)
AnswerMsg(q, token) == [msg |-> "answer", gen |-> generation, n |-> q.n, token |-> token]

NodeReads ==
  /\ toNode # <<>>
  /\ toNode' = Tail(toNode)
  /\ LET q == Head(toNode)
         id == Issued(node.issued + 1)
     IN  \/ /\ NodeSays(AnswerMsg(q, None))
            /\ node' = IF q.method = "release"
                       THEN [node EXCEPT !.subs = {x \in @ : x.token # q.token}] ELSE node
         \/ /\ q.method \in Opening
            /\ NodeSays(AnswerMsg(q, id))
            /\ node' = [subs |-> node.subs \cup {[token |-> id, kind |-> q.method]},
                        issued |-> node.issued + 1]
  /\ UNCHANGED <<paused, conn, generation, upstream, books, work, asked, holds>>

NodeStops ==
  /\ \E x \in node.subs : /\ x.kind = "follow"
                          /\ NodeSays([msg |-> "stop", gen |-> generation, token |-> x.token])
                          /\ node' = [node EXCEPT !.subs = @ \ {x}]
  /\ UNCHANGED <<paused, conn, generation, upstream, books, work, toNode, asked, holds>>

----------------------------------------------------------------------------

ConsumerStep ==
  \/ \E method \in Methods : Request(method) \/ \E h \in holds : Operate(h, method)
  \/ \E h \in holds : Release(h)
  \/ Leave

Next == ConsumerStep \/ Pause \/ Resume \/ DeliverAtPause \/ Receive \/ NodeReads \/ NodeStops

Spec == Init /\ [][Next]_vars

\* The event loop delivers, the node reads, and a paused page is shown again.
FairSpec == Spec /\ WF_vars(DeliverAtPause) /\ WF_vars(Receive) /\ WF_vars(NodeReads) /\ WF_vars(Resume)

----------------------------------------------------------------------------
(* Properties. *)

Places(n) ==
  Cardinality({i \in DOMAIN inFlight : inFlight[i].n = n})
    + Cardinality({i \in DOMAIN kept : kept[i].n = n})
    + Cardinality({i \in DOMAIN held : held[i].n = n})
    + Cardinality({i \in DOMAIN work : work[i].do = "answer" /\ work[i].n = n})

\* Each request is answered once, whatever pauses, resumes and late answers come between: it is
\* answered, or it waits in exactly one place (pause, resume, noteAnswer).
AnsweredOnce ==
  \A n \in DOMAIN asked : /\ asked[n].answers <= 1
                          /\ conn = "open" => asked[n].answers + Places(n) = 1

\* Requests reach each transport connection in the order the consumer sent them, those of an
\* earlier connection first (resume).
SentInOrder == Sorted(toNode) /\ Sorted(inFlight) /\ Sorted(kept \o held)

\* A follow the consumer holds belongs to the open transport connection, and runs there or has
\* its stop on the way; any other is about to be stopped (pause, receive).
FollowsAreLive ==
  \A h \in holds : h.kind = "follow" /\ conn = "open" =>
    \/ /\ h.gen = upstream /\ h.token \in follows
       /\ \/ \E x \in node.subs : x.token = h.token
          \/ \E i \in DOMAIN fromNode : fromNode[i].msg = "stop" /\ fromNode[i].gen = h.gen
                                        /\ fromNode[i].token = h.token
    \/ \E i \in DOMAIN work : work[i].do = "stop" /\ work[i].gen = h.gen /\ work[i].token = h.token

\* Nothing runs at the node that the consumer cannot release: it holds it, its answer is on the
\* way, or its release is (send, answerReleaseLocally).
NoLeak ==
  \A x \in node.subs :
    \/ \E h \in holds : h.gen = generation /\ h.token = x.token
    \/ \E i \in DOMAIN fromNode : fromNode[i].msg = "answer" /\ fromNode[i].gen = generation
                                  /\ fromNode[i].token = x.token
    \/ \E i \in DOMAIN toNode : toNode[i].method = "release" /\ toNode[i].token = x.token

\* A release or an unpin goes to the transport connection that issued its id and to no later one
\* (getPauseOutcome, send).  A call sent while paused may go to a later one.
ReleasesGoHome ==
  \A i \in DOMAIN toNode : toNode[i].method \in Releasing => toNode[i].of = generation

\* Requests survive pauses: each is answered once or waits in one place, and they reach a connection in the order the
\* consumer sent them (pause, resume).
RequestsAreKept == AnsweredOnce /\ SentInOrder

\* What runs at the node, what the consumer holds and what is on its way between them agree over any number of
\* connections (pause, send, receive).
HoldingsAgree == TypeOK /\ FollowsAreLive /\ NoLeak /\ ReleasesGoHome

\* Where pauses end, every request is answered, or its consumer leaves, or the transport does not
\* open again and its owner halts the chain (resume).
AnswersCome ==
  \A n \in 1 .. MaxRequests :
    (n \in DOMAIN asked) ~> (n \in DOMAIN asked /\ (asked[n].answers = 1 \/ conn = "left"
                                                    \/ (~paused /\ upstream = 0)))
============================================================================
