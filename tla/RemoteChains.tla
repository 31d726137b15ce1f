---------------------------- MODULE RemoteChains ----------------------------
(***************************************************************************)
(* A page's connections to the chains its protocol frame serves:            *)
(* createRemoteChains of packages/protocol on the page, and one scope of    *)
(* createEngine of apps/protocol in the frame, over the frame's transport.  *)
(*                                                                          *)
(* The page's calls wait for the frame and go out on a microtask, so what   *)
(* the page was to post is out before it hears anything else, but a stop    *)
(* overtakes the sends of its own turn.  The wire is ordered; a frame that  *)
(* is lost takes both directions with it.  Every connection is to one       *)
(* chain, which answers what it is sent, late or never, and halts for all   *)
(* of its connections at once.                                              *)
(*                                                                          *)
(* External: the transport (WireCalls) and the pool the scope leases its    *)
(* chain from (ChainPool, ChainBroker), which answers every request a       *)
(* session has in flight before it tells it of a halt.                      *)
(***************************************************************************)
EXTENDS Naturals, Sequences, SequencesExt, FiniteSets

CONSTANTS MaxConns,    \* bound on the connections the page opens, numbered in order
          MaxSends,    \* bound on the requests it sends, numbered in order
          MaxTimeouts, \* bound on the calls that run out of their budget
          Limit        \* MAX_CONNECTIONS, the connections one scope holds

Conns == 1 .. MaxConns
Reqs == 1 .. MaxSends

ASSUME RemoteAssumption == {MaxConns, MaxSends} \subseteq Nat \ {0} /\ MaxTimeouts \in Nat /\ Limit \in Nat

VARIABLES frame,     \* the frame as the page's calls find it
          conn,      \* the page's connections
          connected, \* the connections the frame accepted, as the page heard
          pending,   \* what a connection sent before that
          leaving,   \* the sends that go out at the end of the turn
          flight,    \* the sends the frame has not answered yet
          timeouts,  \* the calls that ran out of their budget
          toFrame, toPage, \* the messages on their way
          served,    \* whether the frame still serves the page
          held,      \* the scope's connections
          atChain,   \* the requests of each that the chain has not answered
          sent, reached, \* history: the requests of each open connection, and those that reached the chain
          answers,   \* history: the answers each request's sender heard
          told       \* history: the halts each connection was told of

vars == <<frame, conn, connected, pending, leaving, flight, timeouts, toFrame, toPage, served,
          held, atChain, sent, reached, answers, told>>
scopeVars == <<served, held, atChain, reached>>

Kinds == {"start", "stop", "send", "connected", "answer", "halted", "end", "fail", "ok", "refuse", "lost"}
Msg(kind, c, r) == [kind |-> kind, conn |-> c, req |-> r]

\* No request, or no connection, in a message that has none.
None == 0

TypeOK ==
  /\ frame \in {"down", "held", "booting", "ready"}
  /\ conn \in [Conns -> {"new", "waiting", "asked", "gone"}] /\ connected \subseteq Conns
  /\ pending \in [Conns -> Seq(Reqs)] /\ leaving \in Seq([kind : {"send"}, conn : Conns, req : Reqs])
  /\ flight \subseteq Reqs /\ timeouts \in 0 .. MaxTimeouts
  /\ {toFrame, toPage} \subseteq Seq([kind : Kinds, conn : Conns \cup {None}, req : Reqs \cup {None}])
  /\ served \in BOOLEAN /\ held \subseteq Conns /\ Cardinality(held) <= Limit
  /\ atChain \in [Conns -> SUBSET Reqs] /\ sent \in [Conns -> Seq(Reqs)] /\ reached \in [Conns -> Seq(Reqs)]
  /\ answers \in [Reqs -> Seq({"answer", "halted", "closed", "refused", "timeout"})]
  /\ told \in [Conns -> Seq({"chain", "frame"})]

Init ==
  /\ frame = "down" /\ conn = [c \in Conns |-> "new"] /\ connected = {}
  /\ pending = [c \in Conns |-> <<>>] /\ leaving = <<>> /\ flight = {} /\ timeouts = 0
  /\ toFrame = <<>> /\ toPage = <<>> /\ served = TRUE
  /\ held = {} /\ atChain = [c \in Conns |-> {}]
  /\ sent = [c \in Conns |-> <<>>] /\ reached = [c \in Conns |-> <<>>]
  /\ answers = [r \in Reqs |-> <<>>] /\ told = [c \in Conns |-> <<>>]

(***************************************************************************)
(* The page                                                                 *)
(***************************************************************************)
\* Still in the page's map: neither halted nor disconnected.
IsOpen(c) == conn[c] \in {"waiting", "asked"}

WaitingConns == {c \in Conns : conn[c] = "waiting"}

\* What the page was to post, or to fail, at the end of its turn is over with.
Rested == leaving = <<>> /\ (WaitingConns # {} => frame \in {"booting", "down"})

\* Each of the requests rs is answered with a.
Answered(rs, a) == [r \in Reqs |-> IF r \in rs THEN Append(answers[r], a) ELSE answers[r]]

\* The connections cs halt: removed first, then each unsent request is answered, then each is told (haltRemote).
HaltRemote(cs, reason) ==
  /\ conn' = [c \in Conns |-> IF c \in cs THEN "gone" ELSE conn[c]]
  /\ answers' = Answered(UNION {Range(pending[c]) : c \in cs}, IF reason = "chain" THEN "halted" ELSE "closed")
  /\ pending' = [c \in Conns |-> IF c \in cs THEN <<>> ELSE pending[c]]
  /\ told' = [c \in Conns |-> IF c \in cs THEN Append(told[c], reason) ELSE told[c]]

\* connectChain: a connection is asked for once the frame is ready, and a frame that is down boots (waitUntilReady).
Connect(c) ==
  /\ conn[c] = "new" /\ \A d \in 1 .. c - 1 : conn[d] # "new"
  /\ conn' = [conn EXCEPT ![c] = "waiting"]
  /\ frame' = IF frame = "down" THEN "booting" ELSE frame
  /\ UNCHANGED <<connected, pending, leaving, flight, timeouts, toFrame, toPage, scopeVars, sent, answers, told>>

\* The turn ends with the frame ready: the connection's subscription starts.
PostStart(c) ==
  /\ frame = "ready" /\ conn[c] = "waiting" /\ \A d \in WaitingConns : c <= d
  /\ conn' = [conn EXCEPT ![c] = "asked"]
  /\ toFrame' = Append(toFrame, Msg("start", c, None))
  /\ UNCHANGED <<frame, connected, pending, leaving, flight, timeouts, toPage, scopeVars, sent, answers, told>>

\* The turn ends with a frame whose light client failed to start, which fails the wait at once.
FailWait ==
  /\ frame = "held" /\ WaitingConns # {} /\ HaltRemote(WaitingConns, "frame")
  /\ UNCHANGED <<frame, connected, leaving, flight, timeouts, toFrame, toPage, scopeVars, sent>>

\* Mutant of Send: a connection the frame was asked for sends at once, ahead of what it kept.
Send_early(c, r) ==
  /\ conn[c] # "new" /\ r \notin UNION {Range(sent[d]) : d \in Conns} /\ answers[r] = <<>>
  /\ \A q \in 1 .. r - 1 : answers[q] # <<>> \/ q \in UNION {Range(sent[d]) : d \in Conns}
  /\ IF IsOpen(c)
     THEN /\ sent' = [sent EXCEPT ![c] = Append(@, r)] /\ UNCHANGED answers
          /\ IF conn[c] = "asked"
             THEN leaving' = Append(leaving, Msg("send", c, r)) /\ UNCHANGED pending
             ELSE pending' = [pending EXCEPT ![c] = Append(@, r)] /\ UNCHANGED leaving
     ELSE answers' = Answered({r}, "closed") /\ UNCHANGED <<sent, pending, leaving>>
  /\ UNCHANGED <<frame, conn, connected, flight, timeouts, toFrame, toPage, scopeVars, told>>

\* connectChain's send: answered at once on a connection that is gone, kept until `connected`, else on its way.
Send(c, r) ==
  /\ conn[c] # "new" /\ r \notin UNION {Range(sent[d]) : d \in Conns} /\ answers[r] = <<>>
  /\ \A q \in 1 .. r - 1 : answers[q] # <<>> \/ q \in UNION {Range(sent[d]) : d \in Conns}
  /\ IF IsOpen(c)
     THEN /\ sent' = [sent EXCEPT ![c] = Append(@, r)] /\ UNCHANGED answers
          /\ IF c \in connected
             THEN leaving' = Append(leaving, Msg("send", c, r)) /\ UNCHANGED pending
             ELSE pending' = [pending EXCEPT ![c] = Append(@, r)] /\ UNCHANGED leaving
     ELSE answers' = Answered({r}, "closed") /\ UNCHANGED <<sent, pending, leaving>>
  /\ UNCHANGED <<frame, conn, connected, flight, timeouts, toFrame, toPage, scopeVars, told>>

\* The turn ends: the sends go out, in order.
PostSends ==
  /\ leaving # <<>> /\ toFrame' = toFrame \o leaving /\ leaving' = <<>>
  /\ flight' = flight \cup {m.req : m \in Range(leaving)}
  /\ UNCHANGED <<frame, conn, connected, pending, timeouts, toPage, scopeVars, sent, answers, told>>

\* Leaving a connection stops its subscription, at once, when it was started.
Stops(c) == IF conn[c] = "asked" THEN <<Msg("stop", c, None)>> ELSE <<>>

\* connectChain's disconnect. What it had not sent is dropped with it.
Disconnect(c) ==
  /\ IsOpen(c) /\ conn' = [conn EXCEPT ![c] = "gone"]
  /\ pending' = [pending EXCEPT ![c] = <<>>]
  /\ toFrame' = toFrame \o Stops(c)
  /\ UNCHANGED <<frame, connected, leaving, flight, timeouts, toPage, scopeVars, sent, answers, told>>

\* Mutant of ConnectTimeout: the subscription is given up without its stop.
ConnectTimeout_kept(c) ==
  /\ Rested /\ conn[c] = "asked" /\ c \notin connected /\ timeouts < MaxTimeouts
  /\ timeouts' = timeouts + 1
  /\ HaltRemote({c}, "frame")
  /\ UNCHANGED <<frame, connected, leaving, flight, toFrame, toPage, scopeVars, sent>>

\* The connect runs out of its budget, which stops the subscription a busy frame may still accept.
ConnectTimeout(c) ==
  /\ Rested /\ conn[c] = "asked" /\ c \notin connected /\ timeouts < MaxTimeouts
  /\ timeouts' = timeouts + 1
  /\ HaltRemote({c}, "frame") /\ toFrame' = toFrame \o Stops(c)
  /\ UNCHANGED <<frame, connected, leaving, flight, toPage, scopeVars, sent>>

\* The connection that sent r on an open connection.
Sender(r) == CHOOSE c \in Conns : r \in Range(sent[c])

\* Mutant of FailSend: whether the connection is still open is not looked at.
FailSend_late(r, a) == flight' = flight \ {r} /\ answers' = Answered({r}, a)

\* A send's call fails: an open connection hears it as the answer, one that is gone does not.
FailSend(r, a) ==
  /\ flight' = flight \ {r}
  /\ answers' = IF IsOpen(Sender(r)) THEN Answered({r}, a) ELSE answers

SendTimeout(r) ==
  /\ Rested /\ r \in flight /\ timeouts < MaxTimeouts /\ timeouts' = timeouts + 1 /\ FailSend(r, "timeout")
  /\ UNCHANGED <<frame, conn, connected, pending, leaving, toFrame, toPage, scopeVars, sent, told>>

(***************************************************************************)
(* What the page hears                                                      *)
(***************************************************************************)
Hears(kinds) == Rested /\ toPage # <<>> /\ Head(toPage).kind \in kinds /\ toPage' = Tail(toPage)
Heard == Head(toPage)

\* Mutant of HearConnected: what was kept is sent and stays kept.
HearConnected_again ==
  LET c == Heard.conn
      late == [i \in 1 .. Len(pending[c]) |-> Msg("send", c, pending[c][i])] IN
  /\ Hears({"connected"})
  /\ IF IsOpen(c)
     THEN connected' = connected \cup {c} /\ leaving' = leaving \o late
     ELSE UNCHANGED <<connected, leaving>>
  /\ UNCHANGED <<frame, conn, pending, flight, timeouts, toFrame, scopeVars, sent, answers, told>>

\* The frame accepted the connection, and what it was sent meanwhile follows in order.
HearConnected ==
  LET c == Heard.conn
      late == [i \in 1 .. Len(pending[c]) |-> Msg("send", c, pending[c][i])] IN
  /\ Hears({"connected"})
  /\ IF IsOpen(c)
     THEN /\ connected' = connected \cup {c} /\ pending' = [pending EXCEPT ![c] = <<>>]
          /\ leaving' = leaving \o late
     ELSE UNCHANGED <<connected, pending, leaving>>
  /\ UNCHANGED <<frame, conn, flight, timeouts, toFrame, scopeVars, sent, answers, told>>

\* One message of the chain, which the transport drops once the subscription is over (deliver).
HearAnswer ==
  /\ Hears({"answer", "halted"})
  /\ answers' = IF IsOpen(Heard.conn) THEN Answered({Heard.req}, Heard.kind) ELSE answers
  /\ UNCHANGED <<frame, conn, connected, pending, leaving, flight, timeouts, toFrame, scopeVars, sent, told>>

\* The subscription ends: cleanly as the chain halts, with an error as the frame refuses the connection.
HearEnd ==
  LET open == {Heard.conn} \cap {c \in Conns : IsOpen(c)} IN
  /\ Hears({"end", "fail"}) /\ HaltRemote(open, IF Heard.kind = "end" THEN "chain" ELSE "frame")
  /\ UNCHANGED <<frame, connected, leaving, flight, timeouts, toFrame, scopeVars, sent>>

HearReply ==
  /\ Hears({"ok", "refuse"})
  /\ IF Heard.kind = "refuse" /\ Heard.req \in flight
     THEN FailSend(Heard.req, "refused")
     ELSE flight' = flight \ {Heard.req} /\ UNCHANGED answers
  /\ UNCHANGED <<frame, conn, connected, pending, leaving, timeouts, toFrame, scopeVars, sent, told>>

(***************************************************************************)
(* The frame comes and goes                                                 *)
(***************************************************************************)
\* Its keeper boots it again after a while.
Boot ==
  /\ frame \in {"down", "held"} /\ WaitingConns = {} /\ frame' = "booting"
  /\ UNCHANGED <<conn, connected, pending, leaving, flight, timeouts, toFrame, toPage, scopeVars, sent, answers, told>>

FrameReady ==
  /\ frame = "booting" /\ frame' = "ready" /\ served' = TRUE
  /\ UNCHANGED <<conn, connected, pending, leaving, flight, timeouts, toFrame, toPage, held, atChain, reached,
                 sent, answers, told>>

\* The frame is dropped, or its boot fails: every connection halts, each send on its way fails unheard, and
\* what the frame served goes with it (loseFrame, holdFrame).
LoseFrame(next) ==
  /\ HaltRemote({c \in Conns : IsOpen(c)}, "frame")
  /\ frame' = next /\ flight' = {} /\ toFrame' = <<>> /\ toPage' = <<>>
  /\ held' = {} /\ atChain' = [c \in Conns |-> {}]
  /\ UNCHANGED <<connected, leaving, timeouts, served, sent, reached>>

FrameDown ==
  /\ Rested
  /\ \/ frame = "booting" /\ LoseFrame("down")
     \/ frame = "booting" /\ LoseFrame("held")
     \/ frame = "ready" /\ LoseFrame("down")

\* The page hears that the frame let it go.
HearLost == Rested /\ toPage # <<>> /\ Heard.kind = "lost" /\ LoseFrame("down")

(***************************************************************************)
(* The scope in the frame                                                   *)
(***************************************************************************)
pageVars == <<frame, conn, connected, pending, leaving, flight, timeouts, sent, answers, told>>

\* The frame's end hears its next message, in a turn of its own.
Takes(kind) == served /\ toFrame # <<>> /\ Head(toFrame).kind = kind /\ toFrame' = Tail(toFrame)
Taken == Head(toFrame)

\* connect: past the limit, or when the pool cannot connect, the subscription fails.
HearStart(accepts) ==
  LET c == Taken.conn IN
  /\ Takes("start") /\ (accepts => Cardinality(held) < Limit)
  /\ held' = IF accepts THEN held \cup {c} ELSE held
  /\ toPage' = Append(toPage, Msg(IF accepts THEN "connected" ELSE "fail", c, None))
  /\ UNCHANGED <<pageVars, served, atChain, reached>>

\* disconnect, which a connection forgotten before takes nothing from.
HearStop ==
  /\ Takes("stop") /\ held' = held \ {Taken.conn} /\ atChain' = [atChain EXCEPT ![Taken.conn] = {}]
  /\ UNCHANGED <<pageVars, toPage, served, reached>>

\* send: an unknown connection is refused.
HearSend ==
  LET c == Taken.conn  r == Taken.req IN
  /\ Takes("send")
  /\ IF c \in held
     THEN /\ atChain' = [atChain EXCEPT ![c] = @ \cup {r}] /\ reached' = [reached EXCEPT ![c] = Append(@, r)]
          /\ toPage' = Append(toPage, Msg("ok", c, r))
     ELSE toPage' = Append(toPage, Msg("refuse", c, r)) /\ UNCHANGED <<atChain, reached>>
  /\ UNCHANGED <<pageVars, served, held>>

ChainAnswers(c, r) ==
  /\ r \in atChain[c] /\ atChain' = [atChain EXCEPT ![c] = @ \ {r}]
  /\ toPage' = Append(toPage, Msg("answer", c, r))
  /\ UNCHANGED <<pageVars, toFrame, served, held, reached>>

\* What a connection hears as its chain halts.
HaltMessages(c) == {Msg("halted", c, r) : r \in atChain[c]} \cup {Msg("end", c, None)}

\* After an answer comes more of the same connection.
Contiguous(s) == \A i \in 2 .. Len(s) : s[i - 1].kind = "halted" => s[i].conn = s[i - 1].conn

\* Mutant of HaltNews: the end goes out ahead of the answers.
HaltNews_first ==
  {s \in SetToSeqs(UNION {HaltMessages(c) : c \in held}) :
     \A i, j \in 1 .. Len(s) : i < j /\ s[j].kind = "end" => s[i].conn # s[j].conn}

\* The orders it may go out in: each connection hears the answers to all it has in flight, then its end.
HaltNews ==
  {s \in SetToSeqs(UNION {HaltMessages(c) : c \in held}) :
     /\ Contiguous(s)
     /\ \A i, j \in 1 .. Len(s) : i < j /\ s[i].kind = "end" => s[i].conn # s[j].conn}

\* connect's onHalt, for each connection the chain has. The next start finds it built again.
ChainHalts ==
  /\ held # {} /\ \E news \in HaltNews : toPage' = toPage \o news
  /\ held' = {} /\ atChain' = [c \in Conns |-> {}]
  /\ UNCHANGED <<pageVars, toFrame, served, reached>>

\* Mutant of ReleaseScope: the transport goes ahead of the status's end, which is then posted nowhere.
ReleaseScope_silent ==
  /\ frame = "ready" /\ served /\ served' = FALSE
  /\ held' = {} /\ atChain' = [c \in Conns |-> {}]
  /\ UNCHANGED <<pageVars, toFrame, toPage, reached>>

\* The worker lets the page go: its status is the last thing it hears, and its scope closes after that (release).
ReleaseScope ==
  /\ frame = "ready" /\ served /\ served' = FALSE
  /\ toPage' = Append(toPage, Msg("lost", None, None))
  /\ held' = {} /\ atChain' = [c \in Conns |-> {}]
  /\ UNCHANGED <<pageVars, toFrame, reached>>

PageHears == HearConnected \/ HearAnswer \/ HearEnd \/ HearReply \/ HearLost
ScopeHears == (\E accepts \in BOOLEAN : HearStart(accepts)) \/ HearStop \/ HearSend
TurnEnds == (\E c \in Conns : PostStart(c)) \/ FailWait \/ PostSends

Next ==
  \/ \E c \in Conns : Connect(c) \/ Disconnect(c) \/ ConnectTimeout(c)
  \/ \E c \in Conns, r \in Reqs : Send(c, r) \/ ChainAnswers(c, r)
  \/ \E r \in Reqs : SendTimeout(r)
  \/ TurnEnds \/ PageHears \/ ScopeHears
  \/ Boot \/ FrameReady \/ FrameDown \/ ChainHalts \/ ReleaseScope

Spec == Init /\ [][Next]_vars

\* A turn ends, a message arrives, and a boot settles, at the latest when its budget runs out.
FairSpec == Spec /\ WF_vars(TurnEnds) /\ WF_vars(PageHears) /\ WF_vars(ScopeHears)
                 /\ WF_vars(FrameReady \/ (frame = "booting" /\ FrameDown))

(***************************************************************************)
(* Properties                                                               *)
(***************************************************************************)
InTransit(wire, kind, c) == \E i \in 1 .. Len(wire) : wire[i].kind = kind /\ wire[i].conn \in {c, None}

\* The two sides agree on what is open but for what is on its way: a connection the page was told of is served
\* unless its end or the loss of the frame is coming, and the scope serves none but those the page still has or
\* has posted the stop of. A connect that was given up, a halt and a refusal leave neither side with a leftover.
SidesAgree ==
  \A c \in Conns :
    /\ conn[c] = "asked" /\ c \in connected
         => c \in held \/ InTransit(toPage, "end", c) \/ InTransit(toPage, "lost", c)
    /\ c \in held => conn[c] = "asked" \/ InTransit(toFrame, "stop", c)

\* A request is answered at most once, whatever crosses, but for one that ran out of its budget in the frame and was
\* answered with that: the chain may still answer it.
AnsweredOnce ==
  \A r \in Reqs : Len(answers[r]) > 1 => Len(answers[r]) = 2 /\ answers[r][1] = "timeout"

\* A connection's requests reach the chain in the order they were sent, those kept until the frame accepted it
\* first, and none is left out between two that reach it.
SentInOrder == \A c \in Conns : IsPrefix(reached[c], sent[c])

\* A connection is told of one halt, and of its chain's only after the answer to every request the chain took from it.
\* One told of any halt before the frame accepted it has had every request answered. A send still on its way at the
\* halt, and what a frame that is lost had taken, are answered by nobody.
HaltComesAfter ==
  \A c \in Conns : told[c] # <<>> =>
    /\ Len(told[c]) = 1 /\ conn[c] = "gone"
    /\ told[c] = <<"chain">> => \A r \in Range(reached[c]) : answers[r] # <<>>
    /\ c \notin connected => \A r \in Range(sent[c]) : answers[r] # <<>>

\* The page and the frame agree on the connections and on what was sent over each (open, send, connect).
BooksAgree == TypeOK /\ SidesAgree /\ SentInOrder

\* A request is not answered twice, but after its budget ran out, and the halt of a connection's chain is not heard
\* before the answers to what the chain had (deliver, send's isOpen, haltRemote). It promises no answer to a send the
\* halt crosses, which createRemoteChains.ts:86-88 drops although :18-19 says that every request in flight has one.
AnswersAddUp == AnsweredOnce /\ HaltComesAfter

\* A connection that is gone hears nothing more: no halt, and nothing of the requests it sent while it was open.
GoneIsQuiet ==
  [][\A c \in Conns : conn[c] = "gone" =>
       /\ told'[c] = told[c] /\ sent'[c] = sent[c]
       /\ \A r \in Range(sent[c]) : answers'[r] = answers[r]]_vars

\* A connection the frame no longer serves is not left believing in it, and one asked of a frame that boots is
\* accepted or told that it was not.
LostIsHeard ==
  \A c \in Conns :
    /\ (c \in connected /\ c \notin held) ~> conn[c] = "gone"
    /\ (frame = "booting" /\ conn[c] = "waiting") ~> (c \in connected \/ conn[c] = "gone")

=============================================================================
