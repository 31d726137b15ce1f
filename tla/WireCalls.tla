----------------------------- MODULE WireCalls -----------------------------
(***************************************************************************)
(* The wire of packages/transport/src between a page and the protocol       *)
(* worker, through the frame that forwards the page's calls.  Two           *)
(* transports in a row: "page" opens the near link to "front", and "back",  *)
(* in the frame with "front", opens the far link to "worker".               *)
(*                                                                          *)
(* Each side tells nobody as it closes, so the other learns of it only from *)
(* what is modelled elsewhere (WorkerLifecycle).  A handler runs in the     *)
(* turn its message arrives, and a call placed behind a handshake goes out  *)
(* on a microtask, before the next message is heard.                        *)
(*                                                                          *)
(* External: the two ordered channels.  What is posted to a frame that has  *)
(* not loaded is lost.  Ids never wrap onto a call still known, as          *)
(* createCallIds.ts states, so a call keeps its name on both links.         *)
(***************************************************************************)
EXTENDS Naturals, Sequences, SequencesExt, FiniteSets

CONSTANTS Requests,       \* the requests the page makes, each once
          Subscriptions,  \* the subscriptions it makes, each once
          MaxOffers,      \* bound on the handshake offers of each opener
          MaxValues,      \* bound on the values a subscription sends
          MaxCloses       \* bound on the ends that close but for a mismatch

Calls == Requests \cup Subscriptions
Openers == {"page", "back"}
Ends == {"page", "front", "back", "worker"}

ASSUME WireAssumption ==
  /\ Requests \cap Subscriptions = {} /\ IsFiniteSet(Calls)
  /\ MaxOffers \in [Openers -> Nat \ {0}] /\ MaxValues \in Nat /\ MaxCloses \in Nat

VARIABLES phase,    \* each end's phase
          toward,   \* the messages on their way to each end
          loaded,   \* whether the frame listens yet
          agree,    \* whether the two ends of an opener's link speak the same versions
          offers,   \* the offers each opener posted
          placed,   \* the calls each opener holds until its handshake is over, in call order
          calls, lately, \* the page's calls, and those it remembers ending
          front,    \* what the frame serves the page
          back,     \* what the frame has open at the worker
          served,   \* what the worker serves
          sent,     \* history: the values the worker sent on each subscription
          stops,    \* history: how often the stop of a served subscription ran
          heard,    \* history: the values each call of the page's heard
          ends,     \* history: how each call of the page's ended, as it heard
          refused   \* history: whether an open end refused a message as invalid

vars == <<phase, toward, loaded, agree, offers, placed, calls, lately, front, back, served,
          sent, stops, heard, ends, refused>>

Peer(e) == CASE e = "page" -> "front" [] e = "front" -> "page"
             [] e = "back" -> "worker" [] e = "worker" -> "back"

Opening(n) == IF n \in Requests THEN "request" ELSE "start"

\* The ends a call of the page's hears.
Outcomes == {"answered", "interrupted", "failed", "malformed", "cancelled", "closed"}

TypeOK ==
  /\ phase \in [Ends -> {"connecting", "connected", "closed"}]
  /\ loaded \in BOOLEAN /\ agree \in [Openers -> BOOLEAN] /\ refused \in BOOLEAN
  /\ \A o \in Openers : offers[o] \in 0 .. MaxOffers[o]
  /\ \A o \in Openers : placed[o] \in Seq(Calls)
  /\ calls \in [Calls -> {"idle", "queued", "open", "ended"}] /\ lately \subseteq Calls
  /\ back \in [Calls -> {"idle", "queued", "open", "ended"}]
  /\ front \in [Calls -> {"none", "open", "over"}] /\ served \in [Calls -> {"none", "open", "over"}]
  /\ sent \in [Calls -> 0 .. MaxValues] /\ stops \in [Calls -> Nat]
  /\ heard \in [Calls -> Seq(1 .. MaxValues)] /\ ends \in [Calls -> Seq(Outcomes)]

Init ==
  /\ phase = [e \in Ends |-> "connecting"] /\ toward = [e \in Ends |-> <<>>]
  /\ loaded = FALSE /\ agree \in [Openers -> BOOLEAN]
  /\ offers = [o \in Openers |-> 0] /\ placed = [o \in Openers |-> <<>>]
  /\ calls = [n \in Calls |-> "idle"] /\ lately = {}
  /\ front = [n \in Calls |-> "none"] /\ back = [n \in Calls |-> "idle"]
  /\ served = [n \in Calls |-> "none"]
  /\ sent = [n \in Calls |-> 0] /\ stops = [n \in Calls |-> 0]
  /\ heard = [n \in Calls |-> <<>>] /\ ends = [n \in Calls |-> <<>>] /\ refused = FALSE

wireVars == <<phase, loaded, agree, offers>>
frameVars == <<front, back>>
pageVars == <<calls, lately, heard, ends>>
workerVars == <<served, sent, stops>>

(***************************************************************************)
(* Posting and hearing                                                      *)
(***************************************************************************)
Msg(leg, n) == [leg |-> leg, call |-> n]

\* A closed end posts nothing, and a frame that has not loaded hears nothing (post).
Posts(e, msgs) ==
  IF phase[e] = "closed" \/ (e = "page" /\ ~loaded) THEN <<>> ELSE msgs

\* The wires once end e posts msgs.
Posted(e, msgs) == [toward EXCEPT ![Peer(e)] = @ \o Posts(e, msgs)]

\* The wires once end e heard its first message and end by posted msgs.
HeardAndPosted(e, by, msgs) ==
  [toward EXCEPT ![e] = Tail(@), ![Peer(by)] = IF Peer(by) = e THEN Tail(@) \o Posts(by, msgs)
                                               ELSE @ \o Posts(by, msgs)]

\* A settled handshake whose calls are not out yet: they go before the next message is heard.
Flushing(o) == phase[o] # "connecting" /\ placed[o] # <<>>

\* The end hears its next message, with its leg among legs. Both ends in the frame share a thread.
Hears(e, legs) ==
  /\ toward[e] # <<>> /\ Head(toward[e]).leg \in legs
  /\ e \in {"front", "back"} => ~Flushing("back")
  /\ e = "page" => ~Flushing("page")

Next1(e) == Head(toward[e])
Consumed(e) == [toward EXCEPT ![e] = Tail(@)]

(***************************************************************************)
(* The handshake                                                            *)
(***************************************************************************)
Load == /\ ~loaded /\ loaded' = TRUE
        /\ UNCHANGED <<phase, toward, agree, offers, placed, pageVars, frameVars, workerVars, refused>>

\* The opener offers, again and again until it is answered (start, attempt). Its first call starts it.
Offer(o) ==
  /\ phase[o] = "connecting" /\ placed[o] # <<>> /\ offers[o] < MaxOffers[o]
  /\ offers' = [offers EXCEPT ![o] = @ + 1]
  /\ toward' = Posted(o, <<Msg("offer", o)>>)
  /\ UNCHANGED <<phase, loaded, agree, placed, pageVars, frameVars, workerVars, refused>>

\* The accepter answers every offer as it answered the first, and the first decides (hearOffer, answerOffer).
HearOffer(a) ==
  LET o == Peer(a) IN
  /\ Hears(a, {"offer"})
  /\ toward' = HeardAndPosted(a, a, <<Msg(IF agree[o] THEN "welcome" ELSE "mismatch", o)>>)
  /\ phase' = [phase EXCEPT ![a] = IF @ # "connecting" THEN @
                                   ELSE IF agree[o] THEN "connected" ELSE "closed"]
  /\ UNCHANGED <<loaded, agree, offers, placed, pageVars, frameVars, workerVars, refused>>

\* The first answer settles the opener's handshake (hearResponse, connect, fail).
HearAnswer(o) ==
  /\ Hears(o, {"welcome", "mismatch"})
  /\ phase' = [phase EXCEPT ![o] = IF @ # "connecting" THEN @
                                   ELSE IF Next1(o).leg = "welcome" THEN "connected" ELSE "closed"]
  /\ toward' = Consumed(o)
  /\ UNCHANGED <<loaded, agree, offers, placed, pageVars, frameVars, workerVars, refused>>

(***************************************************************************)
(* The page's calls                                                         *)
(***************************************************************************)
\* request, subscribe: on a closed transport a request rejects at once, a subscription on a microtask.
Call(n) ==
  /\ calls[n] = "idle"
  /\ IF phase["page"] = "closed" /\ n \in Requests
     THEN /\ calls' = [calls EXCEPT ![n] = "ended"] /\ ends' = [ends EXCEPT ![n] = Append(@, "closed")]
          /\ UNCHANGED placed
     ELSE /\ calls' = [calls EXCEPT ![n] = "queued"]
          /\ placed' = [placed EXCEPT !["page"] = Append(@, n)]
          /\ UNCHANGED ends
  /\ UNCHANGED <<wireVars, toward, lately, heard, frameVars, workerVars, refused>>

\* A placed call goes out once the handshake is over, unless it ended meanwhile (place, postRequest, postStart).
FlushPage ==
  LET n == Head(placed["page"]) IN
  /\ Flushing("page")
  /\ placed' = [placed EXCEPT !["page"] = Tail(@)]
  /\ CASE calls[n] # "queued" -> UNCHANGED <<calls, ends, toward>>
       [] calls[n] = "queued" /\ phase["page"] = "closed" ->
            /\ calls' = [calls EXCEPT ![n] = "ended"]
            /\ ends' = [ends EXCEPT ![n] = Append(@, "closed")]
            /\ UNCHANGED toward
       [] OTHER ->
            /\ calls' = [calls EXCEPT ![n] = "open"]
            /\ toward' = Posted("page", <<Msg(Opening(n), n)>>)
            /\ UNCHANGED ends
  /\ UNCHANGED <<wireVars, lately, heard, frameVars, workerVars, refused>>

\* Mutant of Leave: the call is not remembered among those that ended lately.
Leave_forgotten(n, aborts) ==
  /\ calls[n] \in {"queued", "open"} /\ (n \in Requests => aborts)
  /\ calls' = [calls EXCEPT ![n] = "ended"]
  /\ ends' = IF aborts THEN [ends EXCEPT ![n] = Append(@, "cancelled")] ELSE ends
  /\ toward' = Posted("page", IF n \in Subscriptions /\ calls[n] = "open" THEN <<Msg("stop", n)>> ELSE <<>>)
  /\ UNCHANGED <<wireVars, placed, lately, heard, frameVars, workerVars, refused>>

\* The page gives up: a request is dropped without a word, a subscription that went out is stopped
\* at the peer. An abort is heard, an unsubscribe is not (cancel, unsubscribe, finish).
Leave(n, aborts) ==
  /\ calls[n] \in {"queued", "open"} /\ (n \in Requests => aborts)
  /\ calls' = [calls EXCEPT ![n] = "ended"]
  /\ lately' = IF calls[n] = "open" THEN lately \cup {n} ELSE lately
  /\ ends' = IF aborts THEN [ends EXCEPT ![n] = Append(@, "cancelled")] ELSE ends
  /\ toward' = Posted("page", IF n \in Subscriptions /\ calls[n] = "open" THEN <<Msg("stop", n)>> ELSE <<>>)
  /\ UNCHANGED <<wireVars, placed, heard, frameVars, workerVars, refused>>

\* What a leg ends the page's call with.
OutcomeOf(m) == CASE m.leg = "response" -> "answered" [] m.leg = "interrupt" -> "interrupted"
                  [] m.leg = "failed" -> "failed"

\* A message on an open call (hear, hearOwn, failOwn). One that does not decode ends the call, and a
\* value lost that way stops the subscription at the peer (refuseAnswer, failMalformed).
HearPage ==
  LET m == Next1("page")  n == m.call IN
  /\ Hears("page", {"response", "value", "interrupt", "failed"})
  /\ IF calls[n] # "open"
     THEN /\ refused' = (refused \/ (n \notin lately /\ phase["page"] # "closed"))
          /\ toward' = Consumed("page") /\ UNCHANGED pageVars
     ELSE /\ UNCHANGED refused
          /\ \/ /\ m.leg = "value"
                /\ heard' = [heard EXCEPT ![n] = Append(@, m.value)]
                /\ toward' = Consumed("page") /\ UNCHANGED <<calls, lately, ends>>
             \/ /\ m.leg # "value"
                /\ calls' = [calls EXCEPT ![n] = "ended"]
                /\ lately' = IF n \in Requests THEN lately \cup {n} ELSE lately
                /\ ends' = [ends EXCEPT ![n] = Append(@, OutcomeOf(m))]
                /\ toward' = Consumed("page") /\ UNCHANGED heard
             \/ /\ m.leg # "failed"
                /\ calls' = [calls EXCEPT ![n] = "ended"]
                /\ lately' = IF n \in Requests \/ m.leg = "value" THEN lately \cup {n} ELSE lately
                /\ ends' = [ends EXCEPT ![n] = Append(@, "malformed")] /\ UNCHANGED heard
                /\ toward' = HeardAndPosted("page", "page",
                                            IF m.leg = "value" THEN <<Msg("stop", n)>> ELSE <<>>)
  /\ UNCHANGED <<wireVars, placed, frameVars, workerVars>>

(***************************************************************************)
(* The frame, which forwards                                                *)
(***************************************************************************)
\* A call of the page's opens one at the worker, behind that link's handshake (forwardRequest,
\* forwardSubscription, open). A call before the handshake is answered early, after a close refused.
HearOpening ==
  LET n == Next1("front").call IN
  /\ Hears("front", {"request", "start"})
  /\ toward' = HeardAndPosted("front", "front",
                              IF phase["front"] = "connecting" THEN <<Msg("failed", n)>> ELSE <<>>)
  /\ refused' = (refused \/ phase["front"] = "connecting")
  /\ IF phase["front"] = "connected"
     THEN /\ front' = [front EXCEPT ![n] = "open"]
          /\ back' = [back EXCEPT ![n] = "queued"]
          /\ placed' = [placed EXCEPT !["back"] = Append(@, n)]
     ELSE UNCHANGED <<frameVars, placed>>
  /\ UNCHANGED <<wireVars, pageVars, workerVars>>

\* Mutant of HearStop: the frame forgets the call and does not pass the stop on.
HearStop_kept ==
  LET n == Next1("front").call IN
  /\ Hears("front", {"stop"})
  /\ IF front[n] = "open"
     THEN front' = [front EXCEPT ![n] = "over"] /\ back' = [back EXCEPT ![n] = "ended"]
     ELSE UNCHANGED frameVars
  /\ toward' = Consumed("front")
  /\ UNCHANGED <<wireVars, placed, pageVars, workerVars, refused>>

\* A stop for a call still waiting at the far link keeps it from ever going out (stopWith, send, forget).
HearStop ==
  LET n == Next1("front").call IN
  /\ Hears("front", {"stop"})
  /\ IF front[n] = "open"
     THEN /\ front' = [front EXCEPT ![n] = "over"]
          /\ back' = [back EXCEPT ![n] = "ended"]
          /\ toward' = HeardAndPosted("front", "back", IF back[n] = "open" THEN <<Msg("stop", n)>> ELSE <<>>)
     ELSE toward' = Consumed("front") /\ UNCHANGED frameVars
  /\ refused' = (refused \/ phase["front"] = "connecting")
  /\ UNCHANGED <<wireVars, placed, pageVars, workerVars>>

\* Mutant of FlushBack: a call that ended while it waited still goes out.
FlushBack_late ==
  LET n == Head(placed["back"]) IN
  /\ Flushing("back") /\ phase["back"] = "connected"
  /\ placed' = [placed EXCEPT !["back"] = Tail(@)]
  /\ back' = [back EXCEPT ![n] = "open"]
  /\ toward' = Posted("back", <<Msg(Opening(n), n)>>)
  /\ UNCHANGED <<wireVars, front, pageVars, workerVars, refused>>

\* postOpening, closeQueued: a far link that closed fails the call back to the page (answerEnd).
FlushBack ==
  LET n == Head(placed["back"]) IN
  /\ Flushing("back")
  /\ placed' = [placed EXCEPT !["back"] = Tail(@)]
  /\ CASE back[n] # "queued" -> UNCHANGED <<frameVars, toward>>
       [] back[n] = "queued" /\ phase["back"] = "closed" ->
            /\ back' = [back EXCEPT ![n] = "ended"]
            /\ front' = [front EXCEPT ![n] = "over"]
            /\ toward' = Posted("front", IF front[n] = "open" THEN <<Msg("failed", n)>> ELSE <<>>)
       [] OTHER ->
            /\ back' = [back EXCEPT ![n] = "open"]
            /\ toward' = Posted("back", <<Msg(Opening(n), n)>>)
            /\ UNCHANGED front
  /\ UNCHANGED <<wireVars, pageVars, workerVars, refused>>

\* What the worker sends on a forwarded call goes back as it is, and its end ends the call here
\* (forwardRequest, forwardSubscription). A call forgotten lately drops it.
HearBack ==
  LET m == Next1("back")  n == m.call IN
  /\ Hears("back", {"response", "value", "interrupt", "failed"})
  /\ CASE back[n] # "open" -> toward' = Consumed("back") /\ UNCHANGED frameVars
       [] back[n] = "open" /\ m.leg = "value" -> toward' = HeardAndPosted("back", "front", <<m>>) /\ UNCHANGED frameVars
       [] OTHER ->
            /\ back' = [back EXCEPT ![n] = "ended"]
            /\ front' = [front EXCEPT ![n] = "over"]
            /\ toward' = HeardAndPosted("back", "front", IF front[n] = "open" THEN <<m>> ELSE <<>>)
  /\ UNCHANGED <<wireVars, placed, pageVars, workerVars, refused>>

(***************************************************************************)
(* The worker, which serves                                                 *)
(***************************************************************************)
\* A request is kept in flight until its handler settles (handleRequest). A subscription's handler
\* may start it, throw, or end it at once, before it said how to stop (startSubscription).
Serve ==
  LET n == Next1("worker").call IN
  /\ Hears("worker", {"request", "start"})
  /\ refused' = (refused \/ phase["worker"] = "connecting")
  /\ CASE phase["worker"] = "closed" -> toward' = Consumed("worker") /\ UNCHANGED workerVars
       [] phase["worker"] = "connecting" ->
            toward' = HeardAndPosted("worker", "worker", <<Msg("failed", n)>>) /\ UNCHANGED workerVars
       [] OTHER ->
            \/ /\ served' = [served EXCEPT ![n] = "open"]
               /\ toward' = Consumed("worker") /\ UNCHANGED <<sent, stops>>
            \/ /\ n \in Subscriptions
               /\ served' = [served EXCEPT ![n] = "over"]
               /\ \/ toward' = HeardAndPosted("worker", "worker", <<Msg("failed", n)>>) /\ UNCHANGED stops
                  \/ /\ toward' = HeardAndPosted("worker", "worker", <<Msg("interrupt", n)>>)
                     /\ stops' = [stops EXCEPT ![n] = @ + 1]
               /\ UNCHANGED sent
  /\ UNCHANGED <<wireVars, placed, pageVars, frameVars>>

\* A handler settles, and its answer goes out unless the request was dropped.
Answer(n, leg) ==
  /\ n \in Requests /\ served[n] = "open"
  /\ served' = [served EXCEPT ![n] = "over"]
  /\ toward' = Posted("worker", <<Msg(leg, n)>>)
  /\ UNCHANGED <<wireVars, placed, pageVars, frameVars, sent, stops, refused>>

\* sink.send
SendValue(n) ==
  /\ n \in Subscriptions /\ served[n] = "open" /\ sent[n] < MaxValues
  /\ sent' = [sent EXCEPT ![n] = @ + 1]
  /\ toward' = Posted("worker", <<[leg |-> "value", call |-> n, value |-> sent'[n]]>>)
  /\ UNCHANGED <<wireVars, placed, pageVars, frameVars, served, stops, refused>>

\* sink.interrupt, or a value the wire cannot carry (failWith, finish).
EndServed(n, leg) ==
  /\ n \in Subscriptions /\ served[n] = "open"
  /\ served' = [served EXCEPT ![n] = "over"]
  /\ stops' = [stops EXCEPT ![n] = @ + 1]
  /\ toward' = Posted("worker", <<Msg(leg, n)>>)
  /\ UNCHANGED <<wireVars, placed, pageVars, frameVars, sent, refused>>

\* hear on a running subscription: a stop runs its stop function, and one that crossed its end stops nothing.
ServeStop ==
  LET n == Next1("worker").call IN
  /\ Hears("worker", {"stop"})
  /\ IF served[n] = "open"
     THEN /\ served' = [served EXCEPT ![n] = "over"] /\ stops' = [stops EXCEPT ![n] = @ + 1]
     ELSE UNCHANGED <<served, stops>>
  /\ refused' = (refused \/ phase["worker"] = "connecting")
  /\ toward' = Consumed("worker")
  /\ UNCHANGED <<wireVars, placed, pageVars, frameVars, sent>>

(***************************************************************************)
(* Closing: a dispose, a failed post, a handshake out of time               *)
(***************************************************************************)
Shut(e) ==
  /\ phase[e] # "closed" /\ Cardinality({x \in Ends : phase[x] = "closed"}) < MaxCloses
  /\ phase' = [phase EXCEPT ![e] = "closed"]

\* Mutant of ClosePage: the calls hear the close and stay open.
ClosePage_open ==
  /\ Shut("page")
  /\ ends' = [n \in Calls |-> IF calls[n] = "open" THEN Append(ends[n], "closed") ELSE ends[n]]
  /\ UNCHANGED <<toward, loaded, agree, offers, placed, calls, lately, heard, frameVars, workerVars, refused>>

\* closeAll: calls that went out hear the close at once, those that wait hear it as they leave.
ClosePage ==
  /\ Shut("page")
  /\ calls' = [n \in Calls |-> IF calls[n] = "open" THEN "ended" ELSE calls[n]]
  /\ lately' = lately \cup {n \in Requests : calls[n] = "open"}
  /\ ends' = [n \in Calls |-> IF calls[n] = "open" THEN Append(ends[n], "closed") ELSE ends[n]]
  /\ UNCHANGED <<toward, loaded, agree, offers, placed, heard, frameVars, workerVars, refused>>

\* dropAll over forwarded calls: a request is forgotten, a subscription stopped at the worker.
CloseFront ==
  LET dropped == {n \in Calls : front[n] = "open"} IN
  /\ loaded /\ Shut("front")
  /\ front' = [n \in Calls |-> IF n \in dropped THEN "over" ELSE front[n]]
  /\ back' = [n \in Calls |-> IF n \in dropped THEN "ended" ELSE back[n]]
  /\ \E order \in SetToSeqs({n \in dropped \cap Subscriptions : back[n] = "open"}) :
       toward' = Posted("back", [i \in DOMAIN order |-> Msg("stop", order[i])])
  /\ UNCHANGED <<loaded, agree, offers, placed, pageVars, workerVars, refused>>

\* Mutant of CloseBack: the forwarded calls end at the frame and the page hears nothing.
CloseBack_silent ==
  LET ended == {n \in Calls : back[n] = "open"} IN
  /\ loaded /\ Shut("back")
  /\ back' = [n \in Calls |-> IF n \in ended THEN "ended" ELSE back[n]]
  /\ front' = [n \in Calls |-> IF n \in ended THEN "over" ELSE front[n]]
  /\ UNCHANGED <<toward, loaded, agree, offers, placed, pageVars, workerVars, refused>>

\* closeAll over forwarded calls: each that went out fails back to the page (answerEnd).
CloseBack ==
  LET ended == {n \in Calls : back[n] = "open"} IN
  /\ loaded /\ Shut("back")
  /\ back' = [n \in Calls |-> IF n \in ended THEN "ended" ELSE back[n]]
  /\ front' = [n \in Calls |-> IF n \in ended THEN "over" ELSE front[n]]
  /\ \E order \in SetToSeqs({n \in ended : front[n] = "open"}) :
       toward' = Posted("front", [i \in DOMAIN order |-> Msg("failed", order[i])])
  /\ UNCHANGED <<loaded, agree, offers, placed, pageVars, workerVars, refused>>

\* dropAll: requests in flight are never answered, subscriptions stop.
CloseWorker ==
  /\ Shut("worker")
  /\ served' = [n \in Calls |-> IF served[n] = "open" THEN "over" ELSE served[n]]
  /\ stops' = [n \in Calls |-> IF n \in Subscriptions /\ served[n] = "open" THEN stops[n] + 1 ELSE stops[n]]
  /\ UNCHANGED <<toward, loaded, agree, offers, placed, pageVars, frameVars, sent, refused>>

\* The frame's calls and the worker's run on the events of their own threads.
Deliver ==
  \/ \E a \in {"front", "worker"} : HearOffer(a)
  \/ \E o \in Openers : HearAnswer(o)
  \/ HearPage \/ HearOpening \/ HearStop \/ HearBack \/ Serve \/ ServeStop

Next ==
  \/ Load \/ Deliver \/ FlushPage \/ FlushBack
  \/ \E o \in Openers : Offer(o)
  \/ \E n \in Calls : Call(n) \/ (\E aborts \in BOOLEAN : Leave(n, aborts))
  \/ \E n \in Requests : \E leg \in {"response", "failed"} : Answer(n, leg)
  \/ \E n \in Subscriptions : SendValue(n) \/ (\E leg \in {"interrupt", "failed"} : EndServed(n, leg))
  \/ ClosePage \/ CloseFront \/ CloseBack \/ CloseWorker

Spec == Init /\ [][Next]_vars

\* Channels deliver, microtasks run, and the worker's handlers settle. Nobody has to call, leave or close.
FairSpec ==
  /\ Spec
  /\ WF_vars(Deliver) /\ WF_vars(FlushPage) /\ WF_vars(FlushBack) /\ WF_vars(Offer("back"))
  /\ \A n \in Requests : WF_vars(\E leg \in {"response", "failed"} : Answer(n, leg))

(***************************************************************************)
(* Properties                                                               *)
(***************************************************************************)
\* A call of the page's hears what the worker sent on it, in order and without a gap, and then at
\* most one end (finish, leave, forwardSubscription).
HeardInOrder ==
  \A n \in Calls : /\ \A i \in DOMAIN heard[n] : heard[n][i] = i
                   /\ Len(ends[n]) <= 1

InTransit(e, leg, n) == \E i \in DOMAIN toward[e] : toward[e][i].leg = leg /\ toward[e][i].call = n

\* A call that ended hears nothing more, and one that ended while it waited for a handshake, the
\* page's or the frame's, is never sent (leave, finish, postOpening, forget).
EndedIsQuiet ==
  [][\A n \in Calls :
       /\ calls[n] = "ended" => calls'[n] = "ended" /\ heard'[n] = heard[n] /\ ends'[n] = ends[n]
       /\ calls[n] = "ended" /\ ~InTransit("front", Opening(n), n) => ~InTransit("front", Opening(n), n)'
       /\ front[n] = "over" /\ ~InTransit("worker", Opening(n), n) => ~InTransit("worker", Opening(n), n)']_vars

\* A subscription the worker still runs for a call that ended is being stopped, through the frame
\* too, unless an end closed on the way, and its stop function runs once, however it ends (stopWith,
\* dropAll, finish).
OrphansAreStopped ==
  \A n \in Subscriptions :
    /\ served[n] = "open" /\ calls[n] = "ended" =>
         \/ \E e \in {"page", "back"} : phase[e] = "closed"
         \/ InTransit("front", "stop", n) \/ InTransit("worker", "stop", n)
    /\ stops[n] <= 1 /\ (stops[n] = 1 => served[n] = "over")

\* No open end refuses a message: calls come after the handshake, and what comes late on a call
\* names one that ended lately (answerEarly, refuseStray).
NothingRefused == ~refused

\* The ends agree on the calls between them, whatever crosses: nothing is refused, and nothing runs for a call that
\* ended (stopWith, dropAll, refuseStray).
CallsAgree == TypeOK /\ NothingRefused /\ OrphansAreStopped

\* A request that went out ends, unless the far side of one of its links closed without a word.
RequestsEnd ==
  \A n \in Requests : calls[n] = "open" ~> (calls[n] = "ended" \/ phase["front"] = "closed"
                                                              \/ phase["worker"] = "closed")
=============================================================================
