--------------------------- MODULE WireCallsProofs ---------------------------
(***************************************************************************)
(* Theorems about WireCalls, for any number of requests, subscriptions,     *)
(* offers, values and closes.                                               *)
(*                                                                          *)
(* The inductive invariant follows one call through the four queues.  Its   *)
(* opening is in one place at a time, so the frame opens it at the worker   *)
(* once (OpensOnce), and the values on their way are a stretch of what the  *)
(* worker sent: those the page heard, those on their way to it, those the   *)
(* frame dropped, and those on their way to the frame (Streams).  A second  *)
(* one, below, says what each end may still be asked and what each call's   *)
(* stop is behind (AgreeInv).                                               *)
(***************************************************************************)
EXTENDS WireCalls, FiniteSetTheorems, TLAPS

Values == 1 .. MaxValues

Message == [leg : {"offer", "welcome", "mismatch"}, call : Openers]
           \cup [leg : {"request"}, call : Requests] \cup [leg : {"start"}, call : Subscriptions]
           \cup [leg : {"stop", "response", "interrupt", "failed"}, call : Calls]
           \cup [leg : {"value"}, call : Calls, value : Values]

Queues == Seq(Message)

Shapes ==
  /\ toward \in [Ends -> Queues] /\ placed \in [Openers -> Seq(Calls)]
  /\ offers \in [Openers -> Nat]

\* Only a connected end serves.
Serving ==
  \A n \in Calls : /\ front[n] = "open" => phase["front"] = "connected"
                   /\ served[n] = "open" => phase["worker"] = "connected"

\* The frame serves a call as long as it has it open at the worker.
Forwarded ==
  \A n \in Calls : /\ front[n] = "open" <=> back[n] \in {"queued", "open"}
                   /\ front[n] = "none" <=> back[n] = "idle"

Opens(m, n) == m.leg \in {"request", "start"} /\ m.call = n
HasOpening(q, n) == \E i \in DOMAIN q : Opens(q[i], n)
Once(q, n) == \A i, j \in DOMAIN q : Opens(q[i], n) /\ Opens(q[j], n) => i = j
Places(q, n) == {i \in DOMAIN q : q[i] = n}

\* A call is placed, on its way, or at the frame: in one of the three, once.
OpensOnce(n) ==
  /\ calls[n] = "idle" => Places(placed["page"], n) = {}
  /\ \A i, j \in Places(placed["page"], n) : i = j
  /\ Places(placed["page"], n) # {} \/ calls[n] \in {"idle", "queued"}
       => ~HasOpening(toward["front"], n) /\ front[n] = "none"
  /\ HasOpening(toward["front"], n) => front[n] = "none"
  /\ Once(toward["front"], n)
  /\ back[n] \in {"idle", "queued"} => ~HasOpening(toward["worker"], n) /\ served[n] = "none"
  /\ served[n] = "none" => sent[n] = 0

Carries(m, n) == m.leg = "value" /\ m.call = n

\* The values of call n in the queue are those from a + 1 to b, in order.
Stream(q, n, a, b) ==
  /\ a <= b
  /\ \A i \in DOMAIN q : Carries(q[i], n) => q[i].value \in a + 1 .. b
  /\ \A v \in a + 1 .. b : \E i \in DOMAIN q : Carries(q[i], n) /\ q[i].value = v
  /\ \A i, j \in DOMAIN q : i < j /\ Carries(q[i], n) /\ Carries(q[j], n) => q[i].value < q[j].value

Upto == 0 .. MaxValues

\* The page heard up to a, what is on its way to it goes up to b, and what is on its way to the frame starts after c.
Streams(n) ==
  \E a, b, c \in Upto :
    /\ b <= c /\ Stream(toward["page"], n, a, b) /\ Stream(toward["back"], n, c, sent[n])
    /\ calls[n] # "ended" => a = Len(heard[n])
    /\ back[n] # "ended" => b = c

\* What the page heard so far is counted up, and only a call that ended has heard an end.
Hearing(n) ==
  /\ \A i \in DOMAIN heard[n] : heard[n][i] = i
  /\ Len(ends[n]) <= 1 /\ (calls[n] # "ended" => ends[n] = <<>>)

Sound(n) == OpensOnce(n) /\ Streams(n) /\ Hearing(n)

Books == TypeOK /\ Shapes /\ Serving /\ Forwarded
IInv == Books /\ \A n \in Calls : Sound(n)

----------------------------------------------------------------------------
(* Messages. *)

\* The kinds of messages there are.
LEMMA MessageKinds ==
  ASSUME NEW m \in Message
  PROVE  /\ m.leg \in {"offer", "welcome", "mismatch", "request", "start", "stop", "response", "interrupt",
                       "failed", "value"}
         /\ m.leg \notin {"offer", "welcome", "mismatch"} => m.call \in Calls
         /\ m.leg = "value" => m.value \in Values
  BY DEF Message, Calls

\* What a message built from a leg and a call is.
LEMMA MsgIs ==
  ASSUME NEW n
  PROVE  /\ \A leg : Msg(leg, n).leg = leg /\ Msg(leg, n).call = n
         /\ \A leg \in {"offer", "welcome", "mismatch"} : n \in Openers => Msg(leg, n) \in Message
         /\ \A leg \in {"stop", "response", "interrupt", "failed"} : n \in Calls => Msg(leg, n) \in Message
         /\ n \in Calls => Msg(Opening(n), n) \in Message
  BY DEF Msg, Message, Opening, Calls

\* What a message that carries a value is.
LEMMA ValueIs ==
  ASSUME NEW n \in Calls, NEW v \in Values
  PROVE  /\ [leg |-> "value", call |-> n, value |-> v] \in Message
         /\ Carries([leg |-> "value", call |-> n, value |-> v], n)
         /\ [leg |-> "value", call |-> n, value |-> v].value = v
  BY DEF Message, Carries

----------------------------------------------------------------------------
(* Queues. *)

\* Nothing in the queue opens call n or carries a value of it.
Silent(q, n) == \A i \in DOMAIN q : ~Opens(q[i], n) /\ ~Carries(q[i], n)

\* The queue q2 has no opening of n more than q, and the same values.
Same(q, q2, n) ==
  /\ HasOpening(q2, n) => HasOpening(q, n)
  /\ Once(q, n) => Once(q2, n)
  /\ \A a, b \in Upto : Stream(q, n, a, b) => Stream(q2, n, a, b)

\* The same, but the first values may be gone.
Thins(q, q2, n) ==
  /\ HasOpening(q2, n) => HasOpening(q, n)
  /\ Once(q, n) => Once(q2, n)
  /\ \A a, b \in Upto : Stream(q, n, a, b) => \E a2 \in Upto : a <= a2 /\ Stream(q2, n, a2, b)

\* The rest of a sequence, place by place.
LEMMA TailIs ==
  ASSUME NEW S, NEW q \in Seq(S), q # <<>>
  PROVE  /\ Tail(q) \in Seq(S) /\ DOMAIN Tail(q) = 1 .. Len(q) - 1 /\ DOMAIN q = 1 .. Len(q)
         /\ Len(q) \in Nat \ {0} /\ 1 \in DOMAIN q /\ Head(q) = q[1] /\ Head(q) \in S
         /\ \A i \in DOMAIN Tail(q) : i + 1 \in DOMAIN q /\ Tail(q)[i] = q[i + 1]
         /\ \A i \in DOMAIN q : i # 1 => i - 1 \in DOMAIN Tail(q) /\ Tail(q)[i - 1] = q[i]
  OBVIOUS

\* One sequence behind another, place by place.
LEMMA ConcatIs ==
  ASSUME NEW S, NEW q \in Seq(S), NEW ext \in Seq(S)
  PROVE  /\ q \o ext \in Seq(S) /\ DOMAIN q = 1 .. Len(q) /\ DOMAIN ext = 1 .. Len(ext)
         /\ DOMAIN (q \o ext) = 1 .. Len(q) + Len(ext) /\ Len(q) \in Nat /\ Len(ext) \in Nat
         /\ \A i \in DOMAIN q : i \in DOMAIN (q \o ext) /\ (q \o ext)[i] = q[i]
         /\ \A i \in DOMAIN ext : Len(q) + i \in DOMAIN (q \o ext) /\ (q \o ext)[Len(q) + i] = ext[i]
         /\ \A i \in DOMAIN (q \o ext) : i \in DOMAIN q
              \/ (i > Len(q) /\ i - Len(q) \in DOMAIN ext /\ (q \o ext)[i] = ext[i - Len(q)])
  OBVIOUS

\* The values left once the first message is heard: the first of them is gone if it carried one.
LEMMA TailStream ==
  ASSUME WireAssumption, NEW q \in Queues, q # <<>>, NEW n, NEW a \in Upto, NEW b \in Upto, Stream(q, n, a, b)
  PROVE  /\ ~Carries(Head(q), n) => Stream(Tail(q), n, a, b)
         /\ Carries(Head(q), n) => /\ Head(q).value = a + 1 /\ a + 1 \in Upto
                                   /\ Stream(Tail(q), n, a + 1, b)
<1>. DEFINE t == Tail(q)
<1>1. /\ DOMAIN t = 1 .. Len(q) - 1 /\ DOMAIN q = 1 .. Len(q) /\ Len(q) \in Nat \ {0} /\ 1 \in DOMAIN q
      /\ Head(q) = q[1]
      /\ \A i \in DOMAIN t : i + 1 \in DOMAIN q /\ t[i] = q[i + 1]
      /\ \A i \in DOMAIN q : i # 1 => i - 1 \in DOMAIN t /\ t[i - 1] = q[i]
  BY TailIs DEF Queues
<1>2. a \in Nat /\ b \in Nat /\ a <= b /\ MaxValues \in Nat
  BY DEF WireAssumption, Upto, Stream
<1>. HIDE DEF t
<1>3. /\ \A i \in DOMAIN q : Carries(q[i], n) => q[i].value \in a + 1 .. b
      /\ \A v \in a + 1 .. b : \E i \in DOMAIN q : Carries(q[i], n) /\ q[i].value = v
      /\ \A i, j \in DOMAIN q : i < j /\ Carries(q[i], n) /\ Carries(q[j], n) => q[i].value < q[j].value
  BY DEF Stream
<1>4. \A i \in DOMAIN t : Carries(t[i], n) => t[i].value \in a + 1 .. b
  BY <1>1, <1>3
<1>5. \A i, j \in DOMAIN t : i < j /\ Carries(t[i], n) /\ Carries(t[j], n) => t[i].value < t[j].value
  <2>1. ASSUME NEW i \in DOMAIN t, NEW j \in DOMAIN t, i < j, Carries(t[i], n), Carries(t[j], n)
        PROVE  t[i].value < t[j].value
    <3>1. i + 1 \in DOMAIN q /\ j + 1 \in DOMAIN q /\ i + 1 < j + 1 /\ t[i] = q[i + 1] /\ t[j] = q[j + 1]
      BY <1>1, <2>1
    <3>. QED BY <1>3, <2>1, <3>1
  <2>. QED BY <2>1
<1>6. CASE ~Carries(Head(q), n)
  <2>1. \A v \in a + 1 .. b : \E i \in DOMAIN t : Carries(t[i], n) /\ t[i].value = v
    BY <1>1, <1>3, <1>6
  <2>. QED BY <1>2, <1>4, <1>5, <1>6, <2>1 DEF Stream, t
<1>7. CASE Carries(Head(q), n)
  <2>1. q[1].value \in a + 1 .. b
    BY <1>1, <1>3, <1>7
  <2>2. q[1].value = a + 1
    <3>1. a + 1 \in a + 1 .. b
      BY <1>2, <2>1
    <3>2. PICK i \in DOMAIN q : Carries(q[i], n) /\ q[i].value = a + 1
      BY <1>3, <3>1
    <3>3. i # 1 => q[1].value < q[i].value
      <4>1. 1 \in DOMAIN q /\ Carries(q[1], n) /\ (i # 1 => 1 < i)
        BY <1>1, <1>7
      <4>. QED BY <1>3, <3>2, <4>1
    <3>. QED BY <1>2, <2>1, <3>2, <3>3
  <2>3. \A i \in DOMAIN t : Carries(t[i], n) => t[i].value \in a + 2 .. b
    <3>1. ASSUME NEW i \in DOMAIN t, Carries(t[i], n) PROVE t[i].value \in a + 2 .. b
      <4>1. i + 1 \in DOMAIN q /\ t[i] = q[i + 1] /\ 1 < i + 1
        BY <1>1
      <4>2. q[1].value < q[i + 1].value /\ q[i + 1].value \in a + 1 .. b
        BY <1>1, <1>3, <1>7, <3>1, <4>1
      <4>. QED BY <1>2, <2>2, <4>1, <4>2
    <3>. QED BY <3>1
  <2>4. \A v \in a + 2 .. b : \E i \in DOMAIN t : Carries(t[i], n) /\ t[i].value = v
    <3>1. ASSUME NEW v \in a + 2 .. b PROVE \E i \in DOMAIN t : Carries(t[i], n) /\ t[i].value = v
      <4>1. PICK i \in DOMAIN q : Carries(q[i], n) /\ q[i].value = v
        BY <1>2, <1>3, <3>1
      <4>2. i # 1
        BY <1>2, <2>2, <4>1
      <4>. QED BY <1>1, <4>1, <4>2
    <3>. QED BY <3>1
  <2>5. (a + 1) + 1 .. b = a + 2 .. b /\ a + 1 <= b
    BY <1>2, <2>1
  <2>6. a + 1 \in Upto
    BY <1>2, <2>5 DEF Upto
  <2>7. Stream(t, n, a + 1, b)
    BY <1>5, <2>3, <2>4, <2>5 DEF Stream
  <2>. QED BY <1>1, <1>7, <2>2, <2>6, <2>7 DEF t
<1>. QED BY <1>6, <1>7

\* The openings left once the first message is heard.
LEMMA TailOpens ==
  ASSUME NEW q \in Queues, q # <<>>, NEW n
  PROVE  /\ HasOpening(Tail(q), n) => HasOpening(q, n)
         /\ Once(q, n) => Once(Tail(q), n) /\ (Opens(Head(q), n) => ~HasOpening(Tail(q), n))
<1>. DEFINE t == Tail(q)
<1>1. /\ DOMAIN t = 1 .. Len(q) - 1 /\ DOMAIN q = 1 .. Len(q) /\ Len(q) \in Nat \ {0} /\ 1 \in DOMAIN q
      /\ Head(q) = q[1]
      /\ \A i \in DOMAIN t : i + 1 \in DOMAIN q /\ t[i] = q[i + 1]
  BY TailIs DEF Queues
<1>. HIDE DEF t
<1>2. HasOpening(t, n) => HasOpening(q, n)
  BY <1>1 DEF HasOpening
<1>3. ASSUME Once(q, n), NEW i \in DOMAIN t, NEW j \in DOMAIN t, Opens(t[i], n), Opens(t[j], n) PROVE i = j
  <2>1. i + 1 \in DOMAIN q /\ j + 1 \in DOMAIN q /\ t[i] = q[i + 1] /\ t[j] = q[j + 1] /\ i \in Nat /\ j \in Nat
    BY <1>1
  <2>2. i + 1 = j + 1
    BY <1>3, <2>1 DEF Once
  <2>. QED BY <2>1, <2>2
<1>4. ASSUME Once(q, n), Opens(Head(q), n), NEW i \in DOMAIN t, Opens(t[i], n) PROVE FALSE
  <2>1. i + 1 \in DOMAIN q /\ t[i] = q[i + 1] /\ i \in Nat \ {0}
    BY <1>1
  <2>2. i + 1 = 1
    BY <1>1, <1>4, <2>1 DEF Once
  <2>. QED BY <2>1, <2>2
<1>. QED BY <1>2, <1>3, <1>4 DEF t, Once, HasOpening

\* A queue is the same as itself, and no more than itself.
LEMMA SameThins ==
  ASSUME NEW q, NEW q2, NEW n
  PROVE  Same(q, q, n) /\ (Same(q, q2, n) => Thins(q, q2, n))
  BY DEF Thins, Same, Upto

\* A queue whose first message is heard.
LEMMA TailThins ==
  ASSUME WireAssumption, NEW q \in Queues, q # <<>>, NEW n
  PROVE  Thins(q, Tail(q), n) /\ (~Carries(Head(q), n) => Same(q, Tail(q), n))
<1>1. ASSUME NEW a \in Upto, NEW b \in Upto, Stream(q, n, a, b)
      PROVE  /\ \E a2 \in Upto : a <= a2 /\ Stream(Tail(q), n, a2, b)
             /\ ~Carries(Head(q), n) => Stream(Tail(q), n, a, b)
  <2>1. a <= a /\ a <= a + 1
    BY DEF Upto
  <2>. QED BY <1>1, <2>1, TailStream
<1>. QED BY <1>1, TailOpens DEF Thins, Same

\* A queue that more was posted to, of which nothing is on the call.
LEMMA SilentMore ==
  ASSUME NEW q \in Queues, NEW ext \in Queues, NEW n, Silent(ext, n)
  PROVE  /\ HasOpening(q \o ext, n) => HasOpening(q, n)
         /\ Once(q, n) => Once(q \o ext, n)
         /\ \A a, b : Stream(q, n, a, b) => Stream(q \o ext, n, a, b)
<1>. DEFINE t == q \o ext
<1>1. /\ \A i \in DOMAIN q : i \in DOMAIN t /\ t[i] = q[i]
      /\ \A i \in DOMAIN t : i \in DOMAIN q \/ (~Opens(t[i], n) /\ ~Carries(t[i], n))
  BY ConcatIs DEF Silent, Queues
<1>. HIDE DEF t
<1>2. HasOpening(t, n) => HasOpening(q, n)
  BY <1>1 DEF HasOpening
<1>3. Once(q, n) => Once(t, n)
  BY <1>1 DEF Once
<1>4. ASSUME NEW a, NEW b, Stream(q, n, a, b) PROVE Stream(t, n, a, b)
  <2>1. \A i \in DOMAIN t : Carries(t[i], n) => t[i].value \in a + 1 .. b
    BY <1>1, <1>4 DEF Stream
  <2>2. \A v \in a + 1 .. b : \E i \in DOMAIN t : Carries(t[i], n) /\ t[i].value = v
    BY <1>1, <1>4 DEF Stream
  <2>3. \A i, j \in DOMAIN t : i < j /\ Carries(t[i], n) /\ Carries(t[j], n) => t[i].value < t[j].value
    BY <1>1, <1>4 DEF Stream
  <2>. QED BY <1>4, <2>1, <2>2, <2>3 DEF Stream
<1>. QED BY <1>2, <1>3, <1>4 DEF t

\* The same, for what was left of a queue.
LEMMA ThinsMore ==
  ASSUME NEW q, NEW q2 \in Queues, NEW n, NEW ext \in Queues, Silent(ext, n)
  PROVE  /\ Thins(q, q2, n) => Thins(q, q2 \o ext, n)
         /\ Same(q, q2, n) => Same(q, q2 \o ext, n)
  BY SilentMore DEF Thins, Same

\* One value more, the next one.
LEMMA NextValue ==
  ASSUME NEW q \in Queues, NEW n \in Calls, NEW a \in Nat, NEW b \in Nat, Stream(q, n, a, b),
         NEW m \in Message, Carries(m, n), m.value = b + 1
  PROVE  /\ Stream(q \o <<m>>, n, a, b + 1)
         /\ HasOpening(q \o <<m>>, n) => HasOpening(q, n)
         /\ Once(q, n) => Once(q \o <<m>>, n)
<1>. DEFINE t == q \o <<m>>
<1>1. /\ DOMAIN q = 1 .. Len(q) /\ Len(q) \in Nat /\ DOMAIN t = 1 .. Len(q) + 1
      /\ \A i \in DOMAIN q : i \in DOMAIN t /\ t[i] = q[i]
      /\ t[Len(q) + 1] = m /\ Len(q) + 1 \in DOMAIN t
      /\ \A i \in DOMAIN t : i \in DOMAIN q \/ i = Len(q) + 1
  BY DEF Queues
<1>. HIDE DEF t
<1>2. ~Opens(m, n)
  BY DEF Carries, Opens
<1>3. HasOpening(t, n) => HasOpening(q, n)
  BY <1>1, <1>2 DEF HasOpening
<1>4. Once(q, n) => Once(t, n)
  BY <1>1, <1>2 DEF Once
<1>5. a <= b + 1 /\ b + 1 \in a + 1 .. b + 1 /\ a + 1 .. b \subseteq a + 1 .. b + 1
      /\ \A v \in a + 1 .. b + 1 : v \in a + 1 .. b \/ v = b + 1
  BY DEF Stream
<1>6. \A i \in DOMAIN t : Carries(t[i], n) => t[i].value \in a + 1 .. b + 1
  BY <1>1, <1>5 DEF Stream
<1>7. \A v \in a + 1 .. b + 1 : \E i \in DOMAIN t : Carries(t[i], n) /\ t[i].value = v
  <2>1. ASSUME NEW v \in a + 1 .. b + 1 PROVE \E i \in DOMAIN t : Carries(t[i], n) /\ t[i].value = v
    <3>1. CASE v \in a + 1 .. b
      BY <1>1, <3>1 DEF Stream
    <3>2. CASE v = b + 1
      BY <1>1, <3>2
    <3>. QED BY <1>5, <3>1, <3>2
  <2>. QED BY <2>1
<1>8. \A i, j \in DOMAIN t : i < j /\ Carries(t[i], n) /\ Carries(t[j], n) => t[i].value < t[j].value
  <2>1. ASSUME NEW i \in DOMAIN t, NEW j \in DOMAIN t, i < j, Carries(t[i], n), Carries(t[j], n)
        PROVE  t[i].value < t[j].value
    <3>1. i \in DOMAIN q
      BY <1>1, <2>1
    <3>2. q[i].value \in a + 1 .. b /\ t[i] = q[i]
      BY <1>1, <2>1, <3>1 DEF Stream
    <3>3. CASE j \in DOMAIN q
      BY <1>1, <2>1, <3>1, <3>3 DEF Stream
    <3>4. CASE j = Len(q) + 1
      BY <1>1, <3>2, <3>4
    <3>. QED BY <1>1, <3>3, <3>4
  <2>. QED BY <2>1
<1>9. Stream(t, n, a, b + 1)
  BY <1>5, <1>6, <1>7, <1>8 DEF Stream
<1>. QED BY <1>3, <1>4, <1>9 DEF t

\* One opening more.
LEMMA OneOpening ==
  ASSUME NEW q \in Queues, NEW n \in Calls, NEW m \in Message, Opens(m, n)
  PROVE  /\ HasOpening(q \o <<m>>, n)
         /\ ~HasOpening(q, n) => Once(q \o <<m>>, n)
         /\ \A a, b : Stream(q, n, a, b) => Stream(q \o <<m>>, n, a, b)
<1>. DEFINE t == q \o <<m>>
<1>1. /\ DOMAIN q = 1 .. Len(q) /\ Len(q) \in Nat /\ DOMAIN t = 1 .. Len(q) + 1
      /\ \A i \in DOMAIN q : i \in DOMAIN t /\ t[i] = q[i]
      /\ t[Len(q) + 1] = m /\ Len(q) + 1 \in DOMAIN t
      /\ \A i \in DOMAIN t : i \in DOMAIN q \/ i = Len(q) + 1
  BY DEF Queues
<1>. HIDE DEF t
<1>2. ~Carries(m, n)
  BY DEF Carries, Opens
<1>3. HasOpening(t, n)
  BY <1>1 DEF HasOpening
<1>4. ~HasOpening(q, n) => Once(t, n)
  BY <1>1 DEF Once, HasOpening
<1>5. ASSUME NEW a, NEW b, Stream(q, n, a, b) PROVE Stream(t, n, a, b)
  <2>1. \A i \in DOMAIN t : Carries(t[i], n) => i \in DOMAIN q /\ t[i] = q[i]
    BY <1>1, <1>2
  <2>2. \A i \in DOMAIN t : Carries(t[i], n) => t[i].value \in a + 1 .. b
    BY <1>5, <2>1 DEF Stream
  <2>3. \A v \in a + 1 .. b : \E i \in DOMAIN t : Carries(t[i], n) /\ t[i].value = v
    BY <1>1, <1>5 DEF Stream
  <2>4. \A i, j \in DOMAIN t : i < j /\ Carries(t[i], n) /\ Carries(t[j], n) => t[i].value < t[j].value
    BY <1>5, <2>1 DEF Stream
  <2>. QED BY <1>5, <2>2, <2>3, <2>4 DEF Stream
<1>. QED BY <1>3, <1>4, <1>5 DEF t

----------------------------------------------------------------------------
(* The wires. *)

\* Who is at the other end of each link.
LEMMA Peers ==
  /\ Peer("page") = "front" /\ Peer("front") = "page" /\ Peer("back") = "worker" /\ Peer("worker") = "back"
  /\ \A e \in Ends : Peer(e) \in Ends /\ Peer(e) # e
  BY DEF Peer, Ends

\* What an end posts is messages, all of them or none.
LEMMA PostsIs ==
  ASSUME NEW e \in Ends, NEW msgs \in Queues
  PROVE  /\ Posts(e, msgs) \in Queues /\ (phase[e] # "closed" /\ e # "page" => Posts(e, msgs) = msgs)
         /\ \A n : Silent(msgs, n) => Silent(Posts(e, msgs), n)
  BY DEF Posts, Queues, Silent

\* Nothing at all, and one message that is nothing to the call.
LEMMA SilentIs ==
  ASSUME NEW n
  PROVE  /\ <<>> \in Queues /\ Silent(<<>>, n)
         /\ \A m \in Message : <<m>> \in Queues
              /\ (~Opens(m, n) /\ ~Carries(m, n) => Silent(<<m>>, n))
  BY DEF Queues, Silent

\* What a post leaves of the wires.
LEMMA WiresPosted ==
  ASSUME NEW t, NEW e \in Ends, NEW msgs \in Queues, toward \in [Ends -> Queues], t = Posted(e, msgs)
  PROVE  /\ t \in [Ends -> Queues]
         /\ \A n : Silent(msgs, n) => \A x \in Ends : Same(toward[x], t[x], n)
<1>1. /\ t[Peer(e)] = toward[Peer(e)] \o Posts(e, msgs) /\ Peer(e) \in Ends
      /\ \A x \in Ends \ {Peer(e)} : t[x] = toward[x]
  BY Peers DEF Posted
<1>2. toward[Peer(e)] \o Posts(e, msgs) \in Queues
  BY <1>1, PostsIs, ConcatIs DEF Queues
<1>3. t \in [Ends -> Queues]
  BY <1>1, <1>2 DEF Posted
<1>4. ASSUME NEW n, Silent(msgs, n), NEW x \in Ends PROVE Same(toward[x], t[x], n)
  <2>1. CASE x = Peer(e)
    <3>1. Same(toward[x], toward[x] \o Posts(e, msgs), n)
      BY <1>4, PostsIs, SameThins, ThinsMore
    <3>. QED BY <1>1, <2>1, <3>1
  <2>2. CASE x # Peer(e)
    BY <1>1, <2>2, SameThins
  <2>. QED BY <2>1, <2>2
<1>. QED BY <1>3, <1>4

\* What a message heard leaves of them.
LEMMA WiresConsumed ==
  ASSUME WireAssumption, NEW t, NEW e \in Ends, toward \in [Ends -> Queues], toward[e] # <<>>, t = Consumed(e)
  PROVE  /\ t \in [Ends -> Queues] /\ t[e] = Tail(toward[e])
         /\ \A n : /\ \A x \in Ends \ {e} : Same(toward[x], t[x], n)
                   /\ Thins(toward[e], t[e], n)
                   /\ ~Carries(Head(toward[e]), n) => Same(toward[e], t[e], n)
<1>1. Tail(toward[e]) \in Queues
  BY TailIs DEF Queues
<1>2. t \in [Ends -> Queues] /\ t[e] = Tail(toward[e]) /\ \A x \in Ends \ {e} : t[x] = toward[x]
  BY <1>1 DEF Consumed
<1>. QED BY <1>2, TailThins, SameThins

\* What a message that is answered leaves of them.
LEMMA WiresHeard ==
  ASSUME WireAssumption, NEW t, NEW e \in Ends, NEW by \in Ends, Peer(by) # e, NEW msgs \in Queues,
         toward \in [Ends -> Queues], toward[e] # <<>>, t = HeardAndPosted(e, by, msgs)
  PROVE  /\ t \in [Ends -> Queues] /\ t[e] = Tail(toward[e])
         /\ t[Peer(by)] = toward[Peer(by)] \o Posts(by, msgs)
         /\ \A x \in Ends \ {e, Peer(by)} : t[x] = toward[x]
         /\ \A n : /\ Silent(msgs, n) => \A x \in Ends \ {e} : Same(toward[x], t[x], n)
                   /\ Thins(toward[e], t[e], n)
                   /\ ~Carries(Head(toward[e]), n) => Same(toward[e], t[e], n)
<1>1. Tail(toward[e]) \in Queues
  BY TailIs DEF Queues
<1>2. toward[Peer(by)] \o Posts(by, msgs) \in Queues /\ Peer(by) \in Ends
  BY Peers, PostsIs, ConcatIs DEF Queues
<1>3. /\ t \in [Ends -> Queues] /\ t[e] = Tail(toward[e])
      /\ t[Peer(by)] = toward[Peer(by)] \o Posts(by, msgs)
      /\ \A x \in Ends \ {e, Peer(by)} : t[x] = toward[x]
  BY <1>1, <1>2 DEF HeardAndPosted
<1>4. ASSUME NEW n, Silent(msgs, n), NEW x \in Ends \ {e} PROVE Same(toward[x], t[x], n)
  <2>1. CASE x = Peer(by)
    <3>1. Same(toward[x], toward[x] \o Posts(by, msgs), n)
      BY <1>4, PostsIs, SameThins, ThinsMore
    <3>. QED BY <1>3, <2>1, <3>1
  <2>2. CASE x # Peer(by)
    BY <1>3, <1>4, <2>2, SameThins
  <2>. QED BY <2>1, <2>2
<1>5. ASSUME NEW n
      PROVE  Thins(toward[e], t[e], n) /\ (~Carries(Head(toward[e]), n) => Same(toward[e], t[e], n))
  BY <1>3, TailThins
<1>. QED BY <1>3, <1>4, <1>5

----------------------------------------------------------------------------
(* A step that opens nothing and delivers no value. *)

\* Where the call is among those placed, once the first has left.
LEMMA PlacesTail ==
  ASSUME NEW q \in Seq(Calls), q # <<>>, NEW n
  PROVE  /\ Places(Tail(q), n) # {} => Places(q, n) # {}
         /\ (\A i, j \in Places(q, n) : i = j) =>
              /\ \A i, j \in Places(Tail(q), n) : i = j
              /\ Head(q) = n => Places(Tail(q), n) = {}
<1>1. /\ DOMAIN Tail(q) = 1 .. Len(q) - 1 /\ DOMAIN q = 1 .. Len(q) /\ Len(q) \in Nat \ {0} /\ 1 \in DOMAIN q
      /\ Head(q) = q[1] /\ \A i \in DOMAIN Tail(q) : i + 1 \in DOMAIN q /\ Tail(q)[i] = q[i + 1]
  BY TailIs
<1>2. \A i \in Places(Tail(q), n) : i + 1 \in Places(q, n) /\ i \in Nat \ {0}
  BY <1>1 DEF Places
<1>3. Head(q) = n => 1 \in Places(q, n)
  BY <1>1 DEF Places
<1>4. ASSUME \A i, j \in Places(q, n) : i = j, NEW i \in Places(Tail(q), n), NEW j \in Places(Tail(q), n) PROVE i = j
  <2>1. i + 1 = j + 1
    BY <1>2, <1>4
  <2>. QED BY <1>2, <2>1
<1>5. ASSUME \A i, j \in Places(q, n) : i = j, Head(q) = n, NEW i \in Places(Tail(q), n) PROVE FALSE
  <2>1. i + 1 = 1
    BY <1>2, <1>3, <1>5
  <2>. QED BY <1>2, <2>1
<1>. QED BY <1>2, <1>4, <1>5

\* What such a step may do to call n.
QuietCall(n) ==
  /\ Thins(toward["front"], toward'["front"], n) /\ Thins(toward["worker"], toward'["worker"], n)
  /\ Thins(toward["page"], toward'["page"], n) /\ Thins(toward["back"], toward'["back"], n)
  /\ calls'[n] # "ended" => Same(toward["page"], toward'["page"], n)
  /\ back'[n] # "ended" => Same(toward["back"], toward'["back"], n)
  /\ sent'[n] = sent[n] /\ heard'[n] = heard[n]
  /\ calls'[n] \in {calls[n], "ended"}
  /\ \/ ends'[n] = ends[n]
     \/ calls[n] # "ended" /\ calls'[n] = "ended" /\ \E o \in Outcomes : ends'[n] = Append(ends[n], o)
  /\ \/ front'[n] = front[n] /\ back'[n] = back[n]
     \/ back[n] \in {"queued", "open"} /\ front'[n] = "over" /\ back'[n] = "ended"
  /\ served'[n] = served[n] \/ (served'[n] # "none" /\ back[n] \notin {"idle", "queued"})

\* The places of call n among those the page holds are no more than before.
Keeps(n) ==
  /\ Places(placed'["page"], n) # {} => Places(placed["page"], n) # {}
  /\ (\A i, j \in Places(placed["page"], n) : i = j) => \A i, j \in Places(placed'["page"], n) : i = j

\* A call that ended stays as it is, and the opening of a call that ended is not sent.
Settled(n) ==
  /\ calls[n] = "ended" => calls'[n] = "ended" /\ heard'[n] = heard[n] /\ ends'[n] = ends[n]
  /\ calls[n] = "ended" /\ HasOpening(toward'["front"], n) => HasOpening(toward["front"], n)
  /\ front[n] = "over" /\ HasOpening(toward'["worker"], n) => HasOpening(toward["worker"], n)

Kept == IInv' /\ \A n \in Calls : Settled(n)

\* Such a step leaves what the invariant says of the call.
LEMMA QuietCallKeeps ==
  ASSUME WireAssumption, IInv, Books', NEW n \in Calls, Keeps(n), QuietCall(n)
  PROVE  Sound(n)' /\ Settled(n)
<1>1. OpensOnce(n)'
  <2>1. /\ HasOpening(toward'["front"], n) => HasOpening(toward["front"], n)
        /\ HasOpening(toward'["worker"], n) => HasOpening(toward["worker"], n)
        /\ Once(toward["front"], n) => Once(toward'["front"], n)
    BY DEF QuietCall, Thins
  <2>2. front'[n] # front[n] => front[n] # "none"
    BY DEF QuietCall, IInv, Books, Forwarded
  <2>3. /\ calls'[n] \in {calls[n], "ended"} /\ sent'[n] = sent[n]
        /\ served'[n] = served[n] \/ (served'[n] # "none" /\ back[n] \notin {"idle", "queued"})
        /\ back'[n] = back[n] \/ back'[n] = "ended"
    BY DEF QuietCall
  <2>4. OpensOnce(n)
    BY DEF IInv, Sound
  <2>. QED BY <2>1, <2>2, <2>3, <2>4 DEF OpensOnce, Keeps
<1>2. Streams(n)'
  <2>1. PICK a \in Upto, b \in Upto, c \in Upto :
          /\ b <= c /\ Stream(toward["page"], n, a, b) /\ Stream(toward["back"], n, c, sent[n])
          /\ calls[n] # "ended" => a = Len(heard[n])
          /\ back[n] # "ended" => b = c
    BY DEF IInv, Sound, Streams
  <2>2. sent[n] \in Upto
    BY DEF IInv, Books, TypeOK, Upto
  <2>3. PICK a2 \in Upto : Stream(toward'["page"], n, a2, b) /\ (calls'[n] # "ended" => a2 = a)
    <3>1. CASE calls'[n] # "ended"
      BY <2>1, <3>1 DEF QuietCall, Same
    <3>2. CASE calls'[n] = "ended"
      BY <2>1, <3>2 DEF QuietCall, Thins
    <3>. QED BY <3>1, <3>2
  <2>4. PICK c2 \in Upto : Stream(toward'["back"], n, c2, sent[n]) /\ c <= c2 /\ (back'[n] # "ended" => c2 = c)
    <3>1. CASE back'[n] # "ended"
      <4>1. Stream(toward'["back"], n, c, sent[n]) /\ c <= c
        BY <2>1, <2>2, <3>1 DEF QuietCall, Same, Upto
      <4>. QED BY <3>1, <4>1
    <3>2. CASE back'[n] = "ended"
      <4>1. \E c2 \in Upto : c <= c2 /\ Stream(toward'["back"], n, c2, sent[n])
        BY <2>1, <2>2 DEF QuietCall, Thins
      <4>. QED BY <3>2, <4>1
    <3>. QED BY <3>1, <3>2
  <2>5. b <= c2
    BY <2>1, <2>4, WireAssumption DEF Upto
  <2>6. /\ calls'[n] # "ended" => a2 = Len(heard'[n])
        /\ back'[n] # "ended" => b = c2
    BY <2>1, <2>3, <2>4 DEF QuietCall
  <2>7. sent'[n] = sent[n]
    BY DEF QuietCall
  <2>. QED BY <2>3, <2>4, <2>5, <2>6, <2>7 DEF Streams
<1>3. Hearing(n)'
  BY DEF QuietCall, IInv, Sound, Hearing, Books, TypeOK
<1>4. Settled(n)
  BY DEF QuietCall, Settled, Thins
<1>. QED BY <1>1, <1>2, <1>3, <1>4 DEF Sound

\* The calls the page holds, of which the first may have left.
LEMMA KeptPlaces ==
  ASSUME IInv, placed'["page"] = placed["page"] \/ (placed["page"] # <<>> /\ placed'["page"] = Tail(placed["page"])),
         NEW n \in Calls
  PROVE  Keeps(n)
<1>1. placed["page"] \in Seq(Calls)
  BY DEF IInv, Books, Shapes, Openers
<1>. QED BY <1>1, PlacesTail DEF Keeps

\* Such a step leaves the invariant, if it is nothing more to any call.
LEMMA QuietKeeps ==
  ASSUME WireAssumption, IInv, Books',
         placed'["page"] = placed["page"] \/ (placed["page"] # <<>> /\ placed'["page"] = Tail(placed["page"])),
         \A n \in Calls : QuietCall(n)
  PROVE  Kept
<1>1. ASSUME NEW n \in Calls PROVE Sound(n)' /\ Settled(n)
  BY KeptPlaces, QuietCallKeeps
<1>. QED BY <1>1 DEF IInv, Kept

----------------------------------------------------------------------------
(* The handshake. *)

\* What the invariant says of each variable.
LEMMA Known ==
  ASSUME IInv
  PROVE  /\ toward \in [Ends -> Queues] /\ placed \in [Openers -> Seq(Calls)] /\ offers \in [Openers -> Nat]
         /\ phase \in [Ends -> {"connecting", "connected", "closed"}]
         /\ calls \in [Calls -> {"idle", "queued", "open", "ended"}] /\ lately \subseteq Calls
         /\ back \in [Calls -> {"idle", "queued", "open", "ended"}]
         /\ front \in [Calls -> {"none", "open", "over"}] /\ served \in [Calls -> {"none", "open", "over"}]
         /\ sent \in [Calls -> 0 .. MaxValues] /\ stops \in [Calls -> Nat]
         /\ heard \in [Calls -> Seq(1 .. MaxValues)] /\ ends \in [Calls -> Seq(Outcomes)]
         /\ TypeOK /\ Serving /\ Forwarded /\ Books /\ \A n \in Calls : OpensOnce(n) /\ Streams(n) /\ Hearing(n)
  BY DEF IInv, Books, TypeOK, Shapes, Sound

\* What an end hears.
LEMMA HeadIs ==
  ASSUME IInv, NEW e \in Ends, NEW legs, Hears(e, legs)
  PROVE  toward[e] # <<>> /\ Head(toward[e]) \in Message /\ Head(toward[e]).leg \in legs
<1>1. toward[e] \in Seq(Message) /\ toward[e] # <<>> /\ Head(toward[e]).leg \in legs
  BY Known DEF Hears, Queues
<1>. QED BY <1>1, TailIs

\* A message that is neither an opening nor a value, or is not on call n, is nothing to it.
LEMMA SilentMsg ==
  ASSUME NEW leg, NEW c, Msg(leg, c) \in Message, NEW n, leg \notin {"request", "start", "value"} \/ c # n
  PROVE  <<Msg(leg, c)>> \in Queues /\ Silent(<<Msg(leg, c)>>, n)
<1>1. Msg(leg, c).leg = leg /\ Msg(leg, c).call = c
  BY MsgIs
<1>. QED BY <1>1, SilentIs DEF Opens, Carries

\* A call nothing happens to but on the wires.
LEMMA WiresOnly ==
  ASSUME NEW n \in Calls,
         Same(toward["front"], toward'["front"], n), Same(toward["worker"], toward'["worker"], n),
         Same(toward["page"], toward'["page"], n), Same(toward["back"], toward'["back"], n),
         sent'[n] = sent[n], heard'[n] = heard[n], calls'[n] = calls[n], ends'[n] = ends[n],
         front'[n] = front[n], back'[n] = back[n], served'[n] = served[n]
  PROVE  QuietCall(n)
  BY SameThins DEF QuietCall

\* The frame loads.
LEMMA LoadKeeps ==
  ASSUME WireAssumption, IInv, Load
  PROVE  Kept
<1>1. UNCHANGED <<phase, toward, agree, offers, placed, calls, lately, heard, ends, front, back, served, sent, stops,
                  refused>> /\ loaded' = TRUE
  BY DEF Load, pageVars, frameVars, workerVars
<1>2. Books'
  BY <1>1, Known DEF Books, TypeOK, Shapes, Serving, Forwarded
<1>3. ASSUME NEW n \in Calls PROVE QuietCall(n)
  BY <1>1, SameThins, WiresOnly
<1>. QED BY <1>1, <1>2, <1>3, QuietKeeps

\* An opener offers.
LEMMA OfferKeeps ==
  ASSUME WireAssumption, IInv, NEW o \in Openers, Offer(o)
  PROVE  Kept
<1>. USE Known
<1>1. UNCHANGED <<phase, loaded, agree, placed, calls, lately, heard, ends, front, back, served, sent, stops,
                  refused>> /\ offers' = [offers EXCEPT ![o] = @ + 1] /\ offers[o] < MaxOffers[o]
  BY DEF Offer, pageVars, frameVars, workerVars
<1>2. Msg("offer", o) \in Message /\ <<Msg("offer", o)>> \in Queues /\ o \in Ends
  BY MsgIs, SilentIs DEF Openers, Ends
<1>3. toward' = Posted(o, <<Msg("offer", o)>>)
  BY DEF Offer
<1>4. toward' \in [Ends -> Queues]
      /\ \A n : Silent(<<Msg("offer", o)>>, n) => \A x \in Ends : Same(toward[x], toward'[x], n)
  BY <1>2, <1>3, WiresPosted
<1>5. Books'
  <2>1. \A p \in Openers : offers'[p] \in 0 .. MaxOffers[p] /\ offers' \in [Openers -> Nat]
    BY <1>1 DEF WireAssumption, TypeOK
  <2>. QED BY <1>1, <1>4, <2>1 DEF Books, TypeOK, Shapes, Serving, Forwarded
<1>6. ASSUME NEW n \in Calls PROVE QuietCall(n)
  <2>1. \A x \in Ends : Same(toward[x], toward'[x], n)
    BY <1>2, <1>4, SilentMsg
  <2>. QED BY <1>1, <2>1, WiresOnly DEF Ends
<1>. QED BY <1>1, <1>5, <1>6, QuietKeeps

\* An accepter answers an offer.
LEMMA HearOfferKeeps ==
  ASSUME WireAssumption, IInv, NEW a \in {"front", "worker"}, HearOffer(a)
  PROVE  Kept
<1>. USE Known
<1>1. UNCHANGED <<loaded, agree, offers, placed, calls, lately, heard, ends, front, back, served, sent, stops,
                  refused>>
  BY DEF HearOffer, pageVars, frameVars, workerVars
<1>2. phase' = [phase EXCEPT ![a] = IF @ # "connecting" THEN @
                                    ELSE IF agree[Peer(a)] THEN "connected" ELSE "closed"]
  BY DEF HearOffer
<1>3. a \in Ends /\ Peer(a) \in Openers /\ Peer(a) # a
  BY Peers DEF Ends, Openers
<1>4. PICK leg \in {"welcome", "mismatch"} : toward' = HeardAndPosted(a, a, <<Msg(leg, Peer(a))>>)
  BY DEF HearOffer
<1>5. Msg(leg, Peer(a)) \in Message /\ <<Msg(leg, Peer(a))>> \in Queues
  BY <1>3, MsgIs, SilentIs
<1>6. toward[a] # <<>> /\ Head(toward[a]) \in Message /\ Head(toward[a]).leg = "offer"
  BY <1>3, HeadIs DEF HearOffer
<1>7. /\ toward' \in [Ends -> Queues]
      /\ \A n : /\ Silent(<<Msg(leg, Peer(a))>>, n) => \A x \in Ends \ {a} : Same(toward[x], toward'[x], n)
                /\ ~Carries(Head(toward[a]), n) => Same(toward[a], toward'[a], n)
  BY <1>3, <1>4, <1>5, <1>6, WiresHeard
<1>8. /\ phase' \in [Ends -> {"connecting", "connected", "closed"}]
      /\ \A e \in Ends : phase[e] # "connecting" => phase'[e] = phase[e]
  BY <1>2, <1>3
<1>9. Books'
  <2>1. TypeOK' /\ Shapes'
    BY <1>1, <1>7, <1>8 DEF TypeOK, Shapes
  <2>2. Serving'
    BY <1>1, <1>8 DEF Serving, Ends
  <2>3. Forwarded'
    BY <1>1 DEF Forwarded
  <2>. QED BY <2>1, <2>2, <2>3 DEF Books
<1>10. ASSUME NEW n \in Calls PROVE QuietCall(n)
  <2>1. Silent(<<Msg(leg, Peer(a))>>, n)
    BY <1>5, SilentMsg
  <2>2. \A x \in Ends : Same(toward[x], toward'[x], n)
    BY <1>6, <1>7, <2>1 DEF Carries
  <2>. QED BY <1>1, <2>2, WiresOnly DEF Ends
<1>. QED BY <1>1, <1>9, <1>10, QuietKeeps

\* An opener hears the answer.
LEMMA HearAnswerKeeps ==
  ASSUME WireAssumption, IInv, NEW o \in Openers, HearAnswer(o)
  PROVE  Kept
<1>. USE Known
<1>1. UNCHANGED <<loaded, agree, offers, placed, calls, lately, heard, ends, front, back, served, sent, stops,
                  refused>>
  BY DEF HearAnswer, pageVars, frameVars, workerVars
<1>2. o \in Ends /\ toward' = Consumed(o) /\ \A e \in Ends : e # o => phase'[e] = phase[e]
  BY DEF HearAnswer, Ends, Openers
<1>3. toward[o] # <<>> /\ Head(toward[o]) \in Message /\ Head(toward[o]).leg \in {"welcome", "mismatch"}
  BY <1>2, HeadIs DEF HearAnswer
<1>4. /\ toward' \in [Ends -> Queues]
      /\ \A n : /\ \A x \in Ends \ {o} : Same(toward[x], toward'[x], n)
                /\ ~Carries(Head(toward[o]), n) => Same(toward[o], toward'[o], n)
  BY <1>2, <1>3, WiresConsumed
<1>5. phase' \in [Ends -> {"connecting", "connected", "closed"}]
  BY <1>2 DEF HearAnswer
<1>6. Books'
  <2>1. TypeOK' /\ Shapes'
    BY <1>1, <1>4, <1>5 DEF TypeOK, Shapes
  <2>2. Serving'
    BY <1>1, <1>2 DEF Serving, Ends, Openers
  <2>3. Forwarded'
    BY <1>1 DEF Forwarded
  <2>. QED BY <2>1, <2>2, <2>3 DEF Books
<1>7. ASSUME NEW n \in Calls PROVE QuietCall(n)
  <2>1. \A x \in Ends : Same(toward[x], toward'[x], n)
    BY <1>3, <1>4 DEF Carries
  <2>. QED BY <1>1, <2>1, WiresOnly DEF Ends
<1>. QED BY <1>1, <1>6, <1>7, QuietKeeps

----------------------------------------------------------------------------
(* The page's calls. *)

\* Where the call is among those placed, once one more is.
LEMMA PlacesMore ==
  ASSUME NEW q \in Seq(Calls), NEW n \in Calls, NEW k \in Calls
  PROVE  /\ Append(q, n) \in Seq(Calls)
         /\ k # n => Places(Append(q, n), k) = Places(q, k)
         /\ Places(q, n) = {} => \A i, j \in Places(Append(q, n), n) : i = j
<1>1. /\ Append(q, n) \in Seq(Calls) /\ DOMAIN q = 1 .. Len(q) /\ Len(q) \in Nat
      /\ DOMAIN Append(q, n) = 1 .. Len(q) + 1 /\ Append(q, n)[Len(q) + 1] = n
      /\ \A i \in 1 .. Len(q) : Append(q, n)[i] = q[i]
  OBVIOUS
<1>2. ASSUME k # n PROVE Places(Append(q, n), k) = Places(q, k)
  <2>1. ASSUME NEW i PROVE i \in Places(Append(q, n), k) <=> i \in Places(q, k)
    BY <1>1, <1>2 DEF Places
  <2>. QED BY <2>1
<1>3. ASSUME Places(q, n) = {}, NEW i \in Places(Append(q, n), n) PROVE i = Len(q) + 1
  BY <1>1, <1>3 DEF Places
<1>. QED BY <1>1, <1>2, <1>3

\* The page makes a call, which is in one place now.
LEMMA CallKeeps ==
  ASSUME WireAssumption, IInv, NEW n \in Calls, Call(n)
  PROVE  Kept
<1>. USE Known
<1>1. UNCHANGED <<phase, loaded, agree, offers, toward, lately, heard, front, back, served, sent, stops, refused>>
      /\ calls[n] = "idle"
  BY DEF Call, wireVars, frameVars, workerVars
<1>2. CASE phase["page"] = "closed" /\ n \in Requests
  <2>1. /\ calls' = [calls EXCEPT ![n] = "ended"] /\ ends' = [ends EXCEPT ![n] = Append(@, "closed")]
        /\ placed' = placed
    BY <1>2 DEF Call
  <2>2. ends[n] \in Seq(Outcomes) /\ "closed" \in Outcomes
    BY DEF Outcomes
  <2>3. ends' \in [Calls -> Seq(Outcomes)]
    BY <2>1, <2>2
  <2>4. Books'
    BY <1>1, <2>1, <2>3 DEF Books, TypeOK, Shapes, Serving, Forwarded
  <2>5. ASSUME NEW k \in Calls PROVE QuietCall(k)
    <3>1. Same(toward["front"], toward'["front"], k) /\ Same(toward["worker"], toward'["worker"], k)
          /\ Same(toward["page"], toward'["page"], k) /\ Same(toward["back"], toward'["back"], k)
      BY <1>1, SameThins
    <3>. QED BY <1>1, <2>1, <2>2, <3>1, SameThins DEF QuietCall
  <2>. QED BY <2>1, <2>4, <2>5, QuietKeeps
<1>3. CASE ~(phase["page"] = "closed" /\ n \in Requests)
  <2>1. /\ calls' = [calls EXCEPT ![n] = "queued"] /\ placed' = [placed EXCEPT !["page"] = Append(@, n)]
        /\ ends' = ends
    BY <1>3 DEF Call
  <2>2. placed["page"] \in Seq(Calls) /\ placed'["page"] = Append(placed["page"], n) /\ "page" \in Openers
    BY <2>1 DEF Openers
  <2>3. placed' \in [Openers -> Seq(Calls)]
    BY <2>1, <2>2, PlacesMore
  <2>4. Books'
    BY <1>1, <2>1, <2>3 DEF Books, TypeOK, Shapes, Serving, Forwarded
  <2>5. ASSUME NEW k \in Calls, k # n PROVE Sound(k)' /\ Settled(k)
    <3>1. Keeps(k)
      BY <2>2, <2>5, PlacesMore DEF Keeps
    <3>2. QuietCall(k)
      BY <1>1, <2>1, <2>5, SameThins, WiresOnly
    <3>. QED BY <2>4, <3>1, <3>2, QuietCallKeeps
  <2>6. OpensOnce(n)'
    <3>1. OpensOnce(n) /\ calls'[n] = "queued"
      BY <2>1
    <3>2. \A i, j \in Places(placed'["page"], n) : i = j
      <4>1. Places(placed["page"], n) = {}
        BY <1>1, <3>1 DEF OpensOnce
      <4>2. \A i, j \in Places(Append(placed["page"], n), n) : i = j
        BY <2>2, <4>1, PlacesMore
      <4>. QED BY <2>2, <4>2
    <3>. QED BY <1>1, <2>1, <3>1, <3>2 DEF OpensOnce
  <2>7. Streams(n)' /\ Hearing(n)'
    <3>1. Streams(n) /\ Hearing(n) /\ calls'[n] = "queued"
      BY <2>1
    <3>. QED BY <1>1, <2>1, <3>1 DEF Streams, Hearing
  <2>8. Settled(n)
    BY <1>1, <2>1 DEF Settled
  <2>9. Sound(n)' /\ Settled(n)
    BY <2>6, <2>7, <2>8 DEF Sound
  <2>. QED BY <2>4, <2>5, <2>9 DEF IInv, Kept
<1>. QED BY <1>2, <1>3

\* What the opening of a call is.
LEMMA OpeningIs ==
  ASSUME NEW n \in Calls
  PROVE  /\ Msg(Opening(n), n) \in Message /\ Opens(Msg(Opening(n), n), n) /\ <<Msg(Opening(n), n)>> \in Queues
         /\ \A k \in Calls : k # n => Silent(<<Msg(Opening(n), n)>>, k)
<1>1. Opening(n) \in {"request", "start"}
  BY DEF Opening
<1>2. Msg(Opening(n), n) \in Message /\ Opens(Msg(Opening(n), n), n) /\ <<Msg(Opening(n), n)>> \in Queues
  BY <1>1, MsgIs, SilentIs DEF Opens
<1>3. ASSUME NEW k \in Calls, k # n PROVE Silent(<<Msg(Opening(n), n)>>, k)
  BY <1>2, <1>3, SilentMsg
<1>. QED BY <1>2, <1>3

\* An end that is to post an opening posts it, or nothing.
LEMMA OpeningPosted ==
  ASSUME NEW t, NEW e \in Ends, NEW n \in Calls, toward \in [Ends -> Queues],
         t = Posted(e, <<Msg(Opening(n), n)>>)
  PROVE  /\ t \in [Ends -> Queues]
         /\ \A x \in Ends : x # Peer(e) => t[x] = toward[x]
         /\ ~HasOpening(toward[Peer(e)], n) => Once(t[Peer(e)], n)
         /\ \A k \in Calls : k # n => \A x \in Ends : Same(toward[x], t[x], k)
         /\ \A a, b : Stream(toward[Peer(e)], n, a, b) => Stream(t[Peer(e)], n, a, b)
<1>1. Peer(e) \in Ends
  BY Peers
<1>2. /\ t[Peer(e)] = toward[Peer(e)] \o Posts(e, <<Msg(Opening(n), n)>>)
      /\ \A x \in Ends : x # Peer(e) => t[x] = toward[x]
  BY <1>1 DEF Posted
<1>3. /\ t \in [Ends -> Queues]
      /\ \A k \in Calls : k # n => \A x \in Ends : Same(toward[x], t[x], k)
  BY OpeningIs, WiresPosted
<1>4. toward[Peer(e)] \in Queues
  BY <1>1
<1>5. CASE Posts(e, <<Msg(Opening(n), n)>>) = <<Msg(Opening(n), n)>>
  <2>1. t[Peer(e)] = toward[Peer(e)] \o <<Msg(Opening(n), n)>>
    BY <1>2, <1>5
  <2>. QED BY <1>2, <1>3, <1>4, <2>1, OpeningIs, OneOpening
<1>6. CASE Posts(e, <<Msg(Opening(n), n)>>) = <<>>
  <2>1. t[Peer(e)] = toward[Peer(e)]
    <3>1. \A q \in Seq(Message) : q \o <<>> = q
      OBVIOUS
    <3>. QED BY <1>2, <1>4, <1>6, <3>1 DEF Queues
  <2>2. ~HasOpening(toward[Peer(e)], n) => Once(toward[Peer(e)], n)
    BY DEF HasOpening, Once
  <2>. QED BY <1>2, <1>3, <2>1, <2>2
<1>. QED BY <1>5, <1>6 DEF Posts

\* A call of the page's goes out: from among those placed to the way to the frame.
LEMMA FlushPageKeeps ==
  ASSUME WireAssumption, IInv, FlushPage
  PROVE  Kept
<1>. USE Known
<1>1. UNCHANGED <<phase, loaded, agree, offers, lately, heard, front, back, served, sent, stops, refused>>
  BY DEF FlushPage, wireVars, frameVars, workerVars
<1>2. placed["page"] \in Seq(Calls) /\ placed["page"] # <<>> /\ "page" \in Openers
      /\ placed' = [placed EXCEPT !["page"] = Tail(@)]
  BY DEF FlushPage, Flushing, Openers
<1>3. /\ Tail(placed["page"]) \in Seq(Calls) /\ placed'["page"] = Tail(placed["page"])
      /\ placed' \in [Openers -> Seq(Calls)]
  BY <1>2, TailIs
<1>4. PICK n \in Calls : n = Head(placed["page"])
  BY <1>2, TailIs
<1>5. n \in Places(placed["page"], n) \/ Places(placed["page"], n) # {}
  BY <1>2, <1>4, TailIs DEF Places
<1>6. CASE calls[n] # "queued"
  <2>1. UNCHANGED <<calls, ends, toward>>
    BY <1>4, <1>6 DEF FlushPage
  <2>2. Books'
    BY <1>1, <1>3, <2>1 DEF Books, TypeOK, Shapes, Serving, Forwarded
  <2>3. ASSUME NEW k \in Calls PROVE QuietCall(k)
    BY <1>1, <2>1, SameThins, WiresOnly
  <2>. QED BY <1>2, <1>3, <2>2, <2>3, QuietKeeps
<1>7. CASE calls[n] = "queued" /\ phase["page"] = "closed"
  <2>1. calls' = [calls EXCEPT ![n] = "ended"] /\ ends' = [ends EXCEPT ![n] = Append(@, "closed")] /\ toward' = toward
    BY <1>4, <1>7 DEF FlushPage
  <2>2. ends[n] \in Seq(Outcomes) /\ "closed" \in Outcomes
    BY DEF Outcomes
  <2>3. ends' \in [Calls -> Seq(Outcomes)]
    BY <2>1, <2>2
  <2>4. Books'
    BY <1>1, <1>3, <2>1, <2>3 DEF Books, TypeOK, Shapes, Serving, Forwarded
  <2>5. ASSUME NEW k \in Calls PROVE QuietCall(k)
    <3>1. Same(toward["front"], toward'["front"], k) /\ Same(toward["worker"], toward'["worker"], k)
          /\ Same(toward["page"], toward'["page"], k) /\ Same(toward["back"], toward'["back"], k)
      BY <2>1, SameThins
    <3>. QED BY <1>1, <1>7, <2>1, <2>2, <3>1, SameThins DEF QuietCall
  <2>. QED BY <1>2, <1>3, <2>4, <2>5, QuietKeeps
<1>8. CASE calls[n] = "queued" /\ phase["page"] # "closed"
  <2>1. /\ calls' = [calls EXCEPT ![n] = "open"] /\ ends' = ends
        /\ toward' = Posted("page", <<Msg(Opening(n), n)>>)
    BY <1>4, <1>8 DEF FlushPage
  <2>2. /\ toward' \in [Ends -> Queues]
        /\ \A x \in Ends : x # "front" => toward'[x] = toward[x]
        /\ ~HasOpening(toward["front"], n) => Once(toward'["front"], n)
        /\ \A k \in Calls : k # n => \A x \in Ends : Same(toward[x], toward'[x], k)
    BY <2>1, OpeningPosted, Peers DEF Ends
  <2>3. Books'
    BY <1>1, <1>3, <2>1, <2>2 DEF Books, TypeOK, Shapes, Serving, Forwarded
  <2>4. ASSUME NEW k \in Calls, k # n PROVE Sound(k)' /\ Settled(k)
    <3>1. QuietCall(k)
      BY <1>1, <2>1, <2>2, <2>4, WiresOnly DEF Ends
    <3>2. Keeps(k)
      BY <1>2, <1>3, KeptPlaces
    <3>. QED BY <2>3, <3>1, <3>2, QuietCallKeeps
  <2>5. OpensOnce(n)'
    <3>1. OpensOnce(n) /\ calls'[n] = "open"
      BY <2>1
    <3>2. Places(placed'["page"], n) = {}
      BY <1>2, <1>3, <1>4, <3>1, PlacesTail DEF OpensOnce
    <3>3. toward'["worker"] = toward["worker"]
      BY <2>2 DEF Ends
    <3>. QED BY <1>1, <1>8, <2>2, <3>1, <3>2, <3>3 DEF OpensOnce
  <2>6. Streams(n)' /\ Hearing(n)'
    <3>1. Streams(n) /\ Hearing(n) /\ calls'[n] = "open"
      BY <2>1
    <3>2. toward'["page"] = toward["page"] /\ toward'["back"] = toward["back"]
      BY <2>2 DEF Ends
    <3>. QED BY <1>1, <1>8, <2>1, <3>1, <3>2 DEF Streams, Hearing
  <2>7. Settled(n)
    BY <1>1, <1>8, <2>2 DEF Settled, Ends
  <2>8. Sound(n)' /\ Settled(n)
    BY <2>5, <2>6, <2>7 DEF Sound
  <2>. QED BY <2>3, <2>4, <2>8 DEF IInv, Kept
<1>. QED BY <1>6, <1>7, <1>8

\* What a message that ends or stops a call is.
LEMMA EndIs ==
  ASSUME NEW n \in Calls, NEW leg \in {"stop", "response", "interrupt", "failed"}
  PROVE  Msg(leg, n) \in Message /\ <<Msg(leg, n)>> \in Queues /\ \A k : Silent(<<Msg(leg, n)>>, k)
<1>1. Msg(leg, n) \in Message /\ leg \notin {"request", "start", "value"}
  BY MsgIs
<1>. QED BY <1>1, SilentMsg

\* The page gives up.
LEMMA LeaveKeeps ==
  ASSUME WireAssumption, IInv, NEW n \in Calls, NEW aborts \in BOOLEAN, Leave(n, aborts)
  PROVE  Kept
<1>. USE Known
<1>1. UNCHANGED <<phase, loaded, agree, offers, placed, heard, front, back, served, sent, stops, refused>>
      /\ calls[n] # "ended" /\ calls' = [calls EXCEPT ![n] = "ended"] /\ lately' \subseteq Calls
      /\ ends' = (IF aborts THEN [ends EXCEPT ![n] = Append(@, "cancelled")] ELSE ends)
  BY DEF Leave, wireVars, frameVars, workerVars
<1>2. PICK msgs \in {<<>>, <<Msg("stop", n)>>} : toward' = Posted("page", msgs)
  BY DEF Leave
<1>3. msgs \in Queues /\ \A k \in Calls : Silent(msgs, k)
  BY EndIs, SilentIs
<1>4. toward' \in [Ends -> Queues] /\ \A k \in Calls : \A x \in Ends : Same(toward[x], toward'[x], k)
  BY <1>2, <1>3, WiresPosted DEF Ends
<1>5. ends[n] \in Seq(Outcomes) /\ "cancelled" \in Outcomes
  BY DEF Outcomes
<1>6. ends' \in [Calls -> Seq(Outcomes)]
  BY <1>1, <1>5
<1>7. Books'
  BY <1>1, <1>4, <1>6 DEF Books, TypeOK, Shapes, Serving, Forwarded
<1>8. ASSUME NEW k \in Calls PROVE QuietCall(k)
  <2>1. Same(toward["front"], toward'["front"], k) /\ Same(toward["worker"], toward'["worker"], k)
        /\ Same(toward["page"], toward'["page"], k) /\ Same(toward["back"], toward'["back"], k)
    BY <1>4 DEF Ends
  <2>. QED BY <1>1, <1>5, <2>1, SameThins DEF QuietCall
<1>. QED BY <1>1, <1>7, <1>8, QuietKeeps

\* No value comes on a call that has not gone out.
LEMMA NoValueYet ==
  ASSUME WireAssumption, IInv, NEW n \in Calls
  PROVE  /\ calls[n] \in {"idle", "queued"} => \A i \in DOMAIN toward["page"] : ~Carries(toward["page"][i], n)
         /\ back[n] \in {"idle", "queued"} => \A i \in DOMAIN toward["back"] : ~Carries(toward["back"][i], n)
<1>. USE Known
<1>1. OpensOnce(n) /\ Streams(n) /\ back[n] \in {"idle", "queued", "open", "ended"} /\ sent[n] \in Nat
  BY DEF WireAssumption
<1>2. calls[n] \in {"idle", "queued"} => back[n] = "idle"
  BY <1>1 DEF OpensOnce, Forwarded
<1>3. PICK a \in Upto, b \in Upto, c \in Upto :
        b <= c /\ Stream(toward["page"], n, a, b) /\ Stream(toward["back"], n, c, sent[n])
  BY <1>1 DEF Streams
<1>4. a \in Nat /\ b \in Nat /\ c \in Nat
  BY DEF WireAssumption, Upto
<1>5. ASSUME back[n] \in {"idle", "queued"} PROVE sent[n] = 0 /\ c = 0 /\ b = 0
  <2>1. sent[n] = 0
    BY <1>1, <1>5 DEF OpensOnce
  <2>. QED BY <1>3, <1>4, <2>1 DEF Stream
<1>6. ASSUME calls[n] \in {"idle", "queued"}, NEW i \in DOMAIN toward["page"], Carries(toward["page"][i], n) PROVE FALSE
  <2>1. toward["page"][i].value \in a + 1 .. b /\ b = 0
    BY <1>2, <1>3, <1>5, <1>6 DEF Stream
  <2>. QED BY <1>4, <2>1
<1>7. ASSUME back[n] \in {"idle", "queued"}, NEW i \in DOMAIN toward["back"], Carries(toward["back"][i], n) PROVE FALSE
  <2>1. toward["back"][i].value \in c + 1 .. sent[n] /\ sent[n] = 0
    BY <1>3, <1>5, <1>7 DEF Stream
  <2>. QED BY <1>4, <2>1
<1>. QED BY <1>6, <1>7

\* The value the page hears is the next one.
LEMMA NextHeard ==
  ASSUME WireAssumption, IInv, NEW n \in Calls, calls[n] = "open", toward["page"] # <<>>,
         Carries(Head(toward["page"]), n)
  PROVE  /\ Head(toward["page"]).value = Len(heard[n]) + 1
         /\ \E b, c \in Upto : /\ b <= c /\ Stream(toward["back"], n, c, sent[n]) /\ (back[n] # "ended" => b = c)
                               /\ Stream(Tail(toward["page"]), n, Len(heard[n]) + 1, b)
                               /\ Len(heard[n]) + 1 \in Upto
<1>1. Streams(n) /\ toward["page"] \in Queues
  BY Known DEF Ends
<1>2. PICK a \in Upto, b \in Upto, c \in Upto :
        /\ b <= c /\ Stream(toward["page"], n, a, b) /\ Stream(toward["back"], n, c, sent[n])
        /\ a = Len(heard[n]) /\ (back[n] # "ended" => b = c)
  BY <1>1 DEF Streams
<1>3. /\ Head(toward["page"]).value = a + 1 /\ a + 1 \in Upto /\ Stream(Tail(toward["page"]), n, a + 1, b)
  BY <1>1, <1>2, TailStream
<1>. QED BY <1>2, <1>3

\* What ends a call is an outcome.
LEMMA OutcomesAre ==
  ASSUME NEW m, m.leg \in {"response", "interrupt", "failed"}
  PROVE  OutcomeOf(m) \in Outcomes
  BY DEF OutcomeOf, Outcomes

\* The page hears something on a call: the next value, or the end.
LEMMA HearPageKeeps ==
  ASSUME WireAssumption, IInv, HearPage
  PROVE  Kept
<1>. USE Known
<1>1. UNCHANGED <<phase, loaded, agree, offers, placed, front, back, served, sent, stops>>
      /\ Hears("page", {"response", "value", "interrupt", "failed"})
  BY DEF HearPage, wireVars, frameVars, workerVars
<1>2. toward["page"] # <<>> /\ Head(toward["page"]) \in Message /\ "page" \in Ends
      /\ Head(toward["page"]).leg \in {"response", "value", "interrupt", "failed"}
  BY <1>1, HeadIs DEF Ends
<1>3. PICK m \in Message : m = Head(toward["page"])
  BY <1>2
<1>4. PICK n \in Calls : n = m.call
  BY <1>2, <1>3, MessageKinds
<1>5. refused' \in BOOLEAN
  BY DEF HearPage, TypeOK
<1>6. CASE calls[n] # "open"
  <2>1. toward' = Consumed("page") /\ UNCHANGED <<calls, lately, heard, ends>>
    BY <1>3, <1>4, <1>6 DEF HearPage, Next1, pageVars
  <2>2. /\ toward' \in [Ends -> Queues]
        /\ \A k : /\ \A x \in Ends \ {"page"} : Same(toward[x], toward'[x], k)
                  /\ Thins(toward["page"], toward'["page"], k)
                  /\ ~Carries(Head(toward["page"]), k) => Same(toward["page"], toward'["page"], k)
    BY <1>2, <2>1, WiresConsumed
  <2>3. Books'
    BY <1>1, <1>5, <2>1, <2>2 DEF Books, TypeOK, Shapes, Serving, Forwarded
  <2>4. ASSUME NEW k \in Calls, calls[k] # "ended" PROVE ~Carries(Head(toward["page"]), k)
    <3>1. CASE k = n
      <4>1. calls[n] \in {"idle", "queued"}
        BY <1>6, <2>4, <3>1
      <4>2. 1 \in DOMAIN toward["page"] /\ Head(toward["page"]) = toward["page"][1]
        BY <1>2, TailIs DEF Queues
      <4>. QED BY <3>1, <4>1, <4>2, NoValueYet
    <3>2. CASE k # n
      BY <1>3, <1>4, <3>2 DEF Carries
    <3>. QED BY <3>1, <3>2
  <2>5. ASSUME NEW k \in Calls PROVE QuietCall(k)
    <3>1. Same(toward["front"], toward'["front"], k) /\ Same(toward["worker"], toward'["worker"], k)
          /\ Same(toward["back"], toward'["back"], k) /\ Thins(toward["page"], toward'["page"], k)
      BY <2>2 DEF Ends
    <3>. QED BY <1>1, <2>1, <2>2, <2>4, <3>1, SameThins DEF QuietCall
  <2>. QED BY <1>1, <2>3, <2>5, QuietKeeps
<1>7. CASE calls[n] = "open" /\ calls' = [calls EXCEPT ![n] = "ended"]
  <2>0. \/ /\ m.leg # "value" /\ heard' = heard /\ ends' = [ends EXCEPT ![n] = Append(@, OutcomeOf(m))]
           /\ lately' = IF n \in Requests THEN lately \cup {n} ELSE lately
        \/ /\ heard' = heard /\ ends' = [ends EXCEPT ![n] = Append(@, "malformed")]
           /\ lately' = IF n \in Requests \/ m.leg = "value" THEN lately \cup {n} ELSE lately
    <3>1. calls'[n] # calls[n]
      BY <1>7
    <3>. QED BY <1>3, <1>4, <1>7, <3>1 DEF HearPage, Next1
  <2>1. PICK o \in Outcomes : ends' = [ends EXCEPT ![n] = Append(@, o)]
    <3>1. m.leg # "value" => OutcomeOf(m) \in Outcomes
      BY <1>2, <1>3, OutcomesAre
    <3>2. "malformed" \in Outcomes
      BY DEF Outcomes
    <3>. QED BY <2>0, <3>1, <3>2
  <2>2. lately' \subseteq Calls /\ heard' = heard
    BY <2>0
  <2>3. toward' = Consumed("page") \/ \E msgs \in {<<>>, <<Msg("stop", n)>>} : toward' = HeardAndPosted("page", "page", msgs)
    BY <1>3, <1>4, <1>7 DEF HearPage, Next1
  <2>4. /\ toward' \in [Ends -> Queues]
        /\ \A k \in Calls : /\ \A x \in Ends \ {"page"} : Same(toward[x], toward'[x], k)
                            /\ Thins(toward["page"], toward'["page"], k)
                            /\ ~Carries(Head(toward["page"]), k) => Same(toward["page"], toward'["page"], k)
    <3>1. CASE toward' = Consumed("page")
      BY <1>2, <3>1, WiresConsumed
    <3>2. ASSUME NEW msgs \in {<<>>, <<Msg("stop", n)>>}, toward' = HeardAndPosted("page", "page", msgs)
          PROVE  /\ toward' \in [Ends -> Queues]
                 /\ \A k \in Calls : /\ \A x \in Ends \ {"page"} : Same(toward[x], toward'[x], k)
                                     /\ Thins(toward["page"], toward'["page"], k)
                                     /\ ~Carries(Head(toward["page"]), k)
                                          => Same(toward["page"], toward'["page"], k)
      <4>1. msgs \in Queues /\ \A k \in Calls : Silent(msgs, k)
        BY EndIs, SilentIs
      <4>. QED BY <1>2, <3>2, <4>1, WiresHeard, Peers
    <3>. QED BY <2>3, <3>1, <3>2
  <2>5. ends[n] \in Seq(Outcomes) /\ ends' \in [Calls -> Seq(Outcomes)]
    BY <2>1
  <2>6. Books'
    BY <1>1, <1>5, <1>7, <2>2, <2>4, <2>5 DEF Books, TypeOK, Shapes, Serving, Forwarded
  <2>7. ASSUME NEW k \in Calls PROVE QuietCall(k)
    <3>1. Same(toward["front"], toward'["front"], k) /\ Same(toward["worker"], toward'["worker"], k)
          /\ Same(toward["back"], toward'["back"], k) /\ Thins(toward["page"], toward'["page"], k)
      BY <2>4 DEF Ends
    <3>2. k # n => ~Carries(Head(toward["page"]), k)
      BY <1>3, <1>4 DEF Carries
    <3>. QED BY <1>1, <1>7, <2>1, <2>2, <2>4, <2>5, <3>1, <3>2, SameThins DEF QuietCall
  <2>. QED BY <1>1, <2>6, <2>7, QuietKeeps
<1>8. CASE calls[n] = "open" /\ m.leg = "value" /\ heard' = [heard EXCEPT ![n] = Append(@, m.value)]
           /\ toward' = Consumed("page") /\ UNCHANGED <<calls, lately, ends>>
  <2>1. /\ toward' \in [Ends -> Queues] /\ toward'["page"] = Tail(toward["page"])
        /\ \A k : /\ \A x \in Ends \ {"page"} : Same(toward[x], toward'[x], k)
                  /\ ~Carries(Head(toward["page"]), k) => Same(toward["page"], toward'["page"], k)
    BY <1>2, <1>8, WiresConsumed
  <2>2. Carries(m, n) /\ m.value \in Values
    BY <1>3, <1>4, <1>8, MessageKinds DEF Carries
  <2>3. heard[n] \in Seq(Values) /\ heard' \in [Calls -> Seq(Values)]
    BY <1>8, <2>2 DEF Values
  <2>4. Books'
    BY <1>1, <1>5, <1>8, <2>1, <2>3 DEF Books, TypeOK, Shapes, Serving, Forwarded, Values
  <2>5. ASSUME NEW k \in Calls, k # n PROVE Sound(k)' /\ Settled(k)
    <3>1. ~Carries(Head(toward["page"]), k)
      BY <1>3, <1>4, <2>5 DEF Carries
    <3>2. Same(toward["front"], toward'["front"], k) /\ Same(toward["worker"], toward'["worker"], k)
          /\ Same(toward["back"], toward'["back"], k) /\ Same(toward["page"], toward'["page"], k)
      BY <2>1, <3>1 DEF Ends
    <3>3. QuietCall(k)
      BY <1>1, <1>8, <2>5, <3>2, WiresOnly
    <3>. QED BY <1>1, <2>4, <3>3, KeptPlaces, QuietCallKeeps
  <2>6. PICK b \in Upto, c \in Upto :
          /\ b <= c /\ Stream(toward["back"], n, c, sent[n]) /\ (back[n] # "ended" => b = c)
          /\ Stream(Tail(toward["page"]), n, Len(heard[n]) + 1, b) /\ Len(heard[n]) + 1 \in Upto
          /\ m.value = Len(heard[n]) + 1
    BY <1>2, <1>3, <1>8, <2>2, NextHeard
  <2>7. heard'[n] = Append(heard[n], Len(heard[n]) + 1) /\ Len(heard'[n]) = Len(heard[n]) + 1
    BY <1>8, <2>3, <2>6
  <2>8. \A x \in Ends \ {"page"} : toward'[x] = toward[x]
    BY <1>8 DEF Consumed
  <2>9. Streams(n)'
    <3>1. toward'["page"] = Tail(toward["page"]) /\ toward'["back"] = toward["back"] /\ UNCHANGED <<sent, back>>
      BY <1>1, <2>1, <2>8 DEF Ends
    <3>2. PICK a \in Upto : a = Len(heard[n]) + 1
      BY <2>6
    <3>3. a = Len(heard'[n])
      BY <2>7, <3>2
    <3>4. /\ b <= c /\ Stream(toward'["page"], n, a, b) /\ Stream(toward'["back"], n, c, sent'[n])
          /\ back'[n] # "ended" => b = c
      BY <2>6, <3>1, <3>2
    <3>. QED BY <3>3, <3>4 DEF Streams
  <2>10. OpensOnce(n)'
    <3>1. OpensOnce(n) /\ toward'["front"] = toward["front"] /\ toward'["worker"] = toward["worker"]
      BY <2>8 DEF Ends
    <3>. QED BY <1>1, <1>8, <3>1 DEF OpensOnce
  <2>11. Hearing(n)'
    <3>1. Hearing(n)
      OBVIOUS
    <3>2. \A i \in DOMAIN heard'[n] : heard'[n][i] = i
      BY <2>3, <2>7, <3>1 DEF Hearing
    <3>. QED BY <1>8, <3>1, <3>2 DEF Hearing
  <2>12. Settled(n)
    BY <1>1, <1>8, <2>8 DEF Settled, Ends
  <2>13. Sound(n)' /\ Settled(n)
    BY <2>9, <2>10, <2>11, <2>12 DEF Sound
  <2>. QED BY <2>4, <2>5, <2>13 DEF IInv, Kept
<1>. QED BY <1>3, <1>4, <1>6, <1>7, <1>8 DEF HearPage, Next1

----------------------------------------------------------------------------
(* The frame. *)

\* The frame hears the opening: from the way there to the frame.
LEMMA HearOpeningKeeps ==
  ASSUME WireAssumption, IInv, HearOpening
  PROVE  Kept
<1>. USE Known
<1>1. UNCHANGED <<phase, loaded, agree, offers, calls, lately, heard, ends, served, sent, stops>>
      /\ Hears("front", {"request", "start"})
  BY DEF HearOpening, wireVars, pageVars, workerVars
<1>2. toward["front"] # <<>> /\ Head(toward["front"]) \in Message /\ "front" \in Ends
      /\ Head(toward["front"]).leg \in {"request", "start"}
  BY <1>1, HeadIs DEF Ends
<1>3. PICK n \in Calls : n = Head(toward["front"]).call
  BY <1>2, MessageKinds
<1>4. refused' \in BOOLEAN
  BY DEF HearOpening, TypeOK
<1>5. PICK msgs \in {<<>>, <<Msg("failed", n)>>} : toward' = HeardAndPosted("front", "front", msgs)
  BY <1>3 DEF HearOpening, Next1
<1>6. msgs \in Queues /\ \A k : Silent(msgs, k)
  BY EndIs, SilentIs
<1>7. /\ toward' \in [Ends -> Queues] /\ toward'["front"] = Tail(toward["front"])
      /\ \A k : \A x \in Ends : Same(toward[x], toward'[x], k)
  <2>1. \A k : ~Carries(Head(toward["front"]), k)
    BY <1>2 DEF Carries
  <2>. QED BY <1>2, <1>5, <1>6, <2>1, Peers, WiresHeard
<1>8. CASE phase["front"] # "connected"
  <2>1. UNCHANGED <<front, back, placed>>
    BY <1>8 DEF HearOpening, frameVars
  <2>2. Books'
    BY <1>1, <1>4, <1>7, <2>1 DEF Books, TypeOK, Shapes, Serving, Forwarded
  <2>3. ASSUME NEW k \in Calls PROVE QuietCall(k)
    BY <1>1, <1>7, <2>1, WiresOnly DEF Ends
  <2>. QED BY <2>1, <2>2, <2>3, QuietKeeps
<1>9. CASE phase["front"] = "connected"
  <2>1. /\ front' = [front EXCEPT ![n] = "open"] /\ back' = [back EXCEPT ![n] = "queued"]
        /\ placed' = [placed EXCEPT !["back"] = Append(@, n)]
    BY <1>3, <1>9 DEF HearOpening, Next1
  <2>2. placed' \in [Openers -> Seq(Calls)] /\ placed'["page"] = placed["page"]
    BY <2>1 DEF Openers
  <2>3. Books'
    BY <1>1, <1>4, <1>7, <1>9, <2>1, <2>2 DEF Books, TypeOK, Shapes, Serving, Forwarded
  <2>4. ASSUME NEW k \in Calls, k # n PROVE Sound(k)' /\ Settled(k)
    <3>1. QuietCall(k)
      BY <1>1, <1>7, <2>1, <2>4, WiresOnly DEF Ends
    <3>. QED BY <2>2, <2>3, <3>1, KeptPlaces, QuietCallKeeps
  <2>5. HasOpening(toward["front"], n) /\ Opens(Head(toward["front"]), n) /\ toward["front"] \in Queues
    BY <1>2, <1>3, TailIs DEF HasOpening, Opens, Queues
  <2>6. OpensOnce(n) /\ Streams(n) /\ Hearing(n)
    OBVIOUS
  <2>7. ~HasOpening(toward'["front"], n) /\ Once(toward'["front"], n)
    BY <1>2, <1>7, <2>5, <2>6, TailOpens DEF OpensOnce
  <2>8. back[n] = "idle"
    BY <2>5, <2>6 DEF OpensOnce, Forwarded
  <2>9. HasOpening(toward'["worker"], n) => HasOpening(toward["worker"], n)
    BY <1>7 DEF Same, Ends
  <2>10. OpensOnce(n)'
    BY <1>1, <2>1, <2>2, <2>5, <2>6, <2>7, <2>8, <2>9 DEF OpensOnce
  <2>11. Streams(n)'
    <3>1. sent[n] \in Upto
      BY DEF Upto
    <3>2. \A a, b \in Upto : /\ Stream(toward["page"], n, a, b) => Stream(toward'["page"], n, a, b)
                             /\ Stream(toward["back"], n, a, b) => Stream(toward'["back"], n, a, b)
      BY <1>7 DEF Same, Ends
    <3>. QED BY <1>1, <2>1, <2>6, <2>8, <3>1, <3>2 DEF Streams
  <2>12. Hearing(n)'
    BY <1>1, <2>6 DEF Hearing
  <2>13. Settled(n)
    BY <1>1, <2>7, <2>9 DEF Settled
  <2>14. Sound(n)' /\ Settled(n)
    BY <2>10, <2>11, <2>12, <2>13 DEF Sound
  <2>. QED BY <2>3, <2>4, <2>14 DEF IInv, Kept
<1>. QED BY <1>8, <1>9

\* The frame hears a stop.
LEMMA HearStopKeeps ==
  ASSUME WireAssumption, IInv, HearStop
  PROVE  Kept
<1>. USE Known
<1>1. UNCHANGED <<phase, loaded, agree, offers, placed, calls, lately, heard, ends, served, sent, stops>>
      /\ Hears("front", {"stop"})
  BY DEF HearStop, wireVars, pageVars, workerVars
<1>2. toward["front"] # <<>> /\ Head(toward["front"]) \in Message /\ "front" \in Ends
      /\ Head(toward["front"]).leg = "stop"
  BY <1>1, HeadIs DEF Ends
<1>3. PICK n \in Calls : n = Head(toward["front"]).call
  BY <1>2, MessageKinds
<1>4. refused' \in BOOLEAN
  BY DEF HearStop, TypeOK
<1>5. \A k : ~Carries(Head(toward["front"]), k)
  BY <1>2 DEF Carries
<1>6. CASE front[n] # "open"
  <2>1. UNCHANGED <<front, back>> /\ toward' = Consumed("front")
    BY <1>3, <1>6 DEF HearStop, Next1, frameVars
  <2>2. toward' \in [Ends -> Queues] /\ \A k : \A x \in Ends : Same(toward[x], toward'[x], k)
    BY <1>2, <1>5, <2>1, WiresConsumed
  <2>3. Books'
    BY <1>1, <1>4, <2>1, <2>2 DEF Books, TypeOK, Shapes, Serving, Forwarded
  <2>4. ASSUME NEW k \in Calls PROVE QuietCall(k)
    BY <1>1, <2>1, <2>2, WiresOnly DEF Ends
  <2>. QED BY <1>1, <2>3, <2>4, QuietKeeps
<1>7. CASE front[n] = "open"
  <2>1. front' = [front EXCEPT ![n] = "over"] /\ back' = [back EXCEPT ![n] = "ended"]
    BY <1>3, <1>7 DEF HearStop, Next1
  <2>2. PICK msgs \in {<<>>, <<Msg("stop", n)>>} : toward' = HeardAndPosted("front", "back", msgs)
    BY <1>3, <1>7 DEF HearStop, Next1
  <2>3. msgs \in Queues /\ \A k : Silent(msgs, k)
    BY EndIs, SilentIs
  <2>4. toward' \in [Ends -> Queues] /\ \A k : \A x \in Ends : Same(toward[x], toward'[x], k)
    <3>1. "back" \in Ends /\ Peer("back") # "front"
      BY Peers DEF Ends
    <3>. QED BY <1>2, <1>5, <2>2, <2>3, <3>1, WiresHeard
  <2>5. Books'
    BY <1>1, <1>4, <2>1, <2>4 DEF Books, TypeOK, Shapes, Serving, Forwarded
  <2>6. ASSUME NEW k \in Calls PROVE QuietCall(k)
    <3>1. Same(toward["front"], toward'["front"], k) /\ Same(toward["worker"], toward'["worker"], k)
          /\ Same(toward["back"], toward'["back"], k) /\ Same(toward["page"], toward'["page"], k)
      BY <2>4 DEF Ends
    <3>2. back[n] \in {"queued", "open"}
      BY <1>7 DEF Forwarded
    <3>. QED BY <1>1, <2>1, <3>1, <3>2, SameThins DEF QuietCall
  <2>. QED BY <1>1, <2>5, <2>6, QuietKeeps
<1>. QED BY <1>6, <1>7

\* A call of the frame's goes out, the one time, or fails since the far link closed.
LEMMA FlushBackKeeps ==
  ASSUME WireAssumption, IInv, FlushBack
  PROVE  Kept
<1>. USE Known
<1>1. UNCHANGED <<phase, loaded, agree, offers, calls, lately, heard, ends, served, sent, stops, refused>>
  BY DEF FlushBack, wireVars, pageVars, workerVars
<1>2. placed["back"] \in Seq(Calls) /\ placed["back"] # <<>> /\ placed' = [placed EXCEPT !["back"] = Tail(@)]
  BY DEF FlushBack, Flushing, Openers
<1>3. placed' \in [Openers -> Seq(Calls)] /\ placed'["page"] = placed["page"]
  BY <1>2, TailIs DEF Openers
<1>4. PICK n \in Calls : n = Head(placed["back"])
  BY <1>2, TailIs
<1>5. CASE back[n] # "queued"
  <2>1. UNCHANGED <<front, back, toward>>
    BY <1>4, <1>5 DEF FlushBack, frameVars
  <2>2. Books'
    BY <1>1, <1>3, <2>1 DEF Books, TypeOK, Shapes, Serving, Forwarded
  <2>3. ASSUME NEW k \in Calls PROVE QuietCall(k)
    BY <1>1, <2>1, SameThins, WiresOnly
  <2>. QED BY <1>3, <2>2, <2>3, QuietKeeps
<1>6. CASE back[n] = "queued" /\ phase["back"] = "closed"
  <2>1. back' = [back EXCEPT ![n] = "ended"] /\ front' = [front EXCEPT ![n] = "over"]
    BY <1>4, <1>6 DEF FlushBack
  <2>2. PICK msgs \in {<<>>, <<Msg("failed", n)>>} : toward' = Posted("front", msgs)
    BY <1>4, <1>6 DEF FlushBack
  <2>3. msgs \in Queues /\ \A k : Silent(msgs, k)
    BY EndIs, SilentIs
  <2>4. toward' \in [Ends -> Queues] /\ \A k : \A x \in Ends : Same(toward[x], toward'[x], k)
    BY <2>2, <2>3, WiresPosted DEF Ends
  <2>5. Books'
    BY <1>1, <1>3, <2>1, <2>4 DEF Books, TypeOK, Shapes, Serving, Forwarded
  <2>6. ASSUME NEW k \in Calls PROVE QuietCall(k)
    <3>1. Same(toward["front"], toward'["front"], k) /\ Same(toward["worker"], toward'["worker"], k)
          /\ Same(toward["back"], toward'["back"], k) /\ Same(toward["page"], toward'["page"], k)
      BY <2>4 DEF Ends
    <3>. QED BY <1>1, <1>6, <2>1, <3>1, SameThins DEF QuietCall
  <2>. QED BY <1>3, <2>5, <2>6, QuietKeeps
<1>7. CASE back[n] = "queued" /\ phase["back"] # "closed"
  <2>1. /\ back' = [back EXCEPT ![n] = "open"] /\ front' = front
        /\ toward' = Posted("back", <<Msg(Opening(n), n)>>)
    BY <1>4, <1>7 DEF FlushBack
  <2>2. /\ toward' \in [Ends -> Queues]
        /\ \A x \in Ends : x # "worker" => toward'[x] = toward[x]
        /\ \A k \in Calls : k # n => \A x \in Ends : Same(toward[x], toward'[x], k)
    BY <2>1, OpeningPosted, Peers DEF Ends
  <2>3. Books'
    BY <1>1, <1>3, <1>7, <2>1, <2>2 DEF Books, TypeOK, Shapes, Serving, Forwarded
  <2>4. ASSUME NEW k \in Calls, k # n PROVE Sound(k)' /\ Settled(k)
    <3>1. QuietCall(k)
      BY <1>1, <2>1, <2>2, <2>4, WiresOnly DEF Ends
    <3>. QED BY <1>3, <2>3, <3>1, KeptPlaces, QuietCallKeeps
  <2>5. OpensOnce(n) /\ Streams(n) /\ Hearing(n) /\ back'[n] = "open"
    BY <2>1
  <2>6. toward'["front"] = toward["front"] /\ toward'["page"] = toward["page"] /\ toward'["back"] = toward["back"]
    BY <2>2 DEF Ends
  <2>7. OpensOnce(n)'
    BY <1>1, <1>3, <2>1, <2>5, <2>6 DEF OpensOnce
  <2>8. Streams(n)' /\ Hearing(n)'
    BY <1>1, <1>7, <2>5, <2>6 DEF Streams, Hearing
  <2>9. Settled(n)
    BY <1>1, <1>7, <2>6 DEF Settled, Forwarded
  <2>10. Sound(n)' /\ Settled(n)
    BY <2>7, <2>8, <2>9 DEF Sound
  <2>. QED BY <2>3, <2>4, <2>10 DEF IInv, Kept
<1>. QED BY <1>5, <1>6, <1>7

\* The frame passes on what it hears of an open call, so no value between two is lost.
LEMMA HearBackKeeps ==
  ASSUME WireAssumption, IInv, HearBack
  PROVE  Kept
<1>. USE Known
<1>1. UNCHANGED <<phase, loaded, agree, offers, placed, calls, lately, heard, ends, served, sent, stops, refused>>
      /\ Hears("back", {"response", "value", "interrupt", "failed"})
  BY DEF HearBack, wireVars, pageVars, workerVars
<1>2. /\ toward["back"] # <<>> /\ toward["back"] \in Queues /\ Head(toward["back"]) \in Message /\ "back" \in Ends
      /\ "front" \in Ends /\ Head(toward["back"]).leg \in {"response", "value", "interrupt", "failed"}
      /\ Peer("front") = "page" /\ Peer("front") # "back"
  BY <1>1, HeadIs, Peers DEF Ends
<1>3. PICK m \in Message : m = Head(toward["back"])
  BY <1>2
<1>4. PICK n \in Calls : n = m.call
  BY <1>2, <1>3, MessageKinds
<1>5. \A k \in Calls : k # n => ~Carries(Head(toward["back"]), k)
  BY <1>3, <1>4 DEF Carries
<1>6. CASE back[n] # "open"
  <2>1. UNCHANGED <<front, back>> /\ toward' = Consumed("back")
    BY <1>3, <1>4, <1>6 DEF HearBack, Next1, frameVars
  <2>2. /\ toward' \in [Ends -> Queues]
        /\ \A k : /\ \A x \in Ends \ {"back"} : Same(toward[x], toward'[x], k)
                  /\ Thins(toward["back"], toward'["back"], k)
                  /\ ~Carries(Head(toward["back"]), k) => Same(toward["back"], toward'["back"], k)
    BY <1>2, <2>1, WiresConsumed
  <2>3. Books'
    BY <1>1, <2>1, <2>2 DEF Books, TypeOK, Shapes, Serving, Forwarded
  <2>4. ASSUME NEW k \in Calls, back[k] # "ended" PROVE ~Carries(Head(toward["back"]), k)
    <3>1. CASE k = n
      <4>1. back[n] \in {"idle", "queued"}
        BY <1>6, <2>4, <3>1
      <4>2. 1 \in DOMAIN toward["back"] /\ Head(toward["back"]) = toward["back"][1]
        BY <1>2, TailIs DEF Queues
      <4>. QED BY <3>1, <4>1, <4>2, NoValueYet
    <3>. QED BY <1>5, <3>1
  <2>5. ASSUME NEW k \in Calls PROVE QuietCall(k)
    <3>1. Same(toward["front"], toward'["front"], k) /\ Same(toward["worker"], toward'["worker"], k)
          /\ Same(toward["page"], toward'["page"], k) /\ Thins(toward["back"], toward'["back"], k)
      BY <2>2 DEF Ends
    <3>. QED BY <1>1, <2>1, <2>2, <2>4, <3>1, SameThins DEF QuietCall
  <2>. QED BY <1>1, <2>3, <2>5, QuietKeeps
<1>7. CASE back[n] = "open" /\ m.leg # "value"
  <2>1. back' = [back EXCEPT ![n] = "ended"] /\ front' = [front EXCEPT ![n] = "over"]
    BY <1>3, <1>4, <1>7 DEF HearBack, Next1
  <2>2. PICK msgs \in {<<>>, <<m>>} : toward' = HeardAndPosted("back", "front", msgs)
    BY <1>3, <1>4, <1>7 DEF HearBack, Next1
  <2>3. msgs \in Queues /\ \A k : Silent(msgs, k)
    <3>1. \A k : ~Opens(m, k) /\ ~Carries(m, k)
      BY <1>2, <1>3, <1>7 DEF Opens, Carries
    <3>2. msgs \in Queues
      BY SilentIs
    <3>3. ASSUME NEW k PROVE Silent(msgs, k)
      <4>1. CASE msgs = <<>>
        BY <4>1, SilentIs
      <4>2. CASE msgs = <<m>>
        BY <3>1, <4>2, SilentIs
      <4>. QED BY <4>1, <4>2
    <3>. QED BY <3>2, <3>3
  <2>4. toward' \in [Ends -> Queues] /\ \A k : \A x \in Ends : Same(toward[x], toward'[x], k)
    <3>1. \A k : ~Carries(Head(toward["back"]), k)
      BY <1>3, <1>7 DEF Carries
    <3>. QED BY <1>2, <2>2, <2>3, <3>1, WiresHeard
  <2>5. Books'
    BY <1>1, <2>1, <2>4 DEF Books, TypeOK, Shapes, Serving, Forwarded
  <2>6. ASSUME NEW k \in Calls PROVE QuietCall(k)
    <3>1. Same(toward["front"], toward'["front"], k) /\ Same(toward["worker"], toward'["worker"], k)
          /\ Same(toward["back"], toward'["back"], k) /\ Same(toward["page"], toward'["page"], k)
      BY <2>4 DEF Ends
    <3>. QED BY <1>1, <1>7, <2>1, <3>1, SameThins DEF QuietCall
  <2>. QED BY <1>1, <2>5, <2>6, QuietKeeps
<1>8. CASE back[n] = "open" /\ m.leg = "value"
  <2>1. UNCHANGED <<front, back>> /\ toward' = HeardAndPosted("back", "front", <<m>>)
    BY <1>3, <1>4, <1>8 DEF HearBack, Next1, frameVars
  <2>2. Posts("front", <<m>>) = <<m>> /\ <<m>> \in Queues
    <3>1. front[n] = "open" /\ phase["front"] = "connected"
      BY <1>8 DEF Forwarded, Serving
    <3>. QED BY <3>1, SilentIs DEF Posts
  <2>3. /\ toward' \in [Ends -> Queues] /\ toward'["back"] = Tail(toward["back"])
        /\ toward'["page"] = toward["page"] \o <<m>>
        /\ toward'["front"] = toward["front"] /\ toward'["worker"] = toward["worker"]
        /\ \A k : /\ Silent(<<m>>, k) => \A x \in Ends \ {"back"} : Same(toward[x], toward'[x], k)
                  /\ ~Carries(Head(toward["back"]), k) => Same(toward["back"], toward'["back"], k)
    <3>1. /\ toward' \in [Ends -> Queues] /\ toward'["back"] = Tail(toward["back"])
          /\ toward'["page"] = toward["page"] \o Posts("front", <<m>>)
          /\ \A x \in Ends \ {"back", "page"} : toward'[x] = toward[x]
          /\ \A k : /\ Silent(<<m>>, k) => \A x \in Ends \ {"back"} : Same(toward[x], toward'[x], k)
                    /\ ~Carries(Head(toward["back"]), k) => Same(toward["back"], toward'["back"], k)
      <4>1. PICK msgs \in Queues : msgs = <<m>>
        BY <2>2
      <4>2. toward' = HeardAndPosted("back", "front", msgs)
        BY <2>1, <4>1
      <4>3. /\ toward' \in [Ends -> Queues]
            /\ \A k : /\ Silent(msgs, k) => \A x \in Ends \ {"back"} : Same(toward[x], toward'[x], k)
                      /\ ~Carries(Head(toward["back"]), k) => Same(toward["back"], toward'["back"], k)
        BY <1>2, <4>2, WiresHeard
      <4>4. /\ toward'["back"] = Tail(toward["back"])
            /\ toward'["page"] = toward["page"] \o Posts("front", msgs)
            /\ \A x \in Ends \ {"back", "page"} : toward'[x] = toward[x]
        BY <1>2, <4>2 DEF HeardAndPosted, Ends
      <4>. QED BY <4>1, <4>3, <4>4
    <3>. QED BY <2>2, <3>1 DEF Ends
  <2>4. Books'
    BY <1>1, <2>1, <2>3 DEF Books, TypeOK, Shapes, Serving, Forwarded
  <2>5. ASSUME NEW k \in Calls, k # n PROVE Sound(k)' /\ Settled(k)
    <3>1. Silent(<<m>>, k)
      BY <1>4, <2>5, SilentIs DEF Opens, Carries
    <3>2. Same(toward["front"], toward'["front"], k) /\ Same(toward["worker"], toward'["worker"], k)
          /\ Same(toward["back"], toward'["back"], k) /\ Same(toward["page"], toward'["page"], k)
      BY <1>5, <2>3, <2>5, <3>1 DEF Ends
    <3>3. QuietCall(k)
      BY <1>1, <2>1, <3>2, WiresOnly
    <3>. QED BY <1>1, <2>4, <3>3, KeptPlaces, QuietCallKeeps
  <2>6. OpensOnce(n) /\ Streams(n) /\ Hearing(n) /\ Carries(m, n) /\ sent[n] \in Upto /\ toward["page"] \in Queues
    BY <1>4, <1>8 DEF Carries, Upto, Ends
  <2>7. PICK a \in Upto, b \in Upto :
          /\ Stream(toward["page"], n, a, b) /\ Stream(toward["back"], n, b, sent[n])
          /\ calls[n] # "ended" => a = Len(heard[n])
    BY <1>8, <2>6 DEF Streams
  <2>8. m.value = b + 1 /\ b + 1 \in Upto /\ Stream(Tail(toward["back"]), n, b + 1, sent[n])
    BY <1>2, <1>3, <2>6, <2>7, TailStream
  <2>9. Stream(toward["page"] \o <<m>>, n, a, b + 1)
    <3>1. a \in Nat /\ b \in Nat
      BY DEF Upto, WireAssumption
    <3>. QED BY <2>6, <2>7, <2>8, <3>1, NextValue
  <2>10. Streams(n)'
    <3>1. b + 1 <= b + 1
      BY DEF Upto, WireAssumption
    <3>2. /\ Stream(toward'["page"], n, a, b + 1) /\ Stream(toward'["back"], n, b + 1, sent'[n])
          /\ calls'[n] # "ended" => a = Len(heard'[n])
      BY <1>1, <2>3, <2>7, <2>8, <2>9
    <3>. QED BY <2>8, <3>1, <3>2 DEF Streams
  <2>11. OpensOnce(n)' /\ Hearing(n)'
    BY <1>1, <2>1, <2>3, <2>6 DEF OpensOnce, Hearing
  <2>12. Settled(n)
    BY <1>1, <2>3 DEF Settled
  <2>13. Sound(n)' /\ Settled(n)
    BY <2>10, <2>11, <2>12 DEF Sound
  <2>. QED BY <2>4, <2>5, <2>13 DEF IInv, Kept
<1>. QED BY <1>6, <1>7, <1>8

----------------------------------------------------------------------------
(* The worker. *)

\* The worker hears the opening.
LEMMA ServeKeeps ==
  ASSUME WireAssumption, IInv, Serve
  PROVE  Kept
<1>. USE Known
<1>1. UNCHANGED <<phase, loaded, agree, offers, placed, calls, lately, heard, ends, front, back, sent>>
      /\ Hears("worker", {"request", "start"})
  BY DEF Serve, wireVars, pageVars, frameVars, workerVars
<1>2. /\ toward["worker"] # <<>> /\ toward["worker"] \in Queues /\ Head(toward["worker"]) \in Message
      /\ "worker" \in Ends /\ Head(toward["worker"]).leg \in {"request", "start"} /\ Peer("worker") # "worker"
  BY <1>1, HeadIs, Peers DEF Ends
<1>3. PICK n \in Calls : n = Head(toward["worker"]).call
  BY <1>2, MessageKinds
<1>4. refused' \in BOOLEAN
  BY DEF Serve, TypeOK
<1>5. \/ served' = served
      \/ phase["worker"] = "connected" /\ served' = [served EXCEPT ![n] = "open"]
      \/ served' = [served EXCEPT ![n] = "over"]
  <2>1. CASE phase["worker"] \in {"closed", "connecting"}
    BY <2>1 DEF Serve, workerVars
  <2>2. CASE phase["worker"] = "connected"
    BY <1>3, <2>2 DEF Serve, Next1
  <2>. QED BY <2>1, <2>2 DEF Ends
<1>6. stops' \in [Calls -> Nat]
  <2>1. stops' = stops \/ stops' = [stops EXCEPT ![n] = @ + 1]
    <3>1. CASE phase["worker"] \in {"closed", "connecting"}
      BY <3>1 DEF Serve, workerVars
    <3>2. CASE phase["worker"] = "connected"
      BY <1>3, <3>2 DEF Serve, Next1
    <3>. QED BY <3>1, <3>2 DEF Ends
  <2>2. stops[n] + 1 \in Nat
    OBVIOUS
  <2>. QED BY <2>1, <2>2
<1>7. toward' = Consumed("worker")
      \/ \E leg \in {"failed", "interrupt"} : toward' = HeardAndPosted("worker", "worker", <<Msg(leg, n)>>)
  BY <1>3 DEF Serve, Next1
<1>8. toward' \in [Ends -> Queues] /\ \A k : \A x \in Ends : Same(toward[x], toward'[x], k)
  <2>1. \A k : ~Carries(Head(toward["worker"]), k)
    BY <1>2 DEF Carries
  <2>2. CASE toward' = Consumed("worker")
    BY <1>2, <2>1, <2>2, WiresConsumed
  <2>3. ASSUME NEW leg \in {"failed", "interrupt"}, toward' = HeardAndPosted("worker", "worker", <<Msg(leg, n)>>)
        PROVE  toward' \in [Ends -> Queues] /\ \A k : \A x \in Ends : Same(toward[x], toward'[x], k)
    <3>1. <<Msg(leg, n)>> \in Queues /\ \A k : Silent(<<Msg(leg, n)>>, k)
      BY EndIs
    <3>. QED BY <1>2, <2>1, <2>3, <3>1, WiresHeard
  <2>. QED BY <1>7, <2>2, <2>3
<1>9. Books'
  <2>1. /\ served' \in [Calls -> {"none", "open", "over"}]
        /\ \A k \in Calls : served'[k] = "open" => served[k] = "open" \/ phase["worker"] = "connected"
    BY <1>5
  <2>2. Serving'
    BY <1>1, <2>1 DEF Serving
  <2>. QED BY <1>1, <1>4, <1>6, <1>8, <2>1, <2>2 DEF Books, TypeOK, Shapes, Forwarded
<1>10. back[n] \notin {"idle", "queued"}
  <2>1. HasOpening(toward["worker"], n)
    BY <1>2, <1>3, TailIs DEF HasOpening, Opens, Queues
  <2>. QED BY <2>1 DEF OpensOnce
<1>11. ASSUME NEW k \in Calls PROVE QuietCall(k)
  <2>1. Same(toward["front"], toward'["front"], k) /\ Same(toward["worker"], toward'["worker"], k)
        /\ Same(toward["page"], toward'["page"], k) /\ Same(toward["back"], toward'["back"], k)
    BY <1>8 DEF Ends
  <2>2. served'[k] = served[k] \/ (served'[k] # "none" /\ back[k] \notin {"idle", "queued"})
    BY <1>5, <1>10
  <2>. QED BY <1>1, <2>1, <2>2, SameThins DEF QuietCall
<1>. QED BY <1>1, <1>9, <1>11, QuietKeeps

\* What the worker serves it was asked to, and a call the page has forgotten it may still serve.
LEMMA ServedIs ==
  ASSUME IInv, NEW n \in Calls, served[n] = "open"
  PROVE  back[n] \notin {"idle", "queued"} /\ phase["worker"] = "connected"
  BY Known DEF OpensOnce, Serving

\* The worker ends call n with a leg.
LEMMA EndOfServed ==
  ASSUME WireAssumption, IInv, NEW n \in Calls, served[n] = "open", served' = [served EXCEPT ![n] = "over"],
         UNCHANGED <<phase, loaded, agree, offers, placed, calls, lately, heard, ends, front, back, sent, refused>>,
         stops' \in [Calls -> Nat], NEW leg \in {"response", "interrupt", "failed"},
         toward' = Posted("worker", <<Msg(leg, n)>>)
  PROVE  Kept
<1>. USE Known
<1>1. <<Msg(leg, n)>> \in Queues /\ \A k : Silent(<<Msg(leg, n)>>, k)
  BY EndIs
<1>2. toward' \in [Ends -> Queues] /\ \A k : \A x \in Ends : Same(toward[x], toward'[x], k)
  BY <1>1, WiresPosted DEF Ends
<1>3. Books'
  BY <1>2 DEF Books, TypeOK, Shapes, Serving, Forwarded
<1>4. ASSUME NEW k \in Calls PROVE QuietCall(k)
  <2>1. Same(toward["front"], toward'["front"], k) /\ Same(toward["worker"], toward'["worker"], k)
        /\ Same(toward["page"], toward'["page"], k) /\ Same(toward["back"], toward'["back"], k)
    BY <1>2 DEF Ends
  <2>2. served'[k] = served[k] \/ (served'[k] # "none" /\ back[k] \notin {"idle", "queued"})
    BY ServedIs
  <2>. QED BY <2>1, <2>2, SameThins DEF QuietCall
<1>. QED BY <1>3, <1>4, QuietKeeps

\* A handler settles.
LEMMA AnswerKeeps ==
  ASSUME WireAssumption, IInv, NEW n \in Requests, NEW leg \in {"response", "failed"}, Answer(n, leg)
  PROVE  Kept
<1>1. n \in Calls /\ stops' \in [Calls -> Nat]
  BY Known DEF Answer, Calls
<1>. QED BY <1>1, EndOfServed DEF Answer, wireVars, pageVars, frameVars

\* A subscription ends at the worker.
LEMMA EndServedKeeps ==
  ASSUME WireAssumption, IInv, NEW n \in Subscriptions, NEW leg \in {"interrupt", "failed"}, EndServed(n, leg)
  PROVE  Kept
<1>1. n \in Calls /\ stops' \in [Calls -> Nat]
  BY Known DEF EndServed, Calls
<1>. QED BY <1>1, EndOfServed DEF EndServed, wireVars, pageVars, frameVars

\* The worker sends the next value.
LEMMA SendValueKeeps ==
  ASSUME WireAssumption, IInv, NEW n \in Subscriptions, SendValue(n)
  PROVE  Kept
<1>. USE Known
<1>1. /\ n \in Calls /\ served[n] = "open" /\ sent[n] < MaxValues /\ sent' = [sent EXCEPT ![n] = @ + 1]
      /\ UNCHANGED <<phase, loaded, agree, offers, placed, calls, lately, heard, ends, front, back, served, stops,
                     refused>>
  BY DEF SendValue, Calls, wireVars, pageVars, frameVars
<1>2. sent[n] \in Nat /\ sent'[n] = sent[n] + 1 /\ sent'[n] \in Values /\ sent' \in [Calls -> 0 .. MaxValues]
  BY <1>1 DEF Values, WireAssumption
<1>3. PICK m \in Message : m = [leg |-> "value", call |-> n, value |-> sent'[n]]
  BY <1>1, <1>2, ValueIs
<1>4. Carries(m, n) /\ m.value = sent[n] + 1 /\ m.leg = "value" /\ m.call = n /\ <<m>> \in Queues
  BY <1>2, <1>3, SilentIs DEF Carries
<1>5. toward' = Posted("worker", <<m>>)
  BY <1>3 DEF SendValue
<1>6. Posts("worker", <<m>>) = <<m>>
  BY <1>1, ServedIs DEF Posts
<1>7. /\ toward' \in [Ends -> Queues] /\ "worker" \in Ends
      /\ \A k : Silent(<<m>>, k) => \A x \in Ends : Same(toward[x], toward'[x], k)
  BY <1>4, <1>5, WiresPosted DEF Ends
<1>8. toward'["back"] = toward["back"] \o <<m>> /\ \A x \in Ends \ {"back"} : toward'[x] = toward[x]
  BY <1>5, <1>6, Peers DEF Posted, Ends
<1>9. Books'
  BY <1>1, <1>2, <1>7 DEF Books, TypeOK, Shapes, Serving, Forwarded
<1>10. ASSUME NEW k \in Calls, k # n PROVE Sound(k)' /\ Settled(k)
  <2>1. Silent(<<m>>, k)
    BY <1>4, <1>10, SilentIs DEF Opens, Carries
  <2>2. Same(toward["front"], toward'["front"], k) /\ Same(toward["worker"], toward'["worker"], k)
        /\ Same(toward["back"], toward'["back"], k) /\ Same(toward["page"], toward'["page"], k)
    BY <1>7, <2>1 DEF Ends
  <2>3. QuietCall(k)
    BY <1>1, <1>10, <2>2, WiresOnly
  <2>. QED BY <1>1, <1>9, <2>3, KeptPlaces, QuietCallKeeps
<1>11. OpensOnce(n) /\ Streams(n) /\ Hearing(n) /\ toward["back"] \in Queues
  BY <1>1 DEF Ends
<1>12. toward'["page"] = toward["page"] /\ toward'["front"] = toward["front"] /\ toward'["worker"] = toward["worker"]
  BY <1>8 DEF Ends
<1>13. Streams(n)'
  <2>1. PICK a \in Upto, b \in Upto, c \in Upto :
          /\ b <= c /\ Stream(toward["page"], n, a, b) /\ Stream(toward["back"], n, c, sent[n])
          /\ calls[n] # "ended" => a = Len(heard[n])
          /\ back[n] # "ended" => b = c
    BY <1>11 DEF Streams
  <2>2. c \in Nat
    BY DEF Upto, WireAssumption
  <2>3. Stream(toward["back"] \o <<m>>, n, c, sent[n] + 1)
    BY <1>1, <1>2, <1>4, <1>11, <2>1, <2>2, NextValue
  <2>. QED BY <1>1, <1>2, <1>8, <1>12, <2>1, <2>3 DEF Streams
<1>14. OpensOnce(n)' /\ Hearing(n)'
  BY <1>1, <1>11, <1>12 DEF OpensOnce, Hearing
<1>15. Settled(n)
  BY <1>1, <1>12 DEF Settled
<1>16. Sound(n)' /\ Settled(n)
  BY <1>13, <1>14, <1>15 DEF Sound
<1>. QED BY <1>9, <1>10, <1>16 DEF IInv, Kept

\* The worker hears a stop.
LEMMA ServeStopKeeps ==
  ASSUME WireAssumption, IInv, ServeStop
  PROVE  Kept
<1>. USE Known
<1>1. UNCHANGED <<phase, loaded, agree, offers, placed, calls, lately, heard, ends, front, back, sent>>
      /\ Hears("worker", {"stop"}) /\ toward' = Consumed("worker")
  BY DEF ServeStop, wireVars, pageVars, frameVars
<1>2. /\ toward["worker"] # <<>> /\ Head(toward["worker"]) \in Message /\ "worker" \in Ends
      /\ Head(toward["worker"]).leg = "stop"
  BY <1>1, HeadIs DEF Ends
<1>3. PICK n \in Calls : n = Head(toward["worker"]).call
  BY <1>2, MessageKinds
<1>4. refused' \in BOOLEAN
  BY DEF ServeStop, TypeOK
<1>5. \/ served' = served /\ stops' = stops
      \/ served[n] = "open" /\ served' = [served EXCEPT ![n] = "over"] /\ stops' = [stops EXCEPT ![n] = @ + 1]
  BY <1>3 DEF ServeStop, Next1
<1>6. stops' \in [Calls -> Nat] /\ served' \in [Calls -> {"none", "open", "over"}]
  <2>1. stops \in [Calls -> Nat] /\ served \in [Calls -> {"none", "open", "over"}] /\ stops[n] + 1 \in Nat
    OBVIOUS
  <2>2. [stops EXCEPT ![n] = @ + 1] \in [Calls -> Nat] /\ [served EXCEPT ![n] = "over"] \in [Calls -> {"none", "open", "over"}]
    BY <2>1
  <2>. QED BY <1>5, <2>1, <2>2
<1>7. toward' \in [Ends -> Queues] /\ \A k : \A x \in Ends : Same(toward[x], toward'[x], k)
  <2>1. \A k : ~Carries(Head(toward["worker"]), k)
    BY <1>2 DEF Carries
  <2>. QED BY <1>1, <1>2, <2>1, WiresConsumed
<1>8. Books'
  BY <1>1, <1>4, <1>5, <1>6, <1>7 DEF Books, TypeOK, Shapes, Serving, Forwarded
<1>9. ASSUME NEW k \in Calls PROVE QuietCall(k)
  <2>1. Same(toward["front"], toward'["front"], k) /\ Same(toward["worker"], toward'["worker"], k)
        /\ Same(toward["page"], toward'["page"], k) /\ Same(toward["back"], toward'["back"], k)
    BY <1>7 DEF Ends
  <2>2. served'[k] = served[k] \/ (served'[k] # "none" /\ back[k] \notin {"idle", "queued"})
    BY <1>5, ServedIs
  <2>. QED BY <1>1, <2>1, <2>2, SameThins DEF QuietCall
<1>. QED BY <1>1, <1>8, <1>9, QuietKeeps

----------------------------------------------------------------------------
(* Closing. *)

\* What closing does to the phases.
LEMMA ShutIs ==
  ASSUME IInv, NEW e \in Ends, Shut(e)
  PROVE  /\ phase' = [phase EXCEPT ![e] = "closed"] /\ phase' \in [Ends -> {"connecting", "connected", "closed"}]
         /\ \A x \in Ends \ {e} : phase'[x] = phase[x]
  BY Known DEF Shut

\* The page closes.
LEMMA ClosePageKeeps ==
  ASSUME WireAssumption, IInv, ClosePage
  PROVE  Kept
<1>. USE Known
<1>1. /\ UNCHANGED <<toward, loaded, agree, offers, placed, heard, front, back, served, sent, stops, refused>>
      /\ calls' = [n \in Calls |-> IF calls[n] = "open" THEN "ended" ELSE calls[n]]
      /\ lately' = lately \cup {n \in Requests : calls[n] = "open"}
      /\ ends' = [n \in Calls |-> IF calls[n] = "open" THEN Append(ends[n], "closed") ELSE ends[n]]
  BY DEF ClosePage, frameVars, workerVars
<1>2. phase' \in [Ends -> {"connecting", "connected", "closed"}] /\ \A x \in Ends \ {"page"} : phase'[x] = phase[x]
  BY ShutIs DEF ClosePage, Ends
<1>3. "closed" \in Outcomes
  BY DEF Outcomes
<1>4. ends' \in [Calls -> Seq(Outcomes)]
  BY <1>1, <1>3
<1>5. lately' \subseteq Calls /\ calls' \in [Calls -> {"idle", "queued", "open", "ended"}]
  BY <1>1 DEF Calls
<1>6. Books'
  BY <1>1, <1>2, <1>4, <1>5 DEF Books, TypeOK, Shapes, Serving, Forwarded, Ends
<1>7. ASSUME NEW k \in Calls PROVE QuietCall(k)
  <2>1. Same(toward["front"], toward'["front"], k) /\ Same(toward["worker"], toward'["worker"], k)
        /\ Same(toward["page"], toward'["page"], k) /\ Same(toward["back"], toward'["back"], k)
    BY <1>1, SameThins
  <2>. QED BY <1>1, <1>3, <2>1, SameThins DEF QuietCall
<1>. QED BY <1>1, <1>6, <1>7, QuietKeeps

\* An ending posted for each of a set of calls.
LEMMA EndsPosted ==
  ASSUME WireAssumption, NEW S \in SUBSET Calls, NEW order \in SetToSeqs(S), NEW leg \in {"stop", "failed"}
  PROVE  /\ [i \in DOMAIN order |-> Msg(leg, order[i])] \in Queues
         /\ \A k : Silent([i \in DOMAIN order |-> Msg(leg, order[i])], k)
<1>1. Cardinality(S) \in Nat
  BY FS_Subset, FS_CardinalityType DEF WireAssumption
<1>2. order \in [1 .. Cardinality(S) -> S]
  BY DEF SetToSeqs
<1>3. \A i \in DOMAIN order : order[i] \in Calls
  BY <1>2
<1>4. \A i \in DOMAIN order : Msg(leg, order[i]) \in Message
  BY <1>3, EndIs
<1>5. [i \in DOMAIN order |-> Msg(leg, order[i])] \in [1 .. Cardinality(S) -> Message]
  BY <1>2, <1>4
<1>6. [i \in DOMAIN order |-> Msg(leg, order[i])] \in Queues
  BY <1>1, <1>5 DEF Queues
<1>7. ASSUME NEW k, NEW i \in DOMAIN order PROVE ~Opens(Msg(leg, order[i]), k) /\ ~Carries(Msg(leg, order[i]), k)
  BY MsgIs DEF Opens, Carries
<1>. QED BY <1>6, <1>7 DEF Silent

\* The near end in the frame closes.
LEMMA CloseFrontKeeps ==
  ASSUME WireAssumption, IInv, CloseFront
  PROVE  Kept
<1>. USE Known
<1>1. /\ UNCHANGED <<loaded, agree, offers, placed, calls, lately, heard, ends, served, sent, stops, refused>>
      /\ front' = [n \in Calls |-> IF n \in {k \in Calls : front[k] = "open"} THEN "over" ELSE front[n]]
      /\ back' = [n \in Calls |-> IF n \in {k \in Calls : front[k] = "open"} THEN "ended" ELSE back[n]]
  BY DEF CloseFront, pageVars, workerVars
<1>2. phase' \in [Ends -> {"connecting", "connected", "closed"}] /\ \A x \in Ends \ {"front"} : phase'[x] = phase[x]
  BY ShutIs DEF CloseFront, Ends
<1>3. PICK S \in SUBSET Calls : \E order \in SetToSeqs(S) :
        toward' = Posted("back", [i \in DOMAIN order |-> Msg("stop", order[i])])
  BY DEF CloseFront
<1>4. PICK msgs \in Queues : toward' = Posted("back", msgs) /\ \A k : Silent(msgs, k)
  BY <1>3, EndsPosted
<1>5. toward' \in [Ends -> Queues] /\ \A k : \A x \in Ends : Same(toward[x], toward'[x], k)
  BY <1>4, WiresPosted DEF Ends
<1>6. \A n \in Calls : \/ front[n] = "open" /\ front'[n] = "over" /\ back'[n] = "ended"
                       \/ front[n] # "open" /\ front'[n] = front[n] /\ back'[n] = back[n]
  BY <1>1
<1>7. /\ front' \in [Calls -> {"none", "open", "over"}]
      /\ back' \in [Calls -> {"idle", "queued", "open", "ended"}]
  BY <1>1
<1>8. Books'
  <2>1. Serving' /\ Forwarded'
    BY <1>1, <1>2, <1>6 DEF Serving, Forwarded, Ends
  <2>. QED BY <1>1, <1>2, <1>5, <1>7, <2>1 DEF Books, TypeOK, Shapes
<1>9. ASSUME NEW k \in Calls PROVE QuietCall(k)
  <2>1. Same(toward["front"], toward'["front"], k) /\ Same(toward["worker"], toward'["worker"], k)
        /\ Same(toward["page"], toward'["page"], k) /\ Same(toward["back"], toward'["back"], k)
    BY <1>5 DEF Ends
  <2>2. front[k] = "open" => back[k] \in {"queued", "open"}
    BY DEF Forwarded
  <2>. QED BY <1>1, <1>6, <2>1, <2>2, SameThins DEF QuietCall
<1>. QED BY <1>1, <1>8, <1>9, QuietKeeps

\* The far end in the frame closes.
LEMMA CloseBackKeeps ==
  ASSUME WireAssumption, IInv, CloseBack
  PROVE  Kept
<1>. USE Known
<1>1. /\ UNCHANGED <<loaded, agree, offers, placed, calls, lately, heard, ends, served, sent, stops, refused>>
      /\ front' = [n \in Calls |-> IF n \in {k \in Calls : back[k] = "open"} THEN "over" ELSE front[n]]
      /\ back' = [n \in Calls |-> IF n \in {k \in Calls : back[k] = "open"} THEN "ended" ELSE back[n]]
  BY DEF CloseBack, pageVars, workerVars
<1>2. phase' \in [Ends -> {"connecting", "connected", "closed"}] /\ \A x \in Ends \ {"back"} : phase'[x] = phase[x]
  BY ShutIs DEF CloseBack, Ends
<1>3. PICK S \in SUBSET Calls : \E order \in SetToSeqs(S) :
        toward' = Posted("front", [i \in DOMAIN order |-> Msg("failed", order[i])])
  BY DEF CloseBack
<1>4. PICK msgs \in Queues : toward' = Posted("front", msgs) /\ \A k : Silent(msgs, k)
  BY <1>3, EndsPosted
<1>5. toward' \in [Ends -> Queues] /\ \A k : \A x \in Ends : Same(toward[x], toward'[x], k)
  BY <1>4, WiresPosted DEF Ends
<1>6. \A n \in Calls : \/ back[n] = "open" /\ front'[n] = "over" /\ back'[n] = "ended"
                       \/ back[n] # "open" /\ front'[n] = front[n] /\ back'[n] = back[n]
  BY <1>1
<1>7. /\ front' \in [Calls -> {"none", "open", "over"}]
      /\ back' \in [Calls -> {"idle", "queued", "open", "ended"}]
  BY <1>1
<1>8. Books'
  <2>1. Serving' /\ Forwarded'
    BY <1>1, <1>2, <1>6 DEF Serving, Forwarded, Ends
  <2>. QED BY <1>1, <1>2, <1>5, <1>7, <2>1 DEF Books, TypeOK, Shapes
<1>9. ASSUME NEW k \in Calls PROVE QuietCall(k)
  <2>1. Same(toward["front"], toward'["front"], k) /\ Same(toward["worker"], toward'["worker"], k)
        /\ Same(toward["page"], toward'["page"], k) /\ Same(toward["back"], toward'["back"], k)
    BY <1>5 DEF Ends
  <2>. QED BY <1>1, <1>6, <2>1, SameThins DEF QuietCall
<1>. QED BY <1>1, <1>8, <1>9, QuietKeeps

\* The worker closes.
LEMMA CloseWorkerKeeps ==
  ASSUME WireAssumption, IInv, CloseWorker
  PROVE  Kept
<1>. USE Known
<1>1. /\ UNCHANGED <<toward, loaded, agree, offers, placed, calls, lately, heard, ends, front, back, sent, refused>>
      /\ served' = [n \in Calls |-> IF served[n] = "open" THEN "over" ELSE served[n]]
      /\ stops' = [n \in Calls |-> IF n \in Subscriptions /\ served[n] = "open" THEN stops[n] + 1 ELSE stops[n]]
  BY DEF CloseWorker, pageVars, frameVars
<1>2. phase' \in [Ends -> {"connecting", "connected", "closed"}] /\ \A x \in Ends \ {"worker"} : phase'[x] = phase[x]
  BY ShutIs DEF CloseWorker, Ends
<1>3. stops' \in [Calls -> Nat] /\ served' \in [Calls -> {"none", "open", "over"}]
  <2>1. \A n \in Calls : stops[n] + 1 \in Nat
    OBVIOUS
  <2>. QED BY <1>1, <2>1
<1>4. Books'
  BY <1>1, <1>2, <1>3 DEF Books, TypeOK, Shapes, Serving, Forwarded, Ends
<1>5. ASSUME NEW k \in Calls PROVE QuietCall(k)
  <2>1. Same(toward["front"], toward'["front"], k) /\ Same(toward["worker"], toward'["worker"], k)
        /\ Same(toward["page"], toward'["page"], k) /\ Same(toward["back"], toward'["back"], k)
    BY <1>1, SameThins
  <2>2. served'[k] = served[k] \/ (served'[k] # "none" /\ back[k] \notin {"idle", "queued"})
    BY <1>1, ServedIs
  <2>. QED BY <1>1, <2>1, <2>2, SameThins DEF QuietCall
<1>. QED BY <1>1, <1>4, <1>5, QuietKeeps

----------------------------------------------------------------------------
(* The theorems. *)

\* The invariant holds at the start.
LEMMA InitHolds ==
  ASSUME WireAssumption, Init
  PROVE  IInv
<1>1. \A n : Stream(<<>>, n, 0, 0) /\ ~HasOpening(<<>>, n) /\ Once(<<>>, n) /\ Places(<<>>, n) = {}
  BY DEF Stream, HasOpening, Once, Places
<1>2. Books
  <2>1. TypeOK
    <3>1. /\ phase \in [Ends -> {"connecting", "connected", "closed"}] /\ loaded \in BOOLEAN
          /\ agree \in [Openers -> BOOLEAN] /\ refused \in BOOLEAN /\ lately \subseteq Calls
      BY DEF Init
    <3>2. \A o \in Openers : offers[o] \in 0 .. MaxOffers[o] /\ placed[o] \in Seq(Calls)
      BY DEF Init, WireAssumption
    <3>3. /\ calls \in [Calls -> {"idle", "queued", "open", "ended"}]
          /\ back \in [Calls -> {"idle", "queued", "open", "ended"}]
          /\ front \in [Calls -> {"none", "open", "over"}] /\ served \in [Calls -> {"none", "open", "over"}]
      BY DEF Init
    <3>4. sent \in [Calls -> 0 .. MaxValues] /\ stops \in [Calls -> Nat]
      BY DEF Init, WireAssumption
    <3>5. heard \in [Calls -> Seq(1 .. MaxValues)] /\ ends \in [Calls -> Seq(Outcomes)]
      BY DEF Init
    <3>. QED BY <3>1, <3>2, <3>3, <3>4, <3>5 DEF TypeOK
  <2>2. Shapes
    BY DEF Init, Shapes, Queues, Openers
  <2>3. Serving /\ Forwarded
    BY DEF Init, Serving, Forwarded
  <2>. QED BY <2>1, <2>2, <2>3 DEF Books
<1>3. ASSUME NEW n \in Calls PROVE Sound(n)
  <2>1. /\ toward["page"] = <<>> /\ toward["front"] = <<>> /\ toward["back"] = <<>> /\ toward["worker"] = <<>>
        /\ placed["page"] = <<>> /\ calls[n] = "idle" /\ front[n] = "none" /\ back[n] = "idle"
        /\ served[n] = "none" /\ sent[n] = 0 /\ heard[n] = <<>> /\ ends[n] = <<>>
    BY <1>3 DEF Init, Ends, Openers
  <2>2. OpensOnce(n)
    BY <1>1, <2>1 DEF OpensOnce
  <2>3. Streams(n)
    <3>1. 0 \in Upto /\ 0 <= 0 /\ Len(heard[n]) = 0
      BY <2>1 DEF Upto, WireAssumption
    <3>. QED BY <1>1, <2>1, <3>1 DEF Streams
  <2>4. Hearing(n)
    BY <2>1 DEF Hearing
  <2>. QED BY <2>2, <2>3, <2>4 DEF Sound
<1>. QED BY <1>2, <1>3 DEF IInv

\* Every action keeps it.
LEMMA NextKeeps ==
  ASSUME WireAssumption, IInv, Next
  PROVE  Kept
<1>1. CASE Deliver
  BY <1>1, HearOfferKeeps, HearAnswerKeeps, HearPageKeeps, HearOpeningKeeps, HearStopKeeps, HearBackKeeps,
     ServeKeeps, ServeStopKeeps DEF Deliver
<1>2. CASE Load \/ FlushPage \/ FlushBack \/ \E o \in Openers : Offer(o)
  BY <1>2, LoadKeeps, FlushPageKeeps, FlushBackKeeps, OfferKeeps
<1>3. CASE \E n \in Calls : Call(n) \/ (\E aborts \in BOOLEAN : Leave(n, aborts))
  BY <1>3, CallKeeps, LeaveKeeps
<1>4. CASE \E n \in Requests : \E leg \in {"response", "failed"} : Answer(n, leg)
  BY <1>4, AnswerKeeps
<1>5. CASE \E n \in Subscriptions : SendValue(n) \/ (\E leg \in {"interrupt", "failed"} : EndServed(n, leg))
  BY <1>5, SendValueKeeps, EndServedKeeps
<1>6. CASE ClosePage \/ CloseFront \/ CloseBack \/ CloseWorker
  BY <1>6, ClosePageKeeps, CloseFrontKeeps, CloseBackKeeps, CloseWorkerKeeps
<1>. QED BY <1>1, <1>2, <1>3, <1>4, <1>5, <1>6 DEF Next

\* Every step keeps it.
LEMMA StepKeeps ==
  ASSUME WireAssumption, IInv, [Next]_vars
  PROVE  Kept
<1>1. CASE Next
  BY <1>1, NextKeeps
<1>2. CASE UNCHANGED vars
  <2>1. UNCHANGED <<phase, toward, loaded, agree, offers, placed, calls, lately, front, back, served, sent, stops, heard,
                    ends, refused>>
    BY <1>2 DEF vars
  <2>2. Books'
    BY <2>1, Known DEF Books, TypeOK, Shapes, Serving, Forwarded
  <2>3. ASSUME NEW n \in Calls PROVE QuietCall(n)
    BY <2>1, SameThins, WiresOnly
  <2>. QED BY <2>1, <2>2, <2>3, QuietKeeps
<1>. QED BY <1>1, <1>2

\* It holds throughout.
LEMMA Invariance ==
  ASSUME WireAssumption
  PROVE  Spec => []IInv
<1>1. IInv /\ [Next]_vars => IInv'
  BY StepKeeps DEF Kept
<1>. QED BY <1>1, InitHolds, PTL DEF Spec

\* Whatever crosses on the two links, the page hears what the worker sent on a call, in order and
\* without a gap, and then one end at the most (finish, leave, forwardSubscription).
THEOREM CallsAreHeardInOrder ==
  ASSUME WireAssumption
  PROVE  Spec => []HeardInOrder
<1>1. IInv => HeardInOrder
  BY Known DEF HeardInOrder, Hearing
<1>. QED BY <1>1, Invariance, PTL

\* The two ways to say that an opening is on its way.
LEMMA OpeningsAre ==
  ASSUME WireAssumption, NEW q \in Queues, NEW n \in Calls
  PROVE  HasOpening(q, n) <=> \E i \in DOMAIN q : q[i].leg = Opening(n) /\ q[i].call = n
<1>1. \A i \in DOMAIN q : q[i] \in Message
  BY DEF Queues
<1>2. ASSUME NEW m \in Message PROVE Opens(m, n) <=> m.leg = Opening(n) /\ m.call = n
  BY DEF Message, Opens, Opening, WireAssumption, Calls, Openers
<1>. QED BY <1>1, <1>2 DEF HasOpening

\* What a step does to the calls that ended.
Hushed ==
  \A n \in Calls :
    /\ calls[n] = "ended" => calls'[n] = "ended" /\ heard'[n] = heard[n] /\ ends'[n] = ends[n]
    /\ calls[n] = "ended" /\ ~InTransit("front", Opening(n), n) => ~InTransit("front", Opening(n), n)'
    /\ front[n] = "over" /\ ~InTransit("worker", Opening(n), n) => ~InTransit("worker", Opening(n), n)'

\* A call that ended hears nothing more, and one that ended while it waited for a handshake, the
\* page's or the frame's, is never sent (leave, finish, postOpening, forget).
THEOREM EndedCallsAreQuiet ==
  ASSUME WireAssumption
  PROVE  Spec => EndedIsQuiet
<1>1. ASSUME IInv, [Next]_vars, NEW n \in Calls
      PROVE  /\ calls[n] = "ended" => calls'[n] = "ended" /\ heard'[n] = heard[n] /\ ends'[n] = ends[n]
             /\ calls[n] = "ended" /\ ~InTransit("front", Opening(n), n) => ~InTransit("front", Opening(n), n)'
             /\ front[n] = "over" /\ ~InTransit("worker", Opening(n), n) => ~InTransit("worker", Opening(n), n)'
  <2>1. Settled(n) /\ IInv'
    BY <1>1, StepKeeps DEF Kept
  <2>2. /\ toward["front"] \in Queues /\ toward["worker"] \in Queues
        /\ toward'["front"] \in Queues /\ toward'["worker"] \in Queues
    BY <1>1, <2>1 DEF IInv, Books, Shapes, Ends
  <2>3. /\ HasOpening(toward["front"], n) <=> InTransit("front", Opening(n), n)
        /\ HasOpening(toward["worker"], n) <=> InTransit("worker", Opening(n), n)
    BY <2>2, OpeningsAre DEF InTransit
  <2>4. /\ HasOpening(toward'["front"], n) <=> InTransit("front", Opening(n), n)'
        /\ HasOpening(toward'["worker"], n) <=> InTransit("worker", Opening(n), n)'
    BY <2>2, OpeningsAre DEF InTransit
  <2>. QED BY <2>1, <2>3, <2>4 DEF Settled
<1>2. IInv /\ [Next]_vars => [Hushed]_vars
  BY <1>1 DEF Hushed
<1>3. Hushed <=> \A n \in Calls :
        /\ calls[n] = "ended" => calls'[n] = "ended" /\ heard'[n] = heard[n] /\ ends'[n] = ends[n]
        /\ calls[n] = "ended" /\ ~InTransit("front", Opening(n), n) => ~InTransit("front", Opening(n), n)'
        /\ front[n] = "over" /\ ~InTransit("worker", Opening(n), n) => ~InTransit("worker", Opening(n), n)'
  BY DEF Hushed
<1>. QED BY <1>2, <1>3, Invariance, PTL DEF Spec, EndedIsQuiet

----------------------------------------------------------------------------
(* What is refused, and what is stopped.                                    *)
(*                                                                          *)
(* A second invariant, on top of the first, says why no end hears what it   *)
(* refuses: an end is asked only once its handshake is over (Links), and    *)
(* the page remembers a call as long as there may be an answer to it        *)
(* (Answered).  And it says where the stop of a call that ended is          *)
(* (Stopped): on its way to the frame behind the opening, at the frame, on  *)
(* its way to the worker behind the opening, or nowhere since the call      *)
(* never gets there.                                                        *)

Asks == {"request", "start", "stop"}
HasLeg(q, legs) == \E i \in DOMAIN q : q[i].leg \in legs

Stops(m, n) == m.leg = "stop" /\ m.call = n
Final(m, n) == m.leg \in {"response", "interrupt", "failed"} /\ m.call = n
Answers(m, n) == Final(m, n) \/ Carries(m, n)

HasStop(q, n) == \E i \in DOMAIN q : Stops(q[i], n)
HasFinal(q, n) == \E i \in DOMAIN q : Final(q[i], n)
HasAnswer(q, n) == \E i \in DOMAIN q : Answers(q[i], n)

\* A stop of call n is in the queue, behind every opening of it.
StopAfter(q, n) == \E i \in DOMAIN q : Stops(q[i], n) /\ \A j \in DOMAIN q : Opens(q[j], n) => j < i

\* What ends call n is the last there is on it.
FinalIsLast(q, n) == \A i, j \in DOMAIN q : Final(q[i], n) /\ Answers(q[j], n) => j <= i

\* An end whose handshake is not over is asked nothing, and a call is open on a link that is.
Links ==
  /\ ~refused
  /\ ~loaded => toward["front"] = <<>> /\ phase["front"] = "connecting"
  /\ \A a \in {"front", "worker"} : phase[a] = "connecting" =>
       /\ phase[Peer(a)] # "connected" /\ ~HasLeg(toward[Peer(a)], {"welcome"})
       /\ ~HasLeg(toward[a], Asks)
  /\ \A n \in Calls : /\ calls[n] = "open" => phase["page"] = "connected"
                      /\ back[n] = "open" => phase["back"] = "connected"

\* A message on call n is not refused by the page.
Remembered(n) == calls[n] = "open" \/ n \in lately \/ phase["page"] = "closed"

Answered(n) ==
  /\ HasAnswer(toward["page"], n) \/ HasOpening(toward["front"], n) \/ front[n] = "open" => Remembered(n)
  /\ HasFinal(toward["page"], n) => front[n] = "over" /\ (served[n] = "over" \/ phase["back"] = "closed")
  /\ FinalIsLast(toward["page"], n)
  /\ HasFinal(toward["back"], n) => served[n] = "over"

\* The worker serves a call once.
ServedOnce(n) ==
  /\ HasOpening(toward["worker"], n) => served[n] = "none"
  /\ Once(toward["worker"], n)
  /\ n \in Subscriptions => stops[n] \in 0 .. 1 /\ (stops[n] = 1 => served[n] = "over")

\* The worker is to be told, or never hears of the call.
Told(n) == StopAfter(toward["worker"], n) \/ (~HasOpening(toward["worker"], n) /\ served[n] = "none")

Stopped(n) ==
  n \in Subscriptions =>
    /\ front[n] = "over" => phase["back"] = "closed" \/ served[n] = "over" \/ Told(n)
    /\ calls[n] = "ended" => \/ phase["page"] = "closed" \/ phase["back"] = "closed" \/ served[n] = "over"
                             \/ StopAfter(toward["front"], n)
                             \/ (front[n] # "open" /\ ~HasOpening(toward["front"], n))

Bond(n) == Answered(n) /\ ServedOnce(n) /\ Stopped(n)
AgreeInv == Links /\ \A n \in Calls : Bond(n)

\* A message is of one kind.
LEMMA KindsApart ==
  ASSUME NEW m, NEW n
  PROVE  /\ Opens(m, n) => ~Stops(m, n) /\ ~Answers(m, n) /\ ~Final(m, n)
         /\ Stops(m, n) => ~Answers(m, n) /\ ~Final(m, n)
         /\ Final(m, n) => Answers(m, n)
         /\ m.leg \in {"offer", "welcome", "mismatch"} \/ m.call # n => ~Opens(m, n) /\ ~Stops(m, n) /\ ~Answers(m, n) /\ ~Final(m, n)
  BY DEF Opens, Stops, Answers, Final, Carries

\* What the first message leaves behind it.
LEMMA TailBonds ==
  ASSUME NEW q \in Queues, q # <<>>, NEW n
  PROVE  /\ HasOpening(Tail(q), n) => HasOpening(q, n)
         /\ HasOpening(q, n) => HasOpening(Tail(q), n) \/ Opens(Head(q), n)
         /\ Once(q, n) => Once(Tail(q), n) /\ (Opens(Head(q), n) => ~HasOpening(Tail(q), n))
         /\ HasFinal(Tail(q), n) => HasFinal(q, n)
         /\ HasAnswer(Tail(q), n) => HasAnswer(q, n)
         /\ FinalIsLast(q, n) => FinalIsLast(Tail(q), n) /\ (Final(Head(q), n) => ~HasAnswer(Tail(q), n))
         /\ StopAfter(q, n) => StopAfter(Tail(q), n) \/ (Stops(Head(q), n) /\ ~HasOpening(q, n))
         /\ \A legs : HasLeg(Tail(q), legs) => HasLeg(q, legs)
<1>. DEFINE t == Tail(q)
<1>1. /\ DOMAIN t = 1 .. Len(q) - 1 /\ DOMAIN q = 1 .. Len(q) /\ Len(q) \in Nat \ {0} /\ 1 \in DOMAIN q
      /\ Head(q) = q[1]
      /\ \A i \in DOMAIN t : i + 1 \in DOMAIN q /\ t[i] = q[i + 1]
      /\ \A i \in DOMAIN q : i # 1 => i - 1 \in DOMAIN t /\ t[i - 1] = q[i]
  BY TailIs DEF Queues
<1>. HIDE DEF t
<1>2. HasOpening(q, n) => HasOpening(t, n) \/ Opens(Head(q), n)
  BY <1>1 DEF HasOpening
<1>3. (HasFinal(t, n) => HasFinal(q, n)) /\ (HasAnswer(t, n) => HasAnswer(q, n))
  BY <1>1 DEF HasFinal, HasAnswer
<1>4. ASSUME NEW legs, HasLeg(t, legs) PROVE HasLeg(q, legs)
  BY <1>1, <1>4 DEF HasLeg
<1>5. ASSUME FinalIsLast(q, n), NEW i \in DOMAIN t, NEW j \in DOMAIN t, Final(t[i], n), Answers(t[j], n) PROVE j <= i
  <2>1. i + 1 \in DOMAIN q /\ j + 1 \in DOMAIN q /\ t[i] = q[i + 1] /\ t[j] = q[j + 1] /\ i \in Nat /\ j \in Nat
    BY <1>1
  <2>2. j + 1 <= i + 1
    BY <1>5, <2>1 DEF FinalIsLast
  <2>. QED BY <2>1, <2>2
<1>6. ASSUME FinalIsLast(q, n), Final(Head(q), n), NEW j \in DOMAIN t, Answers(t[j], n) PROVE FALSE
  <2>1. j + 1 \in DOMAIN q /\ t[j] = q[j + 1] /\ j \in Nat \ {0}
    BY <1>1
  <2>2. j + 1 <= 1
    BY <1>1, <1>6, <2>1 DEF FinalIsLast
  <2>. QED BY <2>1, <2>2
<1>7. ASSUME StopAfter(q, n) PROVE StopAfter(t, n) \/ (Stops(Head(q), n) /\ ~HasOpening(q, n))
  <2>1. PICK i \in DOMAIN q : Stops(q[i], n) /\ \A j \in DOMAIN q : Opens(q[j], n) => j < i
    BY <1>7 DEF StopAfter
  <2>2. CASE i = 1
    BY <1>1, <2>1, <2>2 DEF HasOpening
  <2>3. CASE i # 1
    <3>1. i - 1 \in DOMAIN t /\ t[i - 1] = q[i]
      BY <1>1, <2>3
    <3>2. ASSUME NEW j \in DOMAIN t, Opens(t[j], n) PROVE j < i - 1
      <4>1. j + 1 \in DOMAIN q /\ t[j] = q[j + 1] /\ j \in Nat /\ i \in Nat
        BY <1>1
      <4>2. j + 1 < i
        BY <2>1, <3>2, <4>1
      <4>. QED BY <4>1, <4>2
    <3>. QED BY <2>1, <3>1, <3>2 DEF StopAfter
  <2>. QED BY <2>2, <2>3
<1>8. FinalIsLast(q, n) => FinalIsLast(t, n) /\ (Final(Head(q), n) => ~HasAnswer(t, n))
  BY <1>5, <1>6 DEF FinalIsLast, HasAnswer
<1>. QED BY <1>2, <1>3, <1>4, <1>7, <1>8, TailOpens DEF t

\* What comes behind what is there.
LEMMA MoreBonds ==
  ASSUME NEW q \in Queues, NEW ext \in Queues, NEW n
  PROVE  /\ HasOpening(q \o ext, n) <=> HasOpening(q, n) \/ HasOpening(ext, n)
         /\ Once(q, n) /\ ~HasOpening(ext, n) => Once(q \o ext, n)
         /\ ~HasOpening(q, n) /\ Once(ext, n) => Once(q \o ext, n)
         /\ HasFinal(q \o ext, n) <=> HasFinal(q, n) \/ HasFinal(ext, n)
         /\ HasAnswer(q \o ext, n) <=> HasAnswer(q, n) \/ HasAnswer(ext, n)
         /\ FinalIsLast(q, n) /\ ~HasAnswer(ext, n) => FinalIsLast(q \o ext, n)
         /\ ~HasFinal(q, n) /\ FinalIsLast(ext, n) => FinalIsLast(q \o ext, n)
         /\ StopAfter(q, n) /\ ~HasOpening(ext, n) => StopAfter(q \o ext, n)
         /\ HasStop(ext, n) /\ ~HasOpening(ext, n) => StopAfter(q \o ext, n)
         /\ \A legs : HasLeg(q \o ext, legs) => HasLeg(q, legs) \/ HasLeg(ext, legs)
<1>. DEFINE t == q \o ext
<1>1. /\ DOMAIN q = 1 .. Len(q) /\ DOMAIN ext = 1 .. Len(ext) /\ Len(q) \in Nat /\ Len(ext) \in Nat
      /\ DOMAIN t = 1 .. Len(q) + Len(ext)
      /\ \A i \in DOMAIN q : i \in DOMAIN t /\ t[i] = q[i]
      /\ \A i \in DOMAIN ext : Len(q) + i \in DOMAIN t /\ t[Len(q) + i] = ext[i]
      /\ \A i \in DOMAIN t : i \in DOMAIN q \/ (i > Len(q) /\ i - Len(q) \in DOMAIN ext /\ t[i] = ext[i - Len(q)])
  BY ConcatIs DEF Queues
<1>. HIDE DEF t
<1>2. /\ HasOpening(t, n) <=> HasOpening(q, n) \/ HasOpening(ext, n)
      /\ HasFinal(t, n) <=> HasFinal(q, n) \/ HasFinal(ext, n)
      /\ HasAnswer(t, n) <=> HasAnswer(q, n) \/ HasAnswer(ext, n)
  BY <1>1 DEF HasOpening, HasFinal, HasAnswer
<1>3. ASSUME NEW legs PROVE HasLeg(t, legs) => HasLeg(q, legs) \/ HasLeg(ext, legs)
  BY <1>1 DEF HasLeg
<1>4. Once(q, n) /\ ~HasOpening(ext, n) => Once(t, n)
  BY <1>1 DEF Once, HasOpening
<1>5. ASSUME ~HasOpening(q, n), Once(ext, n), NEW i \in DOMAIN t, NEW j \in DOMAIN t, Opens(t[i], n), Opens(t[j], n) PROVE i = j
  <2>1. /\ i \in Nat /\ j \in Nat /\ i - Len(q) \in DOMAIN ext /\ j - Len(q) \in DOMAIN ext
        /\ t[i] = ext[i - Len(q)] /\ t[j] = ext[j - Len(q)]
    BY <1>1, <1>5 DEF HasOpening
  <2>2. i - Len(q) = j - Len(q)
    BY <1>5, <2>1 DEF Once
  <2>. QED BY <1>1, <2>1, <2>2
<1>6. FinalIsLast(q, n) /\ ~HasAnswer(ext, n) => FinalIsLast(t, n)
  <2>1. SUFFICES ASSUME FinalIsLast(q, n), ~HasAnswer(ext, n), NEW i \in DOMAIN t, NEW j \in DOMAIN t, Final(t[i], n), Answers(t[j], n)
                 PROVE  j <= i
    BY DEF FinalIsLast
  <2>2. \A k \in DOMAIN ext : ~Answers(ext[k], n) /\ ~Final(ext[k], n)
    BY <2>1, KindsApart DEF HasAnswer
  <2>3. i \in DOMAIN q /\ j \in DOMAIN q /\ t[i] = q[i] /\ t[j] = q[j]
    BY <1>1, <2>1, <2>2
  <2>. QED BY <2>1, <2>3 DEF FinalIsLast
<1>7. ~HasFinal(q, n) /\ FinalIsLast(ext, n) => FinalIsLast(t, n)
  <2>1. SUFFICES ASSUME ~HasFinal(q, n), FinalIsLast(ext, n), NEW i \in DOMAIN t, NEW j \in DOMAIN t, Final(t[i], n), Answers(t[j], n)
                 PROVE  j <= i
    BY DEF FinalIsLast
  <2>2. i \in Nat /\ i > Len(q) /\ i - Len(q) \in DOMAIN ext /\ t[i] = ext[i - Len(q)]
    BY <1>1, <2>1 DEF HasFinal
  <2>3. CASE j \in DOMAIN q
    BY <1>1, <2>2, <2>3
  <2>4. CASE j \notin DOMAIN q
    <3>1. j \in Nat /\ j - Len(q) \in DOMAIN ext /\ t[j] = ext[j - Len(q)]
      BY <1>1, <2>4
    <3>2. j - Len(q) <= i - Len(q)
      BY <2>1, <2>2, <3>1 DEF FinalIsLast
    <3>. QED BY <1>1, <2>2, <3>1, <3>2
  <2>. QED BY <2>3, <2>4
<1>8. ASSUME StopAfter(q, n), ~HasOpening(ext, n) PROVE StopAfter(t, n)
  <2>1. PICK i \in DOMAIN q : Stops(q[i], n) /\ \A j \in DOMAIN q : Opens(q[j], n) => j < i
    BY <1>8 DEF StopAfter
  <2>2. i \in DOMAIN t /\ t[i] = q[i]
    BY <1>1
  <2>3. \A j \in DOMAIN t : Opens(t[j], n) => j \in DOMAIN q /\ t[j] = q[j]
    BY <1>1, <1>8 DEF HasOpening
  <2>. QED BY <2>1, <2>2, <2>3 DEF StopAfter
<1>9. ASSUME HasStop(ext, n), ~HasOpening(ext, n) PROVE StopAfter(t, n)
  <2>1. PICK i \in DOMAIN ext : Stops(ext[i], n)
    BY <1>9 DEF HasStop
  <2>2. Len(q) + i \in DOMAIN t /\ t[Len(q) + i] = ext[i] /\ i \in Nat \ {0}
    BY <1>1
  <2>3. \A j \in DOMAIN t : Opens(t[j], n) => j \in DOMAIN q
    BY <1>1, <1>9 DEF HasOpening
  <2>4. \A j \in DOMAIN q : j < Len(q) + i
    BY <1>1, <2>2
  <2>. QED BY <2>1, <2>2, <2>3, <2>4 DEF StopAfter
<1>10. ~HasOpening(q, n) /\ Once(ext, n) => Once(t, n)
  BY <1>5 DEF Once
<1>. QED BY <1>2, <1>3, <1>4, <1>6, <1>7, <1>8, <1>9, <1>10 DEF t

----------------------------------------------------------------------------
(* What a step does to the wires. *)

\* The first message to e is heard, and msgs are on their way to w.
Flow(e, w, msgs) ==
  /\ e # w /\ msgs \in Queues /\ toward' \in [Ends -> Queues]
  /\ \A x \in Ends \ {e, w} : toward'[x] = toward[x]
  /\ e \in Ends => toward[e] # <<>> /\ toward'[e] = Tail(toward[e])
  /\ w \in Ends => toward'[w] = toward[w] \o msgs

\* A name for no end.
LEMMA NobodyIs == "none" \notin Ends
  BY DEF Ends

\* An end posts.
LEMMA FlowPosted ==
  ASSUME IInv, NEW e \in Ends, NEW msgs \in Queues, toward' = Posted(e, msgs)
  PROVE  Flow("none", Peer(e), Posts(e, msgs))
<1>1. toward \in [Ends -> Queues] /\ Posts(e, msgs) \in Queues /\ Peer(e) \in Ends
  BY Known, PostsIs, Peers
<1>2. toward' \in [Ends -> Queues]
  BY <1>1, WiresPosted
<1>3. toward'[Peer(e)] = toward[Peer(e)] \o Posts(e, msgs) /\ \A x \in Ends \ {Peer(e)} : toward'[x] = toward[x]
  BY <1>1 DEF Posted
<1>. QED BY <1>1, <1>2, <1>3, NobodyIs DEF Flow

\* An end hears.
LEMMA FlowConsumed ==
  ASSUME WireAssumption, IInv, NEW e \in Ends, toward[e] # <<>>, toward' = Consumed(e)
  PROVE  Flow(e, "none", <<>>)
<1>1. toward \in [Ends -> Queues] /\ <<>> \in Queues
  BY Known, SilentIs
<1>2. toward' \in [Ends -> Queues] /\ toward'[e] = Tail(toward[e])
  BY <1>1, WiresConsumed
<1>3. \A x \in Ends \ {e} : toward'[x] = toward[x]
  BY <1>1 DEF Consumed
<1>. QED BY <1>1, <1>2, <1>3, NobodyIs DEF Flow

\* An end hears, and one posts on its other link, or in reply.
LEMMA FlowHeard ==
  ASSUME WireAssumption, IInv, NEW e \in Ends, NEW by \in Ends, Peer(by) # e, NEW msgs \in Queues, toward[e] # <<>>,
         toward' = HeardAndPosted(e, by, msgs)
  PROVE  Flow(e, Peer(by), Posts(by, msgs))
<1>1. toward \in [Ends -> Queues] /\ Posts(by, msgs) \in Queues /\ Peer(by) \in Ends
  BY Known, PostsIs, Peers
<1>2. Tail(toward[e]) \in Queues /\ toward[Peer(by)] \o Posts(by, msgs) \in Queues
  BY <1>1, TailIs, ConcatIs DEF Queues
<1>3. /\ toward' \in [Ends -> Queues] /\ toward'[e] = Tail(toward[e])
      /\ toward'[Peer(by)] = toward[Peer(by)] \o Posts(by, msgs)
      /\ \A x \in Ends \ {e, Peer(by)} : toward'[x] = toward[x]
  BY <1>1, <1>2 DEF HeardAndPosted
<1>. QED BY <1>1, <1>3 DEF Flow

\* A post that is lost leaves nothing, and one that is not leaves what was posted.
LEMMA PostsNone ==
  ASSUME NEW e, NEW msgs
  PROVE  Posts(e, msgs) = <<>> \/ Posts(e, msgs) = msgs
  BY DEF Posts

\* A step that sends nothing and hears nothing.
LEMMA FlowNothing ==
  ASSUME IInv, toward' = toward
  PROVE  Flow("none", "nobody", <<>>)
<1>1. toward \in [Ends -> Queues] /\ <<>> \in Queues /\ "none" \notin Ends /\ "nobody" \notin Ends
  BY Known, SilentIs DEF Ends
<1>. QED BY <1>1 DEF Flow

\* The kinds of messages that are new on a wire.
LEMMA FlowLegs ==
  ASSUME IInv, NEW e, NEW w, NEW msgs, Flow(e, w, msgs), NEW x \in Ends, NEW legs, HasLeg(toward'[x], legs)
  PROVE  HasLeg(toward[x], legs) \/ (x = w /\ HasLeg(msgs, legs))
<1>1. toward[x] \in Queues /\ msgs \in Queues
  BY Known DEF Flow
<1>2. CASE x = e
  <2>1. toward'[x] = Tail(toward[x]) /\ toward[x] # <<>>
    BY <1>2 DEF Flow
  <2>. QED BY <1>1, <2>1, TailBonds
<1>3. CASE x = w
  <2>1. toward'[x] = toward[x] \o msgs
    BY <1>3 DEF Flow
  <2>. QED BY <1>1, <1>3, <2>1, MoreBonds
<1>4. CASE x # e /\ x # w
  BY <1>4 DEF Flow
<1>. QED BY <1>2, <1>3, <1>4

\* Nothing happens to call n on the wires but that a message of it may be heard at the page or the frame.
Still(n) ==
  /\ HasFinal(toward'["back"], n) => HasFinal(toward["back"], n)
  /\ HasFinal(toward'["page"], n) => HasFinal(toward["page"], n)
  /\ HasAnswer(toward'["page"], n) => HasAnswer(toward["page"], n)
  /\ FinalIsLast(toward["page"], n) => FinalIsLast(toward'["page"], n)
  /\ HasOpening(toward'["front"], n) <=> HasOpening(toward["front"], n)
  /\ StopAfter(toward["front"], n) => StopAfter(toward'["front"], n)
  /\ HasOpening(toward'["worker"], n) <=> HasOpening(toward["worker"], n)
  /\ Once(toward["worker"], n) => Once(toward'["worker"], n)
  /\ StopAfter(toward["worker"], n) => StopAfter(toward'["worker"], n)

\* The messages that are new to each end say nothing of call n that the end goes by.
Spares(w, msgs, n) ==
  /\ w = "page" => ~HasAnswer(msgs, n)
  /\ w = "back" => ~HasFinal(msgs, n)
  /\ w \in {"front", "worker"} => ~HasOpening(msgs, n)

\* What spares a call leaves it still.
LEMMA FlowStill ==
  ASSUME IInv, NEW e, NEW w, NEW msgs, Flow(e, w, msgs), NEW n, Spares(w, msgs, n),
         e \in {"front", "worker"} => ~Opens(Head(toward[e]), n) /\ ~Stops(Head(toward[e]), n)
  PROVE  Still(n)
<1>1. /\ toward["page"] \in Queues /\ toward["back"] \in Queues /\ toward["front"] \in Queues /\ toward["worker"] \in Queues
      /\ msgs \in Queues
      /\ "page" \in Ends /\ "back" \in Ends /\ "front" \in Ends /\ "worker" \in Ends
  BY Known DEF Flow, Ends
<1>2. HasFinal(msgs, n) => HasAnswer(msgs, n)
  BY KindsApart DEF HasFinal, HasAnswer
<1>3. HasFinal(toward'["back"], n) => HasFinal(toward["back"], n)
  <2>1. CASE e = "back"
    <3>1. toward'["back"] = Tail(toward["back"]) /\ toward["back"] # <<>>
      BY <1>1, <2>1 DEF Flow
    <3>. QED BY <1>1, <3>1, TailBonds
  <2>2. CASE w = "back"
    <3>1. toward'["back"] = toward["back"] \o msgs /\ ~HasFinal(msgs, n)
      BY <1>1, <2>2 DEF Flow, Spares
    <3>. QED BY <1>1, <3>1, MoreBonds
  <2>3. CASE e # "back" /\ w # "back"
    BY <1>1, <2>3 DEF Flow
  <2>. QED BY <2>1, <2>2, <2>3
<1>4. /\ HasFinal(toward'["page"], n) => HasFinal(toward["page"], n)
      /\ HasAnswer(toward'["page"], n) => HasAnswer(toward["page"], n)
      /\ FinalIsLast(toward["page"], n) => FinalIsLast(toward'["page"], n)
  <2>1. CASE e = "page"
    <3>1. toward'["page"] = Tail(toward["page"]) /\ toward["page"] # <<>>
      BY <1>1, <2>1 DEF Flow
    <3>. QED BY <1>1, <3>1, TailBonds
  <2>2. CASE w = "page"
    <3>1. toward'["page"] = toward["page"] \o msgs /\ ~HasAnswer(msgs, n)
      BY <1>1, <2>2 DEF Flow, Spares
    <3>. QED BY <1>1, <1>2, <3>1, MoreBonds
  <2>3. CASE e # "page" /\ w # "page"
    BY <1>1, <2>3 DEF Flow
  <2>. QED BY <2>1, <2>2, <2>3
<1>5. ASSUME NEW x \in {"front", "worker"}
      PROVE  /\ HasOpening(toward'[x], n) <=> HasOpening(toward[x], n)
             /\ Once(toward[x], n) => Once(toward'[x], n)
             /\ StopAfter(toward[x], n) => StopAfter(toward'[x], n)
  <2>1. x \in Ends /\ toward[x] \in Queues
    BY <1>1
  <2>2. CASE e = x
    <3>1. toward'[x] = Tail(toward[x]) /\ toward[x] # <<>> /\ ~Opens(Head(toward[x]), n) /\ ~Stops(Head(toward[x]), n)
      BY <2>1, <2>2 DEF Flow
    <3>. QED BY <2>1, <3>1, TailBonds
  <2>3. CASE w = x
    <3>1. toward'[x] = toward[x] \o msgs /\ ~HasOpening(msgs, n)
      BY <2>1, <2>3 DEF Flow, Spares
    <3>. QED BY <1>1, <2>1, <3>1, MoreBonds
  <2>4. CASE e # x /\ w # x
    BY <2>1, <2>4 DEF Flow
  <2>. QED BY <2>2, <2>3, <2>4
<1>. QED BY <1>3, <1>4, <1>5 DEF Still

\* What one message leaves unsaid.
LEMMA SparesOne ==
  ASSUME NEW w, NEW m, NEW n
  PROVE  /\ Spares(w, <<>>, n)
         /\ (w = "page" => ~Answers(m, n)) /\ (w = "back" => ~Final(m, n)) /\ (w \in {"front", "worker"} => ~Opens(m, n))
              => Spares(w, <<m>>, n)
         /\ m.leg \in {"offer", "welcome", "mismatch"} \/ m.call # n => Spares(w, <<m>>, n)
<1>1. DOMAIN <<>> = {} /\ DOMAIN <<m>> = {1} /\ <<m>>[1] = m
  OBVIOUS
<1>2. /\ HasAnswer(<<m>>, n) <=> Answers(m, n)
      /\ HasFinal(<<m>>, n) <=> Final(m, n)
      /\ HasOpening(<<m>>, n) <=> Opens(m, n)
  BY <1>1 DEF HasAnswer, HasFinal, HasOpening
<1>3. ~HasAnswer(<<>>, n) /\ ~HasFinal(<<>>, n) /\ ~HasOpening(<<>>, n)
  BY <1>1 DEF HasAnswer, HasFinal, HasOpening
<1>. QED BY <1>2, <1>3, KindsApart DEF Spares

\* The kinds of one message.
LEMMA LegsOne ==
  ASSUME NEW m, NEW legs
  PROVE  ~HasLeg(<<>>, legs) /\ (HasLeg(<<m>>, legs) <=> m.leg \in legs)
<1>1. DOMAIN <<>> = {} /\ DOMAIN <<m>> = {1} /\ <<m>>[1] = m
  OBVIOUS
<1>. QED BY <1>1 DEF HasLeg

\* A call nothing happens to.
Rests(n) ==
  /\ Still(n)
  /\ calls'[n] = calls[n] /\ front'[n] = front[n] /\ served'[n] = served[n] /\ stops'[n] = stops[n]
  /\ n \in lately => n \in lately'
  /\ \A e \in {"page", "back"} : phase[e] = "closed" => phase'[e] = "closed"

\* A call nothing happens to keeps what the invariant says of it.
LEMMA RestsKeeps ==
  ASSUME NEW n, Bond(n), Rests(n)
  PROVE  Bond(n)'
<1>1. /\ calls'[n] = calls[n] /\ front'[n] = front[n] /\ served'[n] = served[n] /\ stops'[n] = stops[n]
      /\ n \in lately => n \in lately'
      /\ phase["page"] = "closed" => phase'["page"] = "closed"
      /\ phase["back"] = "closed" => phase'["back"] = "closed"
  BY DEF Rests
<1>2. Answered(n)'
  BY <1>1 DEF Bond, Answered, Remembered, Rests, Still
<1>3. ServedOnce(n)'
  BY <1>1 DEF Bond, ServedOnce, Rests, Still
<1>4. Stopped(n)'
  BY <1>1 DEF Bond, Stopped, Told, Rests, Still
<1>. QED BY <1>2, <1>3, <1>4 DEF Bond

\* The links, as long as nothing is asked of an end whose handshake is not over.
LEMMA LinksKeep ==
  ASSUME Links, ~refused',
         ~loaded' => ~loaded /\ toward'["front"] = toward["front"] /\ phase'["front"] = phase["front"],
         \A n \in Calls : /\ calls'[n] = "open" => phase'["page"] = "connected"
                          /\ back'[n] = "open" => phase'["back"] = "connected",
         \A a \in {"front", "worker"} : phase'[a] = "connecting" =>
           /\ phase[a] = "connecting"
           /\ phase'[Peer(a)] = "connected" => phase[Peer(a)] = "connected" \/ HasLeg(toward[Peer(a)], {"welcome"})
           /\ HasLeg(toward'[Peer(a)], {"welcome"}) => HasLeg(toward[Peer(a)], {"welcome"})
           /\ HasLeg(toward'[a], Asks) => HasLeg(toward[a], Asks) \/ phase[Peer(a)] = "connected"
  PROVE  Links'
  BY DEF Links

\* A step in which no handshake moves.
LEMMA LinksStay ==
  ASSUME IInv, Links, NEW e, NEW w, NEW msgs, Flow(e, w, msgs), ~refused', loaded' = loaded, phase' = phase,
         \A n \in Calls : /\ calls'[n] = "open" => calls[n] = "open" \/ phase["page"] = "connected"
                          /\ back'[n] = "open" => back[n] = "open" \/ phase["back"] = "connected",
         ~HasLeg(msgs, {"welcome"}),
         w \in {"front", "worker"} /\ HasLeg(msgs, Asks) => phase[Peer(w)] = "connected",
         ~loaded => w # "front" \/ msgs = <<>>
  PROVE  Links'
<1>1. /\ "page" \in Ends /\ "back" \in Ends /\ "front" \in Ends /\ "worker" \in Ends
      /\ toward["front"] \in Queues
  BY Known DEF Ends
<1>2. ~loaded => toward'["front"] = toward["front"]
  <2>1. SUFFICES ASSUME ~loaded
                 PROVE  toward'["front"] = toward["front"]
    OBVIOUS
  <2>2. toward["front"] = <<>> /\ e # "front"
    BY <1>1, <2>1 DEF Links, Flow
  <2>3. CASE w = "front"
    <3>1. toward'["front"] = <<>> \o <<>>
      BY <1>1, <2>1, <2>2, <2>3 DEF Flow
    <3>. QED BY <2>2, <3>1
  <2>4. CASE w # "front"
    BY <1>1, <2>2, <2>4 DEF Flow
  <2>. QED BY <2>3, <2>4
<1>3. \A n \in Calls : /\ calls'[n] = "open" => phase'["page"] = "connected"
                       /\ back'[n] = "open" => phase'["back"] = "connected"
  BY DEF Links
<1>4. ASSUME NEW a \in {"front", "worker"}, phase'[a] = "connecting"
      PROVE  /\ HasLeg(toward'[Peer(a)], {"welcome"}) => HasLeg(toward[Peer(a)], {"welcome"})
             /\ HasLeg(toward'[a], Asks) => HasLeg(toward[a], Asks) \/ phase[Peer(a)] = "connected"
  BY <1>1, Peers, FlowLegs
<1>. QED BY <1>2, <1>3, <1>4, LinksKeep

----------------------------------------------------------------------------
(* The second invariant, step by step. *)

\* So does every call, if nothing happens to any.
LEMMA RestsAll ==
  ASSUME AgreeInv, Links', \A n \in Calls : Rests(n)
  PROVE  AgreeInv'
<1>1. ASSUME NEW n \in Calls PROVE Bond(n)'
  BY RestsKeeps DEF AgreeInv
<1>. QED BY <1>1 DEF AgreeInv

\* The frame loads.
LEMMA LoadAgrees ==
  ASSUME WireAssumption, IInv, AgreeInv, Load
  PROVE  AgreeInv'
<1>1. /\ UNCHANGED <<phase, toward, calls, lately, front, back, served, stops, refused>> /\ loaded' = TRUE
  BY DEF Load, pageVars, frameVars, workerVars
<1>2. Links'
  BY <1>1, LinksKeep DEF AgreeInv, Links
<1>3. ASSUME NEW n \in Calls PROVE Rests(n)
  BY <1>1 DEF Rests, Still
<1>. QED BY <1>2, <1>3, RestsAll

\* An opener offers, which asks nothing.
LEMMA OfferAgrees ==
  ASSUME WireAssumption, IInv, AgreeInv, NEW o \in Openers, Offer(o)
  PROVE  AgreeInv'
<1>1. UNCHANGED <<phase, loaded, calls, lately, front, back, served, stops, refused>>
  BY DEF Offer, pageVars, frameVars, workerVars
<1>2. o \in Ends
  BY DEF Openers, Ends
<1>3. PICK m \in Message : m.leg = "offer" /\ <<m>> \in Queues /\ toward' = Posted(o, <<m>>)
  BY MsgIs, SilentIs DEF Offer
<1>4. PICK msgs : Flow("none", Peer(o), msgs) /\ msgs \in {<<>>, <<m>>} /\ (o = "page" /\ ~loaded => msgs = <<>>)
  <2>1. Flow("none", Peer(o), Posts(o, <<m>>))
    BY <1>2, <1>3, FlowPosted
  <2>2. o = "page" /\ ~loaded => Posts(o, <<m>>) = <<>>
    BY DEF Posts
  <2>. QED BY <2>1, <2>2, PostsNone
<1>5. \A legs : HasLeg(msgs, legs) => "offer" \in legs
  BY <1>3, <1>4, LegsOne
<1>6. Links'
  <2>1. ~HasLeg(msgs, {"welcome"}) /\ ~HasLeg(msgs, Asks)
    BY <1>5 DEF Asks
  <2>2. Links /\ ~refused' /\ (~loaded => Peer(o) # "front" \/ msgs = <<>>)
    BY <1>1, <1>4, Peers DEF AgreeInv, Links, Openers
  <2>. QED BY <1>1, <1>4, <2>1, <2>2, LinksStay
<1>7. ASSUME NEW n \in Calls PROVE Rests(n)
  <2>1. Spares(Peer(o), msgs, n)
    <3>1. Spares(Peer(o), <<>>, n)
      BY SparesOne
    <3>2. Spares(Peer(o), <<m>>, n)
      BY <1>3, SparesOne
    <3>. QED BY <1>4, <3>1, <3>2
  <2>2. Still(n)
    BY <1>4, <2>1, FlowStill
  <2>. QED BY <1>1, <2>2 DEF Rests
<1>. QED BY <1>6, <1>7, RestsAll

\* An accepter answers an offer: it welcomes only once its own handshake is over.
LEMMA HearOfferAgrees ==
  ASSUME WireAssumption, IInv, AgreeInv, NEW a \in {"front", "worker"}, HearOffer(a)
  PROVE  AgreeInv'
<1>1. UNCHANGED <<loaded, calls, lately, front, back, served, stops, refused>>
  BY DEF HearOffer, pageVars, frameVars, workerVars
<1>2. /\ phase' = [phase EXCEPT ![a] = IF @ # "connecting" THEN @
                                      ELSE IF agree[Peer(a)] THEN "connected" ELSE "closed"]
      /\ phase \in [Ends -> {"connecting", "connected", "closed"}] /\ a \in Ends
  BY Known DEF HearOffer, Ends
<1>3. phase'[a] # "connecting" /\ \A x \in Ends \ {a} : phase'[x] = phase[x]
  BY <1>2
<1>4. toward[a] # <<>> /\ Head(toward[a]).leg = "offer"
  BY <1>2, HeadIs DEF HearOffer
<1>5. PICK m \in Message : m.leg \in {"welcome", "mismatch"} /\ toward' = HeardAndPosted(a, a, <<m>>)
  <2>1. Peer(a) \in Openers
    BY Peers DEF Openers
  <2>2. \A leg \in {"welcome", "mismatch"} : Msg(leg, Peer(a)) \in Message /\ Msg(leg, Peer(a)).leg = leg
    BY <2>1, MsgIs
  <2>. QED BY <2>2 DEF HearOffer
<1>6. PICK msgs : Flow(a, Peer(a), msgs) /\ msgs \in {<<>>, <<m>>}
  BY <1>2, <1>4, <1>5, FlowHeard, SilentIs, Peers, PostsNone
<1>7. Links'
  <2>1. a = "front" => loaded
    BY <1>4 DEF AgreeInv, Links
  <2>2. ~loaded => toward'["front"] = toward["front"] /\ phase'["front"] = phase["front"]
    <3>1. a # "front" => a = "worker" /\ Peer(a) = "back" /\ "front" \in Ends
      BY Peers DEF Ends
    <3>. QED BY <1>3, <1>6, <2>1, <3>1 DEF Flow
  <2>3. \A n \in Calls : /\ calls'[n] = "open" => phase'["page"] = "connected"
                         /\ back'[n] = "open" => phase'["back"] = "connected"
    BY <1>1, <1>3 DEF AgreeInv, Links, Ends
  <2>4. ASSUME NEW b \in {"front", "worker"}, phase'[b] = "connecting"
        PROVE  /\ phase[b] = "connecting" /\ phase'[Peer(b)] = phase[Peer(b)]
               /\ toward'[b] = toward[b] /\ toward'[Peer(b)] = toward[Peer(b)]
    <3>1. /\ b # a /\ b \in Ends /\ Peer(b) \in Ends /\ Peer(b) # a /\ Peer(b) # Peer(a) /\ b # Peer(a)
      BY <1>3, <2>4, Peers DEF Ends
    <3>. QED BY <1>3, <1>6, <2>4, <3>1 DEF Flow
  <2>. QED BY <1>1, <2>2, <2>3, <2>4, LinksKeep DEF AgreeInv, Links
<1>8. ASSUME NEW n \in Calls PROVE Rests(n)
  <2>1. Spares(Peer(a), msgs, n)
    <3>1. Spares(Peer(a), <<>>, n)
      BY SparesOne
    <3>2. Spares(Peer(a), <<m>>, n)
      BY <1>5, SparesOne
    <3>. QED BY <1>6, <3>1, <3>2
  <2>2. ~Opens(Head(toward[a]), n) /\ ~Stops(Head(toward[a]), n)
    BY <1>4, KindsApart
  <2>3. Still(n)
    BY <1>6, <2>1, <2>2, FlowStill
  <2>. QED BY <1>1, <1>3, <2>3 DEF Rests, Ends
<1>. QED BY <1>7, <1>8, RestsAll

\* An opener hears the answer, which is a welcome only from an end that is ready.
LEMMA HearAnswerAgrees ==
  ASSUME WireAssumption, IInv, AgreeInv, NEW o \in Openers, HearAnswer(o)
  PROVE  AgreeInv'
<1>1. UNCHANGED <<loaded, calls, lately, front, back, served, stops, refused>>
  BY DEF HearAnswer, pageVars, frameVars, workerVars
<1>2. o \in Ends /\ toward[o] # <<>> /\ Head(toward[o]).leg \in {"welcome", "mismatch"} /\ toward[o] \in Queues
  BY HeadIs, Known DEF HearAnswer, Openers, Ends
<1>3. /\ phase \in [Ends -> {"connecting", "connected", "closed"}]
      /\ phase' = [phase EXCEPT ![o] = IF @ # "connecting" THEN @
                                       ELSE IF Head(toward[o]).leg = "welcome" THEN "connected" ELSE "closed"]
  BY Known DEF HearAnswer, Next1
<1>4. /\ \A x \in Ends \ {o} : phase'[x] = phase[x]
      /\ phase'[o] # "connecting" /\ (phase[o] # "connecting" => phase'[o] = phase[o])
      /\ phase'[o] = "connected" => phase[o] = "connected" \/ HasLeg(toward[o], {"welcome"})
  <2>1. Head(toward[o]).leg = "welcome" => HasLeg(toward[o], {"welcome"})
    <3>1. 1 \in DOMAIN toward[o] /\ toward[o][1] = Head(toward[o])
      BY <1>2, TailIs DEF Queues
    <3>. QED BY <3>1 DEF HasLeg
  <2>. QED BY <1>2, <1>3, <2>1
<1>5. Flow(o, "none", <<>>)
  BY <1>2, FlowConsumed DEF HearAnswer
<1>6. Links'
  <2>1. ~loaded => toward'["front"] = toward["front"] /\ phase'["front"] = phase["front"]
    BY <1>4, <1>5 DEF Flow, Openers, Ends
  <2>2. \A n \in Calls : /\ calls'[n] = "open" => phase'["page"] = "connected"
                         /\ back'[n] = "open" => phase'["back"] = "connected"
    BY <1>1, <1>4 DEF AgreeInv, Links, Ends
  <2>3. ASSUME NEW a \in {"front", "worker"}, phase'[a] = "connecting"
        PROVE  /\ phase[a] = "connecting"
               /\ phase'[Peer(a)] = "connected" => phase[Peer(a)] = "connected" \/ HasLeg(toward[Peer(a)], {"welcome"})
               /\ HasLeg(toward'[Peer(a)], {"welcome"}) => HasLeg(toward[Peer(a)], {"welcome"})
               /\ HasLeg(toward'[a], Asks) => HasLeg(toward[a], Asks) \/ phase[Peer(a)] = "connected"
    <3>1. a \in Ends /\ Peer(a) \in Ends /\ a # o
      BY Peers DEF Ends, Openers
    <3>2. \A legs : ~HasLeg(<<>>, legs)
      BY DEF HasLeg
    <3>. QED BY <1>4, <1>5, <2>3, <3>1, <3>2, FlowLegs
  <2>. QED BY <1>1, <2>1, <2>2, <2>3, LinksKeep DEF AgreeInv, Links
<1>7. ASSUME NEW n \in Calls PROVE Rests(n)
  <2>1. Spares("none", <<>>, n) /\ o \notin {"front", "worker"}
    BY SparesOne DEF Openers
  <2>2. Still(n)
    BY <1>5, <2>1, FlowStill
  <2>3. \A e \in {"page", "back"} : phase[e] = "closed" => phase'[e] = "closed"
    BY <1>4 DEF Ends
  <2>. QED BY <1>1, <2>2, <2>3 DEF Rests
<1>. QED BY <1>6, <1>7, RestsAll

\* What the first invariant says of a call.
LEMMA CallFacts ==
  ASSUME IInv, NEW n \in Calls
  PROVE  /\ calls[n] \in {"idle", "queued"} => ~HasOpening(toward["front"], n) /\ front[n] = "none"
         /\ HasOpening(toward["front"], n) => front[n] = "none"
         /\ Once(toward["front"], n)
         /\ back[n] \in {"idle", "queued"} => ~HasOpening(toward["worker"], n) /\ served[n] = "none"
         /\ front[n] = "open" <=> back[n] \in {"queued", "open"}
         /\ front[n] = "none" <=> back[n] = "idle"
         /\ front[n] = "open" => phase["front"] = "connected"
         /\ served[n] = "open" => phase["worker"] = "connected"
         /\ front[n] \in {"none", "open", "over"} /\ served[n] \in {"none", "open", "over"}
         /\ calls[n] \in {"idle", "queued", "open", "ended"} /\ back[n] \in {"idle", "queued", "open", "ended"}
         /\ \A x \in Ends : toward[x] \in Queues
<1>1. OpensOnce(n) /\ Forwarded /\ Serving
  BY Known
<1>. QED BY <1>1, Known DEF OpensOnce, Forwarded, Serving

\* A message of one call is nothing to another.
LEMMA OtherStill ==
  ASSUME IInv, NEW e, NEW w, NEW msgs, NEW m, Flow(e, w, msgs), msgs \in {<<>>, <<m>>}, NEW k, m.call # k,
         e \in {"front", "worker"} => Head(toward[e]).call # k
  PROVE  Still(k)
<1>1. Spares(w, <<>>, k)
  BY SparesOne
<1>2. Spares(w, <<m>>, k)
  BY SparesOne
<1>3. Spares(w, msgs, k)
  BY <1>1, <1>2
<1>4. e \in {"front", "worker"} => ~Opens(Head(toward[e]), k) /\ ~Stops(Head(toward[e]), k)
  BY KindsApart
<1>. QED BY <1>3, <1>4, FlowStill

\* Nothing on the wires.
LEMMA SameStill ==
  ASSUME toward' = toward, NEW n
  PROVE  Still(n)
  BY DEF Still

\* The page makes a call.
LEMMA CallAgrees ==
  ASSUME WireAssumption, IInv, AgreeInv, NEW n \in Calls, Call(n)
  PROVE  AgreeInv'
<1>1. /\ UNCHANGED <<phase, loaded, toward, lately, front, back, served, stops, refused>>
      /\ calls[n] = "idle"
      /\ \/ calls' = [calls EXCEPT ![n] = "ended"] /\ n \in Requests
         \/ calls' = [calls EXCEPT ![n] = "queued"]
  BY DEF Call, wireVars, frameVars, workerVars
<1>2. /\ \A k \in Calls : k # n => calls'[k] = calls[k]
      /\ calls'[n] = "queued" \/ (calls'[n] = "ended" /\ n \notin Subscriptions)
  BY <1>1, Known DEF WireAssumption
<1>3. Links'
  <2>1. Links /\ ~refused' /\ \A k \in Calls : calls'[k] = "open" => calls[k] = "open"
    BY <1>1, <1>2 DEF AgreeInv, Links
  <2>2. Flow("none", "nobody", <<>>) /\ \A legs : ~HasLeg(<<>>, legs)
    BY <1>1, FlowNothing DEF HasLeg
  <2>. QED BY <1>1, <2>1, <2>2, LinksStay
<1>4. ASSUME NEW k \in Calls, k # n PROVE Bond(k)'
  <2>1. Rests(k)
    BY <1>1, <1>2, <1>4, SameStill DEF Rests
  <2>. QED BY <2>1, RestsKeeps DEF AgreeInv
<1>5. Bond(n)'
  <2>1. Bond(n) /\ ~HasOpening(toward["front"], n) /\ front[n] = "none"
    BY <1>1, CallFacts DEF AgreeInv
  <2>. QED BY <1>1, <1>2, <2>1 DEF Bond, Answered, Remembered, ServedOnce, Stopped, Told
<1>. QED BY <1>3, <1>4, <1>5 DEF AgreeInv

\* A call of the page's goes out, which it does once the handshake is over.
LEMMA FlushPageAgrees ==
  ASSUME WireAssumption, IInv, AgreeInv, FlushPage
  PROVE  AgreeInv'
<1>1. UNCHANGED <<phase, loaded, lately, front, back, served, stops, refused>> /\ Flushing("page")
  BY DEF FlushPage, wireVars, frameVars, workerVars
<1>2. PICK n \in Calls : n = Head(placed["page"])
  <2>1. placed["page"] \in Seq(Calls) /\ placed["page"] # <<>>
    BY <1>1, Known DEF Flushing, Openers
  <2>. QED BY <2>1, TailIs
<1>3. /\ calls[n] \in {"idle", "queued", "open", "ended"}
      /\ phase["page"] \in {"connected", "closed"} /\ Bond(n) /\ Links
  BY <1>1, Known DEF Flushing, Ends, AgreeInv
<1>4. CASE calls[n] # "queued"
  <2>1. calls' = calls /\ toward' = toward
    BY <1>2, <1>4 DEF FlushPage
  <2>2. Links'
    <3>1. ~refused' /\ Flow("none", "nobody", <<>>) /\ \A legs : ~HasLeg(<<>>, legs)
      BY <1>1, <1>3, <2>1, FlowNothing DEF HasLeg, Links
    <3>. QED BY <1>1, <1>3, <2>1, <3>1, LinksStay
  <2>3. ASSUME NEW k \in Calls PROVE Rests(k)
    BY <1>1, <2>1, SameStill DEF Rests
  <2>. QED BY <2>2, <2>3, RestsAll
<1>5. CASE calls[n] = "queued" /\ phase["page"] = "closed"
  <2>1. calls' = [calls EXCEPT ![n] = "ended"] /\ toward' = toward
    BY <1>2, <1>5 DEF FlushPage
  <2>2. calls'[n] = "ended" /\ \A k \in Calls : k # n => calls'[k] = calls[k]
    BY <2>1, Known
  <2>3. Links'
    <3>1. ~refused' /\ Flow("none", "nobody", <<>>) /\ \A legs : ~HasLeg(<<>>, legs)
      BY <1>1, <1>3, <2>1, FlowNothing DEF HasLeg, Links
    <3>2. \A k \in Calls : calls'[k] = "open" => calls[k] = "open"
      BY <2>2
    <3>. QED BY <1>1, <1>3, <2>1, <3>1, <3>2, LinksStay
  <2>4. ASSUME NEW k \in Calls, k # n PROVE Bond(k)'
    <3>1. Rests(k)
      BY <1>1, <2>1, <2>2, <2>4, SameStill DEF Rests
    <3>. QED BY <3>1, RestsKeeps DEF AgreeInv
  <2>5. Bond(n)'
    BY <1>1, <1>3, <1>5, <2>1, <2>2 DEF Bond, Answered, Remembered, ServedOnce, Stopped, Told
  <2>. QED BY <2>3, <2>4, <2>5 DEF AgreeInv
<1>6. CASE calls[n] = "queued" /\ phase["page"] = "connected"
  <2>1. calls' = [calls EXCEPT ![n] = "open"] /\ toward' = Posted("page", <<Msg(Opening(n), n)>>)
    BY <1>2, <1>6 DEF FlushPage
  <2>2. calls'[n] = "open" /\ \A k \in Calls : k # n => calls'[k] = calls[k]
    BY <2>1, Known
  <2>3. PICK m \in Message : m = Msg(Opening(n), n) /\ m.call = n /\ m.leg \in {"request", "start"} /\ <<m>> \in Queues
    BY MsgIs, SilentIs DEF Opening
  <2>4. PICK msgs : Flow("none", "front", msgs) /\ msgs \in {<<>>, <<m>>}
    <3>1. Flow("none", Peer("page"), Posts("page", <<m>>))
      BY <2>1, <2>3, FlowPosted DEF Ends
    <3>. QED BY <3>1, Peers, PostsNone
  <2>5. loaded
    BY <1>3, <1>6, Peers DEF Links
  <2>6. Links'
    <3>1. ~HasLeg(msgs, {"welcome"})
      <4>1. ~HasLeg(<<>>, {"welcome"}) /\ ~HasLeg(<<m>>, {"welcome"})
        BY <2>3, LegsOne
      <4>. QED BY <2>4, <4>1
    <3>2. ~refused' /\ \A k \in Calls : back'[k] = "open" => back[k] = "open"
      BY <1>1, <1>3 DEF Links
    <3>. QED BY <1>1, <1>3, <1>6, <2>4, <2>5, <3>1, <3>2, LinksStay, Peers
  <2>7. ASSUME NEW k \in Calls, k # n PROVE Bond(k)'
    <3>1. Still(k)
      BY <2>3, <2>4, <2>7, OtherStill
    <3>2. Rests(k)
      BY <1>1, <2>2, <2>7, <3>1 DEF Rests
    <3>. QED BY <3>2, RestsKeeps DEF AgreeInv
  <2>8. Bond(n)'
    <3>1. front[n] = "none"
      BY <1>6, CallFacts
    <3>2. toward'["page"] = toward["page"] /\ toward'["back"] = toward["back"] /\ toward'["worker"] = toward["worker"]
      BY <2>4 DEF Flow, Ends
    <3>. QED BY <1>1, <1>3, <2>2, <3>1, <3>2 DEF Bond, Answered, Remembered, ServedOnce, Stopped, Told
  <2>. QED BY <2>6, <2>7, <2>8 DEF AgreeInv
<1>. QED BY <1>3, <1>4, <1>5, <1>6

\* The page gives up: what may still come is remembered, and a subscription that went out is stopped.
LEMMA LeaveAgrees ==
  ASSUME WireAssumption, IInv, AgreeInv, NEW n \in Calls, NEW aborts \in BOOLEAN, Leave(n, aborts)
  PROVE  AgreeInv'
<1>1. /\ UNCHANGED <<phase, loaded, front, back, served, stops, refused>>
      /\ calls[n] \in {"queued", "open"} /\ calls' = [calls EXCEPT ![n] = "ended"]
      /\ lately' = IF calls[n] = "open" THEN lately \cup {n} ELSE lately
      /\ toward' = Posted("page", IF n \in Subscriptions /\ calls[n] = "open" THEN <<Msg("stop", n)>> ELSE <<>>)
  BY DEF Leave, wireVars, frameVars, workerVars
<1>2. /\ calls'[n] = "ended" /\ \A k \in Calls : k # n => calls'[k] = calls[k]
      /\ lately \subseteq lately' /\ (calls[n] = "open" => n \in lately')
      /\ Bond(n) /\ Links
  BY <1>1, Known DEF AgreeInv
<1>3. PICK m \in Message : m = Msg("stop", n) /\ m.call = n /\ m.leg = "stop" /\ <<m>> \in Queues
  BY MsgIs, SilentIs
<1>4. PICK msgs : /\ Flow("none", "front", msgs) /\ msgs \in {<<>>, <<m>>}
                  /\ n \in Subscriptions /\ calls[n] = "open" => msgs = <<m>> /\ loaded
                  /\ calls[n] # "open" => msgs = <<>>
  <2>1. PICK sent1 \in {<<>>, <<m>>} : /\ toward' = Posted("page", sent1)
                                       /\ n \in Subscriptions /\ calls[n] = "open" => sent1 = <<m>>
                                       /\ calls[n] # "open" => sent1 = <<>>
    BY <1>1, <1>3
  <2>2. Flow("none", "front", Posts("page", sent1))
    <3>1. sent1 \in Queues /\ "page" \in Ends
      BY <1>3, SilentIs DEF Ends
    <3>. QED BY <2>1, <3>1, FlowPosted, Peers
  <2>3. calls[n] = "open" => loaded /\ phase["page"] # "closed"
    BY <1>2, Peers DEF Links
  <2>4. calls[n] = "open" => Posts("page", sent1) = sent1
    BY <2>3 DEF Posts
  <2>. QED BY <2>1, <2>2, <2>3, <2>4, PostsNone
<1>5. Links'
  <2>1. ~HasLeg(msgs, {"welcome"})
    <3>1. ~HasLeg(<<>>, {"welcome"}) /\ ~HasLeg(<<m>>, {"welcome"})
      BY <1>3, LegsOne
    <3>. QED BY <1>4, <3>1
  <2>2. ~refused' /\ \A k \in Calls : calls'[k] = "open" => calls[k] = "open"
    BY <1>1, <1>2 DEF Links
  <2>3. HasLeg(msgs, Asks) => calls[n] = "open"
    BY <1>4, LegsOne
  <2>4. calls[n] = "open" => phase["page"] = "connected" /\ loaded
    BY <1>2, Peers DEF Links
  <2>5. ~loaded => msgs = <<>>
    BY <1>4, <2>4
  <2>. QED BY <1>1, <1>2, <1>4, <2>1, <2>2, <2>3, <2>4, <2>5, LinksStay, Peers
<1>6. ASSUME NEW k \in Calls, k # n PROVE Bond(k)'
  <2>1. Still(k)
    BY <1>3, <1>4, <1>6, OtherStill
  <2>2. Rests(k)
    BY <1>1, <1>2, <1>6, <2>1 DEF Rests
  <2>. QED BY <2>2, RestsKeeps DEF AgreeInv
<1>7. Bond(n)'
  <2>1. /\ toward'["page"] = toward["page"] /\ toward'["back"] = toward["back"] /\ toward'["worker"] = toward["worker"]
        /\ toward'["front"] = toward["front"] \o msgs /\ toward["front"] \in Queues /\ msgs \in Queues
    BY <1>4, Known DEF Flow, Ends
  <2>2. ~HasOpening(msgs, n) /\ (msgs = <<m>> => HasStop(msgs, n))
    <3>1. ~HasOpening(<<>>, n) /\ ~HasOpening(<<m>>, n) /\ HasStop(<<m>>, n)
      <4>1. DOMAIN <<>> = {} /\ DOMAIN <<m>> = {1} /\ <<m>>[1] = m
        OBVIOUS
      <4>. QED BY <1>3, <4>1 DEF HasOpening, HasStop, Opens, Stops
    <3>. QED BY <1>4, <3>1
  <2>3. /\ HasOpening(toward'["front"], n) <=> HasOpening(toward["front"], n)
        /\ msgs = <<m>> => StopAfter(toward'["front"], n)
    BY <2>1, <2>2, MoreBonds
  <2>4. calls[n] # "open" => ~HasOpening(toward["front"], n) /\ front[n] = "none"
    BY <1>1, CallFacts
  <2>5. Answered(n)'
    BY <1>1, <1>2, <2>1, <2>3, <2>4 DEF Bond, Answered, Remembered
  <2>6. ServedOnce(n)'
    BY <1>1, <1>2, <2>1 DEF Bond, ServedOnce
  <2>7. Stopped(n)'
    <3>1. n \in Subscriptions => \/ StopAfter(toward'["front"], n)
                                 \/ (front'[n] # "open" /\ ~HasOpening(toward'["front"], n))
      BY <1>1, <1>4, <2>3, <2>4
    <3>. QED BY <1>1, <1>2, <2>1, <3>1 DEF Bond, Stopped, Told
  <2>. QED BY <2>5, <2>6, <2>7 DEF Bond
<1>. QED BY <1>5, <1>6, <1>7 DEF AgreeInv

\* The page hears something on a call.  It knows the call, or remembers it; what ends the call is the last there is on
\* it; and a value it cannot read has a stop sent for the rest.
LEMMA HearPageAgrees ==
  ASSUME WireAssumption, IInv, AgreeInv, HearPage
  PROVE  AgreeInv'
<1>1. UNCHANGED <<phase, loaded, front, back, served, stops>> /\ Hears("page", {"response", "value", "interrupt", "failed"})
  BY DEF HearPage, wireVars, frameVars, workerVars
<1>2. PICK m \in Message : m = Head(toward["page"]) /\ toward["page"] # <<>>
                           /\ m.leg \in {"response", "value", "interrupt", "failed"}
  BY <1>1, HeadIs DEF Ends
<1>3. PICK n \in Calls : n = m.call
  BY <1>2, MessageKinds
<1>4. Bond(n) /\ Links /\ toward["page"] \in Queues /\ "page" \in Ends
  BY Known DEF AgreeInv, Ends
<1>5. /\ Answers(m, n) /\ (m.leg # "value" => Final(m, n)) /\ HasAnswer(toward["page"], n)
      /\ m.leg # "value" => HasFinal(toward["page"], n) /\ ~HasAnswer(Tail(toward["page"]), n)
  <2>1. Answers(m, n) /\ (m.leg # "value" => Final(m, n))
    BY <1>2, <1>3 DEF Answers, Final, Carries
  <2>2. 1 \in DOMAIN toward["page"] /\ toward["page"][1] = m
    BY <1>2, <1>4, TailIs DEF Queues
  <2>3. HasAnswer(toward["page"], n) /\ (m.leg # "value" => HasFinal(toward["page"], n))
    BY <2>1, <2>2 DEF HasAnswer, HasFinal
  <2>. QED BY <1>2, <1>4, <2>1, <2>3, TailBonds DEF Bond, Answered
<1>6. Remembered(n)
  BY <1>4, <1>5 DEF Bond, Answered
<1>7. PICK s \in Message : s = Msg("stop", n) /\ s.call = n /\ s.leg = "stop" /\ <<s>> \in Queues
  BY MsgIs, SilentIs
<1>8. IF calls[n] # "open"
       THEN /\ refused' = (refused \/ (n \notin lately /\ phase["page"] # "closed"))
            /\ toward' = Consumed("page") /\ calls' = calls /\ lately' = lately
       ELSE /\ refused' = refused
            /\ \/ calls' = calls /\ lately' = lately /\ toward' = Consumed("page")
               \/ /\ m.leg # "value" /\ calls' = [calls EXCEPT ![n] = "ended"]
                  /\ lately' = IF n \in Requests THEN lately \cup {n} ELSE lately
                  /\ toward' = Consumed("page")
               \/ /\ calls' = [calls EXCEPT ![n] = "ended"]
                  /\ lately' = IF n \in Requests \/ m.leg = "value" THEN lately \cup {n} ELSE lately
                  /\ toward' = HeardAndPosted("page", "page", IF m.leg = "value" THEN <<s>> ELSE <<>>)
  BY <1>2, <1>3, <1>7 DEF HearPage, Next1, pageVars
<1>9. PICK w \in {"none", "front"}, msgs \in {<<>>, <<s>>} :
        /\ Flow("page", w, msgs) /\ ~refused' /\ lately \subseteq lately'
        /\ msgs # <<>> => calls[n] = "open" /\ w = "front"
        /\ \A k \in Calls : k # n => calls'[k] = calls[k]
        /\ \/ calls'[n] = calls[n]
           \/ calls'[n] = "ended" /\ m.leg # "value"
           \/ calls'[n] = "ended" /\ m.leg = "value" /\ n \in lately' /\ msgs = <<s>>
  <2>1. CASE calls[n] # "open"
    <3>1. refused' = (refused \/ (n \notin lately /\ phase["page"] # "closed")) /\ toward' = Consumed("page")
          /\ calls' = calls /\ lately' = lately
      BY <1>8, <2>1
    <3>2. Flow("page", "none", <<>>)
      BY <1>2, <1>4, <3>1, FlowConsumed
    <3>3. ~refused'
      <4>1. ~refused /\ ~(n \notin lately /\ phase["page"] # "closed")
        BY <1>4, <1>6, <2>1 DEF Remembered, Links
      <4>. QED BY <3>1, <4>1
    <3>. QED BY <3>1, <3>2, <3>3
  <2>2. CASE calls[n] = "open"
    <3>1. ~refused'
      BY <1>4, <1>8, <2>2 DEF Links
    <3>2. \/ calls' = calls /\ lately' = lately /\ toward' = Consumed("page")
          \/ /\ m.leg # "value" /\ calls' = [calls EXCEPT ![n] = "ended"] /\ lately \subseteq lately'
             /\ toward' = Consumed("page")
          \/ /\ calls' = [calls EXCEPT ![n] = "ended"]
             /\ lately' = IF n \in Requests \/ m.leg = "value" THEN lately \cup {n} ELSE lately
             /\ toward' = HeardAndPosted("page", "page", IF m.leg = "value" THEN <<s>> ELSE <<>>)
      BY <1>8, <2>2
    <3>3. calls' = [calls EXCEPT ![n] = "ended"] => calls'[n] = "ended" /\ \A k \in Calls : k # n => calls'[k] = calls[k]
      BY Known
    <3>4. toward' = Consumed("page") => Flow("page", "none", <<>>)
      BY <1>2, <1>4, FlowConsumed
    <3>5. ASSUME NEW out \in {<<>>, <<s>>}, toward' = HeardAndPosted("page", "page", out)
          PROVE  Flow("page", "front", out)
      <4>1. out \in Queues
        BY <1>7, SilentIs
      <4>2. Flow("page", "front", Posts("page", out))
        BY <1>2, <1>4, <3>5, <4>1, FlowHeard, Peers
      <4>3. loaded /\ phase["page"] # "closed"
        BY <1>4, <2>2, Peers DEF Links
      <4>. QED BY <4>2, <4>3 DEF Posts
    <3>6. CASE m.leg = "value"
      <4>1. CASE calls' = calls /\ lately' = lately /\ toward' = Consumed("page")
        BY <3>1, <3>4, <4>1
      <4>2. CASE /\ calls' = [calls EXCEPT ![n] = "ended"] /\ lately' = lately \cup {n}
                 /\ toward' = HeardAndPosted("page", "page", <<s>>)
        BY <2>2, <3>1, <3>3, <3>5, <3>6, <4>2
      <4>. QED BY <3>2, <3>6, <4>1, <4>2
    <3>7. CASE m.leg # "value"
      <4>1. CASE calls' = calls /\ lately' = lately /\ toward' = Consumed("page")
        BY <3>1, <3>4, <4>1
      <4>2. CASE /\ calls' = [calls EXCEPT ![n] = "ended"] /\ lately \subseteq lately'
                 /\ toward' = Consumed("page") \/ toward' = HeardAndPosted("page", "page", <<>>)
        BY <3>1, <3>3, <3>4, <3>5, <3>7, <4>2
      <4>3. lately \subseteq lately'
        BY <3>2
      <4>. QED BY <3>2, <3>7, <4>1, <4>2, <4>3
    <3>. QED BY <3>6, <3>7
  <2>. QED BY <2>1, <2>2
<1>10. calls[n] = "open" => loaded /\ phase["page"] = "connected"
  BY <1>4, Peers DEF Links
<1>11. Links'
  <2>1. ~HasLeg(<<>>, {"welcome"}) /\ ~HasLeg(<<s>>, {"welcome"}) /\ ~HasLeg(<<>>, Asks)
    BY <1>7, LegsOne
  <2>2. ~HasLeg(msgs, {"welcome"}) /\ (HasLeg(msgs, Asks) => msgs # <<>>)
    BY <2>1
  <2>3. /\ w \in {"front", "worker"} /\ HasLeg(msgs, Asks) => phase[Peer(w)] = "connected"
        /\ ~loaded => w # "front" \/ msgs = <<>>
    BY <1>9, <1>10, <2>2, Peers
  <2>4. \A k \in Calls : calls'[k] = "open" => calls[k] = "open"
    BY <1>9
  <2>. QED BY <1>1, <1>4, <1>9, <2>2, <2>3, <2>4, LinksStay
<1>12. ASSUME NEW k \in Calls PROVE Still(k)
  <2>1. ~Opens(s, k)
    BY <1>7 DEF Opens
  <2>2. Spares(w, <<>>, k) /\ Spares(w, <<s>>, k)
    BY <2>1, SparesOne
  <2>3. Spares(w, msgs, k)
    BY <2>2
  <2>. QED BY <1>9, <2>3, FlowStill
<1>13. ASSUME NEW k \in Calls, calls'[k] = calls[k] PROVE Bond(k)'
  <2>1. Rests(k)
    BY <1>1, <1>9, <1>12, <1>13 DEF Rests
  <2>. QED BY <2>1, RestsKeeps DEF AgreeInv
<1>14. ASSUME calls'[n] = "ended" /\ m.leg # "value" PROVE Bond(n)'
  <2>1. Still(n) /\ ~HasAnswer(toward'["page"], n)
    BY <1>4, <1>5, <1>9, <1>12, <1>14 DEF Flow
  <2>2. front[n] = "over" /\ (served[n] = "over" \/ phase["back"] = "closed") /\ ~HasOpening(toward["front"], n)
    BY <1>4, <1>5, <1>14, CallFacts DEF Bond, Answered
  <2>3. Answered(n)'
    BY <1>1, <1>4, <2>1, <2>2 DEF Bond, Answered, Still
  <2>4. ServedOnce(n)'
    BY <1>1, <1>4, <2>1 DEF Bond, ServedOnce, Still
  <2>5. Stopped(n)'
    BY <1>1, <2>2 DEF Stopped
  <2>. QED BY <2>3, <2>4, <2>5 DEF Bond
<1>15. ASSUME calls'[n] = "ended" /\ m.leg = "value" /\ n \in lately' /\ msgs = <<s>> PROVE Bond(n)'
  <2>1. Still(n) /\ StopAfter(toward'["front"], n)
    <3>1. toward'["front"] = toward["front"] \o <<s>> /\ toward["front"] \in Queues
      BY <1>9, <1>15, Known DEF Flow, Ends
    <3>2. HasStop(<<s>>, n) /\ ~HasOpening(<<s>>, n)
      <4>1. DOMAIN <<s>> = {1} /\ <<s>>[1] = s
        OBVIOUS
      <4>. QED BY <1>7, <4>1 DEF HasStop, HasOpening, Stops, Opens
    <3>3. StopAfter(toward["front"] \o <<s>>, n)
      BY <1>7, <3>1, <3>2, MoreBonds
    <3>. QED BY <1>12, <3>1, <3>3
  <2>2. Answered(n)'
    BY <1>1, <1>4, <1>15, <2>1 DEF Bond, Answered, Still, Remembered
  <2>3. ServedOnce(n)'
    BY <1>1, <1>4, <2>1 DEF Bond, ServedOnce, Still
  <2>4. Stopped(n)'
    BY <1>1, <1>4, <2>1 DEF Bond, Stopped, Told, Still
  <2>. QED BY <2>2, <2>3, <2>4 DEF Bond
<1>16. Bond(n)'
  BY <1>9, <1>13, <1>14, <1>15
<1>17. ASSUME NEW k \in Calls PROVE Bond(k)'
  BY <1>9, <1>13, <1>16
<1>. QED BY <1>11, <1>17 DEF AgreeInv

\* The frame hears the opening of a call, which is ready and has not heard of the call.
LEMMA HearOpeningAgrees ==
  ASSUME WireAssumption, IInv, AgreeInv, HearOpening
  PROVE  AgreeInv'
<1>1. UNCHANGED <<phase, loaded, calls, lately, served, stops>> /\ Hears("front", {"request", "start"})
  BY DEF HearOpening, wireVars, pageVars, workerVars
<1>2. PICK m \in Message : m = Head(toward["front"]) /\ toward["front"] # <<>> /\ m.leg \in {"request", "start"}
  BY <1>1, HeadIs DEF Ends
<1>3. PICK n \in Calls : n = m.call
  BY <1>2, MessageKinds
<1>4. /\ Bond(n) /\ Links /\ toward["front"] \in Queues /\ toward["page"] \in Queues
      /\ "front" \in Ends /\ "page" \in Ends /\ "back" \in Ends /\ "worker" \in Ends
  BY Known DEF AgreeInv, Ends
<1>5. Opens(m, n) /\ HasOpening(toward["front"], n) /\ phase["front"] # "connecting"
  <2>1. Opens(m, n) /\ m.leg \in Asks
    BY <1>2, <1>3 DEF Opens, Asks
  <2>2. 1 \in DOMAIN toward["front"] /\ toward["front"][1] = m
    BY <1>2, <1>4, TailIs DEF Queues
  <2>3. HasOpening(toward["front"], n) /\ HasLeg(toward["front"], Asks)
    BY <2>1, <2>2 DEF HasOpening, HasLeg
  <2>. QED BY <1>4, <2>1, <2>3 DEF Links
<1>6. /\ front[n] = "none" /\ Remembered(n) /\ ~HasFinal(toward["page"], n)
      /\ ~HasOpening(Tail(toward["front"]), n)
      /\ StopAfter(toward["front"], n) => StopAfter(Tail(toward["front"]), n)
  <2>1. front[n] = "none" /\ Once(toward["front"], n)
    BY <1>5, CallFacts
  <2>2. Remembered(n) /\ ~HasFinal(toward["page"], n)
    BY <1>4, <1>5, <2>1 DEF Bond, Answered
  <2>. QED BY <1>2, <1>4, <1>5, <2>1, <2>2, TailBonds, KindsApart
<1>7. /\ refused' = (refused \/ phase["front"] = "connecting")
      /\ toward' = HeardAndPosted("front", "front", IF phase["front"] = "connecting" THEN <<Msg("failed", n)>> ELSE <<>>)
      /\ \/ front' = [front EXCEPT ![n] = "open"] /\ back' = [back EXCEPT ![n] = "queued"]
         \/ front' = front /\ back' = back
  BY <1>2, <1>3 DEF HearOpening, Next1, frameVars
<1>8. Flow("front", "page", <<>>)
  <2>1. toward' = HeardAndPosted("front", "front", <<>>) /\ Posts("front", <<>>) = <<>>
    BY <1>5, <1>7 DEF Posts
  <2>. QED BY <1>2, <1>4, <2>1, FlowHeard, SilentIs, Peers
<1>9. /\ front'[n] \in {"none", "open"} /\ back'[n] # "open"
      /\ \A k \in Calls : k # n => front'[k] = front[k] /\ back'[k] = back[k]
  BY <1>6, <1>7, Known, CallFacts
<1>10. Links'
  <2>1. ~refused'
    <3>1. ~refused /\ ~(phase["front"] = "connecting")
      BY <1>4, <1>5 DEF Links
    <3>. QED BY <1>7, <3>1
  <2>2. \A legs : ~HasLeg(<<>>, legs)
    BY DEF HasLeg
  <2>3. \A k \in Calls : back'[k] = "open" => back[k] = "open"
    BY <1>9
  <2>. QED BY <1>1, <1>4, <1>8, <2>1, <2>2, <2>3, LinksStay
<1>11. ASSUME NEW k \in Calls, k # n PROVE Bond(k)'
  <2>1. Still(k)
    BY <1>2, <1>3, <1>8, <1>11, OtherStill
  <2>2. Rests(k)
    BY <1>1, <1>9, <1>11, <2>1 DEF Rests
  <2>. QED BY <2>2, RestsKeeps DEF AgreeInv
<1>12. Bond(n)'
  <2>1. /\ toward'["front"] = Tail(toward["front"]) /\ toward'["page"] = toward["page"]
        /\ toward'["back"] = toward["back"] /\ toward'["worker"] = toward["worker"]
    <3>1. toward["page"] \o <<>> = toward["page"]
      BY <1>4 DEF Queues
    <3>. QED BY <1>4, <1>8, <3>1 DEF Flow
  <2>2. Answered(n)'
    BY <1>1, <1>4, <1>6, <2>1 DEF Bond, Answered, Remembered
  <2>3. ServedOnce(n)'
    BY <1>1, <1>4, <2>1 DEF Bond, ServedOnce
  <2>4. Stopped(n)'
    <3>1. n \in Subscriptions /\ calls[n] = "ended" =>
            phase["page"] = "closed" \/ phase["back"] = "closed" \/ served[n] = "over" \/ StopAfter(toward'["front"], n)
      BY <1>4, <1>5, <1>6, <2>1 DEF Bond, Stopped
    <3>. QED BY <1>1, <1>9, <3>1 DEF Stopped
  <2>. QED BY <2>2, <2>3, <2>4 DEF Bond
<1>13. ASSUME NEW k \in Calls PROVE Bond(k)'
  BY <1>11, <1>12
<1>. QED BY <1>10, <1>13 DEF AgreeInv

\* The frame hears a stop: it passes on that of a call that went out, and drops a call that has not.
LEMMA HearStopAgrees ==
  ASSUME WireAssumption, IInv, AgreeInv, HearStop
  PROVE  AgreeInv'
<1>1. UNCHANGED <<phase, loaded, calls, lately, served, stops>> /\ Hears("front", {"stop"})
  BY DEF HearStop, wireVars, pageVars, workerVars
<1>2. PICK m \in Message : m = Head(toward["front"]) /\ toward["front"] # <<>> /\ m.leg = "stop"
  BY <1>1, HeadIs DEF Ends
<1>3. PICK n \in Calls : n = m.call
  BY <1>2, MessageKinds
<1>4. /\ Bond(n) /\ Links /\ toward["front"] \in Queues /\ toward["worker"] \in Queues
      /\ "front" \in Ends /\ "page" \in Ends /\ "back" \in Ends /\ "worker" \in Ends
  BY Known DEF AgreeInv, Ends
<1>5. PICK s \in Message : s = Msg("stop", n) /\ s.call = n /\ s.leg = "stop" /\ <<s>> \in Queues
  BY MsgIs, SilentIs
<1>6. /\ IF front[n] = "open"
         THEN /\ front' = [front EXCEPT ![n] = "over"] /\ back' = [back EXCEPT ![n] = "ended"]
              /\ toward' = HeardAndPosted("front", "back", IF back[n] = "open" THEN <<s>> ELSE <<>>)
         ELSE toward' = Consumed("front") /\ front' = front /\ back' = back
      /\ refused' = (refused \/ phase["front"] = "connecting")
  BY <1>2, <1>3, <1>5 DEF HearStop, Next1, frameVars
<1>7. ~refused'
  <2>1. HasLeg(toward["front"], Asks)
    <3>1. 1 \in DOMAIN toward["front"] /\ toward["front"][1] = m /\ m.leg \in Asks
      BY <1>2, <1>4, TailIs DEF Queues, Asks
    <3>. QED BY <3>1 DEF HasLeg
  <2>2. ~refused /\ ~(phase["front"] = "connecting")
    BY <1>4, <2>1 DEF Links
  <2>. QED BY <1>6, <2>2
<1>8. PICK w \in {"none", "worker"}, msgs \in {<<>>, <<s>>} :
        /\ Flow("front", w, msgs)
        /\ msgs # <<>> <=> back[n] = "open"
        /\ msgs # <<>> => w = "worker" /\ phase["back"] = "connected"
  <2>1. front[n] = "open" <=> back[n] \in {"queued", "open"}
    BY CallFacts
  <2>2. CASE front[n] = "open"
    <3>1. PICK out \in {<<>>, <<s>>} : toward' = HeardAndPosted("front", "back", out) /\ (out # <<>> <=> back[n] = "open")
      BY <1>6, <2>2
    <3>2. out \in Queues
      BY <1>5, SilentIs
    <3>3. Flow("front", "worker", Posts("back", out))
      BY <1>2, <1>4, <3>1, <3>2, FlowHeard, Peers
    <3>4. back[n] = "open" => phase["back"] = "connected"
      BY <1>4 DEF Links
    <3>5. Posts("back", out) = out
      BY <3>1, <3>4 DEF Posts
    <3>. QED BY <3>1, <3>3, <3>4, <3>5
  <2>3. CASE front[n] # "open"
    BY <1>2, <1>4, <1>6, <2>1, <2>3, FlowConsumed
  <2>. QED BY <2>2, <2>3
<1>9. /\ front'[n] # "open" /\ back'[n] # "open" /\ (front[n] # "open" => front'[n] = front[n])
      /\ front[n] = "open" => front'[n] = "over"
      /\ \A k \in Calls : k # n => front'[k] = front[k] /\ back'[k] = back[k]
  <2>1. front[n] = "open" <=> back[n] \in {"queued", "open"}
    BY CallFacts
  <2>. QED BY <1>6, <2>1, Known
<1>10. Links'
  <2>1. ~HasLeg(<<>>, {"welcome"}) /\ ~HasLeg(<<s>>, {"welcome"}) /\ ~HasLeg(<<>>, Asks)
    BY <1>5, LegsOne
  <2>2. ~HasLeg(msgs, {"welcome"}) /\ (HasLeg(msgs, Asks) => msgs # <<>>)
    BY <2>1
  <2>3. w \in {"front", "worker"} /\ HasLeg(msgs, Asks) => phase[Peer(w)] = "connected"
    BY <1>8, <2>2, Peers
  <2>4. \A k \in Calls : back'[k] = "open" => back[k] = "open"
    BY <1>9
  <2>5. ~loaded => w # "front" \/ msgs = <<>>
    BY <1>8
  <2>. QED BY <1>1, <1>4, <1>7, <1>8, <2>2, <2>3, <2>4, <2>5, LinksStay
<1>11. ASSUME NEW k \in Calls, k # n PROVE Bond(k)'
  <2>1. Still(k)
    BY <1>2, <1>3, <1>5, <1>8, <1>11, OtherStill
  <2>2. Rests(k)
    BY <1>1, <1>9, <1>11, <2>1 DEF Rests
  <2>. QED BY <2>2, RestsKeeps DEF AgreeInv
<1>12. Bond(n)'
  <2>1. /\ toward'["front"] = Tail(toward["front"]) /\ toward'["page"] = toward["page"] /\ toward'["back"] = toward["back"]
        /\ w = "none" => toward'["worker"] = toward["worker"]
        /\ w = "worker" => toward'["worker"] = toward["worker"] \o msgs
    BY <1>4, <1>8 DEF Flow
  <2>2. /\ HasOpening(toward'["front"], n) => HasOpening(toward["front"], n)
        /\ StopAfter(toward["front"], n) => StopAfter(toward'["front"], n) \/ ~HasOpening(toward'["front"], n)
    BY <1>2, <1>4, <2>1, TailBonds
  <2>3. ~HasOpening(<<>>, n) /\ ~HasOpening(<<s>>, n) /\ HasStop(<<s>>, n)
    <3>1. DOMAIN <<>> = {} /\ DOMAIN <<s>> = {1} /\ <<s>>[1] = s
      OBVIOUS
    <3>. QED BY <1>5, <3>1 DEF HasOpening, HasStop, Opens, Stops
  <2>4. msgs \in Queues /\ ~HasOpening(msgs, n) /\ (msgs = <<s>> => HasStop(msgs, n))
    BY <1>5, <2>3, SilentIs
  <2>5. /\ HasOpening(toward'["worker"], n) <=> HasOpening(toward["worker"], n)
        /\ Once(toward["worker"], n) => Once(toward'["worker"], n)
        /\ StopAfter(toward["worker"], n) => StopAfter(toward'["worker"], n)
        /\ back[n] = "open" => StopAfter(toward'["worker"], n)
    <3>1. CASE w = "none"
      BY <1>8, <2>1, <3>1
    <3>2. CASE w = "worker"
      <4>1. toward'["worker"] = toward["worker"] \o msgs
        BY <2>1, <3>2
      <4>2. back[n] = "open" => HasStop(msgs, n)
        BY <1>8, <2>4
      <4>. QED BY <1>4, <2>4, <4>1, <4>2, MoreBonds
    <3>. QED BY <3>1, <3>2
  <2>6. Answered(n)'
    BY <1>1, <1>4, <1>9, <2>1, <2>2 DEF Bond, Answered, Remembered
  <2>7. ServedOnce(n)'
    BY <1>1, <1>4, <2>5 DEF Bond, ServedOnce
  <2>8. Stopped(n)'
    <3>1. front[n] = "open" => StopAfter(toward'["worker"], n) \/ (~HasOpening(toward'["worker"], n) /\ served'[n] = "none")
      BY <1>1, <2>5, CallFacts
    <3>2. n \in Subscriptions /\ front'[n] = "over" => phase'["back"] = "closed" \/ served'[n] = "over" \/ Told(n)'
      BY <1>1, <1>4, <1>9, <2>5, <3>1 DEF Bond, Stopped, Told
    <3>3. StopAfter(toward["front"], n) \/ (front[n] # "open" /\ ~HasOpening(toward["front"], n))
            => StopAfter(toward'["front"], n) \/ (front'[n] # "open" /\ ~HasOpening(toward'["front"], n))
      BY <1>9, <2>2
    <3>. QED BY <1>1, <1>4, <3>2, <3>3 DEF Bond, Stopped
  <2>. QED BY <2>6, <2>7, <2>8 DEF Bond
<1>13. ASSUME NEW k \in Calls PROVE Bond(k)'
  BY <1>11, <1>12
<1>. QED BY <1>10, <1>13 DEF AgreeInv

\* What one message says.
LEMMA BondsOne ==
  ASSUME NEW m, NEW n
  PROVE  /\ HasOpening(<<m>>, n) <=> Opens(m, n)
         /\ HasFinal(<<m>>, n) <=> Final(m, n)
         /\ HasAnswer(<<m>>, n) <=> Answers(m, n)
         /\ HasStop(<<m>>, n) <=> Stops(m, n)
         /\ Once(<<m>>, n) /\ FinalIsLast(<<m>>, n)
<1>1. DOMAIN <<m>> = {1} /\ <<m>>[1] = m
  OBVIOUS
<1>2. Once(<<m>>, n) /\ FinalIsLast(<<m>>, n)
  BY <1>1 DEF Once, FinalIsLast
<1>3. HasOpening(<<m>>, n) <=> Opens(m, n)
  BY <1>1 DEF HasOpening
<1>4. (HasFinal(<<m>>, n) <=> Final(m, n)) /\ (HasAnswer(<<m>>, n) <=> Answers(m, n))
  BY <1>1 DEF HasFinal, HasAnswer
<1>5. HasStop(<<m>>, n) <=> Stops(m, n)
  BY <1>1 DEF HasStop
<1>. QED BY <1>2, <1>3, <1>4, <1>5

\* What the page is told of a call the frame still serves.
LEMMA PageTold ==
  ASSUME IInv, NEW n \in Calls, Answered(n), front[n] = "open", NEW msgs \in Queues,
         toward'["page"] = toward["page"] \o msgs, FinalIsLast(msgs, n)
  PROVE  /\ Remembered(n) /\ FinalIsLast(toward'["page"], n)
         /\ HasFinal(toward'["page"], n) => HasFinal(msgs, n)
<1>1. toward["page"] \in Queues
  BY Known DEF Ends
<1>2. Remembered(n) /\ ~HasFinal(toward["page"], n)
  BY DEF Answered
<1>. QED BY <1>1, <1>2, MoreBonds

\* A call of the frame's goes out, or fails since the far link closed.
LEMMA FlushBackAgrees ==
  ASSUME WireAssumption, IInv, AgreeInv, FlushBack
  PROVE  AgreeInv'
<1>1. UNCHANGED <<phase, loaded, calls, lately, served, stops, refused>> /\ Flushing("back")
  BY DEF FlushBack, wireVars, pageVars, workerVars
<1>2. PICK n \in Calls : n = Head(placed["back"])
  <2>1. placed["back"] \in Seq(Calls) /\ placed["back"] # <<>>
    BY <1>1, Known DEF Flushing, Openers
  <2>. QED BY <2>1, TailIs
<1>3. /\ phase["back"] \in {"connected", "closed"} /\ Bond(n) /\ Links /\ ~refused'
      /\ "front" \in Ends /\ "page" \in Ends /\ "back" \in Ends /\ "worker" \in Ends
  BY <1>1, Known DEF Flushing, Ends, AgreeInv, Links
<1>4. CASE back[n] # "queued"
  <2>1. back' = back /\ front' = front /\ toward' = toward
    BY <1>2, <1>4 DEF FlushBack, frameVars
  <2>2. Links'
    <3>1. Flow("none", "nobody", <<>>) /\ \A legs : ~HasLeg(<<>>, legs)
      BY <2>1, FlowNothing DEF HasLeg
    <3>. QED BY <1>1, <1>3, <2>1, <3>1, LinksStay
  <2>3. ASSUME NEW k \in Calls PROVE Rests(k)
    BY <1>1, <2>1, SameStill DEF Rests
  <2>. QED BY <2>2, <2>3, RestsAll
<1>5. CASE back[n] = "queued" /\ phase["back"] = "closed"
  <2>1. front[n] = "open" /\ phase["front"] = "connected"
    BY <1>5, CallFacts
  <2>2. PICK f \in Message : f = Msg("failed", n) /\ f.call = n /\ f.leg = "failed" /\ <<f>> \in Queues
    BY MsgIs, SilentIs
  <2>3. /\ back' = [back EXCEPT ![n] = "ended"] /\ front' = [front EXCEPT ![n] = "over"]
        /\ toward' = Posted("front", <<f>>)
    BY <1>2, <1>5, <2>1, <2>2 DEF FlushBack
  <2>4. /\ back'[n] = "ended" /\ front'[n] = "over"
        /\ \A k \in Calls : k # n => back'[k] = back[k] /\ front'[k] = front[k]
    BY <2>3, Known
  <2>5. Flow("none", "page", <<f>>)
    <3>1. Flow("none", Peer("front"), Posts("front", <<f>>))
      BY <1>3, <2>2, <2>3, FlowPosted
    <3>. QED BY <2>1, <3>1, Peers DEF Posts
  <2>6. Links'
    <3>1. ~HasLeg(<<f>>, {"welcome"}) /\ \A k \in Calls : back'[k] = "open" => back[k] = "open"
      BY <2>2, <2>4, LegsOne
    <3>. QED BY <1>1, <1>3, <2>5, <3>1, LinksStay
  <2>7. ASSUME NEW k \in Calls, k # n PROVE Bond(k)'
    <3>1. Still(k)
      BY <2>2, <2>5, <2>7, OtherStill
    <3>2. Rests(k)
      BY <1>1, <2>4, <2>7, <3>1 DEF Rests
    <3>. QED BY <3>2, RestsKeeps DEF AgreeInv
  <2>8. Bond(n)'
    <3>1. /\ toward'["page"] = toward["page"] \o <<f>> /\ toward'["front"] = toward["front"]
          /\ toward'["back"] = toward["back"] /\ toward'["worker"] = toward["worker"]
      BY <1>3, <2>5 DEF Flow
    <3>2. Remembered(n) /\ FinalIsLast(toward'["page"], n)
      BY <1>3, <2>1, <2>2, <3>1, BondsOne, PageTold DEF Bond
    <3>3. Answered(n)'
      BY <1>1, <1>3, <1>5, <2>4, <3>1, <3>2 DEF Bond, Answered, Remembered
    <3>4. ServedOnce(n)'
      BY <1>1, <1>3, <3>1 DEF Bond, ServedOnce
    <3>5. Stopped(n)'
      BY <1>1, <1>5 DEF Stopped
    <3>. QED BY <3>3, <3>4, <3>5 DEF Bond
  <2>9. ASSUME NEW k \in Calls PROVE Bond(k)'
    BY <2>7, <2>8
  <2>. QED BY <2>6, <2>9 DEF AgreeInv
<1>6. CASE back[n] = "queued" /\ phase["back"] = "connected"
  <2>1. front[n] = "open" /\ ~HasOpening(toward["worker"], n) /\ served[n] = "none"
    BY <1>6, CallFacts
  <2>2. PICK m \in Message : m = Msg(Opening(n), n) /\ m.call = n /\ m.leg \in {"request", "start"} /\ <<m>> \in Queues
    BY MsgIs, SilentIs DEF Opening
  <2>3. back' = [back EXCEPT ![n] = "open"] /\ front' = front /\ toward' = Posted("back", <<m>>)
    BY <1>2, <1>6, <2>2 DEF FlushBack
  <2>4. \A k \in Calls : k # n => back'[k] = back[k]
    BY <2>3, Known
  <2>5. Flow("none", "worker", <<m>>)
    <3>1. Flow("none", Peer("back"), Posts("back", <<m>>))
      BY <1>3, <2>2, <2>3, FlowPosted
    <3>. QED BY <1>6, <3>1, Peers DEF Posts
  <2>6. Links'
    <3>1. ~HasLeg(<<m>>, {"welcome"})
      BY <2>2, LegsOne
    <3>2. \A k \in Calls : calls'[k] = "open" => calls[k] = "open"
      BY <1>1
    <3>. QED BY <1>1, <1>3, <1>6, <2>5, <3>1, <3>2, LinksStay, Peers
  <2>7. ASSUME NEW k \in Calls, k # n PROVE Bond(k)'
    <3>1. Still(k)
      BY <2>2, <2>5, <2>7, OtherStill
    <3>2. Rests(k)
      BY <1>1, <2>3, <2>4, <2>7, <3>1 DEF Rests
    <3>. QED BY <3>2, RestsKeeps DEF AgreeInv
  <2>8. Bond(n)'
    <3>1. /\ toward'["page"] = toward["page"] /\ toward'["front"] = toward["front"]
          /\ toward'["back"] = toward["back"] /\ toward'["worker"] = toward["worker"] \o <<m>>
          /\ toward["worker"] \in Queues
      BY <1>3, <2>5, Known DEF Flow
    <3>2. Answered(n)'
      BY <1>1, <1>3, <2>3, <3>1 DEF Bond, Answered, Remembered
    <3>3. ServedOnce(n)'
      <4>1. Once(toward'["worker"], n)
        BY <2>1, <2>2, <3>1, BondsOne, MoreBonds
      <4>. QED BY <1>1, <1>3, <2>1, <4>1 DEF Bond, ServedOnce
    <3>4. Stopped(n)'
      BY <1>1, <1>3, <2>1, <2>3, <3>1 DEF Bond, Stopped
    <3>. QED BY <3>2, <3>3, <3>4 DEF Bond
  <2>9. ASSUME NEW k \in Calls PROVE Bond(k)'
    BY <2>7, <2>8
  <2>. QED BY <2>6, <2>9 DEF AgreeInv
<1>. QED BY <1>3, <1>4, <1>5, <1>6

\* The frame hears what the worker says of a call, and says it to the page.
LEMMA HearBackAgrees ==
  ASSUME WireAssumption, IInv, AgreeInv, HearBack
  PROVE  AgreeInv'
<1>1. UNCHANGED <<phase, loaded, calls, lately, served, stops, refused>>
      /\ Hears("back", {"response", "value", "interrupt", "failed"})
  BY DEF HearBack, wireVars, pageVars, workerVars
<1>2. PICK m \in Message : m = Head(toward["back"]) /\ toward["back"] # <<>>
                           /\ m.leg \in {"response", "value", "interrupt", "failed"} /\ <<m>> \in Queues
  BY <1>1, HeadIs, SilentIs DEF Ends
<1>3. PICK n \in Calls : n = m.call
  BY <1>2, MessageKinds
<1>4. /\ Bond(n) /\ Links /\ ~refused' /\ toward["back"] \in Queues
      /\ "front" \in Ends /\ "page" \in Ends /\ "back" \in Ends /\ "worker" \in Ends
  BY <1>1, Known DEF AgreeInv, Ends, Links
<1>5. CASE back[n] # "open"
  <2>1. back' = back /\ front' = front /\ toward' = Consumed("back")
    BY <1>2, <1>3, <1>5 DEF HearBack, Next1, frameVars
  <2>2. Flow("back", "none", <<>>)
    BY <1>2, <1>4, <2>1, FlowConsumed
  <2>3. Links'
    <3>1. \A legs : ~HasLeg(<<>>, legs)
      BY DEF HasLeg
    <3>. QED BY <1>1, <1>4, <2>1, <2>2, <3>1, LinksStay
  <2>4. ASSUME NEW k \in Calls PROVE Rests(k)
    <3>1. Spares("none", <<>>, k)
      BY SparesOne
    <3>2. Still(k)
      BY <2>2, <3>1, FlowStill
    <3>. QED BY <1>1, <2>1, <3>2 DEF Rests
  <2>. QED BY <2>3, <2>4, RestsAll
<1>6. CASE back[n] = "open"
  <2>1. front[n] = "open" /\ phase["front"] = "connected"
    BY <1>6, CallFacts
  <2>2. /\ toward' = HeardAndPosted("back", "front", <<m>>)
        /\ \/ m.leg = "value" /\ front' = front /\ back' = back
           \/ m.leg # "value" /\ front' = [front EXCEPT ![n] = "over"] /\ back' = [back EXCEPT ![n] = "ended"]
    BY <1>2, <1>3, <1>6, <2>1 DEF HearBack, Next1, frameVars
  <2>3. Flow("back", "page", <<m>>)
    <3>1. Flow("back", Peer("front"), Posts("front", <<m>>))
      BY <1>2, <1>4, <2>2, FlowHeard, Peers
    <3>. QED BY <2>1, <3>1, Peers DEF Posts
  <2>4. /\ \A k \in Calls : (k # n => front'[k] = front[k]) /\ (back'[k] = "open" => back[k] = "open")
        /\ m.leg = "value" => front'[n] = "open"
        /\ m.leg # "value" => front'[n] = "over" /\ Final(m, n)
    BY <1>2, <1>3, <2>1, <2>2, Known DEF Final
  <2>5. Links'
    <3>1. ~HasLeg(<<m>>, {"welcome"}) /\ \A k \in Calls : calls'[k] = "open" => calls[k] = "open"
      BY <1>1, <1>2, LegsOne
    <3>. QED BY <1>1, <1>4, <2>3, <2>4, <3>1, LinksStay
  <2>6. ASSUME NEW k \in Calls, k # n PROVE Bond(k)'
    <3>1. Still(k)
      BY <1>3, <2>3, <2>6, OtherStill
    <3>2. Rests(k)
      BY <1>1, <2>4, <2>6, <3>1 DEF Rests
    <3>. QED BY <3>2, RestsKeeps DEF AgreeInv
  <2>7. Bond(n)'
    <3>1. /\ toward'["page"] = toward["page"] \o <<m>> /\ toward'["front"] = toward["front"]
          /\ toward'["back"] = Tail(toward["back"]) /\ toward'["worker"] = toward["worker"]
      BY <1>4, <2>3 DEF Flow
    <3>2. Remembered(n) /\ FinalIsLast(toward'["page"], n) /\ (HasFinal(toward'["page"], n) => Final(m, n))
      BY <1>2, <1>4, <2>1, <3>1, BondsOne, PageTold DEF Bond
    <3>3. HasFinal(toward'["back"], n) => HasFinal(toward["back"], n)
      BY <1>2, <1>4, <3>1, TailBonds
    <3>4. Final(m, n) => front'[n] = "over" /\ served[n] = "over"
      <4>1. 1 \in DOMAIN toward["back"] /\ toward["back"][1] = m
        BY <1>2, <1>4, TailIs DEF Queues
      <4>2. Final(m, n) => HasFinal(toward["back"], n)
        BY <4>1 DEF HasFinal
      <4>3. Final(m, n) => m.leg # "value"
        BY DEF Final
      <4>. QED BY <1>4, <2>4, <4>2, <4>3 DEF Bond, Answered
    <3>5. Answered(n)'
      BY <1>1, <1>4, <3>1, <3>2, <3>3, <3>4 DEF Bond, Answered, Remembered
    <3>6. ServedOnce(n)'
      BY <1>1, <1>4, <3>1 DEF Bond, ServedOnce
    <3>7. Stopped(n)'
      <4>1. front'[n] = "over" => served'[n] = "over"
        BY <1>1, <2>4, <3>4
      <4>2. front'[n] # "over" => front'[n] = front[n]
        BY <2>1, <2>4
      <4>. QED BY <1>1, <1>4, <3>1, <4>1, <4>2 DEF Bond, Stopped, Told
    <3>. QED BY <3>5, <3>6, <3>7 DEF Bond
  <2>8. ASSUME NEW k \in Calls PROVE Bond(k)'
    BY <2>6, <2>7
  <2>. QED BY <2>5, <2>8 DEF AgreeInv
<1>. QED BY <1>5, <1>6

\* The worker hears the opening of a call, once, and serves it, unless it closed.
LEMMA ServeAgrees ==
  ASSUME WireAssumption, IInv, AgreeInv, Serve
  PROVE  AgreeInv'
<1>1. UNCHANGED <<phase, loaded, calls, lately, front, back>> /\ Hears("worker", {"request", "start"})
  BY DEF Serve, wireVars, pageVars, frameVars
<1>2. PICK m \in Message : m = Head(toward["worker"]) /\ toward["worker"] # <<>> /\ m.leg \in {"request", "start"}
  BY <1>1, HeadIs DEF Ends
<1>3. PICK n \in Calls : n = m.call
  BY <1>2, MessageKinds
<1>4. /\ Bond(n) /\ Links /\ toward["worker"] \in Queues /\ toward["back"] \in Queues
      /\ "front" \in Ends /\ "page" \in Ends /\ "back" \in Ends /\ "worker" \in Ends
      /\ phase["worker"] \in {"connecting", "connected", "closed"}
  BY Known DEF AgreeInv, Ends
<1>5. Opens(m, n) /\ HasOpening(toward["worker"], n) /\ phase["worker"] # "connecting"
  <2>1. Opens(m, n) /\ m.leg \in Asks
    BY <1>2, <1>3 DEF Opens, Asks
  <2>2. 1 \in DOMAIN toward["worker"] /\ toward["worker"][1] = m
    BY <1>2, <1>4, TailIs DEF Queues
  <2>3. HasOpening(toward["worker"], n) /\ HasLeg(toward["worker"], Asks)
    BY <2>1, <2>2 DEF HasOpening, HasLeg
  <2>. QED BY <1>4, <2>1, <2>3 DEF Links
<1>6. /\ served[n] = "none" /\ ~HasFinal(toward["back"], n) /\ Once(toward["worker"], n)
      /\ n \in Subscriptions => stops[n] = 0
  BY <1>4, <1>5 DEF Bond, Answered, ServedOnce
<1>7. /\ ~HasOpening(Tail(toward["worker"]), n) /\ Once(Tail(toward["worker"]), n)
      /\ StopAfter(toward["worker"], n) => StopAfter(Tail(toward["worker"]), n)
  BY <1>2, <1>4, <1>5, <1>6, TailBonds, KindsApart
<1>8. /\ refused' = (refused \/ phase["worker"] = "connecting")
      /\ \/ toward' = Consumed("worker") /\ served' = served /\ stops' = stops
         \/ toward' = Consumed("worker") /\ served' = [served EXCEPT ![n] = "open"] /\ stops' = stops
         \/ /\ phase["worker"] = "connected" /\ served' = [served EXCEPT ![n] = "over"]
            /\ \/ toward' = HeardAndPosted("worker", "worker", <<Msg("failed", n)>>) /\ stops' = stops
               \/ /\ toward' = HeardAndPosted("worker", "worker", <<Msg("interrupt", n)>>)
                  /\ stops' = [stops EXCEPT ![n] = @ + 1]
  <2>1. CASE phase["worker"] = "closed"
    BY <1>2, <1>3, <2>1 DEF Serve, Next1, workerVars
  <2>2. CASE phase["worker"] = "connected"
    BY <1>2, <1>3, <2>2 DEF Serve, Next1
  <2>. QED BY <1>4, <1>5, <2>1, <2>2
<1>9. ~refused'
  <2>1. ~refused /\ ~(phase["worker"] = "connecting")
    BY <1>4, <1>5 DEF Links
  <2>. QED BY <1>8, <2>1
<1>10. /\ \A k \in Calls : k # n => served'[k] = served[k] /\ stops'[k] = stops[k]
       /\ n \in Subscriptions => stops'[n] \in 0 .. 1 /\ (stops'[n] = 1 => served'[n] = "over")
  <2>1. CASE stops' = stops
    <3>1. \A k \in Calls : k # n => served'[k] = served[k]
      BY <1>8, Known
    <3>. QED BY <1>6, <2>1, <3>1
  <2>2. CASE served' = [served EXCEPT ![n] = "over"] /\ stops' = [stops EXCEPT ![n] = @ + 1]
    <3>1. stops \in [Calls -> Nat] /\ served \in [Calls -> {"none", "open", "over"}]
      BY Known
    <3>2. served'[n] = "over" /\ stops'[n] = stops[n] + 1
      BY <2>2, <3>1
    <3>3. \A k \in Calls : k # n => served'[k] = served[k] /\ stops'[k] = stops[k]
      BY <2>2, <3>1
    <3>. QED BY <1>6, <3>2, <3>3
  <2>. QED BY <1>8, <2>1, <2>2
<1>11. PICK f \in Message, w \in {"none", "back"}, msgs \in Queues :
         /\ msgs \in {<<>>, <<f>>} /\ Flow("worker", w, msgs) /\ f.call = n /\ f.leg \in {"interrupt", "failed"} /\ <<f>> \in Queues
         /\ msgs # <<>> => served'[n] = "over"
  <2>1. CASE toward' = Consumed("worker")
    <3>1. Flow("worker", "none", <<>>)
      BY <1>2, <1>4, <2>1, FlowConsumed
    <3>2. Msg("failed", n) \in Message /\ Msg("failed", n).call = n /\ Msg("failed", n).leg = "failed"
      BY MsgIs
    <3>3. <<Msg("failed", n)>> \in Queues
      BY <3>2, SilentIs
    <3>. QED BY <3>1, <3>2, <3>3, SilentIs
  <2>2. ASSUME phase["worker"] = "connected", served' = [served EXCEPT ![n] = "over"], NEW leg \in {"interrupt", "failed"},
               toward' = HeardAndPosted("worker", "worker", <<Msg(leg, n)>>)
        PROVE  Flow("worker", "back", <<Msg(leg, n)>>) /\ served'[n] = "over" /\ Msg(leg, n) \in Message
               /\ Msg(leg, n).call = n /\ Msg(leg, n).leg = leg /\ <<Msg(leg, n)>> \in Queues
    <3>1. Msg(leg, n) \in Message /\ Msg(leg, n).call = n /\ Msg(leg, n).leg = leg
      BY MsgIs
    <3>2. <<Msg(leg, n)>> \in Queues
      BY <3>1, SilentIs
    <3>3. Flow("worker", "back", Posts("worker", <<Msg(leg, n)>>))
      BY <1>2, <1>4, <2>2, <3>2, FlowHeard, Peers
    <3>4. served'[n] = "over"
      BY <2>2, Known
    <3>. QED BY <2>2, <3>1, <3>2, <3>3, <3>4 DEF Posts
  <2>. QED BY <1>8, <2>1, <2>2
<1>12. Links'
  <2>1. ~HasLeg(<<>>, {"welcome"}) /\ ~HasLeg(<<f>>, {"welcome"})
    BY <1>11, LegsOne
  <2>2. ~HasLeg(msgs, {"welcome"})
    BY <1>11, <2>1
  <2>3. \A k \in Calls : (calls'[k] = "open" => calls[k] = "open") /\ (back'[k] = "open" => back[k] = "open")
    BY <1>1
  <2>. QED BY <1>1, <1>4, <1>9, <1>11, <2>2, <2>3, LinksStay
<1>13. ASSUME NEW k \in Calls, k # n PROVE Bond(k)'
  <2>1. Still(k)
    BY <1>2, <1>3, <1>11, <1>13, OtherStill
  <2>2. Rests(k)
    BY <1>1, <1>10, <1>13, <2>1 DEF Rests
  <2>. QED BY <2>2, RestsKeeps DEF AgreeInv
<1>14. Bond(n)'
  <2>1. /\ toward'["worker"] = Tail(toward["worker"]) /\ toward'["page"] = toward["page"]
        /\ toward'["front"] = toward["front"]
        /\ w = "none" => toward'["back"] = toward["back"]
        /\ w = "back" => toward'["back"] = toward["back"] \o msgs
    BY <1>4, <1>11 DEF Flow
  <2>2. HasFinal(toward'["back"], n) => served'[n] = "over"
    <3>1. CASE w = "none"
      BY <1>6, <2>1, <3>1
    <3>2. CASE w = "back"
      <4>1. msgs = <<>> => toward["back"] \o msgs = toward["back"]
        BY <1>4 DEF Queues
      <4>. QED BY <1>6, <1>11, <2>1, <3>2, <4>1
    <3>. QED BY <3>1, <3>2
  <2>3. Answered(n)'
    BY <1>1, <1>4, <1>6, <2>1, <2>2 DEF Bond, Answered, Remembered
  <2>4. ServedOnce(n)'
    BY <1>7, <1>10, <2>1 DEF ServedOnce
  <2>5. Stopped(n)'
    <3>1. n \in Subscriptions /\ front[n] = "over" => phase["back"] = "closed" \/ StopAfter(toward'["worker"], n)
      BY <1>4, <1>5, <1>6, <1>7, <2>1 DEF Bond, Stopped, Told
    <3>. QED BY <1>1, <1>4, <1>6, <2>1, <3>1 DEF Bond, Stopped, Told
  <2>. QED BY <2>3, <2>4, <2>5 DEF Bond
<1>15. ASSUME NEW k \in Calls PROVE Bond(k)'
  BY <1>13, <1>14
<1>. QED BY <1>12, <1>15 DEF AgreeInv

\* What a running call's end leaves.
LEMMA EndOfServedAgrees ==
  ASSUME WireAssumption, IInv, AgreeInv, NEW n \in Calls, NEW leg \in {"response", "interrupt", "failed"},
         UNCHANGED <<phase, loaded, calls, lately, front, back, refused>>, served[n] = "open",
         served' = [served EXCEPT ![n] = "over"], toward' = Posted("worker", <<Msg(leg, n)>>),
         (stops' = stops /\ n \notin Subscriptions) \/ stops' = [stops EXCEPT ![n] = @ + 1]
  PROVE  AgreeInv'
<1>1. /\ Bond(n) /\ Links /\ ~refused' /\ phase["worker"] = "connected"
      /\ "front" \in Ends /\ "page" \in Ends /\ "back" \in Ends /\ "worker" \in Ends
  BY CallFacts DEF AgreeInv, Ends, Links
<1>2. PICK f \in Message : f = Msg(leg, n) /\ f.call = n /\ f.leg = leg /\ <<f>> \in Queues
  <2>1. leg \in {"stop", "response", "interrupt", "failed"}
    OBVIOUS
  <2>2. Msg(leg, n) \in Message /\ Msg(leg, n).call = n /\ Msg(leg, n).leg = leg
    BY <2>1, MsgIs
  <2>. QED BY <2>2, SilentIs
<1>3. Flow("none", "back", <<f>>)
  <2>1. Flow("none", Peer("worker"), Posts("worker", <<f>>))
    BY <1>1, <1>2, FlowPosted
  <2>. QED BY <1>1, <2>1, Peers DEF Posts
<1>4. /\ served'[n] = "over" /\ \A k \in Calls : k # n => served'[k] = served[k] /\ stops'[k] = stops[k]
      /\ n \in Subscriptions => stops'[n] = stops[n] + 1
  BY Known
<1>5. Links'
  <2>1. ~HasLeg(<<f>>, {"welcome"})
    BY <1>2, LegsOne
  <2>. QED BY <1>1, <1>3, <2>1, LinksStay
<1>6. ASSUME NEW k \in Calls, k # n PROVE Bond(k)'
  <2>1. Still(k)
    BY <1>2, <1>3, <1>6, OtherStill
  <2>2. Rests(k)
    BY <1>4, <1>6, <2>1 DEF Rests
  <2>. QED BY <2>2, RestsKeeps DEF AgreeInv
<1>7. Bond(n)'
  <2>1. /\ toward'["page"] = toward["page"] /\ toward'["front"] = toward["front"] /\ toward'["worker"] = toward["worker"]
    BY <1>1, <1>3 DEF Flow
  <2>2. Answered(n)'
    BY <1>1, <1>4, <2>1 DEF Bond, Answered, Remembered
  <2>3. ServedOnce(n)'
    <3>1. ~HasOpening(toward["worker"], n) /\ Once(toward["worker"], n)
      BY <1>1 DEF Bond, ServedOnce
    <3>2. n \in Subscriptions => stops[n] = 0
      BY <1>1 DEF Bond, ServedOnce
    <3>. QED BY <1>4, <2>1, <3>1, <3>2 DEF ServedOnce
  <2>4. Stopped(n)'
    BY <1>4 DEF Stopped
  <2>. QED BY <2>2, <2>3, <2>4 DEF Bond
<1>8. ASSUME NEW k \in Calls PROVE Bond(k)'
  BY <1>6, <1>7
<1>. QED BY <1>5, <1>8 DEF AgreeInv

\* A handler settles.
LEMMA AnswerAgrees ==
  ASSUME WireAssumption, IInv, AgreeInv, NEW n \in Requests, NEW leg \in {"response", "failed"}, Answer(n, leg)
  PROVE  AgreeInv'
<1>1. n \in Calls /\ n \notin Subscriptions
  BY DEF WireAssumption, Calls
<1>. QED BY <1>1, EndOfServedAgrees DEF Answer, wireVars, pageVars, frameVars

\* A subscription ends at the worker.
LEMMA EndServedAgrees ==
  ASSUME WireAssumption, IInv, AgreeInv, NEW n \in Subscriptions, NEW leg \in {"interrupt", "failed"}, EndServed(n, leg)
  PROVE  AgreeInv'
<1>1. n \in Calls
  BY DEF Calls
<1>. QED BY <1>1, EndOfServedAgrees DEF EndServed, wireVars, pageVars, frameVars

\* A value is sent.
LEMMA SendValueAgrees ==
  ASSUME WireAssumption, IInv, AgreeInv, NEW n \in Subscriptions, SendValue(n)
  PROVE  AgreeInv'
<1>1. /\ UNCHANGED <<phase, loaded, calls, lately, front, back, served, stops, refused>>
      /\ sent[n] < MaxValues /\ sent' = [sent EXCEPT ![n] = @ + 1]
      /\ toward' = Posted("worker", <<[leg |-> "value", call |-> n, value |-> sent'[n]]>>)
  BY DEF SendValue, wireVars, pageVars, frameVars
<1>2. n \in Calls /\ sent'[n] \in Values
  <2>1. n \in Calls
    BY DEF Calls
  <2>2. sent \in [Calls -> 0 .. MaxValues] /\ MaxValues \in Nat
    BY Known DEF WireAssumption
  <2>3. sent'[n] = sent[n] + 1 /\ sent[n] \in 0 .. MaxValues
    BY <1>1, <2>1, <2>2
  <2>. QED BY <1>1, <2>1, <2>2, <2>3 DEF Values
<1>3. PICK m \in Message : m.leg = "value" /\ toward' = Posted("worker", <<m>>) /\ <<m>> \in Queues
  BY <1>1, <1>2, ValueIs, SilentIs
<1>4. PICK msgs \in {<<>>, <<m>>} : Flow("none", "back", msgs)
  <2>1. Flow("none", Peer("worker"), Posts("worker", <<m>>))
    BY <1>3, FlowPosted DEF Ends
  <2>. QED BY <2>1, PostsNone, Peers
<1>5. Links'
  <2>1. ~HasLeg(<<>>, {"welcome"}) /\ ~HasLeg(<<m>>, {"welcome"})
    BY <1>3, LegsOne
  <2>2. ~HasLeg(msgs, {"welcome"}) /\ Links /\ ~refused'
    BY <1>1, <2>1 DEF AgreeInv, Links
  <2>. QED BY <1>1, <1>4, <2>2, LinksStay
<1>6. ASSUME NEW k \in Calls PROVE Rests(k)
  <2>1. ~Final(m, k)
    BY <1>3 DEF Final
  <2>2. Spares("back", <<>>, k) /\ Spares("back", <<m>>, k)
    BY <2>1, SparesOne
  <2>3. Spares("back", msgs, k)
    BY <2>2
  <2>4. Still(k)
    BY <1>4, <2>3, FlowStill
  <2>. QED BY <1>1, <2>4 DEF Rests
<1>. QED BY <1>5, <1>6, RestsAll

\* The worker hears a stop: what runs stops, and nothing of the call comes after it.
LEMMA ServeStopAgrees ==
  ASSUME WireAssumption, IInv, AgreeInv, ServeStop
  PROVE  AgreeInv'
<1>1. UNCHANGED <<phase, loaded, calls, lately, front, back>> /\ Hears("worker", {"stop"})
  BY DEF ServeStop, wireVars, pageVars, frameVars
<1>2. PICK m \in Message : m = Head(toward["worker"]) /\ toward["worker"] # <<>> /\ m.leg = "stop"
  BY <1>1, HeadIs DEF Ends
<1>3. PICK n \in Calls : n = m.call
  BY <1>2, MessageKinds
<1>4. /\ Bond(n) /\ Links /\ toward["worker"] \in Queues
      /\ "front" \in Ends /\ "page" \in Ends /\ "back" \in Ends /\ "worker" \in Ends
  BY Known DEF AgreeInv, Ends
<1>5. /\ \/ served[n] = "open" /\ served' = [served EXCEPT ![n] = "over"] /\ stops' = [stops EXCEPT ![n] = @ + 1]
         \/ served[n] # "open" /\ served' = served /\ stops' = stops
      /\ refused' = (refused \/ phase["worker"] = "connecting") /\ toward' = Consumed("worker")
  BY <1>2, <1>3 DEF ServeStop, Next1
<1>6. ~refused'
  <2>1. HasLeg(toward["worker"], Asks)
    <3>1. 1 \in DOMAIN toward["worker"] /\ toward["worker"][1] = m /\ m.leg \in Asks
      BY <1>2, <1>4, TailIs DEF Queues, Asks
    <3>. QED BY <3>1 DEF HasLeg
  <2>2. ~refused /\ ~(phase["worker"] = "connecting")
    BY <1>4, <2>1 DEF Links
  <2>. QED BY <1>5, <2>2
<1>7. Flow("worker", "none", <<>>)
  BY <1>2, <1>4, <1>5, FlowConsumed
<1>8. /\ \A k \in Calls : k # n => served'[k] = served[k] /\ stops'[k] = stops[k]
      /\ served[n] = "open" => served'[n] = "over" /\ stops'[n] = stops[n] + 1
      /\ served[n] # "open" => served'[n] = served[n] /\ stops'[n] = stops[n]
  BY <1>5, Known
<1>9. Links'
  <2>1. \A legs : ~HasLeg(<<>>, legs)
    BY DEF HasLeg
  <2>. QED BY <1>1, <1>4, <1>6, <1>7, <2>1, LinksStay
<1>10. ASSUME NEW k \in Calls, k # n PROVE Bond(k)'
  <2>1. Still(k)
    BY <1>2, <1>3, <1>7, <1>10, OtherStill
  <2>2. Rests(k)
    BY <1>1, <1>8, <1>10, <2>1 DEF Rests
  <2>. QED BY <2>2, RestsKeeps DEF AgreeInv
<1>11. Bond(n)'
  <2>1. /\ toward'["worker"] = Tail(toward["worker"]) /\ toward'["page"] = toward["page"]
        /\ toward'["front"] = toward["front"] /\ toward'["back"] = toward["back"]
    BY <1>4, <1>7 DEF Flow
  <2>2. /\ HasOpening(toward'["worker"], n) => HasOpening(toward["worker"], n)
        /\ Once(toward["worker"], n) => Once(toward'["worker"], n)
        /\ StopAfter(toward["worker"], n) => StopAfter(toward'["worker"], n) \/ ~HasOpening(toward'["worker"], n)
    BY <1>2, <1>4, <2>1, TailBonds
  <2>3. served[n] \in {"none", "open", "over"}
    BY CallFacts
  <2>4. Answered(n)'
    BY <1>1, <1>4, <1>8, <2>1 DEF Bond, Answered, Remembered
  <2>5. ServedOnce(n)'
    BY <1>4, <1>8, <2>2 DEF Bond, ServedOnce
  <2>6. Stopped(n)'
    BY <1>1, <1>4, <1>8, <2>1, <2>2, <2>3 DEF Bond, Stopped, Told
  <2>. QED BY <2>4, <2>5, <2>6 DEF Bond
<1>12. ASSUME NEW k \in Calls PROVE Bond(k)'
  BY <1>10, <1>11
<1>. QED BY <1>9, <1>12 DEF AgreeInv

\* What is posted for each of a set of calls, once.
LEMMA EndsSaid ==
  ASSUME WireAssumption, NEW S \in SUBSET Calls, NEW order \in SetToSeqs(S), NEW leg \in {"stop", "failed"},
         NEW msgs, msgs = [i \in DOMAIN order |-> Msg(leg, order[i])]
  PROVE  /\ msgs \in Queues /\ \A k : ~HasOpening(msgs, k) /\ FinalIsLast(msgs, k)
         /\ \A legs : HasLeg(msgs, legs) => leg \in legs /\ S # {}
         /\ leg = "stop" => \A k \in S : HasStop(msgs, k)
         /\ \A k : HasAnswer(msgs, k) \/ HasFinal(msgs, k) => k \in S
<1>1. PICK n \in Nat : n = Cardinality(S) /\ IsFiniteSet(S)
  BY FS_Subset, FS_CardinalityType DEF WireAssumption
<1>2. order \in [1 .. n -> S] /\ \A i, j \in 1 .. n : i # j => order[i] # order[j]
  BY <1>1 DEF SetToSeqs
<1>3. \A k \in S : \E i \in 1 .. n : order[i] = k
  <2>1. order \in Injection(1 .. n, S) /\ Cardinality(1 .. n) = n
    BY <1>2, FS_Interval DEF Injection, IsInjective
  <2>2. order \in Surjection(1 .. n, S)
    BY <1>1, <2>1, FS_Injection
  <2>. QED BY <2>2 DEF Surjection
<1>4. /\ DOMAIN msgs = 1 .. n
      /\ \A i \in 1 .. n : order[i] \in S /\ msgs[i].leg = leg /\ msgs[i].call = order[i]
  BY <1>2 DEF Msg
<1>5. msgs \in Queues
  BY EndsPosted
<1>6. ASSUME NEW k PROVE ~HasOpening(msgs, k) /\ FinalIsLast(msgs, k)
  <2>1. ~HasOpening(msgs, k)
    BY <1>4 DEF HasOpening, Opens
  <2>2. ASSUME NEW i \in DOMAIN msgs, NEW j \in DOMAIN msgs, Final(msgs[i], k), Answers(msgs[j], k) PROVE j <= i
    <3>1. msgs[i].call = k /\ msgs[j].call = k
      BY <2>2 DEF Final, Answers, Carries
    <3>2. i = j /\ i \in Nat
      BY <1>2, <1>4, <3>1
    <3>. QED BY <3>2
  <2>. QED BY <2>1, <2>2 DEF FinalIsLast
<1>7. ASSUME NEW legs, HasLeg(msgs, legs) PROVE leg \in legs /\ S # {}
  BY <1>4, <1>7 DEF HasLeg
<1>8. ASSUME leg = "stop", NEW k \in S PROVE HasStop(msgs, k)
  BY <1>3, <1>4, <1>8 DEF HasStop, Stops
<1>9. ASSUME NEW k, HasAnswer(msgs, k) \/ HasFinal(msgs, k) PROVE k \in S
  BY <1>4, <1>9 DEF HasAnswer, HasFinal, Answers, Final, Carries
<1>. QED BY <1>5, <1>6, <1>7, <1>8, <1>9

\* The links as an end closes.
LEMMA LinksClosed ==
  ASSUME IInv, Links, NEW e \in Ends, Shut(e), NEW w, NEW msgs, Flow("none", w, msgs), ~refused', loaded' = loaded,
         \A n \in Calls : /\ calls'[n] = "open" => calls[n] = "open" /\ e # "page"
                          /\ back'[n] = "open" => back[n] = "open" /\ e # "back",
         ~HasLeg(msgs, {"welcome"}),
         w \in {"front", "worker"} /\ HasLeg(msgs, Asks) => phase[Peer(w)] = "connected",
         e = "front" => loaded, w # "front"
  PROVE  Links'
<1>1. /\ "page" \in Ends /\ "back" \in Ends /\ "front" \in Ends /\ "worker" \in Ends
  BY DEF Ends
<1>2. phase'[e] = "closed" /\ \A x \in Ends \ {e} : phase'[x] = phase[x]
  BY ShutIs, Known DEF Shut
<1>3. ~loaded => toward'["front"] = toward["front"] /\ phase'["front"] = phase["front"]
  BY <1>1, <1>2 DEF Flow
<1>4. \A n \in Calls : /\ calls'[n] = "open" => phase'["page"] = "connected"
                       /\ back'[n] = "open" => phase'["back"] = "connected"
  BY <1>1, <1>2 DEF Links
<1>5. ASSUME NEW a \in {"front", "worker"}, phase'[a] = "connecting"
      PROVE  /\ phase[a] = "connecting"
             /\ phase'[Peer(a)] = "connected" => phase[Peer(a)] = "connected"
             /\ HasLeg(toward'[Peer(a)], {"welcome"}) => HasLeg(toward[Peer(a)], {"welcome"})
             /\ HasLeg(toward'[a], Asks) => HasLeg(toward[a], Asks) \/ phase[Peer(a)] = "connected"
  <2>1. a \in Ends /\ Peer(a) \in Ends
    BY <1>1, Peers
  <2>2. phase[a] = "connecting" /\ (phase'[Peer(a)] = "connected" => phase[Peer(a)] = "connected")
    BY <1>2, <1>5, <2>1
  <2>3. HasLeg(toward'[Peer(a)], {"welcome"}) => HasLeg(toward[Peer(a)], {"welcome"})
    BY <2>1, FlowLegs
  <2>4. HasLeg(toward'[a], Asks) => HasLeg(toward[a], Asks) \/ (a = w /\ HasLeg(msgs, Asks))
    BY <2>1, FlowLegs
  <2>. QED BY <2>2, <2>3, <2>4
<1>. QED BY <1>3, <1>4, <1>5, LinksKeep

\* The page closes, and its calls with it.
LEMMA ClosePageAgrees ==
  ASSUME WireAssumption, IInv, AgreeInv, ClosePage
  PROVE  AgreeInv'
<1>1. /\ UNCHANGED <<toward, loaded, front, back, served, stops, refused>> /\ Shut("page")
      /\ calls' = [n \in Calls |-> IF calls[n] = "open" THEN "ended" ELSE calls[n]]
  BY DEF ClosePage, frameVars, workerVars
<1>2. "page" \in Ends /\ "back" \in Ends /\ phase'["page"] = "closed" /\ phase'["back"] = phase["back"]
  BY <1>1, ShutIs, Known DEF Ends
<1>3. Links'
  <2>1. Flow("none", "nobody", <<>>) /\ \A legs : ~HasLeg(<<>>, legs)
    BY <1>1, FlowNothing DEF HasLeg
  <2>2. Links /\ ~refused' /\ \A n \in Calls : calls'[n] # "open"
    BY <1>1 DEF AgreeInv, Links
  <2>. QED BY <1>1, <1>2, <2>1, <2>2, LinksClosed
<1>4. ASSUME NEW n \in Calls PROVE Bond(n)'
  <2>1. Bond(n)
    BY DEF AgreeInv
  <2>2. Answered(n)'
    BY <1>1, <1>2, <2>1 DEF Bond, Answered, Remembered
  <2>3. ServedOnce(n)'
    BY <1>1, <2>1 DEF Bond, ServedOnce
  <2>4. Stopped(n)'
    BY <1>1, <1>2, <2>1 DEF Bond, Stopped, Told
  <2>. QED BY <2>2, <2>3, <2>4 DEF Bond
<1>. QED BY <1>3, <1>4 DEF AgreeInv

\* The near end in the frame closes: what it has open at the worker is stopped there, and what waits never goes out.
LEMMA CloseFrontAgrees ==
  ASSUME WireAssumption, IInv, AgreeInv, CloseFront
  PROVE  AgreeInv'
<1>1. /\ UNCHANGED <<loaded, calls, lately, served, stops, refused>> /\ Shut("front") /\ loaded
      /\ front' = [n \in Calls |-> IF n \in {k \in Calls : front[k] = "open"} THEN "over" ELSE front[n]]
      /\ back' = [n \in Calls |-> IF n \in {k \in Calls : front[k] = "open"} THEN "ended" ELSE back[n]]
  BY DEF CloseFront, pageVars, workerVars
<1>2. /\ "page" \in Ends /\ "back" \in Ends /\ "front" \in Ends /\ "worker" \in Ends
      /\ phase'["page"] = phase["page"] /\ phase'["back"] = phase["back"]
  BY <1>1, ShutIs DEF Ends
<1>3. PICK S \in SUBSET Calls : /\ \E order \in SetToSeqs(S) : toward' = Posted("back", [i \in DOMAIN order |-> Msg("stop", order[i])])
                                /\ S = {n \in {k \in Calls : front[k] = "open"} \cap Subscriptions : back[n] = "open"}
  BY DEF CloseFront
<1>4. \A k \in Calls : back[k] = "open" => phase["back"] = "connected"
  BY DEF AgreeInv, Links
<1>5. PICK msgs \in Queues :
        /\ Flow("none", "worker", msgs) /\ \A k : ~HasOpening(msgs, k)
        /\ \A legs : HasLeg(msgs, legs) => "stop" \in legs /\ phase["back"] = "connected"
        /\ \A k \in S : HasStop(msgs, k)
  <2>1. PICK order \in SetToSeqs(S) : toward' = Posted("back", [i \in DOMAIN order |-> Msg("stop", order[i])])
    BY <1>3
  <2>2. PICK out : /\ out = [i \in DOMAIN order |-> Msg("stop", order[i])] /\ toward' = Posted("back", out)
    BY <2>1
  <2>3. /\ out \in Queues /\ \A k : ~HasOpening(out, k)
        /\ \A legs : HasLeg(out, legs) => "stop" \in legs /\ S # {}
        /\ \A k \in S : HasStop(out, k)
    BY <2>2, EndsSaid
  <2>4. Flow("none", "worker", Posts("back", out))
    BY <1>2, <2>2, <2>3, FlowPosted, Peers
  <2>5. S # {} => phase["back"] = "connected"
    BY <1>3, <1>4
  <2>6. CASE S # {}
    <3>1. Posts("back", out) = out
      BY <2>5, <2>6 DEF Posts
    <3>. QED BY <2>3, <2>4, <2>5, <3>1
  <2>7. CASE S = {}
    <3>1. ASSUME NEW q \in {<<>>, out}
          PROVE  /\ q \in Queues /\ \A k : ~HasOpening(q, k)
                 /\ \A legs : HasLeg(q, legs) => "stop" \in legs /\ phase["back"] = "connected"
      <4>1. <<>> \in Queues /\ (\A k : ~HasOpening(<<>>, k)) /\ \A legs : ~HasLeg(<<>>, legs)
        BY SilentIs DEF HasOpening, HasLeg
      <4>. QED BY <2>3, <2>7, <4>1
    <3>2. Posts("back", out) \in {<<>>, out}
      BY PostsNone
    <3>. QED BY <2>4, <2>7, <3>1, <3>2
  <2>. QED BY <2>6, <2>7
<1>6. \A n \in Calls : /\ front[n] = "open" => front'[n] = "over" /\ back'[n] = "ended"
                       /\ front[n] # "open" => front'[n] = front[n] /\ back'[n] = back[n]
  BY <1>1
<1>7. Links'
  <2>1. ~HasLeg(msgs, {"welcome"})
    BY <1>5
  <2>2. "worker" \in {"front", "worker"} /\ HasLeg(msgs, Asks) => phase[Peer("worker")] = "connected"
    BY <1>5, Peers
  <2>3. Links /\ ~refused' /\ \A n \in Calls : back'[n] = "open" => back[n] = "open"
    BY <1>1, <1>6 DEF AgreeInv, Links
  <2>. QED BY <1>1, <1>2, <1>5, <2>1, <2>2, <2>3, LinksClosed
<1>8. /\ toward'["page"] = toward["page"] /\ toward'["front"] = toward["front"] /\ toward'["back"] = toward["back"]
      /\ toward'["worker"] = toward["worker"] \o msgs /\ toward["worker"] \in Queues
  BY <1>2, <1>5, Known DEF Flow
<1>9. ASSUME NEW n \in Calls PROVE Bond(n)'
  <2>1. Bond(n)
    BY DEF AgreeInv
  <2>2. /\ HasOpening(toward'["worker"], n) <=> HasOpening(toward["worker"], n)
        /\ Once(toward["worker"], n) => Once(toward'["worker"], n)
        /\ StopAfter(toward["worker"], n) => StopAfter(toward'["worker"], n)
        /\ HasStop(msgs, n) => StopAfter(toward'["worker"], n)
    BY <1>5, <1>8, MoreBonds
  <2>3. n \in Subscriptions /\ front[n] = "open" => Told(n)'
    <3>1. CASE back[n] = "open"
      BY <1>3, <1>5, <2>2, <3>1 DEF Told
    <3>2. CASE back[n] = "queued"
      BY <1>1, <2>2, <3>2, CallFacts DEF Told
    <3>. QED BY <3>1, <3>2, CallFacts
  <2>4. Answered(n)'
    BY <1>1, <1>2, <1>6, <1>8, <2>1 DEF Bond, Answered, Remembered
  <2>5. ServedOnce(n)'
    BY <1>1, <2>1, <2>2 DEF Bond, ServedOnce
  <2>6. Stopped(n)'
    <3>1. n \in Subscriptions /\ front[n] = "over" => phase["back"] = "closed" \/ served[n] = "over" \/ Told(n)'
      BY <1>1, <2>1, <2>2 DEF Bond, Stopped, Told
    <3>2. front'[n] = "over" => front[n] \in {"open", "over"}
      BY <1>6
    <3>3. front'[n] = "open" => front[n] = "open"
      BY <1>6
    <3>. QED BY <1>1, <1>2, <1>8, <2>1, <2>3, <3>1, <3>2, <3>3 DEF Bond, Stopped
  <2>. QED BY <2>4, <2>5, <2>6 DEF Bond
<1>. QED BY <1>7, <1>9 DEF AgreeInv

\* The far end in the frame closes: each call that went out fails back to the page.
LEMMA CloseBackAgrees ==
  ASSUME WireAssumption, IInv, AgreeInv, CloseBack
  PROVE  AgreeInv'
<1>1. /\ UNCHANGED <<loaded, calls, lately, served, stops, refused>> /\ Shut("back")
      /\ front' = [n \in Calls |-> IF n \in {k \in Calls : back[k] = "open"} THEN "over" ELSE front[n]]
      /\ back' = [n \in Calls |-> IF n \in {k \in Calls : back[k] = "open"} THEN "ended" ELSE back[n]]
  BY DEF CloseBack, pageVars, workerVars
<1>2. /\ "page" \in Ends /\ "back" \in Ends /\ "front" \in Ends /\ "worker" \in Ends
      /\ phase'["page"] = phase["page"] /\ phase'["back"] = "closed"
  BY <1>1, ShutIs, Known DEF Ends
<1>3. PICK S \in SUBSET Calls : /\ \E order \in SetToSeqs(S) : toward' = Posted("front", [i \in DOMAIN order |-> Msg("failed", order[i])])
                                /\ S = {n \in {k \in Calls : back[k] = "open"} : front[n] = "open"}
  BY DEF CloseBack
<1>4. PICK msgs \in Queues :
        /\ Flow("none", "page", msgs) /\ \A k : FinalIsLast(msgs, k)
        /\ \A legs : HasLeg(msgs, legs) => "failed" \in legs
        /\ \A k : HasAnswer(msgs, k) \/ HasFinal(msgs, k) => k \in S
  <2>1. PICK order \in SetToSeqs(S) : toward' = Posted("front", [i \in DOMAIN order |-> Msg("failed", order[i])])
    BY <1>3
  <2>2. PICK out : /\ out = [i \in DOMAIN order |-> Msg("failed", order[i])] /\ toward' = Posted("front", out)
    BY <2>1
  <2>3. /\ out \in Queues /\ \A k : FinalIsLast(out, k)
        /\ \A legs : HasLeg(out, legs) => "failed" \in legs
        /\ \A k : HasAnswer(out, k) \/ HasFinal(out, k) => k \in S
    BY <2>2, EndsSaid
  <2>4. /\ <<>> \in Queues /\ \A k : FinalIsLast(<<>>, k) /\ ~HasAnswer(<<>>, k) /\ ~HasFinal(<<>>, k)
        /\ \A legs : ~HasLeg(<<>>, legs)
    BY SilentIs DEF FinalIsLast, HasAnswer, HasFinal, HasLeg
  <2>5. Flow("none", "page", Posts("front", out))
    BY <1>2, <2>2, <2>3, FlowPosted, Peers
  <2>6. CASE Posts("front", out) = out
    BY <2>3, <2>5, <2>6
  <2>7. CASE Posts("front", out) = <<>>
    BY <2>4, <2>5, <2>7
  <2>. QED BY <2>6, <2>7, PostsNone
<1>5. \A n \in Calls : /\ back[n] = "open" => front'[n] = "over" /\ back'[n] = "ended"
                       /\ back[n] # "open" => front'[n] = front[n] /\ back'[n] = back[n]
  BY <1>1
<1>6. Links'
  <2>1. ~HasLeg(msgs, {"welcome"})
    BY <1>4
  <2>2. Links /\ ~refused' /\ (\A n \in Calls : back'[n] # "open") /\ (\A n \in Calls : calls'[n] = "open" => calls[n] = "open")
    BY <1>1, <1>5 DEF AgreeInv, Links
  <2>. QED BY <1>1, <1>2, <1>4, <2>1, <2>2, LinksClosed
<1>7. /\ toward'["page"] = toward["page"] \o msgs /\ toward'["front"] = toward["front"]
      /\ toward'["back"] = toward["back"] /\ toward'["worker"] = toward["worker"]
  BY <1>2, <1>4 DEF Flow
<1>8. ASSUME NEW n \in Calls, back[n] # "open" PROVE Bond(n)'
  <2>1. Still(n)
    <3>1. Spares("page", msgs, n)
      BY <1>3, <1>4, <1>8 DEF Spares
    <3>. QED BY <1>4, <3>1, FlowStill
  <2>2. Rests(n)
    BY <1>1, <1>2, <1>5, <1>8, <2>1 DEF Rests
  <2>. QED BY <2>2, RestsKeeps DEF AgreeInv
<1>9. ASSUME NEW n \in Calls, back[n] = "open" PROVE Bond(n)'
  <2>1. Bond(n) /\ front[n] = "open"
    BY <1>9, CallFacts DEF AgreeInv
  <2>2. Remembered(n) /\ FinalIsLast(toward'["page"], n)
    BY <1>4, <1>7, <2>1, PageTold DEF Bond
  <2>3. Answered(n)'
    BY <1>1, <1>2, <1>5, <1>7, <1>9, <2>1, <2>2 DEF Bond, Answered, Remembered
  <2>4. ServedOnce(n)'
    BY <1>1, <1>7, <2>1 DEF Bond, ServedOnce
  <2>5. Stopped(n)'
    BY <1>2 DEF Stopped
  <2>. QED BY <2>3, <2>4, <2>5 DEF Bond
<1>10. ASSUME NEW n \in Calls PROVE Bond(n)'
  BY <1>8, <1>9
<1>. QED BY <1>6, <1>10 DEF AgreeInv

\* The worker closes: what it ran stops, without a word.
LEMMA CloseWorkerAgrees ==
  ASSUME WireAssumption, IInv, AgreeInv, CloseWorker
  PROVE  AgreeInv'
<1>1. /\ UNCHANGED <<toward, loaded, calls, lately, front, back, refused>> /\ Shut("worker")
      /\ served' = [n \in Calls |-> IF served[n] = "open" THEN "over" ELSE served[n]]
      /\ stops' = [n \in Calls |-> IF n \in Subscriptions /\ served[n] = "open" THEN stops[n] + 1 ELSE stops[n]]
  BY DEF CloseWorker, pageVars, frameVars
<1>2. "page" \in Ends /\ "back" \in Ends /\ "worker" \in Ends /\ phase'["page"] = phase["page"] /\ phase'["back"] = phase["back"]
  BY <1>1, ShutIs DEF Ends
<1>3. Links'
  <2>1. Flow("none", "nobody", <<>>) /\ \A legs : ~HasLeg(<<>>, legs)
    BY <1>1, FlowNothing DEF HasLeg
  <2>2. Links /\ ~refused'
    BY <1>1 DEF AgreeInv, Links
  <2>. QED BY <1>1, <1>2, <2>1, <2>2, LinksClosed
<1>4. ASSUME NEW n \in Calls PROVE Bond(n)'
  <2>1. Bond(n)
    BY DEF AgreeInv
  <2>2. /\ served[n] = "over" => served'[n] = "over"
        /\ served[n] = "none" => served'[n] = "none"
        /\ served[n] = "open" => served'[n] = "over"
        /\ n \in Subscriptions => stops'[n] = stops[n] \/ (served[n] = "open" /\ stops'[n] = stops[n] + 1)
    BY <1>1
  <2>3. Answered(n)'
    BY <1>1, <1>2, <2>1, <2>2 DEF Bond, Answered, Remembered
  <2>4. ServedOnce(n)'
    BY <1>1, <2>1, <2>2 DEF Bond, ServedOnce
  <2>5. Stopped(n)'
    BY <1>1, <1>2, <2>1, <2>2 DEF Bond, Stopped, Told
  <2>. QED BY <2>3, <2>4, <2>5 DEF Bond
<1>. QED BY <1>3, <1>4 DEF AgreeInv

----------------------------------------------------------------------------
(* The ends agree. *)

\* The second invariant holds at the start.
LEMMA InitAgrees ==
  ASSUME WireAssumption, Init
  PROVE  AgreeInv
<1>1. /\ \A e \in Ends : toward[e] = <<>> /\ phase[e] = "connecting"
      /\ ~refused /\ ~loaded
      /\ \A n \in Calls : calls[n] = "idle" /\ front[n] = "none" /\ back[n] = "idle" /\ served[n] = "none" /\ stops[n] = 0
  BY DEF Init
<1>2. /\ "page" \in Ends /\ "back" \in Ends /\ "front" \in Ends /\ "worker" \in Ends
  BY DEF Ends
<1>3. /\ \A legs : ~HasLeg(<<>>, legs)
      /\ \A n : ~HasOpening(<<>>, n) /\ ~HasAnswer(<<>>, n) /\ ~HasFinal(<<>>, n) /\ FinalIsLast(<<>>, n) /\ Once(<<>>, n)
  BY DEF HasLeg, HasOpening, HasAnswer, HasFinal, FinalIsLast, Once
<1>4. Links
  BY <1>1, <1>2, <1>3, Peers DEF Links
<1>5. ASSUME NEW n \in Calls PROVE Bond(n)
  BY <1>1, <1>2, <1>3 DEF Bond, Answered, ServedOnce, Stopped
<1>. QED BY <1>4, <1>5 DEF AgreeInv

\* Every action keeps it.
LEMMA NextAgrees ==
  ASSUME WireAssumption, IInv, AgreeInv, Next
  PROVE  AgreeInv'
<1>1. CASE Deliver
  BY <1>1, HearOfferAgrees, HearAnswerAgrees, HearPageAgrees, HearOpeningAgrees, HearStopAgrees, HearBackAgrees,
     ServeAgrees, ServeStopAgrees DEF Deliver
<1>2. CASE Load \/ FlushPage \/ FlushBack \/ \E o \in Openers : Offer(o)
  BY <1>2, LoadAgrees, FlushPageAgrees, FlushBackAgrees, OfferAgrees
<1>3. CASE \E n \in Calls : Call(n) \/ (\E aborts \in BOOLEAN : Leave(n, aborts))
  BY <1>3, CallAgrees, LeaveAgrees
<1>4. CASE \E n \in Requests : \E leg \in {"response", "failed"} : Answer(n, leg)
  BY <1>4, AnswerAgrees
<1>5. CASE \E n \in Subscriptions : SendValue(n) \/ (\E leg \in {"interrupt", "failed"} : EndServed(n, leg))
  BY <1>5, SendValueAgrees, EndServedAgrees
<1>6. CASE ClosePage \/ CloseFront \/ CloseBack \/ CloseWorker
  BY <1>6, ClosePageAgrees, CloseFrontAgrees, CloseBackAgrees, CloseWorkerAgrees
<1>. QED BY <1>1, <1>2, <1>3, <1>4, <1>5, <1>6 DEF Next

\* Every step keeps it.
LEMMA StepAgrees ==
  ASSUME WireAssumption, IInv, AgreeInv, [Next]_vars
  PROVE  AgreeInv'
<1>1. CASE Next
  BY <1>1, NextAgrees
<1>2. CASE UNCHANGED vars
  <2>1. UNCHANGED <<phase, toward, loaded, calls, lately, front, back, served, stops, refused>>
    BY <1>2 DEF vars
  <2>2. Links'
    BY <2>1 DEF AgreeInv, Links
  <2>3. ASSUME NEW n \in Calls PROVE Rests(n)
    BY <2>1, SameStill DEF Rests
  <2>. QED BY <2>2, <2>3, RestsAll
<1>. QED BY <1>1, <1>2

\* Both invariants hold throughout.
LEMMA Agreement ==
  ASSUME WireAssumption
  PROVE  Spec => [](IInv /\ AgreeInv)
<1>1. IInv /\ AgreeInv /\ [Next]_vars => IInv' /\ AgreeInv'
  BY StepKeeps, StepAgrees DEF Kept
<1>2. Init => IInv /\ AgreeInv
  BY InitHolds, InitAgrees
<1>. QED BY <1>1, <1>2, PTL DEF Spec

\* What stops a subscription that runs for a call that ended: it is at the frame only if its stop is on the way there.
LEMMA OrphansAre ==
  ASSUME WireAssumption, IInv, AgreeInv
  PROVE  OrphansAreStopped
<1>1. ASSUME NEW n \in Subscriptions, served[n] = "open", calls[n] = "ended"
      PROVE  \/ \E e \in {"page", "back"} : phase[e] = "closed"
             \/ InTransit("front", "stop", n) \/ InTransit("worker", "stop", n)
  <2>1. n \in Calls
    BY DEF Calls
  <2>2. \A e : StopAfter(toward[e], n) => InTransit(e, "stop", n)
    BY DEF StopAfter, Stops, InTransit
  <2>3. ~HasOpening(toward["front"], n) /\ front[n] # "open" => front[n] = "over"
    BY <1>1, <2>1, CallFacts
  <2>4. Stopped(n)
    BY <2>1 DEF AgreeInv, Bond
  <2>. QED BY <1>1, <2>2, <2>3, <2>4 DEF Stopped, Told
<1>2. ASSUME NEW n \in Subscriptions PROVE stops[n] <= 1 /\ (stops[n] = 1 => served[n] = "over")
  <2>1. n \in Calls
    BY DEF Calls
  <2>. QED BY <2>1 DEF AgreeInv, Bond, ServedOnce
<1>. QED BY <1>1, <1>2 DEF OrphansAreStopped

\* No open end refuses a message, however the calls, the ends and the closes cross on the two links, and a
\* subscription that still runs for a call of the page's that ended has its stop on the way, unless an end it would
\* pass closed; its stop function runs once (answerEarly, refuseStray, stopWith, dropAll, finish).
THEOREM WireCallsAgree ==
  ASSUME WireAssumption
  PROVE  Spec => []CallsAgree
<1>1. IInv /\ AgreeInv => CallsAgree
  BY Known, OrphansAre DEF CallsAgree, NothingRefused, AgreeInv, Links
<1>. QED BY <1>1, Agreement, PTL

=============================================================================
