------------------------- MODULE RemoteChainsProofs -------------------------
(***************************************************************************)
(* Theorems about RemoteChains, for any number of connections, requests and *)
(* timeouts, and any limit of the scope.                                    *)
(*                                                                          *)
(* The inductive invariant has three layers.  EndsInv relates the page's    *)
(* end of a connection, the scope's and what is on the wire between them.   *)
(* SentInv follows a request from the page to the chain: those that reached *)
(* it are the first of the connection's, and those on their way are the     *)
(* next, in order.  HeardInv follows its answer back: a request is kept, on *)
(* its way, at the chain, or its answer is on its way, and only so is it    *)
(* not answered.                                                            *)
(***************************************************************************)
EXTENDS RemoteChains, FiniteSetTheorems, TLAPS

SendMessage == [kind : {"send"}, conn : Conns, req : Reqs]
FrameMessage == [kind : {"start", "stop"}, conn : Conns, req : {None}] \cup SendMessage
PageMessage == [kind : {"connected", "end", "fail"}, conn : Conns, req : {None}]
               \cup [kind : {"answer", "halted", "ok", "refuse"}, conn : Conns, req : Reqs]
               \cup [kind : {"lost"}, conn : {None}, req : {None}]

\* Message m is on wire q; message m is ahead of message n.
On(q, m) == \E i \in DOMAIN q : q[i] = m
Ahead(q, m, n) == \E i, j \in DOMAIN q : i < j /\ q[i] = m /\ q[j] = n

Lost == Msg("lost", None, None)
About(kind, c) == Msg(kind, c, None)

----------------------------------------------------------------------------
(* The two ends. *)

Typed == TypeOK /\ toFrame \in Seq(FrameMessage) /\ toPage \in Seq(PageMessage)

\* With a frame that is not there nothing is on its way.
Gone ==
  frame # "ready" =>
    /\ toFrame = <<>> /\ toPage = <<>> /\ leaving = <<>> /\ held = {} /\ flight = {}
    /\ \A c \in Conns : conn[c] # "asked"

\* The page hears that the frame let it go.
LetGo == frame = "ready" /\ ~served => held = {} /\ On(toPage, Lost)

\* A connection is asked for once, and accepted or refused once; its stop is behind that.
Asked(c) ==
  /\ conn[c] \in {"new", "waiting"} =>
       /\ c \notin connected \cup held /\ ~On(toFrame, About("start", c))
       /\ \A kind \in {"connected", "end", "fail"} : ~On(toPage, About(kind, c))
  /\ On(toFrame, About("start", c)) =>
       /\ c \notin connected \cup held
       /\ \A kind \in {"connected", "end", "fail"} : ~On(toPage, About(kind, c))
  /\ ~Ahead(toFrame, About("start", c), About("start", c)) /\ ~Ahead(toFrame, About("stop", c), About("start", c))
  /\ On(toPage, About("fail", c)) => c \notin connected \cup held /\ ~On(toPage, About("connected", c))
  /\ On(toPage, About("end", c)) => c \notin held

\* What one end has of a connection, the other has too, or hears that it has not.
Matched(c) ==
  /\ conn[c] = "asked" => \/ On(toFrame, About("start", c)) \/ c \in held
                          \/ On(toPage, About("end", c)) \/ On(toPage, About("fail", c)) \/ On(toPage, Lost)
  /\ On(toFrame, About("stop", c)) => conn[c] = "gone"
  /\ On(toFrame, About("start", c)) \/ c \in held => conn[c] = "asked" \/ On(toFrame, About("stop", c))
  /\ c \notin held => atChain[c] = {}

EndsInv == Typed /\ Gone /\ LetGo /\ \A c \in Conns : Asked(c) /\ Matched(c)

----------------------------------------------------------------------------
(* The requests on their way to the chain. *)

Sends(c, r) == Msg("send", c, r)
OnLine(c, r) == On(toFrame, Sends(c, r)) \/ On(leaving, Sends(c, r))

\* A request is sent once.
Sole ==
  \A c, d \in Conns : \A i \in DOMAIN sent[c], j \in DOMAIN sent[d] : sent[c][i] = sent[d][j] => c = d /\ i = j

\* What is kept is all that was sent so far, and nothing once the frame accepted the connection or it is gone.
Kept(c) ==
  /\ conn[c] = "new" => sent[c] = <<>>
  /\ ~IsOpen(c) => pending[c] = <<>>
  /\ c \in connected => conn[c] \in {"asked", "gone"} /\ pending[c] = <<>>
  /\ c \notin connected => reached[c] = <<>> /\ \A r \in Reqs : ~OnLine(c, r)
  /\ IsOpen(c) /\ c \notin connected => pending[c] = sent[c]

\* The first Len(reached[c]) requests of c reached the chain. Those on their way are in order, none of them did,
\* and as long as the scope holds the connection they are the next, without a gap.
Lined(c) ==
  /\ Len(reached[c]) <= Len(sent[c]) /\ \A i \in DOMAIN reached[c] : reached[c][i] = sent[c][i]
  /\ \A r \in Reqs : OnLine(c, r) => \E k \in DOMAIN sent[c] : Len(reached[c]) < k /\ sent[c][k] = r
  /\ \A k, m \in DOMAIN sent[c] : m <= k =>
       /\ ~Ahead(toFrame, Sends(c, sent[c][k]), Sends(c, sent[c][m]))
       /\ ~Ahead(leaving, Sends(c, sent[c][k]), Sends(c, sent[c][m]))
       /\ ~(On(toFrame, Sends(c, sent[c][k])) /\ On(leaving, Sends(c, sent[c][m])))
  /\ c \in held => \A k, m \in DOMAIN sent[c] :
       Len(reached[c]) < m /\ m < k /\ OnLine(c, sent[c][k]) => OnLine(c, sent[c][m])
  /\ c \in held /\ c \in connected /\ IsOpen(c) => \A m \in DOMAIN sent[c] :
       Len(reached[c]) < m => OnLine(c, sent[c][m])

SentInv == Sole /\ \A c \in Conns : Kept(c) /\ Lined(c)

----------------------------------------------------------------------------
(* The answers on their way back. *)

Answers(c, r) == {Msg("answer", c, r), Msg("halted", c, r)}
Replies(c, r) == {Msg("ok", c, r), Msg("refuse", c, r)}
Answering(c, r) == \E m \in Answers(c, r) : On(toPage, m)
Replying(c, r) == \E m \in Replies(c, r) : On(toPage, m)

\* Not answered yet, but perhaps by its timeout.
Unanswered(r) == answers[r] \in {<<>>, <<"timeout">>}

\* Where a request is that is still to be answered.
Owed(c, r) ==
  /\ r \in Range(pending[c]) \/ On(leaving, Sends(c, r)) => answers[r] = <<>>
  /\ On(toFrame, Sends(c, r)) => Unanswered(r)
  /\ r \in atChain[c] => r \in Range(reached[c]) /\ Unanswered(r) /\ ~Answering(c, r)
  /\ Answering(c, r) => r \in Range(reached[c]) /\ Unanswered(r)
  /\ \A m, n \in Answers(c, r) : ~Ahead(toPage, m, n)

\* How the call that sent it ends.
Called(c, r) ==
  /\ On(toPage, Msg("ok", c, r)) => r \in Range(reached[c])
  /\ On(toPage, Msg("refuse", c, r)) =>
       c \in connected /\ r \in Range(sent[c]) \ Range(reached[c]) /\ ~OnLine(c, r)
  /\ \A m \in Answers(c, r), n \in Replies(c, r) : ~Ahead(toPage, m, n)

InFlight ==
  \A r \in flight : /\ answers[r] = <<>>
                    /\ \E c \in connected : /\ r \in Range(sent[c])
                                            /\ On(toFrame, Sends(c, r)) \/ Replying(c, r)

\* No request that reached the chain goes unanswered, and its answer is ahead of the connection's end.
Covered(c, r) ==
  /\ IsOpen(c) /\ (c \in held \/ On(toPage, About("end", c))) /\ r \in Range(reached[c])
       => answers[r] # <<>> \/ r \in atChain[c] \/ Answering(c, r)
  /\ \A m \in Answers(c, r) : ~Ahead(toPage, About("end", c), m)

\* A connection that was told of a halt is over with.
Told(c) ==
  /\ told[c] # <<>> => Len(told[c]) = 1 /\ conn[c] = "gone"
  /\ told[c] = <<"chain">> => /\ c \notin held /\ ~On(toFrame, About("start", c))
                              /\ \A r \in Range(reached[c]) : answers[r] # <<>>
  /\ told[c] # <<>> /\ c \notin connected => \A r \in Range(sent[c]) : answers[r] # <<>>

HeardInv ==
  /\ InFlight /\ AnsweredOnce
  /\ \A c \in Conns : Told(c) /\ \A r \in Reqs : Owed(c, r) /\ Called(c, r) /\ Covered(c, r)

IInv == EndsInv /\ SentInv /\ HeardInv

----------------------------------------------------------------------------
(* Messages and wires. *)

\* What a message is made of.
LEMMA MsgIs ==
  /\ \A kind, c, r : Msg(kind, c, r).kind = kind /\ Msg(kind, c, r).conn = c /\ Msg(kind, c, r).req = r
  /\ \A kind, c, r, kind2, c2, r2 :
       Msg(kind, c, r) = Msg(kind2, c2, r2) => kind = kind2 /\ c = c2 /\ r = r2
<1>1. \A kind, c, r : Msg(kind, c, r).kind = kind /\ Msg(kind, c, r).conn = c /\ Msg(kind, c, r).req = r
  BY DEF Msg
<1>. QED BY <1>1

\* No two of the messages named differently are the same.
LEMMA NamesAre ==
  /\ \A kind, kind2, c, d : About(kind, c) = About(kind2, d) => kind = kind2 /\ c = d
  /\ \A c, d, r, q : Sends(c, r) = Sends(d, q) => c = d /\ r = q
  /\ \A kind, c, d, r : kind # "send" => Sends(c, r) # About(kind, d) /\ Sends(c, r) # Lost
  /\ \A kind, c : kind # "lost" => About(kind, c) # Lost
  BY MsgIs DEF About, Sends, Lost

\* The messages of each wire.
LEMMA MessagesAre ==
  /\ \A c \in Conns : /\ \A kind \in {"start", "stop"} : About(kind, c) \in FrameMessage
                      /\ \A kind \in {"connected", "end", "fail"} : About(kind, c) \in PageMessage
  /\ \A c \in Conns, r \in Reqs :
       /\ Sends(c, r) \in SendMessage
       /\ \A kind \in {"answer", "halted", "ok", "refuse"} : Msg(kind, c, r) \in PageMessage
  /\ Lost \in PageMessage
  BY DEF About, Sends, Lost, Msg, FrameMessage, PageMessage, SendMessage

\* A message on the way to the frame, by its kind.
LEMMA FrameMessageIs ==
  ASSUME NEW m \in FrameMessage
  PROVE  /\ m.conn \in Conns /\ m.kind \in {"start", "stop", "send"}
         /\ m.kind \in {"start", "stop"} => m = About(m.kind, m.conn)
         /\ m.kind = "send" => m = Sends(m.conn, m.req) /\ m.req \in Reqs
  BY DEF FrameMessage, SendMessage, About, Sends, Msg

\* A message on the way to the page, by its kind.
LEMMA PageMessageIs ==
  ASSUME NEW m \in PageMessage
  PROVE  /\ m.kind \in {"connected", "end", "fail", "answer", "halted", "ok", "refuse", "lost"}
         /\ m.kind \in {"connected", "end", "fail"} => m = About(m.kind, m.conn) /\ m.conn \in Conns
         /\ m.kind \in {"answer", "halted", "ok", "refuse"} =>
              m = Msg(m.kind, m.conn, m.req) /\ m.conn \in Conns /\ m.req \in Reqs
         /\ m.kind = "lost" => m = Lost
<1>1. CASE m.kind = "lost"
  BY <1>1 DEF PageMessage, Lost, Msg
<1>2. CASE m.kind \in {"connected", "end", "fail"}
  BY <1>2 DEF PageMessage, About, Msg
<1>3. CASE m.kind \in {"answer", "halted", "ok", "refuse"}
  BY <1>3 DEF PageMessage, Msg
<1>4. m.kind \in {"connected", "end", "fail", "answer", "halted", "ok", "refuse", "lost"}
  BY DEF PageMessage
<1>. QED BY <1>1, <1>2, <1>3, <1>4

\* What is on a wire once its first message is taken.
LEMMA TailIs ==
  ASSUME NEW S, NEW q \in Seq(S), q # <<>>
  PROVE  /\ Tail(q) \in Seq(S) /\ Head(q) \in S
         /\ \A m : On(q, m) <=> m = Head(q) \/ On(Tail(q), m)
         /\ \A m, n : Ahead(q, m, n) <=> Ahead(Tail(q), m, n) \/ (m = Head(q) /\ On(Tail(q), n))
<1>. DEFINE t == Tail(q)
<1>1. /\ t \in Seq(S) /\ DOMAIN t = 1 .. Len(q) - 1 /\ DOMAIN q = 1 .. Len(q)
      /\ Len(q) \in Nat \ {0} /\ 1 \in DOMAIN q /\ Head(q) = q[1] /\ Head(q) \in S
      /\ \A i \in DOMAIN t : i + 1 \in DOMAIN q /\ t[i] = q[i + 1]
      /\ \A i \in DOMAIN q : i # 1 => i - 1 \in DOMAIN t /\ t[i - 1] = q[i]
  OBVIOUS
<1>. HIDE DEF t
<1>2. \A m : On(q, m) <=> m = Head(q) \/ On(t, m)
  <2>1. ASSUME NEW m, On(t, m) PROVE On(q, m)
    BY <1>1, <2>1 DEF On
  <2>2. ASSUME NEW m, On(q, m), m # Head(q) PROVE On(t, m)
    BY <1>1, <2>2 DEF On
  <2>3. On(q, Head(q))
    BY <1>1 DEF On
  <2>. QED BY <2>1, <2>2, <2>3
<1>3. ASSUME NEW m, NEW n, Ahead(t, m, n) PROVE Ahead(q, m, n)
  <2>1. PICK i, j \in DOMAIN t : i < j /\ t[i] = m /\ t[j] = n
    BY <1>3 DEF Ahead
  <2>2. i + 1 \in DOMAIN q /\ j + 1 \in DOMAIN q /\ i + 1 < j + 1 /\ q[i + 1] = m /\ q[j + 1] = n
    BY <1>1, <2>1
  <2>. QED BY <2>2 DEF Ahead
<1>4. ASSUME NEW n, On(t, n) PROVE Ahead(q, Head(q), n)
  <2>1. PICK j \in DOMAIN t : t[j] = n
    BY <1>4 DEF On
  <2>2. j + 1 \in DOMAIN q /\ 1 < j + 1 /\ q[j + 1] = n
    BY <1>1, <2>1
  <2>. QED BY <1>1, <2>2 DEF Ahead
<1>5. ASSUME NEW m, NEW n, Ahead(q, m, n) PROVE Ahead(t, m, n) \/ (m = Head(q) /\ On(t, n))
  <2>1. PICK i, j \in DOMAIN q : i < j /\ q[i] = m /\ q[j] = n
    BY <1>5 DEF Ahead
  <2>2. j # 1 /\ j - 1 \in DOMAIN t /\ t[j - 1] = n
    BY <1>1, <2>1
  <2>3. CASE i = 1
    BY <1>1, <2>1, <2>2, <2>3 DEF On
  <2>4. CASE i # 1
    <3>1. i - 1 \in DOMAIN t /\ t[i - 1] = m /\ i - 1 < j - 1
      BY <1>1, <2>1, <2>4
    <3>. QED BY <2>2, <3>1 DEF Ahead
  <2>. QED BY <2>3, <2>4
<1>. QED BY <1>1, <1>2, <1>3, <1>4, <1>5 DEF t

\* What is on a wire once more was posted.
LEMMA ConcatIs ==
  ASSUME NEW S, NEW q \in Seq(S), NEW ext \in Seq(S)
  PROVE  /\ q \o ext \in Seq(S)
         /\ \A m : On(q \o ext, m) <=> On(q, m) \/ On(ext, m)
         /\ \A m, n : Ahead(q \o ext, m, n) <=> Ahead(q, m, n) \/ Ahead(ext, m, n) \/ (On(q, m) /\ On(ext, n))
<1>. DEFINE t == q \o ext
<1>1. /\ t \in Seq(S) /\ DOMAIN q = 1 .. Len(q) /\ DOMAIN ext = 1 .. Len(ext)
      /\ DOMAIN t = 1 .. Len(q) + Len(ext) /\ Len(q) \in Nat /\ Len(ext) \in Nat
      /\ \A i \in DOMAIN q : i \in DOMAIN t /\ t[i] = q[i]
      /\ \A i \in DOMAIN ext : Len(q) + i \in DOMAIN t /\ t[Len(q) + i] = ext[i]
      /\ \A i \in DOMAIN t : i \in DOMAIN q \/ (i > Len(q) /\ i - Len(q) \in DOMAIN ext /\ t[i] = ext[i - Len(q)])
  OBVIOUS
<1>. HIDE DEF t
<1>2. \A m : On(t, m) <=> On(q, m) \/ On(ext, m)
  <2>1. ASSUME NEW m, On(q, m) PROVE On(t, m)
    BY <1>1, <2>1 DEF On
  <2>2. ASSUME NEW m, On(ext, m) PROVE On(t, m)
    BY <1>1, <2>2 DEF On
  <2>3. ASSUME NEW m, On(t, m) PROVE On(q, m) \/ On(ext, m)
    BY <1>1, <2>3 DEF On
  <2>. QED BY <2>1, <2>2, <2>3
<1>3. ASSUME NEW m, NEW n, Ahead(q, m, n) PROVE Ahead(t, m, n)
  BY <1>1, <1>3 DEF Ahead
<1>4. ASSUME NEW m, NEW n, Ahead(ext, m, n) PROVE Ahead(t, m, n)
  <2>1. PICK i, j \in DOMAIN ext : i < j /\ ext[i] = m /\ ext[j] = n
    BY <1>4 DEF Ahead
  <2>2. /\ Len(q) + i \in DOMAIN t /\ Len(q) + j \in DOMAIN t /\ Len(q) + i < Len(q) + j
        /\ t[Len(q) + i] = m /\ t[Len(q) + j] = n
    BY <1>1, <2>1
  <2>. QED BY <2>2 DEF Ahead
<1>5. ASSUME NEW m, NEW n, On(q, m), On(ext, n) PROVE Ahead(t, m, n)
  <2>1. PICK i \in DOMAIN q, j \in DOMAIN ext : q[i] = m /\ ext[j] = n
    BY <1>5 DEF On
  <2>2. i \in DOMAIN t /\ Len(q) + j \in DOMAIN t /\ i < Len(q) + j /\ t[i] = m /\ t[Len(q) + j] = n
    BY <1>1, <2>1
  <2>. QED BY <2>2 DEF Ahead
<1>6. ASSUME NEW m, NEW n, Ahead(t, m, n) PROVE Ahead(q, m, n) \/ Ahead(ext, m, n) \/ (On(q, m) /\ On(ext, n))
  <2>1. PICK i, j \in DOMAIN t : i < j /\ t[i] = m /\ t[j] = n
    BY <1>6 DEF Ahead
  <2>2. CASE i \in DOMAIN q /\ j \in DOMAIN q
    BY <1>1, <2>1, <2>2 DEF Ahead
  <2>3. CASE i \in DOMAIN q /\ j \notin DOMAIN q
    BY <1>1, <2>1, <2>3 DEF On
  <2>4. CASE i \notin DOMAIN q
    <3>1. /\ i > Len(q) /\ i - Len(q) \in DOMAIN ext /\ ext[i - Len(q)] = m
          /\ j > Len(q) /\ j - Len(q) \in DOMAIN ext /\ ext[j - Len(q)] = n /\ i - Len(q) < j - Len(q)
      BY <1>1, <2>1, <2>4
    <3>. QED BY <3>1 DEF Ahead
  <2>. QED BY <2>2, <2>3, <2>4
<1>. QED BY <1>1, <1>2, <1>3, <1>4, <1>5, <1>6 DEF t

\* What is on a wire once one message more was posted.
LEMMA AppendIs ==
  ASSUME NEW S, NEW q \in Seq(S), NEW x \in S
  PROVE  /\ Append(q, x) \in Seq(S)
         /\ \A m : On(Append(q, x), m) <=> On(q, m) \/ m = x
         /\ \A m, n : Ahead(Append(q, x), m, n) <=> Ahead(q, m, n) \/ (On(q, m) /\ n = x)
<1>1. Append(q, x) = q \o <<x>> /\ <<x>> \in Seq(S)
  OBVIOUS
<1>2. (\A m : On(<<x>>, m) <=> m = x) /\ \A m, n : ~Ahead(<<x>>, m, n)
  BY DEF On, Ahead
<1>. DEFINE one == <<x>>
<1>. HIDE DEF one
<1>3. /\ q \o one \in Seq(S)
      /\ \A m : On(q \o one, m) <=> On(q, m) \/ On(one, m)
      /\ \A m, n : Ahead(q \o one, m, n) <=> Ahead(q, m, n) \/ Ahead(one, m, n) \/ (On(q, m) /\ On(one, n))
  BY <1>1, ConcatIs DEF one
<1>4. (\A m : On(one, m) <=> m = x) /\ \A m, n : ~Ahead(one, m, n)
  BY <1>2 DEF one
<1>5. Append(q, x) = q \o one
  BY <1>1 DEF one
<1>. QED BY <1>3, <1>4, <1>5

\* Nothing is on an empty wire.
LEMMA NoneOn == (\A m : ~On(<<>>, m)) /\ \A m, n : ~Ahead(<<>>, m, n)
  BY DEF On, Ahead

\* What is on the wire to the page, in the words of the properties.
LEMMA TransitIs ==
  ASSUME Typed, NEW c \in Conns
  PROVE  /\ On(toPage, About("end", c)) => InTransit(toPage, "end", c)
         /\ On(toPage, Lost) => InTransit(toPage, "lost", c)
         /\ On(toFrame, About("stop", c)) => InTransit(toFrame, "stop", c)
<1>1. DOMAIN toPage = 1 .. Len(toPage) /\ DOMAIN toFrame = 1 .. Len(toFrame)
  BY DEF Typed
<1>. QED BY <1>1, MsgIs DEF On, About, Lost, InTransit

----------------------------------------------------------------------------
(* The types. *)

AnyMessage == [kind : Kinds, conn : Conns \cup {None}, req : Reqs \cup {None}]

\* What is on a wire is a message.
LEMMA WiresAre ==
  /\ Seq(FrameMessage) \subseteq Seq(AnyMessage) /\ Seq(PageMessage) \subseteq Seq(AnyMessage)
  /\ Seq(SendMessage) \subseteq Seq(FrameMessage)
<1>1. FrameMessage \subseteq AnyMessage /\ PageMessage \subseteq AnyMessage /\ SendMessage \subseteq FrameMessage
  BY DEF FrameMessage, PageMessage, SendMessage, AnyMessage, Kinds
<1>. QED BY <1>1

\* The connections of a scope are finitely many.
LEMMA HeldIs ==
  ASSUME RemoteAssumption, NEW S \in SUBSET Conns
  PROVE  /\ IsFiniteSet(S) /\ Cardinality(S) \in Nat /\ Cardinality({}) = 0
         /\ \A c : Cardinality(S \ {c}) <= Cardinality(S)
         /\ \A c : Cardinality(S \cup {c}) <= Cardinality(S) + 1
<1>1. IsFiniteSet(Conns)
  BY FS_Interval DEF RemoteAssumption, Conns
<1>2. IsFiniteSet(S) /\ Cardinality(S) \in Nat /\ Cardinality({}) = 0
  BY <1>1, FS_Subset, FS_CardinalityType, FS_EmptySet
<1>3. \A c : Cardinality(S \ {c}) <= Cardinality(S)
  BY <1>2, FS_Subset
<1>4. \A c : Cardinality(S \cup {c}) <= Cardinality(S) + 1
  BY <1>2, FS_AddElement
<1>. QED BY <1>2, <1>3, <1>4

Endings == {"answer", "halted", "closed", "refused", "timeout"}

\* Requests are answered.
LEMMA AnsweredIs ==
  ASSUME answers \in [Reqs -> Seq(Endings)], NEW rs, NEW a \in Endings
  PROVE  /\ Answered(rs, a) \in [Reqs -> Seq(Endings)]
         /\ \A r \in Reqs : Answered(rs, a)[r] = IF r \in rs THEN Append(answers[r], a) ELSE answers[r]
  BY DEF Answered

\* Connections halt.
LEMMA HaltTypes ==
  ASSUME Typed, NEW cs, NEW reason \in {"chain", "frame"}, HaltRemote(cs, reason)
  PROVE  /\ conn' \in [Conns -> {"new", "waiting", "asked", "gone"}]
         /\ answers' \in [Reqs -> Seq(Endings)] /\ pending' \in [Conns -> Seq(Reqs)]
         /\ told' \in [Conns -> Seq({"chain", "frame"})]
<1>1. answers' \in [Reqs -> Seq(Endings)]
  BY AnsweredIs DEF HaltRemote, Typed, TypeOK, Endings
<1>2. conn' \in [Conns -> {"new", "waiting", "asked", "gone"}]
  BY DEF HaltRemote, Typed, TypeOK
<1>3. pending' \in [Conns -> Seq(Reqs)]
  BY DEF HaltRemote, Typed, TypeOK
<1>4. told' \in [Conns -> Seq({"chain", "frame"})]
  <2>1. \A c \in Conns : told[c] \in Seq({"chain", "frame"}) /\ Append(told[c], reason) \in Seq({"chain", "frame"})
    BY DEF Typed, TypeOK
  <2>. QED BY <2>1 DEF HaltRemote
<1>. QED BY <1>1, <1>2, <1>3, <1>4

\* The page's own steps keep the types.
LEMMA PageTypes ==
  ASSUME RemoteAssumption, Typed, NEW c \in Conns, NEW r \in Reqs,
         Connect(c) \/ PostStart(c) \/ Disconnect(c) \/ ConnectTimeout(c) \/ Send(c, r) \/ FailWait \/ PostSends
         \/ SendTimeout(r) \/ Boot \/ FrameReady \/ FrameDown
  PROVE  Typed'
<1>. USE DEF scopeVars
<1>1. /\ conn \in [Conns -> {"new", "waiting", "asked", "gone"}] /\ pending \in [Conns -> Seq(Reqs)]
      /\ leaving \in Seq(SendMessage) /\ answers \in [Reqs -> Seq(Endings)]
      /\ toFrame \in Seq(FrameMessage) /\ toPage \in Seq(PageMessage)
  BY DEF Typed, TypeOK, SendMessage, Endings
<1>2. About("start", c) \in FrameMessage /\ <<About("stop", c)>> \in Seq(FrameMessage) /\ <<>> \in Seq(FrameMessage)
      /\ <<>> \in Seq(PageMessage)
  BY MessagesAre
<1>3. Stops(c) \in Seq(FrameMessage)
  BY <1>2 DEF Stops, About
<1>4. CASE Connect(c)
  BY <1>4 DEF Connect, Typed, TypeOK
<1>5. CASE PostStart(c)
  <2>1. toFrame' \in Seq(FrameMessage) /\ conn' \in [Conns -> {"new", "waiting", "asked", "gone"}]
    BY <1>1, <1>2, <1>5 DEF PostStart, About
  <2>. QED BY <1>5, <2>1, WiresAre DEF PostStart, Typed, TypeOK, AnyMessage
<1>6. CASE Disconnect(c)
  <2>1. toFrame' \in Seq(FrameMessage) /\ conn' \in [Conns -> {"new", "waiting", "asked", "gone"}]
        /\ pending' \in [Conns -> Seq(Reqs)]
    BY <1>1, <1>3, <1>6 DEF Disconnect
  <2>. QED BY <1>6, <2>1, WiresAre DEF Disconnect, Typed, TypeOK, AnyMessage
<1>7. CASE ConnectTimeout(c)
  <2>1. toFrame' \in Seq(FrameMessage) /\ timeouts' \in 0 .. MaxTimeouts
    BY <1>1, <1>3, <1>7 DEF ConnectTimeout, Typed, TypeOK, RemoteAssumption
  <2>. QED BY <1>7, <2>1, WiresAre, HaltTypes DEF ConnectTimeout, Typed, TypeOK, AnyMessage, Endings
<1>8. CASE Send(c, r)
  <2>1. Sends(c, r) \in SendMessage
    BY MessagesAre
  <2>2. Answered({r}, "closed") \in [Reqs -> Seq(Endings)]
    BY <1>1, AnsweredIs DEF Endings
  <2>3. leaving' \in Seq(SendMessage) /\ pending' \in [Conns -> Seq(Reqs)] /\ sent' \in [Conns -> Seq(Reqs)]
        /\ answers' \in [Reqs -> Seq(Endings)]
    <3>1. sent \in [Conns -> Seq(Reqs)]
      BY DEF Typed, TypeOK
    <3>0. /\ Append(sent[c], r) \in Seq(Reqs) /\ Append(pending[c], r) \in Seq(Reqs)
          /\ Append(leaving, Sends(c, r)) \in Seq(SendMessage)
      BY <1>1, <2>1, <3>1
    <3>2. CASE IsOpen(c) /\ c \in connected
      <4>1. sent' = [sent EXCEPT ![c] = Append(@, r)] /\ leaving' = Append(leaving, Sends(c, r))
            /\ UNCHANGED <<answers, pending>>
        BY <1>8, <3>2 DEF Send, Sends
      <4>. QED BY <1>1, <3>0, <3>1, <4>1
    <3>3. CASE IsOpen(c) /\ c \notin connected
      <4>1. sent' = [sent EXCEPT ![c] = Append(@, r)] /\ pending' = [pending EXCEPT ![c] = Append(@, r)]
            /\ UNCHANGED <<answers, leaving>>
        BY <1>8, <3>3 DEF Send
      <4>. QED BY <1>1, <3>0, <3>1, <4>1
    <3>4. CASE ~IsOpen(c)
      BY <1>1, <1>8, <2>2, <3>1, <3>4 DEF Send
    <3>. QED BY <3>2, <3>3, <3>4
  <2>. QED BY <1>8, <2>3 DEF Send, Typed, TypeOK, SendMessage, Endings
<1>9. CASE FailWait
  BY <1>9, HaltTypes DEF FailWait, Typed, TypeOK, Endings
<1>10. CASE PostSends
  <2>1. toFrame' \in Seq(FrameMessage) /\ leaving' \in Seq(SendMessage)
    BY <1>1, <1>10, WiresAre DEF PostSends
  <2>2. \A m \in Range(leaving) : m.req \in Reqs
    <3>1. \A i \in DOMAIN leaving : leaving[i] \in SendMessage
      BY <1>1
    <3>. QED BY <3>1 DEF Range, SendMessage
  <2>3. flight' \in SUBSET Reqs
    <3>1. flight \in SUBSET Reqs /\ flight' = flight \cup {m.req : m \in Range(leaving)}
      BY <1>10 DEF PostSends, Typed, TypeOK
    <3>. QED BY <2>2, <3>1
  <2>. QED BY <1>10, <2>1, <2>3, WiresAre DEF PostSends, Typed, TypeOK, AnyMessage, SendMessage
<1>11. CASE SendTimeout(r)
  <2>1. answers' \in [Reqs -> Seq(Endings)] /\ timeouts' \in 0 .. MaxTimeouts
    BY <1>1, <1>11, AnsweredIs DEF SendTimeout, FailSend, Typed, TypeOK, RemoteAssumption, Endings
  <2>. QED BY <1>11, <2>1 DEF SendTimeout, FailSend, Typed, TypeOK, Endings
<1>12. CASE Boot \/ FrameReady
  BY <1>12 DEF Boot, FrameReady, Typed, TypeOK
<1>13. ASSUME NEW next \in {"down", "held"}, LoseFrame(next) PROVE Typed'
  <2>1. toFrame' \in Seq(FrameMessage) /\ toPage' \in Seq(PageMessage)
    BY <1>2, <1>13 DEF LoseFrame
  <2>2. held' \in SUBSET Conns /\ Cardinality(held') <= Limit
    BY <1>13, HeldIs DEF LoseFrame, RemoteAssumption
  <2>. QED BY <1>13, <2>1, <2>2, WiresAre, HaltTypes DEF LoseFrame, Typed, TypeOK, AnyMessage, Endings
<1>14. CASE FrameDown
  BY <1>13, <1>14 DEF FrameDown
<1>. QED BY <1>4, <1>5, <1>6, <1>7, <1>8, <1>9, <1>10, <1>11, <1>12, <1>14

\* What the page hears keeps the types.
LEMMA HearTypes ==
  ASSUME RemoteAssumption, Typed, PageHears
  PROVE  Typed'
<1>. USE DEF scopeVars
<1>1. /\ conn \in [Conns -> {"new", "waiting", "asked", "gone"}] /\ pending \in [Conns -> Seq(Reqs)]
      /\ leaving \in Seq(SendMessage) /\ answers \in [Reqs -> Seq(Endings)]
      /\ toFrame \in Seq(FrameMessage) /\ toPage \in Seq(PageMessage)
  BY DEF Typed, TypeOK, SendMessage, Endings
<1>2. toPage # <<>> => Tail(toPage) \in Seq(PageMessage) /\ Heard \in PageMessage
  BY <1>1, TailIs DEF Heard
<1>3. CASE HearConnected
  <2>. DEFINE c == Heard.conn
              late == [i \in 1 .. Len(pending[c]) |-> Msg("send", c, pending[c][i])]
  <2>1. toPage # <<>> /\ toPage' = Tail(toPage) /\ Heard.kind = "connected"
    BY <1>3 DEF HearConnected, Hears, Heard
  <2>2. c \in Conns /\ toPage' \in Seq(PageMessage)
    BY <1>2, <2>1, PageMessageIs
  <2>3. late \in Seq(SendMessage)
    <3>1. \A i \in 1 .. Len(pending[c]) : Sends(c, pending[c][i]) \in SendMessage
      BY <1>1, <2>2, MessagesAre
    <3>. QED BY <1>1, <2>2, <3>1 DEF Sends
  <2>4. leaving' \in Seq(SendMessage) /\ pending' \in [Conns -> Seq(Reqs)] /\ connected' \in SUBSET Conns
    <3>1. CASE IsOpen(c)
      <4>1. leaving' = leaving \o late /\ pending' = [pending EXCEPT ![c] = <<>>] /\ connected' = connected \cup {c}
        BY <1>3, <3>1 DEF HearConnected
      <4>2. leaving' \in Seq(SendMessage)
        BY <1>1, <2>3, <4>1, ConcatIs
      <4>. QED BY <1>1, <2>2, <4>1, <4>2 DEF Typed, TypeOK
    <3>2. CASE ~IsOpen(c)
      BY <1>1, <1>3, <3>2 DEF HearConnected, Typed, TypeOK
    <3>. QED BY <3>1, <3>2
  <2>. QED BY <1>3, <2>2, <2>4, WiresAre DEF HearConnected, Typed, TypeOK, AnyMessage, SendMessage
<1>4. CASE HearAnswer
  <2>1. toPage' \in Seq(PageMessage) /\ Heard.kind \in {"answer", "halted"}
    BY <1>2, <1>4 DEF HearAnswer, Hears, Heard
  <2>2. answers' \in [Reqs -> Seq(Endings)]
    BY <1>1, <1>4, <2>1, AnsweredIs DEF HearAnswer, Endings
  <2>. QED BY <1>4, <2>1, <2>2, WiresAre DEF HearAnswer, Typed, TypeOK, AnyMessage, Endings
<1>5. CASE HearEnd
  <2>1. toPage' \in Seq(PageMessage)
    BY <1>2, <1>5 DEF HearEnd, Hears
  <2>2. \E cs : \E reason \in {"chain", "frame"} : HaltRemote(cs, reason)
    BY <1>5 DEF HearEnd
  <2>. QED BY <1>5, <2>1, <2>2, WiresAre, HaltTypes DEF HearEnd, Typed, TypeOK, AnyMessage, Endings
<1>6. CASE HearReply
  <2>1. toPage' \in Seq(PageMessage)
    BY <1>2, <1>6 DEF HearReply, Hears
  <2>2. answers' \in [Reqs -> Seq(Endings)] /\ flight' \in SUBSET Reqs
    BY <1>1, <1>6, AnsweredIs, SMTT(30) DEF HearReply, FailSend, Endings, Typed, TypeOK
  <2>. QED BY <1>6, <2>1, <2>2, WiresAre DEF HearReply, Typed, TypeOK, AnyMessage, Endings
<1>7. CASE HearLost
  <2>1. toFrame' = <<>> /\ toPage' = <<>> /\ held' = {} /\ frame' = "down"
    BY <1>7 DEF HearLost, LoseFrame
  <2>2. toFrame' \in Seq(FrameMessage) /\ toPage' \in Seq(PageMessage)
    BY <2>1
  <2>3. held' \in SUBSET Conns /\ Cardinality(held') <= Limit
    BY <2>1, HeldIs DEF RemoteAssumption
  <2>. QED BY <1>7, <2>2, <2>3, WiresAre, HaltTypes DEF HearLost, LoseFrame, Typed, TypeOK, AnyMessage, Endings
<1>. QED BY <1>3, <1>4, <1>5, <1>6, <1>7 DEF PageHears

\* What is sent as the chain halts is all that HaltMessages says, and nothing else; nothing follows an end.
LEMMA NewsIs ==
  ASSUME RemoteAssumption, Typed, NEW news \in HaltNews
  PROVE  /\ news \in Seq(PageMessage)
         /\ \A m : On(news, m) <=> \E c \in held : m \in HaltMessages(c)
         /\ \A c, r : \A m \in Answers(c, r) : ~Ahead(news, About("end", c), m)
         /\ \A m : ~Ahead(news, m, m)
<1>. DEFINE S == UNION {HaltMessages(c) : c \in held}
            P == Conns \X (Reqs \cup {None})
            f == [p \in P |-> IF p[2] = None THEN About("end", p[1]) ELSE Msg("halted", p[1], p[2])]
            T == {f[p] : p \in P}
<1>1. held \in SUBSET Conns /\ \A c \in Conns : atChain[c] \in SUBSET Reqs
  BY DEF Typed, TypeOK
<1>2. S \in SUBSET PageMessage
  <2>1. \A c \in held : HaltMessages(c) \subseteq PageMessage
    BY <1>1, MessagesAre DEF HaltMessages, About
  <2>. QED BY <2>1
<1>3. IsFiniteSet(S)
  <2>1. IsFiniteSet(Conns) /\ IsFiniteSet(Reqs)
    BY FS_Interval DEF RemoteAssumption, Conns, Reqs
  <2>2. IsFiniteSet(Reqs \cup {None})
    BY <2>1, FS_AddElement
  <2>3. IsFiniteSet(P)
    BY <2>1, <2>2, FS_Product
  <2>4. f \in Surjection(P, T)
    BY DEF Surjection
  <2>5. IsFiniteSet(T)
    BY <2>3, <2>4, FS_Surjection
  <2>6. \A c \in held : HaltMessages(c) \subseteq T
    <3>1. ASSUME NEW c \in held PROVE About("end", c) \in T
      <4>1. <<c, None>> \in P /\ f[<<c, None>>] = About("end", c)
        BY <1>1
      <4>. QED BY <4>1
    <3>2. ASSUME NEW c \in held, NEW r \in atChain[c] PROVE Msg("halted", c, r) \in T
      <4>1. <<c, r>> \in P /\ r # None
        BY <1>1 DEF Reqs, None
      <4>2. f[<<c, r>>] = Msg("halted", c, r)
        BY <4>1
      <4>. QED BY <4>1, <4>2
    <3>. HIDE DEF T
    <3>3. \A c \in held : {Msg("halted", c, r) : r \in atChain[c]} \subseteq T
      BY <3>2
    <3>4. \A c \in held : {Msg("end", c, None)} \subseteq T
      BY <3>1 DEF About
    <3>. QED BY <3>3, <3>4 DEF HaltMessages
  <2>7. S \in SUBSET T
    BY <2>6, ZenonT(30)
  <2>. QED BY <2>5, <2>7, FS_Subset
<1>. HIDE DEF S, T, f, P
<1>4. PICK n \in Nat : n = Cardinality(S) /\ ExistsBijection(1 .. n, S)
  BY <1>3, FS_CardinalityType
<1>5. /\ news \in [1 .. n -> S] /\ \A i, j \in 1 .. n : i # j => news[i] # news[j]
      /\ \A i, j \in 1 .. Len(news) : i < j /\ news[i].kind = "end" => news[i].conn # news[j].conn
  BY <1>4 DEF HaltNews, SetToSeqs, S
<1>6. news \in Surjection(1 .. n, S)
  <2>1. news \in Injection(1 .. n, S)
    BY <1>5 DEF Injection, IsInjective
  <2>2. IsFiniteSet(1 .. n) /\ Cardinality(1 .. n) = n
    <3>1. 1 \in Int /\ n \in Int
      OBVIOUS
    <3>2. IsFiniteSet(1 .. n) /\ Cardinality(1 .. n) = IF 1 > n THEN 0 ELSE n - 1 + 1
      BY <3>1, FS_Interval, Zenon
    <3>. QED BY <3>2
  <2>. QED BY <1>3, <1>4, <2>1, <2>2, FS_Injection
<1>7. news \in Seq(S) /\ DOMAIN news = 1 .. n /\ Len(news) = n
  BY <1>5
<1>8. \A m : On(news, m) <=> m \in S
  BY <1>6, <1>7 DEF On, Surjection
<1>9. \A m : m \in S <=> \E c \in held : m \in HaltMessages(c)
  BY DEF S
<1>10. ASSUME NEW c, NEW r, NEW m \in Answers(c, r), Ahead(news, About("end", c), m) PROVE FALSE
  <2>1. PICK i, j \in DOMAIN news : i < j /\ news[i] = About("end", c) /\ news[j] = m
    BY <1>10 DEF Ahead
  <2>2. news[i].kind = "end" /\ news[i].conn = c /\ news[j].conn = c
    BY <1>10, <2>1, MsgIs DEF About, Answers
  <2>. QED BY <1>5, <1>7, <2>1, <2>2
<1>11. ASSUME NEW m, Ahead(news, m, m) PROVE FALSE
  <2>1. PICK i, j \in DOMAIN news : i < j /\ news[i] = m /\ news[j] = m
    BY <1>11 DEF Ahead
  <2>. QED BY <1>5, <1>7, <2>1
<1>12. news \in Seq(PageMessage)
  BY <1>2, <1>7
<1>. QED BY <1>8, <1>9, <1>10, <1>11, <1>12

\* What the scope does keeps the types.
LEMMA ScopeTypes ==
  ASSUME RemoteAssumption, Typed, NEW c \in Conns, NEW r \in Reqs,
         ScopeHears \/ ChainAnswers(c, r) \/ ChainHalts \/ ReleaseScope
  PROVE  Typed'
<1>. USE DEF pageVars
<1>1. /\ toFrame \in Seq(FrameMessage) /\ toPage \in Seq(PageMessage)
      /\ held \in SUBSET Conns /\ Cardinality(held) <= Limit
      /\ atChain \in [Conns -> SUBSET Reqs] /\ reached \in [Conns -> Seq(Reqs)]
  BY DEF Typed, TypeOK
<1>2. toFrame # <<>> => Tail(toFrame) \in Seq(FrameMessage) /\ Taken \in FrameMessage
  BY <1>1, TailIs DEF Taken
<1>3. /\ \A d \in Conns : \A kind \in {"connected", "end", "fail"} :
           Append(toPage, Msg(kind, d, None)) \in Seq(PageMessage)
      /\ \A d \in Conns, q \in Reqs : \A kind \in {"answer", "halted", "ok", "refuse"} :
           Append(toPage, Msg(kind, d, q)) \in Seq(PageMessage)
      /\ Append(toPage, Lost) \in Seq(PageMessage)
  BY <1>1, AppendIs, MessagesAre DEF About
<1>4. \A kind : Takes(kind) => toFrame' \in Seq(FrameMessage) /\ Taken.conn \in Conns
      /\ (Takes("send") => Taken.req \in Reqs)
  BY <1>2, FrameMessageIs DEF Takes, Taken
<1>5. ASSUME NEW accepts \in BOOLEAN, HearStart(accepts) PROVE Typed'
  <2>1. toFrame' \in Seq(FrameMessage) /\ toPage' \in Seq(PageMessage) /\ Taken.conn \in Conns
    BY <1>3, <1>4, <1>5 DEF HearStart
  <2>2. held' \in SUBSET Conns /\ Cardinality(held') <= Limit
    <3>1. CASE accepts
      <4>1. held' = held \cup {Taken.conn} /\ Cardinality(held) < Limit
        BY <1>5, <3>1 DEF HearStart
      <4>2. Cardinality(held \cup {Taken.conn}) <= Cardinality(held) + 1 /\ Cardinality(held) \in Nat
        BY <1>1, HeldIs
      <4>3. held \cup {Taken.conn} \in SUBSET Conns
        BY <1>1, <2>1
      <4>4. Cardinality(held') \in Nat
        BY <4>1, <4>3, HeldIs
      <4>. QED BY <4>1, <4>2, <4>3, <4>4 DEF RemoteAssumption
    <3>2. CASE ~accepts
      BY <1>1, <1>5, <3>2 DEF HearStart
    <3>. QED BY <3>1, <3>2
  <2>. QED BY <1>5, <2>1, <2>2, WiresAre DEF HearStart, Typed, TypeOK, AnyMessage
<1>6. CASE HearStop
  <2>1. toFrame' \in Seq(FrameMessage) /\ held' \in SUBSET Conns /\ atChain' \in [Conns -> SUBSET Reqs]
    BY <1>1, <1>4, <1>6 DEF HearStop
  <2>2. Cardinality(held') <= Limit
    <3>1. /\ Cardinality(held') \in Nat /\ Cardinality(held) \in Nat /\ Cardinality(held') <= Cardinality(held)
      BY <1>1, <1>6, <2>1, HeldIs DEF HearStop
    <3>. QED BY <1>1, <3>1 DEF RemoteAssumption
  <2>. QED BY <1>6, <2>1, <2>2, WiresAre DEF HearStop, Typed, TypeOK, AnyMessage
<1>7. CASE HearSend
  <2>1. toFrame' \in Seq(FrameMessage) /\ Taken.conn \in Conns /\ Taken.req \in Reqs
    BY <1>4, <1>7 DEF HearSend
  <2>2. toPage' \in Seq(PageMessage) /\ atChain' \in [Conns -> SUBSET Reqs] /\ reached' \in [Conns -> Seq(Reqs)]
    <3>1. CASE Taken.conn \in held
      <4>1. /\ atChain' = [atChain EXCEPT ![Taken.conn] = @ \cup {Taken.req}]
            /\ reached' = [reached EXCEPT ![Taken.conn] = Append(@, Taken.req)]
            /\ toPage' = Append(toPage, Msg("ok", Taken.conn, Taken.req))
        BY <1>7, <3>1 DEF HearSend
      <4>2. Append(reached[Taken.conn], Taken.req) \in Seq(Reqs)
        BY <1>1, <2>1
      <4>3. toPage' \in Seq(PageMessage)
        BY <1>3, <2>1, <4>1
      <4>. QED BY <1>1, <2>1, <4>1, <4>2, <4>3
    <3>2. CASE Taken.conn \notin held
      BY <1>1, <1>3, <1>7, <2>1, <3>2 DEF HearSend
    <3>. QED BY <3>1, <3>2
  <2>. QED BY <1>7, <2>1, <2>2, WiresAre DEF HearSend, Typed, TypeOK, AnyMessage
<1>8. CASE ChainAnswers(c, r)
  <2>1. toPage' \in Seq(PageMessage) /\ atChain' \in [Conns -> SUBSET Reqs]
    BY <1>1, <1>3, <1>8 DEF ChainAnswers
  <2>. QED BY <1>8, <2>1, WiresAre DEF ChainAnswers, Typed, TypeOK, AnyMessage
<1>9. held' = {} => held' \in SUBSET Conns /\ Cardinality(held') <= Limit
  BY HeldIs DEF RemoteAssumption
<1>10. CASE ChainHalts
  <2>1. PICK news \in HaltNews : toPage' = toPage \o news
    BY <1>10 DEF ChainHalts
  <2>2. toPage' \in Seq(PageMessage)
    BY <1>1, <2>1, NewsIs, ConcatIs
  <2>. QED BY <1>9, <1>10, <2>2, WiresAre DEF ChainHalts, Typed, TypeOK, AnyMessage
<1>11. CASE ReleaseScope
  <2>1. toPage' \in Seq(PageMessage)
    BY <1>3, <1>11 DEF ReleaseScope, Lost
  <2>. QED BY <1>9, <1>11, <2>1, WiresAre DEF ReleaseScope, Typed, TypeOK, AnyMessage
<1>. QED BY <1>5, <1>6, <1>7, <1>8, <1>10, <1>11 DEF ScopeHears

----------------------------------------------------------------------------
(* The two ends. *)

Bond(c) == Asked(c) /\ Matched(c)

\* The frame's end takes a message.
LEMMA TakesIs ==
  ASSUME Typed, NEW kind \in {"start", "stop", "send"}, Takes(kind)
  PROVE  /\ Taken.conn \in Conns /\ served
         /\ kind # "send" => Taken = About(kind, Taken.conn)
         /\ kind = "send" => Taken = Sends(Taken.conn, Taken.req) /\ Taken.req \in Reqs
         /\ \A m : On(toFrame, m) <=> m = Taken \/ On(toFrame', m)
         /\ \A m, n : Ahead(toFrame, m, n) <=> Ahead(toFrame', m, n) \/ (m = Taken /\ On(toFrame', n))
<1>1. toFrame \in Seq(FrameMessage) /\ toFrame # <<>> /\ toFrame' = Tail(toFrame) /\ Taken.kind = kind /\ served
  BY DEF Typed, Takes, Taken
<1>2. /\ Head(toFrame) \in FrameMessage
      /\ \A m : On(toFrame, m) <=> m = Head(toFrame) \/ On(Tail(toFrame), m)
      /\ \A m, n : Ahead(toFrame, m, n) <=> Ahead(Tail(toFrame), m, n) \/ (m = Head(toFrame) /\ On(Tail(toFrame), n))
  BY <1>1, TailIs
<1>. QED BY <1>1, <1>2, FrameMessageIs DEF Taken

\* The page hears a message.
LEMMA HearsIs ==
  ASSUME Typed, NEW kinds, Hears(kinds)
  PROVE  /\ Rested /\ Heard \in PageMessage /\ Heard.kind \in kinds
         /\ \A m : On(toPage, m) <=> m = Heard \/ On(toPage', m)
         /\ \A m, n : Ahead(toPage, m, n) <=> Ahead(toPage', m, n) \/ (m = Heard /\ On(toPage', n))
<1>1. toPage \in Seq(PageMessage) /\ toPage # <<>> /\ toPage' = Tail(toPage) /\ Heard.kind \in kinds /\ Rested
  BY DEF Typed, Hears, Heard
<1>2. /\ Head(toPage) \in PageMessage
      /\ \A m : On(toPage, m) <=> m = Head(toPage) \/ On(Tail(toPage), m)
      /\ \A m, n : Ahead(toPage, m, n) <=> Ahead(Tail(toPage), m, n) \/ (m = Head(toPage) /\ On(Tail(toPage), n))
  BY <1>1, TailIs
<1>. QED BY <1>1, <1>2 DEF Heard

\* A connection is stopped at once if it was asked for.
LEMMA StopsIs ==
  ASSUME Typed, NEW c \in Conns, toFrame' = toFrame \o Stops(c)
  PROVE  /\ \A m : On(toFrame', m) <=> On(toFrame, m) \/ (conn[c] = "asked" /\ m = About("stop", c))
         /\ \A m, n : Ahead(toFrame', m, n) <=> \/ Ahead(toFrame, m, n)
                                                \/ conn[c] = "asked" /\ On(toFrame, m) /\ n = About("stop", c)
<1>1. toFrame \in Seq(FrameMessage) /\ About("stop", c) \in FrameMessage
  BY MessagesAre DEF Typed
<1>2. CASE conn[c] = "asked"
  <2>1. toFrame' = Append(toFrame, About("stop", c))
    BY <1>1, <1>2 DEF Stops, About
  <2>. QED BY <1>1, <1>2, <2>1, AppendIs
<1>3. CASE conn[c] # "asked"
  <2>1. toFrame' = toFrame
    BY <1>1, <1>3 DEF Stops
  <2>. QED BY <1>3, <2>1
<1>. QED BY <1>2, <1>3

\* The frame is lost, and everything with it.
LEMMA LoseEnds ==
  ASSUME RemoteAssumption, EndsInv, Rested, NEW next \in {"down", "held"}, LoseFrame(next), Typed'
  PROVE  EndsInv'
<1>1. /\ frame' = next /\ toFrame' = <<>> /\ toPage' = <<>> /\ held' = {} /\ flight' = {} /\ leaving' = <<>>
      /\ connected' = connected /\ atChain' = [c \in Conns |-> {}]
      /\ conn' = [c \in Conns |-> IF IsOpen(c) THEN "gone" ELSE conn[c]]
  BY DEF LoseFrame, HaltRemote, Rested
<1>2. Gone' /\ LetGo'
  BY <1>1 DEF Gone, LetGo, IsOpen
<1>3. ASSUME NEW d \in Conns PROVE Bond(d)'
  <2>1. (\A m : ~On(toFrame', m)) /\ (\A m : ~On(toPage', m)) /\ \A m, n : ~Ahead(toFrame', m, n)
    BY <1>1, NoneOn
  <2>2. conn'[d] \in {"new", "gone"} /\ (conn'[d] = "new" => conn[d] = "new")
    BY <1>1 DEF IsOpen, EndsInv, Typed, TypeOK
  <2>. QED BY <1>1, <2>1, <2>2 DEF Bond, Asked, Matched, EndsInv
<1>. QED BY <1>2, <1>3 DEF EndsInv, Bond

\* The page's own steps.
LEMMA PageEnds ==
  ASSUME RemoteAssumption, EndsInv, Typed', NEW c \in Conns, NEW r \in Reqs,
         \/ Connect(c) \/ PostStart(c) \/ FailWait \/ Send(c, r) \/ PostSends \/ SendTimeout(r)
         \/ Disconnect(c) \/ ConnectTimeout(c) \/ Boot \/ FrameReady
  PROVE  EndsInv'
<1>. USE DEF scopeVars
<1>1. Typed /\ Gone /\ LetGo /\ \A d \in Conns : Asked(d) /\ Matched(d)
  BY DEF EndsInv
<1>2. /\ conn \in [Conns -> {"new", "waiting", "asked", "gone"}] /\ toFrame \in Seq(FrameMessage)
      /\ leaving \in Seq(SendMessage) /\ leaving \in Seq(FrameMessage) /\ frame \in {"down", "held", "booting", "ready"}
  BY <1>1, WiresAre DEF Typed, TypeOK, SendMessage
<1>3. CASE Connect(c)
  <2>1. /\ conn[c] = "new" /\ conn' = [conn EXCEPT ![c] = "waiting"] /\ (frame' = "ready" <=> frame = "ready")
        /\ UNCHANGED <<connected, leaving, flight, toFrame, toPage, served, held, atChain>>
    BY <1>3 DEF Connect
  <2>2. Gone' /\ LetGo'
    BY <1>1, <1>2, <2>1 DEF Gone, LetGo
  <2>3. ASSUME NEW d \in Conns PROVE Bond(d)'
    BY <1>1, <1>2, <2>1, <2>3 DEF Bond, Asked, Matched
  <2>. QED BY <2>2, <2>3 DEF EndsInv, Bond
<1>4. CASE PostStart(c)
  <2>1. /\ conn[c] = "waiting" /\ conn' = [conn EXCEPT ![c] = "asked"] /\ frame = "ready" /\ frame' = "ready"
        /\ toFrame' = Append(toFrame, About("start", c))
        /\ UNCHANGED <<connected, leaving, flight, toPage, served, held, atChain>>
    BY <1>4 DEF PostStart, About
  <2>2. Gone' /\ LetGo'
    BY <1>1, <1>2, <2>1 DEF Gone, LetGo
  <2>3. /\ \A m : On(toFrame', m) <=> On(toFrame, m) \/ m = About("start", c)
        /\ \A m, n : Ahead(toFrame', m, n) <=> Ahead(toFrame, m, n) \/ (On(toFrame, m) /\ n = About("start", c))
    BY <1>2, <2>1, MessagesAre, AppendIs
  <2>4. ASSUME NEW d \in Conns PROVE Bond(d)'
    <3>1. CASE d = c
      BY <1>1, <1>2, <2>1, <2>3, <3>1, NamesAre DEF Bond, Asked, Matched
    <3>2. CASE d # c
      BY <1>1, <1>2, <2>1, <2>3, <2>4, <3>2, NamesAre DEF Bond, Asked, Matched
    <3>. QED BY <3>1, <3>2
  <2>. QED BY <2>2, <2>4 DEF EndsInv, Bond
<1>5. CASE FailWait
  <2>1. /\ conn' = [d \in Conns |-> IF conn[d] = "waiting" THEN "gone" ELSE conn[d]]
        /\ UNCHANGED <<frame, connected, leaving, flight, toFrame, toPage, served, held, atChain>>
    BY <1>5 DEF FailWait, HaltRemote, WaitingConns
  <2>2. Gone' /\ LetGo'
    BY <1>1, <1>2, <2>1 DEF Gone, LetGo
  <2>3. ASSUME NEW d \in Conns PROVE Bond(d)'
    BY <1>1, <1>2, <2>1, <2>3 DEF Bond, Asked, Matched
  <2>. QED BY <2>2, <2>3 DEF EndsInv, Bond
<1>6. CASE Send(c, r) \/ SendTimeout(r) \/ PostSends
  <2>1. UNCHANGED <<frame, conn, connected, toPage, served, held, atChain>>
    BY <1>6 DEF Send, SendTimeout, PostSends
  <2>2. LetGo'
    BY <1>1, <2>1 DEF LetGo
  <2>3. Gone'
    <3>1. CASE Send(c, r)
      <4>1. frame # "ready" => ~(IsOpen(c) /\ c \in connected)
        BY <1>1, <1>2 DEF Gone, Asked, IsOpen
      <4>. QED BY <1>1, <3>1, <4>1 DEF Gone, Send
    <3>2. CASE SendTimeout(r)
      BY <1>1, <3>2 DEF Gone, SendTimeout, FailSend
    <3>3. CASE PostSends
      BY <1>1, <3>3 DEF Gone, PostSends
    <3>. QED BY <1>6, <3>1, <3>2, <3>3
  <2>4. ASSUME NEW d \in Conns PROVE \A kind \in {"start", "stop"} :
          /\ On(toFrame', About(kind, d)) <=> On(toFrame, About(kind, d))
          /\ Ahead(toFrame', About(kind, d), About("start", d)) <=> Ahead(toFrame, About(kind, d), About("start", d))
    <3>1. CASE PostSends
      <4>1. toFrame' = toFrame \o leaving
        BY <3>1 DEF PostSends
      <4>2. \A kind \in {"start", "stop"} : ~On(leaving, About(kind, d))
        <5>1. \A i \in DOMAIN leaving : leaving[i].kind = "send"
          <6>1. \A i \in DOMAIN leaving : leaving[i] \in SendMessage
            BY <1>2
          <6>. QED BY <6>1 DEF SendMessage
        <5>. QED BY <5>1, MsgIs DEF On, About
      <4>3. \A m, n : Ahead(leaving, m, n) => On(leaving, m)
        BY DEF Ahead, On
      <4>. QED BY <1>2, <4>1, <4>2, <4>3, ConcatIs
    <3>2. CASE Send(c, r) \/ SendTimeout(r)
      <4>1. toFrame' = toFrame
        BY <3>2 DEF Send, SendTimeout
      <4>. QED BY <4>1
    <3>. QED BY <1>6, <3>1, <3>2
  <2>5. ASSUME NEW d \in Conns PROVE Bond(d)'
    BY <1>1, <2>1, <2>4, <2>5 DEF Bond, Asked, Matched
  <2>. QED BY <2>2, <2>3, <2>5 DEF EndsInv, Bond
<1>7. CASE Disconnect(c) \/ ConnectTimeout(c)
  <2>1. /\ IsOpen(c) /\ conn' = [conn EXCEPT ![c] = "gone"] /\ toFrame' = toFrame \o Stops(c)
        /\ UNCHANGED <<frame, connected, leaving, flight, toPage, served, held, atChain>>
    <3>1. CASE Disconnect(c)
      BY <3>1 DEF Disconnect
    <3>2. CASE ConnectTimeout(c)
      <4>1. conn' = [conn EXCEPT ![c] = "gone"]
        BY <1>2, <3>2 DEF ConnectTimeout, HaltRemote
      <4>. QED BY <3>2, <4>1 DEF ConnectTimeout, IsOpen
    <3>. QED BY <1>7, <3>1, <3>2
  <2>2. /\ \A m : On(toFrame', m) <=> On(toFrame, m) \/ (conn[c] = "asked" /\ m = About("stop", c))
        /\ \A m, n : Ahead(toFrame', m, n) <=> \/ Ahead(toFrame, m, n)
                                               \/ conn[c] = "asked" /\ On(toFrame, m) /\ n = About("stop", c)
    BY <1>1, <2>1, StopsIs
  <2>3. Gone'
    <3>1. frame # "ready" => conn[c] # "asked" /\ Stops(c) = <<>>
      BY <1>1 DEF Gone, Stops
    <3>. QED BY <1>1, <1>2, <2>1, <3>1 DEF Gone
  <2>4. LetGo'
    BY <1>1, <2>1 DEF LetGo
  <2>5. ASSUME NEW d \in Conns PROVE Bond(d)'
    <3>1. CASE d = c
      BY <1>1, <1>2, <2>1, <2>2, <3>1, NamesAre DEF Bond, Asked, Matched, IsOpen
    <3>2. CASE d # c
      <4>1. /\ \A kind \in {"start", "stop"} : On(toFrame', About(kind, d)) <=> On(toFrame, About(kind, d))
            /\ \A m : Ahead(toFrame', m, About("start", d)) <=> Ahead(toFrame, m, About("start", d))
        BY <2>2, <3>2, NamesAre
      <4>2. conn'[d] = conn[d]
        BY <1>2, <2>1, <3>2
      <4>. QED BY <1>1, <2>1, <2>5, <4>1, <4>2 DEF Bond, Asked, Matched
    <3>. QED BY <3>1, <3>2
  <2>. QED BY <2>3, <2>4, <2>5 DEF EndsInv, Bond
<1>8. CASE Boot \/ FrameReady
  <2>1. /\ frame # "ready"
        /\ UNCHANGED <<conn, connected, leaving, flight, toFrame, toPage, held, atChain>>
        /\ (frame' = "ready" => served')
    BY <1>8 DEF Boot, FrameReady
  <2>2. Gone' /\ LetGo'
    BY <1>1, <2>1 DEF Gone, LetGo
  <2>3. ASSUME NEW d \in Conns PROVE Bond(d)'
    BY <1>1, <2>1, <2>3 DEF Bond, Asked, Matched
  <2>. QED BY <2>2, <2>3 DEF EndsInv, Bond
<1>. QED BY <1>3, <1>4, <1>5, <1>6, <1>7, <1>8

\* What the page hears.
LEMMA HearEnds ==
  ASSUME RemoteAssumption, EndsInv, Typed', PageHears \/ FrameDown
  PROVE  EndsInv'
<1>. USE DEF scopeVars
<1>1. Typed /\ Gone /\ LetGo /\ \A d \in Conns : Asked(d) /\ Matched(d)
  BY DEF EndsInv
<1>2. /\ conn \in [Conns -> {"new", "waiting", "asked", "gone"}] /\ frame \in {"down", "held", "booting", "ready"}
  BY <1>1 DEF Typed, TypeOK
<1>3. \A kinds : Hears(kinds) => frame = "ready"
  BY <1>1 DEF Hears, Gone
<1>4. CASE HearConnected
  <2>. DEFINE c == Heard.conn
  <2>1. /\ Heard = About("connected", c) /\ c \in Conns
        /\ \A m : On(toPage, m) <=> m = Heard \/ On(toPage', m)
    BY <1>1, <1>4, HearsIs, PageMessageIs DEF HearConnected
  <2>2. /\ connected' = (IF IsOpen(c) THEN connected \cup {c} ELSE connected)
        /\ UNCHANGED <<frame, conn, toFrame, served, held, atChain>>
    BY <1>4 DEF HearConnected
  <2>3. Gone'
    BY <1>3, <1>4, <2>2 DEF HearConnected, Gone
  <2>4. \A kind, d : kind # "connected" => (On(toPage', About(kind, d)) <=> On(toPage, About(kind, d)))
    BY <2>1, NamesAre
  <2>5. On(toPage', Lost) <=> On(toPage, Lost)
    BY <2>1, NamesAre
  <2>6. LetGo'
    BY <1>1, <2>2, <2>5 DEF LetGo
  <2>7. ASSUME NEW d \in Conns PROVE Bond(d)'
    <3>1. On(toPage', About("connected", d)) => On(toPage, About("connected", d))
      BY <2>1
    <3>2. CASE d = c
      <4>1. On(toPage, About("connected", c))
        BY <2>1
      <4>. QED BY <1>1, <1>2, <2>1, <2>2, <2>4, <2>5, <3>1, <3>2, <4>1 DEF Bond, Asked, Matched, IsOpen
    <3>3. CASE d # c
      BY <1>1, <1>2, <2>1, <2>2, <2>4, <2>5, <2>7, <3>1, <3>3 DEF Bond, Asked, Matched
    <3>. QED BY <3>2, <3>3
  <2>. QED BY <2>3, <2>6, <2>7 DEF EndsInv, Bond
<1>5. CASE HearAnswer \/ HearReply
  <2>1. /\ \A m : On(toPage, m) <=> m = Heard \/ On(toPage', m)
        /\ Heard \in PageMessage /\ Heard.kind \in {"answer", "halted", "ok", "refuse"}
    BY <1>1, <1>5, HearsIs DEF HearAnswer, HearReply
  <2>2. UNCHANGED <<frame, conn, connected, toFrame, served, held, atChain>>
    BY <1>5 DEF HearAnswer, HearReply
  <2>3. Gone'
    BY <1>3, <1>5, <2>2 DEF HearAnswer, HearReply, Gone
  <2>4. \A kind \in {"connected", "end", "fail"} : \A d : On(toPage', About(kind, d)) <=> On(toPage, About(kind, d))
    BY <2>1, MsgIs DEF About
  <2>5. On(toPage', Lost) <=> On(toPage, Lost)
    BY <2>1, MsgIs DEF Lost
  <2>6. LetGo'
    BY <1>1, <2>2, <2>5 DEF LetGo
  <2>7. ASSUME NEW d \in Conns PROVE Bond(d)'
    BY <1>1, <2>2, <2>4, <2>5, <2>7 DEF Bond, Asked, Matched
  <2>. QED BY <2>3, <2>6, <2>7 DEF EndsInv, Bond
<1>6. CASE HearEnd
  <2>. DEFINE c == Heard.conn
  <2>1. /\ (Heard = About("end", c) \/ Heard = About("fail", c)) /\ c \in Conns
        /\ \A m : On(toPage, m) <=> m = Heard \/ On(toPage', m)
    BY <1>1, <1>6, HearsIs, PageMessageIs DEF HearEnd
  <2>2. /\ conn' = [d \in Conns |-> IF d = c /\ IsOpen(c) THEN "gone" ELSE conn[d]]
        /\ UNCHANGED <<frame, connected, toFrame, served, held, atChain>>
    BY <1>6 DEF HearEnd, HaltRemote
  <2>3. Gone'
    BY <1>3, <1>6, <2>2 DEF HearEnd, Gone
  <2>4. /\ \A d : On(toPage', About("connected", d)) <=> On(toPage, About("connected", d))
        /\ \A kind, d : d # c => (On(toPage', About(kind, d)) <=> On(toPage, About(kind, d)))
        /\ \A kind, d : On(toPage', About(kind, d)) => On(toPage, About(kind, d))
    BY <2>1, NamesAre
  <2>5. On(toPage', Lost) <=> On(toPage, Lost)
    BY <2>1, NamesAre
  <2>6. LetGo'
    BY <1>1, <2>2, <2>5 DEF LetGo
  <2>7. ASSUME NEW d \in Conns PROVE Bond(d)'
    <3>1. CASE d = c
      <4>1. On(toPage, About("end", c)) \/ On(toPage, About("fail", c))
        BY <2>1
      <4>2. conn'[c] = "gone" \/ (conn'[c] = conn[c] /\ conn[c] \in {"new", "gone"})
        BY <1>2, <2>2, <3>1 DEF IsOpen
      <4>3. c \in Conns
        BY <3>1
      <4>. QED BY <1>1, <2>2, <2>4, <3>1, <4>1, <4>2, <4>3 DEF Bond, Asked, Matched
    <3>2. CASE d # c
      <4>1. conn'[d] = conn[d]
        BY <2>2, <3>2
      <4>. QED BY <1>1, <2>2, <2>4, <2>5, <2>7, <3>2, <4>1 DEF Bond, Asked, Matched
    <3>. QED BY <3>1, <3>2
  <2>. QED BY <2>3, <2>6, <2>7 DEF EndsInv, Bond
<1>7. CASE HearLost \/ FrameDown
  BY <1>7, LoseEnds DEF HearLost, FrameDown
<1>. QED BY <1>4, <1>5, <1>6, <1>7 DEF PageHears

\* What the scope does.
LEMMA ScopeEnds ==
  ASSUME RemoteAssumption, EndsInv, Typed', NEW c \in Conns, NEW r \in Reqs,
         ScopeHears \/ ChainAnswers(c, r) \/ ChainHalts \/ ReleaseScope
  PROVE  EndsInv'
<1>. USE DEF pageVars
<1>1. Typed /\ Gone /\ LetGo /\ \A d \in Conns : Asked(d) /\ Matched(d)
  BY DEF EndsInv
<1>2. /\ conn \in [Conns -> {"new", "waiting", "asked", "gone"}] /\ frame \in {"down", "held", "booting", "ready"}
      /\ toPage \in Seq(PageMessage) /\ held \in SUBSET Conns /\ atChain \in [Conns -> SUBSET Reqs]
  BY <1>1 DEF Typed, TypeOK
<1>3. \A kind : Takes(kind) => frame = "ready"
  BY <1>1 DEF Takes, Gone
<1>4. UNCHANGED <<frame, conn, connected, leaving, flight>>
  BY DEF ScopeHears, HearStart, HearStop, HearSend, ChainAnswers, ChainHalts, ReleaseScope
<1>5. ASSUME NEW accepts \in BOOLEAN, HearStart(accepts) PROVE EndsInv'
  <2>. DEFINE d == Taken.conn
              reply == About(IF accepts THEN "connected" ELSE "fail", d)
  <2>1. /\ Taken = About("start", d) /\ d \in Conns /\ served
        /\ \A m : On(toFrame, m) <=> m = Taken \/ On(toFrame', m)
        /\ \A m, n : Ahead(toFrame, m, n) <=> Ahead(toFrame', m, n) \/ (m = Taken /\ On(toFrame', n))
    BY <1>1, <1>5, TakesIs DEF HearStart
  <2>2. /\ toPage' = Append(toPage, reply) /\ UNCHANGED <<served, atChain>>
        /\ held' = IF accepts THEN held \cup {d} ELSE held
    BY <1>5 DEF HearStart, About
  <2>3. \A m : On(toPage', m) <=> On(toPage, m) \/ m = reply
    BY <1>2, <2>1, <2>2, MessagesAre, AppendIs
  <2>4. Gone' /\ LetGo'
    BY <1>1, <1>3, <1>4, <1>5, <2>1, <2>2 DEF HearStart, Gone, LetGo
  <2>5. On(toFrame, About("start", d)) /\ ~On(toFrame', About("start", d))
    <3>1. On(toFrame, About("start", d))
      BY <2>1
    <3>2. ~Ahead(toFrame, About("start", d), About("start", d))
      BY <1>1, <2>1 DEF Asked
    <3>. QED BY <2>1, <3>1, <3>2
  <2>6. ASSUME NEW e \in Conns PROVE Bond(e)'
    <3>1. /\ On(toFrame', About("stop", e)) <=> On(toFrame, About("stop", e))
          /\ \A m, n : Ahead(toFrame', m, n) => Ahead(toFrame, m, n)
          /\ On(toPage', Lost) <=> On(toPage, Lost)
          /\ On(toPage', About("end", e)) <=> On(toPage, About("end", e))
      BY <2>1, <2>3, NamesAre
    <3>2. CASE e = d
      <4>1. /\ On(toPage', About("fail", d)) <=> On(toPage, About("fail", d)) \/ ~accepts
            /\ On(toPage', About("connected", d)) <=> On(toPage, About("connected", d)) \/ accepts
        BY <2>3, NamesAre
      <4>. QED BY <1>1, <1>4, <2>1, <2>2, <2>5, <3>1, <3>2, <4>1 DEF Bond, Asked, Matched
    <3>3. CASE e # d
      <4>1. /\ On(toFrame', About("start", e)) <=> On(toFrame, About("start", e))
            /\ \A kind : On(toPage', About(kind, e)) <=> On(toPage, About(kind, e))
        BY <2>1, <2>3, <3>3, NamesAre
      <4>2. e \in held' <=> e \in held
        BY <2>2, <3>3
      <4>. QED BY <1>1, <1>4, <2>2, <2>6, <3>1, <4>1, <4>2 DEF Bond, Asked, Matched
    <3>. QED BY <3>2, <3>3
  <2>. QED BY <2>4, <2>6 DEF EndsInv, Bond
<1>6. CASE HearStop
  <2>. DEFINE d == Taken.conn
  <2>1. /\ Taken = About("stop", d) /\ d \in Conns /\ served
        /\ \A m : On(toFrame, m) <=> m = Taken \/ On(toFrame', m)
        /\ \A m, n : Ahead(toFrame, m, n) <=> Ahead(toFrame', m, n) \/ (m = Taken /\ On(toFrame', n))
    BY <1>1, <1>6, TakesIs DEF HearStop
  <2>2. /\ UNCHANGED <<toPage, served>> /\ held' = held \ {d} /\ atChain' = [atChain EXCEPT ![d] = {}]
    BY <1>6 DEF HearStop
  <2>3. Gone' /\ LetGo'
    BY <1>1, <1>3, <1>4, <1>6, <2>1, <2>2 DEF HearStop, Gone, LetGo
  <2>4. ASSUME NEW e \in Conns PROVE Bond(e)'
    <3>1. /\ On(toFrame', About("start", e)) <=> On(toFrame, About("start", e))
          /\ \A m, n : Ahead(toFrame', m, n) => Ahead(toFrame, m, n)
      BY <2>1, NamesAre
    <3>2. CASE e = d
      <4>1. On(toFrame, About("stop", d)) /\ ~On(toFrame', About("start", d))
        BY <1>1, <2>1 DEF Asked
      <4>2. atChain'[d] = {} /\ d \notin held'
        BY <1>2, <2>1, <2>2
      <4>. QED BY <1>1, <1>4, <2>1, <2>2, <3>1, <3>2, <4>1, <4>2 DEF Bond, Asked, Matched
    <3>3. CASE e # d
      <4>1. On(toFrame', About("stop", e)) <=> On(toFrame, About("stop", e))
        BY <2>1, <3>3, NamesAre
      <4>2. e \in held' <=> e \in held
        BY <2>2, <3>3
      <4>. QED BY <1>1, <1>4, <2>2, <2>4, <3>1, <4>1, <4>2 DEF Bond, Asked, Matched
    <3>. QED BY <3>2, <3>3
  <2>. QED BY <2>3, <2>4 DEF EndsInv, Bond
<1>7. ASSUME NEW m \in PageMessage, m.kind \in {"ok", "refuse", "answer"}, toPage' = Append(toPage, m),
             UNCHANGED <<held, served>>, \A d \in Conns : d \notin held => atChain'[d] = {},
             \A kind \in {"start", "stop"}, d \in Conns : On(toFrame', About(kind, d)) <=> On(toFrame, About(kind, d)),
             \A x, y : Ahead(toFrame', x, y) => Ahead(toFrame, x, y), frame = "ready", served
      PROVE  EndsInv'
  <2>1. /\ \A kind \in {"connected", "end", "fail"}, d \in Conns :
             On(toPage', About(kind, d)) <=> On(toPage, About(kind, d))
        /\ On(toPage', Lost) <=> On(toPage, Lost)
    BY <1>2, <1>7, AppendIs, MsgIs DEF About, Lost
  <2>2. Gone' /\ LetGo'
    BY <1>4, <1>7 DEF Gone, LetGo
  <2>3. ASSUME NEW e \in Conns PROVE Bond(e)'
    BY <1>1, <1>4, <1>7, <2>1, <2>3 DEF Bond, Asked, Matched
  <2>. QED BY <2>2, <2>3 DEF EndsInv, Bond
<1>8. CASE HearSend
  <2>. DEFINE d == Taken.conn
              q == Taken.req
  <2>1. /\ Taken = Sends(d, q) /\ d \in Conns /\ q \in Reqs /\ served
        /\ \A m : On(toFrame, m) <=> m = Taken \/ On(toFrame', m)
        /\ \A m, n : Ahead(toFrame, m, n) <=> Ahead(toFrame', m, n) \/ (m = Taken /\ On(toFrame', n))
    BY <1>1, <1>8, TakesIs DEF HearSend
  <2>2. \A kind \in {"start", "stop"}, e \in Conns : On(toFrame', About(kind, e)) <=> On(toFrame, About(kind, e))
    BY <2>1, NamesAre
  <2>3. \E kind \in {"ok", "refuse"} : toPage' = Append(toPage, Msg(kind, d, q))
    BY <1>8 DEF HearSend
  <2>4. UNCHANGED <<held, served>> /\ frame = "ready"
    BY <1>3, <1>8 DEF HearSend
  <2>5. \A kind \in {"ok", "refuse"} : Msg(kind, d, q) \in PageMessage /\ Msg(kind, d, q).kind = kind
    BY <2>1, MessagesAre, MsgIs
  <2>6. \A e \in Conns : e \notin held => atChain'[e] = {}
    <3>1. CASE d \in held
      <4>1. \A e \in Conns : e # d => atChain'[e] = atChain[e]
        BY <1>2, <1>8, <3>1 DEF HearSend
      <4>. QED BY <1>1, <3>1, <4>1 DEF Matched
    <3>2. CASE d \notin held
      BY <1>1, <1>8, <3>2 DEF HearSend, Matched
    <3>. QED BY <3>1, <3>2
  <2>. QED BY <1>7, <2>1, <2>2, <2>3, <2>4, <2>5, <2>6
<1>9. CASE ChainAnswers(c, r)
  <2>1. Msg("answer", c, r) \in PageMessage /\ Msg("answer", c, r).kind = "answer"
    BY MessagesAre, MsgIs
  <2>2. toPage' = Append(toPage, Msg("answer", c, r)) /\ UNCHANGED <<held, served, toFrame>>
    BY <1>9 DEF ChainAnswers
  <2>3. c \in held
    BY <1>1, <1>9 DEF ChainAnswers, Matched
  <2>4. frame = "ready" /\ served
    BY <1>1, <2>3 DEF Gone, LetGo, Typed, TypeOK
  <2>5. \A d \in Conns : d \notin held => atChain'[d] = {}
    BY <1>1, <1>2, <1>9, <2>3 DEF ChainAnswers, Matched
  <2>. QED BY <1>7, <2>1, <2>2, <2>4, <2>5
<1>10. ASSUME toFrame' = toFrame, held' = {}, frame = "ready", \A d \in Conns : atChain'[d] = {},
              \A x : On(toPage, x) => On(toPage', x),
              \A x : On(toPage', x) => \/ On(toPage, x) \/ x.kind \in {"halted", "lost"}
                                      \/ \E d \in held : x = About("end", d),
              \A d \in held : On(toPage', About("end", d)) \/ On(toPage', Lost), ~served' => On(toPage', Lost),
              On(toPage', Lost) => On(toPage, Lost) \/ ~served'
       PROVE  EndsInv'
  <2>1. Gone' /\ LetGo'
    BY <1>4, <1>10 DEF Gone, LetGo
  <2>2. ASSUME NEW e \in Conns PROVE Bond(e)'
    <3>1. \A kind \in {"connected", "fail"} : On(toPage', About(kind, e)) <=> On(toPage, About(kind, e))
      BY <1>10, MsgIs DEF About
    <3>2. On(toPage', About("end", e)) => On(toPage, About("end", e)) \/ e \in held
      BY <1>10, MsgIs DEF About
    <3>3. /\ On(toPage, About("end", e)) => On(toPage', About("end", e))
          /\ On(toPage, Lost) => On(toPage', Lost)
      BY <1>10
    <3>. QED BY <1>1, <1>4, <1>10, <2>2, <3>1, <3>2, <3>3 DEF Bond, Asked, Matched
  <2>. QED BY <2>1, <2>2 DEF EndsInv, Bond
<1>11. CASE ChainHalts
  <2>1. PICK news \in HaltNews : toPage' = toPage \o news
    BY <1>11 DEF ChainHalts
  <2>2. /\ toFrame' = toFrame /\ held' = {} /\ held # {} /\ atChain' = [d \in Conns |-> {}] /\ UNCHANGED served
    BY <1>11 DEF ChainHalts
  <2>3. frame = "ready" /\ served
    BY <1>1, <1>2, <2>2 DEF Gone, LetGo, Typed, TypeOK
  <2>4. \A x : On(toPage', x) <=> On(toPage, x) \/ \E d \in held : x \in HaltMessages(d)
    BY <1>1, <1>2, <2>1, NewsIs, ConcatIs
  <2>5. \A d \in held : \A x \in HaltMessages(d) : x.kind = "halted" \/ x = About("end", d)
    BY MsgIs DEF HaltMessages, About
  <2>6. \A d \in held : About("end", d) \in HaltMessages(d)
    BY DEF HaltMessages, About
  <2>7. On(toPage', Lost) => On(toPage, Lost)
    BY <2>4, <2>5, MsgIs DEF Lost, About
  <2>8. \A x : On(toPage', x) => On(toPage, x) \/ x.kind \in {"halted", "lost"} \/ \E d \in held : x = About("end", d)
    BY <2>4, <2>5
  <2>9. \A d \in held : On(toPage', About("end", d))
    BY <2>4, <2>6
  <2>. QED BY <1>10, <2>2, <2>3, <2>4, <2>7, <2>8, <2>9
<1>12. CASE ReleaseScope
  <2>1. /\ toPage' = Append(toPage, Lost) /\ toFrame' = toFrame /\ held' = {} /\ ~served' /\ frame = "ready"
        /\ atChain' = [d \in Conns |-> {}]
    BY <1>12 DEF ReleaseScope, Lost
  <2>2. \A x : On(toPage', x) <=> On(toPage, x) \/ x = Lost
    BY <1>2, <2>1, MessagesAre, AppendIs
  <2>3. Lost.kind = "lost"
    BY MsgIs DEF Lost
  <2>. QED BY <1>10, <2>1, <2>2, <2>3
<1>. QED BY <1>5, <1>6, <1>8, <1>9, <1>11, <1>12 DEF ScopeHears

----------------------------------------------------------------------------
(* The requests on their way to the chain. *)

\* What the invariants say of each variable.
LEMMA Known ==
  ASSUME EndsInv, SentInv
  PROVE  /\ conn \in [Conns -> {"new", "waiting", "asked", "gone"}] /\ pending \in [Conns -> Seq(Reqs)]
         /\ sent \in [Conns -> Seq(Reqs)] /\ reached \in [Conns -> Seq(Reqs)] /\ atChain \in [Conns -> SUBSET Reqs]
         /\ leaving \in Seq(SendMessage) /\ leaving \in Seq(FrameMessage)
         /\ toFrame \in Seq(FrameMessage) /\ toPage \in Seq(PageMessage)
         /\ answers \in [Reqs -> Seq(Endings)] /\ flight \in SUBSET Reqs
         /\ held \in SUBSET Conns /\ connected \in SUBSET Conns
         /\ Typed /\ Gone /\ LetGo /\ Sole
         /\ \A c \in Conns : Asked(c) /\ Matched(c) /\ Kept(c) /\ Lined(c)
         /\ \A c \in Conns : DOMAIN sent[c] = 1 .. Len(sent[c]) /\ DOMAIN reached[c] = 1 .. Len(reached[c])
                             /\ Len(sent[c]) \in Nat /\ Len(reached[c]) \in Nat
<1>1. Typed
  BY DEF EndsInv
<1>2. conn \in [Conns -> {"new", "waiting", "asked", "gone"}] /\ pending \in [Conns -> Seq(Reqs)]
      /\ sent \in [Conns -> Seq(Reqs)] /\ reached \in [Conns -> Seq(Reqs)] /\ atChain \in [Conns -> SUBSET Reqs]
  BY <1>1 DEF Typed, TypeOK
<1>3. leaving \in Seq(SendMessage) /\ leaving \in Seq(FrameMessage)
      /\ toFrame \in Seq(FrameMessage) /\ toPage \in Seq(PageMessage)
  BY <1>1, WiresAre DEF Typed, TypeOK, SendMessage
<1>4. answers \in [Reqs -> Seq(Endings)] /\ flight \in SUBSET Reqs /\ held \in SUBSET Conns
      /\ connected \in SUBSET Conns
  BY <1>1 DEF Typed, TypeOK, Endings
<1>5. \A c \in Conns : DOMAIN sent[c] = 1 .. Len(sent[c]) /\ DOMAIN reached[c] = 1 .. Len(reached[c])
                       /\ Len(sent[c]) \in Nat /\ Len(reached[c]) \in Nat
  BY <1>2
<1>. QED BY <1>1, <1>2, <1>3, <1>4, <1>5 DEF EndsInv, SentInv

\* A step that leaves the requests on their way alone, and accepts no connection that has any.
LEMMA CalmSent ==
  ASSUME EndsInv, SentInv, UNCHANGED <<sent, reached, leaving, connected>>,
         \A c \in Conns, r \in Reqs : On(toFrame', Sends(c, r)) <=> On(toFrame, Sends(c, r)),
         \A c \in Conns : \A r, q \in Reqs :
           Ahead(toFrame', Sends(c, r), Sends(c, q)) => Ahead(toFrame, Sends(c, r), Sends(c, q)),
         \A c \in held' : c \in held \/ c \notin connected,
         \A c \in Conns : IsOpen(c)' /\ c \in connected => IsOpen(c),
         \A c \in Conns : Kept(c)'
  PROVE  SentInv'
<1>1. Sole'
  BY Known DEF Sole
<1>2. ASSUME NEW c \in Conns PROVE Lined(c)'
  <2>1. sent[c] \in Seq(Reqs) /\ \A k \in DOMAIN sent[c] : sent[c][k] \in Reqs
    BY Known
  <2>2. \A r \in Reqs : OnLine(c, r)' <=> OnLine(c, r)
    BY DEF OnLine
  <2>3. Lined(c) /\ Kept(c)
    BY Known
  <2>4. c \in held' => /\ \A k, m \in DOMAIN sent[c] :
                            Len(reached[c]) < m /\ m < k /\ OnLine(c, sent[c][k]) => OnLine(c, sent[c][m])
                       /\ c \in connected /\ IsOpen(c)' => \A m \in DOMAIN sent[c] :
                            Len(reached[c]) < m => OnLine(c, sent[c][m])
    BY <2>1, <2>3 DEF Lined, Kept
  <2>5. \A k, m \in DOMAIN sent[c] : m <= k =>
       /\ ~Ahead(toFrame', Sends(c, sent[c][k]), Sends(c, sent[c][m]))
       /\ ~(On(toFrame', Sends(c, sent[c][k])) /\ On(leaving, Sends(c, sent[c][m])))
    BY <2>1, <2>3 DEF Lined
  <2>. QED BY <2>1, <2>2, <2>3, <2>4, <2>5 DEF Lined
<1>. QED BY <1>1, <1>2 DEF SentInv

\* So a step that leaves the wire to the frame alone too.
LEMMA StillSent ==
  ASSUME EndsInv, SentInv, UNCHANGED <<sent, reached, leaving, connected, toFrame>>,
         \A c \in held' : c \in held \/ c \notin connected,
         \A c \in Conns : IsOpen(c)' /\ c \in connected => IsOpen(c),
         \A c \in Conns : Kept(c)'
  PROVE  SentInv'
  BY CalmSent

\* A connection that halts keeps nothing.
LEMMA HaltKept ==
  ASSUME EndsInv, SentInv, NEW cs, NEW reason, HaltRemote(cs, reason), UNCHANGED <<connected, reached, sent, leaving>>,
         \A c \in cs : c \in Conns /\ IsOpen(c), NEW c \in Conns,
         \A r \in Reqs : On(toFrame', Sends(c, r)) => On(toFrame, Sends(c, r))
  PROVE  Kept(c)' /\ (IsOpen(c)' => IsOpen(c))
<1>1. conn'[c] = (IF c \in cs THEN "gone" ELSE conn[c]) /\ pending'[c] = IF c \in cs THEN <<>> ELSE pending[c]
  BY DEF HaltRemote
<1>2. Kept(c)
  BY Known
<1>3. \A r \in Reqs : OnLine(c, r)' => OnLine(c, r)
  BY DEF OnLine
<1>. QED BY <1>1, <1>2, <1>3 DEF Kept, IsOpen

\* The frame is lost, and what was on its way to it.
LEMMA LoseSent ==
  ASSUME EndsInv, SentInv, Rested, NEW next, LoseFrame(next)
  PROVE  SentInv'
<1>1. /\ toFrame' = <<>> /\ leaving' = <<>> /\ leaving = <<>> /\ held' = {}
      /\ UNCHANGED <<sent, reached, connected>>
      /\ HaltRemote({c \in Conns : IsOpen(c)}, "frame")
  BY DEF LoseFrame, Rested
<1>2. (\A m : ~On(<<>>, m)) /\ \A m, n : ~Ahead(<<>>, m, n)
  BY NoneOn
<1>3. Sole'
  BY <1>1, Known DEF Sole
<1>4. ASSUME NEW c \in Conns PROVE Kept(c)' /\ Lined(c)'
  <2>1. Kept(c)'
    BY <1>1, <1>2, HaltKept
  <2>2. \A r \in Reqs : ~OnLine(c, r)'
    BY <1>1, <1>2 DEF OnLine
  <2>3. Lined(c)
    BY Known
  <2>4. /\ Len(reached[c]) <= Len(sent[c]) /\ \A i \in DOMAIN reached[c] : reached[c][i] = sent[c][i]
    BY <2>3 DEF Lined
  <2>5. Lined(c)'
    BY <1>1, <1>2, <2>2, <2>4 DEF Lined
  <2>. QED BY <2>1, <2>5
<1>. QED BY <1>3, <1>4 DEF SentInv

\* The page's own steps that send nothing.
LEMMA QuietSent ==
  ASSUME RemoteAssumption, EndsInv, SentInv, NEW c \in Conns, NEW r \in Reqs,
         \/ Connect(c) \/ PostStart(c) \/ FailWait \/ SendTimeout(r)
         \/ Disconnect(c) \/ ConnectTimeout(c) \/ Boot \/ FrameReady
  PROVE  SentInv'
<1>. USE DEF scopeVars
<1>1. \A d \in Conns : Kept(d) /\ Asked(d)
  BY Known
<1>2. UNCHANGED <<sent, reached, leaving, connected, held>>
  BY DEF Connect, PostStart, FailWait, SendTimeout, FailSend, Disconnect, ConnectTimeout, Boot, FrameReady
<1>3. CASE Connect(c)
  <2>1. conn[c] = "new" /\ conn' = [conn EXCEPT ![c] = "waiting"] /\ UNCHANGED <<pending, toFrame>>
    BY <1>3 DEF Connect
  <2>2. \A d \in Conns : Kept(d)' /\ (IsOpen(d)' /\ d \in connected => IsOpen(d))
    BY <1>1, <1>2, <2>1, Known DEF Kept, IsOpen, OnLine, Asked
  <2>. QED BY <1>2, <2>1, <2>2, StillSent
<1>4. CASE PostStart(c)
  <2>1. conn[c] = "waiting" /\ conn' = [conn EXCEPT ![c] = "asked"] /\ UNCHANGED pending
        /\ toFrame' = Append(toFrame, About("start", c))
    BY <1>4 DEF PostStart, About
  <2>2. /\ \A m : On(toFrame', m) <=> On(toFrame, m) \/ m = About("start", c)
        /\ \A m, n : Ahead(toFrame', m, n) <=> Ahead(toFrame, m, n) \/ (On(toFrame, m) /\ n = About("start", c))
    BY <2>1, Known, MessagesAre, AppendIs
  <2>3. /\ \A d, q : On(toFrame', Sends(d, q)) <=> On(toFrame, Sends(d, q))
        /\ \A d, p, q : Ahead(toFrame', Sends(d, p), Sends(d, q)) <=> Ahead(toFrame, Sends(d, p), Sends(d, q))
    BY <2>2, NamesAre
  <2>4. \A d \in Conns : Kept(d)' /\ (IsOpen(d)' => IsOpen(d))
    BY <1>1, <1>2, <2>1, <2>3, Known DEF Kept, IsOpen, OnLine, Asked
  <2>. QED BY <1>2, <2>3, <2>4, CalmSent
<1>5. CASE FailWait
  <2>1. HaltRemote(WaitingConns, "frame") /\ UNCHANGED toFrame
    BY <1>5 DEF FailWait
  <2>2. \A d \in WaitingConns : d \in Conns /\ IsOpen(d)
    BY DEF WaitingConns, IsOpen
  <2>3. \A d \in Conns : Kept(d)' /\ (IsOpen(d)' => IsOpen(d))
    BY <1>2, <2>1, <2>2, HaltKept
  <2>. QED BY <1>2, <2>1, <2>3, StillSent
<1>6. CASE SendTimeout(r) \/ Boot \/ FrameReady
  <2>1. UNCHANGED <<conn, pending, toFrame>>
    BY <1>6 DEF SendTimeout, Boot, FrameReady
  <2>2. \A d \in Conns : Kept(d)' /\ (IsOpen(d)' => IsOpen(d))
    BY <1>1, <1>2, <2>1 DEF Kept, IsOpen, OnLine
  <2>. QED BY <1>2, <2>1, <2>2, StillSent
<1>7. CASE Disconnect(c) \/ ConnectTimeout(c)
  <2>1. toFrame' = toFrame \o Stops(c) /\ IsOpen(c)
    BY <1>7 DEF Disconnect, ConnectTimeout, IsOpen
  <2>2. /\ \A m : On(toFrame', m) <=> On(toFrame, m) \/ (conn[c] = "asked" /\ m = About("stop", c))
        /\ \A m, n : Ahead(toFrame', m, n) <=> \/ Ahead(toFrame, m, n)
                                               \/ conn[c] = "asked" /\ On(toFrame, m) /\ n = About("stop", c)
    BY <2>1, Known, StopsIs
  <2>3. /\ \A d, q : On(toFrame', Sends(d, q)) <=> On(toFrame, Sends(d, q))
        /\ \A d, p, q : Ahead(toFrame', Sends(d, p), Sends(d, q)) <=> Ahead(toFrame, Sends(d, p), Sends(d, q))
    BY <2>2, NamesAre
  <2>4. \A d \in Conns : Kept(d)' /\ (IsOpen(d)' => IsOpen(d))
    <3>1. CASE Disconnect(c)
      <4>1. conn' = [conn EXCEPT ![c] = "gone"] /\ pending' = [pending EXCEPT ![c] = <<>>]
        BY <3>1 DEF Disconnect
      <4>. QED BY <1>1, <1>2, <2>1, <2>3, <4>1, Known DEF Kept, IsOpen, OnLine
    <3>2. CASE ConnectTimeout(c)
      <4>1. HaltRemote({c}, "frame")
        BY <3>2 DEF ConnectTimeout
      <4>. QED BY <1>2, <2>1, <2>3, <4>1, HaltKept
    <3>. QED BY <1>7, <3>1, <3>2
  <2>. QED BY <1>2, <2>3, <2>4, CalmSent
<1>. QED BY <1>3, <1>4, <1>5, <1>6, <1>7

\* A request was not sent before.
LEMMA FreshIs ==
  ASSUME EndsInv, SentInv, NEW r \in Reqs, r \notin UNION {Range(sent[d]) : d \in Conns}
  PROVE  \A d \in Conns : ~OnLine(d, r) /\ \A k \in DOMAIN sent[d] : sent[d][k] # r
<1>1. \A d \in Conns : \A k \in DOMAIN sent[d] : sent[d][k] # r
  BY DEF Range
<1>. QED BY <1>1, Known DEF Lined

\* The page sends a request: the next of its connection's, behind those on their way.
LEMMA SendSent ==
  ASSUME RemoteAssumption, EndsInv, SentInv, NEW c \in Conns, NEW r \in Reqs, Send(c, r)
  PROVE  SentInv'
<1>. USE DEF scopeVars
<1>1. UNCHANGED <<conn, connected, reached, toFrame, held>> /\ conn[c] # "new"
  BY DEF Send
<1>2. \A d \in Conns : ~OnLine(d, r) /\ \A k \in DOMAIN sent[d] : sent[d][k] # r
  BY FreshIs DEF Send
<1>3. CASE ~IsOpen(c)
  <2>1. UNCHANGED <<sent, pending, leaving>>
    BY <1>3 DEF Send
  <2>2. \A d \in Conns : Kept(d)' /\ (IsOpen(d)' => IsOpen(d))
    BY <1>1, <2>1, Known DEF Kept, IsOpen, OnLine
  <2>. QED BY <1>1, <2>1, <2>2, StillSent
<1>4. CASE IsOpen(c)
  <2>. DEFINE n == Len(sent[c]) + 1
  <2>1. sent' = [sent EXCEPT ![c] = Append(@, r)]
    BY <1>4 DEF Send
  <2>2. /\ sent'[c] = Append(sent[c], r) /\ Len(sent'[c]) = n /\ DOMAIN sent'[c] = 1 .. n /\ sent'[c][n] = r
        /\ DOMAIN sent[c] = 1 .. n - 1 /\ n \in Nat \ {0}
        /\ \A k \in DOMAIN sent[c] : k \in DOMAIN sent'[c] /\ sent'[c][k] = sent[c][k]
        /\ \A k \in DOMAIN sent'[c] : k = n \/ k \in DOMAIN sent[c]
        /\ \A d \in Conns : d # c => sent'[d] = sent[d]
    BY <2>1, Known
  <2>. HIDE DEF n
  <2>3. Sole'
    <3>1. ASSUME NEW d \in Conns, NEW e \in Conns, NEW i \in DOMAIN sent'[d], NEW j \in DOMAIN sent'[e],
                 sent'[d][i] = sent'[e][j]
          PROVE  d = e /\ i = j
      <4>1. (d = c /\ i = n /\ sent'[d][i] = r) \/ (i \in DOMAIN sent[d] /\ sent'[d][i] = sent[d][i])
        BY <2>2, <3>1
      <4>2. (e = c /\ j = n /\ sent'[e][j] = r) \/ (j \in DOMAIN sent[e] /\ sent'[e][j] = sent[e][j])
        BY <2>2, <3>1
      <4>3. /\ \A k \in DOMAIN sent[d] : sent[d][k] # r
            /\ \A k \in DOMAIN sent[e] : sent[e][k] # r
        BY <1>2
      <4>4. CASE i \in DOMAIN sent[d] /\ sent'[d][i] = sent[d][i]
        <5>1. j \in DOMAIN sent[e] /\ sent[d][i] = sent[e][j]
          BY <3>1, <4>2, <4>3, <4>4
        <5>. QED BY <4>4, <5>1, Known, SMTT(30) DEF Sole
      <4>5. CASE d = c /\ i = n /\ sent'[d][i] = r
        BY <3>1, <4>2, <4>3, <4>5
      <4>. QED BY <4>1, <4>4, <4>5
    <3>. QED BY <3>1 DEF Sole
  <2>4. Lined(c) /\ Kept(c) /\ Len(reached[c]) \in Nat /\ Len(reached[c]) <= n - 1
        /\ DOMAIN reached[c] \subseteq DOMAIN sent[c]
    <3>1. Lined(c) /\ Kept(c) /\ Len(reached[c]) \in Nat /\ DOMAIN reached[c] = 1 .. Len(reached[c])
      BY Known
    <3>. QED BY <2>2, <3>1 DEF Lined, n
  <2>5. CASE c \in connected
    <3>1. leaving' = Append(leaving, Sends(c, r)) /\ UNCHANGED pending
      BY <1>4, <2>5 DEF Send, Sends
    <3>2. /\ \A m : On(leaving', m) <=> On(leaving, m) \/ m = Sends(c, r)
          /\ \A m, o : Ahead(leaving', m, o) <=> Ahead(leaving, m, o) \/ (On(leaving, m) /\ o = Sends(c, r))
      BY <3>1, Known, MessagesAre, AppendIs
    <3>3. \A d, q : OnLine(d, q)' <=> OnLine(d, q) \/ (d = c /\ q = r)
      BY <1>1, <3>2, NamesAre DEF OnLine
    <3>4. ASSUME NEW d \in Conns PROVE Kept(d)'
      BY <1>1, <1>4, <2>2, <2>5, <3>1, <3>3, <3>4, Known DEF Kept, IsOpen
    <3>5. ASSUME NEW d \in Conns, d # c PROVE Lined(d)'
      <4>1. \A q, p : Ahead(leaving', Sends(d, q), Sends(d, p)) => Ahead(leaving, Sends(d, q), Sends(d, p))
        BY <3>2, <3>5, NamesAre
      <4>2. \A q : On(leaving', Sends(d, q)) => On(leaving, Sends(d, q))
        BY <3>2, <3>5, NamesAre
      <4>3. Lined(d) /\ sent'[d] = sent[d]
        BY <2>2, <3>5, Known
      <4>. QED BY <1>1, <3>3, <3>5, <4>1, <4>2, <4>3 DEF Lined, IsOpen
    <3>6. Lined(c)'
      <4>1. Len(reached[c]) <= Len(sent'[c]) /\ \A i \in DOMAIN reached[c] : reached[c][i] = sent'[c][i]
        BY <2>2, <2>4 DEF Lined
      <4>2. ASSUME NEW q \in Reqs, OnLine(c, q)'
            PROVE  \E k \in DOMAIN sent'[c] : Len(reached[c]) < k /\ sent'[c][k] = q
        <5>1. CASE OnLine(c, q)
          BY <2>2, <2>4, <5>1 DEF Lined
        <5>2. CASE q = r
          <6>1. n \in DOMAIN sent'[c] /\ sent'[c][n] = q /\ Len(reached[c]) < n
            BY <2>2, <2>4, <5>2
          <6>. QED BY <6>1
        <5>. QED BY <3>3, <4>2, <5>1, <5>2
      <4>3. ASSUME NEW k \in DOMAIN sent'[c], NEW m \in DOMAIN sent'[c], m <= k
            PROVE  /\ ~Ahead(toFrame, Sends(c, sent'[c][k]), Sends(c, sent'[c][m]))
                   /\ ~Ahead(leaving', Sends(c, sent'[c][k]), Sends(c, sent'[c][m]))
                   /\ ~(On(toFrame, Sends(c, sent'[c][k])) /\ On(leaving', Sends(c, sent'[c][m])))
        <5>1. CASE k = n
          <6>1. ~On(toFrame, Sends(c, r)) /\ ~On(leaving, Sends(c, r))
            BY <1>2 DEF OnLine
          <6>2. /\ \A p : Ahead(toFrame, Sends(c, r), p) => On(toFrame, Sends(c, r))
                /\ \A p : Ahead(leaving, Sends(c, r), p) => On(leaving, Sends(c, r))
            BY DEF Ahead, On
          <6>. QED BY <2>2, <3>2, <5>1, <6>1, <6>2
        <5>2. CASE k # n
          <6>1. k \in DOMAIN sent[c] /\ m \in DOMAIN sent[c]
            BY <2>2, <4>3, <5>2
          <6>2. Sends(c, sent[c][m]) # Sends(c, r)
            BY <1>2, <6>1, NamesAre
          <6>. QED BY <2>2, <2>4, <3>2, <4>3, <6>1, <6>2 DEF Lined
        <5>. QED BY <5>1, <5>2
      <4>4. ASSUME c \in held, NEW k \in DOMAIN sent'[c], NEW m \in DOMAIN sent'[c],
                   Len(reached[c]) < m, m < k
            PROVE  On(toFrame', Sends(c, sent'[c][m])) \/ On(leaving', Sends(c, sent'[c][m]))
        <5>1. m \in DOMAIN sent[c] /\ sent'[c][m] = sent[c][m]
          BY <2>2, <4>4
        <5>2. OnLine(c, sent[c][m])
          BY <1>4, <2>4, <2>5, <4>4, <5>1 DEF Lined
        <5>3. On(toFrame, Sends(c, sent[c][m])) \/ On(leaving', Sends(c, sent[c][m]))
          BY <3>2, <5>2 DEF OnLine
        <5>. QED BY <1>1, <5>1, <5>3
      <4>5. ASSUME c \in held, NEW m \in DOMAIN sent'[c], Len(reached[c]) < m
            PROVE  On(toFrame', Sends(c, sent'[c][m])) \/ On(leaving', Sends(c, sent'[c][m]))
        <5>1. CASE m = n
          BY <2>2, <3>2, <5>1
        <5>2. CASE m # n
          <6>1. m \in DOMAIN sent[c] /\ sent'[c][m] = sent[c][m]
            BY <2>2, <5>2
          <6>2. OnLine(c, sent[c][m])
            BY <1>4, <2>4, <2>5, <4>5, <6>1 DEF Lined
          <6>3. On(toFrame, Sends(c, sent[c][m])) \/ On(leaving', Sends(c, sent[c][m]))
            BY <3>2, <6>2 DEF OnLine
          <6>. QED BY <1>1, <6>1, <6>3
        <5>. QED BY <5>1, <5>2
      <4>. QED BY <1>1, <4>1, <4>2, <4>3, <4>4, <4>5 DEF Lined, OnLine
    <3>. QED BY <2>3, <3>4, <3>5, <3>6 DEF SentInv
  <2>6. CASE c \notin connected
    <3>1. pending' = [pending EXCEPT ![c] = Append(@, r)] /\ UNCHANGED leaving
      BY <1>4, <2>6 DEF Send
    <3>2. \A d, q : OnLine(d, q)' <=> OnLine(d, q)
      BY <1>1, <3>1 DEF OnLine
    <3>3. ASSUME NEW d \in Conns PROVE Kept(d)'
      <4>1. CASE d = c
        <5>1. pending'[c] = Append(pending[c], r)
          BY <3>1, Known
        <5>. QED BY <1>1, <1>4, <2>2, <2>4, <2>6, <3>2, <4>1, <5>1 DEF Kept, IsOpen
      <4>2. CASE d # c
        <5>1. pending'[d] = pending[d] /\ sent'[d] = sent[d] /\ Kept(d)
          BY <2>2, <3>1, <3>3, <4>2, Known
        <5>. QED BY <1>1, <3>2, <5>1 DEF Kept, IsOpen
      <4>. QED BY <4>1, <4>2
    <3>4. ASSUME NEW d \in Conns, d # c PROVE Lined(d)'
      <4>1. Lined(d) /\ sent'[d] = sent[d]
        BY <2>2, <3>4, Known
      <4>. QED BY <1>1, <3>1, <3>2, <4>1 DEF Lined, IsOpen
    <3>5. Lined(c)'
      <4>1. \A q \in Reqs : ~OnLine(c, q)
        BY <2>4, <2>6 DEF Kept
      <4>2. reached[c] = <<>>
        BY <2>4, <2>6 DEF Kept
      <4>3. \A q \in Reqs : ~On(toFrame, Sends(c, q)) /\ ~On(leaving, Sends(c, q))
        BY <4>1 DEF OnLine
      <4>4. \A q \in Reqs : \A p : ~Ahead(toFrame, Sends(c, q), p) /\ ~Ahead(leaving, Sends(c, q), p)
        BY <4>3 DEF Ahead, On
      <4>5. sent'[c] \in Seq(Reqs) /\ \A k \in DOMAIN sent'[c] : sent'[c][k] \in Reqs
        <5>1. \A k \in DOMAIN sent[c] : sent[c][k] \in Reqs
          BY Known
        <5>2. sent[c] \in Seq(Reqs)
          BY Known
        <5>. QED BY <2>2, <5>1, <5>2
      <4>6. \A q \in Reqs : ~OnLine(c, q)'
        BY <3>2, <4>1
      <4>7. Len(reached[c]) <= Len(sent'[c]) /\ DOMAIN reached[c] = {}
        BY <2>2, <4>2
      <4>. QED BY <1>1, <2>6, <3>1, <4>3, <4>4, <4>5, <4>6, <4>7 DEF Lined
    <3>. QED BY <2>3, <3>3, <3>4, <3>5 DEF SentInv
  <2>. QED BY <2>5, <2>6
<1>. QED BY <1>3, <1>4

\* The sends go out, in order.
LEMMA PostSent ==
  ASSUME EndsInv, SentInv, PostSends
  PROVE  SentInv'
<1>1. /\ toFrame' = toFrame \o leaving /\ leaving' = <<>>
      /\ UNCHANGED <<conn, connected, pending, sent, reached, held>>
  BY DEF PostSends, scopeVars
<1>2. /\ \A m : On(toFrame', m) <=> On(toFrame, m) \/ On(leaving, m)
      /\ \A m, n : Ahead(toFrame', m, n) <=> \/ Ahead(toFrame, m, n) \/ Ahead(leaving, m, n)
                                             \/ On(toFrame, m) /\ On(leaving, n)
  BY <1>1, Known, ConcatIs
<1>3. (\A m : ~On(leaving', m)) /\ \A m, n : ~Ahead(leaving', m, n)
  BY <1>1, NoneOn
<1>4. \A d, q : OnLine(d, q)' <=> OnLine(d, q)
  BY <1>2, <1>3 DEF OnLine
<1>5. Sole'
  BY <1>1, Known DEF Sole
<1>6. ASSUME NEW d \in Conns PROVE Kept(d)' /\ Lined(d)'
  <2>1. Kept(d) /\ Lined(d)
    BY Known
  <2>2. Kept(d)'
    BY <1>1, <1>4, <2>1 DEF Kept, IsOpen
  <2>3. \A k, m \in DOMAIN sent[d] : m <= k =>
          ~Ahead(toFrame', Sends(d, sent[d][k]), Sends(d, sent[d][m]))
    BY <1>2, <2>1 DEF Lined
  <2>. QED BY <1>1, <1>3, <1>4, <2>1, <2>2, <2>3 DEF Lined, IsOpen
<1>. QED BY <1>5, <1>6 DEF SentInv

\* The frame accepted a connection: what it kept goes on its way, in order.
LEMMA ConnectedSent ==
  ASSUME RemoteAssumption, EndsInv, SentInv, HearConnected
  PROVE  SentInv'
<1>. USE DEF scopeVars
<1>0. PICK c, late : c = Heard.conn /\ late = [i \in 1 .. Len(pending[c]) |-> Msg("send", c, pending[c][i])]
  OBVIOUS
<1>1. Heard = About("connected", c) /\ c \in Conns /\ Kept(c) /\ Lined(c)
  <2>1. Typed /\ Hears({"connected"})
    BY Known DEF HearConnected
  <2>2. Heard \in PageMessage /\ Heard.kind = "connected"
    BY <2>1, HearsIs
  <2>3. Heard = About("connected", c) /\ c \in Conns
    BY <1>0, <2>2, PageMessageIs
  <2>. QED BY <2>3, Known
<1>2. UNCHANGED <<conn, sent, reached, toFrame, held>>
  BY DEF HearConnected
<1>3. CASE ~IsOpen(c) \/ c \in connected
  <2>1. UNCHANGED <<connected, pending, leaving>>
    <3>1. CASE ~IsOpen(c)
      BY <1>0, <3>1 DEF HearConnected
    <3>2. CASE IsOpen(c) /\ c \in connected
      <4>1. pending[c] = <<>> /\ pending \in [Conns -> Seq(Reqs)]
        BY <1>1, <3>2, Known DEF Kept
      <4>2. late = <<>>
        BY <1>0, <4>1
      <4>3. connected' = connected \cup {c} /\ pending' = [pending EXCEPT ![c] = <<>>] /\ leaving' = leaving \o late
        BY <1>0, <3>2 DEF HearConnected
      <4>. QED BY <1>1, <3>2, <4>1, <4>2, <4>3, Known
    <3>. QED BY <1>3, <3>1, <3>2
  <2>2. \A d \in Conns : Kept(d)' /\ (IsOpen(d)' => IsOpen(d))
    BY <1>2, <2>1, Known DEF Kept, IsOpen, OnLine
  <2>. QED BY <1>2, <2>1, <2>2, StillSent
<1>4. CASE IsOpen(c) /\ c \notin connected
  <2>1. connected' = connected \cup {c} /\ pending' = [pending EXCEPT ![c] = <<>>] /\ leaving' = leaving \o late
    BY <1>0, <1>4 DEF HearConnected
  <2>2. pending[c] = sent[c] /\ reached[c] = <<>> /\ \A q \in Reqs : ~OnLine(c, q)
    BY <1>1, <1>4 DEF Kept
  <2>3. late = [i \in 1 .. Len(sent[c]) |-> Sends(c, sent[c][i])]
    BY <1>0, <2>2 DEF Sends
  <2>4. sent[c] \in Seq(Reqs) /\ DOMAIN sent[c] = 1 .. Len(sent[c]) /\ Len(sent[c]) \in Nat
        /\ \A k \in DOMAIN sent[c] : sent[c][k] \in Reqs
    BY <1>1, Known
  <2>5. /\ late \in Seq(SendMessage) /\ DOMAIN late = DOMAIN sent[c]
        /\ \A k \in DOMAIN late : late[k] = Sends(c, sent[c][k])
    <3>1. \A i \in 1 .. Len(sent[c]) : Sends(c, sent[c][i]) \in SendMessage
      BY <1>1, <2>4, MessagesAre
    <3>. QED BY <2>3, <2>4, <3>1
  <2>6. \A m : On(late, m) <=> \E k \in DOMAIN sent[c] : m = Sends(c, sent[c][k])
    BY <2>5 DEF On
  <2>7. ASSUME NEW k \in DOMAIN sent[c], NEW m \in DOMAIN sent[c],
               Ahead(late, Sends(c, sent[c][k]), Sends(c, sent[c][m]))
        PROVE  k < m
    <3>1. PICK i, j \in DOMAIN late : i < j /\ late[i] = Sends(c, sent[c][k]) /\ late[j] = Sends(c, sent[c][m])
      BY <2>7 DEF Ahead
    <3>2. sent[c][i] = sent[c][k] /\ sent[c][j] = sent[c][m]
      BY <2>5, <3>1, NamesAre
    <3>. QED BY <1>1, <2>5, <3>1, <3>2, Known DEF Sole
  <2>8. /\ \A m : On(leaving', m) <=> On(leaving, m) \/ On(late, m)
        /\ \A m, n : Ahead(leaving', m, n) <=> \/ Ahead(leaving, m, n) \/ Ahead(late, m, n)
                                               \/ On(leaving, m) /\ On(late, n)
    BY <2>1, <2>5, Known, ConcatIs
  <2>9. \A d \in Conns : d # c => \A q : ~On(late, Sends(d, q))
    BY <2>6, NamesAre
  <2>10. \A m, n : Ahead(late, m, n) => On(late, m)
    BY DEF Ahead, On
  <2>11. Sole'
    BY <1>2, Known DEF Sole
  <2>12. ASSUME NEW d \in Conns, d # c PROVE Kept(d)' /\ Lined(d)'
    <3>1. /\ \A q : On(leaving', Sends(d, q)) <=> On(leaving, Sends(d, q))
          /\ \A p, q : Ahead(leaving', Sends(d, p), Sends(d, q)) <=> Ahead(leaving, Sends(d, p), Sends(d, q))
      BY <2>8, <2>9, <2>10, <2>12
    <3>2. \A q : OnLine(d, q)' <=> OnLine(d, q)
      BY <1>2, <3>1 DEF OnLine
    <3>3. Kept(d) /\ Lined(d) /\ pending'[d] = pending[d] /\ (d \in connected' <=> d \in connected)
      BY <2>1, <2>12, Known
    <3>4. Kept(d)'
      BY <1>2, <3>2, <3>3 DEF Kept, IsOpen
    <3>5. Lined(d)'
      BY <1>2, <3>1, <3>2, <3>3 DEF Lined, IsOpen
    <3>. QED BY <3>4, <3>5
  <2>13. Kept(c)'
    <3>1. conn[c] = "asked"
      <4>1. On(toPage, About("connected", c))
        BY <1>1, Known, HearsIs DEF HearConnected
      <4>. QED BY <1>1, <1>4, <4>1, Known DEF Asked, IsOpen
    <3>2. pending'[c] = <<>> /\ c \in connected'
      BY <1>1, <2>1, Known
    <3>. QED BY <1>2, <3>1, <3>2 DEF Kept, IsOpen
  <2>14. Lined(c)'
    <3>1. \A q \in Reqs : ~On(toFrame, Sends(c, q)) /\ ~On(leaving, Sends(c, q))
      BY <2>2 DEF OnLine
    <3>2. \A q \in Reqs : \A p : ~Ahead(toFrame, Sends(c, q), p) /\ ~Ahead(leaving, Sends(c, q), p)
      BY <3>1 DEF Ahead, On
    <3>3. \A k, m \in DOMAIN sent[c] : m <= k =>
             /\ ~Ahead(toFrame, Sends(c, sent[c][k]), Sends(c, sent[c][m]))
             /\ ~Ahead(leaving', Sends(c, sent[c][k]), Sends(c, sent[c][m]))
             /\ ~On(toFrame, Sends(c, sent[c][k]))
      <4>1. ASSUME NEW k \in DOMAIN sent[c], NEW m \in DOMAIN sent[c], m <= k
            PROVE  ~Ahead(late, Sends(c, sent[c][k]), Sends(c, sent[c][m]))
        BY <2>4, <2>7, <4>1
      <4>. QED BY <2>4, <2>8, <3>1, <3>2, <4>1
    <3>4. \A k \in DOMAIN sent[c] : On(leaving', Sends(c, sent[c][k]))
      BY <2>6, <2>8
    <3>5. ASSUME NEW q \in Reqs, OnLine(c, q)' PROVE \E k \in DOMAIN sent[c] : Len(reached[c]) < k /\ sent[c][k] = q
      <4>1. On(late, Sends(c, q))
        BY <1>2, <2>8, <3>1, <3>5 DEF OnLine
      <4>2. PICK k \in DOMAIN sent[c] : Sends(c, q) = Sends(c, sent[c][k])
        BY <2>6, <4>1
      <4>3. q = sent[c][k] /\ 0 < k
        BY <2>4, <4>2, NamesAre
      <4>. QED BY <2>2, <4>3
    <3>6. Len(reached[c]) <= Len(sent[c]) /\ \A i \in DOMAIN reached[c] : reached[c][i] = sent[c][i]
      BY <1>1 DEF Lined
    <3>. QED BY <1>2, <3>3, <3>4, <3>5, <3>6 DEF Lined, OnLine
  <2>. QED BY <2>11, <2>12, <2>13, <2>14 DEF SentInv
<1>. QED BY <1>3, <1>4

\* What else the page hears.
LEMMA HearSent ==
  ASSUME RemoteAssumption, EndsInv, SentInv, PageHears \/ FrameDown
  PROVE  SentInv'
<1>. USE DEF scopeVars
<1>1. CASE HearAnswer \/ HearReply
  <2>1. UNCHANGED <<conn, connected, pending, leaving, toFrame, sent, reached, held>>
    BY <1>1 DEF HearAnswer, HearReply
  <2>2. \A d \in Conns : Kept(d)' /\ (IsOpen(d)' => IsOpen(d))
    BY <2>1, Known DEF Kept, IsOpen, OnLine
  <2>. QED BY <2>1, <2>2, StillSent
<1>2. CASE HearEnd
  <2>1. /\ UNCHANGED <<connected, leaving, toFrame, sent, reached, held>>
        /\ \E cs \in SUBSET {d \in Conns : IsOpen(d)}, reason \in {"chain", "frame"} : HaltRemote(cs, reason)
    BY <1>2 DEF HearEnd
  <2>2. \A d \in Conns : Kept(d)' /\ (IsOpen(d)' => IsOpen(d))
    BY <2>1, HaltKept
  <2>. QED BY <2>1, <2>2, StillSent
<1>. QED BY <1>1, <1>2, ConnectedSent, LoseSent DEF PageHears, HearLost, FrameDown

\* A request comes to the frame: if the scope holds its connection it is the next to reach the chain.
LEMMA TakenSent ==
  ASSUME RemoteAssumption, EndsInv, SentInv, HearSend
  PROVE  SentInv'
<1>. USE DEF pageVars
<1>0. PICK c, r, n : c = Taken.conn /\ r = Taken.req /\ n = Len(reached[c]) + 1
  OBVIOUS
<1>1. /\ Taken = Sends(c, r) /\ c \in Conns /\ r \in Reqs
      /\ \A m : On(toFrame, m) <=> m = Taken \/ On(toFrame', m)
      /\ \A m, o : Ahead(toFrame, m, o) <=> Ahead(toFrame', m, o) \/ (m = Taken /\ On(toFrame', o))
  BY <1>0, Known, TakesIs DEF HearSend
<1>2. UNCHANGED <<conn, connected, pending, leaving, sent, held>>
  BY DEF HearSend
<1>3. Kept(c) /\ Lined(c) /\ Sole
  BY <1>1, Known
<1>4. PICK k \in DOMAIN sent[c] : Len(reached[c]) < k /\ sent[c][k] = r
  BY <1>1, <1>3 DEF Lined, OnLine
<1>5. /\ DOMAIN sent[c] = 1 .. Len(sent[c]) /\ Len(reached[c]) \in Nat /\ n = Len(reached[c]) + 1
      /\ n \in Nat /\ k \in Nat
      /\ DOMAIN reached[c] = 1 .. Len(reached[c]) /\ reached[c] \in Seq(Reqs)
      /\ \A m \in DOMAIN sent[c] : sent[c][m] \in Reqs /\ m \in Nat
  <2>1. /\ DOMAIN sent[c] = 1 .. Len(sent[c]) /\ Len(reached[c]) \in Nat /\ Len(sent[c]) \in Nat
        /\ DOMAIN reached[c] = 1 .. Len(reached[c]) /\ reached[c] \in Seq(Reqs) /\ sent[c] \in Seq(Reqs)
    BY <1>1, Known
  <2>2. \A m \in 1 .. Len(sent[c]) : sent[c][m] \in Reqs /\ m \in Nat
    BY <2>1
  <2>. QED BY <1>0, <2>1, <2>2
<1>6. ~On(toFrame', Sends(c, r)) /\ ~On(leaving, Sends(c, r))
  <2>1. On(toFrame, Sends(c, sent[c][k]))
    BY <1>1, <1>4
  <2>2. ~Ahead(toFrame, Sends(c, sent[c][k]), Sends(c, sent[c][k])) /\ ~On(leaving, Sends(c, sent[c][k]))
    BY <1>3, <1>5, <2>1 DEF Lined
  <2>. QED BY <1>1, <1>4, <2>2
<1>7. /\ \A d, q : On(toFrame', Sends(d, q)) => On(toFrame, Sends(d, q))
      /\ \A d, q : Sends(d, q) # Sends(c, r) => (OnLine(d, q)' <=> OnLine(d, q))
      /\ \A d \in Conns : \A p, q :
           Ahead(toFrame', Sends(d, p), Sends(d, q)) => Ahead(toFrame, Sends(d, p), Sends(d, q))
  BY <1>1, <1>2 DEF OnLine
<1>8. Sole'
  BY <1>2, Known DEF Sole
<1>9. UNCHANGED reached \/ (c \in held /\ reached' = [reached EXCEPT ![c] = Append(@, r)])
  BY <1>0 DEF HearSend
<1>10. \A d \in Conns : d # c => reached'[d] = reached[d]
  BY <1>9, Known
<1>11. ASSUME NEW d \in Conns, d # c PROVE Kept(d)' /\ Lined(d)'
  <2>1. \A q : OnLine(d, q)' <=> OnLine(d, q)
    BY <1>7, <1>11, NamesAre
  <2>2. Kept(d) /\ Lined(d) /\ reached'[d] = reached[d]
    BY <1>10, <1>11, Known
  <2>3. Kept(d)'
    BY <1>2, <2>1, <2>2 DEF Kept, IsOpen
  <2>4. Lined(d)'
    BY <1>2, <1>7, <2>1, <2>2 DEF Lined, IsOpen
  <2>. QED BY <2>3, <2>4
<1>12. Kept(c)'
  <2>1. c \in connected
    <3>1. OnLine(c, r)
      BY <1>1 DEF OnLine
    <3>. QED BY <1>1, <1>3, <3>1 DEF Kept
  <2>. QED BY <1>2, <1>3, <2>1 DEF Kept, IsOpen
<1>13. \A k2, m \in DOMAIN sent[c] : m <= k2 =>
       /\ ~Ahead(toFrame', Sends(c, sent[c][k2]), Sends(c, sent[c][m]))
       /\ ~Ahead(leaving', Sends(c, sent[c][k2]), Sends(c, sent[c][m]))
       /\ ~(On(toFrame', Sends(c, sent[c][k2])) /\ On(leaving', Sends(c, sent[c][m])))
  BY <1>1, <1>2, <1>3, <1>7 DEF Lined
<1>14. \A q \in Reqs : OnLine(c, q)' => OnLine(c, q) /\ q # r
  <2>1. ~OnLine(c, r)'
    BY <1>2, <1>6 DEF OnLine
  <2>. QED BY <1>7, <2>1, NamesAre
<1>15. Lined(c)'
  <2>1. CASE UNCHANGED reached /\ c \notin held
    <3>1. \A q \in Reqs : OnLine(c, q)' => \E k2 \in DOMAIN sent[c] : Len(reached[c]) < k2 /\ sent[c][k2] = q
      BY <1>3, <1>14 DEF Lined
    <3>. QED BY <1>2, <1>3, <1>13, <2>1, <3>1 DEF Lined
  <2>2. CASE c \in held /\ reached' = [reached EXCEPT ![c] = Append(@, r)]
    <3>1. k = n
      <4>1. ASSUME n < k PROVE FALSE
        <5>1. n \in DOMAIN sent[c] /\ Len(reached[c]) < n
          BY <1>5, <4>1
        <5>2. On(toFrame, Sends(c, sent[c][k])) /\ OnLine(c, sent[c][k])
          BY <1>1, <1>4 DEF OnLine
        <5>3. OnLine(c, sent[c][n])
          BY <1>3, <2>2, <4>1, <5>1, <5>2 DEF Lined
        <5>4. Sends(c, sent[c][n]) # Sends(c, sent[c][k])
          BY <1>1, <1>3, <4>1, <5>1, <1>5, NamesAre DEF Sole
        <5>5. On(toFrame', Sends(c, sent[c][n])) \/ On(leaving, Sends(c, sent[c][n]))
          BY <1>1, <1>4, <5>3, <5>4 DEF OnLine
        <5>6. n <= k
          BY <1>5, <4>1
        <5>7. ~Ahead(toFrame, Sends(c, sent[c][k]), Sends(c, sent[c][n])) /\ ~On(leaving, Sends(c, sent[c][n]))
          BY <1>3, <5>1, <5>2, <5>6 DEF Lined
        <5>. QED BY <1>1, <1>4, <5>5, <5>7
      <4>. QED BY <1>4, <1>5, <4>1
    <3>2. /\ reached'[c] = Append(reached[c], r) /\ Len(reached'[c]) = n /\ DOMAIN reached'[c] = 1 .. n
          /\ reached'[c][n] = r /\ \A i \in DOMAIN reached[c] : reached'[c][i] = reached[c][i]
          /\ \A i \in DOMAIN reached'[c] : i = n \/ i \in DOMAIN reached[c]
      <4>1. reached'[c] = Append(reached[c], r)
        BY <1>1, <2>2, Known
      <4>. QED BY <1>1, <1>5, <4>1
    <3>3. Len(reached'[c]) <= Len(sent[c]) /\ \A i \in DOMAIN reached'[c] : reached'[c][i] = sent[c][i]
      <4>1. \A i \in DOMAIN reached[c] : reached[c][i] = sent[c][i]
        BY <1>3 DEF Lined
      <4>. QED BY <1>4, <1>5, <3>1, <3>2, <4>1
    <3>4. ASSUME NEW q \in Reqs, OnLine(c, q)' PROVE \E k2 \in DOMAIN sent[c] : n < k2 /\ sent[c][k2] = q
      <4>1. OnLine(c, q) /\ q # r
        BY <1>14, <3>4
      <4>2. PICK k2 \in DOMAIN sent[c] : Len(reached[c]) < k2 /\ sent[c][k2] = q
        BY <1>3, <4>1 DEF Lined
      <4>3. k2 # n
        BY <1>4, <3>1, <4>1, <4>2
      <4>. QED BY <1>5, <4>2, <4>3
    <3>5. ASSUME NEW m \in DOMAIN sent[c], n < m, OnLine(c, sent[c][m]) PROVE OnLine(c, sent[c][m])'
      <4>1. sent[c][m] # r
        <5>1. m # k
          BY <1>5, <3>1, <3>5
        <5>2. sent[c][m] = sent[c][k] => m = k
          BY <1>1, <1>3 DEF Sole
        <5>. QED BY <1>4, <5>1, <5>2
      <4>2. Sends(c, sent[c][m]) # Sends(c, r)
        BY <4>1, NamesAre
      <4>3. On(toFrame', Sends(c, sent[c][m])) \/ On(leaving', Sends(c, sent[c][m]))
        BY <1>1, <1>2, <3>5, <4>2 DEF OnLine
      <4>. QED BY <1>2, <4>3 DEF OnLine
    <3>6. ASSUME NEW k2 \in DOMAIN sent[c], NEW m \in DOMAIN sent[c], n < m, m < k2, OnLine(c, sent[c][k2])'
          PROVE  OnLine(c, sent[c][m])'
      <4>1. OnLine(c, sent[c][k2])
        BY <1>2, <1>5, <1>14, <3>6 DEF OnLine
      <4>2. OnLine(c, sent[c][m])
        <5>1. Len(reached[c]) < m
          BY <1>5, <3>6
        <5>2. \A k1, m1 \in DOMAIN sent[c] :
                Len(reached[c]) < m1 /\ m1 < k1 /\ OnLine(c, sent[c][k1]) => OnLine(c, sent[c][m1])
          BY <1>3, <2>2 DEF Lined
        <5>. QED BY <3>6, <4>1, <5>1, <5>2
      <4>. QED BY <3>5, <3>6, <4>2
    <3>7. ASSUME c \in connected, IsOpen(c), NEW m \in DOMAIN sent[c], n < m PROVE OnLine(c, sent[c][m])'
      <4>1. OnLine(c, sent[c][m])
        <5>1. Len(reached[c]) < m
          BY <1>5, <3>7
        <5>. QED BY <1>3, <2>2, <3>7, <5>1 DEF Lined
      <4>. QED BY <3>5, <3>7, <4>1
    <3>. QED BY <1>2, <1>13, <3>2, <3>3, <3>4, <3>6, <3>7 DEF Lined, IsOpen, OnLine
  <2>3. c \notin held => UNCHANGED reached
    BY <1>0 DEF HearSend
  <2>4. c \in held => reached' = [reached EXCEPT ![c] = Append(@, r)]
    BY <1>0 DEF HearSend
  <2>. QED BY <2>1, <2>2, <2>3, <2>4
<1>. QED BY <1>8, <1>11, <1>12, <1>15 DEF SentInv

\* What else the scope does.
LEMMA ScopeSent ==
  ASSUME RemoteAssumption, EndsInv, SentInv, NEW c \in Conns, NEW r \in Reqs,
         ScopeHears \/ ChainAnswers(c, r) \/ ChainHalts \/ ReleaseScope
  PROVE  SentInv'
<1>. USE DEF pageVars
<1>1. UNCHANGED <<conn, connected, pending, leaving, sent>>
  BY DEF ScopeHears, HearStart, HearStop, HearSend, ChainAnswers, ChainHalts, ReleaseScope
<1>2. CASE ChainAnswers(c, r) \/ ChainHalts \/ ReleaseScope
  <2>1. UNCHANGED <<reached, toFrame>> /\ \A d \in held' : d \in held
    BY <1>2 DEF ChainAnswers, ChainHalts, ReleaseScope
  <2>2. \A d \in Conns : Kept(d)' /\ (IsOpen(d)' => IsOpen(d))
    BY <1>1, <2>1, Known DEF Kept, IsOpen, OnLine
  <2>. QED BY <1>1, <2>1, <2>2, StillSent
<1>3. ASSUME NEW kind \in {"start", "stop"}, Takes(kind), UNCHANGED reached,
             \A d \in held' : d \in held \/ (kind = "start" /\ d = Taken.conn)
      PROVE  SentInv'
  <2>0. PICK e : e = Taken.conn
    OBVIOUS
  <2>1. /\ Taken = About(kind, e) /\ e \in Conns
        /\ \A m : On(toFrame, m) <=> m = Taken \/ On(toFrame', m)
        /\ \A m, n : Ahead(toFrame, m, n) <=> Ahead(toFrame', m, n) \/ (m = Taken /\ On(toFrame', n))
    BY <1>3, <2>0, Known, TakesIs
  <2>2. kind = "start" => e \notin connected
    BY <2>1, Known DEF Asked
  <2>3. /\ \A d, q : On(toFrame', Sends(d, q)) <=> On(toFrame, Sends(d, q))
        /\ \A d, p, q : Ahead(toFrame', Sends(d, p), Sends(d, q)) => Ahead(toFrame, Sends(d, p), Sends(d, q))
    BY <2>1, NamesAre
  <2>4. \A d \in Conns : Kept(d)' /\ (IsOpen(d)' => IsOpen(d))
    BY <1>1, <1>3, <2>3, Known DEF Kept, IsOpen, OnLine
  <2>. QED BY <1>1, <1>3, <2>0, <2>2, <2>3, <2>4, CalmSent
<1>4. ASSUME NEW accepts \in BOOLEAN, HearStart(accepts) PROVE SentInv'
  <2>1. Takes("start") /\ UNCHANGED reached /\ \A d \in held' : d \in held \/ d = Taken.conn
    BY <1>4 DEF HearStart
  <2>. QED BY <1>3, <2>1
<1>5. CASE HearStop
  <2>1. Takes("stop") /\ UNCHANGED reached /\ \A d \in held' : d \in held
    BY <1>5 DEF HearStop
  <2>. QED BY <1>3, <2>1
<1>. QED BY <1>2, <1>4, <1>5, TakenSent DEF ScopeHears

----------------------------------------------------------------------------
(* The answers on their way back. *)

Heed(c, r) == Owed(c, r) /\ Called(c, r) /\ Covered(c, r)

\* Where a request may be, and of which connection.
LEMMA PlacesAre ==
  ASSUME EndsInv, SentInv, HeardInv
  PROVE  /\ \A c \in Conns, r \in Reqs :
              /\ r \in Range(pending[c]) => r \in Range(sent[c]) /\ c \notin connected /\ IsOpen(c)
              /\ OnLine(c, r) => r \in Range(sent[c]) \ Range(reached[c]) /\ c \in connected
              /\ r \in Range(reached[c]) => r \in Range(sent[c]) /\ c \in connected
              /\ r \in atChain[c] => r \in Range(reached[c]) /\ c \in held
              /\ Answering(c, r) => r \in Range(reached[c])
              /\ Replying(c, r) => r \in Range(sent[c]) /\ c \in connected
              /\ r \in Range(sent[c]) => Sender(r) = c /\ \A d \in Conns : r \in Range(sent[d]) => d = c
         /\ \A c \in Conns : told[c] # <<>> => conn[c] = "gone" /\ ~IsOpen(c)
         /\ \A r \in flight : r \in Reqs /\ \E c \in connected : c \in Conns /\ r \in Range(sent[c])
<1>1. ASSUME NEW c \in Conns PROVE Kept(c) /\ Lined(c) /\ Matched(c) /\ Told(c)
             /\ DOMAIN sent[c] = 1 .. Len(sent[c]) /\ DOMAIN reached[c] = 1 .. Len(reached[c])
             /\ Len(sent[c]) \in Nat /\ Len(reached[c]) \in Nat
  BY Known DEF HeardInv
<1>2. ASSUME NEW c \in Conns, NEW r \in Reqs PROVE Owed(c, r) /\ Called(c, r)
  BY DEF HeardInv
<1>3. ASSUME NEW c \in Conns, NEW r, r \in Range(reached[c]) PROVE r \in Range(sent[c]) /\ c \in connected
  <2>1. PICK i \in DOMAIN reached[c] : reached[c][i] = r
    BY <1>3 DEF Range
  <2>2. i \in DOMAIN sent[c] /\ sent[c][i] = r
    BY <1>1, <2>1 DEF Lined
  <2>3. c \notin connected => reached[c] = <<>>
    BY <1>1 DEF Kept
  <2>. QED BY <2>1, <2>2, <2>3 DEF Range
<1>4. ASSUME NEW c \in Conns, NEW r \in Range(sent[c])
      PROVE  Sender(r) = c /\ \A d \in Conns : r \in Range(sent[d]) => d = c
  <2>1. ASSUME NEW d \in Conns, r \in Range(sent[d]) PROVE d = c
    <3>1. PICK i \in DOMAIN sent[c], j \in DOMAIN sent[d] : sent[c][i] = r /\ sent[d][j] = r
      BY <1>4, <2>1 DEF Range
    <3>. QED BY <3>1, Known DEF Sole
  <2>. QED BY <2>1 DEF Sender
<1>5. ASSUME NEW c \in Conns, NEW r \in Reqs, OnLine(c, r)
      PROVE  r \in Range(sent[c]) \ Range(reached[c]) /\ c \in connected
  <2>1. PICK k \in DOMAIN sent[c] : Len(reached[c]) < k /\ sent[c][k] = r
    BY <1>1, <1>5 DEF Lined
  <2>2. r \notin Range(reached[c])
    <3>1. ASSUME NEW i \in DOMAIN reached[c], reached[c][i] = r PROVE FALSE
      <4>1. i \in DOMAIN sent[c] /\ sent[c][i] = r /\ i < k
        BY <1>1, <2>1, <3>1 DEF Lined
      <4>2. i = k
        BY <2>1, <4>1, Known DEF Sole
      <4>. QED BY <1>1, <4>1, <4>2
    <3>. QED BY <3>1 DEF Range
  <2>3. c \in connected
    BY <1>1, <1>5 DEF Kept
  <2>. QED BY <2>1, <2>2, <2>3 DEF Range
<1>6. ASSUME NEW c \in Conns, NEW r \in Range(pending[c]) PROVE r \in Range(sent[c]) /\ c \notin connected /\ IsOpen(c)
  <2>1. pending[c] # <<>>
    BY <1>6 DEF Range
  <2>. QED BY <1>1, <2>1 DEF Kept
<1>7. ASSUME NEW c \in Conns, NEW r \in Reqs PROVE
        /\ r \in atChain[c] => r \in Range(reached[c]) /\ c \in held
        /\ Answering(c, r) => r \in Range(reached[c])
        /\ Replying(c, r) => r \in Range(sent[c]) /\ c \in connected
  <2>1. Answering(c, r) => r \in Range(reached[c])
    BY <1>2 DEF Owed
  <2>2. r \in atChain[c] => r \in Range(reached[c]) /\ c \in held
    BY <1>1, <1>2 DEF Owed, Matched
  <2>3. Replying(c, r) => r \in Range(reached[c]) \/ (r \in Range(sent[c]) /\ c \in connected)
    BY <1>2 DEF Called, Replying, Replies
  <2>. QED BY <1>3, <2>1, <2>2, <2>3
<1>8. \A r \in flight : r \in Reqs /\ \E c \in connected : c \in Conns /\ r \in Range(sent[c])
  BY Known DEF HeardInv, InFlight
<1>9. \A c \in Conns : told[c] # <<>> => conn[c] = "gone" /\ ~IsOpen(c)
  BY <1>1 DEF Told, IsOpen
<1>. QED BY <1>3, <1>4, <1>5, <1>6, <1>7, <1>8, <1>9

\* A request that is in flight or was answered before is answered at most once more.
LEMMA OnceKept ==
  ASSUME AnsweredOnce, NEW r \in Reqs, answers \in [Reqs -> Seq(Endings)],
         answers'[r] = answers[r] \/ (Unanswered(r) /\ \E a \in Endings : answers'[r] = Append(answers[r], a))
  PROVE  /\ Len(answers'[r]) > 1 => Len(answers'[r]) = 2 /\ answers'[r][1] = "timeout"
         /\ answers[r] # <<>> => answers'[r] # <<>>
<1>1. CASE answers'[r] = answers[r]
  BY <1>1 DEF AnsweredOnce
<1>2. CASE \E a \in Endings : answers'[r] = Append(answers[r], a) /\ answers[r] = <<>>
  BY <1>2
<1>3. CASE \E a \in Endings : answers'[r] = Append(answers[r], a) /\ answers[r] = <<"timeout">>
  BY <1>3
<1>. QED BY <1>1, <1>2, <1>3 DEF Unanswered

\* What the connections were told stays true while they are not told more.
LEMMA ToldKept ==
  ASSUME EndsInv, SentInv, HeardInv, NEW c \in Conns, told'[c] = told[c], conn[c] = "gone" => conn'[c] = "gone",
         c \in held' => c \in held \/ On(toFrame, About("start", c)),
         On(toFrame', About("start", c)) => On(toFrame, About("start", c)),
         reached'[c] = reached[c], sent'[c] = sent[c], connected \subseteq connected',
         \A r \in Reqs : answers[r] # <<>> => answers'[r] # <<>>
  PROVE  Told(c)'
<1>1. Told(c)
  BY DEF HeardInv
<1>2. \A r \in Range(sent[c]) \cup Range(reached[c]) : r \in Reqs
  <2>1. sent[c] \in Seq(Reqs) /\ reached[c] \in Seq(Reqs)
    BY Known
  <2>. QED BY <2>1 DEF Range
<1>. QED BY <1>1, <1>2 DEF Told

\* The page's steps that put nothing on a wire but the start or the stop of a connection: what is answered by
\* one of them is nowhere else on its way, unless it is its timeout.
LEMMA LessHeard ==
  ASSUME EndsInv, SentInv, HeardInv,
         UNCHANGED <<sent, reached, connected>>, flight' \subseteq flight,
         \A c \in Conns : Range(pending'[c]) \subseteq Range(pending[c]) /\ atChain'[c] \subseteq atChain[c],
         \A c \in Conns, r \in Reqs : /\ On(leaving', Sends(c, r)) => On(leaving, Sends(c, r))
                                      /\ On(toFrame', Sends(c, r)) => On(toFrame, Sends(c, r)),
         \A m : On(toPage', m) => On(toPage, m),
         \A m, n : Ahead(toPage', m, n) => Ahead(toPage, m, n),
         \A r \in Reqs : answers'[r] # answers[r] =>
           /\ Unanswered(r) /\ r \notin flight' /\ \E a \in Endings : answers'[r] = Append(answers[r], a)
           /\ \A c \in Conns :
                /\ r \notin Range(pending'[c]) /\ ~On(leaving', Sends(c, r))
                /\ On(toFrame', Sends(c, r)) \/ r \in atChain'[c] \/ Answering(c, r)' => answers'[r] = <<"timeout">>,
         \A r \in flight', c \in Conns : /\ On(toFrame, Sends(c, r)) => On(toFrame', Sends(c, r))
                                         /\ Replying(c, r) => Replying(c, r)',
         \A c \in Conns : Told(c)',
         \A c \in Conns, r \in Reqs : IsOpen(c)' /\ r \in Range(reached[c]) =>
           /\ IsOpen(c) /\ atChain'[c] = atChain[c] /\ (c \in held' => c \in held)
           /\ Answering(c, r) => Answering(c, r)' \/ answers'[r] # <<>>
  PROVE  HeardInv'
<1>1. answers \in [Reqs -> Seq(Endings)] /\ flight \in SUBSET Reqs /\ connected \in SUBSET Conns
  BY Known
<1>2. AnsweredOnce'
  BY <1>1, OnceKept DEF AnsweredOnce, HeardInv
<1>3. \A r \in Reqs : answers[r] # <<>> => answers'[r] # <<>>
  BY <1>1, OnceKept DEF HeardInv
<1>4. InFlight'
  <2>1. ASSUME NEW r \in flight' PROVE answers'[r] = <<>> /\ \E c \in connected :
          r \in Range(sent[c]) /\ (On(toFrame', Sends(c, r)) \/ Replying(c, r)')
    <3>1. r \in flight /\ r \in Reqs /\ answers'[r] = answers[r]
      BY <1>1, <2>1
    <3>2. PICK c \in connected : r \in Range(sent[c]) /\ (On(toFrame, Sends(c, r)) \/ Replying(c, r))
      BY <3>1 DEF HeardInv, InFlight
    <3>. QED BY <1>1, <3>1, <3>2 DEF HeardInv, InFlight
  <2>. QED BY <2>1 DEF InFlight
<1>5. ASSUME NEW c \in Conns, NEW r \in Reqs PROVE Heed(c, r)'
  <2>1. Owed(c, r) /\ Called(c, r) /\ Covered(c, r)
    BY DEF HeardInv
  <2>2. (Answering(c, r)' => Answering(c, r)) /\ (OnLine(c, r)' => OnLine(c, r))
    BY DEF Answering, OnLine
  <2>3. Owed(c, r)'
    <3>1. CASE answers'[r] = answers[r]
      BY <2>1, <2>2, <3>1 DEF Owed, Unanswered
    <3>2. CASE answers'[r] # answers[r]
      BY <2>1, <2>2, <3>2 DEF Owed, Unanswered
    <3>. QED BY <3>1, <3>2
  <2>4. Called(c, r)'
    BY <2>1, <2>2 DEF Called
  <2>5. Covered(c, r)'
    BY <1>3, <2>1, <2>2 DEF Covered
  <2>. QED BY <2>3, <2>4, <2>5 DEF Heed
<1>. QED BY <1>2, <1>4, <1>5 DEF HeardInv, Heed

\* What was appended to is not empty.
LEMMA AppendSome ==
  ASSUME NEW S, NEW s \in Seq(S), NEW x \in S
  PROVE  Append(s, x) # <<>> /\ (s = <<>> => Append(s, x) = <<x>>)
<1>1. Len(Append(s, x)) = Len(s) + 1 /\ Len(s) \in Nat /\ Len(<<>>) = 0
  OBVIOUS
<1>2. Append(s, x) # <<>>
  BY <1>1
<1>3. Append(<<>>, x) = <<x>>
  OBVIOUS
<1>. QED BY <1>2, <1>3

\* Connections halt: what they kept is answered, which was nowhere else, and what the chain had was answered before.
LEMMA HaltHeard ==
  ASSUME EndsInv, SentInv, HeardInv, NEW cs, NEW reason \in {"chain", "frame"}, HaltRemote(cs, reason),
         \A c \in cs : c \in Conns /\ IsOpen(c),
         UNCHANGED <<sent, reached, connected>>, flight' \subseteq flight,
         \A c \in Conns : /\ atChain'[c] \subseteq atChain[c] /\ (c \in held' => c \in held)
                          /\ On(toFrame', About("start", c)) => On(toFrame, About("start", c)),
         \A c \in Conns, r \in Reqs : /\ On(leaving', Sends(c, r)) => On(leaving, Sends(c, r))
                                      /\ On(toFrame', Sends(c, r)) => On(toFrame, Sends(c, r)),
         \A m : On(toPage', m) => On(toPage, m),
         \A m, n : Ahead(toPage', m, n) => Ahead(toPage, m, n),
         \A r \in flight', c \in Conns : /\ On(toFrame, Sends(c, r)) => On(toFrame', Sends(c, r))
                                         /\ Replying(c, r) => Replying(c, r)',
         \A c \in Conns : IsOpen(c) /\ c \notin cs =>
           atChain'[c] = atChain[c] /\ \A r \in Reqs : Answering(c, r) => Answering(c, r)',
         reason = "chain" => \A c \in cs : /\ c \notin held /\ ~On(toFrame, About("start", c))
                                           /\ \A r \in Range(reached[c]) : answers[r] # <<>>
  PROVE  HeardInv'
<1>0. PICK a \in Endings : a = IF reason = "chain" THEN "halted" ELSE "closed"
  BY DEF Endings
<1>1. /\ conn \in [Conns -> {"new", "waiting", "asked", "gone"}] /\ pending \in [Conns -> Seq(Reqs)]
      /\ answers \in [Reqs -> Seq(Endings)] /\ flight \in SUBSET Reqs
  BY Known
<1>2. /\ \A c \in Conns : /\ conn'[c] = IF c \in cs THEN "gone" ELSE conn[c]
                          /\ pending'[c] = IF c \in cs THEN <<>> ELSE pending[c]
                          /\ told'[c] = IF c \in cs THEN Append(told[c], reason) ELSE told[c]
      /\ answers' = Answered(UNION {Range(pending[c]) : c \in cs}, a)
  <2>1. told \in [Conns -> Seq({"chain", "frame"})]
    BY Known DEF Typed, TypeOK
  <2>. QED BY <1>0, <1>1, <2>1 DEF HaltRemote
<1>3. \A r \in Reqs : answers'[r] = IF \E c \in cs : r \in Range(pending[c]) THEN Append(answers[r], a) ELSE answers[r]
  BY <1>1, <1>2, AnsweredIs
<1>4. ASSUME NEW r \in Reqs, NEW c \in cs, r \in Range(pending[c])
      PROVE  /\ answers[r] = <<>> /\ r \notin flight
             /\ \A d \in Conns : /\ r \notin Range(pending'[d]) /\ ~OnLine(d, r)
                                 /\ r \notin atChain[d] /\ ~Answering(d, r)
  <2>1. answers[r] = <<>>
    BY <1>4 DEF HeardInv, Owed
  <2>2. c \in Conns /\ r \in Range(sent[c]) /\ c \notin connected /\ \A d \in Conns : r \in Range(sent[d]) => d = c
    BY <1>4, PlacesAre
  <2>3. r \notin flight
    BY <2>2, PlacesAre
  <2>4. ASSUME NEW d \in Conns
        PROVE  r \notin Range(pending'[d]) /\ ~OnLine(d, r) /\ r \notin atChain[d] /\ ~Answering(d, r)
    <3>1. ~OnLine(d, r) /\ r \notin Range(reached[d])
      BY <2>2, PlacesAre
    <3>2. r \notin atChain[d] /\ ~Answering(d, r)
      BY <3>1, PlacesAre
    <3>3. r \notin Range(pending'[d])
      <4>1. CASE d \in cs
        BY <1>2, <4>1 DEF Range
      <4>2. CASE d \notin cs
        BY <1>2, <1>4, <2>2, <4>2, PlacesAre
      <4>. QED BY <4>1, <4>2
    <3>. QED BY <3>1, <3>2, <3>3
  <2>. QED BY <2>1, <2>3, <2>4
<1>5. \A r \in Reqs : answers[r] # <<>> => answers'[r] # <<>>
  <2>1. \A r \in Reqs : Append(answers[r], a) # <<>>
    BY <1>1, AppendSome
  <2>. QED BY <1>3, <2>1
<1>6. ASSUME NEW r \in Reqs, answers'[r] # answers[r]
      PROVE  /\ Unanswered(r) /\ r \notin flight' /\ \E b \in Endings : answers'[r] = Append(answers[r], b)
             /\ \A c \in Conns :
                  /\ r \notin Range(pending'[c]) /\ ~On(leaving', Sends(c, r))
                  /\ On(toFrame', Sends(c, r)) \/ r \in atChain'[c] \/ Answering(c, r)' => answers'[r] = <<"timeout">>
  <2>1. PICK c \in cs : r \in Range(pending[c]) /\ answers'[r] = Append(answers[r], a)
    BY <1>3, <1>6
  <2>2. /\ answers[r] = <<>> /\ r \notin flight
        /\ \A d \in Conns : r \notin Range(pending'[d]) /\ ~OnLine(d, r) /\ r \notin atChain[d] /\ ~Answering(d, r)
    BY <1>4, <2>1
  <2>3. \A d \in Conns : Answering(d, r)' => Answering(d, r)
    BY DEF Answering
  <2>. QED BY <1>0, <2>1, <2>2, <2>3 DEF Unanswered, OnLine
<1>7. ASSUME NEW c \in Conns PROVE Told(c)'
  <2>1. CASE c \notin cs
    <3>1. told'[c] = told[c] /\ conn'[c] = conn[c]
      BY <1>2, <2>1
    <3>. QED BY <1>5, <3>1, ToldKept
  <2>2. CASE c \in cs
    <3>1. told[c] = <<>>
      BY <2>2, PlacesAre
    <3>2. told'[c] = <<reason>> /\ conn'[c] = "gone"
      <4>1. told'[c] = Append(told[c], reason) /\ conn'[c] = "gone"
        BY <1>2, <2>2
      <4>2. told[c] \in Seq({"chain", "frame"})
        BY <2>2, Known DEF Typed, TypeOK
      <4>. QED BY <3>1, <4>1, <4>2, AppendSome
    <3>3. \A r \in Range(sent[c]) \cup Range(reached[c]) : r \in Reqs
      <4>1. sent[c] \in Seq(Reqs) /\ reached[c] \in Seq(Reqs)
        BY Known
      <4>. QED BY <4>1 DEF Range
    <3>4. told'[c] = <<"chain">> => /\ c \notin held' /\ ~On(toFrame', About("start", c))
                                    /\ \A r \in Range(reached[c]) : answers'[r] # <<>>
      BY <1>5, <2>2, <3>2, <3>3
    <3>5. c \notin connected => \A r \in Range(sent[c]) : answers'[r] # <<>>
      <4>1. c \notin connected => pending[c] = sent[c]
        BY <2>2, Known DEF Kept
      <4>2. \A r \in Reqs : Append(answers[r], a) # <<>>
        BY <1>1, AppendSome
      <4>. QED BY <1>3, <2>2, <3>3, <4>1, <4>2
    <3>. QED BY <3>2, <3>4, <3>5 DEF Told
  <2>. QED BY <2>1, <2>2
<1>8. \A c \in Conns : Range(pending'[c]) \subseteq Range(pending[c])
  BY <1>2 DEF Range
<1>9. ASSUME NEW c \in Conns, IsOpen(c)' PROVE IsOpen(c) /\ c \notin cs
  BY <1>2, <1>9 DEF IsOpen
<1>. QED BY <1>6, <1>7, <1>8, <1>9, LessHeard

\* The frame is lost: whatever was on a wire is lost with it, and no connection is open to miss it.
LEMMA LoseHeard ==
  ASSUME EndsInv, SentInv, HeardInv, Rested, NEW next, LoseFrame(next)
  PROVE  HeardInv'
<1>1. /\ HaltRemote({c \in Conns : IsOpen(c)}, "frame")
      /\ toFrame' = <<>> /\ toPage' = <<>> /\ held' = {} /\ flight' = {}
      /\ atChain' = [c \in Conns |-> {}] /\ UNCHANGED <<connected, leaving, sent, reached>>
  BY DEF LoseFrame
<1>2. (\A m : ~On(toFrame', m) /\ ~On(toPage', m)) /\ \A m, n : ~Ahead(toPage', m, n)
  BY <1>1, NoneOn
<1>. QED BY <1>1, <1>2, HaltHeard

\* The page's own steps, but for its sends.
LEMMA QuietHeard ==
  ASSUME RemoteAssumption, EndsInv, SentInv, HeardInv, NEW c \in Conns, NEW r \in Reqs,
         \/ Connect(c) \/ PostStart(c) \/ FailWait \/ SendTimeout(r)
         \/ Disconnect(c) \/ ConnectTimeout(c) \/ Boot \/ FrameReady
  PROVE  HeardInv'
<1>. USE DEF scopeVars
<1>1. /\ conn \in [Conns -> {"new", "waiting", "asked", "gone"}] /\ pending \in [Conns -> Seq(Reqs)]
      /\ answers \in [Reqs -> Seq(Endings)] /\ flight \in SUBSET Reqs
  BY Known
<1>2. CASE Connect(c) \/ PostStart(c) \/ Disconnect(c) \/ Boot \/ FrameReady
  <2>1. UNCHANGED <<sent, reached, connected, flight, atChain, leaving, toPage, answers, told, held>>
    BY <1>2 DEF Connect, PostStart, Disconnect, Boot, FrameReady
  <2>2. \A d \in Conns : Range(pending'[d]) \subseteq Range(pending[d])
    <3>1. UNCHANGED pending \/ pending' = [pending EXCEPT ![c] = <<>>]
      BY <1>2 DEF Connect, PostStart, Disconnect, Boot, FrameReady
    <3>2. \A d \in Conns : pending'[d] = pending[d] \/ pending'[d] = <<>>
      BY <1>1, <3>1
    <3>3. Range(<<>>) = {}
      BY DEF Range
    <3>. QED BY <3>2, <3>3
  <2>3. \A d \in Conns, q \in Reqs : On(toFrame', Sends(d, q)) <=> On(toFrame, Sends(d, q))
    <3>1. CASE PostStart(c)
      <4>1. toFrame' = Append(toFrame, About("start", c))
        BY <3>1 DEF PostStart, About
      <4>2. \A m : On(toFrame', m) <=> On(toFrame, m) \/ m = About("start", c)
        BY <4>1, Known, MessagesAre, AppendIs
      <4>. QED BY <4>2, NamesAre
    <3>2. CASE Disconnect(c)
      <4>1. toFrame' = toFrame \o Stops(c)
        BY <3>2 DEF Disconnect
      <4>2. \A m : On(toFrame', m) <=> On(toFrame, m) \/ (conn[c] = "asked" /\ m = About("stop", c))
        BY <4>1, Known, StopsIs
      <4>. QED BY <4>2, NamesAre
    <3>3. CASE Connect(c) \/ Boot \/ FrameReady
      <4>1. toFrame' = toFrame
        BY <3>3 DEF Connect, Boot, FrameReady
      <4>. QED BY <4>1
    <3>. QED BY <1>2, <3>1, <3>2, <3>3
  <2>4. ASSUME NEW d \in Conns PROVE Told(d)'
    <3>1. CASE PostStart(c) /\ d = c
      <4>1. told[c] = <<>>
        BY <3>1, PlacesAre DEF PostStart
      <4>. QED BY <2>1, <3>1, <4>1 DEF Told
    <3>2. CASE ~(PostStart(c) /\ d = c)
      <4>1. conn[d] = "gone" => conn'[d] = "gone"
        BY <1>1, <1>2 DEF Connect, PostStart, Disconnect, Boot, FrameReady, IsOpen
      <4>2. On(toFrame', About("start", d)) => On(toFrame, About("start", d))
        <5>1. CASE PostStart(c)
          <6>1. toFrame' = Append(toFrame, About("start", c))
            BY <5>1 DEF PostStart, About
          <6>2. \A m : On(toFrame', m) <=> On(toFrame, m) \/ m = About("start", c)
            BY <6>1, Known, MessagesAre, AppendIs
          <6>. QED BY <3>2, <5>1, <6>2, NamesAre
        <5>2. CASE Disconnect(c)
          <6>1. toFrame' = toFrame \o Stops(c)
            BY <5>2 DEF Disconnect
          <6>2. \A m : On(toFrame', m) <=> On(toFrame, m) \/ (conn[c] = "asked" /\ m = About("stop", c))
            BY <6>1, Known, StopsIs
          <6>. QED BY <6>2, NamesAre
        <5>3. CASE Connect(c) \/ Boot \/ FrameReady
          <6>1. toFrame' = toFrame
            BY <5>3 DEF Connect, Boot, FrameReady
          <6>. QED BY <6>1
        <5>. QED BY <1>2, <5>1, <5>2, <5>3
      <4>. QED BY <2>1, <4>1, <4>2, ToldKept
    <3>. QED BY <3>1, <3>2
  <2>5. ASSUME NEW d \in Conns, NEW q \in Reqs, IsOpen(d)', q \in Range(reached[d]) PROVE IsOpen(d)
    <3>1. d \in connected
      BY <2>5, PlacesAre
    <3>2. conn[d] \in {"asked", "gone"}
      BY <3>1, Known DEF Kept
    <3>3. conn[d] = "gone" => conn'[d] = "gone"
      BY <1>1, <1>2 DEF Connect, PostStart, Disconnect, Boot, FrameReady, IsOpen
    <3>. QED BY <2>5, <3>2, <3>3 DEF IsOpen
  <2>6. \A d, q : (Answering(d, q)' <=> Answering(d, q)) /\ (Replying(d, q)' <=> Replying(d, q))
    BY <2>1 DEF Answering, Replying
  <2>7. \A d \in Conns, q \in Reqs : IsOpen(d)' /\ q \in Range(reached[d]) =>
          /\ IsOpen(d) /\ atChain'[d] = atChain[d] /\ (d \in held' => d \in held)
          /\ Answering(d, q) => Answering(d, q)' \/ answers'[q] # <<>>
    BY <2>1, <2>5, <2>6
  <2>8. \A q \in flight', d \in Conns : /\ On(toFrame, Sends(d, q)) => On(toFrame', Sends(d, q))
                                        /\ Replying(d, q) => Replying(d, q)'
    BY <1>1, <2>1, <2>3, <2>6
  <2>9. \A d \in Conns : Told(d)'
    BY <2>4
  <2>10. /\ UNCHANGED <<sent, reached, connected>> /\ flight' \subseteq flight
         /\ \A d \in Conns : Range(pending'[d]) \subseteq Range(pending[d]) /\ atChain'[d] \subseteq atChain[d]
         /\ \A d \in Conns, q \in Reqs : /\ On(leaving', Sends(d, q)) => On(leaving, Sends(d, q))
                                         /\ On(toFrame', Sends(d, q)) => On(toFrame, Sends(d, q))
         /\ \A m : On(toPage', m) => On(toPage, m)
         /\ \A m, n : Ahead(toPage', m, n) => Ahead(toPage, m, n)
         /\ answers' = answers
    BY <2>1, <2>2, <2>3
  <2>. QED BY <2>7, <2>8, <2>9, <2>10, LessHeard
<1>3. CASE FailWait
  <2>1. /\ HaltRemote(WaitingConns, "frame")
        /\ UNCHANGED <<sent, reached, connected, flight, atChain, leaving, toPage, toFrame, held>>
    BY <1>3 DEF FailWait
  <2>2. \A d, q : (Answering(d, q)' <=> Answering(d, q)) /\ (Replying(d, q)' <=> Replying(d, q))
    BY <2>1 DEF Answering, Replying
  <2>3. \A d \in WaitingConns : d \in Conns /\ IsOpen(d)
    BY DEF WaitingConns, IsOpen
  <2>. QED BY <2>1, <2>2, <2>3, HaltHeard
<1>4. CASE ConnectTimeout(c)
  <2>1. /\ HaltRemote({c}, "frame") /\ IsOpen(c) /\ toFrame' = toFrame \o Stops(c)
        /\ UNCHANGED <<sent, reached, connected, flight, atChain, leaving, toPage, held>>
    BY <1>4 DEF ConnectTimeout, IsOpen
  <2>2. \A d, q : (Answering(d, q)' <=> Answering(d, q)) /\ (Replying(d, q)' <=> Replying(d, q))
    BY <2>1 DEF Answering, Replying
  <2>3. \A m : On(toFrame', m) <=> On(toFrame, m) \/ (conn[c] = "asked" /\ m = About("stop", c))
    BY <2>1, Known, StopsIs
  <2>4. /\ \A d, q : On(toFrame', Sends(d, q)) <=> On(toFrame, Sends(d, q))
        /\ \A d : On(toFrame', About("start", d)) <=> On(toFrame, About("start", d))
    BY <2>3, NamesAre
  <2>. QED BY <2>1, <2>2, <2>4, HaltHeard
<1>5. CASE SendTimeout(r)
  <2>1. /\ Rested /\ r \in flight /\ FailSend(r, "timeout")
        /\ UNCHANGED <<conn, sent, reached, connected, pending, atChain, leaving, toFrame, toPage, told, held>>
    BY <1>5 DEF SendTimeout
  <2>2. PICK d \in connected : d \in Conns /\ r \in Range(sent[d])
    BY <2>1, PlacesAre
  <2>3. answers[r] = <<>> /\ leaving = <<>>
    BY <2>1 DEF HeardInv, InFlight, Rested
  <2>4. \A q \in Reqs : answers'[q] # answers[q] => q = r /\ answers'[r] = Append(answers[r], "timeout")
    <3>1. answers' = answers \/ answers' = Answered({r}, "timeout")
      BY <2>1 DEF FailSend
    <3>2. "timeout" \in Endings
      BY DEF Endings
    <3>3. \A q \in Reqs : Answered({r}, "timeout")[q] = IF q \in {r} THEN Append(answers[q], "timeout") ELSE answers[q]
      BY <1>1, <3>2, AnsweredIs
    <3>. QED BY <3>1, <3>3
  <2>5. flight' = flight \ {r}
    BY <2>1 DEF FailSend
  <2>6. \A e, q : (Answering(e, q)' <=> Answering(e, q)) /\ (Replying(e, q)' <=> Replying(e, q))
    BY <2>1 DEF Answering, Replying
  <2>7. \A e \in Conns : r \notin Range(pending[e]) /\ ~On(leaving, Sends(e, r))
    <3>1. \A e \in Conns : r \in Range(sent[e]) => e = d
      BY <2>2, PlacesAre
    <3>. QED BY <2>2, <2>3, <3>1, PlacesAre, NoneOn
  <2>8. \A q \in Reqs : answers[q] # <<>> => answers'[q] # <<>>
    BY <1>1, <2>4
  <2>9. \A e \in Conns : Told(e)'
    BY <2>1, <2>8, ToldKept
  <2>10. \A e \in Conns : IsOpen(e)' <=> IsOpen(e)
    BY <2>1 DEF IsOpen
  <2>11. "timeout" \in Endings /\ Unanswered(r) /\ (answers'[r] # answers[r] => answers'[r] = <<"timeout">>)
    BY <2>3, <2>4 DEF Endings, Unanswered
  <2>. QED BY <2>1, <2>4, <2>5, <2>6, <2>7, <2>9, <2>10, <2>11, LessHeard
<1>. QED BY <1>2, <1>3, <1>4, <1>5

\* What is in a sequence that was appended to.
LEMMA RangeAppend ==
  ASSUME NEW S, NEW s \in Seq(S), NEW x \in S
  PROVE  Range(Append(s, x)) = Range(s) \cup {x}
<1>1. DOMAIN s = 1 .. Len(s) /\ DOMAIN Append(s, x) = 1 .. Len(s) + 1 /\ Len(s) \in Nat
  OBVIOUS
<1>2. (\A i \in 1 .. Len(s) : Append(s, x)[i] = s[i]) /\ Append(s, x)[Len(s) + 1] = x
  OBVIOUS
<1>3. \A i \in 1 .. Len(s) + 1 : i \in 1 .. Len(s) \/ i = Len(s) + 1
  BY <1>1
<1>4. Len(s) + 1 \in 1 .. Len(s) + 1 /\ \A i \in 1 .. Len(s) : i \in 1 .. Len(s) + 1
  BY <1>1
<1>. QED BY <1>1, <1>2, <1>3, <1>4 DEF Range

\* A send is new, and answered at once, kept, or on its way, where its connection was told of nothing yet.
LEMMA SendHeard ==
  ASSUME RemoteAssumption, EndsInv, SentInv, HeardInv, NEW c \in Conns, NEW r \in Reqs, Send(c, r)
  PROVE  HeardInv'
<1>. USE DEF scopeVars
<1>1. /\ UNCHANGED <<conn, connected, flight, toFrame, toPage, held, atChain, reached, told>>
      /\ answers[r] = <<>> /\ \A d \in Conns : r \notin Range(sent[d])
  BY DEF Send
<1>2. /\ pending \in [Conns -> Seq(Reqs)] /\ sent \in [Conns -> Seq(Reqs)] /\ leaving \in Seq(SendMessage)
      /\ answers \in [Reqs -> Seq(Endings)] /\ flight \in SUBSET Reqs /\ connected \in SUBSET Conns
  BY Known
<1>3. /\ \A d \in Conns : r \notin Range(pending[d]) /\ ~OnLine(d, r) /\ r \notin atChain[d] /\ ~Answering(d, r)
                          /\ ~Replying(d, r)
      /\ r \notin flight
  BY <1>1, PlacesAre
<1>4. \A d, q : /\ Answering(d, q)' <=> Answering(d, q)
                /\ Replying(d, q)' <=> Replying(d, q)
                /\ IsOpen(d)' <=> IsOpen(d)
  BY <1>1 DEF Answering, Replying, IsOpen
<1>5. CASE ~IsOpen(c)
  <2>1. answers' = Answered({r}, "closed") /\ UNCHANGED <<sent, pending, leaving>>
    BY <1>5 DEF Send
  <2>2. "closed" \in Endings
    BY DEF Endings
  <2>3. \A q \in Reqs : answers'[q] = IF q \in {r} THEN Append(answers[q], "closed") ELSE answers[q]
    BY <1>2, <2>1, <2>2, AnsweredIs
  <2>4. \A q \in Reqs : answers[q] # <<>> => answers'[q] # <<>>
    BY <1>1, <2>3
  <2>5. \A d \in Conns : Told(d)'
    BY <1>1, <2>1, <2>4, ToldKept
  <2>6. \A q \in Reqs : answers'[q] # answers[q] =>
          /\ Unanswered(q) /\ q \notin flight' /\ \E a \in Endings : answers'[q] = Append(answers[q], a)
          /\ \A d \in Conns :
               /\ q \notin Range(pending'[d]) /\ ~On(leaving', Sends(d, q))
               /\ On(toFrame', Sends(d, q)) \/ q \in atChain'[d] \/ Answering(d, q)' => answers'[q] = <<"timeout">>
    BY <1>1, <1>3, <1>4, <2>1, <2>2, <2>3 DEF Unanswered, OnLine
  <2>. QED BY <1>1, <1>4, <2>1, <2>5, <2>6, LessHeard
<1>6. CASE IsOpen(c)
  <2>1. answers' = answers /\ sent' = [sent EXCEPT ![c] = Append(@, r)]
    BY <1>6 DEF Send
  <2>2. /\ \A d \in Conns : Range(sent[d]) \subseteq Range(sent'[d]) /\ (d # c => sent'[d] = sent[d])
    <3>1. sent'[c] = Append(sent[c], r) /\ \A d \in Conns : d # c => sent'[d] = sent[d]
      BY <1>2, <2>1
    <3>2. Range(sent'[c]) = Range(sent[c]) \cup {r}
      BY <1>2, <3>1, RangeAppend
    <3>. QED BY <3>1, <3>2
  <2>3. \A d \in Conns, q \in Reqs :
          /\ q \in Range(pending'[d]) => q \in Range(pending[d]) \/ q = r
          /\ On(leaving', Sends(d, q)) => On(leaving, Sends(d, q)) \/ q = r
    <3>1. CASE c \in connected
      <4>1. leaving' = Append(leaving, Sends(c, r)) /\ UNCHANGED pending
        BY <1>6, <3>1 DEF Send, Sends
      <4>2. \A m : On(leaving', m) <=> On(leaving, m) \/ m = Sends(c, r)
        BY <1>2, <4>1, MessagesAre, AppendIs
      <4>. QED BY <4>1, <4>2, NamesAre
    <3>2. CASE c \notin connected
      <4>1. pending' = [pending EXCEPT ![c] = Append(@, r)] /\ UNCHANGED leaving
        BY <1>6, <3>2 DEF Send
      <4>2. pending'[c] = Append(pending[c], r) /\ \A d \in Conns : d # c => pending'[d] = pending[d]
        BY <1>2, <4>1
      <4>3. Range(pending'[c]) = Range(pending[c]) \cup {r}
        BY <1>2, <4>2, RangeAppend
      <4>. QED BY <4>1, <4>2, <4>3
    <3>. QED BY <3>1, <3>2
  <2>4. InFlight'
    BY <1>1, <1>2, <1>4, <2>1, <2>2 DEF HeardInv, InFlight
  <2>5. AnsweredOnce'
    BY <2>1 DEF HeardInv, AnsweredOnce
  <2>6. ASSUME NEW d \in Conns PROVE Told(d)'
    <3>1. CASE d = c
      <4>1. told[c] = <<>>
        BY <1>6, PlacesAre
      <4>. QED BY <1>1, <3>1, <4>1 DEF Told
    <3>2. CASE d # c
      BY <1>1, <2>1, <2>2, <3>2, ToldKept
    <3>. QED BY <3>1, <3>2
  <2>7. ASSUME NEW d \in Conns, NEW q \in Reqs PROVE Heed(d, q)'
    <3>1. Owed(d, q) /\ Called(d, q) /\ Covered(d, q)
      BY DEF HeardInv
    <3>2. Owed(d, q)'
      BY <1>1, <1>4, <2>1, <2>3, <3>1 DEF Owed, Unanswered
    <3>3. Covered(d, q)'
      BY <1>1, <1>4, <2>1, <3>1 DEF Covered
    <3>4. Called(d, q)'
      <4>1. CASE q = r
        BY <1>1, <1>3, <4>1 DEF Called, Replying, Replies, Ahead, On
      <4>2. CASE q # r
        <5>1. OnLine(d, q)' => OnLine(d, q)
          BY <1>1, <2>3, <4>2 DEF OnLine
        <5>2. q \in Range(sent[d]) => q \in Range(sent'[d])
          BY <2>2
        <5>. QED BY <1>1, <3>1, <5>1, <5>2 DEF Called
      <4>. QED BY <4>1, <4>2
    <3>. QED BY <3>2, <3>3, <3>4 DEF Heed
  <2>. QED BY <2>4, <2>5, <2>6, <2>7 DEF HeardInv, Heed
<1>. QED BY <1>5, <1>6

\* The sends go out: what is in flight is on the wire.
LEMMA PostHeard ==
  ASSUME EndsInv, SentInv, HeardInv, PostSends
  PROVE  HeardInv'
<1>. USE DEF scopeVars
<1>1. /\ toFrame' = toFrame \o leaving /\ leaving' = <<>> /\ flight' = flight \cup {m.req : m \in Range(leaving)}
      /\ UNCHANGED <<conn, connected, pending, toPage, held, atChain, reached, sent, answers, told>>
  BY DEF PostSends
<1>2. /\ leaving \in Seq(SendMessage) /\ leaving \in Seq(FrameMessage) /\ toFrame \in Seq(FrameMessage)
  BY Known
<1>3. \A m : (On(toFrame', m) <=> On(toFrame, m) \/ On(leaving, m)) /\ ~On(leaving', m)
  BY <1>1, <1>2, ConcatIs, NoneOn
<1>4. \A d, q : /\ Answering(d, q)' <=> Answering(d, q)
                /\ Replying(d, q)' <=> Replying(d, q)
                /\ IsOpen(d)' <=> IsOpen(d)
                /\ OnLine(d, q)' <=> OnLine(d, q)
  BY <1>1, <1>3 DEF Answering, Replying, IsOpen, OnLine
<1>5. ASSUME NEW m, On(leaving, m) PROVE m \in SendMessage
  <2>1. \A i \in DOMAIN leaving : leaving[i] \in SendMessage
    BY <1>2
  <2>. QED BY <1>5, <2>1 DEF On
<1>6. ASSUME NEW q \in flight'
      PROVE  /\ answers[q] = <<>>
              /\ \E d \in connected : q \in Range(sent[d]) /\ (On(toFrame', Sends(d, q)) \/ Replying(d, q))
  <2>1. CASE q \in flight
    BY <1>3, <2>1 DEF HeardInv, InFlight
  <2>2. CASE q \notin flight
    <3>1. PICK m \in Range(leaving) : q = m.req
      BY <1>1, <2>2
    <3>2. On(leaving, m)
      BY <3>1 DEF On, Range
    <3>3. m.conn \in Conns /\ q \in Reqs /\ m = Sends(m.conn, q)
      BY <1>5, <3>1, <3>2 DEF SendMessage, Sends, Msg
    <3>4. answers[q] = <<>>
      BY <3>2, <3>3 DEF HeardInv, Owed
    <3>5. m.conn \in connected /\ q \in Range(sent[m.conn])
      BY <3>2, <3>3, PlacesAre DEF OnLine
    <3>. QED BY <1>3, <3>2, <3>3, <3>4, <3>5
  <2>. QED BY <2>1, <2>2
<1>7. InFlight'
  BY <1>1, <1>4, <1>6 DEF InFlight
<1>8. AnsweredOnce'
  BY <1>1 DEF HeardInv, AnsweredOnce
<1>9. ASSUME NEW d \in Conns PROVE Told(d)'
  <2>1. ~On(leaving, About("start", d))
    BY <1>5, MsgIs DEF SendMessage, About
  <2>. QED BY <1>1, <1>3, <2>1, ToldKept
<1>10. ASSUME NEW d \in Conns, NEW q \in Reqs PROVE Heed(d, q)'
  <2>1. Owed(d, q) /\ Called(d, q) /\ Covered(d, q)
    BY DEF HeardInv
  <2>2. Owed(d, q)'
    BY <1>1, <1>3, <1>4, <2>1 DEF Owed, Unanswered
  <2>3. Called(d, q)'
    BY <1>1, <1>4, <2>1 DEF Called
  <2>4. Covered(d, q)'
    BY <1>1, <1>4, <2>1 DEF Covered
  <2>. QED BY <2>2, <2>3, <2>4 DEF Heed
<1>. QED BY <1>7, <1>8, <1>9, <1>10 DEF HeardInv, Heed

\* The frame accepted a connection: what it kept, unanswered, goes on its way.
LEMMA ConnectedHeard ==
  ASSUME EndsInv, SentInv, HeardInv, HearConnected
  PROVE  HeardInv'
<1>. USE DEF scopeVars
<1>0. PICK c, late : c = Heard.conn /\ late = [i \in 1 .. Len(pending[c]) |-> Msg("send", c, pending[c][i])]
  OBVIOUS
<1>1. Typed /\ Hears({"connected"})
  BY Known DEF HearConnected
<1>2. /\ Heard = About("connected", c) /\ c \in Conns
      /\ \A m : On(toPage, m) <=> m = Heard \/ On(toPage', m)
      /\ \A m, n : Ahead(toPage', m, n) => Ahead(toPage, m, n)
  BY <1>0, <1>1, HearsIs, PageMessageIs
<1>3. UNCHANGED <<conn, flight, toFrame, held, atChain, reached, sent, answers, told>>
  BY DEF HearConnected
<1>4. /\ pending \in [Conns -> Seq(Reqs)] /\ leaving \in Seq(SendMessage) /\ connected \in SUBSET Conns
  BY Known
<1>5. \A d, q : /\ Answering(d, q)' <=> Answering(d, q)
                /\ Replying(d, q)' <=> Replying(d, q)
                /\ IsOpen(d)' <=> IsOpen(d)
  <2>1. \A d, q : \A m \in Answers(d, q) \cup Replies(d, q) : m # Heard
    BY <1>2, MsgIs DEF Answers, Replies, About
  <2>. QED BY <1>2, <1>3, <2>1 DEF Answering, Replying, IsOpen
<1>6. \A d : On(toPage', About("end", d)) <=> On(toPage, About("end", d))
  BY <1>2, NamesAre
<1>7. connected \subseteq connected'
  BY DEF HearConnected
<1>8. \A d \in Conns, q \in Reqs :
        /\ q \in Range(pending'[d]) => q \in Range(pending[d])
        /\ On(leaving', Sends(d, q)) => On(leaving, Sends(d, q)) \/ q \in Range(pending[d])
  <2>1. CASE ~IsOpen(c)
    BY <1>0, <2>1 DEF HearConnected
  <2>2. CASE IsOpen(c)
    <3>1. pending' = [pending EXCEPT ![c] = <<>>] /\ leaving' = leaving \o late
      BY <1>0, <2>2 DEF HearConnected
    <3>2. pending[c] \in Seq(Reqs) /\ Len(pending[c]) \in Nat /\ DOMAIN pending[c] = 1 .. Len(pending[c])
      BY <1>2, <1>4
    <3>3. \A i \in 1 .. Len(pending[c]) : Msg("send", c, pending[c][i]) \in SendMessage
      BY <1>2, <3>2, MessagesAre DEF Sends
    <3>4. late \in Seq(SendMessage) /\ DOMAIN late = DOMAIN pending[c]
          /\ \A i \in DOMAIN late : late[i] = Sends(c, pending[c][i])
      BY <1>0, <3>2, <3>3 DEF Sends
    <3>5. \A m : On(leaving', m) <=> On(leaving, m) \/ On(late, m)
      BY <1>4, <3>1, <3>4, ConcatIs
    <3>6. \A d, q : On(late, Sends(d, q)) => d = c /\ q \in Range(pending[c])
      BY <3>4, NamesAre DEF On, Range
    <3>7. \A d \in Conns : pending'[d] = pending[d] \/ pending'[d] = <<>>
      BY <1>4, <3>1
    <3>8. Range(<<>>) = {}
      BY DEF Range
    <3>. QED BY <3>5, <3>6, <3>7, <3>8
  <2>. QED BY <2>1, <2>2
<1>9. InFlight'
  BY <1>3, <1>5, <1>7 DEF HeardInv, InFlight
<1>10. AnsweredOnce'
  BY <1>3 DEF HeardInv, AnsweredOnce
<1>11. ASSUME NEW d \in Conns PROVE Told(d)'
  BY <1>3, <1>7, ToldKept
<1>12. ASSUME NEW d \in Conns, NEW q \in Reqs PROVE Heed(d, q)'
  <2>1. Owed(d, q) /\ Called(d, q) /\ Covered(d, q)
    BY DEF HeardInv
  <2>2. Owed(d, q)'
    BY <1>2, <1>3, <1>5, <1>8, <2>1 DEF Owed, Unanswered
  <2>3. Called(d, q)'
    <3>1. On(toPage', Msg("refuse", d, q)) => On(toPage, Msg("refuse", d, q)) /\ ~OnLine(d, q)'
      <4>1. ASSUME On(toPage', Msg("refuse", d, q)) PROVE On(toPage, Msg("refuse", d, q)) /\ ~OnLine(d, q)'
        <5>1. On(toPage, Msg("refuse", d, q)) /\ d \in connected /\ ~OnLine(d, q)
          BY <1>2, <2>1, <4>1 DEF Called
        <5>2. q \notin Range(pending[d])
          BY <5>1, PlacesAre
        <5>. QED BY <1>3, <1>8, <5>1, <5>2 DEF OnLine
      <4>. QED BY <4>1
    <3>. QED BY <1>2, <1>3, <1>7, <2>1, <3>1 DEF Called
  <2>4. Covered(d, q)'
    BY <1>2, <1>3, <1>5, <1>6, <2>1 DEF Covered
  <2>. QED BY <2>2, <2>3, <2>4 DEF Heed
<1>. QED BY <1>9, <1>10, <1>11, <1>12 DEF HeardInv, Heed

\* The chain's answer is heard: it is the request's only one, and the reply to its send is not behind it.
LEMMA AnswerHeard ==
  ASSUME EndsInv, SentInv, HeardInv, HearAnswer
  PROVE  HeardInv'
<1>. USE DEF scopeVars
<1>0. PICK c, r : c = Heard.conn /\ r = Heard.req
  OBVIOUS
<1>1. Typed /\ Hears({"answer", "halted"})
  BY Known DEF HearAnswer
<1>2. /\ c \in Conns /\ r \in Reqs /\ Heard \in Answers(c, r) /\ Heard.kind \in Endings
      /\ \A m : On(toPage, m) <=> m = Heard \/ On(toPage', m)
      /\ \A m, n : Ahead(toPage, m, n) <=> Ahead(toPage', m, n) \/ (m = Heard /\ On(toPage', n))
  <2>1. Heard \in PageMessage /\ Heard.kind \in {"answer", "halted"}
    BY <1>1, HearsIs
  <2>2. Heard = Msg(Heard.kind, c, r) /\ c \in Conns /\ r \in Reqs
    BY <1>0, <2>1, PageMessageIs
  <2>3. Heard \in Answers(c, r)
    BY <2>1, <2>2 DEF Answers
  <2>. QED BY <1>1, <2>1, <2>2, <2>3, HearsIs DEF Endings
<1>3. /\ UNCHANGED <<conn, connected, pending, leaving, flight, toFrame, held, atChain, reached, sent, told>>
      /\ answers' = IF IsOpen(c) THEN Answered({r}, Heard.kind) ELSE answers
  BY <1>0 DEF HearAnswer
<1>4. answers \in [Reqs -> Seq(Endings)] /\ flight \in SUBSET Reqs
  BY Known
<1>5. \A q \in Reqs : answers'[q] = answers[q] \/ (q = r /\ answers'[q] = Append(answers[q], Heard.kind))
  <2>1. \A q \in Reqs : Answered({r}, Heard.kind)[q] = IF q \in {r} THEN Append(answers[q], Heard.kind) ELSE answers[q]
    BY <1>2, <1>4, AnsweredIs
  <2>. QED BY <1>3, <2>1
<1>6. Answering(c, r) /\ Owed(c, r) /\ Called(c, r) /\ Unanswered(r)
  <2>1. Answering(c, r)
    BY <1>2 DEF Answering
  <2>. QED BY <1>2, <2>1 DEF HeardInv, Owed
<1>7. ~Answering(c, r)' /\ ~Replying(c, r)
  <2>1. ASSUME NEW m \in Answers(c, r) \cup Replies(c, r), On(toPage', m) PROVE FALSE
    BY <1>2, <1>6, <2>1 DEF Owed, Called
  <2>2. \A m \in Replies(c, r) : m # Heard
    BY <1>2, MsgIs DEF Answers, Replies
  <2>. QED BY <1>2, <2>1, <2>2 DEF Answering, Replying
<1>8. r \in Range(reached[c]) /\ c \in connected /\ \A d \in Conns : r \in Range(sent[d]) => d = c
  <2>1. r \in Range(reached[c])
    BY <1>2, <1>6, PlacesAre
  <2>2. r \in Range(sent[c]) /\ c \in connected
    BY <1>2, <2>1, PlacesAre
  <2>. QED BY <1>2, <2>1, <2>2, PlacesAre
<1>9. ASSUME NEW d \in Conns
      PROVE  r \notin Range(pending[d]) /\ ~OnLine(d, r) /\ r \notin atChain[d] /\ ~Answering(d, r)'
  <2>1. CASE d = c
    <3>1. r \notin Range(pending[c]) /\ ~OnLine(c, r)
      BY <1>2, <1>8, PlacesAre
    <3>. QED BY <1>6, <1>7, <2>1, <3>1 DEF Owed
  <2>2. CASE d # c
    <3>1. r \notin Range(sent[d]) /\ r \notin Range(reached[d])
      BY <1>2, <1>8, <2>2, PlacesAre
    <3>2. r \notin Range(pending[d]) /\ ~OnLine(d, r) /\ r \notin atChain[d] /\ ~Answering(d, r)
      BY <1>2, <3>1, PlacesAre
    <3>3. Answering(d, r)' => Answering(d, r)
      BY <1>2 DEF Answering
    <3>. QED BY <3>2, <3>3
  <2>. QED BY <2>1, <2>2
<1>10. r \notin flight
  <2>1. ASSUME r \in flight PROVE FALSE
    <3>1. PICK d \in connected : r \in Range(sent[d]) /\ (On(toFrame, Sends(d, r)) \/ Replying(d, r))
      BY <2>1 DEF HeardInv, InFlight
    <3>2. d = c
      BY <1>8, <3>1, Known
    <3>. QED BY <1>2, <1>7, <1>9, <3>1, <3>2 DEF OnLine
  <2>. QED BY <2>1
<1>11. ASSUME NEW d, NEW q
       PROVE  /\ Replying(d, q) => Replying(d, q)'
              /\ Answering(d, q) => Answering(d, q)' \/ (d = c /\ q = r)
  <2>1. \A m \in Replies(d, q) : m # Heard
    BY <1>2, MsgIs DEF Answers, Replies
  <2>2. \A m \in Answers(d, q) : m = Heard => d = c /\ q = r
    BY <1>2, MsgIs DEF Answers
  <2>. QED BY <1>2, <2>1, <2>2 DEF Answering, Replying
<1>12. \A q \in Reqs : answers[q] # <<>> => answers'[q] # <<>>
  <2>1. \A q \in Reqs : Append(answers[q], Heard.kind) # <<>>
    BY <1>2, <1>4, AppendSome
  <2>. QED BY <1>5, <2>1
<1>13. IsOpen(c) => answers'[r] # <<>>
  <2>1. Append(answers[r], Heard.kind) # <<>>
    BY <1>2, <1>4, AppendSome
  <2>2. Answered({r}, Heard.kind)[r] = Append(answers[r], Heard.kind)
    BY <1>2, <1>4, AnsweredIs
  <2>. QED BY <1>3, <2>1, <2>2
<1>14. \A d \in Conns : Told(d)'
  BY <1>3, <1>12, ToldKept
<1>15. \A d : IsOpen(d)' <=> IsOpen(d)
  BY <1>3 DEF IsOpen
<1>16. \A q \in Reqs : answers'[q] # answers[q] =>
         /\ Unanswered(q) /\ q \notin flight' /\ \E a \in Endings : answers'[q] = Append(answers[q], a)
         /\ \A d \in Conns :
              /\ q \notin Range(pending'[d]) /\ ~On(leaving', Sends(d, q))
              /\ On(toFrame', Sends(d, q)) \/ q \in atChain'[d] \/ Answering(d, q)' => answers'[q] = <<"timeout">>
  BY <1>2, <1>3, <1>5, <1>6, <1>9, <1>10 DEF OnLine
<1>17. \A d \in Conns, q \in Reqs : IsOpen(d)' /\ q \in Range(reached[d]) =>
         /\ IsOpen(d) /\ atChain'[d] = atChain[d] /\ (d \in held' => d \in held)
         /\ Answering(d, q) => Answering(d, q)' \/ answers'[q] # <<>>
  BY <1>3, <1>11, <1>13, <1>15
<1>18. \A q \in flight', d \in Conns : /\ On(toFrame, Sends(d, q)) => On(toFrame', Sends(d, q))
                                       /\ Replying(d, q) => Replying(d, q)'
  BY <1>3, <1>11
<1>19. (\A m : On(toPage', m) => On(toPage, m)) /\ \A m, n : Ahead(toPage', m, n) => Ahead(toPage, m, n)
  BY <1>2
<1>. QED BY <1>3, <1>14, <1>16, <1>17, <1>18, <1>19, LessHeard

\* The subscription's end is heard: as the chain halts, no answer is behind it and none is owed by the chain.
LEMMA EndHeard ==
  ASSUME EndsInv, SentInv, HeardInv, HearEnd
  PROVE  HeardInv'
<1>. USE DEF scopeVars
<1>0. PICK c : c = Heard.conn
  OBVIOUS
<1>1. Typed /\ Hears({"end", "fail"})
  BY Known DEF HearEnd
<1>2. /\ c \in Conns /\ Heard.kind \in {"end", "fail"} /\ Heard = About(Heard.kind, c)
      /\ \A m : On(toPage, m) <=> m = Heard \/ On(toPage', m)
      /\ \A m, n : Ahead(toPage, m, n) <=> Ahead(toPage', m, n) \/ (m = Heard /\ On(toPage', n))
  BY <1>0, <1>1, HearsIs, PageMessageIs
<1>3. PICK cs \in SUBSET Conns, reason \in {"chain", "frame"} :
        /\ cs = {c} \cap {d \in Conns : IsOpen(d)} /\ HaltRemote(cs, reason)
        /\ reason = "chain" => Heard.kind = "end"
  <2>1. PICK open, why : /\ open = {c} \cap {d \in Conns : IsOpen(d)}
                         /\ why = IF Heard.kind = "end" THEN "chain" ELSE "frame"
    OBVIOUS
  <2>2. HaltRemote(open, why)
    BY <1>0, <2>1 DEF HearEnd
  <2>3. why \in {"chain", "frame"} /\ (why = "chain" => Heard.kind = "end")
    BY <2>1
  <2>. QED BY <2>1, <2>2, <2>3
<1>4. UNCHANGED <<connected, leaving, flight, toFrame, held, atChain, reached, sent>>
  BY DEF HearEnd
<1>5. \A d, q : (Answering(d, q) => Answering(d, q)') /\ (Replying(d, q) => Replying(d, q)')
  <2>1. \A d, q : \A m \in Answers(d, q) \cup Replies(d, q) : m # Heard
    BY <1>2, MsgIs DEF Answers, Replies, About
  <2>. QED BY <1>2, <2>1 DEF Answering, Replying
<1>6. ASSUME reason = "chain", IsOpen(c)
      PROVE  /\ c \notin held /\ ~On(toFrame, About("start", c))
             /\ \A r \in Range(reached[c]) : answers[r] # <<>>
  <2>1. On(toPage, About("end", c)) /\ Heard = About("end", c)
    BY <1>2, <1>3, <1>6
  <2>2. c \notin held /\ ~On(toFrame, About("start", c)) /\ atChain[c] = {}
    BY <1>2, <2>1, Known DEF Asked, Matched
  <2>3. ASSUME NEW r \in Range(reached[c]) PROVE answers[r] # <<>>
    <3>1. r \in Reqs
      <4>1. reached[c] \in Seq(Reqs)
        BY <1>2, Known
      <4>. QED BY <2>3, <4>1 DEF Range
    <3>2. Covered(c, r)
      BY <1>2, <3>1 DEF HeardInv
    <3>3. ~Answering(c, r)
      <4>1. ASSUME NEW m \in Answers(c, r), On(toPage, m) PROVE FALSE
        <5>1. m # Heard
          BY <2>1, MsgIs DEF Answers, About
        <5>2. Ahead(toPage, About("end", c), m)
          BY <1>2, <2>1, <4>1, <5>1
        <5>. QED BY <3>2, <5>2 DEF Covered
      <4>. QED BY <4>1 DEF Answering
    <3>. QED BY <1>6, <2>1, <2>2, <2>3, <3>2, <3>3 DEF Covered
  <2>. QED BY <2>2, <2>3
<1>7. \A d \in cs : d = c /\ d \in Conns /\ IsOpen(d)
  BY <1>3
<1>8. reason = "chain" => \A d \in cs : /\ d \notin held /\ ~On(toFrame, About("start", d))
                                        /\ \A r \in Range(reached[d]) : answers[r] # <<>>
  BY <1>6, <1>7
<1>9. (\A m : On(toPage', m) => On(toPage, m)) /\ \A m, n : Ahead(toPage', m, n) => Ahead(toPage, m, n)
  BY <1>2
<1>. QED BY <1>3, <1>4, <1>5, <1>7, <1>8, <1>9, HaltHeard

\* The reply to a send is heard: the frame refused what never reached the chain.
LEMMA ReplyHeard ==
  ASSUME EndsInv, SentInv, HeardInv, HearReply
  PROVE  HeardInv'
<1>. USE DEF scopeVars
<1>0. PICK c, r : c = Heard.conn /\ r = Heard.req
  OBVIOUS
<1>1. Typed /\ Hears({"ok", "refuse"})
  BY Known DEF HearReply
<1>2. /\ c \in Conns /\ r \in Reqs /\ Heard.kind \in {"ok", "refuse"} /\ Heard = Msg(Heard.kind, c, r)
      /\ \A m : On(toPage, m) <=> m = Heard \/ On(toPage', m)
      /\ \A m, n : Ahead(toPage', m, n) => Ahead(toPage, m, n)
  BY <1>0, <1>1, HearsIs, PageMessageIs
<1>3. UNCHANGED <<conn, connected, pending, leaving, toFrame, held, atChain, reached, sent, told>>
  BY DEF HearReply
<1>4. answers \in [Reqs -> Seq(Endings)] /\ flight \in SUBSET Reqs /\ "refused" \in Endings
  BY Known DEF Endings
<1>5. /\ flight' = flight \ {r}
      /\ answers' = answers \/ (Heard.kind = "refuse" /\ r \in flight /\ answers' = Answered({r}, "refused"))
  BY <1>0 DEF HearReply, FailSend
<1>6. \A q \in Reqs : answers'[q] # answers[q] =>
        /\ q = r /\ Heard.kind = "refuse" /\ r \in flight /\ answers'[q] = Append(answers[q], "refused")
  <2>1. \A q \in Reqs : Answered({r}, "refused")[q] = IF q \in {r} THEN Append(answers[q], "refused") ELSE answers[q]
    BY <1>4, AnsweredIs
  <2>. QED BY <1>5, <2>1
<1>7. \A q \in Reqs : answers[q] # <<>> => answers'[q] # <<>>
  <2>1. \A q \in Reqs : Append(answers[q], "refused") # <<>>
    BY <1>4, AppendSome
  <2>. QED BY <1>6, <2>1
<1>8. ASSUME NEW d, NEW q
      PROVE  /\ Answering(d, q)' <=> Answering(d, q)
             /\ q # r => (Replying(d, q) => Replying(d, q)')
  <2>1. \A m \in Answers(d, q) : m # Heard
    BY <1>2, MsgIs DEF Answers
  <2>2. q # r => \A m \in Replies(d, q) : m # Heard
    BY <1>2, MsgIs DEF Replies
  <2>. QED BY <1>2, <2>1, <2>2 DEF Answering, Replying
<1>9. ASSUME Heard.kind = "refuse", r \in flight
      PROVE  /\ answers[r] = <<>>
             /\ \A d \in Conns : r \notin Range(pending[d]) /\ ~OnLine(d, r) /\ r \notin atChain[d] /\ ~Answering(d, r)
  <2>1. answers[r] = <<>>
    BY <1>9 DEF HeardInv, InFlight
  <2>2. On(toPage, Msg("refuse", c, r))
    BY <1>2, <1>9
  <2>3. c \in connected /\ r \in Range(sent[c]) \ Range(reached[c]) /\ ~OnLine(c, r)
    BY <1>2, <2>2 DEF HeardInv, Called
  <2>4. \A d \in Conns : r \in Range(sent[d]) => d = c
    BY <1>2, <2>3, PlacesAre
  <2>5. ASSUME NEW d \in Conns PROVE r \notin Range(pending[d]) /\ ~OnLine(d, r) /\ r \notin Range(reached[d])
    <3>1. CASE d = c
      BY <1>2, <2>3, <3>1, PlacesAre
    <3>2. CASE d # c
      BY <1>2, <2>4, <2>5, <3>2, PlacesAre
    <3>. QED BY <3>1, <3>2
  <2>. QED BY <1>2, <2>1, <2>5, PlacesAre
<1>10. \A q \in Reqs : answers'[q] # answers[q] =>
         /\ Unanswered(q) /\ q \notin flight' /\ \E a \in Endings : answers'[q] = Append(answers[q], a)
         /\ \A d \in Conns :
              /\ q \notin Range(pending'[d]) /\ ~On(leaving', Sends(d, q))
              /\ On(toFrame', Sends(d, q)) \/ q \in atChain'[d] \/ Answering(d, q)' => answers'[q] = <<"timeout">>
  BY <1>3, <1>4, <1>5, <1>6, <1>8, <1>9 DEF OnLine, Unanswered
<1>11. \A d \in Conns : Told(d)'
  BY <1>3, <1>7, ToldKept
<1>12. \A d \in Conns, q \in Reqs : IsOpen(d)' /\ q \in Range(reached[d]) =>
         /\ IsOpen(d) /\ atChain'[d] = atChain[d] /\ (d \in held' => d \in held)
         /\ Answering(d, q) => Answering(d, q)' \/ answers'[q] # <<>>
  BY <1>3, <1>8 DEF IsOpen
<1>13. \A q \in flight', d \in Conns : /\ On(toFrame, Sends(d, q)) => On(toFrame', Sends(d, q))
                                       /\ Replying(d, q) => Replying(d, q)'
  BY <1>3, <1>5, <1>8
<1>14. (\A m : On(toPage', m) => On(toPage, m)) /\ flight' \subseteq flight
  BY <1>2, <1>5
<1>. QED BY <1>2, <1>3, <1>10, <1>11, <1>12, <1>13, <1>14, LessHeard

\* What the scope does leaves the page's books alone.
LEMMA ScopeKept ==
  ASSUME UNCHANGED pageVars
  PROVE  /\ UNCHANGED <<frame, conn, connected, pending, leaving, flight, sent, answers, told>>
         /\ \A d : IsOpen(d)' <=> IsOpen(d)
         /\ AnsweredOnce => AnsweredOnce'
  BY DEF pageVars, IsOpen, AnsweredOnce

\* The scope accepts a connection, or not: nothing of it reached the chain yet.
LEMMA StartHeard ==
  ASSUME EndsInv, SentInv, HeardInv, NEW accepts \in BOOLEAN, HearStart(accepts)
  PROVE  HeardInv'
<1>0. PICK c, reply : c = Taken.conn /\ reply = About(IF accepts THEN "connected" ELSE "fail", c)
  OBVIOUS
<1>1. /\ Taken = About("start", c) /\ c \in Conns
      /\ \A m : On(toFrame, m) <=> m = Taken \/ On(toFrame', m)
  BY <1>0, Known, TakesIs DEF HearStart
<1>2. /\ toPage' = Append(toPage, reply) /\ UNCHANGED <<reached, atChain>> /\ UNCHANGED pageVars
      /\ \A d : d \in held' => d \in held \/ d = c
  BY <1>0 DEF HearStart, About
<1>3. /\ UNCHANGED <<conn, connected, pending, leaving, flight, sent, answers, told>>
      /\ \A d : IsOpen(d)' <=> IsOpen(d)
      /\ AnsweredOnce'
  BY <1>2, ScopeKept DEF HeardInv
<1>4. /\ \A m : On(toPage', m) <=> On(toPage, m) \/ m = reply
      /\ \A m, n : Ahead(toPage', m, n) <=> Ahead(toPage, m, n) \/ (On(toPage, m) /\ n = reply)
  <2>1. toPage \in Seq(PageMessage) /\ reply \in PageMessage
    BY <1>0, <1>1, Known, MessagesAre
  <2>. QED BY <1>2, <2>1, AppendIs
<1>5. ASSUME NEW d, NEW q
      PROVE  /\ \A m \in Answers(d, q) \cup Replies(d, q) : m # reply
             /\ Answering(d, q)' <=> Answering(d, q)
             /\ Replying(d, q)' <=> Replying(d, q)
             /\ OnLine(d, q)' <=> OnLine(d, q)
             /\ On(toFrame', Sends(d, q)) <=> On(toFrame, Sends(d, q))
             /\ On(toPage', About("end", d)) <=> On(toPage, About("end", d))
  <2>1. \A m \in Answers(d, q) \cup Replies(d, q) : m # reply
    BY <1>0, MsgIs DEF Answers, Replies, About
  <2>2. On(toFrame', Sends(d, q)) <=> On(toFrame, Sends(d, q))
    BY <1>1, NamesAre
  <2>3. About("end", d) # reply
    BY <1>0, NamesAre
  <2>. QED BY <1>3, <1>4, <2>1, <2>2, <2>3 DEF Answering, Replying, OnLine
<1>6. InFlight'
  BY <1>3, <1>5 DEF HeardInv, InFlight
<1>7. ASSUME NEW d \in Conns PROVE Told(d)'
  <2>1. On(toFrame', About("start", d)) => On(toFrame, About("start", d))
    BY <1>1
  <2>2. d \in held' => d \in held \/ On(toFrame, About("start", d))
    BY <1>1, <1>2
  <2>. QED BY <1>2, <1>3, <2>1, <2>2, ToldKept
<1>8. ASSUME NEW d \in Conns, NEW q \in Reqs PROVE Heed(d, q)'
  <2>1. Owed(d, q) /\ Called(d, q) /\ Covered(d, q)
    BY DEF HeardInv
  <2>2. Owed(d, q)'
    BY <1>2, <1>3, <1>4, <1>5, <2>1 DEF Owed, Unanswered
  <2>3. Called(d, q)'
    <3>1. \A kind \in {"ok", "refuse"} : On(toPage', Msg(kind, d, q)) => On(toPage, Msg(kind, d, q))
      BY <1>4, <1>5 DEF Replies
    <3>. QED BY <1>2, <1>3, <1>4, <1>5, <2>1, <3>1 DEF Called
  <2>4. Covered(d, q)'
    <3>1. d \in held' /\ q \in Range(reached[d]) => d \in held
      <4>1. q \in Range(reached[d]) => d \in connected
        BY PlacesAre
      <4>2. c \notin connected
        BY <1>1, Known DEF Asked
      <4>. QED BY <1>2, <4>1, <4>2
    <3>. QED BY <1>2, <1>3, <1>4, <1>5, <2>1, <3>1 DEF Covered
  <2>. QED BY <2>2, <2>3, <2>4 DEF Heed
<1>. QED BY <1>3, <1>6, <1>7, <1>8 DEF HeardInv, Heed

\* The scope drops a connection that the page gave up.
LEMMA StopHeard ==
  ASSUME EndsInv, SentInv, HeardInv, HearStop
  PROVE  HeardInv'
<1>0. PICK c : c = Taken.conn
  OBVIOUS
<1>1. /\ Taken = About("stop", c) /\ c \in Conns
      /\ \A m : On(toFrame, m) <=> m = Taken \/ On(toFrame', m)
  BY <1>0, Known, TakesIs DEF HearStop
<1>2. /\ UNCHANGED <<reached, toPage>> /\ UNCHANGED pageVars
      /\ held' = held \ {c} /\ atChain' = [atChain EXCEPT ![c] = {}]
  BY <1>0 DEF HearStop
<1>3. /\ UNCHANGED <<conn, connected, pending, leaving, flight, sent, answers, told>>
      /\ \A d : IsOpen(d)' <=> IsOpen(d)
      /\ AnsweredOnce'
  BY <1>2, ScopeKept DEF HeardInv
<1>4. ASSUME NEW d, NEW q
      PROVE  /\ Answering(d, q)' <=> Answering(d, q)
             /\ Replying(d, q)' <=> Replying(d, q)
             /\ OnLine(d, q)' <=> OnLine(d, q)
             /\ On(toFrame', Sends(d, q)) <=> On(toFrame, Sends(d, q))
  <2>1. On(toFrame', Sends(d, q)) <=> On(toFrame, Sends(d, q))
    BY <1>1, NamesAre
  <2>. QED BY <1>2, <1>3, <2>1 DEF Answering, Replying, OnLine
<1>5. \A d \in Conns : (atChain'[d] = atChain[d] \/ d = c) /\ atChain'[d] \subseteq atChain[d]
  BY <1>2, Known
<1>6. InFlight'
  BY <1>3, <1>4 DEF HeardInv, InFlight
<1>7. ASSUME NEW d \in Conns PROVE Told(d)'
  BY <1>1, <1>2, <1>3, ToldKept
<1>8. ~IsOpen(c)
  <2>1. On(toFrame, About("stop", c))
    BY <1>1
  <2>. QED BY <1>1, <2>1, Known DEF Matched, IsOpen
<1>9. ASSUME NEW d \in Conns, NEW q \in Reqs PROVE Heed(d, q)'
  <2>1. Owed(d, q) /\ Called(d, q) /\ Covered(d, q)
    BY DEF HeardInv
  <2>2. Owed(d, q)'
    BY <1>2, <1>3, <1>4, <1>5, <2>1 DEF Owed, Unanswered
  <2>3. Called(d, q)'
    BY <1>2, <1>3, <1>4, <2>1 DEF Called
  <2>4. Covered(d, q)'
    BY <1>2, <1>3, <1>4, <1>5, <1>8, <2>1 DEF Covered
  <2>. QED BY <2>2, <2>3, <2>4 DEF Heed
<1>. QED BY <1>3, <1>6, <1>7, <1>9 DEF HeardInv, Heed

\* A request comes to the scope: it reaches the chain, or is refused; nothing answered it yet.
LEMMA TakenHeard ==
  ASSUME EndsInv, SentInv, HeardInv, HearSend
  PROVE  HeardInv'
<1>0. PICK c, r, reply : c = Taken.conn /\ r = Taken.req /\ reply = Msg(IF c \in held THEN "ok" ELSE "refuse", c, r)
  OBVIOUS
<1>1. /\ Taken = Sends(c, r) /\ c \in Conns /\ r \in Reqs
      /\ \A m : On(toFrame, m) <=> m = Taken \/ On(toFrame', m)
      /\ \A m, n : Ahead(toFrame, m, n) <=> Ahead(toFrame', m, n) \/ (m = Taken /\ On(toFrame', n))
  BY <1>0, Known, TakesIs DEF HearSend
<1>2. /\ toPage' = Append(toPage, reply) /\ UNCHANGED held /\ UNCHANGED pageVars
      /\ IF c \in held
         THEN atChain' = [atChain EXCEPT ![c] = @ \cup {r}] /\ reached' = [reached EXCEPT ![c] = Append(@, r)]
         ELSE UNCHANGED <<atChain, reached>>
  BY <1>0 DEF HearSend
<1>3. /\ UNCHANGED <<conn, connected, pending, leaving, flight, sent, answers, told>>
      /\ \A d : IsOpen(d)' <=> IsOpen(d)
      /\ AnsweredOnce'
  BY <1>2, ScopeKept DEF HeardInv
<1>4. /\ \A m : On(toPage', m) <=> On(toPage, m) \/ m = reply
      /\ \A m, n : Ahead(toPage', m, n) <=> Ahead(toPage, m, n) \/ (On(toPage, m) /\ n = reply)
  <2>1. toPage \in Seq(PageMessage) /\ reply \in PageMessage
    BY <1>0, <1>1, Known, MessagesAre
  <2>. QED BY <1>2, <2>1, AppendIs
<1>5. /\ c \in connected /\ r \in Range(sent[c]) \ Range(reached[c]) /\ ~Answering(c, r) /\ Unanswered(r)
      /\ ~On(toPage, Msg("refuse", c, r)) /\ ~On(toPage, Msg("ok", c, r))
  <2>1. OnLine(c, r) /\ On(toFrame, Sends(c, r))
    BY <1>1 DEF OnLine
  <2>2. c \in connected /\ r \in Range(sent[c]) \ Range(reached[c]) /\ ~Answering(c, r)
    BY <1>1, <2>1, PlacesAre
  <2>3. Unanswered(r)
    BY <1>1, <2>1 DEF HeardInv, Owed
  <2>. QED BY <1>1, <2>1, <2>2, <2>3 DEF HeardInv, Called
<1>6. \A d \in Conns, q \in Reqs :
        /\ q \in Range(reached'[d]) <=> q \in Range(reached[d]) \/ (d = c /\ q = r /\ c \in held)
        /\ q \in atChain'[d] <=> q \in atChain[d] \/ (d = c /\ q = r /\ c \in held)
        /\ d \notin held => reached'[d] = reached[d]
  <2>1. CASE c \in held
    <3>1. reached \in [Conns -> Seq(Reqs)] /\ atChain \in [Conns -> SUBSET Reqs]
      BY Known
    <3>2. /\ reached'[c] = Append(reached[c], r) /\ atChain'[c] = atChain[c] \cup {r}
          /\ \A d \in Conns : d # c => reached'[d] = reached[d] /\ atChain'[d] = atChain[d]
      BY <1>1, <1>2, <2>1, <3>1
    <3>3. Range(reached'[c]) = Range(reached[c]) \cup {r}
      <4>1. reached[c] \in Seq(Reqs)
        BY <1>1, <3>1
      <4>. QED BY <1>1, <3>2, <4>1, RangeAppend
    <3>. QED BY <2>1, <3>2, <3>3
  <2>2. CASE c \notin held
    BY <1>2, <2>2
  <2>. QED BY <2>1, <2>2
<1>7. ASSUME NEW d, NEW q
      PROVE  /\ \A m \in Answers(d, q) : m # reply
             /\ Answering(d, q)' <=> Answering(d, q)
             /\ Replying(d, q) => Replying(d, q)'
             /\ \A m \in Replies(d, q) : m = reply => d = c /\ q = r
             /\ On(toPage', About("end", d)) <=> On(toPage, About("end", d))
             /\ On(toFrame', Sends(d, q)) => On(toFrame, Sends(d, q))
             /\ OnLine(d, q)' => OnLine(d, q)
             /\ On(toFrame, Sends(d, q)) => On(toFrame', Sends(d, q)) \/ (d = c /\ q = r)
  <2>1. \A m \in Answers(d, q) : m # reply
    BY <1>0, MsgIs DEF Answers
  <2>2. \A m \in Replies(d, q) : m = reply => d = c /\ q = r
    BY <1>0, MsgIs DEF Replies
  <2>3. About("end", d) # reply
    BY <1>0, MsgIs DEF About
  <2>4. On(toFrame, Sends(d, q)) => On(toFrame', Sends(d, q)) \/ (d = c /\ q = r)
    BY <1>1, NamesAre
  <2>. QED BY <1>1, <1>3, <1>4, <2>1, <2>2, <2>3, <2>4 DEF Answering, Replying, OnLine
<1>8. Replying(c, r)'
  BY <1>0, <1>4 DEF Replying, Replies
<1>9. InFlight'
  <2>1. ASSUME NEW q \in flight' PROVE answers'[q] = <<>> /\ \E d \in connected' :
          q \in Range(sent'[d]) /\ (On(toFrame', Sends(d, q)) \/ Replying(d, q)')
    <3>1. q \in flight /\ answers'[q] = <<>>
      BY <1>3, <2>1 DEF HeardInv, InFlight
    <3>2. PICK d \in connected : q \in Range(sent[d]) /\ (On(toFrame, Sends(d, q)) \/ Replying(d, q))
      BY <3>1 DEF HeardInv, InFlight
    <3>3. On(toFrame', Sends(d, q)) \/ Replying(d, q)'
      BY <1>7, <1>8, <3>2
    <3>. QED BY <1>3, <3>1, <3>2, <3>3
  <2>. QED BY <2>1 DEF InFlight
<1>10. ASSUME NEW d \in Conns PROVE Told(d)'
  <2>1. Told(d)
    BY DEF HeardInv
  <2>2. told[d] = <<"chain">> => reached'[d] = reached[d]
    <3>1. told[d] = <<"chain">> => d \notin held
      BY <2>1 DEF Told
    <3>. QED BY <1>1, <1>6, <3>1
  <2>3. On(toFrame', About("start", d)) => On(toFrame, About("start", d))
    BY <1>1
  <2>. QED BY <1>2, <1>3, <2>1, <2>2, <2>3 DEF Told
<1>11. ~OnLine(c, r)'
  <2>1. PICK k \in DOMAIN sent[c] : sent[c][k] = r
    BY <1>5 DEF Range
  <2>2. On(toFrame, Sends(c, sent[c][k])) /\ Lined(c) /\ k \in Nat
    BY <1>1, <2>1, Known
  <2>3. ~Ahead(toFrame, Sends(c, r), Sends(c, r)) /\ ~On(leaving, Sends(c, r))
    BY <2>1, <2>2 DEF Lined
  <2>. QED BY <1>1, <1>3, <2>3 DEF OnLine
<1>12. ASSUME NEW d \in Conns, NEW q \in Reqs PROVE Heed(d, q)'
  <2>1. Owed(d, q) /\ Called(d, q) /\ Covered(d, q)
    BY DEF HeardInv
  <2>2. Owed(d, q)'
    <3>1. On(leaving', Sends(d, q)) <=> On(leaving, Sends(d, q))
      BY <1>3
    <3>2. \A m, n \in Answers(d, q) : ~Ahead(toPage', m, n)
      BY <1>4, <1>7, <2>1 DEF Owed
    <3>. QED BY <1>3, <1>5, <1>6, <1>7, <2>1, <3>1, <3>2 DEF Owed, Unanswered
  <2>3. Called(d, q)'
    <3>1. On(toPage', Msg("ok", d, q)) => q \in Range(reached'[d])
      <4>1. Msg("ok", d, q) = reply => d = c /\ q = r /\ c \in held
        BY <1>0, MsgIs
      <4>. QED BY <1>4, <1>6, <2>1, <4>1 DEF Called
    <3>2. On(toPage', Msg("refuse", d, q)) =>
            d \in connected' /\ q \in Range(sent'[d]) \ Range(reached'[d]) /\ ~OnLine(d, q)'
      <4>1. CASE Msg("refuse", d, q) = reply
        <5>1. d = c /\ q = r /\ c \notin held
          BY <1>0, <4>1, MsgIs
        <5>. QED BY <1>3, <1>5, <1>6, <1>11, <5>1
      <4>2. CASE Msg("refuse", d, q) # reply
        BY <1>3, <1>4, <1>5, <1>6, <1>7, <2>1, <4>2 DEF Called
      <4>. QED BY <4>1, <4>2
    <3>3. \A m \in Answers(d, q), n \in Replies(d, q) : ~Ahead(toPage', m, n)
      <4>1. ASSUME NEW m \in Answers(d, q), NEW n \in Replies(d, q), Ahead(toPage', m, n) PROVE FALSE
        <5>1. On(toPage, m) /\ n = reply
          BY <1>4, <2>1, <4>1 DEF Called
        <5>. QED BY <1>5, <1>7, <4>1, <5>1 DEF Answering
      <4>. QED BY <4>1
    <3>. QED BY <3>1, <3>2, <3>3 DEF Called
  <2>4. Covered(d, q)'
    <3>1. \A m \in Answers(d, q) : ~Ahead(toPage', About("end", d), m)
      BY <1>4, <1>7, <2>1 DEF Covered
    <3>. QED BY <1>2, <1>3, <1>6, <1>7, <2>1, <3>1 DEF Covered
  <2>. QED BY <2>2, <2>3, <2>4 DEF Heed
<1>. QED BY <1>3, <1>9, <1>10, <1>12 DEF HeardInv, Heed

\* The chain answers a request it has: nothing answered it yet, and the scope still holds its connection.
LEMMA AnsweredHeard ==
  ASSUME EndsInv, SentInv, HeardInv, NEW c \in Conns, NEW r \in Reqs, ChainAnswers(c, r)
  PROVE  HeardInv'
<1>0. PICK news : news = Msg("answer", c, r)
  OBVIOUS
<1>1. /\ r \in atChain[c] /\ atChain' = [atChain EXCEPT ![c] = @ \ {r}] /\ toPage' = Append(toPage, news)
      /\ UNCHANGED <<toFrame, held, reached>> /\ UNCHANGED pageVars
  BY <1>0 DEF ChainAnswers
<1>2. /\ UNCHANGED <<conn, connected, pending, leaving, flight, sent, answers, told>>
      /\ \A d : IsOpen(d)' <=> IsOpen(d)
      /\ AnsweredOnce'
  BY <1>1, ScopeKept DEF HeardInv
<1>3. /\ \A m : On(toPage', m) <=> On(toPage, m) \/ m = news
      /\ \A m, n : Ahead(toPage', m, n) <=> Ahead(toPage, m, n) \/ (On(toPage, m) /\ n = news)
  <2>1. toPage \in Seq(PageMessage) /\ news \in PageMessage
    BY <1>0, Known, MessagesAre
  <2>. QED BY <1>1, <2>1, AppendIs
<1>4. /\ r \in Range(reached[c]) /\ Unanswered(r) /\ ~Answering(c, r) /\ ~On(toPage, About("end", c))
  <2>1. Owed(c, r) /\ c \in held
    BY <1>1, PlacesAre DEF HeardInv
  <2>. QED BY <1>1, <2>1, Known DEF Owed, Asked
<1>5. ASSUME NEW d \in Conns
      PROVE  atChain'[d] \subseteq atChain[d] /\ (\A q : q \in atChain[d] => q \in atChain'[d] \/ (d = c /\ q = r))
  BY <1>1, <1>5, Known
<1>6. r \notin atChain'[c]
  BY <1>1, Known
<1>7. ASSUME NEW d, NEW q
      PROVE  /\ \A m \in Answers(d, q) : m = news => d = c /\ q = r
             /\ \A m \in Replies(d, q) : m # news
             /\ Answering(d, q) => Answering(d, q)'
             /\ Answering(d, q)' => Answering(d, q) \/ (d = c /\ q = r)
             /\ Replying(d, q)' <=> Replying(d, q)
             /\ OnLine(d, q)' <=> OnLine(d, q)
             /\ On(toPage', About("end", d)) <=> On(toPage, About("end", d))
  <2>1. (\A m \in Answers(d, q) : m = news => d = c /\ q = r) /\ \A m \in Replies(d, q) : m # news
    BY <1>0, MsgIs DEF Answers, Replies
  <2>2. About("end", d) # news
    BY <1>0, MsgIs DEF About
  <2>. QED BY <1>1, <1>2, <1>3, <2>1, <2>2 DEF Answering, Replying, OnLine
<1>8. Answering(c, r)'
  BY <1>0, <1>3 DEF Answering, Answers
<1>9. InFlight'
  BY <1>1, <1>2, <1>7 DEF HeardInv, InFlight
<1>10. ASSUME NEW d \in Conns PROVE Told(d)'
  BY <1>1, <1>2, ToldKept
<1>11. ASSUME NEW d \in Conns, NEW q \in Reqs PROVE Heed(d, q)'
  <2>1. Owed(d, q) /\ Called(d, q) /\ Covered(d, q)
    BY DEF HeardInv
  <2>2. Owed(d, q)'
    <3>1. \A m, n \in Answers(d, q) : ~Ahead(toPage', m, n)
      BY <1>3, <1>4, <1>7, <2>1 DEF Owed, Answering
    <3>2. q \in atChain'[d] => ~(d = c /\ q = r)
      BY <1>6
    <3>. QED BY <1>1, <1>2, <1>4, <1>5, <1>7, <2>1, <3>1, <3>2 DEF Owed, Unanswered
  <2>3. Called(d, q)'
    <3>1. \A kind \in {"ok", "refuse"} : On(toPage', Msg(kind, d, q)) => On(toPage, Msg(kind, d, q))
      BY <1>3, <1>7 DEF Replies
    <3>2. \A m \in Answers(d, q), n \in Replies(d, q) : ~Ahead(toPage', m, n)
      BY <1>3, <1>7, <2>1 DEF Called
    <3>. QED BY <1>1, <1>2, <1>7, <2>1, <3>1, <3>2 DEF Called
  <2>4. Covered(d, q)'
    <3>1. \A m \in Answers(d, q) : ~Ahead(toPage', About("end", d), m)
      BY <1>3, <1>4, <1>7, <2>1 DEF Covered
    <3>. QED BY <1>1, <1>2, <1>5, <1>7, <1>8, <2>1, <3>1 DEF Covered
  <2>. QED BY <2>2, <2>3, <2>4 DEF Heed
<1>. QED BY <1>2, <1>9, <1>10, <1>11 DEF HeardInv, Heed

\* The scope's connections go all at once: what the chain has of them is answered, or the page loses the frame.
LEMMA DropHeard ==
  ASSUME EndsInv, SentInv, HeardInv, UNCHANGED pageVars, UNCHANGED <<toFrame, reached>>,
         held' = {}, atChain' = [c \in Conns |-> {}],
         NEW news \in Seq(PageMessage), toPage' = toPage \o news,
         \A m : On(news, m) => m = Lost \/ \E c \in held : m \in HaltMessages(c),
         \A c \in held : On(news, About("end", c)) => \A m \in HaltMessages(c) : On(news, m),
         \A c, r : \A m \in Answers(c, r) : ~Ahead(news, About("end", c), m),
         \A m : ~Ahead(news, m, m)
  PROVE  HeardInv'
<1>1. /\ UNCHANGED <<conn, connected, pending, leaving, flight, sent, answers, told>>
      /\ \A d : IsOpen(d)' <=> IsOpen(d)
      /\ AnsweredOnce'
  BY ScopeKept DEF HeardInv
<1>2. /\ \A m : On(toPage', m) <=> On(toPage, m) \/ On(news, m)
      /\ \A m, n : Ahead(toPage', m, n) <=> Ahead(toPage, m, n) \/ Ahead(news, m, n) \/ (On(toPage, m) /\ On(news, n))
  BY Known, ConcatIs
<1>3. ASSUME NEW d \in Conns, NEW q \in Reqs
      PROVE  /\ \A m \in Answers(d, q) : On(news, m) => d \in held /\ q \in atChain[d] /\ m = Msg("halted", d, q)
             /\ \A m \in Replies(d, q) : ~On(news, m)
             /\ On(news, About("end", d)) => d \in held
  <2>1. ASSUME NEW m, On(news, m), NEW kind \in Kinds \ {"lost"}, NEW q2, m = Msg(kind, d, q2)
        PROVE  d \in held /\ ((kind = "halted" /\ q2 \in atChain[d]) \/ kind = "end")
    <3>1. m # Lost
      BY <2>1, MsgIs DEF Lost
    <3>2. PICK e \in held : m \in HaltMessages(e)
      BY <2>1, <3>1
    <3>3. (\E q3 \in atChain[e] : m = Msg("halted", e, q3)) \/ m = Msg("end", e, None)
      BY <3>2 DEF HaltMessages
    <3>. QED BY <2>1, <3>3, MsgIs
  <2>2. ASSUME NEW m \in Answers(d, q), On(news, m) PROVE d \in held /\ q \in atChain[d] /\ m = Msg("halted", d, q)
    <3>1. PICK kind \in {"answer", "halted"} : m = Msg(kind, d, q)
      BY <2>2 DEF Answers
    <3>. QED BY <2>1, <2>2, <3>1 DEF Kinds
  <2>3. ASSUME NEW m \in Replies(d, q), On(news, m) PROVE FALSE
    <3>1. PICK kind \in {"ok", "refuse"} : m = Msg(kind, d, q)
      BY <2>3 DEF Replies
    <3>. QED BY <2>1, <2>3, <3>1 DEF Kinds
  <2>4. ASSUME On(news, About("end", d)) PROVE d \in held
    BY <2>1, <2>4 DEF About, Kinds
  <2>. QED BY <2>2, <2>3, <2>4
<1>4. ASSUME NEW d \in Conns, NEW q \in Reqs
      PROVE  /\ Answering(d, q) => Answering(d, q)'
             /\ Answering(d, q)' => Answering(d, q) \/ q \in atChain[d]
             /\ Replying(d, q)' <=> Replying(d, q)
             /\ OnLine(d, q)' <=> OnLine(d, q)
  BY <1>1, <1>2, <1>3, <1>4 DEF Answering, Replying, OnLine
<1>5. InFlight'
  BY <1>1, <1>4, Known DEF HeardInv, InFlight
<1>6. ASSUME NEW d \in Conns PROVE Told(d)'
  BY <1>1, ToldKept
<1>7. ASSUME NEW d \in Conns, NEW q \in Reqs PROVE Heed(d, q)'
  <2>1. Owed(d, q) /\ Called(d, q) /\ Covered(d, q)
    BY DEF HeardInv
  <2>2. Owed(d, q)'
    <3>1. ASSUME NEW m \in Answers(d, q), NEW n \in Answers(d, q), Ahead(toPage', m, n) PROVE FALSE
      <4>1. CASE Ahead(toPage, m, n)
        BY <2>1, <4>1 DEF Owed
      <4>2. CASE Ahead(news, m, n)
        <5>1. On(news, m) /\ On(news, n)
          BY <4>2 DEF Ahead, On
        <5>2. m = n
          BY <1>3, <5>1
        <5>. QED BY <4>2, <5>2
      <4>3. CASE On(toPage, m) /\ On(news, n)
        BY <1>3, <2>1, <4>3 DEF Owed, Answering
      <4>. QED BY <1>2, <3>1, <4>1, <4>2, <4>3
    <3>2. atChain'[d] = {}
      OBVIOUS
    <3>. QED BY <1>1, <1>4, <2>1, <3>1, <3>2 DEF Owed, Unanswered
  <2>3. Called(d, q)'
    <3>1. \A kind \in {"ok", "refuse"} : On(toPage', Msg(kind, d, q)) => On(toPage, Msg(kind, d, q))
      BY <1>2, <1>3 DEF Replies
    <3>2. \A m \in Answers(d, q), n \in Replies(d, q) : ~Ahead(toPage', m, n)
      <4>1. \A m, n : Ahead(news, m, n) => On(news, n)
        BY DEF Ahead, On
      <4>. QED BY <1>2, <1>3, <2>1, <4>1 DEF Called
    <3>. QED BY <1>1, <1>4, <2>1, <3>1, <3>2 DEF Called
  <2>4. Covered(d, q)'
    <3>1. \A m \in Answers(d, q) : ~Ahead(toPage', About("end", d), m)
      <4>1. ASSUME NEW m \in Answers(d, q), On(toPage, About("end", d)), On(news, m) PROVE FALSE
        <5>1. d \in held
          BY <1>3, <4>1
        <5>. QED BY <4>1, <5>1, Known DEF Asked
      <4>. QED BY <1>2, <2>1, <4>1 DEF Covered
    <3>2. ASSUME IsOpen(d), On(toPage', About("end", d)), q \in Range(reached[d])
          PROVE  answers[q] # <<>> \/ Answering(d, q)'
      <4>1. CASE On(toPage, About("end", d))
        <5>1. d \notin held /\ atChain[d] = {}
          BY <4>1, Known DEF Asked, Matched
        <5>. QED BY <1>4, <2>1, <3>2, <4>1, <5>1 DEF Covered
      <4>2. CASE On(news, About("end", d))
        <5>1. d \in held
          BY <1>3, <4>2
        <5>2. answers[q] # <<>> \/ q \in atChain[d] \/ Answering(d, q)
          BY <2>1, <3>2, <5>1 DEF Covered
        <5>3. q \in atChain[d] => On(news, Msg("halted", d, q))
          BY <4>2, <5>1 DEF HaltMessages
        <5>. QED BY <1>2, <1>4, <5>2, <5>3 DEF Answering, Answers
      <4>. QED BY <1>2, <3>2, <4>1, <4>2
    <3>. QED BY <1>1, <3>1, <3>2 DEF Covered
  <2>. QED BY <2>2, <2>3, <2>4 DEF Heed
<1>. QED BY <1>1, <1>5, <1>6, <1>7 DEF HeardInv, Heed

\* What the scope does.
LEMMA ScopeHeard ==
  ASSUME RemoteAssumption, EndsInv, SentInv, HeardInv, NEW c \in Conns, NEW r \in Reqs,
         ScopeHears \/ ChainAnswers(c, r) \/ ChainHalts \/ ReleaseScope
  PROVE  HeardInv'
<1>1. CASE ChainHalts
  <2>1. PICK news \in HaltNews : toPage' = toPage \o news
    BY <1>1 DEF ChainHalts
  <2>2. /\ news \in Seq(PageMessage)
        /\ \A m : On(news, m) <=> \E d \in held : m \in HaltMessages(d)
        /\ \A d, q : \A m \in Answers(d, q) : ~Ahead(news, About("end", d), m)
        /\ \A m : ~Ahead(news, m, m)
    BY Known, NewsIs
  <2>3. UNCHANGED pageVars /\ UNCHANGED <<toFrame, reached>> /\ held' = {} /\ atChain' = [d \in Conns |-> {}]
    BY <1>1 DEF ChainHalts
  <2>. QED BY <2>1, <2>2, <2>3, DropHeard
<1>2. CASE ReleaseScope
  <2>1. PICK news : news = <<Lost>>
    OBVIOUS
  <2>2. toPage' = toPage \o news /\ news \in Seq(PageMessage)
    <3>1. toPage' = Append(toPage, Lost) /\ toPage \in Seq(PageMessage) /\ Lost \in PageMessage
      BY <1>2, Known, MessagesAre DEF ReleaseScope, Lost
    <3>. QED BY <2>1, <3>1
  <2>3. (\A m : On(news, m) <=> m = Lost) /\ \A m, n : ~Ahead(news, m, n)
    BY <2>1 DEF On, Ahead
  <2>4. \A d : ~On(news, About("end", d))
    BY <2>3, NamesAre
  <2>5. UNCHANGED pageVars /\ UNCHANGED <<toFrame, reached>> /\ held' = {} /\ atChain' = [d \in Conns |-> {}]
    BY <1>2 DEF ReleaseScope
  <2>. QED BY <2>2, <2>3, <2>4, <2>5, DropHeard
<1>. QED BY <1>1, <1>2, StartHeard, StopHeard, TakenHeard, AnsweredHeard DEF ScopeHears

----------------------------------------------------------------------------
(* The invariant, and what it says. *)

\* The invariant holds at first: nothing was asked for and nothing is on its way.
LEMMA RemoteInit == RemoteAssumption /\ Init => IInv
<1>. SUFFICES ASSUME RemoteAssumption, Init PROVE IInv
  OBVIOUS
<1>1. /\ frame = "down" /\ conn = [c \in Conns |-> "new"] /\ connected = {}
      /\ pending = [c \in Conns |-> <<>>] /\ leaving = <<>> /\ flight = {} /\ timeouts = 0
      /\ toFrame = <<>> /\ toPage = <<>> /\ served = TRUE
      /\ held = {} /\ atChain = [c \in Conns |-> {}]
      /\ sent = [c \in Conns |-> <<>>] /\ reached = [c \in Conns |-> <<>>]
      /\ answers = [r \in Reqs |-> <<>>] /\ told = [c \in Conns |-> <<>>]
  BY DEF Init
<1>2. /\ \A m : ~On(toFrame, m) /\ ~On(toPage, m) /\ ~On(leaving, m)
      /\ \A m, n : ~Ahead(toFrame, m, n) /\ ~Ahead(toPage, m, n) /\ ~Ahead(leaving, m, n)
  BY <1>1, NoneOn
<1>3. Typed
  <2>1. Cardinality(held) <= Limit
    BY <1>1, HeldIs DEF RemoteAssumption
  <2>2. timeouts \in 0 .. MaxTimeouts
    BY <1>1 DEF RemoteAssumption
  <2>. QED BY <1>1, <2>1, <2>2 DEF Typed, TypeOK
<1>4. EndsInv
  <2>1. Gone /\ LetGo
    BY <1>1 DEF Gone, LetGo
  <2>2. \A c \in Conns : Asked(c) /\ Matched(c)
    BY <1>1, <1>2 DEF Asked, Matched
  <2>. QED BY <1>3, <2>1, <2>2 DEF EndsInv
<1>5. SentInv
  <2>1. \A c \in Conns : DOMAIN sent[c] = {} /\ DOMAIN reached[c] = {} /\ Len(reached[c]) = 0 /\ Len(sent[c]) = 0
    BY <1>1
  <2>2. Sole
    BY <2>1 DEF Sole
  <2>3. \A c \in Conns : Kept(c)
    BY <1>1, <1>2 DEF Kept, OnLine, IsOpen
  <2>4. \A c \in Conns : Lined(c)
    BY <1>1, <1>2, <2>1 DEF Lined, OnLine
  <2>. QED BY <2>2, <2>3, <2>4 DEF SentInv
<1>6. HeardInv
  <2>1. InFlight /\ AnsweredOnce /\ \A c \in Conns : Told(c)
    BY <1>1 DEF InFlight, AnsweredOnce, Told
  <2>2. Range(<<>>) = {}
    BY DEF Range
  <2>3. ASSUME NEW c \in Conns, NEW r \in Reqs PROVE Owed(c, r) /\ Called(c, r) /\ Covered(c, r)
    <3>1. Range(pending[c]) = {} /\ Range(reached[c]) = {} /\ atChain[c] = {}
      BY <1>1, <2>2
    <3>2. ~Answering(c, r)
      BY <1>2 DEF Answering
    <3>. QED BY <1>2, <3>1, <3>2 DEF Owed, Called, Covered
  <2>. QED BY <2>1, <2>3 DEF HeardInv
<1>. QED BY <1>4, <1>5, <1>6 DEF IInv

\* Every step keeps it.
LEMMA RemoteStep == RemoteAssumption /\ IInv /\ [Next]_vars => IInv'
<1>. SUFFICES ASSUME RemoteAssumption, IInv, [Next]_vars PROVE IInv'
  OBVIOUS
<1>1. EndsInv /\ SentInv /\ HeardInv /\ Typed
  BY DEF IInv, EndsInv
<1>2. 1 \in Conns /\ 1 \in Reqs
  BY DEF RemoteAssumption, Conns, Reqs
<1>3. ASSUME NEW c \in Conns, NEW r \in Reqs,
             \/ Connect(c) \/ PostStart(c) \/ FailWait \/ SendTimeout(r)
             \/ Disconnect(c) \/ ConnectTimeout(c) \/ Boot \/ FrameReady
      PROVE  IInv'
  <2>1. Typed'
    BY <1>1, <1>3, PageTypes
  <2>2. EndsInv'
    BY <1>1, <1>3, <2>1, PageEnds
  <2>. QED BY <1>1, <1>3, <2>2, QuietSent, QuietHeard DEF IInv
<1>4. ASSUME NEW c \in Conns, NEW r \in Reqs, Send(c, r) PROVE IInv'
  <2>1. Typed'
    BY <1>1, <1>4, PageTypes
  <2>2. EndsInv'
    BY <1>1, <1>4, <2>1, PageEnds
  <2>. QED BY <1>1, <1>4, <2>2, SendSent, SendHeard DEF IInv
<1>5. CASE PostSends
  <2>1. Typed'
    BY <1>1, <1>2, <1>5, PageTypes
  <2>2. EndsInv'
    BY <1>1, <1>2, <1>5, <2>1, PageEnds
  <2>. QED BY <1>1, <1>5, <2>2, PostSent, PostHeard DEF IInv
<1>6. CASE PageHears \/ FrameDown
  <2>1. Typed'
    BY <1>1, <1>2, <1>6, PageTypes, HearTypes
  <2>2. EndsInv'
    BY <1>1, <1>6, <2>1, HearEnds
  <2>3. SentInv'
    BY <1>1, <1>6, HearSent
  <2>4. HeardInv'
    BY <1>1, <1>6, ConnectedHeard, AnswerHeard, EndHeard, ReplyHeard, LoseHeard DEF PageHears, HearLost, FrameDown
  <2>. QED BY <2>2, <2>3, <2>4 DEF IInv
<1>7. ASSUME NEW c \in Conns, NEW r \in Reqs, ScopeHears \/ ChainAnswers(c, r) \/ ChainHalts \/ ReleaseScope PROVE IInv'
  <2>1. Typed'
    BY <1>1, <1>7, ScopeTypes
  <2>2. EndsInv'
    BY <1>1, <1>7, <2>1, ScopeEnds
  <2>. QED BY <1>1, <1>7, <2>2, ScopeSent, ScopeHeard DEF IInv
<1>8. CASE UNCHANGED vars
  <2>1. /\ UNCHANGED <<frame, conn, connected, pending, leaving, flight, timeouts, toFrame, toPage, served>>
        /\ UNCHANGED <<held, atChain, sent, reached, answers, told>>
    BY <1>8 DEF vars
  <2>2. Typed'
    BY <1>1, <2>1 DEF Typed, TypeOK
  <2>3. EndsInv'
    BY <1>1, <2>1, <2>2 DEF EndsInv, Gone, LetGo, Asked, Matched
  <2>4. \A c, r : /\ IsOpen(c)' <=> IsOpen(c)
                  /\ OnLine(c, r)' <=> OnLine(c, r)
                  /\ Answering(c, r)' <=> Answering(c, r)
                  /\ Replying(c, r)' <=> Replying(c, r)
    BY <2>1 DEF IsOpen, OnLine, Answering, Replying
  <2>5. Sole' /\ \A c \in Conns : Kept(c)' /\ Lined(c)'
    BY <1>1, <2>1, <2>4 DEF SentInv, Sole, Kept, Lined
  <2>6. InFlight' /\ AnsweredOnce' /\ \A c \in Conns : Told(c)'
    BY <1>1, <2>1, <2>4 DEF HeardInv, InFlight, AnsweredOnce, Told
  <2>7. ASSUME NEW c \in Conns, NEW r \in Reqs PROVE Owed(c, r)' /\ Called(c, r)' /\ Covered(c, r)'
    <3>1. Owed(c, r) /\ Called(c, r) /\ Covered(c, r)
      BY <1>1 DEF HeardInv
    <3>2. Owed(c, r)'
      BY <2>1, <2>4, <3>1 DEF Owed, Unanswered
    <3>3. Called(c, r)' /\ Covered(c, r)'
      BY <2>1, <2>4, <3>1 DEF Called, Covered
    <3>. QED BY <3>2, <3>3
  <2>. QED BY <2>3, <2>5, <2>6, <2>7 DEF IInv, SentInv, HeardInv
<1>9. CASE Next
  <2>1. ASSUME NEW c \in Conns, Connect(c) \/ Disconnect(c) \/ ConnectTimeout(c) PROVE IInv'
    BY <1>2, <1>3, <2>1
  <2>2. ASSUME NEW c \in Conns, NEW r \in Reqs, Send(c, r) \/ ChainAnswers(c, r) PROVE IInv'
    BY <1>4, <1>7, <2>2
  <2>3. ASSUME NEW r \in Reqs, SendTimeout(r) PROVE IInv'
    BY <1>2, <1>3, <2>3
  <2>4. CASE TurnEnds
    BY <1>2, <1>3, <1>5, <2>4 DEF TurnEnds
  <2>5. CASE PageHears \/ FrameDown
    BY <1>6, <2>5
  <2>6. CASE ScopeHears \/ ChainHalts \/ ReleaseScope
    BY <1>2, <1>7, <2>6
  <2>7. CASE Boot \/ FrameReady
    BY <1>2, <1>3, <2>7
  <2>. QED BY <1>9, <2>1, <2>2, <2>3, <2>4, <2>5, <2>6, <2>7 DEF Next
<1>. QED BY <1>8, <1>9

\* Whatever crosses on the wire, the page's end of a connection, the scope's and the chain's fit together.
THEOREM RemoteInvariant == Spec => []IInv
<1>1. Init => IInv
  BY RemoteInit, RemoteAssumption
<1>2. IInv /\ [Next]_vars => IInv'
  BY RemoteStep, RemoteAssumption
<1>. QED BY <1>1, <1>2, PTL DEF Spec

\* The page and the frame agree on the connections but for what is on its way, and a connection's requests reach
\* the chain in the order they were sent, those kept until the frame accepted it first.
THEOREM RemoteBooksAgree == Spec => []BooksAgree
<1>1. IInv => BooksAgree
  <2>. SUFFICES ASSUME IInv PROVE BooksAgree
    OBVIOUS
  <2>1. EndsInv /\ SentInv /\ Typed
    BY DEF IInv, EndsInv
  <2>2. ASSUME NEW c \in Conns
        PROVE  /\ conn[c] = "asked" /\ c \in connected
                    => c \in held \/ InTransit(toPage, "end", c) \/ InTransit(toPage, "lost", c)
               /\ c \in held => conn[c] = "asked" \/ InTransit(toFrame, "stop", c)
    <3>1. Asked(c) /\ Matched(c)
      BY <2>1 DEF EndsInv
    <3>. QED BY <2>1, <3>1, TransitIs DEF Asked, Matched
  <2>3. ASSUME NEW c \in Conns PROVE IsPrefix(reached[c], sent[c])
    <3>1. /\ sent[c] \in Seq(Reqs) /\ reached[c] \in Seq(Reqs) /\ Lined(c)
          /\ DOMAIN reached[c] = 1 .. Len(reached[c]) /\ Len(sent[c]) \in Nat /\ Len(reached[c]) \in Nat
      BY <2>1, Known
    <3>2. Len(reached[c]) <= Len(sent[c]) /\ \A i \in 1 .. Len(reached[c]) : reached[c][i] = sent[c][i]
      BY <3>1 DEF Lined
    <3>3. SubSeq(reached[c], 1, Len(reached[c])) = SubSeq(sent[c], 1, Len(reached[c]))
      BY <3>1, <3>2
    <3>. QED BY <3>2, <3>3 DEF IsPrefix
  <2>. QED BY <2>1, <2>2, <2>3 DEF BooksAgree, SidesAgree, SentInOrder, Typed
<1>. QED BY <1>1, RemoteInvariant, PTL

\* A request is answered at most once, or twice if its budget ran out first. Once a connection is told that its chain
\* halted, every request the chain took from it is answered, and once one the frame never accepted is told of any halt,
\* every request it sent. Nothing is said of a send that a halt crosses, or of what a lost frame had taken.
THEOREM RemoteAnswersAddUp == Spec => []AnswersAddUp
<1>1. IInv => AnswersAddUp
  BY DEF IInv, HeardInv, Told, AnswersAddUp, HaltComesAfter
<1>. QED BY <1>1, RemoteInvariant, PTL

----------------------------------------------------------------------------
(* A connection that is gone. *)

\* What a step leaves as it was for a connection that is gone.
Still(c) == told'[c] = told[c] /\ sent'[c] = sent[c] /\ \A r \in Range(sent[c]) : answers'[r] = answers[r]

\* Other connections halt: what they kept is theirs.
LEMMA HaltStill ==
  ASSUME EndsInv, SentInv, HeardInv, NEW cs, NEW reason, HaltRemote(cs, reason), sent' = sent,
         \A d \in cs : d \in Conns /\ IsOpen(d), NEW c \in Conns, conn[c] = "gone"
  PROVE  Still(c)
<1>1. c \notin cs
  BY DEF IsOpen
<1>2. told'[c] = told[c]
  BY <1>1 DEF HaltRemote
<1>3. ASSUME NEW r \in Range(sent[c]) PROVE answers'[r] = answers[r]
  <2>1. r \in Reqs
    <3>1. sent[c] \in Seq(Reqs)
      BY Known
    <3>. QED BY <1>3, <3>1 DEF Range
  <2>2. \A d \in cs : r \notin Range(pending[d])
    BY <1>1, <1>3, <2>1, PlacesAre
  <2>. QED BY <2>1, <2>2 DEF HaltRemote, Answered
<1>. QED BY <1>2, <1>3 DEF Still

\* A request of another connection, or of none, is answered.
LEMMA AnswerStill ==
  ASSUME EndsInv, SentInv, HeardInv, NEW r, NEW a, answers' = Answered({r}, a) \/ answers' = answers,
         UNCHANGED <<sent, told>>, NEW c \in Conns, r \in Range(sent[c]) => answers' = answers
  PROVE  Still(c)
<1>1. \A q \in Range(sent[c]) : q \in Reqs
  <2>1. sent[c] \in Seq(Reqs)
    BY Known
  <2>. QED BY <2>1 DEF Range
<1>. QED BY <1>1 DEF Still, Answered

\* No step answers a request of a connection that is gone, sends on it, or tells it of a halt.
LEMMA StillStep ==
  ASSUME RemoteAssumption, IInv, Next, NEW c \in Conns, conn[c] = "gone"
  PROVE  Still(c)
<1>. USE DEF scopeVars
<1>1. EndsInv /\ SentInv /\ HeardInv /\ Typed /\ ~IsOpen(c)
  BY DEF IInv, EndsInv, IsOpen
<1>2. UNCHANGED <<told, sent, answers>> => Still(c)
  BY DEF Still
<1>3. ASSUME NEW d \in Conns, Connect(d) \/ Disconnect(d) \/ PostStart(d) PROVE Still(c)
  BY <1>2, <1>3 DEF Connect, Disconnect, PostStart
<1>4. ASSUME NEW d \in Conns, ConnectTimeout(d) PROVE Still(c)
  <2>1. HaltRemote({d}, "frame") /\ sent' = sent /\ IsOpen(d)
    BY <1>4 DEF ConnectTimeout, IsOpen
  <2>. QED BY <1>1, <2>1, HaltStill
<1>5. ASSUME NEW d \in Conns, NEW r \in Reqs, Send(d, r) PROVE Still(c)
  <2>1. r \notin Range(sent[c]) /\ told' = told
    BY <1>5 DEF Send
  <2>2. CASE IsOpen(d)
    <3>1. answers' = answers /\ sent' = [sent EXCEPT ![d] = Append(@, r)] /\ d # c
      BY <1>1, <1>5, <2>2 DEF Send
    <3>2. sent'[c] = sent[c]
      BY <1>1, <3>1, Known
    <3>. QED BY <2>1, <3>1, <3>2 DEF Still
  <2>3. CASE ~IsOpen(d)
    <3>1. answers' = Answered({r}, "closed") /\ sent' = sent
      BY <1>5, <2>3 DEF Send
    <3>. QED BY <1>1, <2>1, <3>1, AnswerStill
  <2>. QED BY <2>2, <2>3
<1>6. ASSUME NEW r, r \in flight, NEW a, FailSend(r, a), UNCHANGED <<told, sent>> PROVE Still(c)
  <2>1. r \in Range(sent[c]) => answers' = answers
    <3>1. r \in Range(sent[c]) => Sender(r) = c
      BY <1>1, <1>6, PlacesAre
    <3>. QED BY <1>1, <1>6, <3>1 DEF FailSend
  <2>. QED BY <1>1, <1>6, <2>1, AnswerStill DEF FailSend
<1>7. ASSUME NEW r \in Reqs, SendTimeout(r) PROVE Still(c)
  BY <1>6, <1>7 DEF SendTimeout
<1>8. CASE FailWait
  <2>1. HaltRemote(WaitingConns, "frame") /\ sent' = sent
    BY <1>8 DEF FailWait
  <2>2. \A d \in WaitingConns : d \in Conns /\ IsOpen(d)
    BY DEF WaitingConns, IsOpen
  <2>. QED BY <1>1, <2>1, <2>2, HaltStill
<1>9. CASE PostSends \/ Boot \/ FrameReady \/ HearConnected
  BY <1>2, <1>9 DEF PostSends, Boot, FrameReady, HearConnected
<1>10. ASSUME NEW d \in Conns, NEW r \in Reqs, ScopeHears \/ ChainAnswers(d, r) \/ ChainHalts \/ ReleaseScope
       PROVE  Still(c)
  BY <1>2, <1>10 DEF ScopeHears, HearStart, HearStop, HearSend, ChainAnswers, ChainHalts, ReleaseScope, pageVars
<1>11. CASE HearAnswer
  <2>1. PICK d, r : d = Heard.conn /\ r = Heard.req
    OBVIOUS
  <2>2. /\ UNCHANGED <<sent, told>> /\ answers' = IF IsOpen(d) THEN Answered({r}, Heard.kind) ELSE answers
    BY <1>11, <2>1 DEF HearAnswer
  <2>3. Hears({"answer", "halted"}) /\ Heard \in PageMessage /\ Heard.kind \in {"answer", "halted"}
    BY <1>1, <1>11, HearsIs DEF HearAnswer
  <2>4. d \in Conns /\ r \in Reqs /\ Heard \in Answers(d, r)
    BY <2>1, <2>3, PageMessageIs DEF Answers
  <2>5. On(toPage, Heard)
    BY <1>1, <2>3, HearsIs
  <2>6. r \in Range(reached[d])
    BY <1>1, <2>4, <2>5, PlacesAre DEF Answering
  <2>7. r \in Range(sent[c]) => d = c
    BY <1>1, <2>4, <2>6, PlacesAre
  <2>. QED BY <1>1, <2>2, <2>7, AnswerStill
<1>12. CASE HearEnd
  <2>1. PICK d, reason : d = Heard.conn /\ reason = IF Heard.kind = "end" THEN "chain" ELSE "frame"
    OBVIOUS
  <2>2. HaltRemote({d} \cap {e \in Conns : IsOpen(e)}, reason) /\ sent' = sent
    BY <1>12, <2>1 DEF HearEnd
  <2>. QED BY <1>1, <2>2, HaltStill
<1>13. CASE HearReply
  <2>1. UNCHANGED <<told, sent>>
    BY <1>13 DEF HearReply
  <2>2. CASE Heard.kind = "refuse" /\ Heard.req \in flight
    <3>1. FailSend(Heard.req, "refused")
      BY <1>13, <2>2 DEF HearReply
    <3>. QED BY <1>6, <2>1, <2>2, <3>1
  <2>3. CASE ~(Heard.kind = "refuse" /\ Heard.req \in flight)
    <3>1. answers' = answers
      BY <1>13, <2>3 DEF HearReply
    <3>. QED BY <1>2, <2>1, <3>1
  <2>. QED BY <2>2, <2>3
<1>14. CASE HearLost \/ FrameDown
  <2>1. HaltRemote({d \in Conns : IsOpen(d)}, "frame") /\ sent' = sent
    BY <1>14 DEF HearLost, FrameDown, LoseFrame
  <2>. QED BY <1>1, <2>1, HaltStill
<1>15. 1 \in Conns /\ 1 \in Reqs
  BY DEF RemoteAssumption, Conns, Reqs
<1>16. CASE TurnEnds
  BY <1>3, <1>8, <1>9, <1>16 DEF TurnEnds
<1>17. CASE PageHears
  BY <1>9, <1>11, <1>12, <1>13, <1>14, <1>17 DEF PageHears
<1>18. CASE ScopeHears \/ ChainHalts \/ ReleaseScope
  BY <1>10, <1>15, <1>18
<1>. QED BY <1>3, <1>4, <1>5, <1>7, <1>9, <1>10, <1>14, <1>16, <1>17, <1>18 DEF Next

\* A connection that is gone hears nothing more: it is told of no halt, takes no send, and none of the requests
\* it sent while it was open is answered, whatever of it is still on its way.
THEOREM RemoteGoneIsQuiet == Spec => GoneIsQuiet
<1>. DEFINE Quiet == \A c \in Conns : conn[c] = "gone" =>
                       /\ told'[c] = told[c] /\ sent'[c] = sent[c]
                       /\ \A r \in Range(sent[c]) : answers'[r] = answers[r]
<1>1. IInv /\ [Next]_vars => [Quiet]_vars
  <2>. SUFFICES ASSUME IInv, Next PROVE Quiet
    OBVIOUS
  <2>. QED BY StillStep, RemoteAssumption DEF Still
<1>2. Spec => []IInv
  BY RemoteInvariant
<1>. QED BY <1>1, <1>2, PTL DEF Spec, GoneIsQuiet

=============================================================================
