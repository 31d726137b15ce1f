---------------------- MODULE PausableTransportProofs ----------------------
(***************************************************************************)
(* Theorems about PausableTransport, for any number of requests, pauses    *)
(* and transport connections.                                              *)
(*                                                                         *)
(* KeepInv says where each request is: in the one queue of its phase, owed *)
(* an answer by a pause, or answered; and that what the open connection    *)
(* answers it has read, once.  It gives RequestsAreKept.                   *)
(*                                                                         *)
(* HoldInv relates the subscriptions the consumer holds to the node: those *)
(* of the open connection to the ids it issued, those of an earlier one to *)
(* the closed ids and to the stops a pause still owes.  It gives           *)
(* HoldingsAgree, where ids stay apart (StaysApart).                       *)
(***************************************************************************)
EXTENDS PausableTransport, FiniteSetTheorems, SequenceTheorems, WellFoundedInduction, TLAPS

----------------------------------------------------------------------------
(* Sequences, and the places of a queue in order. *)

LEMMA HeadTail ==
  ASSUME NEW S, NEW s \in Seq(S), s # <<>>
  PROVE  /\ Head(s) \in S /\ Head(s) = s[1] /\ 1 \in DOMAIN s /\ Len(s) \in Nat
         /\ Tail(s) \in Seq(S) /\ Len(Tail(s)) = Len(s) - 1
         /\ \A i \in 1 .. Len(s) - 1 : Tail(s)[i] = s[i + 1]
OBVIOUS

LEMMA Appended ==
  ASSUME NEW S, NEW s \in Seq(S), NEW x \in S
  PROVE  /\ Append(s, x) \in Seq(S) /\ Len(Append(s, x)) = Len(s) + 1 /\ Len(s) \in Nat
         /\ Append(s, x)[Len(s) + 1] = x
         /\ \A i \in 1 .. Len(s) : Append(s, x)[i] = s[i]
OBVIOUS

LEMMA RemoveAtRemoves ==
  ASSUME NEW S, NEW s \in Seq(S), NEW k \in 1 .. Len(s)
  PROVE  /\ RemoveAt(s, k) \in Seq(S) /\ Len(RemoveAt(s, k)) = Len(s) - 1
         /\ \A i \in 1 .. Len(s) - 1 : RemoveAt(s, k)[i] = IF i < k THEN s[i] ELSE s[i + 1]
<1>1. PICK n \in Nat : n = Len(s)
  OBVIOUS
<1>2. \A i \in 1 .. n : s[i] \in S
  BY <1>1
<1>3. PICK a : a = SubSeq(s, 1, k - 1)
  OBVIOUS
<1>4. /\ a \in Seq(S) /\ Len(a) = k - 1
      /\ \A i \in 1 .. k - 1 : a[i] = s[i]
  <2>1. \A i \in 1 .. k - 1 : s[i] \in S
    BY <1>1, <1>2
  <2>2. 1 \in Int /\ k - 1 \in Int
    OBVIOUS
  <2> QED BY <1>1, <1>3, <2>1, <2>2, SubSeqProperties
<1>5. PICK b : b = SubSeq(s, k + 1, n)
  OBVIOUS
<1>6. /\ b \in Seq(S) /\ Len(b) = n - k
      /\ \A i \in 1 .. n - k : b[i] = s[k + i]
  <2>1. \A i \in k + 1 .. n : s[i] \in S
    BY <1>1, <1>2
  <2>2. k + 1 \in Int /\ n \in Int
    BY <1>1
  <2>3. /\ b \in Seq(S) /\ Len(b) = IF k + 1 <= n THEN n - (k + 1) + 1 ELSE 0
        /\ \A i \in 1 .. n - (k + 1) + 1 : b[i] = s[(k + 1) + i - 1]
    BY <1>5, <2>1, <2>2, SubSeqProperties
  <2> QED BY <1>1, <2>3
<1>7. RemoveAt(s, k) = a \o b
  BY <1>1, <1>3, <1>5 DEF RemoveAt
<1>8. a \o b \in Seq(S) /\ Len(a \o b) = n - 1
  BY <1>1, <1>4, <1>6
<1>9. ASSUME NEW i \in 1 .. n - 1 PROVE (a \o b)[i] = IF i < k THEN s[i] ELSE s[i + 1]
  <2>1. CASE i < k
    BY <1>1, <1>4, <1>6, <2>1
  <2>2. CASE ~(i < k)
    <3>1. i - (k - 1) \in 1 .. n - k /\ (a \o b)[i] = b[i - (k - 1)]
      BY <1>1, <1>4, <1>6, <2>2
    <3>2. b[i - (k - 1)] = s[k + (i - (k - 1))] /\ k + (i - (k - 1)) = i + 1
      BY <1>1, <1>6, <3>1
    <3> QED BY <2>2, <3>1, <3>2
  <2> QED BY <2>1, <2>2
<1> QED BY <1>1, <1>7, <1>8, <1>9

LEMMA Joined ==
  ASSUME NEW S, NEW a \in Seq(S), NEW b \in Seq(S)
  PROVE  /\ a \o b \in Seq(S) /\ Len(a \o b) = Len(a) + Len(b) /\ Len(a) \in Nat /\ Len(b) \in Nat
         /\ \A i \in 1 .. Len(a) : (a \o b)[i] = a[i]
         /\ \A i \in 1 .. Len(b) : (a \o b)[Len(a) + i] = b[i]
         /\ \A i \in 1 .. Len(a \o b) : \/ i \in 1 .. Len(a) /\ (a \o b)[i] = a[i]
                                        \/ i - Len(a) \in 1 .. Len(b) /\ (a \o b)[i] = b[i - Len(a)]
<1>1. a \o b \in Seq(S) /\ Len(a \o b) = Len(a) + Len(b) /\ Len(a) \in Nat /\ Len(b) \in Nat
  OBVIOUS
<1>2. \A i \in 1 .. Len(a) : (a \o b)[i] = a[i]
  OBVIOUS
<1>3. \A i \in 1 .. Len(b) : (a \o b)[Len(a) + i] = b[i]
  OBVIOUS
<1>4. ASSUME NEW i \in 1 .. Len(a \o b), i \notin 1 .. Len(a)
      PROVE  i - Len(a) \in 1 .. Len(b) /\ (a \o b)[i] = b[i - Len(a)]
  <2>1. i - Len(a) \in 1 .. Len(b) /\ Len(a) + (i - Len(a)) = i
    BY <1>1, <1>4
  <2> QED BY <1>3, <2>1
<1> QED BY <1>1, <1>2, <1>3, <1>4

\* The places of a tail and of a sequence with one more at the end.
LEMMA TailPlaces ==
  ASSUME NEW S, NEW s \in Seq(S), s # <<>>, NEW t, t = Tail(s)
  PROVE  /\ t \in Seq(S) /\ Head(s) = s[1] /\ s[1] \in S /\ 1 \in DOMAIN s
         /\ \A i \in DOMAIN t : i \in Nat /\ i + 1 \in DOMAIN s /\ i + 1 # 1 /\ t[i] = s[i + 1]
         /\ \A i \in DOMAIN s : i \in Nat /\ (i # 1 => i - 1 \in DOMAIN t /\ t[i - 1] = s[i])
<1>1. PICK N \in Nat : N = Len(s) /\ DOMAIN s = 1 .. N
  OBVIOUS
<1>2. /\ t \in Seq(S) /\ DOMAIN t = 1 .. N - 1 /\ Head(s) = s[1] /\ 1 \in 1 .. N /\ Head(s) \in S
      /\ \A i \in 1 .. N - 1 : t[i] = s[i + 1]
  BY <1>1, HeadTail
<1>3. \A i \in 1 .. N - 1 : i \in Nat /\ i + 1 \in 1 .. N /\ i + 1 # 1
  BY <1>1
<1>4. \A i \in 1 .. N : i \in Nat /\ (i # 1 => i - 1 \in 1 .. N - 1 /\ (i - 1) + 1 = i)
  BY <1>1
<1>5. \A i \in 1 .. N : i # 1 => t[i - 1] = s[i]
  BY <1>2, <1>4
<1> QED BY <1>1, <1>2, <1>3, <1>4, <1>5

LEMMA AppendPlaces ==
  ASSUME NEW S, NEW s \in Seq(S), NEW x \in S, NEW t, t = Append(s, x)
  PROVE  /\ t \in Seq(S) /\ Len(s) + 1 \in DOMAIN t /\ t[Len(s) + 1] = x /\ Len(s) + 1 \notin DOMAIN s
         /\ \A i \in DOMAIN s : i \in DOMAIN t /\ t[i] = s[i] /\ i < Len(s) + 1
         /\ \A i \in DOMAIN t : i = Len(s) + 1 \/ i \in DOMAIN s
<1>1. PICK N \in Nat : N = Len(s) /\ DOMAIN s = 1 .. N
  OBVIOUS
<1>2. t \in Seq(S) /\ DOMAIN t = 1 .. N + 1 /\ t[N + 1] = x /\ \A i \in 1 .. N : t[i] = s[i]
  BY <1>1, Appended
<1>3. N + 1 \in 1 .. N + 1 /\ N + 1 \notin 1 .. N
  BY <1>1
<1>4. \A i \in 1 .. N : i \in 1 .. N + 1 /\ i < N + 1
  BY <1>1
<1>5. \A i \in 1 .. N + 1 : i = N + 1 \/ i \in 1 .. N
  BY <1>1
<1> QED BY <1>1, <1>2, <1>3, <1>4, <1>5

LEMMA LeastNatural ==
  ASSUME NEW S \in SUBSET Nat, S # {}
  PROVE  \E x \in S : \A y \in S : x <= y
<1>1. \E x \in S : \A y \in S : ~ (<<y, x>> \in OpToRel(<, Nat))
  BY NatLessThanWellFounded, WFMin
<1>2. PICK x \in S : \A y \in S : ~ (<<y, x>> \in OpToRel(<, Nat))
  BY <1>1
<1>3. ASSUME NEW y \in S PROVE x <= y
  <2>1. ~ (y < x)
    BY <1>2 DEF OpToRel
  <2> QED BY <2>1
<1> QED BY <1>3

Arranges(s, at) ==
  /\ s \in [1 .. Cardinality(at) -> at]
  /\ \A i, j \in 1 .. Cardinality(at) : i < j => s[i] < s[j]

\* A set of places can be put in order.
LEMMA HasOrder ==
  ASSUME NEW N \in Nat, NEW at \in SUBSET (1 .. N)
  PROVE  \E s : Arranges(s, at)
<1> DEFINE Upto(k) == at \cap (1 .. k)
           Not == {k \in 0 .. N : ~ \E s : Arranges(s, Upto(k))}
<1>1. Upto(N) = at
  OBVIOUS
<1> SUFFICES ASSUME Not # {} PROVE FALSE
  BY <1>1
<1>2. PICK k \in Not : \A y \in Not : k <= y
  <2>1. Not \in SUBSET Nat
    OBVIOUS
  <2> HIDE DEF Not
  <2> QED BY <2>1, LeastNatural
<1>3. k # 0
  <2>1. Upto(0) = {}
    OBVIOUS
  <2>2. Arranges(<<>>, Upto(0))
    BY <2>1, FS_EmptySet DEF Arranges
  <2> QED BY <1>2, <2>2
<1>4. PICK last : last = k - 1
  OBVIOUS
<1>5. last \in Nat /\ last \in 0 .. N /\ last \notin Not /\ k = last + 1 /\ k \in 1 .. N
  <2>1. k \in 0 .. N
    OBVIOUS
  <2>2. last \in 0 .. N /\ k = last + 1 /\ k \in 1 .. N /\ ~(k <= last)
    BY <1>3, <1>4, <2>1
  <2> HIDE DEF Not
  <2> QED BY <1>2, <2>2
<1>6. PICK T : T = Upto(last)
  OBVIOUS
<1>7. PICK s : Arranges(s, T)
  BY <1>5, <1>6
<1>8. PICK U : U = Upto(k)
  OBVIOUS
<1>9. U = (IF k \in at THEN T \cup {k} ELSE T) /\ k \notin T /\ T \subseteq U
  BY <1>5, <1>6, <1>8
<1>10. IsFiniteSet(T) /\ \A x \in T : x \in 1 .. last
  <2>1. IsFiniteSet(1 .. last) /\ T \in SUBSET (1 .. last)
    BY <1>5, <1>6, FS_Interval
  <2> QED BY <2>1, FS_Subset
<1>11. PICK n \in Nat : n = Cardinality(T)
  BY <1>10, FS_CardinalityType
<1>12. CASE k \notin at
  BY <1>2, <1>7, <1>8, <1>9, <1>12
<1>13. CASE k \in at
  <2>1. U = T \cup {k} /\ Cardinality(U) = n + 1
    BY <1>9, <1>10, <1>11, <1>13, FS_AddElement
  <2>2. s \in [1 .. n -> T] /\ \A i, j \in 1 .. n : i < j => s[i] < s[j]
    BY <1>7, <1>11 DEF Arranges
  <2>3. PICK all : all = [i \in 1 .. n + 1 |-> IF i = n + 1 THEN k ELSE s[i]]
    OBVIOUS
  <2>4. all \in [1 .. n + 1 -> U]
    BY <2>1, <2>2, <2>3
  <2>5. ASSUME NEW i \in 1 .. n + 1, NEW j \in 1 .. n + 1, i < j PROVE all[i] < all[j]
    <3>1. i \in 1 .. n /\ all[i] = s[i] /\ s[i] \in 1 .. last
      BY <1>10, <2>2, <2>3, <2>5
    <3>2. CASE j = n + 1
      BY <1>5, <2>3, <3>1, <3>2
    <3>3. CASE j # n + 1
      BY <2>2, <2>3, <2>5, <3>1, <3>3
    <3> QED BY <3>2, <3>3
  <2>6. Arranges(all, U)
    BY <2>1, <2>4, <2>5 DEF Arranges
  <2> QED BY <1>2, <1>8, <2>6
<1> QED BY <1>12, <1>13

\* InOrder lists every place.
LEMMA InOrderLists ==
  ASSUME NEW N \in Nat, NEW at \in SUBSET (1 .. N)
  PROVE  /\ Cardinality(at) \in Nat
         /\ InOrder(at) \in [1 .. Cardinality(at) -> at]
         /\ \A i, j \in 1 .. Cardinality(at) : i < j => InOrder(at)[i] < InOrder(at)[j]
         /\ \A k \in at : \E i \in 1 .. Cardinality(at) : InOrder(at)[i] = k
<1>1. IsFiniteSet(at)
  <2>1. IsFiniteSet(1 .. N)
    BY FS_Interval
  <2> QED BY <2>1, FS_Subset
<1>2. PICK n \in Nat : n = Cardinality(at)
  BY <1>1, FS_CardinalityType
<1>3. PICK f : f = InOrder(at)
  OBVIOUS
<1>4. f \in [1 .. n -> at] /\ \A i, j \in 1 .. n : i < j => f[i] < f[j]
  <2>1. PICK s : Arranges(s, at)
    BY HasOrder
  <2>2. \E x \in [1 .. Cardinality(at) -> at] : \A i, j \in DOMAIN x : i < j => x[i] < x[j]
    BY <2>1 DEF Arranges
  <2>3. /\ f \in [1 .. Cardinality(at) -> at]
        /\ \A i, j \in DOMAIN f : i < j => f[i] < f[j]
    BY <1>3, <2>2 DEF InOrder
  <2> QED BY <1>2, <2>3
<1>5. f \in Injection(1 .. n, at)
  <2>1. ASSUME NEW i \in 1 .. n, NEW j \in 1 .. n, f[i] = f[j] PROVE i = j
    <3>1. f[i] \in 1 .. N /\ f[j] \in 1 .. N
      BY <1>4
    <3>2. ~(i < j) /\ ~(j < i)
      BY <1>4, <2>1, <3>1
    <3> QED BY <3>2
  <2> QED BY <1>4, <2>1 DEF Injection, IsInjective
<1>6. f \in Surjection(1 .. n, at)
  <2>1. Cardinality(1 .. n) = n
    BY FS_Interval
  <2> QED BY <1>1, <1>2, <1>5, <2>1, FS_Injection
<1> QED BY <1>2, <1>3, <1>4, <1>6 DEF Surjection

\* Picked takes the entries at those places, in their order.
LEMMA PickedPicks ==
  ASSUME NEW S, NEW queue \in Seq(S), NEW at \in SUBSET DOMAIN queue
  PROVE  \E f : LET p == Picked(queue, at) IN
           /\ p \in Seq(S) /\ Len(p) \in Nat
           /\ f \in [1 .. Len(p) -> at]
           /\ \A i \in 1 .. Len(p) : p[i] = queue[f[i]]
           /\ \A i, j \in 1 .. Len(p) : i < j => f[i] < f[j]
           /\ \A k \in at : \E i \in 1 .. Len(p) : f[i] = k
<1>1. PICK N \in Nat : N = Len(queue) /\ DOMAIN queue = 1 .. N
  OBVIOUS
<1>2. PICK n : n = Cardinality(at)
  OBVIOUS
<1>3. PICK f : f = InOrder(at)
  OBVIOUS
<1>4. /\ n \in Nat /\ f \in [1 .. n -> at]
      /\ \A i, j \in 1 .. n : i < j => f[i] < f[j]
      /\ \A k \in at : \E i \in 1 .. n : f[i] = k
  BY <1>1, <1>2, <1>3, InOrderLists
<1>5. PICK p : p = [i \in 1 .. n |-> queue[f[i]]]
  OBVIOUS
<1>6. p = Picked(queue, at)
  BY <1>2, <1>3, <1>5 DEF Picked
<1>7. p \in [1 .. n -> S]
  <2>1. \A i \in 1 .. n : f[i] \in DOMAIN queue
    BY <1>4
  <2>2. \A k \in DOMAIN queue : queue[k] \in S
    BY <1>1
  <2> QED BY <1>5, <2>1, <2>2
<1>8. p \in Seq(S) /\ Len(p) = n
  BY <1>4, <1>7
<1> QED BY <1>4, <1>5, <1>6, <1>8

\* What SetToSeq returns lists every element.
LEMMA SetToSeqLists ==
  ASSUME NEW S, IsFiniteSet(S)
  PROVE  /\ SetToSeq(S) \in Seq(S) /\ Len(SetToSeq(S)) \in Nat
         /\ \A x \in S : \E i \in 1 .. Len(SetToSeq(S)) : SetToSeq(S)[i] = x
<1>1. PICK n \in Nat : n = Cardinality(S) /\ ExistsBijection(1 .. n, S)
  BY FS_CardinalityType
<1>2. PICK f : f = SetToSeq(S)
  OBVIOUS
<1>3. f \in [1 .. n -> S] /\ IsInjective(f)
  <2>1. \E g \in [1 .. n -> S] : IsInjective(g)
    BY <1>1 DEF ExistsBijection, Bijection, Injection
  <2> QED BY <1>1, <1>2, <2>1 DEF SetToSeq
<1>4. f \in Surjection(1 .. n, S)
  <2>1. Cardinality(1 .. n) = n
    BY FS_Interval
  <2>2. f \in Injection(1 .. n, S)
    BY <1>3 DEF Injection
  <2> QED BY <1>1, <2>1, <2>2, FS_Injection
<1>5. f \in Seq(S) /\ Len(f) = n
  BY <1>3
<1> QED BY <1>1, <1>2, <1>4, <1>5 DEF Surjection

----------------------------------------------------------------------------
(* The invariant of the requests. *)

Tokens == Nat \X Nat
Names == Tokens \cup {None}
Calls == Methods \cup {"release"}
Requests == [n : Nat, method : Calls, token : Names, of : Nat]
Works == [do : {"stop"}, gen : Nat, token : Tokens] \cup [do : {"answer"}, n : Nat]
Messages == [msg : {"answer"}, gen : Nat, n : Nat, token : Names]
            \cup [msg : {"stop"}, gen : Nat, token : Tokens]
Subs == [token : Tokens, kind : Opening \cap Methods]
Holdings == [gen : Nat, token : Tokens, kind : Opening \cap Methods]
Askings == [method : Calls, answers : Nat]

Shapes ==
  /\ paused \in BOOLEAN /\ conn \in {"open", "left"} /\ generation \in Nat
  /\ inFlight \in Seq(Requests) /\ kept \in Seq(Requests) /\ held \in Seq(Requests)
  /\ follows \in SUBSET Tokens /\ openedIds \in SUBSET Tokens /\ closedIds \in SUBSET Tokens
  /\ IsFiniteSet(follows)
  /\ work \in Seq(Works) /\ toNode \in Seq(Requests) /\ fromNode \in Seq(Messages)
  /\ node \in [subs : SUBSET Subs, issued : Nat]
  /\ asked \in Seq(Askings) /\ holds \in SUBSET Holdings

Phases ==
  /\ upstream \in {0, generation}
  /\ upstream # 0 => kept = <<>> /\ held = <<>> /\ ~paused /\ conn = "open"
  /\ upstream = 0 => inFlight = <<>> /\ toNode = <<>> /\ follows = {} /\ openedIds = {} /\ node.subs = {}
  /\ conn = "left" => kept = <<>> /\ held = <<>> /\ closedIds = {}

\* What a pause owes an answer.
Owed == {work[i].n : i \in {j \in DOMAIN work : work[j].do = "answer"}}
Waiting == Ids(inFlight) \cup Ids(Resent)

Lined == Sorted(inFlight) /\ Sorted(Resent) /\ Sorted(toNode)

\* The requests of a queue are those that were asked.
Match(queue, requests) ==
  \A i \in DOMAIN queue : queue[i].n \in DOMAIN requests /\ queue[i].method = requests[queue[i].n].method

Known ==
  /\ Match(inFlight, asked) /\ Match(Resent, asked) /\ Match(toNode, asked)
  /\ Ids(toNode) \subseteq Ids(inFlight) /\ Owed \subseteq DOMAIN asked

Answered ==
  /\ \A n \in DOMAIN asked : asked[n].answers \in {0, 1}
  /\ conn = "open" => /\ \A n \in DOMAIN asked : asked[n].answers = 0 <=> n \in Waiting \cup Owed
                      /\ Owed \cap Waiting = {}
                      /\ \A i, j \in DOMAIN work : work[i].do = "answer" /\ work[i] = work[j] => i = j

\* An answer of the open connection.
Answers(i) == fromNode[i].msg = "answer" /\ fromNode[i].gen = generation

Channel ==
  /\ \A i \in DOMAIN fromNode : /\ fromNode[i].gen <= generation
                                /\ fromNode[i].gen = generation => upstream # 0
  /\ \A i \in DOMAIN fromNode : Answers(i) =>
       /\ fromNode[i].n \in Ids(inFlight) /\ fromNode[i].n \notin Ids(toNode)
       /\ fromNode[i].token # None => asked[fromNode[i].n].method \in Opening \cap Methods
  /\ \A i, j \in DOMAIN fromNode : Answers(i) /\ Answers(j) /\ fromNode[i].n = fromNode[j].n => i = j

KeepInv == Shapes /\ Phases /\ Lined /\ Known /\ Answered /\ Channel

----------------------------------------------------------------------------
(* The invariant of the holdings. *)

StaysApart == ~Reuses \/ "watch" \notin Methods

\* The connection an id names, where connections do not issue the same ones.
Tag(gen) == IF Reuses THEN 0 ELSE gen
Given == {Issued(i) : i \in 1 .. node.issued}
\* Opened by the open connection.
Ours(h) == h.gen = generation
Stops(i, token) == fromNode[i].msg = "stop" /\ fromNode[i].gen = generation /\ fromNode[i].token = token

Tagged ==
  /\ \A h \in holds : h.gen <= generation /\ h.token[1] = Tag(h.gen)
  /\ openedIds \subseteq Given /\ follows \subseteq openedIds
  /\ work # <<>> => openedIds = {}
  /\ \A i \in DOMAIN work : work[i].do = "stop" => work[i].gen < generation
  /\ \A h, x \in holds : h.token = x.token => h = x

Present ==
  \A h \in holds : Ours(h) =>
    /\ upstream # 0 /\ h.token \in openedIds
    /\ h.kind = "follow" => /\ h.token \in follows
                            /\ \/ \E x \in node.subs : x.token = h.token
                               \/ \E i \in DOMAIN fromNode : Stops(i, h.token)

Past ==
  conn = "open" => \A h \in holds : ~Ours(h) =>
    /\ h.token \in closedIds
    /\ h.kind = "follow" => \E i \in DOMAIN work : work[i].do = "stop" /\ work[i].gen = h.gen
                                                   /\ work[i].token = h.token

\* The ids in the answers of the open connection.
Opens(i) == Answers(i) /\ fromNode[i].token # None
Told ==
  /\ \A i \in DOMAIN fromNode : Opens(i) =>
       /\ fromNode[i].token \in Given
       /\ \A h \in holds : Ours(h) => h.token # fromNode[i].token
       /\ asked[fromNode[i].n].method = "follow" =>
            \/ \E x \in node.subs : x.token = fromNode[i].token
            \/ \E j \in DOMAIN fromNode : j > i /\ Stops(j, fromNode[i].token)
  /\ \A i, j \in DOMAIN fromNode : Opens(i) /\ Opens(j) /\ fromNode[i].token = fromNode[j].token => i = j

Running ==
  /\ \A x \in node.subs : x.token \in Given
  /\ \A x, y \in node.subs : x.token = y.token => x = y
  /\ \A i \in DOMAIN fromNode : fromNode[i].msg = "stop" /\ fromNode[i].gen = generation =>
       fromNode[i].token \in Given /\ \A x \in node.subs : x.token # fromNode[i].token

Released ==
  /\ ReleasesGoHome
  /\ \A i \in DOMAIN toNode : toNode[i].method = "release" =>
       /\ toNode[i].token \in Given
       /\ \A h \in holds : Ours(h) => h.token # toNode[i].token
       /\ \A j \in DOMAIN fromNode : Answers(j) => fromNode[j].token # toNode[i].token
  /\ \A i \in DOMAIN Resent : Resent[i].method \notin Releasing

HoldInv == KeepInv /\ Tagged /\ Present /\ Past /\ Told /\ Running /\ Released /\ NoLeak

----------------------------------------------------------------------------
(* Queues of requests. *)

LEMMA QueueAppended ==
  ASSUME NEW queue \in Seq(Requests), NEW q \in Requests, Sorted(queue),
         \A i \in DOMAIN queue : queue[i].n < q.n
  PROVE  /\ Append(queue, q) \in Seq(Requests) /\ Sorted(Append(queue, q))
         /\ Ids(Append(queue, q)) = Ids(queue) \cup {q.n}
         /\ \A i \in DOMAIN Append(queue, q) :
              Append(queue, q)[i] = q \/ (i \in DOMAIN queue /\ Append(queue, q)[i] = queue[i])
<1>1. PICK s : s = Append(queue, q)
  OBVIOUS
<1>2. PICK N \in Nat : N = Len(queue) /\ DOMAIN queue = 1 .. N
  OBVIOUS
<1>3. s \in Seq(Requests) /\ DOMAIN s = 1 .. N + 1 /\ s[N + 1] = q /\ \A i \in 1 .. N : s[i] = queue[i]
  BY <1>1, <1>2, Appended
<1>4. Sorted(s)
  <2>1. ASSUME NEW i \in 1 .. N + 1, NEW j \in 1 .. N + 1, i < j PROVE s[i].n < s[j].n
    <3>1. i \in 1 .. N /\ s[i] = queue[i]
      BY <1>2, <1>3, <2>1
    <3>2. CASE j = N + 1
      BY <1>2, <1>3, <3>1, <3>2
    <3>3. CASE j \in 1 .. N
      BY <1>2, <1>3, <2>1, <3>1, <3>3 DEF Sorted
    <3> QED BY <1>2, <3>2, <3>3
  <2> QED BY <1>3, <2>1 DEF Sorted
<1>5. Ids(s) = Ids(queue) \cup {q.n}
  <2>1. \A i \in 1 .. N + 1 : i = N + 1 \/ i \in 1 .. N
    BY <1>2
  <2>2. \A i \in 1 .. N : i \in 1 .. N + 1
    BY <1>2
  <2>3. N + 1 \in 1 .. N + 1
    BY <1>2
  <2> QED BY <1>2, <1>3, <2>1, <2>2, <2>3 DEF Ids
<1>6. ASSUME NEW i \in 1 .. N + 1 PROVE s[i] = q \/ (i \in 1 .. N /\ s[i] = queue[i])
  <2>1. i = N + 1 \/ i \in 1 .. N
    BY <1>2
  <2>2. i = N + 1 => s[i] = q
    BY <1>3
  <2>3. i \in 1 .. N => s[i] = queue[i]
    BY <1>3
  <2> QED BY <2>1, <2>2, <2>3, Zenon
<1> QED BY <1>1, <1>2, <1>3, <1>4, <1>5, <1>6

LEMMA QueueTail ==
  ASSUME NEW queue \in Seq(Requests), queue # <<>>, Sorted(queue)
  PROVE  /\ Tail(queue) \in Seq(Requests) /\ Sorted(Tail(queue)) /\ Head(queue) \in Requests
         /\ Ids(Tail(queue)) = Ids(queue) \ {Head(queue).n}
         /\ Head(queue) = queue[1] /\ 1 \in DOMAIN queue
         /\ \A i \in DOMAIN Tail(queue) : i + 1 \in DOMAIN queue /\ Tail(queue)[i] = queue[i + 1]
         /\ \A i \in DOMAIN queue : i # 1 => i - 1 \in DOMAIN Tail(queue) /\ Tail(queue)[i - 1] = queue[i]
<1>1. PICK s : s = Tail(queue)
  OBVIOUS
<1>2. PICK N \in Nat : N = Len(queue) /\ DOMAIN queue = 1 .. N
  OBVIOUS
<1>3. /\ s \in Seq(Requests) /\ DOMAIN s = 1 .. N - 1 /\ Head(queue) = queue[1] /\ 1 \in 1 .. N
      /\ \A i \in 1 .. N - 1 : s[i] = queue[i + 1]
      /\ Head(queue) \in Requests
  BY <1>1, <1>2, HeadTail
<1>4. \A i \in 1 .. N - 1 : i + 1 \in 1 .. N /\ i + 1 # 1
  BY <1>2
<1>5. \A i \in 1 .. N : i # 1 => i - 1 \in 1 .. N - 1 /\ s[i - 1] = queue[i]
  <2>1. \A i \in 1 .. N : i # 1 => i - 1 \in 1 .. N - 1 /\ (i - 1) + 1 = i
    BY <1>2
  <2> QED BY <1>3, <2>1
<1>6. Sorted(s)
  <2>1. ASSUME NEW i \in 1 .. N - 1, NEW j \in 1 .. N - 1, i < j PROVE s[i].n < s[j].n
    <3>1. i + 1 < j + 1
      BY <1>2, <2>1
    <3> QED BY <1>2, <1>3, <1>4, <3>1 DEF Sorted
  <2> QED BY <1>3, <2>1 DEF Sorted
<1>7. ASSUME NEW i \in 1 .. N, i # 1 PROVE queue[i].n # queue[1].n
  <2>1. 1 < i /\ 1 \in 1 .. N
    BY <1>2, <1>7
  <2>2. queue[1].n < queue[i].n /\ queue[i] \in Requests /\ queue[1] \in Requests
    BY <1>2, <2>1 DEF Sorted
  <2> QED BY <2>2 DEF Requests
<1>8. Ids(s) = Ids(queue) \ {queue[1].n}
  <2>1. ASSUME NEW x \in Ids(s) PROVE x \in Ids(queue) \ {queue[1].n}
    <3>1. PICK i \in 1 .. N - 1 : s[i].n = x
      BY <1>3 DEF Ids
    <3> QED BY <1>2, <1>3, <1>4, <1>7, <3>1 DEF Ids
  <2>2. ASSUME NEW x \in Ids(queue), x # queue[1].n PROVE x \in Ids(s)
    <3>1. PICK i \in 1 .. N : queue[i].n = x
      BY <1>2 DEF Ids
    <3>2. i # 1
      BY <2>2, <3>1
    <3> QED BY <1>3, <1>5, <3>1, <3>2 DEF Ids
  <2> QED BY <2>1, <2>2
<1> QED BY <1>1, <1>2, <1>3, <1>4, <1>5, <1>6, <1>8

LEMMA QueueWithout ==
  ASSUME NEW queue \in Seq(Requests), Sorted(queue), NEW n
  PROVE  /\ Without(queue, n) \in Seq(Requests) /\ Sorted(Without(queue, n))
         /\ Ids(Without(queue, n)) = Ids(queue) \ {n}
         /\ \A i \in DOMAIN Without(queue, n) : \E j \in DOMAIN queue : Without(queue, n)[i] = queue[j]
<1>1. CASE n \notin Ids(queue)
  BY <1>1 DEF Without
<1>2. CASE n \in Ids(queue)
  <2>1. PICK N \in Nat : N = Len(queue) /\ DOMAIN queue = 1 .. N
    OBVIOUS
  <2>2. PICK k : k = CHOOSE i \in DOMAIN queue : queue[i].n = n
    OBVIOUS
  <2>3. k \in 1 .. N /\ queue[k].n = n
    <3>1. \E i \in DOMAIN queue : queue[i].n = n
      BY <1>2 DEF Ids
    <3> QED BY <2>1, <2>2, <3>1
  <2>4. PICK s : s = RemoveAt(queue, k)
    OBVIOUS
  <2>5. /\ s \in Seq(Requests) /\ DOMAIN s = 1 .. N - 1
        /\ \A i \in 1 .. N - 1 : s[i] = IF i < k THEN queue[i] ELSE queue[i + 1]
    BY <2>1, <2>3, <2>4, RemoveAtRemoves
  <2>6. Without(queue, n) = s
    BY <1>2, <2>2, <2>4 DEF Without
  <2>7. \A i \in 1 .. N - 1 : i \in 1 .. N /\ i + 1 \in 1 .. N
    BY <2>1
  <2>8. Sorted(s)
    <3>1. ASSUME NEW i \in 1 .. N - 1, NEW j \in 1 .. N - 1, i < j PROVE s[i].n < s[j].n
      <4>1. PICK a \in 1 .. N : a = (IF i < k THEN i ELSE i + 1) /\ s[i] = queue[a]
        BY <2>5, <2>7
      <4>2. PICK b \in 1 .. N : b = (IF j < k THEN j ELSE j + 1) /\ s[j] = queue[b]
        BY <2>5, <2>7
      <4>3. a < b
        BY <2>1, <2>3, <3>1, <4>1, <4>2
      <4> QED BY <2>1, <4>1, <4>2, <4>3 DEF Sorted
    <3> QED BY <2>5, <3>1 DEF Sorted
  <2>9. ASSUME NEW i \in 1 .. N, i # k PROVE queue[i].n # n
    <3>1. queue[i] \in Requests /\ queue[k] \in Requests
      BY <2>1, <2>3
    <3>2. i < k \/ k < i
      BY <2>1, <2>3, <2>9
    <3>3. queue[i].n < queue[k].n \/ queue[k].n < queue[i].n
      BY <2>1, <2>3, <3>2 DEF Sorted
    <3> QED BY <2>3, <3>1, <3>3 DEF Requests
  <2>10. ASSUME NEW i \in 1 .. N, i # k PROVE \E j \in 1 .. N - 1 : s[j] = queue[i]
    <3>1. CASE i < k
      <4>1. i \in 1 .. N - 1
        BY <2>1, <2>3, <3>1
      <4> QED BY <2>5, <3>1, <4>1
    <3>2. CASE k < i
      <4>1. i - 1 \in 1 .. N - 1 /\ ~(i - 1 < k) /\ (i - 1) + 1 = i
        BY <2>1, <2>3, <3>2
      <4> QED BY <2>5, <4>1
    <3> QED BY <2>1, <2>3, <2>10, <3>1, <3>2
  <2>11. ASSUME NEW i \in 1 .. N - 1 PROVE \E j \in 1 .. N : j # k /\ s[i] = queue[j]
    BY <2>1, <2>3, <2>5, <2>7
  <2>12. Ids(s) = Ids(queue) \ {n}
    <3>1. ASSUME NEW x \in Ids(s) PROVE x \in Ids(queue) /\ x # n
      <4>1. PICK i \in 1 .. N - 1 : s[i].n = x
        BY <2>5 DEF Ids
      <4>2. PICK j \in 1 .. N : j # k /\ s[i] = queue[j]
        BY <2>11
      <4> QED BY <2>1, <2>9, <4>1, <4>2 DEF Ids
    <3>2. ASSUME NEW x \in Ids(queue), x # n PROVE x \in Ids(s)
      <4>1. PICK i \in 1 .. N : queue[i].n = x
        BY <2>1 DEF Ids
      <4>2. i # k
        BY <2>3, <3>2, <4>1
      <4>3. PICK j \in 1 .. N - 1 : s[j] = queue[i]
        BY <2>10, <4>2
      <4> QED BY <2>5, <4>1, <4>3 DEF Ids
    <3> QED BY <3>1, <3>2
  <2> QED BY <2>1, <2>5, <2>6, <2>8, <2>11, <2>12
<1> QED BY <1>1, <1>2

LEMMA QueuePicked ==
  ASSUME NEW queue \in Seq(Requests), Sorted(queue), NEW at \in SUBSET DOMAIN queue
  PROVE  /\ Picked(queue, at) \in Seq(Requests) /\ Sorted(Picked(queue, at))
         /\ \A i \in DOMAIN Picked(queue, at) : \E k \in at : Picked(queue, at)[i] = queue[k]
         /\ \A k \in at : \E i \in DOMAIN Picked(queue, at) : Picked(queue, at)[i] = queue[k]
<1>1. PICK p : p = Picked(queue, at)
  OBVIOUS
<1>2. PICK f : /\ p \in Seq(Requests) /\ Len(p) \in Nat
               /\ f \in [1 .. Len(p) -> at]
               /\ \A i \in 1 .. Len(p) : p[i] = queue[f[i]]
               /\ \A i, j \in 1 .. Len(p) : i < j => f[i] < f[j]
               /\ \A k \in at : \E i \in 1 .. Len(p) : f[i] = k
  BY <1>1, PickedPicks
<1>3. PICK n \in Nat : n = Len(p) /\ DOMAIN p = 1 .. n
  BY <1>2
<1>4. ASSUME NEW i \in 1 .. n, NEW j \in 1 .. n, i < j PROVE p[i].n < p[j].n
  <2>1. f[i] \in DOMAIN queue /\ f[j] \in DOMAIN queue /\ f[i] < f[j]
    BY <1>2, <1>3, <1>4
  <2>2. queue[f[i]].n < queue[f[j]].n
    BY <2>1 DEF Sorted
  <2> QED BY <1>2, <1>3, <2>2
<1>5. Sorted(p)
  BY <1>3, <1>4 DEF Sorted
<1>6. \A i \in 1 .. n : f[i] \in at /\ p[i] = queue[f[i]]
  BY <1>2, <1>3
<1>7. \A i \in 1 .. n : \E k \in at : p[i] = queue[k]
  BY <1>6
<1>8. \A k \in at : \E i \in 1 .. n : p[i] = queue[k]
  BY <1>2, <1>3, <1>6
<1> QED BY <1>1, <1>2, <1>3, <1>5, <1>7, <1>8

\* Each request of a queue has a place of its own.
LEMMA OnePlace ==
  ASSUME NEW queue \in Seq(Requests), Sorted(queue),
         NEW i \in DOMAIN queue, NEW j \in DOMAIN queue, queue[i].n = queue[j].n
  PROVE  i = j
<1>1. queue[i] \in Requests /\ queue[j] \in Requests /\ i \in Nat /\ j \in Nat
  OBVIOUS
<1>2. ~(i < j) /\ ~(j < i)
  BY <1>1 DEF Sorted, Requests
<1> QED BY <1>1, <1>2

----------------------------------------------------------------------------
(* Where the requests are. *)

LEMMA RequestsAreAsked ==
  ASSUME Shapes, Known
  PROVE  /\ Ids(inFlight) \subseteq DOMAIN asked /\ Ids(toNode) \subseteq DOMAIN asked
         /\ Ids(Resent) \subseteq DOMAIN asked /\ Ids(Resent) = Ids(kept) \cup Ids(held)
         /\ Waiting \cup Owed \subseteq DOMAIN asked
         /\ Resent \in Seq(Requests) /\ Len(asked) \in Nat /\ DOMAIN asked = 1 .. Len(asked)
<1>1. Ids(inFlight) \subseteq DOMAIN asked /\ Ids(toNode) \subseteq DOMAIN asked /\ Ids(Resent) \subseteq DOMAIN asked
  BY DEF Known, Match, Ids
<1>2. kept \in Seq(Requests) /\ held \in Seq(Requests) /\ asked \in Seq(Askings)
  BY DEF Shapes
<1>3. Resent \in Seq(Requests)
  BY <1>2, Joined DEF Resent
<1>4. Ids(Resent) = Ids(kept) \cup Ids(held)
  <2>1. PICK r : r = Resent
    OBVIOUS
  <2>2. PICK a \in Nat : a = Len(kept) /\ DOMAIN kept = 1 .. a
    BY <1>2
  <2>3. PICK b \in Nat : b = Len(held) /\ DOMAIN held = 1 .. b
    BY <1>2
  <2>4. /\ Len(r) = a + b /\ DOMAIN r = 1 .. a + b
        /\ \A i \in 1 .. a : r[i] = kept[i]
        /\ \A i \in 1 .. b : r[a + i] = held[i]
        /\ \A i \in 1 .. a + b : \/ i \in 1 .. a /\ r[i] = kept[i]
                                 \/ i - a \in 1 .. b /\ r[i] = held[i - a]
    <3>1. r \in Seq(Requests)
      BY <1>3, <2>1
    <3>2. DOMAIN r = 1 .. Len(r)
      BY <3>1
    <3> QED BY <1>2, <2>1, <2>2, <2>3, <3>2, Joined DEF Resent
  <2>5. \A i \in 1 .. a : i \in 1 .. a + b
    BY <2>2, <2>3
  <2>6. \A i \in 1 .. b : a + i \in 1 .. a + b
    BY <2>2, <2>3
  <2>7. Ids(kept) \subseteq Ids(r)
    BY <2>2, <2>4, <2>5 DEF Ids
  <2>8. Ids(held) \subseteq Ids(r)
    <3>1. ASSUME NEW x \in Ids(held) PROVE x \in Ids(r)
      <4>1. PICK i \in 1 .. b : held[i].n = x
        BY <2>3 DEF Ids
      <4>2. a + i \in DOMAIN r /\ r[a + i].n = x
        BY <2>4, <2>6, <4>1
      <4> QED BY <4>2 DEF Ids
    <3> QED BY <3>1
  <2>9. ASSUME NEW x \in Ids(r) PROVE x \in Ids(kept) \cup Ids(held)
    <3>1. PICK i \in 1 .. a + b : r[i].n = x
      BY <2>4 DEF Ids
    <3>2. CASE i \in 1 .. a /\ r[i] = kept[i]
      BY <2>2, <3>1, <3>2 DEF Ids
    <3>3. CASE i - a \in 1 .. b /\ r[i] = held[i - a]
      BY <2>3, <3>1, <3>3 DEF Ids
    <3> QED BY <2>4, <3>2, <3>3
  <2> QED BY <2>1, <2>7, <2>8, <2>9
<1>5. Owed \subseteq DOMAIN asked
  BY DEF Known
<1>6. Len(asked) \in Nat /\ DOMAIN asked = 1 .. Len(asked)
  BY <1>2
<1> QED BY <1>1, <1>3, <1>4, <1>5, <1>6 DEF Waiting

LEMMA MatchGrows ==
  ASSUME NEW queue, NEW a, NEW b, Match(queue, a),
         \A n \in DOMAIN a : n \in DOMAIN b /\ b[n].method = a[n].method
  PROVE  Match(queue, b)
BY DEF Match

LEMMA AskGrows ==
  ASSUME asked \in Seq(Askings), NEW method \in Calls, NEW answers \in Nat, Ask(method, answers)
  PROVE  /\ asked' \in Seq(Askings) /\ Len(asked) \in Nat
         /\ DOMAIN asked = 1 .. Len(asked) /\ DOMAIN asked' = 1 .. Len(asked) + 1
         /\ asked'[Len(asked) + 1] = [method |-> method, answers |-> answers]
         /\ \A n \in DOMAIN asked : n \in DOMAIN asked' /\ asked'[n] = asked[n]
<1>1. PICK a : a = [method |-> method, answers |-> answers]
  OBVIOUS
<1>2. a \in Askings
  BY <1>1 DEF Askings
<1>3. asked' = Append(asked, a)
  BY <1>1 DEF Ask
<1>4. asked' \in Seq(Askings) /\ Len(asked') = Len(asked) + 1 /\ Len(asked) \in Nat
      /\ asked'[Len(asked) + 1] = a /\ \A i \in 1 .. Len(asked) : asked'[i] = asked[i]
  BY <1>2, <1>3, Appended
<1>5. DOMAIN asked = 1 .. Len(asked) /\ DOMAIN asked' = 1 .. Len(asked) + 1
  BY <1>4
<1>6. \A n \in 1 .. Len(asked) : n \in 1 .. Len(asked) + 1
  BY <1>4
<1> QED BY <1>1, <1>4, <1>5, <1>6

\* The channel, where nothing is delivered and requests are only added.
LEMMA ChannelStays ==
  ASSUME Channel, Known, UNCHANGED <<fromNode, generation, upstream>>,
         Ids(inFlight) \subseteq Ids(inFlight'),
         Ids(toNode') \cap Ids(inFlight) \subseteq Ids(toNode),
         \A n \in DOMAIN asked : asked'[n].method = asked[n].method
  PROVE  Channel'
<1>1. \A i \in DOMAIN fromNode : Answers(i)' <=> Answers(i)
  BY DEF Answers
<1>2. ASSUME NEW i \in DOMAIN fromNode, Answers(i)
      PROVE  /\ fromNode[i].n \in Ids(inFlight') /\ fromNode[i].n \notin Ids(toNode')
             /\ fromNode[i].token # None => asked'[fromNode[i].n].method \in Opening \cap Methods
  <2>1. /\ fromNode[i].n \in Ids(inFlight) /\ fromNode[i].n \notin Ids(toNode)
        /\ fromNode[i].token # None => asked[fromNode[i].n].method \in Opening \cap Methods
    BY <1>2 DEF Channel
  <2>2. fromNode[i].n \in DOMAIN asked
    BY <2>1 DEF Known, Match, Ids
  <2>3. asked'[fromNode[i].n].method = asked[fromNode[i].n].method
    BY <2>2
  <2> QED BY <2>1, <2>3
<1> QED BY <1>1, <1>2 DEF Channel

\* A new connection, or none: what is on its way is no longer heard.
LEMMA ChannelCloses ==
  ASSUME Shapes, Channel, fromNode' = fromNode, generation' = generation + 1
  PROVE  Channel'
<1>1. \A i \in DOMAIN fromNode : fromNode[i].gen \in Nat /\ fromNode[i].gen <= generation /\ generation \in Nat
  <2>1. \A i \in DOMAIN fromNode : fromNode[i] \in Messages
    BY DEF Shapes
  <2> QED BY <2>1 DEF Channel, Messages, Shapes
<1>2. \A i \in DOMAIN fromNode : fromNode[i].gen <= generation' /\ fromNode[i].gen # generation'
  BY <1>1
<1> QED BY <1>2 DEF Channel, Answers

----------------------------------------------------------------------------
(* KeepInv is kept by the consumer. *)

\* What every way a request is sent leaves alone.
SendLeaves == UNCHANGED <<paused, conn, generation, upstream, kept, work, fromNode, node>>

LEMMA LocalKeeps ==
  ASSUME KeepInv, NEW method \in Calls, NEW token, conn = "open", AnswerReleaseLocally(method, token),
         SendLeaves, holds' \in SUBSET Holdings
  PROVE  KeepInv'
<1> USE DEF KeepInv, AnswerReleaseLocally, SendLeaves
<1>1. /\ asked' \in Seq(Askings) /\ Len(asked) \in Nat
      /\ DOMAIN asked = 1 .. Len(asked) /\ DOMAIN asked' = 1 .. Len(asked) + 1
      /\ asked'[Len(asked) + 1] = [method |-> method, answers |-> 1]
      /\ \A n \in DOMAIN asked : n \in DOMAIN asked' /\ asked'[n] = asked[n]
  <2>1. asked \in Seq(Askings)
    BY DEF Shapes
  <2> QED BY <2>1, AskGrows
<1>2. Waiting \cup Owed \subseteq DOMAIN asked
  BY RequestsAreAsked
<1>3. Shapes'
  BY <1>1 DEF Shapes
<1>4. Phases'
  BY DEF Phases
<1>5. Lined'
  BY DEF Lined, Sorted, Resent
<1>6. Known'
  <2>1. Match(inFlight, asked') /\ Match(Resent, asked') /\ Match(toNode, asked')
    BY <1>1, MatchGrows DEF Known
  <2>2. Owed \subseteq DOMAIN asked'
    BY <1>1, <1>2
  <2> QED BY <2>1, <2>2 DEF Known, Match, Resent, Owed, Ids
<1>7. Answered'
  <2>1. Waiting' = Waiting /\ Owed' = Owed
    BY DEF Waiting, Owed, Resent, Ids
  <2>2. \A n \in DOMAIN asked' : n \in DOMAIN asked \/ n = Len(asked) + 1
    BY <1>1
  <2>3. Len(asked) + 1 \notin DOMAIN asked
    BY <1>1
  <2>4. ASSUME NEW n \in DOMAIN asked'
        PROVE  asked'[n].answers \in {0, 1} /\ (asked'[n].answers = 0 <=> n \in Waiting \cup Owed)
    <3>1. CASE n \in DOMAIN asked
      BY <1>1, <3>1 DEF Answered
    <3>2. CASE n = Len(asked) + 1
      BY <1>1, <1>2, <2>3, <3>2
    <3> QED BY <2>2, <3>1, <3>2
  <2> QED BY <2>1, <2>4 DEF Answered
<1>8. Channel'
  <2>1. Ids(inFlight') = Ids(inFlight) /\ Ids(toNode') = Ids(toNode)
    OBVIOUS
  <2> QED BY <1>1, <2>1, ChannelStays
<1> QED BY <1>3, <1>4, <1>5, <1>6, <1>7, <1>8

\* A new request joins the queue of its phase.
LEMMA NewRequest ==
  ASSUME KeepInv, NEW q \in Requests, q.n = Len(asked) + 1, q.method \in Calls, Ask(q.method, 0)
  PROVE  /\ asked' \in Seq(Askings) /\ Len(asked) \in Nat
         /\ DOMAIN asked = 1 .. Len(asked) /\ DOMAIN asked' = 1 .. Len(asked) + 1
         /\ asked'[q.n] = [method |-> q.method, answers |-> 0]
         /\ \A n \in DOMAIN asked : n \in DOMAIN asked' /\ asked'[n] = asked[n]
         /\ \A n \in DOMAIN asked' : n \in DOMAIN asked \/ n = q.n
         /\ q.n \in DOMAIN asked' /\ q.n \notin DOMAIN asked
         /\ Match(inFlight, asked') /\ Match(Resent, asked') /\ Match(toNode, asked')
         /\ \A i \in DOMAIN inFlight : inFlight[i].n < q.n
         /\ \A i \in DOMAIN Resent : Resent[i].n < q.n
         /\ \A i \in DOMAIN toNode : toNode[i].n < q.n
         /\ Waiting \cup Owed \subseteq DOMAIN asked
<1> USE DEF KeepInv
<1>1. /\ asked' \in Seq(Askings) /\ Len(asked) \in Nat
      /\ DOMAIN asked = 1 .. Len(asked) /\ DOMAIN asked' = 1 .. Len(asked) + 1
      /\ asked'[Len(asked) + 1] = [method |-> q.method, answers |-> 0]
      /\ \A n \in DOMAIN asked : n \in DOMAIN asked' /\ asked'[n] = asked[n]
  <2>1. asked \in Seq(Askings)
    BY DEF Shapes
  <2> QED BY <2>1, AskGrows
<1>2. \A n \in DOMAIN asked' : n \in DOMAIN asked \/ n = q.n
  BY <1>1
<1>3. q.n \in DOMAIN asked' /\ q.n \notin DOMAIN asked
  BY <1>1
<1>4. Match(inFlight, asked') /\ Match(Resent, asked') /\ Match(toNode, asked')
  BY <1>1, MatchGrows DEF Known
<1>5. \A n \in DOMAIN asked : n < q.n
  BY <1>1
<1>6. \A i \in DOMAIN inFlight : inFlight[i].n < q.n
  BY <1>5 DEF Known, Match
<1>7. \A i \in DOMAIN Resent : Resent[i].n < q.n
  BY <1>5 DEF Known, Match
<1>8. \A i \in DOMAIN toNode : toNode[i].n < q.n
  BY <1>5 DEF Known, Match
<1>9. Waiting \cup Owed \subseteq DOMAIN asked
  BY RequestsAreAsked
<1> QED BY <1>1, <1>2, <1>3, <1>4, <1>6, <1>7, <1>8, <1>9

\* One more request that waits keeps the answers counted.
LEMMA NewWaits ==
  ASSUME KeepInv, NEW q \in Requests, q.n = Len(asked) + 1, q.method \in Calls, Ask(q.method, 0),
         Waiting' = Waiting \cup {q.n}, UNCHANGED <<work, conn>>
  PROVE  Answered'
<1> USE DEF KeepInv
<1>1. /\ DOMAIN asked = 1 .. Len(asked)
      /\ asked'[q.n] = [method |-> q.method, answers |-> 0]
      /\ \A n \in DOMAIN asked : n \in DOMAIN asked' /\ asked'[n] = asked[n]
      /\ \A n \in DOMAIN asked' : n \in DOMAIN asked \/ n = q.n
      /\ q.n \in DOMAIN asked' /\ q.n \notin DOMAIN asked
      /\ Waiting \cup Owed \subseteq DOMAIN asked
  BY NewRequest
<1>2. Owed' = Owed
  BY DEF Owed
<1>3. ASSUME NEW n \in DOMAIN asked'
      PROVE  /\ asked'[n].answers \in {0, 1}
             /\ conn = "open" => (asked'[n].answers = 0 <=> n \in Waiting' \cup Owed')
  <2>1. CASE n \in DOMAIN asked
    BY <1>1, <1>2, <2>1 DEF Answered
  <2>2. CASE n = q.n
    BY <1>1, <2>2
  <2> QED BY <1>1, <2>1, <2>2
<1>4. conn = "open" => Owed' \cap Waiting' = {}
  BY <1>1, <1>2 DEF Answered
<1> QED BY <1>2, <1>3, <1>4 DEF Answered

LEMMA HoldKeeps ==
  ASSUME KeepInv, NEW q \in Requests, q.n = Len(asked) + 1, q.method \in Calls, conn = "open", upstream = 0,
         Hold(q), SendLeaves, holds' \in SUBSET Holdings
  PROVE  KeepInv'
<1> USE DEF KeepInv, Hold, SendLeaves
<1>1. /\ asked' \in Seq(Askings)
      /\ asked'[q.n] = [method |-> q.method, answers |-> 0]
      /\ \A n \in DOMAIN asked : n \in DOMAIN asked' /\ asked'[n] = asked[n]
      /\ q.n \in DOMAIN asked'
      /\ Match(inFlight, asked') /\ Match(Resent, asked') /\ Match(toNode, asked')
      /\ \A i \in DOMAIN Resent : Resent[i].n < q.n
      /\ Waiting \cup Owed \subseteq DOMAIN asked
  BY NewRequest
<1>2. PICK r : r = Resent
  OBVIOUS
<1>3. r \in Seq(Requests) /\ Sorted(r)
  BY <1>2, RequestsAreAsked DEF Lined
<1>4. held' \in Seq(Requests) /\ Resent' = Append(r, q)
  <2>1. kept \in Seq(Requests) /\ held \in Seq(Requests) /\ <<q>> \in Seq(Requests)
    BY DEF Shapes
  <2>2. held' = held \o <<q>> /\ held' \in Seq(Requests)
    BY <2>1, AppendIsConcat, AppendProperties
  <2>3. kept \o (held \o <<q>>) = r \o <<q>>
    BY <1>2, <2>1, ConcatAssociative DEF Resent
  <2>4. r \o <<q>> = Append(r, q)
    BY <1>3, AppendIsConcat
  <2> QED BY <2>2, <2>3, <2>4 DEF Resent
<1>5. /\ Sorted(Append(r, q)) /\ Ids(Append(r, q)) = Ids(r) \cup {q.n}
      /\ \A i \in DOMAIN Append(r, q) : Append(r, q)[i] = q \/ (i \in DOMAIN r /\ Append(r, q)[i] = r[i])
  <2>1. \A i \in DOMAIN r : r[i].n < q.n
    BY <1>1, <1>2
  <2> QED BY <1>3, <2>1, QueueAppended
<1>6. Shapes'
  BY <1>1, <1>4 DEF Shapes
<1>7. Phases'
  BY DEF Phases
<1>8. Lined'
  BY <1>4, <1>5 DEF Lined, Sorted
<1>9. Known'
  <2>1. Match(Append(r, q), asked')
    BY <1>1, <1>2, <1>5 DEF Match
  <2>2. Owed' \subseteq DOMAIN asked'
    BY <1>1 DEF Owed
  <2>3. Match(inFlight', asked') /\ Match(toNode', asked') /\ Match(Resent', asked')
    BY <1>1, <1>4, <2>1
  <2>4. Ids(toNode') \subseteq Ids(inFlight')
    BY DEF Known
  <2> QED BY <2>2, <2>3, <2>4 DEF Known
<1>10. Answered'
  <2>1. Waiting' = Waiting \cup {q.n}
    BY <1>2, <1>4, <1>5 DEF Waiting, Ids
  <2> QED BY <2>1, NewWaits
<1>11. Channel'
  <2>1. Ids(inFlight') = Ids(inFlight) /\ Ids(toNode') = Ids(toNode)
    OBVIOUS
  <2> QED BY <1>1, <2>1, ChannelStays
<1> QED BY <1>6, <1>7, <1>8, <1>9, <1>10, <1>11

LEMMA PassKeeps ==
  ASSUME KeepInv, NEW q \in Requests, q.n = Len(asked) + 1, q.method \in Calls, conn = "open", upstream # 0,
         Pass(q), SendLeaves, holds' \in SUBSET Holdings
  PROVE  KeepInv'
<1> USE DEF KeepInv, Pass, SendLeaves
<1>1. /\ asked' \in Seq(Askings)
      /\ asked'[q.n] = [method |-> q.method, answers |-> 0]
      /\ \A n \in DOMAIN asked : n \in DOMAIN asked' /\ asked'[n] = asked[n]
      /\ q.n \in DOMAIN asked' /\ q.n \notin DOMAIN asked
      /\ Match(inFlight, asked') /\ Match(Resent, asked') /\ Match(toNode, asked')
      /\ \A i \in DOMAIN inFlight : inFlight[i].n < q.n
      /\ \A i \in DOMAIN toNode : toNode[i].n < q.n
      /\ Waiting \cup Owed \subseteq DOMAIN asked
  BY NewRequest
<1>2. inFlight \in Seq(Requests) /\ toNode \in Seq(Requests) /\ Sorted(inFlight) /\ Sorted(toNode)
  BY DEF Shapes, Lined
<1>3. /\ inFlight' \in Seq(Requests) /\ Sorted(inFlight') /\ Ids(inFlight') = Ids(inFlight) \cup {q.n}
      /\ \A i \in DOMAIN inFlight' : inFlight'[i] = q \/ (i \in DOMAIN inFlight /\ inFlight'[i] = inFlight[i])
  BY <1>1, <1>2, QueueAppended
<1>4. /\ toNode' \in Seq(Requests) /\ Sorted(toNode') /\ Ids(toNode') = Ids(toNode) \cup {q.n}
      /\ \A i \in DOMAIN toNode' : toNode'[i] = q \/ (i \in DOMAIN toNode /\ toNode'[i] = toNode[i])
  BY <1>1, <1>2, QueueAppended
<1>5. Shapes'
  <2>1. follows' \subseteq follows /\ openedIds' \subseteq openedIds /\ closedIds' \subseteq closedIds
    BY DEF Forget
  <2>2. IsFiniteSet(follows')
    BY <2>1, FS_Subset DEF Shapes
  <2> QED BY <1>1, <1>3, <1>4, <2>1, <2>2 DEF Shapes
<1>6. Phases'
  BY DEF Phases
<1>7. Lined'
  BY <1>3, <1>4 DEF Lined, Sorted, Resent
<1>8. Known'
  <2>1. Match(inFlight', asked')
    BY <1>1, <1>3 DEF Match
  <2>2. Match(toNode', asked')
    BY <1>1, <1>4 DEF Match
  <2>3. Owed \subseteq DOMAIN asked' /\ Match(Resent, asked')
    BY <1>1
  <2>4. Ids(toNode') \subseteq Ids(inFlight')
    BY <1>3, <1>4 DEF Known
  <2> QED BY <2>1, <2>2, <2>3, <2>4 DEF Known, Match, Owed, Resent
<1>9. Answered'
  <2>1. Waiting' = Waiting \cup {q.n}
    BY <1>3 DEF Waiting, Resent, Ids
  <2> QED BY <2>1, NewWaits
<1>10. Channel'
  <2>1. Ids(inFlight) \subseteq DOMAIN asked
    BY RequestsAreAsked
  <2>2. Ids(toNode') \cap Ids(inFlight) \subseteq Ids(toNode)
    BY <1>1, <1>4, <2>1
  <2> QED BY <1>1, <1>3, <2>2, ChannelStays
<1> QED BY <1>5, <1>6, <1>7, <1>8, <1>9, <1>10

LEMMA SendKeeps ==
  ASSUME KeepInv, NEW method \in Calls, NEW token \in Names, NEW of \in Nat, Send(method, token, of),
         holds' \in SUBSET Holdings
  PROVE  KeepInv'
<1>1. PICK q : q = [n |-> Len(asked) + 1, method |-> method, token |-> token, of |-> of]
  OBVIOUS
<1>2. q \in Requests /\ q.n = Len(asked) + 1 /\ q.method = method /\ q.token = token /\ q.of = of
  <2>1. Len(asked) + 1 \in Nat
    BY RequestsAreAsked DEF KeepInv
  <2> QED BY <1>1, <2>1 DEF Requests
<1>3. /\ conn = "open" /\ SendLeaves
      /\ IF method \in Releasing /\ IsClosedId(token) THEN AnswerReleaseLocally(method, token)
         ELSE IF upstream = 0 THEN Hold(q) ELSE Pass(q)
  BY <1>1 DEF Send, SendLeaves
<1>4. CASE AnswerReleaseLocally(method, token)
  BY <1>3, <1>4, LocalKeeps
<1>5. CASE upstream = 0 /\ Hold(q)
  BY <1>2, <1>3, <1>5, HoldKeeps
<1>6. CASE upstream # 0 /\ Pass(q)
  BY <1>2, <1>3, <1>6, PassKeeps
<1> QED BY <1>3, <1>4, <1>5, <1>6

LEMMA LeaveKeeps == ASSUME KeepInv, Leave PROVE KeepInv'
<1> USE DEF KeepInv, Leave
<1>1. Shapes'
  <2>1. IsFiniteSet(follows') /\ generation' \in Nat
    BY FS_EmptySet DEF Shapes
  <2>2. node' \in [subs : SUBSET Subs, issued : Nat]
    BY DEF Shapes
  <2> QED BY <2>1, <2>2 DEF Shapes
<1>2. Phases'
  BY DEF Phases, Shapes
<1>3. Resent' = <<>> /\ inFlight' = <<>> /\ toNode' = <<>>
  BY DEF Resent
<1>4. Lined'
  BY <1>3 DEF Lined, Sorted
<1>5. Known'
  <2>1. Owed' = Owed
    BY DEF Owed
  <2> QED BY <1>3, <2>1 DEF Known, Match, Ids
<1>6. Answered'
  BY DEF Answered
<1>7. Channel'
  BY ChannelCloses
<1> QED BY <1>1, <1>2, <1>4, <1>5, <1>6, <1>7

----------------------------------------------------------------------------
(* KeepInv is kept by the owner: what a pause does to the queues. *)

LEMMA StopsOfPause ==
  ASSUME Shapes
  PROVE  /\ PauseStops \in Seq(Works) /\ Len(PauseStops) \in Nat
         /\ \A i \in 1 .. Len(PauseStops) : /\ PauseStops[i].do = "stop" /\ PauseStops[i].gen = generation
                                            /\ PauseStops[i].token \in follows
         /\ \A t \in follows : \E i \in 1 .. Len(PauseStops) :
              PauseStops[i] = [do |-> "stop", gen |-> generation, token |-> t]
<1>1. PICK S : S = {[do |-> "stop", gen |-> generation, token |-> t] : t \in follows}
  OBVIOUS
<1>2. PICK f : f = [t \in follows |-> [do |-> "stop", gen |-> generation, token |-> t]]
  OBVIOUS
<1>3. f \in Surjection(follows, S)
  BY <1>1, <1>2 DEF Surjection
<1>4. IsFiniteSet(S)
  BY <1>3, FS_Surjection DEF Shapes
<1>5. PICK s : s = SetToSeq(S)
  OBVIOUS
<1>6. s \in Seq(S) /\ Len(s) \in Nat /\ \A x \in S : \E i \in 1 .. Len(s) : s[i] = x
  BY <1>4, <1>5, SetToSeqLists
<1>7. \A i \in 1 .. Len(s) : s[i] \in S
  BY <1>6
<1>8. \A x \in S : x \in Works /\ x.do = "stop" /\ x.gen = generation /\ x.token \in follows
  BY <1>1 DEF Works, Shapes
<1>9. s \in Seq(Works)
  <2>1. \A i \in 1 .. Len(s) : s[i] \in Works
    BY <1>7, <1>8
  <2> QED BY <1>6, <2>1
<1>10. PauseStops = s
  BY <1>1, <1>5 DEF PauseStops
<1>11. \A t \in follows : [do |-> "stop", gen |-> generation, token |-> t] \in S
  BY <1>1
<1>12. \A i \in 1 .. Len(s) : s[i].do = "stop" /\ s[i].gen = generation /\ s[i].token \in follows
  BY <1>7, <1>8
<1>13. \A t \in follows : \E i \in 1 .. Len(s) : s[i] = [do |-> "stop", gen |-> generation, token |-> t]
  BY <1>6, <1>11
<1> QED BY <1>6, <1>9, <1>10, <1>12, <1>13

KeptIds == {inFlight[k].n : k \in KeptAt}
DoneIds == {inFlight[k].n : k \in DOMAIN inFlight \ KeptAt}

LEMMA AnswersOfPause ==
  ASSUME Shapes, Lined
  PROVE  /\ PauseAnswers \in Seq(Works) /\ Len(PauseAnswers) \in Nat
         /\ \A i \in 1 .. Len(PauseAnswers) : PauseAnswers[i].do = "answer" /\ PauseAnswers[i].n \in DoneIds
         /\ \A n \in DoneIds : \E i \in 1 .. Len(PauseAnswers) : PauseAnswers[i].n = n
         /\ \A i, j \in 1 .. Len(PauseAnswers) : PauseAnswers[i] = PauseAnswers[j] => i = j
<1>1. inFlight \in Seq(Requests) /\ Sorted(inFlight)
  BY DEF Shapes, Lined
<1>2. PICK at : at = DOMAIN inFlight \ KeptAt
  OBVIOUS
<1>3. PICK over : over = Picked(inFlight, at)
  OBVIOUS
<1>4. /\ over \in Seq(Requests) /\ Sorted(over)
      /\ \A i \in DOMAIN over : \E k \in at : over[i] = inFlight[k]
      /\ \A k \in at : \E i \in DOMAIN over : over[i] = inFlight[k]
  <2>1. at \in SUBSET DOMAIN inFlight
    BY <1>2
  <2> QED BY <1>1, <1>3, <2>1, QueuePicked
<1>5. PICK N \in Nat : N = Len(over) /\ DOMAIN over = 1 .. N
  BY <1>4
<1>6. PICK s : s = [i \in 1 .. N |-> [do |-> "answer", n |-> over[i].n]]
  OBVIOUS
<1>7. PauseAnswers = s
  BY <1>2, <1>3, <1>5, <1>6 DEF PauseAnswers
<1>8. \A i \in 1 .. N : over[i].n \in Nat
  <2>1. \A i \in 1 .. N : over[i] \in Requests
    BY <1>4, <1>5
  <2> QED BY <2>1 DEF Requests
<1>9. s \in [1 .. N -> Works]
  BY <1>6, <1>8 DEF Works
<1>10. s \in Seq(Works) /\ Len(s) = N
  BY <1>9
<1>11. \A i \in 1 .. N : s[i].do = "answer" /\ s[i].n = over[i].n
  BY <1>6
<1>12. \A i \in 1 .. N : over[i].n \in DoneIds
  BY <1>2, <1>4, <1>5 DEF DoneIds
<1>13. ASSUME NEW n \in DoneIds PROVE \E i \in 1 .. N : s[i].n = n
  <2>1. PICK k \in at : inFlight[k].n = n
    BY <1>2 DEF DoneIds
  <2>2. PICK i \in 1 .. N : over[i] = inFlight[k]
    BY <1>4, <1>5
  <2> QED BY <1>11, <2>1, <2>2
<1>14. ASSUME NEW i \in 1 .. N, NEW j \in 1 .. N, s[i] = s[j] PROVE i = j
  <2>1. over[i].n = over[j].n
    BY <1>11, <1>14
  <2> QED BY <1>4, <1>5, <2>1, OnePlace
<1> QED BY <1>7, <1>10, <1>11, <1>12, <1>13, <1>14

\* What a pause leaves: its stops, its answers, and what was owed before.
LEMMA WorkOfPause ==
  ASSUME KeepInv, CloseConnection
  PROVE  /\ work' \in Seq(Works)
         /\ \A i \in DOMAIN work' :
              \/ work'[i].do = "stop" /\ work'[i].gen = generation /\ work'[i].token \in follows
              \/ work'[i].do = "answer" /\ work'[i].n \in DoneIds
              \/ \E j \in DOMAIN work : work'[i] = work[j]
         /\ \A j \in DOMAIN work : \E i \in DOMAIN work' : work'[i] = work[j]
         /\ \A t \in follows : \E i \in DOMAIN work' : work'[i] = [do |-> "stop", gen |-> generation, token |-> t]
         /\ \A n \in DoneIds : \E i \in DOMAIN work' : work'[i].do = "answer" /\ work'[i].n = n
         /\ conn = "open" => \A i, j \in DOMAIN work' : work'[i].do = "answer" /\ work'[i] = work'[j] => i = j
<1>1. PICK a : a = PauseStops
  OBVIOUS
<1>2. PICK b : b = PauseAnswers
  OBVIOUS
<1>3. PICK A \in Nat : A = Len(a)
  BY <1>1, StopsOfPause DEF KeepInv
<1>4. PICK B \in Nat : B = Len(b)
  BY <1>2, AnswersOfPause DEF KeepInv
<1>5. work \in Seq(Works)
  BY DEF KeepInv, Shapes
<1>6. PICK W \in Nat : W = Len(work) /\ DOMAIN work = 1 .. W
  BY <1>5
<1>7. /\ a \in Seq(Works)
      /\ \A i \in 1 .. A : a[i].do = "stop" /\ a[i].gen = generation /\ a[i].token \in follows
      /\ \A t \in follows : \E i \in 1 .. A : a[i] = [do |-> "stop", gen |-> generation, token |-> t]
  BY <1>1, <1>3, StopsOfPause DEF KeepInv
<1>8. /\ b \in Seq(Works)
      /\ \A i \in 1 .. B : b[i].do = "answer" /\ b[i].n \in DoneIds
      /\ \A n \in DoneIds : \E i \in 1 .. B : b[i].n = n
      /\ \A i, j \in 1 .. B : b[i] = b[j] => i = j
  BY <1>2, <1>4, AnswersOfPause DEF KeepInv
<1>9. PICK w : w = (a \o b) \o work
  OBVIOUS
<1>10. work' = w
  BY <1>1, <1>2, <1>9 DEF CloseConnection
<1>11. a \o b \in Seq(Works) /\ Len(a \o b) = A + B
  BY <1>3, <1>4, <1>7, <1>8, Joined
<1>12. /\ w \in Seq(Works) /\ Len(w) = A + B + W
       /\ \A i \in 1 .. A + B : w[i] = (a \o b)[i]
       /\ \A i \in 1 .. W : w[A + B + i] = work[i]
  <2>1. PICK ab : ab = a \o b
    OBVIOUS
  <2>2. ab \in Seq(Works) /\ Len(ab) = A + B
    BY <1>11, <2>1
  <2>3. /\ ab \o work \in Seq(Works) /\ Len(ab \o work) = Len(ab) + Len(work)
        /\ \A i \in 1 .. Len(ab) : (ab \o work)[i] = ab[i]
        /\ \A i \in 1 .. Len(work) : (ab \o work)[Len(ab) + i] = work[i]
    BY <1>5, <2>2, Joined
  <2> QED BY <1>6, <1>9, <2>1, <2>2, <2>3
<1>13. DOMAIN w = 1 .. A + B + W
  BY <1>12
<1>14. \A i \in 1 .. A : i \in DOMAIN w /\ w[i] = a[i]
  <2>1. \A i \in 1 .. A : i \in 1 .. A + B /\ i \in 1 .. A + B + W
    BY <1>3, <1>4, <1>6
  <2>2. \A i \in 1 .. A : (a \o b)[i] = a[i]
    BY <1>3, <1>7, <1>8, Joined
  <2> QED BY <1>12, <1>13, <2>1, <2>2
<1>15. \A i \in 1 .. B : A + i \in DOMAIN w /\ w[A + i] = b[i]
  <2>1. \A i \in 1 .. B : A + i \in 1 .. A + B /\ A + i \in 1 .. A + B + W
    BY <1>3, <1>4, <1>6
  <2>2. \A i \in 1 .. B : (a \o b)[A + i] = b[i]
    BY <1>3, <1>4, <1>7, <1>8, Joined
  <2> QED BY <1>12, <1>13, <2>1, <2>2
<1>16. \A i \in 1 .. W : A + B + i \in DOMAIN w /\ w[A + B + i] = work[i]
  <2>1. \A i \in 1 .. W : A + B + i \in 1 .. A + B + W
    BY <1>3, <1>4, <1>6
  <2> QED BY <1>12, <1>13, <2>1
<1>17. ASSUME NEW i \in DOMAIN w
       PROVE  i \in 1 .. A \/ (\E k \in 1 .. B : i = A + k) \/ (\E k \in 1 .. W : i = A + B + k)
  <2>1. i \in 1 .. A + B + W
    BY <1>13
  <2>2. i \in 1 .. A \/ i - A \in 1 .. B \/ i - (A + B) \in 1 .. W
    BY <1>3, <1>4, <1>6, <2>1
  <2>3. i = A + (i - A) /\ i = A + B + (i - (A + B))
    BY <1>3, <1>4, <2>1
  <2> QED BY <2>2, <2>3
<1>18. ASSUME NEW i \in DOMAIN w
       PROVE  \/ w[i].do = "stop" /\ w[i].gen = generation /\ w[i].token \in follows
              \/ w[i].do = "answer" /\ w[i].n \in DoneIds
              \/ \E j \in DOMAIN work : w[i] = work[j]
  <2>1. CASE i \in 1 .. A
    BY <1>7, <1>14, <2>1
  <2>2. ASSUME NEW k \in 1 .. B, i = A + k PROVE w[i].do = "answer" /\ w[i].n \in DoneIds
    <3>1. w[i] = b[k]
      BY <1>15, <2>2
    <3> QED BY <1>8, <3>1
  <2>3. ASSUME NEW k \in 1 .. W, i = A + B + k PROVE \E j \in DOMAIN work : w[i] = work[j]
    BY <1>6, <1>16, <2>3
  <2> QED BY <1>17, <2>1, <2>2, <2>3
<1>19. \A j \in DOMAIN work : \E i \in DOMAIN w : w[i] = work[j]
  BY <1>6, <1>16
<1>20. \A t \in follows : \E i \in DOMAIN w : w[i] = [do |-> "stop", gen |-> generation, token |-> t]
  BY <1>7, <1>14
<1>21. \A n \in DoneIds : \E i \in DOMAIN w : w[i].do = "answer" /\ w[i].n = n
  BY <1>8, <1>15
<1>22. ASSUME conn = "open", NEW i \in DOMAIN w, NEW j \in DOMAIN w, w[i].do = "answer", w[i] = w[j]
       PROVE  i = j
  <2>1. i \notin 1 .. A /\ j \notin 1 .. A
    BY <1>7, <1>14, <1>22
  <2>2. DoneIds \cap Owed = {}
    <3>1. DoneIds \subseteq Waiting
      BY DEF DoneIds, Waiting, Ids
    <3> QED BY <1>22, <3>1 DEF KeepInv, Answered
  <2>3. ASSUME NEW k \in 1 .. B, NEW l \in 1 .. W, w[A + k] = w[A + B + l] PROVE FALSE
    <3>1. work[l].do = "answer" /\ work[l].n \in DoneIds /\ l \in DOMAIN work
      <4>1. w[A + k] = b[k] /\ w[A + B + l] = work[l]
        BY <1>15, <1>16
      <4>2. b[k].do = "answer" /\ b[k].n \in DoneIds
        BY <1>8
      <4> QED BY <1>6, <2>3, <4>1, <4>2
    <3>2. work[l].n \in Owed
      BY <3>1 DEF Owed
    <3> QED BY <2>2, <3>1, <3>2
  <2>4. ASSUME NEW k \in 1 .. B, i = A + k PROVE i = j
    <3>1. PICK l \in 1 .. B : j = A + l
      BY <1>17, <1>22, <2>1, <2>3, <2>4
    <3>2. b[k] = b[l]
      BY <1>15, <1>22, <2>4, <3>1
    <3> QED BY <1>8, <2>4, <3>1, <3>2
  <2>5. ASSUME NEW k \in 1 .. W, i = A + B + k PROVE i = j
    <3>1. PICK l \in 1 .. W : j = A + B + l
      BY <1>17, <1>22, <2>1, <2>3, <2>5
    <3>2. work[k].do = "answer" /\ work[k] = work[l] /\ k \in DOMAIN work /\ l \in DOMAIN work
      BY <1>6, <1>16, <1>22, <2>5, <3>1
    <3>3. k = l
      BY <1>22, <3>2 DEF KeepInv, Answered
    <3> QED BY <2>5, <3>1, <3>3
  <2> QED BY <1>17, <2>1, <2>4, <2>5
<1> QED BY <1>10, <1>12, <1>18, <1>19, <1>20, <1>21, <1>22

LEMMA CloseKeeps ==
  ASSUME KeepInv, upstream # 0, CloseConnection, paused' = TRUE, UNCHANGED <<conn, fromNode, asked, holds, held>>
  PROVE  KeepInv'
<1> USE DEF KeepInv
<1>1. PICK p : p = Picked(inFlight, KeptAt)
  OBVIOUS
<1>2. kept = <<>> /\ held = <<>> /\ conn = "open"
  BY DEF Phases
<1>3. inFlight \in Seq(Requests) /\ Sorted(inFlight) /\ KeptAt \in SUBSET DOMAIN inFlight
  BY DEF Shapes, Lined, KeptAt
<1>4. /\ p \in Seq(Requests) /\ Sorted(p)
      /\ \A i \in DOMAIN p : \E k \in KeptAt : p[i] = inFlight[k]
      /\ \A k \in KeptAt : \E i \in DOMAIN p : p[i] = inFlight[k]
  BY <1>1, <1>3, QueuePicked
<1>5. kept' = p /\ held' = <<>> /\ inFlight' = <<>> /\ toNode' = <<>> /\ Resent' = p
  <2>1. p \o <<>> = p
    BY <1>4, ConcatEmptySeq
  <2> QED BY <1>1, <1>2, <2>1 DEF CloseConnection, Resent
<1>6. /\ work' \in Seq(Works)
      /\ \A i \in DOMAIN work' :
           \/ work'[i].do = "stop" /\ work'[i].gen = generation /\ work'[i].token \in follows
           \/ work'[i].do = "answer" /\ work'[i].n \in DoneIds
           \/ \E j \in DOMAIN work : work'[i] = work[j]
      /\ \A j \in DOMAIN work : \E i \in DOMAIN work' : work'[i] = work[j]
      /\ \A n \in DoneIds : \E i \in DOMAIN work' : work'[i].do = "answer" /\ work'[i].n = n
      /\ \A i, j \in DOMAIN work' : work'[i].do = "answer" /\ work'[i] = work'[j] => i = j
  BY <1>2, WorkOfPause
<1>7. Ids(p) = KeptIds
  <2>1. ASSUME NEW x \in Ids(p) PROVE x \in KeptIds
    BY <1>4 DEF Ids, KeptIds
  <2>2. ASSUME NEW x \in KeptIds PROVE x \in Ids(p)
    <3>1. PICK k \in KeptAt : inFlight[k].n = x
      BY DEF KeptIds
    <3>2. PICK i \in DOMAIN p : p[i] = inFlight[k]
      BY <1>4
    <3> QED BY <3>1, <3>2 DEF Ids
  <2> QED BY <2>1, <2>2
<1>8. KeptIds \cup DoneIds = Ids(inFlight)
  <2>1. \A k \in DOMAIN inFlight : k \in KeptAt \/ k \in DOMAIN inFlight \ KeptAt
    OBVIOUS
  <2> QED BY <1>3, <2>1 DEF KeptIds, DoneIds, Ids
<1>9. KeptIds \cap DoneIds = {}
  <2>1. \A k \in KeptAt, l \in DOMAIN inFlight \ KeptAt : inFlight[k].n # inFlight[l].n
    BY <1>3, OnePlace
  <2> QED BY <2>1 DEF KeptIds, DoneIds
<1>10. Owed' = Owed \cup DoneIds
  <2>1. ASSUME NEW x \in Owed' PROVE x \in Owed \cup DoneIds
    <3>1. PICK i \in DOMAIN work' : work'[i].do = "answer" /\ work'[i].n = x
      BY DEF Owed
    <3>2. CASE work'[i].n \in DoneIds
      BY <3>1, <3>2
    <3>3. ASSUME NEW j \in DOMAIN work, work'[i] = work[j] PROVE x \in Owed
      BY <3>1, <3>3 DEF Owed
    <3> QED BY <1>6, <3>1, <3>2, <3>3
  <2>2. ASSUME NEW x \in Owed PROVE x \in Owed'
    <3>1. PICK j \in DOMAIN work : work[j].do = "answer" /\ work[j].n = x
      BY DEF Owed
    <3>2. PICK i \in DOMAIN work' : work'[i] = work[j]
      BY <1>6
    <3> QED BY <3>1, <3>2 DEF Owed
  <2>3. ASSUME NEW x \in DoneIds PROVE x \in Owed'
    BY <1>6 DEF Owed
  <2> QED BY <2>1, <2>2, <2>3
<1>11. Shapes'
  <2>1. IsFiniteSet(follows') /\ generation' \in Nat /\ closedIds' \in SUBSET Tokens
    BY FS_EmptySet DEF Shapes, CloseConnection
  <2>2. node' \in [subs : SUBSET Subs, issued : Nat]
    BY DEF Shapes, CloseConnection
  <2> QED BY <1>4, <1>5, <1>6, <2>1, <2>2 DEF Shapes, CloseConnection
<1>12. Phases'
  <2>1. node'.subs = {}
    BY DEF Shapes, CloseConnection
  <2> QED BY <1>2, <1>5, <2>1 DEF Phases, CloseConnection
<1>13. Lined'
  BY <1>4, <1>5 DEF Lined, Sorted
<1>14. Known'
  <2>1. Match(p, asked)
    BY <1>3, <1>4 DEF Known, Match
  <2>2. Owed' \subseteq DOMAIN asked
    BY <1>8, <1>10, RequestsAreAsked
  <2> QED BY <1>5, <2>1, <2>2 DEF Known, Match, Ids
<1>15. Answered'
  <2>1. Waiting = Ids(inFlight)
    BY <1>2 DEF Waiting, Resent, Ids
  <2>2. Waiting' = KeptIds
    BY <1>5, <1>7 DEF Waiting, Ids
  <2>3. Owed \cap Waiting = {} /\ \A n \in DOMAIN asked : asked[n].answers = 0 <=> n \in Waiting \cup Owed
    BY <1>2 DEF Answered
  <2>4. Waiting' \cup Owed' = Waiting \cup Owed /\ Owed' \cap Waiting' = {}
    BY <1>8, <1>9, <1>10, <2>1, <2>2, <2>3
  <2> QED BY <1>6, <2>3, <2>4 DEF Answered
<1>16. Channel'
  BY ChannelCloses DEF CloseConnection
<1> QED BY <1>11, <1>12, <1>13, <1>14, <1>15, <1>16

LEMMA BooksStay ==
  ASSUME Lined, Known, Answered, UNCHANGED <<inFlight, kept, held, toNode, work, asked, conn>>
  PROVE  Lined' /\ Known' /\ Answered'
<1>1. Lined'
  BY DEF Lined, Sorted, Resent
<1>2. Known'
  BY DEF Known, Match, Ids, Resent, Owed
<1>3. Waiting' = Waiting /\ Owed' = Owed
  BY DEF Waiting, Ids, Resent, Owed
<1>4. Answered'
  BY <1>3 DEF Answered
<1> QED BY <1>1, <1>2, <1>4

LEMMA PauseKeeps == ASSUME KeepInv, Pause PROVE KeepInv'
<1>1. CASE upstream = 0
  <2>1. UNCHANGED <<conn, generation, upstream, inFlight, kept, held, follows, openedIds, closedIds, work, toNode,
                    fromNode, node, asked, holds>> /\ paused' = TRUE
    BY <1>1 DEF Pause, books
  <2>2. Shapes' /\ Phases'
    BY <1>1, <2>1 DEF KeepInv, Shapes, Phases
  <2>3. Lined' /\ Known' /\ Answered'
    BY <2>1, BooksStay DEF KeepInv
  <2>4. Channel'
    BY <2>1 DEF KeepInv, Channel, Answers, Ids
  <2> QED BY <2>2, <2>3, <2>4 DEF KeepInv
<1>2. CASE upstream # 0
  BY <1>2, CloseKeeps DEF Pause
<1> QED BY <1>1, <1>2

LEMMA OpenKeeps ==
  ASSUME KeepInv, upstream = 0, conn = "open", OpenConnection, paused' = FALSE,
         UNCHANGED <<conn, work, fromNode, asked, holds>>
  PROVE  KeepInv'
<1> USE DEF KeepInv, OpenConnection
<1>1. PICK r : r = Resent
  OBVIOUS
<1>2. r \in Seq(Requests) /\ Sorted(r) /\ Match(r, asked)
  BY <1>1, RequestsAreAsked DEF Lined, Known
<1>3. inFlight' = r /\ toNode' = r /\ kept' = <<>> /\ held' = <<>> /\ Resent' = <<>>
  <2>1. inFlight' = r /\ toNode' = r /\ kept' = <<>> /\ held' = <<>>
    BY <1>1
  <2> QED BY <2>1 DEF Resent
<1>4. Shapes'
  <2>1. node' \in [subs : SUBSET Subs, issued : Nat] /\ generation' \in Nat
    BY DEF Shapes
  <2>2. <<>> \in Seq(Requests)
    OBVIOUS
  <2>3. inFlight' \in Seq(Requests) /\ toNode' \in Seq(Requests) /\ kept' \in Seq(Requests) /\ held' \in Seq(Requests)
    BY <1>2, <1>3, <2>2
  <2>4. UNCHANGED <<conn, work, fromNode, asked, holds, follows, openedIds, closedIds>> /\ paused' = FALSE
    OBVIOUS
  <2> HIDE DEF OpenConnection
  <2> QED BY <2>1, <2>3, <2>4 DEF Shapes
<1>5. Phases'
  BY <1>3 DEF Phases, Shapes
<1>6. Lined'
  BY <1>2, <1>3 DEF Lined, Sorted
<1>7. Known'
  BY <1>2, <1>3 DEF Known, Match, Owed, Ids
<1>8. Answered'
  <2>1. inFlight = <<>>
    BY DEF Phases
  <2>2. Waiting' = Waiting
    BY <1>1, <1>3, <2>1 DEF Waiting, Ids
  <2> QED BY <2>2 DEF Answered, Owed
<1>9. Channel'
  BY ChannelCloses
<1> QED BY <1>4, <1>5, <1>6, <1>7, <1>8, <1>9

LEMMA ResumeKeeps == ASSUME KeepInv, Resume PROVE KeepInv'
<1>1. CASE UNCHANGED <<generation, upstream, books, toNode, node>>
  <2>1. UNCHANGED <<conn, generation, upstream, inFlight, kept, held, follows, openedIds, closedIds, work, toNode,
                    fromNode, node, asked, holds>> /\ paused' = FALSE
    BY <1>1 DEF Resume, books
  <2>2. Shapes' /\ Phases'
    BY <1>1, <2>1 DEF KeepInv, Shapes, Phases
  <2>3. Lined' /\ Known' /\ Answered'
    BY <2>1, BooksStay DEF KeepInv
  <2>4. Channel'
    BY <2>1 DEF KeepInv, Channel, Answers, Ids
  <2> QED BY <2>2, <2>3, <2>4 DEF KeepInv
<1>2. CASE upstream = 0 /\ conn = "open" /\ OpenConnection
  BY <1>2, OpenKeeps DEF Resume
<1>3. CASE upstream = 0 /\ OpenFails
  <2>1. /\ UNCHANGED <<conn, upstream, inFlight, kept, held, follows, openedIds, closedIds, work, toNode, fromNode,
                       node, asked, holds>>
        /\ paused' = FALSE /\ generation' = generation + 1
    BY <1>3 DEF Resume, OpenFails, books
  <2>2. Shapes' /\ Phases'
    <3>1. generation' \in Nat
      BY <2>1 DEF KeepInv, Shapes
    <3>2. Shapes'
      BY <2>1, <3>1 DEF KeepInv, Shapes
    <3>3. Phases'
      BY <1>3, <2>1 DEF KeepInv, Phases
    <3> QED BY <3>2, <3>3
  <2>3. Lined' /\ Known' /\ Answered'
    BY <2>1, BooksStay DEF KeepInv
  <2>4. Channel'
    BY <2>1, ChannelCloses DEF KeepInv
  <2> QED BY <2>2, <2>3, <2>4 DEF KeepInv
<1>4. conn = "left" \/ conn = "open"
  BY DEF KeepInv, Shapes
<1> QED BY <1>1, <1>2, <1>3, <1>4 DEF Resume

----------------------------------------------------------------------------
(* KeepInv is kept by the deliveries. *)

LEMMA AnswerCounts ==
  ASSUME asked \in Seq(Askings), NEW n \in DOMAIN asked, HearAnswer(n)
  PROVE  /\ asked' \in Seq(Askings) /\ DOMAIN asked' = DOMAIN asked
         /\ asked'[n].answers = asked[n].answers + 1
         /\ \A k \in DOMAIN asked : asked'[k].method = asked[k].method /\ (k # n => asked'[k] = asked[k])
<1>1. asked' = [asked EXCEPT ![n].answers = @ + 1]
  BY DEF HearAnswer
<1>2. \A k \in DOMAIN asked : asked[k] \in Askings
  OBVIOUS
<1>3. DOMAIN asked' = DOMAIN asked
  BY <1>1
<1>4. asked'[n] = [asked[n] EXCEPT !.answers = @ + 1] /\ \A k \in DOMAIN asked : k # n => asked'[k] = asked[k]
  BY <1>1
<1>5. asked'[n].answers = asked[n].answers + 1 /\ asked'[n].method = asked[n].method /\ asked'[n] \in Askings
  BY <1>2, <1>4 DEF Askings
<1>6. \A k \in DOMAIN asked : asked'[k] \in Askings
  BY <1>2, <1>4, <1>5
<1>7. asked' \in Seq(Askings)
  <2>1. PICK N \in Nat : N = Len(asked) /\ DOMAIN asked = 1 .. N
    OBVIOUS
  <2>2. asked' \in [1 .. N -> Askings]
    BY <1>1, <1>3, <1>6, <2>1
  <2> QED BY <2>1, <2>2
<1> QED BY <1>3, <1>4, <1>5, <1>7

LEMMA DeliverKeeps == ASSUME KeepInv, DeliverAtPause PROVE KeepInv'
<1> USE DEF KeepInv
<1>1. /\ work # <<>> /\ work' = Tail(work)
      /\ UNCHANGED <<paused, conn, generation, upstream, inFlight, kept, held, follows, openedIds, closedIds,
                     toNode, fromNode, node>>
  BY DEF DeliverAtPause, books
<1>2. PICK x : x = work[1]
  OBVIOUS
<1>3. /\ work' \in Seq(Works) /\ Head(work) = x /\ x \in Works /\ 1 \in DOMAIN work
      /\ \A i \in DOMAIN work' : i \in Nat /\ i + 1 \in DOMAIN work /\ i + 1 # 1 /\ work'[i] = work[i + 1]
      /\ \A i \in DOMAIN work : i \in Nat /\ (i # 1 => i - 1 \in DOMAIN work' /\ work'[i - 1] = work[i])
  <2>1. work \in Seq(Works)
    BY DEF Shapes
  <2> QED BY <1>1, <1>2, <2>1, TailPlaces
<1>4. Owed' \subseteq Owed
  BY <1>3 DEF Owed
<1>5. x.do # "answer" => Owed' = Owed
  <2>1. ASSUME x.do # "answer", NEW n \in Owed PROVE n \in Owed'
    <3>1. PICK i \in DOMAIN work : work[i].do = "answer" /\ work[i].n = n
      BY DEF Owed
    <3>2. i # 1
      BY <1>2, <2>1, <3>1
    <3> QED BY <1>3, <3>1, <3>2 DEF Owed
  <2> QED BY <1>4, <2>1
<1>6. conn = "open" => \A i, j \in DOMAIN work' : work'[i].do = "answer" /\ work'[i] = work'[j] => i = j
  <2>1. ASSUME conn = "open", NEW i \in DOMAIN work', NEW j \in DOMAIN work', work'[i].do = "answer", work'[i] = work'[j]
        PROVE  i = j
    <3>1. i + 1 \in DOMAIN work /\ j + 1 \in DOMAIN work /\ work[i + 1].do = "answer" /\ work[i + 1] = work[j + 1]
      BY <1>3, <2>1
    <3>2. i + 1 = j + 1
      BY <2>1, <3>1 DEF Answered
    <3> QED BY <1>3, <3>2
  <2> QED BY <2>1
<1>7. \/ conn = "left" /\ UNCHANGED <<asked, holds>>
      \/ conn = "open" /\ x.do = "stop" /\ HearStop(x.gen, x.token) /\ UNCHANGED asked
      \/ conn = "open" /\ x.do = "answer" /\ HearAnswer(x.n) /\ UNCHANGED holds
  BY <1>3 DEF DeliverAtPause
<1>8. Waiting' = Waiting
  BY <1>1 DEF Waiting, Ids, Resent
<1>9. asked \in Seq(Askings) /\ holds \in SUBSET Holdings
  BY DEF Shapes
<1>10. CASE UNCHANGED asked /\ holds' \subseteq holds /\ (conn = "open" => x.do # "answer")
  <2>1. Shapes'
    BY <1>1, <1>3, <1>9, <1>10 DEF Shapes
  <2>2. Phases' /\ Lined'
    BY <1>1 DEF Phases, Lined, Sorted, Resent
  <2>3. Known'
    <3>1. Resent' = Resent
      BY <1>1 DEF Resent
    <3>2. Match(inFlight', asked') /\ Match(Resent', asked') /\ Match(toNode', asked')
      BY <1>1, <1>10, <3>1 DEF Known
    <3>3. Owed' \subseteq DOMAIN asked' /\ Ids(toNode') \subseteq Ids(inFlight')
      BY <1>1, <1>4, <1>10 DEF Known, Ids
    <3> QED BY <3>2, <3>3 DEF Known
  <2>4. Answered'
    BY <1>1, <1>5, <1>6, <1>8, <1>10 DEF Answered
  <2>5. Channel'
    BY <1>1, <1>10 DEF Channel, Answers, Ids
  <2> QED BY <2>1, <2>2, <2>3, <2>4, <2>5
<1>11. CASE conn = "open" /\ x.do = "answer" /\ HearAnswer(x.n) /\ UNCHANGED holds
  <2>1. PICK n : n = x.n
    OBVIOUS
  <2>2. n \in Owed /\ n \in DOMAIN asked
    <3>1. n \in Owed
      BY <1>2, <1>3, <1>11, <2>1 DEF Owed
    <3> QED BY <3>1, RequestsAreAsked
  <2>3. /\ asked' \in Seq(Askings) /\ DOMAIN asked' = DOMAIN asked
        /\ asked'[n].answers = asked[n].answers + 1
        /\ \A k \in DOMAIN asked : asked'[k].method = asked[k].method /\ (k # n => asked'[k] = asked[k])
    BY <1>9, <1>11, <2>1, <2>2, AnswerCounts
  <2>4. n \notin Owed'
    <3>1. SUFFICES ASSUME n \in Owed' PROVE FALSE
      OBVIOUS
    <3>2. PICK i \in DOMAIN work' : work'[i].do = "answer" /\ work'[i].n = n
      BY <3>1 DEF Owed
    <3>3. i + 1 \in DOMAIN work /\ i + 1 # 1 /\ work[i + 1].do = "answer" /\ work[i + 1].n = n
      BY <1>3, <3>2
    <3>4. work[i + 1] \in Works /\ work[i + 1] = [do |-> "answer", n |-> n] /\ x = [do |-> "answer", n |-> n]
      <4>1. work \in Seq(Works)
        BY DEF Shapes
      <4>2. work[i + 1] \in Works
        BY <3>3, <4>1
      <4> QED BY <1>3, <1>11, <2>1, <3>3, <4>2 DEF Works
    <3> QED BY <1>2, <1>3, <1>11, <3>3, <3>4 DEF Answered
  <2>5. \A k \in Owed : k # n => k \in Owed'
    <3>1. ASSUME NEW k \in Owed, k # n PROVE k \in Owed'
      <4>1. PICK i \in DOMAIN work : work[i].do = "answer" /\ work[i].n = k
        BY DEF Owed
      <4>2. i # 1
        BY <1>2, <2>1, <3>1, <4>1
      <4> QED BY <1>3, <4>1, <4>2 DEF Owed
    <3> QED BY <3>1
  <2>6. Shapes'
    BY <1>1, <1>3, <1>9, <1>11, <2>3 DEF Shapes
  <2>7. Phases' /\ Lined'
    BY <1>1 DEF Phases, Lined, Sorted, Resent
  <2>8. Known'
    <3>1. Resent' = Resent
      BY <1>1 DEF Resent
    <3>2. Match(inFlight, asked') /\ Match(Resent, asked') /\ Match(toNode, asked')
      BY <2>3, MatchGrows DEF Known
    <3>3. Match(inFlight', asked') /\ Match(Resent', asked') /\ Match(toNode', asked')
      BY <1>1, <3>1, <3>2 DEF Match
    <3>4. Ids(toNode') \subseteq Ids(inFlight')
      BY <1>1 DEF Known, Ids
    <3>5. Owed' \subseteq DOMAIN asked'
      BY <1>4, <2>3 DEF Known
    <3> QED BY <3>3, <3>4, <3>5 DEF Known
  <2>9. Answered'
    <3>1. Owed \cap Waiting = {} /\ asked[n].answers = 0
      BY <1>11, <2>2 DEF Answered
    <3>2. asked'[n].answers = 1 /\ n \notin Waiting' \cup Owed'
      BY <1>8, <2>2, <2>3, <2>4, <3>1
    <3>3. ASSUME NEW k \in DOMAIN asked, k # n
          PROVE  /\ asked'[k].answers \in {0, 1}
                 /\ asked'[k].answers = 0 <=> k \in Waiting' \cup Owed'
      BY <1>4, <1>8, <1>11, <2>3, <2>5, <3>3 DEF Answered
    <3>4. Owed' \cap Waiting' = {}
      BY <1>4, <1>8, <3>1
    <3> QED BY <1>1, <1>6, <1>11, <2>3, <3>2, <3>3, <3>4 DEF Answered
  <2>10. Channel'
    <3>1. Ids(inFlight') = Ids(inFlight) /\ Ids(toNode') = Ids(toNode)
      BY <1>1
    <3> QED BY <1>1, <2>3, <3>1, ChannelStays
  <2> QED BY <2>6, <2>7, <2>8, <2>9, <2>10
<1>12. CASE conn = "open" /\ x.do = "stop" /\ HearStop(x.gen, x.token) /\ UNCHANGED asked
  BY <1>10, <1>12 DEF HearStop
<1>13. CASE conn = "left" /\ UNCHANGED <<asked, holds>>
  BY <1>10, <1>13
<1> QED BY <1>7, <1>11, <1>12, <1>13

\* The channel after what was first in it is heard or ignored.
LEMMA ChannelReads ==
  ASSUME KeepInv, fromNode # <<>>, fromNode' = Tail(fromNode), UNCHANGED <<generation, upstream, toNode>>,
         \A i \in DOMAIN fromNode : i # 1 /\ Answers(i) => fromNode[i].n \in Ids(inFlight'),
         \A n \in DOMAIN asked : asked'[n].method = asked[n].method
  PROVE  Channel' /\ fromNode' \in Seq(Messages)
<1> USE DEF KeepInv
<1>1. /\ fromNode' \in Seq(Messages)
      /\ \A i \in DOMAIN fromNode' : i \in Nat /\ i + 1 \in DOMAIN fromNode /\ i + 1 # 1 /\ fromNode'[i] = fromNode[i + 1]
  <2>1. fromNode \in Seq(Messages)
    BY DEF Shapes
  <2> QED BY <2>1, TailPlaces
<1>2. \A i \in DOMAIN fromNode' : Answers(i)' <=> Answers(i + 1)
  BY <1>1 DEF Answers
<1>3. ASSUME NEW i \in DOMAIN fromNode', Answers(i + 1)
      PROVE  /\ fromNode'[i].n \in Ids(inFlight') /\ fromNode'[i].n \notin Ids(toNode')
             /\ fromNode'[i].token # None => asked'[fromNode'[i].n].method \in Opening \cap Methods
  <2>1. PICK m : m = fromNode[i + 1]
    OBVIOUS
  <2>2. /\ m.n \in Ids(inFlight) /\ m.n \notin Ids(toNode)
        /\ m.token # None => asked[m.n].method \in Opening \cap Methods
    BY <1>1, <1>3, <2>1 DEF Channel
  <2>3. m.n \in Ids(inFlight') /\ asked'[m.n].method = asked[m.n].method
    BY <1>1, <1>3, <2>1, <2>2, RequestsAreAsked
  <2>4. Ids(toNode') = Ids(toNode) /\ fromNode'[i] = m
    BY <1>1, <2>1
  <2> QED BY <2>2, <2>3, <2>4
<1>4. ASSUME NEW i \in DOMAIN fromNode', NEW j \in DOMAIN fromNode', Answers(i + 1), Answers(j + 1),
             fromNode'[i].n = fromNode'[j].n
      PROVE  i = j
  <2>1. i + 1 = j + 1
    BY <1>1, <1>4 DEF Channel
  <2> QED BY <1>1, <2>1
<1>5. \A i \in DOMAIN fromNode' : fromNode'[i].gen <= generation' /\ (fromNode'[i].gen = generation' => upstream' # 0)
  BY <1>1 DEF Channel
<1> QED BY <1>1, <1>2, <1>3, <1>4, <1>5 DEF Channel

LEMMA ReceiveAnswerKeeps ==
  ASSUME KeepInv, NEW m \in Messages, fromNode # <<>>, fromNode' = Tail(fromNode), m = fromNode[1],
         m.gen = generation, ReceiveAnswer(m),
         UNCHANGED <<paused, conn, generation, upstream, kept, held, closedIds, work, toNode, node>>
  PROVE  KeepInv'
<1> USE DEF KeepInv
<1>1. 1 \in DOMAIN fromNode /\ Answers(1)
  <2>1. fromNode \in Seq(Messages) /\ m.msg = "answer"
    BY DEF Shapes, ReceiveAnswer
  <2> QED BY <2>1, TailPlaces DEF Answers
<1>2. PICK n : n = m.n
  OBVIOUS
<1>3. /\ n \in Ids(inFlight) /\ n \notin Ids(toNode) /\ upstream # 0
      /\ m.token # None => asked[n].method \in Opening \cap Methods
  BY <1>1, <1>2 DEF Channel
<1>4. n \in DOMAIN asked /\ n \in Waiting
  BY <1>3, RequestsAreAsked DEF Waiting
<1>5. asked \in Seq(Askings) /\ inFlight \in Seq(Requests) /\ Sorted(inFlight)
  BY DEF Shapes, Lined
<1>6. /\ asked' \in Seq(Askings) /\ DOMAIN asked' = DOMAIN asked
      /\ asked'[n].answers = asked[n].answers + 1
      /\ \A k \in DOMAIN asked : asked'[k].method = asked[k].method /\ (k # n => asked'[k] = asked[k])
  BY <1>2, <1>4, <1>5, AnswerCounts DEF ReceiveAnswer
<1>7. /\ inFlight' \in Seq(Requests) /\ Sorted(inFlight') /\ Ids(inFlight') = Ids(inFlight) \ {n}
      /\ \A i \in DOMAIN inFlight' : \E j \in DOMAIN inFlight : inFlight'[i] = inFlight[j]
  BY <1>2, <1>5, QueueWithout DEF ReceiveAnswer, NoteAnswer
<1>8. m.token # None => m.token \in Tokens /\ m.gen \in Nat
  BY <1>1 DEF Messages, Names, Answers
<1>9. follows' \in SUBSET Tokens /\ openedIds' \in SUBSET Tokens /\ IsFiniteSet(follows')
  <2>1. follows \in SUBSET Tokens /\ openedIds \in SUBSET Tokens /\ IsFiniteSet(follows)
    BY DEF Shapes
  <2>2. IsFiniteSet(follows \cup {m.token})
    BY <2>1, FS_AddElement
  <2> QED BY <1>8, <2>1, <2>2 DEF ReceiveAnswer, NoteAnswer
<1>10. holds' \in SUBSET Holdings
  <2>1. ASSUME m.token # None PROVE [gen |-> m.gen, token |-> m.token, kind |-> asked[n].method] \in Holdings
    BY <1>3, <1>8, <2>1 DEF Holdings
  <2>2. holds \in SUBSET Holdings
    BY DEF Shapes
  <2> QED BY <1>2, <2>1, <2>2 DEF ReceiveAnswer
<1>11. ASSUME NEW i \in DOMAIN fromNode, i # 1, Answers(i) PROVE fromNode[i].n \in Ids(inFlight')
  <2>1. fromNode[i].n \in Ids(inFlight) /\ fromNode[i].n # n
    BY <1>1, <1>2, <1>11 DEF Channel
  <2> QED BY <1>7, <2>1
<1>12. Channel' /\ fromNode' \in Seq(Messages)
  BY <1>6, <1>11, ChannelReads
<1>13. Shapes'
  BY <1>6, <1>7, <1>9, <1>10, <1>12 DEF Shapes
<1>14. Phases'
  BY <1>3 DEF Phases
<1>15. Resent' = Resent
  BY DEF Resent
<1>16. Lined'
  BY <1>7, <1>15 DEF Lined, Sorted
<1>17. Known'
  <2>1. Match(inFlight', asked')
    <3>1. Match(inFlight, asked')
      BY <1>6, MatchGrows DEF Known
    <3> QED BY <1>7, <3>1 DEF Match
  <2>2. Match(Resent, asked') /\ Match(toNode, asked')
    BY <1>6, MatchGrows DEF Known
  <2>3. Owed' \subseteq DOMAIN asked'
    BY <1>6 DEF Known, Owed
  <2>4. Ids(toNode') \subseteq Ids(inFlight')
    BY <1>3, <1>7 DEF Known
  <2> QED BY <1>15, <2>1, <2>2, <2>3, <2>4 DEF Known
<1>18. Answered'
  <2>1. kept = <<>> /\ held = <<>> /\ conn = "open"
    BY <1>3 DEF Phases
  <2>2. Resent = <<>>
    BY <2>1 DEF Resent
  <2>3. Waiting' = Waiting \ {n} /\ Owed' = Owed
    BY <1>7, <1>15, <2>2 DEF Waiting, Ids, Owed
  <2>4. Owed \cap Waiting = {} /\ asked[n].answers = 0
    BY <1>4, <2>1 DEF Answered
  <2>5. asked'[n].answers = 1 /\ n \notin Waiting' \cup Owed'
    BY <1>4, <1>6, <2>3, <2>4
  <2>6. ASSUME NEW k \in DOMAIN asked, k # n
        PROVE  /\ asked'[k].answers \in {0, 1}
               /\ asked'[k].answers = 0 <=> k \in Waiting' \cup Owed'
    BY <1>6, <2>1, <2>3, <2>6 DEF Answered
  <2> QED BY <1>6, <2>1, <2>3, <2>4, <2>5, <2>6 DEF Answered
<1> QED BY <1>12, <1>13, <1>14, <1>16, <1>17, <1>18

\* A stop, or a message of a closed connection.
LEMMA ReceiveOtherKeeps ==
  ASSUME KeepInv, fromNode # <<>>, fromNode' = Tail(fromNode),
         follows' \subseteq follows, openedIds' \subseteq openedIds, holds' \subseteq holds,
         UNCHANGED <<paused, conn, generation, upstream, inFlight, kept, held, closedIds, work, toNode, node, asked>>
  PROVE  KeepInv'
<1> USE DEF KeepInv
<1>1. Channel' /\ fromNode' \in Seq(Messages)
  <2>1. \A i \in DOMAIN fromNode : Answers(i) => fromNode[i].n \in Ids(inFlight')
    BY DEF Channel, Ids
  <2> QED BY <2>1, ChannelReads
<1>2. IsFiniteSet(follows')
  BY FS_Subset DEF Shapes
<1>3. Shapes'
  BY <1>1, <1>2 DEF Shapes
<1>4. Phases'
  BY DEF Phases
<1> QED BY <1>1, <1>3, <1>4, BooksStay

LEMMA ReceiveCases ==
  ASSUME KeepInv, Receive
  PROVE  /\ work = <<>> /\ fromNode # <<>> /\ fromNode' = Tail(fromNode) /\ fromNode[1] \in Messages
         /\ 1 \in DOMAIN fromNode
         /\ UNCHANGED <<paused, conn, generation, upstream, kept, held, closedIds, work, toNode, node>>
         /\ \/ fromNode[1].gen = generation /\ ReceiveAnswer(fromNode[1])
            \/ fromNode[1].gen = generation /\ ReceiveStop(fromNode[1])
            \/ fromNode[1].gen # generation /\ UNCHANGED <<inFlight, follows, openedIds, asked, holds>>
<1>1. fromNode # <<>> /\ fromNode \in Seq(Messages)
  BY DEF Receive, KeepInv, Shapes
<1>2. Head(fromNode) = fromNode[1] /\ fromNode[1] \in Messages /\ 1 \in DOMAIN fromNode
  BY <1>1, TailPlaces
<1> QED BY <1>1, <1>2 DEF Receive, IsCurrent

LEMMA ReceiveKeeps == ASSUME KeepInv, Receive PROVE KeepInv'
<1>1. PICK m : m = fromNode[1]
  OBVIOUS
<1>2. /\ fromNode # <<>> /\ fromNode' = Tail(fromNode) /\ m \in Messages
      /\ UNCHANGED <<paused, conn, generation, upstream, kept, held, closedIds, work, toNode, node>>
      /\ \/ m.gen = generation /\ ReceiveAnswer(m)
         \/ m.gen = generation /\ ReceiveStop(m)
         \/ UNCHANGED <<inFlight, follows, openedIds, asked, holds>>
  BY <1>1, ReceiveCases
<1>3. CASE m.gen = generation /\ ReceiveAnswer(m)
  BY <1>1, <1>2, <1>3, ReceiveAnswerKeeps
<1>4. CASE ReceiveStop(m)
  BY <1>2, <1>4, ReceiveOtherKeeps DEF ReceiveStop, ForgetStopped, HearStop
<1>5. CASE UNCHANGED <<inFlight, follows, openedIds, asked, holds>>
  BY <1>2, <1>5, ReceiveOtherKeeps
<1> QED BY <1>2, <1>3, <1>4, <1>5

----------------------------------------------------------------------------
(* KeepInv is kept by the node. *)

\* A read of the node, its answer and the id it may issue.
Reads(q, token) ==
  /\ toNode # <<>> /\ q = toNode[1] /\ toNode' = Tail(toNode)
  /\ fromNode' = Append(fromNode, [msg |-> "answer", gen |-> generation, n |-> q.n, token |-> token])
  /\ UNCHANGED <<paused, conn, generation, upstream, inFlight, kept, held, follows, openedIds, closedIds, work, asked,
                 holds>>
  /\ \/ /\ token = None /\ node'.issued = node.issued
        /\ node'.subs = IF q.method = "release" THEN {x \in node.subs : x.token # q.token} ELSE node.subs
     \/ /\ token = Issued(node.issued + 1) /\ q.method \in Opening \cap Methods /\ node'.issued = node.issued + 1
        /\ node'.subs = node.subs \cup {[token |-> token, kind |-> q.method]}

LEMMA IssuedIsToken == ASSUME Shapes, NEW i \in Nat PROVE Issued(i) \in Tokens /\ Issued(i) # None
<1>1. Issued(i) \in Tokens
  BY DEF Issued, Tokens, Shapes
<1> QED BY <1>1, TransportAssumption DEF Tokens

LEMMA NodeReadsCases ==
  ASSUME KeepInv, NodeReads
  PROVE  \E q \in Requests, token \in Names : Reads(q, token) /\ node' \in [subs : SUBSET Subs, issued : Nat]
<1> USE DEF KeepInv
<1>1. toNode # <<>> /\ toNode \in Seq(Requests)
  BY DEF NodeReads, Shapes
<1>2. PICK q : q = toNode[1]
  OBVIOUS
<1>3. Head(toNode) = q /\ q \in Requests
  BY <1>1, <1>2, TailPlaces
<1>4. PICK id : id = Issued(node.issued + 1)
  OBVIOUS
<1>5. node \in [subs : SUBSET Subs, issued : Nat]
  BY DEF Shapes
<1>6. id \in Tokens /\ id # None
  BY <1>4, <1>5, IssuedIsToken
<1>7. /\ toNode' = Tail(toNode)
      /\ UNCHANGED <<paused, conn, generation, upstream, inFlight, kept, held, follows, openedIds, closedIds, work, asked,
                     holds>>
      /\ \/ /\ fromNode' = Append(fromNode, [msg |-> "answer", gen |-> generation, n |-> q.n, token |-> None])
            /\ node' = IF q.method = "release" THEN [node EXCEPT !.subs = {x \in @ : x.token # q.token}] ELSE node
         \/ /\ q.method \in Opening
            /\ fromNode' = Append(fromNode, [msg |-> "answer", gen |-> generation, n |-> q.n, token |-> id])
            /\ node' = [subs |-> node.subs \cup {[token |-> id, kind |-> q.method]}, issued |-> node.issued + 1]
  BY <1>3, <1>4 DEF NodeReads, NodeSays, AnswerMsg, books
<1>8. CASE /\ fromNode' = Append(fromNode, [msg |-> "answer", gen |-> generation, n |-> q.n, token |-> None])
           /\ node' = IF q.method = "release" THEN [node EXCEPT !.subs = {x \in @ : x.token # q.token}] ELSE node
  <2>1. /\ node' \in [subs : SUBSET Subs, issued : Nat] /\ node'.issued = node.issued
        /\ node'.subs = IF q.method = "release" THEN {x \in node.subs : x.token # q.token} ELSE node.subs
    BY <1>5, <1>8
  <2>2. Reads(q, None)
    BY <1>1, <1>2, <1>7, <1>8, <2>1 DEF Reads
  <2>3. None \in Names
    BY DEF Names
  <2> QED BY <1>3, <2>1, <2>2, <2>3
<1>9. CASE /\ q.method \in Opening
           /\ fromNode' = Append(fromNode, [msg |-> "answer", gen |-> generation, n |-> q.n, token |-> id])
           /\ node' = [subs |-> node.subs \cup {[token |-> id, kind |-> q.method]}, issued |-> node.issued + 1]
  <2>1. q.method \in Opening \cap Methods
    BY <1>3, <1>9 DEF Requests, Calls, Opening
  <2>2. [token |-> id, kind |-> q.method] \in Subs
    BY <1>6, <2>1 DEF Subs
  <2>3. /\ node' \in [subs : SUBSET Subs, issued : Nat] /\ node'.issued = node.issued + 1
        /\ node'.subs = node.subs \cup {[token |-> id, kind |-> q.method]}
    BY <1>5, <1>9, <2>2
  <2>4. Reads(q, id)
    BY <1>1, <1>2, <1>4, <1>7, <1>9, <2>1, <2>3 DEF Reads
  <2>5. id \in Names
    BY <1>6 DEF Names
  <2> QED BY <1>3, <2>3, <2>4, <2>5
<1> QED BY <1>7, <1>8, <1>9

LEMMA NodeReadsKeeps == ASSUME KeepInv, NodeReads PROVE KeepInv'
<1> USE DEF KeepInv
<1>1. PICK q \in Requests, token \in Names : Reads(q, token) /\ node' \in [subs : SUBSET Subs, issued : Nat]
  BY NodeReadsCases
<1>2. PICK m : m = [msg |-> "answer", gen |-> generation, n |-> q.n, token |-> token]
  OBVIOUS
<1>3. m \in Messages /\ m.msg = "answer" /\ m.gen = generation /\ m.n = q.n /\ m.token = token
  BY <1>1, <1>2 DEF Messages, Requests, Shapes
<1>4. toNode # <<>> /\ toNode \in Seq(Requests) /\ Sorted(toNode) /\ fromNode \in Seq(Messages)
  BY <1>1 DEF Reads, Shapes, Lined
<1>5. /\ toNode' \in Seq(Requests) /\ Sorted(toNode') /\ Ids(toNode') = Ids(toNode) \ {q.n} /\ 1 \in DOMAIN toNode
      /\ \A i \in DOMAIN toNode' : i + 1 \in DOMAIN toNode /\ toNode'[i] = toNode[i + 1]
  BY <1>1, <1>4, QueueTail DEF Reads
<1>6. PICK L : L = Len(fromNode) + 1
  OBVIOUS
<1>7. /\ fromNode' \in Seq(Messages) /\ L \in DOMAIN fromNode' /\ fromNode'[L] = m /\ L \notin DOMAIN fromNode
      /\ \A i \in DOMAIN fromNode : i \in DOMAIN fromNode' /\ fromNode'[i] = fromNode[i] /\ i < L
      /\ \A i \in DOMAIN fromNode' : i = L \/ i \in DOMAIN fromNode
  BY <1>1, <1>2, <1>3, <1>4, <1>6, AppendPlaces DEF Reads
<1>8. upstream # 0 /\ q.n \in Ids(toNode) /\ q.n \in Ids(inFlight) /\ asked[q.n].method = q.method
  <2>1. q.n \in Ids(toNode) /\ asked[q.n].method = q.method
    BY <1>1, <1>5 DEF Reads, Ids, Known, Match
  <2> QED BY <1>4, <2>1 DEF Phases, Known
<1>9. token # None => q.method \in Opening \cap Methods
  BY <1>1 DEF Reads
<1>10. /\ UNCHANGED <<paused, conn, generation, upstream, inFlight, kept, held, follows, openedIds, closedIds, work,
                      asked, holds>>
       /\ Resent' = Resent
  BY <1>1 DEF Reads, Resent
<1>11. Shapes'
  BY <1>1, <1>5, <1>7, <1>10 DEF Shapes
<1>12. Phases'
  BY <1>8, <1>10 DEF Phases
<1>13. Lined'
  BY <1>5, <1>10 DEF Lined, Sorted
<1>14. Known'
  <2>1. Match(toNode', asked')
    BY <1>5, <1>10 DEF Known, Match
  <2>2. Match(inFlight', asked') /\ Match(Resent', asked')
    BY <1>10 DEF Known
  <2>3. Owed' \subseteq DOMAIN asked' /\ Ids(toNode') \subseteq Ids(inFlight')
    BY <1>5, <1>10 DEF Known, Owed
  <2> QED BY <2>1, <2>2, <2>3 DEF Known
<1>15. Answered'
  <2>1. Waiting' = Waiting /\ Owed' = Owed
    BY <1>10 DEF Waiting, Ids, Owed
  <2> QED BY <1>10, <2>1 DEF Answered
<1>16. \A i \in DOMAIN fromNode : Answers(i)' <=> Answers(i)
  BY <1>7, <1>10 DEF Answers
<1>17. ASSUME NEW i \in DOMAIN fromNode', Answers(i)'
       PROVE  /\ fromNode'[i].n \in Ids(inFlight') /\ fromNode'[i].n \notin Ids(toNode')
              /\ fromNode'[i].token # None => asked'[fromNode'[i].n].method \in Opening \cap Methods
  <2>1. CASE i = L
    BY <1>3, <1>5, <1>7, <1>8, <1>9, <1>10, <2>1
  <2>2. CASE i \in DOMAIN fromNode
    <3>1. /\ fromNode[i].n \in Ids(inFlight) /\ fromNode[i].n \notin Ids(toNode)
          /\ fromNode[i].token # None => asked[fromNode[i].n].method \in Opening \cap Methods
      BY <1>16, <1>17, <2>2 DEF Channel
    <3> QED BY <1>5, <1>7, <1>10, <2>2, <3>1
  <2> QED BY <1>7, <2>1, <2>2
<1>18. ASSUME NEW i \in DOMAIN fromNode', NEW j \in DOMAIN fromNode', Answers(i)', Answers(j)',
              fromNode'[i].n = fromNode'[j].n
       PROVE  i = j
  <2>1. ASSUME NEW k \in DOMAIN fromNode, Answers(k) PROVE fromNode[k].n # q.n
    BY <1>8, <2>1 DEF Channel
  <2>2. CASE i = L
    <3>1. j \notin DOMAIN fromNode
      BY <1>3, <1>7, <1>16, <1>18, <2>1, <2>2
    <3> QED BY <1>7, <2>2, <3>1
  <2>3. CASE i \in DOMAIN fromNode
    <3>1. j # L
      BY <1>3, <1>7, <1>16, <1>18, <2>1, <2>3
    <3>2. j \in DOMAIN fromNode
      BY <1>7, <3>1
    <3> QED BY <1>7, <1>16, <1>18, <2>3, <3>2 DEF Channel
  <2> QED BY <1>7, <2>2, <2>3
<1>19. ASSUME NEW i \in DOMAIN fromNode'
       PROVE  fromNode'[i].gen <= generation' /\ (fromNode'[i].gen = generation' => upstream' # 0)
  <2>1. generation <= generation
    BY DEF Shapes
  <2>2. CASE i = L
    BY <1>3, <1>7, <1>8, <1>10, <2>1, <2>2
  <2>3. CASE i \in DOMAIN fromNode
    BY <1>7, <1>10, <2>3 DEF Channel
  <2> QED BY <1>7, <2>2, <2>3
<1>20. Channel'
  BY <1>17, <1>18, <1>19 DEF Channel
<1> QED BY <1>11, <1>12, <1>13, <1>14, <1>15, <1>20

LEMMA NodeStopsCases ==
  ASSUME KeepInv, NodeStops
  PROVE  /\ UNCHANGED <<paused, conn, generation, upstream, inFlight, kept, held, follows, openedIds, closedIds, work,
                        toNode, asked, holds>>
         /\ upstream # 0
         /\ \E x \in node.subs : \E m \in Messages :
              /\ x.kind = "follow" /\ m.msg = "stop" /\ m.gen = generation /\ m.token = x.token
              /\ fromNode' = Append(fromNode, m)
              /\ node' \in [subs : SUBSET Subs, issued : Nat]
              /\ node'.subs = node.subs \ {x} /\ node'.issued = node.issued
<1> USE DEF KeepInv
<1>1. PICK x \in node.subs : /\ x.kind = "follow"
                             /\ fromNode' = Append(fromNode, [msg |-> "stop", gen |-> generation, token |-> x.token])
                             /\ node' = [node EXCEPT !.subs = @ \ {x}]
  BY DEF NodeStops, NodeSays
<1>2. PICK m : m = [msg |-> "stop", gen |-> generation, token |-> x.token]
  OBVIOUS
<1>3. node \in [subs : SUBSET Subs, issued : Nat] /\ generation \in Nat
  BY DEF Shapes
<1>4. x \in Subs
  BY <1>3
<1>5. m \in Messages /\ m.msg = "stop" /\ m.gen = generation /\ m.token = x.token
  BY <1>2, <1>3, <1>4 DEF Messages, Subs
<1>6. node' \in [subs : SUBSET Subs, issued : Nat] /\ node'.subs = node.subs \ {x} /\ node'.issued = node.issued
  BY <1>1, <1>3
<1>7. upstream # 0
  BY <1>1 DEF Phases
<1> QED BY <1>1, <1>2, <1>5, <1>6, <1>7 DEF NodeStops, books

LEMMA NodeStopsKeeps == ASSUME KeepInv, NodeStops PROVE KeepInv'
<1> USE DEF KeepInv
<1>1. /\ UNCHANGED <<paused, conn, generation, upstream, inFlight, kept, held, follows, openedIds, closedIds, work,
                     toNode, asked, holds>>
      /\ upstream # 0
  BY NodeStopsCases
<1>2. PICK x \in node.subs, m \in Messages :
              /\ x.kind = "follow" /\ m.msg = "stop" /\ m.gen = generation /\ m.token = x.token
              /\ fromNode' = Append(fromNode, m)
              /\ node' \in [subs : SUBSET Subs, issued : Nat]
              /\ node'.subs = node.subs \ {x} /\ node'.issued = node.issued
  BY NodeStopsCases
<1>3. PICK L : L = Len(fromNode) + 1
  OBVIOUS
<1>4. fromNode \in Seq(Messages)
  BY DEF Shapes
<1>5. /\ fromNode' \in Seq(Messages) /\ L \in DOMAIN fromNode' /\ fromNode'[L] = m /\ L \notin DOMAIN fromNode
      /\ \A i \in DOMAIN fromNode : i \in DOMAIN fromNode' /\ fromNode'[i] = fromNode[i] /\ i < L
      /\ \A i \in DOMAIN fromNode' : i = L \/ i \in DOMAIN fromNode
  BY <1>2, <1>3, <1>4, AppendPlaces
<1>6. Shapes'
  BY <1>1, <1>2, <1>5 DEF Shapes
<1>7. Phases'
  BY <1>1 DEF Phases
<1>8. Lined' /\ Known' /\ Answered'
  BY <1>1, BooksStay
<1>9. \A i \in DOMAIN fromNode' : Answers(i)' => i \in DOMAIN fromNode /\ fromNode'[i] = fromNode[i] /\ Answers(i)
  BY <1>1, <1>2, <1>5 DEF Answers
<1>10. Channel'
  <2>1. ASSUME NEW i \in DOMAIN fromNode'
        PROVE  fromNode'[i].gen <= generation' /\ (fromNode'[i].gen = generation' => upstream' # 0)
    <3>1. generation <= generation
      BY DEF Shapes
    <3>2. CASE i = L
      BY <1>1, <1>2, <1>5, <3>1, <3>2
    <3>3. CASE i \in DOMAIN fromNode
      BY <1>1, <1>5, <3>3 DEF Channel
    <3> QED BY <1>5, <3>2, <3>3
  <2>2. Ids(inFlight') = Ids(inFlight) /\ Ids(toNode') = Ids(toNode)
    BY <1>1
  <2>3. ASSUME NEW i \in DOMAIN fromNode', Answers(i)'
        PROVE  /\ fromNode'[i].n \in Ids(inFlight') /\ fromNode'[i].n \notin Ids(toNode')
               /\ fromNode'[i].token # None => asked'[fromNode'[i].n].method \in Opening \cap Methods
    <3>1. /\ fromNode[i].n \in Ids(inFlight) /\ fromNode[i].n \notin Ids(toNode)
          /\ fromNode[i].token # None => asked[fromNode[i].n].method \in Opening \cap Methods
      BY <1>9, <2>3 DEF Channel
    <3> QED BY <1>1, <1>9, <2>2, <2>3, <3>1
  <2>4. \A i, j \in DOMAIN fromNode' : Answers(i)' /\ Answers(j)' /\ fromNode'[i].n = fromNode'[j].n => i = j
    BY <1>9 DEF Channel
  <2> QED BY <2>1, <2>3, <2>4 DEF Channel
<1> QED BY <1>6, <1>7, <1>8, <1>10

----------------------------------------------------------------------------
(* Requests are kept. *)

LEMMA KeepInit == ASSUME Init PROVE KeepInv
<1>1. Shapes
  <2>1. <<>> \in Seq(Requests) /\ <<>> \in Seq(Works) /\ <<>> \in Seq(Messages) /\ <<>> \in Seq(Askings)
    OBVIOUS
  <2>2. IsFiniteSet({})
    BY FS_EmptySet
  <2>3. node \in [subs : SUBSET Subs, issued : Nat] /\ generation \in Nat
    BY DEF Init
  <2> QED BY <2>1, <2>2, <2>3 DEF Init, Shapes
<1>2. Phases
  BY DEF Init, Phases
<1>3. inFlight = <<>> /\ toNode = <<>> /\ Resent = <<>> /\ work = <<>> /\ fromNode = <<>> /\ asked = <<>>
  BY DEF Init, Resent
<1>4. Lined
  BY <1>3 DEF Lined, Sorted
<1>5. Known
  BY <1>3 DEF Known, Match, Ids, Owed
<1>6. Answered
  BY <1>3 DEF Answered, Waiting, Ids, Owed
<1>7. Channel
  BY <1>3 DEF Channel
<1> QED BY <1>1, <1>2, <1>4, <1>5, <1>6, <1>7 DEF KeepInv

LEMMA RequestIsSent ==
  ASSUME KeepInv
  PROVE  /\ \A method \in Methods : Request(method) => Send(method, None, 0) /\ method \in Calls /\ None \in Names
         /\ \A h \in holds, method \in Methods : Operate(h, method) =>
              Send(method, h.token, h.gen) /\ method \in Calls /\ h.token \in Names /\ h.gen \in Nat
         /\ \A h \in holds : Release(h) => Send("release", h.token, h.gen) /\ "release" \in Calls /\ h.token \in Names
                                           /\ h.gen \in Nat
<1>1. \A h \in holds : h.token \in Tokens /\ h.gen \in Nat
  BY DEF KeepInv, Shapes, Holdings
<1> QED BY <1>1 DEF Request, Operate, Release, Calls, Names

LEMMA KeepStep == ASSUME KeepInv, [Next]_vars PROVE KeepInv'
<1>1. holds \in SUBSET Holdings
  BY DEF KeepInv, Shapes
<1>2. ASSUME NEW method \in Methods, Request(method) PROVE KeepInv'
  BY <1>1, <1>2, RequestIsSent, SendKeeps DEF Request
<1>3. ASSUME NEW method \in Methods, NEW h \in holds, Operate(h, method) PROVE KeepInv'
  BY <1>1, <1>3, RequestIsSent, SendKeeps DEF Operate
<1>4. ASSUME NEW h \in holds, Release(h) PROVE KeepInv'
  <2>1. holds' \in SUBSET Holdings
    BY <1>1, <1>4 DEF Release
  <2> QED BY <1>4, <2>1, RequestIsSent, SendKeeps
<1>5. CASE Leave
  BY <1>5, LeaveKeeps
<1>6. CASE Pause
  BY <1>6, PauseKeeps
<1>7. CASE Resume
  BY <1>7, ResumeKeeps
<1>8. CASE DeliverAtPause
  BY <1>8, DeliverKeeps
<1>9. CASE Receive
  BY <1>9, ReceiveKeeps
<1>10. CASE NodeReads
  BY <1>10, NodeReadsKeeps
<1>11. CASE NodeStops
  BY <1>11, NodeStopsKeeps
<1>12. CASE UNCHANGED vars
  <2>1. Shapes' /\ Phases'
    BY <1>12 DEF vars, KeepInv, Shapes, Phases
  <2>2. Lined' /\ Known' /\ Answered'
    BY <1>12, BooksStay DEF vars, KeepInv
  <2>3. Channel'
    BY <1>12 DEF vars, KeepInv, Channel, Answers, Ids
  <2> QED BY <2>1, <2>2, <2>3 DEF KeepInv
<1> QED BY <1>2, <1>3, <1>4, <1>5, <1>6, <1>7, <1>8, <1>9, <1>10, <1>11, <1>12 DEF Next, ConsumerStep

LEMMA KeepInvariant == Spec => []KeepInv
<1>1. Init => KeepInv
  BY KeepInit
<1>2. KeepInv /\ [Next]_vars => KeepInv'
  BY KeepStep
<1> QED BY <1>1, <1>2, PTL DEF Spec

LEMMA PlacesInQueue ==
  ASSUME NEW queue \in Seq(Requests), Sorted(queue), NEW n
  PROVE  Cardinality({i \in DOMAIN queue : queue[i].n = n}) = IF n \in Ids(queue) THEN 1 ELSE 0
<1>1. CASE n \in Ids(queue)
  <2>1. PICK k \in DOMAIN queue : queue[k].n = n
    BY <1>1 DEF Ids
  <2>2. \A i \in DOMAIN queue : queue[i].n = n => i = k
    BY <2>1, OnePlace
  <2>3. {i \in DOMAIN queue : queue[i].n = n} = {k}
    BY <2>1, <2>2
  <2> QED BY <1>1, <2>3, FS_Singleton
<1>2. CASE n \notin Ids(queue)
  <2>1. {i \in DOMAIN queue : queue[i].n = n} = {}
    BY <1>2 DEF Ids
  <2> QED BY <1>2, <2>1, FS_EmptySet
<1> QED BY <1>1, <1>2

LEMMA KeptAndHeld ==
  ASSUME Shapes, Lined
  PROVE  Sorted(kept) /\ Sorted(held) /\ Ids(kept) \cap Ids(held) = {}
<1>1. kept \in Seq(Requests) /\ held \in Seq(Requests) /\ Sorted(kept \o held)
  BY DEF Shapes, Lined, Resent
<1>2. PICK r : r = kept \o held
  OBVIOUS
<1>3. PICK a \in Nat : a = Len(kept) /\ DOMAIN kept = 1 .. a
  BY <1>1
<1>4. PICK b \in Nat : b = Len(held) /\ DOMAIN held = 1 .. b
  BY <1>1
<1>5. /\ r \in Seq(Requests) /\ Len(r) = a + b
      /\ \A i \in 1 .. a : r[i] = kept[i]
      /\ \A i \in 1 .. b : r[a + i] = held[i]
  BY <1>1, <1>2, <1>3, <1>4, Joined
<1>6. DOMAIN r = 1 .. a + b
  BY <1>5
<1>7. Sorted(r)
  BY <1>1, <1>2
<1>8. ASSUME NEW i \in 1 .. a, NEW j \in 1 .. a, i < j PROVE kept[i].n < kept[j].n
  <2>1. i \in DOMAIN r /\ j \in DOMAIN r
    BY <1>3, <1>4, <1>6
  <2> QED BY <1>5, <1>7, <1>8, <2>1 DEF Sorted
<1>9. ASSUME NEW i \in 1 .. b, NEW j \in 1 .. b, i < j PROVE held[i].n < held[j].n
  <2>1. a + i \in DOMAIN r /\ a + j \in DOMAIN r /\ a + i < a + j
    BY <1>3, <1>4, <1>6, <1>9
  <2>2. r[a + i].n < r[a + j].n
    BY <1>7, <2>1 DEF Sorted
  <2> QED BY <1>5, <2>2
<1>10. ASSUME NEW i \in 1 .. a, NEW j \in 1 .. b PROVE kept[i].n # held[j].n
  <2>1. i \in DOMAIN r /\ a + j \in DOMAIN r /\ i # a + j
    BY <1>3, <1>4, <1>6
  <2>2. r[i].n # r[a + j].n
    BY <1>5, <1>7, <2>1, OnePlace
  <2> QED BY <1>5, <2>2
<1> QED BY <1>3, <1>4, <1>8, <1>9, <1>10 DEF Sorted, Ids

LEMMA PlacesInWork ==
  ASSUME KeepInv, conn = "open", NEW n
  PROVE  Cardinality({i \in DOMAIN work : work[i].do = "answer" /\ work[i].n = n}) = IF n \in Owed THEN 1 ELSE 0
<1> DEFINE At == {i \in DOMAIN work : work[i].do = "answer" /\ work[i].n = n}
<1>1. CASE n \in Owed
  <2>1. PICK k \in DOMAIN work : work[k].do = "answer" /\ work[k].n = n
    BY <1>1 DEF Owed
  <2>2. ASSUME NEW i \in At PROVE i = k
    <3>1. work \in Seq(Works)
      BY DEF KeepInv, Shapes
    <3>2. work[i] \in Works /\ work[k] \in Works
      BY <2>1, <3>1
    <3>3. work[i] = work[k]
      BY <2>1, <3>2 DEF Works
    <3> QED BY <2>1, <3>3 DEF KeepInv, Answered
  <2>3. At = {k}
    BY <2>1, <2>2
  <2> QED BY <1>1, <2>3, FS_Singleton
<1>2. CASE n \notin Owed
  <2>1. At = {}
    BY <1>2 DEF Owed
  <2> QED BY <1>2, <2>1, FS_EmptySet
<1> QED BY <1>1, <1>2

LEMMA KeptOnce == ASSUME KeepInv PROVE RequestsAreKept
<1> USE DEF KeepInv
<1>1. SentInOrder
  BY DEF SentInOrder, Lined, Resent
<1>2. ASSUME NEW n \in DOMAIN asked PROVE asked[n].answers <= 1
  BY DEF Answered
<1>3. ASSUME NEW n \in DOMAIN asked, conn = "open" PROVE asked[n].answers + Places(n) = 1
  <2>1. inFlight \in Seq(Requests) /\ kept \in Seq(Requests) /\ held \in Seq(Requests)
    BY DEF Shapes
  <2>2. Sorted(inFlight) /\ Sorted(kept) /\ Sorted(held) /\ Ids(kept) \cap Ids(held) = {}
    BY KeptAndHeld DEF Lined
  <2>3. Places(n) = (IF n \in Ids(inFlight) THEN 1 ELSE 0) + (IF n \in Ids(kept) THEN 1 ELSE 0)
                      + (IF n \in Ids(held) THEN 1 ELSE 0) + (IF n \in Owed THEN 1 ELSE 0)
    <3>1. Cardinality({i \in DOMAIN inFlight : inFlight[i].n = n}) = IF n \in Ids(inFlight) THEN 1 ELSE 0
      BY <2>1, <2>2, PlacesInQueue
    <3>2. Cardinality({i \in DOMAIN kept : kept[i].n = n}) = IF n \in Ids(kept) THEN 1 ELSE 0
      BY <2>1, <2>2, PlacesInQueue
    <3>3. Cardinality({i \in DOMAIN held : held[i].n = n}) = IF n \in Ids(held) THEN 1 ELSE 0
      BY <2>1, <2>2, PlacesInQueue
    <3>4. Cardinality({i \in DOMAIN work : work[i].do = "answer" /\ work[i].n = n}) = IF n \in Owed THEN 1 ELSE 0
      BY <1>3, PlacesInWork
    <3> QED BY <3>1, <3>2, <3>3, <3>4 DEF Places
  <2>4. Waiting = Ids(inFlight) \cup Ids(kept) \cup Ids(held)
    BY RequestsAreAsked DEF Waiting
  <2>5. n \in Ids(inFlight) => n \notin Ids(kept) /\ n \notin Ids(held)
    BY DEF Phases, Ids
  <2>6. n \in Owed => n \notin Waiting
    BY <1>3 DEF Answered
  <2>7. asked[n].answers \in {0, 1} /\ (asked[n].answers = 0 <=> n \in Waiting \cup Owed)
    BY <1>3 DEF Answered
  <2>8. n \in Ids(kept) => n \notin Ids(held)
    BY <2>2
  <2> QED BY <2>3, <2>4, <2>5, <2>6, <2>7, <2>8
<1> QED BY <1>1, <1>2, <1>3 DEF RequestsAreKept, AnsweredOnce

\* Whatever pauses, resumes and late answers come between, each request is answered once or waits in exactly one
\* place, and requests reach each transport connection in the order the consumer sent them (pause, resume, noteAnswer).
THEOREM TransportKeepsRequests == Spec => []RequestsAreKept
BY KeepInvariant, KeptOnce, PTL

----------------------------------------------------------------------------
(* Ids. *)

LEMMA GivenIsTagged ==
  ASSUME Shapes
  PROVE  /\ \A t \in Given : t \in Tokens /\ t # None /\ t[1] = Tag(generation)
         /\ Issued(node.issued + 1) \notin Given /\ Issued(node.issued + 1) # None
<1>1. node.issued \in Nat /\ generation \in Nat
  BY DEF Shapes
<1>2. \A i \in 1 .. node.issued : Issued(i) \in Tokens /\ Issued(i) # None /\ Issued(i)[1] = Tag(generation)
  BY <1>1, IssuedIsToken DEF Issued, Tag
<1>3. \A i \in 1 .. node.issued : Issued(i) # Issued(node.issued + 1)
  <2>1. \A i \in 1 .. node.issued : i # node.issued + 1
    BY <1>1
  <2> QED BY <2>1 DEF Issued
<1>4. Issued(node.issued + 1) # None
  BY <1>1, IssuedIsToken
<1> QED BY <1>2, <1>3, <1>4 DEF Given

LEMMA GivenStays == ASSUME generation' = generation, node'.issued = node.issued PROVE Given' = Given
BY DEF Given, Issued

LEMMA GivenGrows ==
  ASSUME Shapes, generation' = generation, node'.issued = node.issued + 1
  PROVE  Given' = Given \cup {Issued(node.issued + 1)}
<1>1. PICK N \in Nat : N = node.issued
  BY DEF Shapes
<1>2. \A i : Issued(i)' = Issued(i)
  BY DEF Issued
<1>3. \A i : i \in 1 .. N + 1 <=> i \in 1 .. N \/ i = N + 1
  BY <1>1
<1> QED BY <1>1, <1>2, <1>3 DEF Given

\* Holdings are tokens, and a holding of an earlier connection has an id the open one has not issued, unless its stop
\* is still owed.
LEMMA PastIsApart ==
  ASSUME HoldInv, StaysApart, NEW h \in holds, ~Ours(h), conn = "open"
  PROVE  h.token \notin openedIds /\ (work = <<>> => h.token \notin Given)
<1> USE DEF HoldInv, KeepInv
<1>1. h \in Holdings /\ holds \in SUBSET Holdings
  BY DEF Shapes
<1>2. CASE ~Reuses
  <2>1. h.token[1] = h.gen /\ h.gen # generation
    BY <1>2 DEF Tagged, Tag, Ours
  <2>2. \A t \in Given : t[1] = generation
    BY <1>2, GivenIsTagged DEF Tag
  <2> QED BY <2>1, <2>2 DEF Tagged
<1>3. CASE "watch" \notin Methods
  <2>1. h.kind = "follow"
    BY <1>1, <1>3 DEF Holdings, Opening
  <2>2. work # <<>>
    BY <2>1 DEF Past
  <2> QED BY <2>2 DEF Tagged
<1> QED BY <1>2, <1>3 DEF StaysApart

LEMMA HoldsAreTokens == ASSUME Shapes PROVE \A h \in holds : h.token \in Tokens /\ h.token # None /\ h.gen \in Nat
<1>1. \A h \in holds : h.token \in Tokens /\ h.gen \in Nat
  BY DEF Shapes, Holdings
<1> QED BY <1>1, TransportAssumption DEF Tokens

\* The messages of the node, where none comes or goes.
LEMMA SameChannel ==
  ASSUME UNCHANGED <<fromNode, generation>>
  PROVE  /\ \A i : (Answers(i)' <=> Answers(i)) /\ (Opens(i)' <=> Opens(i))
         /\ \A i, t : Stops(i, t)' <=> Stops(i, t)
         /\ \A h : Ours(h)' <=> Ours(h)
BY DEF Answers, Opens, Stops, Ours

\* The requests the messages answer.
LEMMA ToldMethods ==
  ASSUME KeepInv, \A n \in DOMAIN asked : asked'[n].method = asked[n].method
  PROVE  \A i \in DOMAIN fromNode : Answers(i) => asked'[fromNode[i].n].method = asked[fromNode[i].n].method
<1>1. \A i \in DOMAIN fromNode : Answers(i) => fromNode[i].n \in DOMAIN asked
  BY RequestsAreAsked DEF KeepInv, Channel
<1> QED BY <1>1

----------------------------------------------------------------------------
(* HoldInv is kept by the consumer. *)

\* The parts about the node and its messages, where the consumer has done no more than let go of some of what it holds.
LEMMA LetGo ==
  ASSUME HoldInv, holds' \subseteq holds, UNCHANGED <<fromNode, generation, upstream, node>>,
         \A n \in DOMAIN asked : asked'[n].method = asked[n].method
  PROVE  Told' /\ Running'
<1> USE DEF HoldInv
<1>1. Given' = Given
  BY GivenStays
<1>2. \A i \in DOMAIN fromNode : Answers(i) => asked'[fromNode[i].n].method = asked[fromNode[i].n].method
  BY ToldMethods
<1>3. /\ \A i : Opens(i)' <=> Opens(i)
      /\ \A i, t : Stops(i, t)' <=> Stops(i, t)
      /\ \A h : Ours(h)' <=> Ours(h)
  BY SameChannel
<1>4. ASSUME NEW i \in DOMAIN fromNode, Opens(i)
      PROVE  /\ fromNode[i].token \in Given
             /\ \A h \in holds' : Ours(h) => h.token # fromNode[i].token
             /\ asked'[fromNode[i].n].method = "follow" =>
                  \/ \E x \in node.subs : x.token = fromNode[i].token
                  \/ \E j \in DOMAIN fromNode : j > i /\ Stops(j, fromNode[i].token)
  BY <1>2, <1>4 DEF Told, Opens
<1>5. \A i, j \in DOMAIN fromNode : Opens(i) /\ Opens(j) /\ fromNode[i].token = fromNode[j].token => i = j
  BY DEF Told
<1>6. Told'
  BY <1>1, <1>3, <1>4, <1>5 DEF Told
<1>7. Running'
  BY <1>1 DEF Running
<1> QED BY <1>6, <1>7

\* Who the request is about.
Sends(method, token, of) ==
  \/ method \notin Releasing /\ holds' = holds
  \/ \E h \in holds : /\ token = h.token /\ of = h.gen
                      /\ \/ method = "unpin" /\ holds' = holds
                         \/ method = "release" /\ holds' = holds \ {h}

LEMMA LocalHolds ==
  ASSUME HoldInv, NEW method \in Calls, NEW token \in Names, NEW of, conn = "open", AnswerReleaseLocally(method, token),
         method \in Releasing, IsClosedId(token), SendLeaves, Sends(method, token, of)
  PROVE  Tagged' /\ Present' /\ Past' /\ Told' /\ Running' /\ Released' /\ NoLeak'
<1> USE DEF HoldInv, AnswerReleaseLocally, SendLeaves
<1>1. PICK h \in holds : /\ token = h.token
                         /\ \/ method = "unpin" /\ holds' = holds
                            \/ method = "release" /\ holds' = holds \ {h}
  BY DEF Sends
<1>2. holds' \subseteq holds
  BY <1>1
<1>3. ~Ours(h)
  BY <1>1 DEF Present, IsClosedId
<1>4. \A n \in DOMAIN asked : asked'[n].method = asked[n].method
  <2>1. asked \in Seq(Askings)
    BY DEF KeepInv, Shapes
  <2> QED BY <2>1, AskGrows
<1>5. /\ \A i : (Answers(i)' <=> Answers(i)) /\ (Opens(i)' <=> Opens(i))
      /\ \A i, t : Stops(i, t)' <=> Stops(i, t)
      /\ \A x : Ours(x)' <=> Ours(x)
  BY SameChannel
<1>6. Given' = Given
  BY GivenStays
<1>7. Tagged'
  BY <1>2, <1>6 DEF Tagged
<1>8. Present'
  BY <1>2, <1>5 DEF Present
<1>9. Past'
  <2>1. ASSUME NEW x \in holds', ~Ours(x) PROVE x.token \in closedIds'
    <3>1. x.token \in closedIds
      BY <1>2, <2>1 DEF Past
    <3>2. method = "release" => x.token # token
      BY <1>1, <2>1 DEF Tagged
    <3> QED BY <3>1, <3>2
  <2> QED BY <1>2, <1>5, <2>1 DEF Past
<1>10. Told' /\ Running'
  BY <1>2, <1>4, LetGo
<1>11. Released'
  <2>1. ReleasesGoHome'
    BY DEF Released, ReleasesGoHome
  <2>2. Resent' = Resent
    BY DEF Resent
  <2> QED BY <1>2, <1>5, <1>6, <2>1, <2>2 DEF Released
<1>12. NoLeak'
  <2>1. ASSUME NEW x \in holds, x.gen = generation PROVE x \in holds'
    <3>1. x # h
      BY <1>3, <2>1 DEF Ours
    <3> QED BY <1>1, <3>1
  <2> QED BY <2>1 DEF NoLeak
<1> QED BY <1>7, <1>8, <1>9, <1>10, <1>11, <1>12

LEMMA HoldHolds ==
  ASSUME HoldInv, NEW q \in Requests, conn = "open", upstream = 0,
         Hold(q), SendLeaves, Sends(q.method, q.token, q.of), ~(q.method \in Releasing /\ IsClosedId(q.token))
  PROVE  Tagged' /\ Present' /\ Past' /\ Told' /\ Running' /\ Released' /\ NoLeak'
<1> USE DEF HoldInv, Hold, SendLeaves
<1>1. inFlight = <<>> /\ toNode = <<>> /\ follows = {} /\ openedIds = {} /\ node.subs = {}
  BY DEF KeepInv, Phases
<1>2. \A h \in holds : ~Ours(h) /\ h.token \in closedIds
  BY <1>1 DEF Present, Past
<1>3. q.method \notin Releasing /\ holds' = holds
  BY <1>1, <1>2 DEF Sends, IsClosedId, Releasing
<1>4. \A n \in DOMAIN asked : asked'[n].method = asked[n].method
  <2>1. asked \in Seq(Askings) /\ q.method \in Calls
    BY DEF KeepInv, Shapes, Requests
  <2> QED BY <2>1, AskGrows
<1>5. /\ \A i : (Answers(i)' <=> Answers(i)) /\ (Opens(i)' <=> Opens(i))
      /\ \A i, t : Stops(i, t)' <=> Stops(i, t)
      /\ \A x : Ours(x)' <=> Ours(x)
  BY SameChannel
<1>6. Given' = Given
  BY GivenStays
<1>7. Tagged' /\ Past'
  BY <1>3, <1>5, <1>6 DEF Tagged, Past
<1>8. Present' /\ NoLeak'
  BY <1>1, <1>2, <1>3, <1>5 DEF Present, NoLeak
<1>9. Told' /\ Running'
  BY <1>3, <1>4, LetGo
<1>10. Released'
  <2>1. PICK r : r = Resent
    OBVIOUS
  <2>2. r \in Seq(Requests)
    BY <2>1, RequestsAreAsked DEF KeepInv
  <2>3. Resent' = Append(r, q)
    <3>1. kept \in Seq(Requests) /\ held \in Seq(Requests) /\ <<q>> \in Seq(Requests)
      BY DEF KeepInv, Shapes
    <3>2. held' = held \o <<q>>
      BY <3>1, AppendIsConcat
    <3>3. kept \o (held \o <<q>>) = r \o <<q>>
      BY <2>1, <3>1, ConcatAssociative DEF Resent
    <3>4. r \o <<q>> = Append(r, q)
      BY <2>2, AppendIsConcat
    <3> QED BY <3>2, <3>3, <3>4 DEF Resent
  <2>4. PICK t : t = Append(r, q)
    OBVIOUS
  <2>5. /\ t[Len(r) + 1] = q
        /\ \A i \in DOMAIN r : t[i] = r[i]
        /\ \A i \in DOMAIN t : i = Len(r) + 1 \/ i \in DOMAIN r
    BY <2>2, <2>4, AppendPlaces
  <2>6. ASSUME NEW i \in DOMAIN t PROVE t[i].method \notin Releasing
    <3>1. CASE i = Len(r) + 1
      BY <1>3, <2>5, <3>1
    <3>2. CASE i \in DOMAIN r
      BY <2>1, <2>5, <3>2 DEF Released
    <3> QED BY <2>5, <3>1, <3>2
  <2>7. toNode' = <<>>
    BY <1>1
  <2> QED BY <2>3, <2>4, <2>6, <2>7 DEF Released, ReleasesGoHome
<1> QED BY <1>7, <1>8, <1>9, <1>10

LEMMA PassHolds ==
  ASSUME HoldInv, StaysApart, NEW q \in Requests, conn = "open", upstream # 0,
         Pass(q), SendLeaves, Sends(q.method, q.token, q.of), ~(q.method \in Releasing /\ IsClosedId(q.token))
  PROVE  Tagged' /\ Present' /\ Past' /\ Told' /\ Running' /\ Released' /\ NoLeak'
<1> USE DEF HoldInv, Pass, SendLeaves
<1>1. holds' \subseteq holds
  BY DEF Sends
<1>2. ASSUME q.method \in Releasing
      PROVE  /\ q.of = generation /\ q.token \in Given /\ q.token \in openedIds
             /\ q.method = "release" => /\ \A x \in holds' : x.token # q.token
                                        /\ \A x \in holds : x \notin holds' => x.token = q.token
                                        /\ \A i \in DOMAIN fromNode : Answers(i) => fromNode[i].token # q.token
  <2>1. PICK h \in holds : /\ q.token = h.token /\ q.of = h.gen
                           /\ \/ q.method = "unpin" /\ holds' = holds
                              \/ q.method = "release" /\ holds' = holds \ {h}
    BY <1>2 DEF Sends
  <2>2. Ours(h)
    BY <1>2, <2>1, PastIsApart DEF IsClosedId, Past
  <2>3. h.token \in openedIds /\ h.token # None
    BY <2>2, HoldsAreTokens DEF Present, KeepInv
  <2>4. \A i \in DOMAIN fromNode : Answers(i) => fromNode[i].token # h.token
    BY <2>2, <2>3 DEF Told, Opens
  <2>5. \A x \in holds \ {h} : x.token # h.token
    BY DEF Tagged
  <2> QED BY <2>1, <2>2, <2>3, <2>4, <2>5 DEF Tagged, Ours
<1>3. \A x \in holds : x \notin holds' => q.method = "release" /\ x.token = q.token
  <2>1. q.method = "release" => q.method \in Releasing
    BY DEF Releasing
  <2> QED BY <1>2, <2>1 DEF Sends
<1>4. PICK ended : ended = IF q.method = "release" THEN {q.token} ELSE {}
  OBVIOUS
<1>5. openedIds' = openedIds \ ended /\ follows' = follows \ ended /\ closedIds' = closedIds \ ended
  BY <1>4 DEF Forget
<1>6. \A x \in holds' : x.token \notin ended
  BY <1>2, <1>4 DEF Releasing
<1>7. \A n \in DOMAIN asked : asked'[n].method = asked[n].method
  <2>1. asked \in Seq(Askings) /\ q.method \in Calls
    BY DEF KeepInv, Shapes, Requests
  <2> QED BY <2>1, AskGrows
<1>8. /\ \A i : (Answers(i)' <=> Answers(i)) /\ (Opens(i)' <=> Opens(i))
      /\ \A i, t : Stops(i, t)' <=> Stops(i, t)
      /\ \A x : Ours(x)' <=> Ours(x)
  BY SameChannel
<1>9. Given' = Given
  BY GivenStays
<1>10. Tagged'
  BY <1>1, <1>5, <1>9 DEF Tagged
<1>11. Present'
  BY <1>1, <1>5, <1>6, <1>8 DEF Present
<1>12. Past'
  BY <1>1, <1>5, <1>6, <1>8 DEF Past
<1>13. Told' /\ Running'
  BY <1>1, <1>7, LetGo
<1>14. PICK L : L = Len(toNode) + 1
  OBVIOUS
<1>15. /\ L \in DOMAIN toNode' /\ toNode'[L] = q
       /\ \A i \in DOMAIN toNode : i \in DOMAIN toNode' /\ toNode'[i] = toNode[i]
       /\ \A i \in DOMAIN toNode' : i = L \/ i \in DOMAIN toNode
  <2>1. toNode \in Seq(Requests)
    BY DEF KeepInv, Shapes
  <2> QED BY <1>14, <2>1, AppendPlaces
<1>16. Released'
  <2>1. ASSUME NEW i \in DOMAIN toNode', toNode'[i].method \in Releasing PROVE toNode'[i].of = generation
    <3>1. CASE i = L
      BY <1>2, <1>15, <2>1, <3>1
    <3>2. CASE i \in DOMAIN toNode
      BY <1>15, <2>1, <3>2 DEF Released, ReleasesGoHome
    <3> QED BY <1>15, <3>1, <3>2
  <2>2. ASSUME NEW i \in DOMAIN toNode', toNode'[i].method = "release"
        PROVE  /\ toNode'[i].token \in Given
               /\ \A h \in holds' : Ours(h) => h.token # toNode'[i].token
               /\ \A j \in DOMAIN fromNode : Answers(j) => fromNode[j].token # toNode'[i].token
    <3>1. CASE i = L
      BY <1>2, <1>15, <2>2, <3>1 DEF Releasing
    <3>2. CASE i \in DOMAIN toNode
      BY <1>1, <1>15, <2>2, <3>2 DEF Released
    <3> QED BY <1>15, <3>1, <3>2
  <2>3. Resent' = Resent
    BY DEF Resent
  <2>4. ReleasesGoHome'
    BY <2>1 DEF ReleasesGoHome
  <2> QED BY <1>8, <1>9, <2>2, <2>3, <2>4 DEF Released
<1>17. NoLeak'
  <2>1. ASSUME NEW x \in node.subs
        PROVE  \/ \E h \in holds' : h.gen = generation /\ h.token = x.token
               \/ \E i \in DOMAIN fromNode : fromNode[i].msg = "answer" /\ fromNode[i].gen = generation
                                             /\ fromNode[i].token = x.token
               \/ \E i \in DOMAIN toNode' : toNode'[i].method = "release" /\ toNode'[i].token = x.token
    <3>1. ASSUME NEW h \in holds, h.gen = generation, h.token = x.token, h \notin holds'
          PROVE  \E i \in DOMAIN toNode' : toNode'[i].method = "release" /\ toNode'[i].token = x.token
      BY <1>3, <1>15, <3>1
    <3>2. ASSUME NEW i \in DOMAIN toNode, toNode[i].method = "release", toNode[i].token = x.token
          PROVE  \E j \in DOMAIN toNode' : toNode'[j].method = "release" /\ toNode'[j].token = x.token
      BY <1>15, <3>2
    <3> QED BY <3>1, <3>2 DEF NoLeak
  <2> QED BY <2>1 DEF NoLeak
<1> QED BY <1>10, <1>11, <1>12, <1>13, <1>16, <1>17

LEMMA SendHolds ==
  ASSUME HoldInv, StaysApart, NEW method \in Calls, NEW token \in Names, NEW of \in Nat, Send(method, token, of),
         Sends(method, token, of)
  PROVE  Tagged' /\ Present' /\ Past' /\ Told' /\ Running' /\ Released' /\ NoLeak'
<1>1. PICK q : q = [n |-> Len(asked) + 1, method |-> method, token |-> token, of |-> of]
  OBVIOUS
<1>2. q \in Requests /\ q.method = method /\ q.token = token /\ q.of = of
  <2>1. Len(asked) + 1 \in Nat
    BY RequestsAreAsked DEF HoldInv, KeepInv
  <2> QED BY <1>1, <2>1 DEF Requests
<1>3. /\ conn = "open" /\ SendLeaves
      /\ IF method \in Releasing /\ IsClosedId(token) THEN AnswerReleaseLocally(method, token)
         ELSE IF upstream = 0 THEN Hold(q) ELSE Pass(q)
  BY <1>1 DEF Send, SendLeaves
<1>4. CASE method \in Releasing /\ IsClosedId(token) /\ AnswerReleaseLocally(method, token)
  BY <1>3, <1>4, LocalHolds
<1>5. Sends(q.method, q.token, q.of)
  BY <1>2
<1>6. CASE ~(method \in Releasing /\ IsClosedId(token)) /\ upstream = 0 /\ Hold(q)
  BY <1>2, <1>3, <1>5, <1>6, HoldHolds
<1>7. CASE ~(method \in Releasing /\ IsClosedId(token)) /\ upstream # 0 /\ Pass(q)
  BY <1>2, <1>3, <1>5, <1>7, PassHolds
<1> QED BY <1>3, <1>4, <1>6, <1>7

----------------------------------------------------------------------------
(* HoldInv is kept by the owner. *)

\* A connection that closes, or one that opens: nothing is ours yet.
LEMMA NothingIsOurs ==
  ASSUME HoldInv, generation' = generation + 1, UNCHANGED <<fromNode, holds>>, node'.subs = {}
  PROVE  /\ \A h \in holds' : ~Ours(h)' /\ h.gen <= generation'
         /\ Present' /\ Told' /\ Running' /\ NoLeak'
         /\ \A i \in DOMAIN fromNode' : fromNode'[i].gen # generation'
<1> USE DEF HoldInv
<1>1. generation \in Nat
  BY DEF KeepInv, Shapes
<1>2. ASSUME NEW h \in holds PROVE h.gen <= generation' /\ h.gen # generation'
  <2>1. h.gen \in Nat /\ h.gen <= generation
    BY HoldsAreTokens DEF KeepInv, Tagged
  <2> QED BY <1>1, <2>1
<1>3. ASSUME NEW i \in DOMAIN fromNode PROVE fromNode[i].gen # generation'
  <2>1. fromNode[i] \in Messages /\ fromNode[i].gen <= generation
    BY DEF KeepInv, Shapes, Channel
  <2>2. fromNode[i].gen \in Nat
    BY <2>1 DEF Messages
  <2> QED BY <1>1, <2>1, <2>2
<1>4. \A h \in holds' : ~Ours(h)' /\ h.gen <= generation'
  BY <1>2 DEF Ours
<1>5. Present'
  BY <1>4 DEF Present
<1>6. Told'
  BY <1>3 DEF Told, Opens, Answers
<1>7. Running' /\ NoLeak'
  BY <1>3 DEF Running, NoLeak
<1> QED BY <1>3, <1>4, <1>5, <1>6, <1>7

\* The rest of Tagged, there.
LEMMA TagsStay ==
  ASSUME HoldInv, generation' = generation + 1, UNCHANGED holds, openedIds' = {}, follows' = {},
         \A h \in holds' : h.gen <= generation',
         \A i \in DOMAIN work' : work'[i].do = "stop" => work'[i].gen <= generation /\ work'[i].gen \in Nat
  PROVE  Tagged'
<1>1. generation \in Nat
  BY DEF HoldInv, KeepInv, Shapes
<1>2. \A i \in DOMAIN work' : work'[i].do = "stop" => work'[i].gen < generation'
  BY <1>1
<1> QED BY <1>2 DEF HoldInv, Tagged, Tag

LEMMA WorkIsPast ==
  ASSUME HoldInv
  PROVE  \A i \in DOMAIN work : work[i].do = "stop" => work[i].gen <= generation /\ work[i].gen \in Nat
<1>1. \A i \in DOMAIN work : work[i] \in Works /\ generation \in Nat
  BY DEF HoldInv, KeepInv, Shapes
<1>2. \A i \in DOMAIN work : work[i].do = "stop" => work[i].gen \in Nat /\ work[i].gen < generation
  BY <1>1 DEF HoldInv, Tagged, Works
<1> QED BY <1>1, <1>2

LEMMA LeaveHolds == ASSUME HoldInv, Leave PROVE Tagged' /\ Present' /\ Past' /\ Told' /\ Running' /\ Released' /\ NoLeak'
<1>1. generation' = generation + 1 /\ UNCHANGED <<fromNode, holds>> /\ node'.subs = {}
  BY DEF Leave, HoldInv, KeepInv, Shapes
<1>2. Present' /\ Told' /\ Running' /\ NoLeak' /\ \A h \in holds' : ~Ours(h)' /\ h.gen <= generation'
  BY <1>1, NothingIsOurs
<1>3. Tagged'
  <2>1. \A i \in DOMAIN work' : work'[i].do = "stop" => work'[i].gen <= generation /\ work'[i].gen \in Nat
    BY WorkIsPast DEF Leave
  <2> QED BY <1>1, <1>2, <2>1, TagsStay DEF Leave
<1>4. Past'
  BY DEF Past, Leave
<1>5. Released'
  <2>1. toNode' = <<>> /\ Resent' = <<>>
    BY DEF Leave, Resent
  <2> QED BY <2>1 DEF Released, ReleasesGoHome
<1> QED BY <1>2, <1>3, <1>4, <1>5

LEMMA CloseHolds ==
  ASSUME HoldInv, upstream # 0, CloseConnection, UNCHANGED <<conn, fromNode, asked, holds, held>>
  PROVE  Tagged' /\ Present' /\ Past' /\ Told' /\ Running' /\ Released' /\ NoLeak'
<1>1. generation' = generation + 1 /\ node'.subs = {}
  BY DEF CloseConnection, HoldInv, KeepInv, Shapes
<1>2. Present' /\ Told' /\ Running' /\ NoLeak' /\ \A h \in holds' : ~Ours(h)' /\ h.gen <= generation'
  BY <1>1, NothingIsOurs
<1>3. /\ \A i \in DOMAIN work' :
           \/ work'[i].do = "stop" /\ work'[i].gen = generation /\ work'[i].token \in follows
           \/ work'[i].do = "answer" /\ work'[i].n \in DoneIds
           \/ \E j \in DOMAIN work : work'[i] = work[j]
      /\ \A j \in DOMAIN work : \E i \in DOMAIN work' : work'[i] = work[j]
      /\ \A t \in follows : \E i \in DOMAIN work' : work'[i] = [do |-> "stop", gen |-> generation, token |-> t]
  BY WorkOfPause DEF HoldInv
<1>4. Tagged'
  <2>1. generation \in Nat /\ generation <= generation
    BY DEF HoldInv, KeepInv, Shapes
  <2>2. ASSUME NEW i \in DOMAIN work', work'[i].do = "stop" PROVE work'[i].gen <= generation /\ work'[i].gen \in Nat
    <3>1. CASE work'[i].gen = generation
      BY <2>1, <3>1
    <3>2. ASSUME NEW j \in DOMAIN work, work'[i] = work[j] PROVE work'[i].gen <= generation /\ work'[i].gen \in Nat
      BY <2>2, <3>2, WorkIsPast
    <3> QED BY <1>3, <2>2, <3>1, <3>2
  <2> QED BY <1>1, <1>2, <2>2, TagsStay DEF CloseConnection
<1>5. Past'
  <2>1. conn = "open"
    BY DEF HoldInv, KeepInv, Phases
  <2>2. ASSUME NEW h \in holds
        PROVE  /\ h.token \in closedIds'
               /\ h.kind = "follow" => \E i \in DOMAIN work' : work'[i].do = "stop" /\ work'[i].gen = h.gen
                                                               /\ work'[i].token = h.token
    <3>1. CASE Ours(h)
      <4>1. h.token \in openedIds /\ (h.kind = "follow" => h.token \in follows) /\ h.gen = generation
        BY <3>1 DEF HoldInv, Present, Ours
      <4>2. ASSUME h.kind = "follow"
            PROVE  \E i \in DOMAIN work' : work'[i].do = "stop" /\ work'[i].gen = h.gen /\ work'[i].token = h.token
        <5>1. PICK i \in DOMAIN work' : work'[i] = [do |-> "stop", gen |-> generation, token |-> h.token]
          BY <1>3, <4>1, <4>2
        <5> QED BY <4>1, <5>1
      <4> QED BY <4>1, <4>2 DEF CloseConnection
    <3>2. CASE ~Ours(h)
      <4>1. /\ h.token \in closedIds
            /\ h.kind = "follow" => \E i \in DOMAIN work : work[i].do = "stop" /\ work[i].gen = h.gen
                                                           /\ work[i].token = h.token
        BY <2>1, <3>2 DEF HoldInv, Past
      <4>2. ASSUME h.kind = "follow"
            PROVE  \E i \in DOMAIN work' : work'[i].do = "stop" /\ work'[i].gen = h.gen /\ work'[i].token = h.token
        <5>1. PICK j \in DOMAIN work : work[j].do = "stop" /\ work[j].gen = h.gen /\ work[j].token = h.token
          BY <4>1, <4>2
        <5>2. PICK i \in DOMAIN work' : work'[i] = work[j]
          BY <1>3
        <5> QED BY <5>1, <5>2
      <4> QED BY <4>1, <4>2 DEF CloseConnection
    <3> QED BY <3>1, <3>2
  <2> QED BY <2>2 DEF Past
<1>6. Released'
  <2>1. PICK p : p = Picked(inFlight, KeptAt)
    OBVIOUS
  <2>2. inFlight \in Seq(Requests) /\ Sorted(inFlight) /\ KeptAt \in SUBSET DOMAIN inFlight
    BY DEF HoldInv, KeepInv, Shapes, Lined, KeptAt
  <2>3. p \in Seq(Requests) /\ \A i \in DOMAIN p : \E k \in KeptAt : p[i] = inFlight[k]
    BY <2>1, <2>2, QueuePicked
  <2>4. \A k \in KeptAt : inFlight[k].method \notin Releasing
    BY DEF KeptAt, Outcome
  <2>5. Resent' = p /\ toNode' = <<>>
    <3>1. held = <<>>
      BY DEF HoldInv, KeepInv, Phases
    <3>2. p \o <<>> = p
      BY <2>3, ConcatEmptySeq
    <3> QED BY <2>1, <3>1, <3>2 DEF Resent, CloseConnection
  <2>6. \A i \in DOMAIN p : p[i].method \notin Releasing
    BY <2>3, <2>4
  <2> QED BY <2>5, <2>6 DEF Released, ReleasesGoHome
<1> QED BY <1>2, <1>4, <1>5, <1>6

\* What follows the generation of an open connection, when the transport only changes its flag.
LEMMA HoldsStay ==
  ASSUME HoldInv, UNCHANGED <<conn, generation, upstream, inFlight, kept, held, follows, openedIds, closedIds, work,
                              toNode, fromNode, node, asked, holds>>
  PROVE  Tagged' /\ Present' /\ Past' /\ Told' /\ Running' /\ Released' /\ NoLeak'
<1> USE DEF HoldInv
<1>1. /\ \A i : (Answers(i)' <=> Answers(i)) /\ (Opens(i)' <=> Opens(i))
      /\ \A i, t : Stops(i, t)' <=> Stops(i, t)
      /\ \A x : Ours(x)' <=> Ours(x)
  BY SameChannel
<1>2. Given' = Given
  BY GivenStays
<1>3. Tagged'
  BY <1>2 DEF Tagged
<1>4. Present'
  BY <1>1 DEF Present
<1>5. Past'
  BY <1>1 DEF Past
<1>6. Told' /\ Running'
  BY LetGo
<1>7. Released'
  <2>1. Resent' = Resent /\ ReleasesGoHome'
    BY DEF Resent, Released, ReleasesGoHome
  <2> QED BY <1>1, <1>2, <2>1 DEF Released
<1>8. NoLeak'
  BY DEF NoLeak
<1> QED BY <1>3, <1>4, <1>5, <1>6, <1>7, <1>8

LEMMA PauseHolds == ASSUME HoldInv, Pause PROVE Tagged' /\ Present' /\ Past' /\ Told' /\ Running' /\ Released' /\ NoLeak'
<1>1. CASE upstream = 0
  BY <1>1, HoldsStay DEF Pause, books
<1>2. CASE upstream # 0
  BY <1>2, CloseHolds DEF Pause
<1> QED BY <1>1, <1>2

LEMMA ReopenHolds ==
  ASSUME HoldInv, upstream = 0, conn = "open", OpenConnection \/ OpenFails, UNCHANGED <<conn, work, fromNode, asked, holds>>
  PROVE  Tagged' /\ Present' /\ Past' /\ Told' /\ Running' /\ Released' /\ NoLeak'
<1>1. inFlight = <<>> /\ toNode = <<>> /\ follows = {} /\ openedIds = {} /\ node.subs = {}
  BY DEF HoldInv, KeepInv, Phases
<1>2. generation' = generation + 1 /\ node'.subs = {} /\ UNCHANGED <<follows, openedIds, closedIds>>
  BY <1>1 DEF OpenConnection, OpenFails, books
<1>3. Present' /\ Told' /\ Running' /\ NoLeak' /\ \A h \in holds' : ~Ours(h)' /\ h.gen <= generation'
  BY <1>2, NothingIsOurs
<1>4. Tagged'
  <2>1. \A i \in DOMAIN work' : work'[i].do = "stop" => work'[i].gen <= generation /\ work'[i].gen \in Nat
    BY WorkIsPast
  <2> QED BY <1>1, <1>2, <1>3, <2>1, TagsStay
<1>5. \A h \in holds : ~Ours(h)
  BY DEF HoldInv, Present
<1>6. Past'
  BY <1>2, <1>5 DEF HoldInv, Past
<1>7. Released'
  <2>1. \A i \in DOMAIN Resent : Resent[i].method \notin Releasing
    BY DEF HoldInv, Released
  <2>2. CASE OpenConnection
    <3>1. toNode' = Resent /\ Resent' = <<>>
      BY <2>2 DEF OpenConnection, Resent
    <3>2. \A i \in DOMAIN toNode' : toNode'[i].method \notin Releasing
      BY <2>1, <3>1
    <3> QED BY <3>1, <3>2 DEF Released, ReleasesGoHome, Releasing
  <2>3. CASE OpenFails
    <3>1. toNode' = <<>> /\ Resent' = Resent
      BY <1>1, <2>3 DEF OpenFails, Resent, books
    <3> QED BY <2>1, <3>1 DEF Released, ReleasesGoHome
  <2> QED BY <2>2, <2>3
<1> QED BY <1>3, <1>4, <1>6, <1>7

LEMMA ResumeHolds == ASSUME HoldInv, Resume PROVE Tagged' /\ Present' /\ Past' /\ Told' /\ Running' /\ Released' /\ NoLeak'
<1>1. conn = "left" \/ conn = "open"
  BY DEF HoldInv, KeepInv, Shapes
<1>2. CASE conn = "left" \/ upstream # 0
  BY <1>2, HoldsStay DEF Resume, books
<1>3. CASE conn = "open" /\ upstream = 0
  BY <1>3, ReopenHolds DEF Resume
<1> QED BY <1>1, <1>2, <1>3

----------------------------------------------------------------------------
(* HoldInv is kept by the deliveries. *)

LEMMA DeliverHolds ==
  ASSUME HoldInv, DeliverAtPause
  PROVE  Tagged' /\ Present' /\ Past' /\ Told' /\ Running' /\ Released' /\ NoLeak'
<1> USE DEF HoldInv
<1>1. /\ work # <<>> /\ work' = Tail(work)
      /\ UNCHANGED <<paused, conn, generation, upstream, inFlight, kept, held, follows, openedIds, closedIds,
                     toNode, fromNode, node>>
  BY DEF DeliverAtPause, books
<1>2. PICK x : x = work[1]
  OBVIOUS
<1>3. /\ Head(work) = x /\ x \in Works /\ 1 \in DOMAIN work
      /\ \A i \in DOMAIN work' : i + 1 \in DOMAIN work /\ work'[i] = work[i + 1]
      /\ \A i \in DOMAIN work : i # 1 => i - 1 \in DOMAIN work' /\ work'[i - 1] = work[i]
  <2>1. work \in Seq(Works)
    BY DEF KeepInv, Shapes
  <2> QED BY <1>1, <1>2, <2>1, TailPlaces
<1>4. \/ conn = "left" /\ UNCHANGED <<asked, holds>>
      \/ conn = "open" /\ x.do = "stop" /\ HearStop(x.gen, x.token) /\ UNCHANGED asked
      \/ conn = "open" /\ x.do = "answer" /\ HearAnswer(x.n) /\ UNCHANGED holds
  BY <1>3 DEF DeliverAtPause
<1>5. /\ holds' \subseteq holds
      /\ conn = "open" /\ x.do = "stop" => holds' = {h \in holds : ~(h.gen = x.gen /\ h.token = x.token)}
      /\ \A h \in holds : h \notin holds' => x.do = "stop" /\ h.gen = x.gen
  BY <1>4 DEF HearStop
<1>6. \A h \in holds : h \notin holds' => ~Ours(h)
  <2>1. x.do = "stop" => x.gen < generation /\ x.gen \in Nat /\ generation \in Nat
    BY <1>2, <1>3 DEF Tagged, Works, KeepInv, Shapes
  <2> QED BY <1>5, <2>1 DEF Ours
<1>7. \A n \in DOMAIN asked : asked'[n].method = asked[n].method
  <2>1. asked \in Seq(Askings)
    BY DEF KeepInv, Shapes
  <2>2. CASE conn = "open" /\ x.do = "answer" /\ HearAnswer(x.n)
    <3>1. x.n \in Owed
      BY <1>2, <1>3, <2>2 DEF Owed
    <3>2. x.n \in DOMAIN asked
      BY <3>1, RequestsAreAsked DEF KeepInv
    <3> QED BY <2>1, <2>2, <3>2, AnswerCounts
  <2> QED BY <1>4, <2>2
<1>8. /\ \A i : (Answers(i)' <=> Answers(i)) /\ (Opens(i)' <=> Opens(i))
      /\ \A i, t : Stops(i, t)' <=> Stops(i, t)
      /\ \A h : Ours(h)' <=> Ours(h)
  BY <1>1, SameChannel
<1>9. Given' = Given
  BY <1>1, GivenStays
<1>10. Tagged'
  <2>1. work' # <<>> => openedIds' = {}
    BY <1>1 DEF Tagged
  <2>2. \A i \in DOMAIN work' : work'[i].do = "stop" => work'[i].gen < generation'
    BY <1>1, <1>3 DEF Tagged
  <2>3. openedIds' \subseteq Given' /\ follows' \subseteq openedIds'
    BY <1>1, <1>9 DEF Tagged
  <2>4. \A h \in holds' : h.gen <= generation' /\ h.token[1] = Tag(h.gen)
    BY <1>1, <1>5 DEF Tagged
  <2>5. \A h, y \in holds' : h.token = y.token => h = y
    BY <1>5 DEF Tagged
  <2> QED BY <2>1, <2>2, <2>3, <2>4, <2>5 DEF Tagged, Tag
<1>11. Present'
  BY <1>1, <1>5, <1>8 DEF Present
<1>12. Past'
  <2>1. ASSUME conn = "open", NEW h \in holds', ~Ours(h), h.kind = "follow"
        PROVE  \E i \in DOMAIN work' : work'[i].do = "stop" /\ work'[i].gen = h.gen /\ work'[i].token = h.token
    <3>1. PICK i \in DOMAIN work : work[i].do = "stop" /\ work[i].gen = h.gen /\ work[i].token = h.token
      BY <1>5, <2>1 DEF Past
    <3>2. i # 1
      BY <1>2, <1>5, <2>1, <3>1
    <3> QED BY <1>3, <3>1, <3>2
  <2> QED BY <1>1, <1>5, <1>8, <2>1 DEF Past
<1>13. Told' /\ Running'
  BY <1>1, <1>5, <1>7, LetGo
<1>14. Released'
  <2>1. Resent' = Resent /\ ReleasesGoHome'
    BY <1>1 DEF Resent, Released, ReleasesGoHome
  <2> QED BY <1>1, <1>5, <1>8, <1>9, <2>1 DEF Released
<1>15. NoLeak'
  BY <1>1, <1>6 DEF NoLeak, Ours
<1> QED BY <1>10, <1>11, <1>12, <1>13, <1>14, <1>15

\* The messages that are left once the first is taken.
LEMMA ChannelShifts ==
  ASSUME KeepInv, fromNode # <<>>, fromNode' = Tail(fromNode), UNCHANGED generation
  PROVE  /\ 1 \in DOMAIN fromNode /\ fromNode[1] \in Messages
         /\ \A i \in DOMAIN fromNode' : i \in Nat /\ i + 1 \in DOMAIN fromNode /\ i + 1 # 1 /\ fromNode'[i] = fromNode[i + 1]
         /\ \A i \in DOMAIN fromNode : i \in Nat /\ (i # 1 => i - 1 \in DOMAIN fromNode' /\ fromNode'[i - 1] = fromNode[i])
         /\ \A i \in DOMAIN fromNode' : (Answers(i)' <=> Answers(i + 1)) /\ (Opens(i)' <=> Opens(i + 1))
         /\ \A i \in DOMAIN fromNode : \A t : i # 1 /\ Stops(i, t) => Stops(i - 1, t)'
         /\ \A h : Ours(h)' <=> Ours(h)
<1>1. /\ 1 \in DOMAIN fromNode /\ fromNode[1] \in Messages
      /\ \A i \in DOMAIN fromNode' : i \in Nat /\ i + 1 \in DOMAIN fromNode /\ i + 1 # 1 /\ fromNode'[i] = fromNode[i + 1]
      /\ \A i \in DOMAIN fromNode : i \in Nat /\ (i # 1 => i - 1 \in DOMAIN fromNode' /\ fromNode'[i - 1] = fromNode[i])
  <2>1. fromNode \in Seq(Messages)
    BY DEF KeepInv, Shapes
  <2> QED BY <2>1, TailPlaces
<1>2. \A i \in DOMAIN fromNode' : (Answers(i)' <=> Answers(i + 1)) /\ (Opens(i)' <=> Opens(i + 1))
  BY <1>1 DEF Answers, Opens
<1>3. \A i \in DOMAIN fromNode : \A t : i # 1 /\ Stops(i, t) => Stops(i - 1, t)'
  BY <1>1 DEF Stops
<1>4. \A h : Ours(h)' <=> Ours(h)
  BY DEF Ours
<1> QED BY <1>1, <1>2, <1>3, <1>4

\* What is taken is no stop of a holding that stays, and no id.
LEMMA ShiftedRuns ==
  ASSUME HoldInv, fromNode # <<>>, fromNode' = Tail(fromNode), UNCHANGED <<generation, node>>,
         \A n \in DOMAIN asked : asked'[n].method = asked[n].method,
         \A i \in DOMAIN fromNode : i # 1 /\ Opens(i) => \A h \in holds' : Ours(h) => h.token # fromNode[i].token
  PROVE  Told' /\ Running'
<1> USE DEF HoldInv
<1>1. Given' = Given
  BY GivenStays
<1>2. \A i \in DOMAIN fromNode : Answers(i) => asked'[fromNode[i].n].method = asked[fromNode[i].n].method
  BY ToldMethods
<1>3. /\ \A i \in DOMAIN fromNode' : i \in Nat /\ i + 1 \in DOMAIN fromNode /\ i + 1 # 1 /\ fromNode'[i] = fromNode[i + 1]
      /\ \A i \in DOMAIN fromNode : i \in Nat /\ (i # 1 => i - 1 \in DOMAIN fromNode' /\ fromNode'[i - 1] = fromNode[i])
      /\ \A i \in DOMAIN fromNode' : (Answers(i)' <=> Answers(i + 1)) /\ (Opens(i)' <=> Opens(i + 1))
      /\ \A i \in DOMAIN fromNode : \A t : i # 1 /\ Stops(i, t) => Stops(i - 1, t)'
      /\ \A h : Ours(h)' <=> Ours(h)
  BY ChannelShifts
<1>4. ASSUME NEW i \in DOMAIN fromNode', Opens(i)'
      PROVE  /\ fromNode'[i].token \in Given'
             /\ \A h \in holds' : Ours(h)' => h.token # fromNode'[i].token
             /\ asked'[fromNode'[i].n].method = "follow" =>
                  \/ \E x \in node'.subs : x.token = fromNode'[i].token
                  \/ \E j \in DOMAIN fromNode' : /\ j > i /\ fromNode'[j].msg = "stop" /\ fromNode'[j].gen = generation'
                                                /\ fromNode'[j].token = fromNode'[i].token
  <2>1. PICK k \in DOMAIN fromNode : k = i + 1
    BY <1>3
  <2>2. k # 1 /\ Opens(k) /\ fromNode'[i] = fromNode[k] /\ i \in Nat
    BY <1>3, <1>4, <2>1
  <2>3. asked'[fromNode[k].n].method = asked[fromNode[k].n].method
    BY <1>2, <2>2 DEF Opens
  <2>4. ASSUME NEW j \in DOMAIN fromNode, j > k, Stops(j, fromNode[k].token)
        PROVE  \E l \in DOMAIN fromNode' : /\ l > i /\ fromNode'[l].msg = "stop" /\ fromNode'[l].gen = generation'
                                            /\ fromNode'[l].token = fromNode'[i].token
    <3>1. j \in Nat /\ j # 1 /\ j - 1 > i
      BY <1>3, <2>1, <2>2, <2>4
    <3>2. j - 1 \in DOMAIN fromNode' /\ fromNode'[j - 1] = fromNode[j]
      BY <1>3, <3>1
    <3> QED BY <2>2, <2>4, <3>1, <3>2 DEF Stops
  <2>5. PICK t : t = fromNode[k].token
    OBVIOUS
  <2>6. /\ t \in Given /\ \A h \in holds' : Ours(h) => h.token # t
        /\ asked[fromNode[k].n].method = "follow" =>
             \/ \E x \in node.subs : x.token = t
             \/ \E j \in DOMAIN fromNode : j > k /\ Stops(j, t)
    BY <2>2, <2>5 DEF Told
  <2> QED BY <1>1, <1>3, <2>2, <2>3, <2>4, <2>5, <2>6
<1>5. ASSUME NEW i \in DOMAIN fromNode', NEW j \in DOMAIN fromNode', Opens(i)', Opens(j)',
             fromNode'[i].token = fromNode'[j].token
      PROVE  i = j
  <2>1. i + 1 = j + 1
    BY <1>3, <1>5 DEF Told
  <2> QED BY <1>3, <2>1
<1>6. Told'
  BY <1>4, <1>5 DEF Told, Stops
<1>7. Running'
  BY <1>1, <1>3 DEF Running
<1> QED BY <1>6, <1>7

LEMMA ReceiveAnswerHolds ==
  ASSUME HoldInv, StaysApart, NEW m \in Messages, work = <<>>, fromNode # <<>>, fromNode' = Tail(fromNode),
         m = fromNode[1], m.gen = generation, ReceiveAnswer(m),
         UNCHANGED <<paused, conn, generation, upstream, kept, held, closedIds, work, toNode, node>>
  PROVE  Tagged' /\ Present' /\ Past' /\ Told' /\ Running' /\ Released' /\ NoLeak'
<1> USE DEF HoldInv
<1>1. PICK t, n, k : t = m.token /\ n = m.n /\ k = asked[n].method
  OBVIOUS
<1>2. 1 \in DOMAIN fromNode /\ Answers(1)
  BY ChannelShifts DEF ReceiveAnswer, Answers
<1>3. n \in Ids(inFlight) /\ upstream # 0 /\ conn = "open" /\ (t # None => k \in Opening \cap Methods)
  BY <1>1, <1>2 DEF KeepInv, Channel, Answers, Phases
<1>4. n \in DOMAIN asked /\ \A i \in DOMAIN asked : asked'[i].method = asked[i].method
  <2>1. n \in DOMAIN asked /\ asked \in Seq(Askings)
    BY <1>3, RequestsAreAsked DEF KeepInv, Shapes
  <2> QED BY <1>1, <2>1, AnswerCounts DEF ReceiveAnswer
<1>5. PICK hn : hn = [gen |-> generation, token |-> t, kind |-> k]
  OBVIOUS
<1>6. /\ \A h \in holds' : h \in holds \/ (h = hn /\ t # None)
      /\ holds \subseteq holds' /\ (t # None => hn \in holds')
      /\ \A x \in openedIds' : x \in openedIds \/ (x = t /\ t # None)
      /\ openedIds \subseteq openedIds' /\ (t # None => t \in openedIds')
      /\ \A x \in follows' : x \in follows \/ (x = t /\ t # None)
      /\ follows \subseteq follows' /\ (t # None /\ k = "follow" => t \in follows')
  BY <1>1, <1>3, <1>5 DEF ReceiveAnswer, NoteAnswer
<1>7. hn.gen = generation /\ hn.token = t /\ hn.kind = k
  BY <1>5
<1>8. ASSUME t # None
      PROVE  /\ t \in Given /\ \A h \in holds : h.token # t
             /\ k = "follow" => \/ \E x \in node.subs : x.token = t
                                \/ \E j \in DOMAIN fromNode : j > 1 /\ Stops(j, t)
             /\ \A i \in DOMAIN fromNode : i # 1 /\ Opens(i) => fromNode[i].token # t
  <2>1. Opens(1) /\ fromNode[1].token = t /\ fromNode[1].n = n
    BY <1>1, <1>2, <1>8 DEF Opens
  <2>2. t \in Given /\ \A h \in holds : Ours(h) => h.token # t
    BY <1>2, <2>1 DEF Told
  <2>3. \A h \in holds : ~Ours(h) => h.token # t
    BY <1>3, <2>2, PastIsApart
  <2>4. k = "follow" => \/ \E x \in node.subs : x.token = t
                        \/ \E j \in DOMAIN fromNode : j > 1 /\ Stops(j, t)
    BY <1>1, <1>2, <2>1 DEF Told
  <2>5. \A i \in DOMAIN fromNode : i # 1 /\ Opens(i) => fromNode[i].token # t
    BY <1>2, <2>1 DEF Told
  <2> QED BY <2>2, <2>3, <2>4, <2>5
<1>9. /\ \A i \in DOMAIN fromNode' : i \in Nat /\ i + 1 \in DOMAIN fromNode /\ i + 1 # 1 /\ fromNode'[i] = fromNode[i + 1]
      /\ \A i \in DOMAIN fromNode : i \in Nat /\ (i # 1 => i - 1 \in DOMAIN fromNode' /\ fromNode'[i - 1] = fromNode[i])
      /\ \A i \in DOMAIN fromNode' : (Answers(i)' <=> Answers(i + 1)) /\ (Opens(i)' <=> Opens(i + 1))
      /\ \A i \in DOMAIN fromNode : \A x : i # 1 /\ Stops(i, x) => Stops(i - 1, x)'
      /\ \A h : Ours(h)' <=> Ours(h)
  BY ChannelShifts
<1>10. Given' = Given
  BY GivenStays
<1>11. Tagged'
  <2>1. \A h \in holds' : h.gen <= generation' /\ h.token[1] = Tag(h.gen)
    <3>1. generation <= generation
      BY DEF KeepInv, Shapes
    <3>2. t # None => t[1] = Tag(generation)
      BY <1>8, GivenIsTagged DEF KeepInv
    <3> QED BY <1>6, <1>7, <3>1, <3>2 DEF Tagged
  <2>2. openedIds' \subseteq Given'
    BY <1>6, <1>8, <1>10 DEF Tagged
  <2>3. follows' \subseteq openedIds'
    BY <1>6 DEF Tagged
  <2>4. \A h, x \in holds' : h.token = x.token => h = x
    BY <1>6, <1>7, <1>8 DEF Tagged
  <2> QED BY <2>1, <2>2, <2>3, <2>4 DEF Tagged, Tag
<1>12. Present'
  <2>1. ASSUME NEW h \in holds', Ours(h)
        PROVE  /\ upstream' # 0 /\ h.token \in openedIds'
               /\ h.kind = "follow" => /\ h.token \in follows'
                                       /\ \/ \E x \in node'.subs : x.token = h.token
                                          \/ \E i \in DOMAIN fromNode' : Stops(i, h.token)'
    <3>1. PICK y : y = h.token
      OBVIOUS
    <3>2. /\ y \in openedIds'
          /\ h.kind = "follow" => /\ y \in follows'
                                  /\ \/ \E x \in node.subs : x.token = y
                                     \/ \E i \in DOMAIN fromNode : i # 1 /\ Stops(i, y)
      <4>1. CASE h \in holds
        <5>1. ~Stops(1, y)
          BY <1>2 DEF Stops, Answers
        <5> QED BY <1>6, <2>1, <3>1, <4>1, <5>1 DEF Present
      <4>2. CASE h = hn /\ t # None
        <5>1. \A j \in DOMAIN fromNode : j > 1 => j # 1
          BY <1>9
        <5> QED BY <1>6, <1>7, <1>8, <3>1, <4>2, <5>1
      <4> QED BY <1>6, <4>1, <4>2
    <3>3. ASSUME NEW i \in DOMAIN fromNode, i # 1, Stops(i, y) PROVE \E j \in DOMAIN fromNode' : Stops(j, y)'
      BY <1>9, <3>3
    <3> QED BY <1>3, <3>1, <3>2, <3>3
  <2> QED BY <1>9, <2>1 DEF Present
<1>13. Past'
  <2>1. \A h \in holds' : ~Ours(h) => h \in holds
    BY <1>6, <1>7 DEF Ours
  <2> QED BY <1>9, <2>1 DEF Past
<1>14. Told' /\ Running'
  <2>1. \A i \in DOMAIN fromNode : i # 1 /\ Opens(i) => \A h \in holds' : Ours(h) => h.token # fromNode[i].token
    BY <1>6, <1>7, <1>8 DEF Told
  <2> QED BY <1>4, <2>1, ShiftedRuns
<1>15. Released'
  <2>1. ReleasesGoHome' /\ Resent' = Resent
    BY DEF Released, ReleasesGoHome, Resent
  <2>2. ASSUME NEW i \in DOMAIN toNode, toNode[i].method = "release"
        PROVE  /\ toNode[i].token \in Given
               /\ \A h \in holds' : Ours(h) => h.token # toNode[i].token
               /\ \A j \in DOMAIN fromNode' : Answers(j)' => fromNode'[j].token # toNode[i].token
    <3>1. t # toNode[i].token
      BY <1>1, <1>2, <2>2 DEF Released
    <3>2. \A j \in DOMAIN fromNode' : Answers(j)' => fromNode'[j].token # toNode[i].token
      BY <1>9, <2>2 DEF Released
    <3> QED BY <1>6, <1>7, <2>2, <3>1, <3>2 DEF Released
  <2> QED BY <1>9, <1>10, <2>1, <2>2 DEF Released
<1>16. NoLeak'
  <2>1. ASSUME NEW x \in node.subs
        PROVE  \/ \E h \in holds' : h.gen = generation /\ h.token = x.token
               \/ \E i \in DOMAIN fromNode' : fromNode'[i].msg = "answer" /\ fromNode'[i].gen = generation
                                              /\ fromNode'[i].token = x.token
               \/ \E i \in DOMAIN toNode : toNode[i].method = "release" /\ toNode[i].token = x.token
    <3>1. ASSUME NEW i \in DOMAIN fromNode, fromNode[i].msg = "answer", fromNode[i].gen = generation,
                 fromNode[i].token = x.token, i # 1
          PROVE  \E j \in DOMAIN fromNode' : fromNode'[j].msg = "answer" /\ fromNode'[j].gen = generation
                                             /\ fromNode'[j].token = x.token
      BY <1>9, <3>1
    <3>2. x.token # None
      BY <2>1, GivenIsTagged DEF Running, KeepInv
    <3>3. fromNode[1].token = x.token => \E h \in holds' : h.gen = generation /\ h.token = x.token
      BY <1>1, <1>6, <1>7, <3>2
    <3> QED BY <1>6, <2>1, <3>1, <3>3 DEF NoLeak
  <2> QED BY <2>1 DEF NoLeak
<1> QED BY <1>11, <1>12, <1>13, <1>14, <1>15, <1>16

\* A stop, or a message of a closed connection.
LEMMA ReceiveStopHolds ==
  ASSUME HoldInv, work = <<>>, fromNode # <<>>, fromNode' = Tail(fromNode),
         \/ fromNode[1].gen = generation /\ ReceiveStop(fromNode[1])
         \/ fromNode[1].gen # generation /\ UNCHANGED <<inFlight, follows, openedIds, asked, holds>>,
         UNCHANGED <<paused, conn, generation, upstream, kept, held, closedIds, work, toNode, node>>
  PROVE  Tagged' /\ Present' /\ Past' /\ Told' /\ Running' /\ Released' /\ NoLeak'
<1> USE DEF HoldInv
<1>1. PICK m, t : m = fromNode[1] /\ t = m.token
  OBVIOUS
<1>2. 1 \in DOMAIN fromNode /\ m \in Messages
  BY <1>1, ChannelShifts
<1>3. /\ holds' \subseteq holds /\ openedIds' \subseteq openedIds /\ follows' \subseteq follows
      /\ \A x \in openedIds \ openedIds' : Stops(1, t) /\ x = t
      /\ \A x \in follows \ follows' : Stops(1, t) /\ x = t
      /\ \A h \in holds \ holds' : Stops(1, t) /\ h.gen = generation /\ h.token = t
      /\ Stops(1, t) => /\ openedIds' = openedIds \ {t} /\ follows' = follows \ {t}
                        /\ \A h \in holds' : ~(h.gen = generation /\ h.token = t)
  <2>1. CASE fromNode[1].gen = generation /\ ReceiveStop(fromNode[1])
    BY <1>1, <2>1 DEF ReceiveStop, ForgetStopped, HearStop, Stops
  <2>2. CASE fromNode[1].gen # generation /\ UNCHANGED <<inFlight, follows, openedIds, asked, holds>>
    BY <1>1, <2>2 DEF Stops
  <2> QED BY <2>1, <2>2
<1>4. ~Answers(1) /\ UNCHANGED asked
  <2>1. CASE fromNode[1].gen = generation /\ ReceiveStop(fromNode[1])
    BY <1>1, <2>1 DEF ReceiveStop, Answers
  <2>2. CASE fromNode[1].gen # generation /\ UNCHANGED <<inFlight, follows, openedIds, asked, holds>>
    BY <1>1, <2>2 DEF Answers
  <2> QED BY <2>1, <2>2
<1>5. /\ \A i \in DOMAIN fromNode' : i \in Nat /\ i + 1 \in DOMAIN fromNode /\ i + 1 # 1 /\ fromNode'[i] = fromNode[i + 1]
      /\ \A i \in DOMAIN fromNode : i \in Nat /\ (i # 1 => i - 1 \in DOMAIN fromNode' /\ fromNode'[i - 1] = fromNode[i])
      /\ \A i \in DOMAIN fromNode' : (Answers(i)' <=> Answers(i + 1)) /\ (Opens(i)' <=> Opens(i + 1))
      /\ \A i \in DOMAIN fromNode : \A x : i # 1 /\ Stops(i, x) => Stops(i - 1, x)'
      /\ \A h : Ours(h)' <=> Ours(h)
  BY ChannelShifts
<1>6. Given' = Given
  BY GivenStays
<1>7. Tagged'
  <2>1. openedIds' \subseteq Given' /\ follows' \subseteq openedIds'
    BY <1>3, <1>6 DEF Tagged
  <2>2. \A h \in holds' : h.gen <= generation' /\ h.token[1] = Tag(h.gen)
    BY <1>3 DEF Tagged
  <2>3. \A h, x \in holds' : h.token = x.token => h = x
    BY <1>3 DEF Tagged
  <2> QED BY <2>1, <2>2, <2>3 DEF Tagged, Tag
<1>8. Present'
  <2>1. ASSUME NEW h \in holds', Ours(h)
        PROVE  /\ upstream' # 0 /\ h.token \in openedIds'
               /\ h.kind = "follow" => /\ h.token \in follows'
                                       /\ \/ \E x \in node'.subs : x.token = h.token
                                          \/ \E i \in DOMAIN fromNode' : Stops(i, h.token)'
    <3>1. PICK y : y = h.token
      OBVIOUS
    <3>2. Stops(1, y) => y = t
      BY <1>1 DEF Stops
    <3>3. ~Stops(1, y)
      <4>1. Stops(1, t) => y # t
        BY <1>3, <2>1, <3>1 DEF Ours
      <4> QED BY <3>2, <4>1
    <3>4. /\ upstream # 0 /\ y \in openedIds
          /\ h.kind = "follow" => /\ y \in follows
                                  /\ \/ \E x \in node.subs : x.token = y
                                     \/ \E i \in DOMAIN fromNode : Stops(i, y)
      BY <1>3, <2>1, <3>1 DEF Present
    <3>5. \A i \in DOMAIN fromNode : Stops(i, y) => i # 1 /\ i - 1 \in DOMAIN fromNode' /\ Stops(i - 1, y)'
      BY <1>5, <3>3
    <3>6. y \in openedIds' /\ (y \in follows => y \in follows')
      <4>1. Stops(1, t) => y # t
        BY <1>3, <2>1, <3>1 DEF Ours
      <4> QED BY <1>3, <3>4, <4>1
    <3> QED BY <3>1, <3>4, <3>5, <3>6
  <2> QED BY <1>5, <2>1 DEF Present
<1>9. Past'
  BY <1>3, <1>5 DEF Past
<1>10. Told' /\ Running'
  <2>1. \A i \in DOMAIN fromNode : i # 1 /\ Opens(i) => \A h \in holds' : Ours(h) => h.token # fromNode[i].token
    BY <1>3 DEF Told
  <2> QED BY <1>4, <2>1, ShiftedRuns
<1>11. Released'
  <2>1. ReleasesGoHome' /\ Resent' = Resent
    BY DEF Released, ReleasesGoHome, Resent
  <2>2. ASSUME NEW i \in DOMAIN toNode, toNode[i].method = "release"
        PROVE  /\ toNode[i].token \in Given
               /\ \A h \in holds' : Ours(h) => h.token # toNode[i].token
               /\ \A j \in DOMAIN fromNode' : Answers(j)' => fromNode'[j].token # toNode[i].token
    BY <1>3, <1>5, <2>2 DEF Released
  <2> QED BY <1>5, <1>6, <2>1, <2>2 DEF Released
<1>12. NoLeak'
  <2>1. ASSUME NEW x \in node.subs
        PROVE  \/ \E h \in holds' : h.gen = generation /\ h.token = x.token
               \/ \E i \in DOMAIN fromNode' : fromNode'[i].msg = "answer" /\ fromNode'[i].gen = generation
                                              /\ fromNode'[i].token = x.token
               \/ \E i \in DOMAIN toNode : toNode[i].method = "release" /\ toNode[i].token = x.token
    <3>1. ASSUME NEW i \in DOMAIN fromNode, fromNode[i].msg = "answer", fromNode[i].gen = generation,
                 fromNode[i].token = x.token
          PROVE  \E j \in DOMAIN fromNode' : fromNode'[j].msg = "answer" /\ fromNode'[j].gen = generation
                                             /\ fromNode'[j].token = x.token
      <4>1. i # 1
        BY <1>4, <3>1 DEF Answers
      <4>2. PICK j : j = i - 1
        OBVIOUS
      <4>3. j \in DOMAIN fromNode' /\ fromNode'[j] = fromNode[i]
        BY <1>5, <4>1, <4>2
      <4> QED BY <3>1, <4>3
    <3>2. Stops(1, t) => x.token # t
      BY <1>1, <1>2, <2>1 DEF Running, Stops
    <3> QED BY <1>3, <2>1, <3>1, <3>2 DEF NoLeak
  <2> QED BY <2>1 DEF NoLeak
<1> QED BY <1>7, <1>8, <1>9, <1>10, <1>11, <1>12

LEMMA ReceiveHolds ==
  ASSUME HoldInv, StaysApart, Receive
  PROVE  Tagged' /\ Present' /\ Past' /\ Told' /\ Running' /\ Released' /\ NoLeak'
<1>1. PICK m : m = fromNode[1]
  OBVIOUS
<1>2. /\ work = <<>> /\ fromNode # <<>> /\ fromNode' = Tail(fromNode) /\ m \in Messages
      /\ UNCHANGED <<paused, conn, generation, upstream, kept, held, closedIds, work, toNode, node>>
      /\ \/ m.gen = generation /\ ReceiveAnswer(m)
         \/ m.gen = generation /\ ReceiveStop(m)
         \/ m.gen # generation /\ UNCHANGED <<inFlight, follows, openedIds, asked, holds>>
  BY <1>1, ReceiveCases DEF HoldInv
<1>3. CASE m.gen = generation /\ ReceiveAnswer(m)
  BY <1>1, <1>2, <1>3, ReceiveAnswerHolds
<1>4. CASE m.gen = generation /\ ReceiveStop(m)
  BY <1>1, <1>2, <1>4, ReceiveStopHolds
<1>5. CASE m.gen # generation /\ UNCHANGED <<inFlight, follows, openedIds, asked, holds>>
  BY <1>1, <1>2, <1>5, ReceiveStopHolds
<1> QED BY <1>2, <1>3, <1>4, <1>5

----------------------------------------------------------------------------
(* HoldInv is kept by the node. *)

\* A message more.
LEMMA ChannelGrows ==
  ASSUME Shapes, NEW m \in Messages, m.gen = generation, fromNode' = Append(fromNode, m), UNCHANGED generation,
         NEW L, L = Len(fromNode) + 1
  PROVE  /\ L \in DOMAIN fromNode' /\ fromNode'[L] = m
         /\ \A i \in DOMAIN fromNode : i \in DOMAIN fromNode' /\ fromNode'[i] = fromNode[i] /\ i < L
         /\ \A i \in DOMAIN fromNode' : i = L \/ i \in DOMAIN fromNode
         /\ \A i \in DOMAIN fromNode : (Answers(i)' <=> Answers(i)) /\ (Opens(i)' <=> Opens(i))
         /\ \A i \in DOMAIN fromNode : \A t : Stops(i, t)' <=> Stops(i, t)
         /\ Answers(L)' <=> m.msg = "answer"
         /\ Opens(L)' <=> m.msg = "answer" /\ m.token # None
         /\ \A t : Stops(L, t)' <=> m.msg = "stop" /\ m.token = t
         /\ \A h : Ours(h)' <=> Ours(h)
<1>1. /\ L \in DOMAIN fromNode' /\ fromNode'[L] = m
      /\ \A i \in DOMAIN fromNode : i \in DOMAIN fromNode' /\ fromNode'[i] = fromNode[i] /\ i < L
      /\ \A i \in DOMAIN fromNode' : i = L \/ i \in DOMAIN fromNode
  <2>1. fromNode \in Seq(Messages)
    BY DEF Shapes
  <2> QED BY <2>1, AppendPlaces
<1>2. \A i \in DOMAIN fromNode : (Answers(i)' <=> Answers(i)) /\ (Opens(i)' <=> Opens(i))
  BY <1>1 DEF Answers, Opens
<1>3. \A i \in DOMAIN fromNode : \A t : Stops(i, t)' <=> Stops(i, t)
  BY <1>1 DEF Stops
<1>4. /\ Answers(L)' <=> m.msg = "answer"
      /\ Opens(L)' <=> m.msg = "answer" /\ m.token # None
  BY <1>1 DEF Answers, Opens
<1>5. \A t : Stops(L, t)' <=> m.msg = "stop" /\ m.token = t
  BY <1>1 DEF Stops
<1>6. \A h : Ours(h)' <=> Ours(h)
  BY DEF Ours
<1> QED BY <1>1, <1>2, <1>3, <1>4, <1>5, <1>6

\* What is unchanged when the node takes a step.
NodeLeaves ==
  UNCHANGED <<paused, conn, generation, upstream, inFlight, kept, held, follows, openedIds, closedIds, work, asked, holds>>

\* The parts about the books and what is held, when the node adds a message and no subscription of a holding goes but
\* with its stop.
LEMMA NodeKeepsBooks ==
  ASSUME HoldInv, NEW m \in Messages, m.gen = generation, fromNode' = Append(fromNode, m), NodeLeaves,
         Given \subseteq Given',
         \A h \in holds : Ours(h) /\ h.kind = "follow" =>
           \A x \in node.subs : x.token = h.token => x \in node'.subs \/ (m.msg = "stop" /\ m.token = h.token)
  PROVE  Tagged' /\ Present' /\ Past'
<1> USE DEF HoldInv, NodeLeaves
<1>1. PICK L : L = Len(fromNode) + 1
  OBVIOUS
<1>2. /\ L \in DOMAIN fromNode'
      /\ \A i \in DOMAIN fromNode : i \in DOMAIN fromNode'
      /\ \A i \in DOMAIN fromNode : \A t : Stops(i, t)' <=> Stops(i, t)
      /\ \A t : Stops(L, t)' <=> m.msg = "stop" /\ m.token = t
      /\ \A h : Ours(h)' <=> Ours(h)
  BY <1>1, ChannelGrows DEF KeepInv
<1>3. Tagged'
  BY DEF Tagged, Tag
<1>4. Present'
  <2>1. ASSUME NEW h \in holds, Ours(h)
        PROVE  /\ upstream # 0 /\ h.token \in openedIds
               /\ h.kind = "follow" => /\ h.token \in follows
                                       /\ \/ \E x \in node'.subs : x.token = h.token
                                          \/ \E i \in DOMAIN fromNode' : Stops(i, h.token)'
    <3>1. PICK t : t = h.token
      OBVIOUS
    <3>2. /\ upstream # 0 /\ t \in openedIds
          /\ h.kind = "follow" => /\ t \in follows
                                  /\ \/ \E x \in node.subs : x.token = t
                                     \/ \E i \in DOMAIN fromNode : Stops(i, t)
      BY <2>1, <3>1 DEF Present
    <3>3. ASSUME h.kind = "follow", NEW x \in node.subs, x.token = t
          PROVE  x \in node'.subs \/ Stops(L, t)'
      BY <1>2, <2>1, <3>1, <3>3
    <3> QED BY <1>2, <3>1, <3>2, <3>3
  <2> QED BY <1>2, <2>1 DEF Present
<1>5. Past'
  BY <1>2 DEF Past
<1> QED BY <1>3, <1>4, <1>5

LEMMA NodeReadsHolds ==
  ASSUME HoldInv, NodeReads
  PROVE  Tagged' /\ Present' /\ Past' /\ Told' /\ Running' /\ Released' /\ NoLeak'
<1> USE DEF HoldInv
<1>1. PICK q \in Requests, token \in Names : Reads(q, token)
  BY NodeReadsCases
<1>2. PICK m : m = [msg |-> "answer", gen |-> generation, n |-> q.n, token |-> token]
  OBVIOUS
<1>3. m \in Messages /\ m.msg = "answer" /\ m.gen = generation /\ m.n = q.n /\ m.token = token
  BY <1>1, <1>2 DEF Messages, Requests, KeepInv, Shapes
<1>4. fromNode' = Append(fromNode, m) /\ NodeLeaves
  BY <1>1, <1>2 DEF Reads, NodeLeaves
<1>5. PICK L : L = Len(fromNode) + 1
  OBVIOUS
<1>6. /\ L \in DOMAIN fromNode' /\ fromNode'[L] = m
      /\ \A i \in DOMAIN fromNode : i \in DOMAIN fromNode' /\ fromNode'[i] = fromNode[i] /\ i < L
      /\ \A i \in DOMAIN fromNode' : i = L \/ i \in DOMAIN fromNode
      /\ \A i \in DOMAIN fromNode : (Answers(i)' <=> Answers(i)) /\ (Opens(i)' <=> Opens(i))
      /\ \A i \in DOMAIN fromNode : \A t : Stops(i, t)' <=> Stops(i, t)
      /\ Answers(L)' /\ (Opens(L)' <=> token # None)
      /\ \A t : ~Stops(L, t)'
      /\ \A h : Ours(h)' <=> Ours(h)
  BY <1>3, <1>4, <1>5, ChannelGrows DEF KeepInv, NodeLeaves
<1>7. /\ toNode # <<>> /\ q = toNode[1] /\ 1 \in DOMAIN toNode
      /\ \A i \in DOMAIN toNode' : i + 1 \in DOMAIN toNode /\ i + 1 # 1 /\ toNode'[i] = toNode[i + 1]
      /\ \A i \in DOMAIN toNode : i # 1 => i - 1 \in DOMAIN toNode' /\ toNode'[i - 1] = toNode[i]
  <2>1. toNode \in Seq(Requests) /\ toNode # <<>> /\ toNode' = Tail(toNode) /\ q = toNode[1]
    BY <1>1 DEF KeepInv, Shapes, Reads
  <2> QED BY <2>1, TailPlaces
<1>8. upstream # 0 /\ asked[q.n].method = q.method
  BY <1>7 DEF KeepInv, Phases, Known, Match
\* The id that is issued is new, and the subscription that is released is held by nobody.
<1>9. PICK fresh : fresh = Issued(node.issued + 1)
  OBVIOUS
<1>10. fresh \notin Given /\ fresh # None
  BY <1>9, GivenIsTagged DEF KeepInv
<1>11. \/ /\ token = None /\ Given' = Given
          /\ node'.subs = IF q.method = "release" THEN {x \in node.subs : x.token # q.token} ELSE node.subs
       \/ /\ token = fresh /\ q.method \in Opening \cap Methods /\ Given' = Given \cup {fresh}
          /\ node'.subs = node.subs \cup {[token |-> fresh, kind |-> q.method]}
  BY <1>1, <1>9, GivenStays, GivenGrows DEF Reads, KeepInv
<1>12. q.method = "release" => /\ q.token \in Given
                               /\ \A h \in holds : Ours(h) => h.token # q.token
                               /\ \A j \in DOMAIN fromNode : Answers(j) => fromNode[j].token # q.token
  BY <1>7 DEF Released
<1>13. /\ Given \subseteq Given' /\ (token # None => token \in Given' /\ token \notin Given)
       /\ \A x \in node'.subs : x \in node.subs \/ (x.token = token /\ token # None)
       /\ \A x \in node.subs : x \in node'.subs \/ (q.method = "release" /\ x.token = q.token)
       /\ token # None => \E x \in node'.subs : x.token = token
       /\ q.method = "release" => /\ token = None
                                  /\ \A x \in node'.subs : x.token # q.token
  <2>1. CASE /\ token = None /\ Given' = Given
             /\ node'.subs = IF q.method = "release" THEN {x \in node.subs : x.token # q.token} ELSE node.subs
    BY <2>1
  <2>2. CASE /\ token = fresh /\ q.method \in Opening \cap Methods /\ Given' = Given \cup {fresh}
             /\ node'.subs = node.subs \cup {[token |-> fresh, kind |-> q.method]}
    <3>1. [token |-> fresh, kind |-> q.method].token = fresh
      OBVIOUS
    <3>2. q.method # "release"
      BY <2>2 DEF Opening
    <3> QED BY <1>10, <2>2, <3>1, <3>2
  <2> QED BY <1>11, <2>1, <2>2
<1>14. Tagged' /\ Present' /\ Past'
  <2>1. \A h \in holds : Ours(h) /\ h.kind = "follow" => \A x \in node.subs : x.token = h.token => x \in node'.subs
    BY <1>12, <1>13
  <2> QED BY <1>3, <1>4, <1>13, <2>1, NodeKeepsBooks
<1>15. Told'
  <2>1. ASSUME NEW i \in DOMAIN fromNode, Opens(i), NEW t, t = fromNode[i].token
        PROVE  /\ t \in Given /\ \A h \in holds : Ours(h) => h.token # t
               /\ asked[fromNode[i].n].method = "follow" =>
                    \/ \E x \in node'.subs : x.token = t
                    \/ \E j \in DOMAIN fromNode' : j > i /\ Stops(j, t)'
    <3>1. q.method = "release" => t # q.token
      BY <1>12, <2>1 DEF Opens
    <3>2. /\ t \in Given /\ \A h \in holds : Ours(h) => h.token # t
          /\ asked[fromNode[i].n].method = "follow" =>
               \/ \E x \in node.subs : x.token = t
               \/ \E j \in DOMAIN fromNode : j > i /\ Stops(j, t)
      BY <2>1 DEF Told
    <3>3. (\E x \in node.subs : x.token = t) => \E x \in node'.subs : x.token = t
      BY <1>13, <3>1
    <3>4. (\E j \in DOMAIN fromNode : j > i /\ Stops(j, t)) => \E j \in DOMAIN fromNode' : j > i /\ Stops(j, t)'
      BY <1>6
    <3> QED BY <3>2, <3>3, <3>4
  <2>2. token # None => \A h \in holds : Ours(h) => h.token # token
    BY <1>13 DEF Present, Tagged
  <2>3. ASSUME NEW i \in DOMAIN fromNode', Opens(i)', NEW t, t = fromNode'[i].token
        PROVE  /\ t \in Given' /\ \A h \in holds' : Ours(h)' => h.token # t
               /\ asked'[fromNode'[i].n].method = "follow" =>
                    \/ \E x \in node'.subs : x.token = t
                    \/ \E j \in DOMAIN fromNode' : j > i /\ Stops(j, t)'
    <3>1. CASE i = L
      BY <1>3, <1>4, <1>6, <1>13, <2>2, <2>3, <3>1 DEF NodeLeaves
    <3>2. CASE i \in DOMAIN fromNode
      BY <1>4, <1>6, <1>13, <2>1, <2>3, <3>2 DEF NodeLeaves
    <3> QED BY <1>6, <3>1, <3>2
  <2>4. \A i \in DOMAIN fromNode : Opens(i) => fromNode[i].token \in Given
    BY <2>1
  <2>5. ASSUME NEW i \in DOMAIN fromNode', NEW j \in DOMAIN fromNode', Opens(i)', Opens(j)',
               fromNode'[i].token = fromNode'[j].token
        PROVE  i = j
    <3>1. CASE i = L \/ j = L
      BY <1>3, <1>6, <1>13, <2>4, <2>5, <3>1
    <3>2. CASE i \in DOMAIN fromNode /\ j \in DOMAIN fromNode
      BY <1>6, <2>5, <3>2 DEF Told
    <3> QED BY <1>6, <3>1, <3>2
  <2>6. ASSUME NEW i \in DOMAIN fromNode', Opens(i)'
        PROVE  /\ fromNode'[i].token \in Given'
               /\ \A h \in holds' : Ours(h)' => h.token # fromNode'[i].token
               /\ asked'[fromNode'[i].n].method = "follow" =>
                    \/ \E x \in node'.subs : x.token = fromNode'[i].token
                    \/ \E j \in DOMAIN fromNode' : /\ j > i /\ fromNode'[j].msg = "stop" /\ fromNode'[j].gen = generation'
                                                  /\ fromNode'[j].token = fromNode'[i].token
    <3>1. PICK t : t = fromNode'[i].token
      OBVIOUS
    <3>2. /\ t \in Given' /\ \A h \in holds' : Ours(h)' => h.token # t
          /\ asked'[fromNode'[i].n].method = "follow" =>
               \/ \E x \in node'.subs : x.token = t
               \/ \E j \in DOMAIN fromNode' : j > i /\ Stops(j, t)'
      BY <2>3, <2>6, <3>1
    <3> QED BY <3>1, <3>2 DEF Stops
  <2> QED BY <2>5, <2>6 DEF Told, Stops
<1>16. Running'
  <2>1. \A x \in node'.subs : x.token \in Given'
    BY <1>13 DEF Running
  <2>2. \A x, y \in node'.subs : x.token = y.token => x = y
    <3>1. CASE token = None
      BY <1>11, <1>10, <3>1 DEF Running
    <3>2. CASE token # None
      <4>1. node'.subs = node.subs \cup {[token |-> fresh, kind |-> q.method]}
        BY <1>11, <3>2
      <4>2. \A x \in node.subs : x.token # fresh
        BY <1>10 DEF Running
      <4> QED BY <4>1, <4>2 DEF Running
    <3> QED BY <3>1, <3>2
  <2>3. ASSUME NEW i \in DOMAIN fromNode', fromNode'[i].msg = "stop", fromNode'[i].gen = generation'
        PROVE  fromNode'[i].token \in Given' /\ \A x \in node'.subs : x.token # fromNode'[i].token
    <3>1. i \in DOMAIN fromNode /\ fromNode'[i] = fromNode[i]
      BY <1>3, <1>6, <2>3
    <3>2. fromNode[i].token \in Given /\ \A x \in node.subs : x.token # fromNode[i].token
      BY <1>4, <2>3, <3>1 DEF Running, NodeLeaves
    <3> QED BY <1>13, <3>1, <3>2
  <2> QED BY <2>1, <2>2, <2>3 DEF Running
<1>17. Released'
  <2>1. \A i \in DOMAIN toNode' : toNode'[i].method \in Releasing => toNode'[i].of = generation
    BY <1>7 DEF Released, ReleasesGoHome
  <2>2. ASSUME NEW i \in DOMAIN toNode', toNode'[i].method = "release"
        PROVE  /\ toNode'[i].token \in Given'
               /\ \A h \in holds : Ours(h) => h.token # toNode'[i].token
               /\ \A j \in DOMAIN fromNode' : Answers(j)' => fromNode'[j].token # toNode'[i].token
    <3>1. PICK t : t = toNode'[i].token
      OBVIOUS
    <3>2. /\ t \in Given /\ \A h \in holds : Ours(h) => h.token # t
          /\ \A j \in DOMAIN fromNode : Answers(j) => fromNode[j].token # t
      BY <1>7, <2>2, <3>1 DEF Released
    <3>3. token # t
      BY <1>13, <3>2, GivenIsTagged DEF KeepInv
    <3>4. \A j \in DOMAIN fromNode' : Answers(j)' => fromNode'[j].token # t
      BY <1>3, <1>6, <3>2, <3>3
    <3> QED BY <1>13, <3>1, <3>2, <3>4
  <2>3. Resent' = Resent
    BY <1>4 DEF Resent, NodeLeaves
  <2>4. ReleasesGoHome'
    BY <1>4, <2>1 DEF ReleasesGoHome, NodeLeaves
  <2>5. \A i \in DOMAIN Resent' : Resent'[i].method \notin Releasing
    BY <2>3 DEF Released
  <2> QED BY <1>4, <1>6, <2>2, <2>4, <2>5 DEF Released, NodeLeaves
<1>18. NoLeak'
  <2>1. ASSUME NEW x \in node'.subs
        PROVE  \/ \E h \in holds : h.gen = generation /\ h.token = x.token
               \/ \E i \in DOMAIN fromNode' : fromNode'[i].msg = "answer" /\ fromNode'[i].gen = generation
                                              /\ fromNode'[i].token = x.token
               \/ \E i \in DOMAIN toNode' : toNode'[i].method = "release" /\ toNode'[i].token = x.token
    <3>1. PICK t : t = x.token
      OBVIOUS
    <3>2. CASE t = token
      BY <1>3, <1>6, <3>1, <3>2
    <3>3. CASE x \in node.subs
      <4>1. ASSUME NEW i \in DOMAIN fromNode, fromNode[i].msg = "answer", fromNode[i].gen = generation,
                   fromNode[i].token = t
            PROVE  \E j \in DOMAIN fromNode' : fromNode'[j].msg = "answer" /\ fromNode'[j].gen = generation
                                               /\ fromNode'[j].token = t
        BY <1>6, <4>1
      <4>2. ASSUME NEW i \in DOMAIN toNode, toNode[i].method = "release", toNode[i].token = t
            PROVE  \E j \in DOMAIN toNode' : toNode'[j].method = "release" /\ toNode'[j].token = t
        <5>1. i # 1
          BY <1>7, <1>13, <2>1, <3>1, <4>2
        <5>2. PICK j : j = i - 1
          OBVIOUS
        <5>3. j \in DOMAIN toNode' /\ toNode'[j] = toNode[i]
          BY <1>7, <5>1, <5>2
        <5> QED BY <4>2, <5>3
      <4> QED BY <3>1, <3>3, <4>1, <4>2 DEF NoLeak
    <3> QED BY <1>13, <2>1, <3>1, <3>2, <3>3
  <2> QED BY <1>4, <2>1 DEF NoLeak, NodeLeaves
<1> QED BY <1>14, <1>15, <1>16, <1>17, <1>18

LEMMA NodeStopsHolds ==
  ASSUME HoldInv, NodeStops
  PROVE  Tagged' /\ Present' /\ Past' /\ Told' /\ Running' /\ Released' /\ NoLeak'
<1> USE DEF HoldInv
<1>1. PICK x \in node.subs, m \in Messages :
        /\ x.kind = "follow" /\ m.msg = "stop" /\ m.gen = generation /\ m.token = x.token
        /\ fromNode' = Append(fromNode, m)
        /\ node'.subs = node.subs \ {x} /\ node'.issued = node.issued
  BY NodeStopsCases
<1>2. NodeLeaves /\ toNode' = toNode
  BY NodeStopsCases DEF NodeLeaves
<1>3. PICK L : L = Len(fromNode) + 1
  OBVIOUS
<1>4. /\ L \in DOMAIN fromNode' /\ fromNode'[L] = m
      /\ \A i \in DOMAIN fromNode : i \in DOMAIN fromNode' /\ fromNode'[i] = fromNode[i] /\ i < L
      /\ \A i \in DOMAIN fromNode' : i = L \/ i \in DOMAIN fromNode
      /\ \A i \in DOMAIN fromNode : (Answers(i)' <=> Answers(i)) /\ (Opens(i)' <=> Opens(i))
      /\ \A i \in DOMAIN fromNode : \A t : Stops(i, t)' <=> Stops(i, t)
      /\ ~Answers(L)' /\ ~Opens(L)'
      /\ Stops(L, x.token)'
      /\ \A h : Ours(h)' <=> Ours(h)
  <2>1. PICK t : t = x.token
    OBVIOUS
  <2>2. Stops(L, t)'
    BY <1>1, <1>2, <1>3, <2>1, ChannelGrows DEF KeepInv, NodeLeaves
  <2> QED BY <1>1, <1>2, <1>3, <2>1, <2>2, ChannelGrows DEF KeepInv, NodeLeaves
<1>5. Given' = Given
  BY <1>1, <1>2, GivenStays DEF NodeLeaves
<1>6. Tagged' /\ Present' /\ Past'
  <2>1. \A y \in node.subs : y \in node'.subs \/ (m.msg = "stop" /\ m.token = y.token)
    BY <1>1
  <2> QED BY <1>1, <1>2, <1>5, <2>1, NodeKeepsBooks
<1>7. Told'
  <2>1. ASSUME NEW i \in DOMAIN fromNode, Opens(i), NEW t, t = fromNode[i].token
        PROVE  /\ t \in Given /\ \A h \in holds : Ours(h) => h.token # t
               /\ asked[fromNode[i].n].method = "follow" =>
                    \/ \E y \in node'.subs : y.token = t
                    \/ \E j \in DOMAIN fromNode' : j > i /\ Stops(j, t)'
    <3>1. /\ t \in Given /\ \A h \in holds : Ours(h) => h.token # t
          /\ asked[fromNode[i].n].method = "follow" =>
               \/ \E y \in node.subs : y.token = t
               \/ \E j \in DOMAIN fromNode : j > i /\ Stops(j, t)
      BY <2>1 DEF Told
    <3>2. ASSUME NEW y \in node.subs, y.token = t
          PROVE  y \in node'.subs \/ (L \in DOMAIN fromNode' /\ L > i /\ Stops(L, t)')
      <4>1. CASE y = x
        <5>1. L > i
          BY <1>4
        <5> QED BY <1>4, <3>2, <4>1, <5>1
      <4>2. CASE y # x
        BY <1>1, <4>2
      <4> QED BY <4>1, <4>2
    <3>3. (\E j \in DOMAIN fromNode : j > i /\ Stops(j, t)) => \E j \in DOMAIN fromNode' : j > i /\ Stops(j, t)'
      BY <1>4
    <3> QED BY <3>1, <3>2, <3>3
  <2>2. ASSUME NEW i \in DOMAIN fromNode', Opens(i)'
        PROVE  /\ i \in DOMAIN fromNode /\ Opens(i) /\ fromNode'[i] = fromNode[i]
    BY <1>4, <2>2
  <2>3. ASSUME NEW i \in DOMAIN fromNode', Opens(i)'
        PROVE  /\ fromNode'[i].token \in Given'
               /\ \A h \in holds' : Ours(h)' => h.token # fromNode'[i].token
               /\ asked'[fromNode'[i].n].method = "follow" =>
                    \/ \E y \in node'.subs : y.token = fromNode'[i].token
                    \/ \E j \in DOMAIN fromNode' : /\ j > i /\ fromNode'[j].msg = "stop" /\ fromNode'[j].gen = generation'
                                                  /\ fromNode'[j].token = fromNode'[i].token
    <3>1. PICK t : t = fromNode'[i].token
      OBVIOUS
    <3>2. /\ t \in Given /\ \A h \in holds : Ours(h) => h.token # t
          /\ asked[fromNode[i].n].method = "follow" =>
               \/ \E y \in node'.subs : y.token = t
               \/ \E j \in DOMAIN fromNode' : j > i /\ Stops(j, t)'
      BY <2>1, <2>2, <2>3, <3>1
    <3>3. (\E j \in DOMAIN fromNode' : j > i /\ Stops(j, t)') =>
            \E j \in DOMAIN fromNode' : /\ j > i /\ fromNode'[j].msg = "stop" /\ fromNode'[j].gen = generation'
                                        /\ fromNode'[j].token = t
      BY DEF Stops
    <3>4. fromNode'[i] = fromNode[i]
      BY <2>2, <2>3
    <3>5. asked' = asked /\ holds' = holds /\ Given' = Given /\ \A h : Ours(h)' <=> Ours(h)
      BY <1>2, <1>4, <1>5 DEF NodeLeaves
    <3> QED BY <3>1, <3>2, <3>3, <3>4, <3>5
  <2>4. \A i, j \in DOMAIN fromNode' : Opens(i)' /\ Opens(j)' /\ fromNode'[i].token = fromNode'[j].token => i = j
    BY <2>2 DEF Told
  <2> QED BY <2>3, <2>4 DEF Told, Stops
<1>8. Running'
  <2>1. \A y \in node'.subs : y \in node.subs /\ y.token # x.token
    BY <1>1 DEF Running
  <2>2. ASSUME NEW i \in DOMAIN fromNode', fromNode'[i].msg = "stop", fromNode'[i].gen = generation'
        PROVE  fromNode'[i].token \in Given' /\ \A y \in node'.subs : y.token # fromNode'[i].token
    <3>1. CASE i = L
      BY <1>1, <1>4, <1>5, <2>1, <3>1 DEF Running
    <3>2. CASE i \in DOMAIN fromNode
      BY <1>2, <1>4, <1>5, <2>1, <2>2, <3>2 DEF Running, NodeLeaves
    <3> QED BY <1>4, <3>1, <3>2
  <2>3. \A y \in node'.subs : y.token \in Given'
    BY <1>5, <2>1 DEF Running
  <2>4. \A y, z \in node'.subs : y.token = z.token => y = z
    BY <2>1 DEF Running
  <2> QED BY <2>2, <2>3, <2>4 DEF Running
<1>9. Released'
  <2>1. ReleasesGoHome' /\ Resent' = Resent
    BY <1>2 DEF Released, ReleasesGoHome, Resent, NodeLeaves
  <2>2. ASSUME NEW i \in DOMAIN toNode, toNode[i].method = "release"
        PROVE  /\ toNode[i].token \in Given
               /\ \A h \in holds : Ours(h) => h.token # toNode[i].token
               /\ \A j \in DOMAIN fromNode' : Answers(j)' => fromNode'[j].token # toNode[i].token
    BY <1>4, <2>2 DEF Released
  <2> QED BY <1>2, <1>4, <1>5, <2>1, <2>2 DEF Released, NodeLeaves
<1>10. NoLeak'
  <2>1. ASSUME NEW y \in node.subs
        PROVE  \/ \E h \in holds : h.gen = generation /\ h.token = y.token
               \/ \E i \in DOMAIN fromNode' : fromNode'[i].msg = "answer" /\ fromNode'[i].gen = generation
                                              /\ fromNode'[i].token = y.token
               \/ \E i \in DOMAIN toNode : toNode[i].method = "release" /\ toNode[i].token = y.token
    <3>1. PICK t : t = y.token
      OBVIOUS
    <3>2. ASSUME NEW i \in DOMAIN fromNode, fromNode[i].msg = "answer", fromNode[i].gen = generation,
                 fromNode[i].token = t
          PROVE  \E j \in DOMAIN fromNode' : fromNode'[j].msg = "answer" /\ fromNode'[j].gen = generation
                                             /\ fromNode'[j].token = t
      BY <1>4, <3>2
    <3> QED BY <2>1, <3>1, <3>2 DEF NoLeak
  <2> QED BY <1>1, <1>2, <2>1 DEF NoLeak, NodeLeaves
<1> QED BY <1>6, <1>7, <1>8, <1>9, <1>10

----------------------------------------------------------------------------
(* The holdings. *)

LEMMA HoldInit == ASSUME Init PROVE HoldInv
<1>1. KeepInv
  BY KeepInit
<1>2. /\ fromNode = <<>> /\ toNode = <<>> /\ Resent = <<>> /\ work = <<>> /\ holds = {} /\ openedIds = {} /\ follows = {}
      /\ node.subs = {}
  BY DEF Init, Resent
<1>3. Tagged /\ Present /\ Past
  BY <1>2 DEF Tagged, Present, Past
<1>4. Told /\ Running /\ NoLeak
  BY <1>2 DEF Told, Running, NoLeak
<1>5. Released
  BY <1>2 DEF Released, ReleasesGoHome
<1> QED BY <1>1, <1>3, <1>4, <1>5 DEF HoldInv

LEMMA HoldStep == ASSUME HoldInv, StaysApart, [Next]_vars PROVE HoldInv'
<1>1. KeepInv /\ KeepInv'
  BY KeepStep DEF HoldInv
<1>2. ASSUME NEW method \in Methods, Request(method) PROVE HoldInv'
  <2>1. Sends(method, None, 0) /\ 0 \in Nat
    BY <1>2 DEF Request, Sends, Releasing
  <2> QED BY <1>1, <1>2, <2>1, RequestIsSent, SendHolds DEF HoldInv
<1>3. ASSUME NEW method \in Methods, NEW h \in holds, Operate(h, method) PROVE HoldInv'
  <2>1. Sends(method, h.token, h.gen)
    BY <1>3 DEF Operate, Sends, Releasing
  <2> QED BY <1>1, <1>3, <2>1, RequestIsSent, SendHolds DEF HoldInv
<1>4. ASSUME NEW h \in holds, Release(h) PROVE HoldInv'
  <2>1. Sends("release", h.token, h.gen)
    BY <1>4 DEF Release, Sends
  <2> QED BY <1>1, <1>4, <2>1, RequestIsSent, SendHolds DEF HoldInv
<1>5. CASE Leave
  BY <1>1, <1>5, LeaveHolds DEF HoldInv
<1>6. CASE Pause
  BY <1>1, <1>6, PauseHolds DEF HoldInv
<1>7. CASE Resume
  BY <1>1, <1>7, ResumeHolds DEF HoldInv
<1>8. CASE DeliverAtPause
  BY <1>1, <1>8, DeliverHolds DEF HoldInv
<1>9. CASE Receive
  BY <1>1, <1>9, ReceiveHolds DEF HoldInv
<1>10. CASE NodeReads
  BY <1>1, <1>10, NodeReadsHolds DEF HoldInv
<1>11. CASE NodeStops
  BY <1>1, <1>11, NodeStopsHolds DEF HoldInv
<1>12. CASE UNCHANGED vars
  BY <1>1, <1>12, HoldsStay DEF HoldInv, vars
<1> QED
  BY <1>2, <1>3, <1>4, <1>5, <1>6, <1>7, <1>8, <1>9, <1>10, <1>11, <1>12 DEF Next, ConsumerStep

LEMMA HoldingsFollow == ASSUME HoldInv PROVE HoldingsAgree
<1> USE DEF HoldInv, KeepInv
<1>1. TypeOK
  <2>1. Ids(inFlight) \cup Ids(kept) \cup Ids(held) \subseteq DOMAIN asked
    BY RequestsAreAsked
  <2>2. conn = "left" => upstream = 0
    BY DEF Phases
  <2> QED BY <2>1, <2>2 DEF TypeOK, Shapes, Phases, Tagged
<1>2. FollowsAreLive
  <2>1. ASSUME NEW h \in holds, h.kind = "follow", conn = "open", Ours(h)
        PROVE  /\ h.gen = upstream /\ h.token \in follows
               /\ \/ \E x \in node.subs : x.token = h.token
                  \/ \E i \in DOMAIN fromNode : fromNode[i].msg = "stop" /\ fromNode[i].gen = h.gen
                                                /\ fromNode[i].token = h.token
    BY <2>1 DEF Present, Ours, Stops, Phases
  <2> QED BY <2>1 DEF FollowsAreLive, Past
<1>3. ReleasesGoHome
  BY DEF Released
<1> QED BY <1>1, <1>2, <1>3 DEF HoldingsAgree

\* What runs at the node, what the consumer holds and what is on its way between them agree over any number of
\* connections (pause, send, receive), unless connections issue the same ids again and a watch is held over a pause: its
\* release then ends what has its id now.
THEOREM TransportHoldingsAgree == ASSUME StaysApart PROVE Spec => []HoldingsAgree
<1>1. Init => HoldInv
  BY HoldInit
<1>2. HoldInv /\ [Next]_vars => HoldInv'
  BY HoldStep
<1>3. HoldInv => HoldingsAgree
  BY HoldingsFollow
<1> QED BY <1>1, <1>2, <1>3, PTL DEF Spec
============================================================================
