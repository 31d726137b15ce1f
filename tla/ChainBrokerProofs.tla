------------------------- MODULE ChainBrokerProofs -------------------------
(***************************************************************************)
(* Theorems about ChainBroker, for any number of sessions, requests and    *)
(* events.                                                                 *)
(*                                                                         *)
(* BaseInv is what every reachable state satisfies of the broker's own     *)
(* books: the shape of each variable, local tokens given out once and to   *)
(* one session, what is told belongs to the session it is told, and the    *)
(* requests and the answers owed to the sessions.  It gives AnsweredOnce   *)
(* and GoneIsQuiet.  RunsInv relates the broker to the node: a request is  *)
(* in one place until it is answered, nothing the node runs is forgotten,  *)
(* and the follows the broker counts are at least those that run.  It      *)
(* gives NoLeak and FollowLimitKept.  HoldsInv adds the caps and the       *)
(* phases of HoldingsAgree.  HearInv orders the events that wait, by the   *)
(* three places they wait in, against each other and against what was      *)
(* heard, and gives HeardInOrder.                                          *)
(***************************************************************************)
EXTENDS ChainBroker, FiniteSetTheorems, SequenceTheorems, WellFoundedInduction, TLAPS

----------------------------------------------------------------------------
(* Subscriptions in order. *)

Arranges(s, held) ==
  /\ s \in [1 .. Cardinality(held) -> held]
  /\ \A i, j \in 1 .. Cardinality(held) : i < j => s[i].local < s[j].local

\* Each local token is given out once.
Apart(held) ==
  /\ \A o \in held : o.local \in Nat
  /\ \A o, x \in held : o.local = x.local => o = x

\* A finite set of subscriptions that is not empty has a last one.
LEMMA HasLast ==
  ASSUME NEW held, IsFiniteSet(held), Apart(held), held # {}
  PROVE  \E o \in held : \A x \in held : x.local <= o.local
<1> DEFINE After(o) == {x \in held : x.local > o.local}
           Afters == {After(o) : o \in held}
<1>1. Afters \subseteq FiniteSubsetsOf(held)
  <2>1. \A o \in held : After(o) \in SUBSET held /\ IsFiniteSet(After(o))
    BY FS_Subset
  <2> QED BY <2>1 DEF FiniteSubsetsOf
<1>2. IsWellFoundedOn(StrictSubsetOrdering(held), FiniteSubsetsOf(held))
  BY FS_StrictSubsetOrderingWellFounded
<1>3. Afters # {}
  OBVIOUS
<1>4. PICK D \in Afters : \A y \in Afters : ~ (<<y, D>> \in StrictSubsetOrdering(held))
  <2> HIDE DEF Afters
  <2> QED BY <1>1, <1>2, <1>3, WFMin
<1>5. PICK o \in held : D = After(o)
  BY <1>4
<1>6. \A x \in held : x.local <= o.local
  <2> SUFFICES ASSUME NEW x \in held, ~(x.local <= o.local) PROVE FALSE
    OBVIOUS
  <2>1. \A y \in held : y.local \in Nat
    BY DEF Apart
  <2>2. x.local > o.local
    BY <2>1
  <2>3. x \in After(o) /\ x \notin After(x)
    BY <2>1, <2>2
  <2>4. After(x) \subseteq After(o)
    BY <2>1, <2>2
  <2>5. <<After(x), D>> \in StrictSubsetOrdering(held)
    <3>1. After(x) \in SUBSET held /\ D \in SUBSET held
      BY <1>5
    <3>2. After(x) \subseteq D /\ After(x) # D
      BY <1>5, <2>3, <2>4
    <3> HIDE DEF After
    <3> QED BY <3>1, <3>2 DEF StrictSubsetOrdering
  <2> QED BY <1>4, <2>5
<1> QED BY <1>6

\* Finitely many subscriptions can be put in order.
LEMMA HasOrder ==
  ASSUME NEW held, IsFiniteSet(held), Apart(held)
  PROVE  \E s : Arranges(s, held)
<1> DEFINE Without == {S \in SUBSET held : ~ \E s : Arranges(s, S)}
<1> SUFFICES ASSUME Without # {} PROVE FALSE
  OBVIOUS
<1>1. FiniteSubsetsOf(held) = SUBSET held
  BY FS_FiniteSubsetsOfFinite
<1>2. IsWellFoundedOn(StrictSubsetOrdering(held), FiniteSubsetsOf(held))
  BY FS_StrictSubsetOrderingWellFounded
<1>3. PICK S \in Without : \A y \in Without : ~ (<<y, S>> \in StrictSubsetOrdering(held))
  <2>1. Without \subseteq FiniteSubsetsOf(held)
    BY <1>1
  <2> HIDE DEF Without
  <2> QED BY <1>2, <2>1, WFMin
<1>4. S \in SUBSET held /\ IsFiniteSet(S) /\ Apart(S)
  BY <1>3, FS_Subset DEF Apart
<1>5. S # {}
  <2> SUFFICES ASSUME S = {} PROVE FALSE
    OBVIOUS
  <2>1. Cardinality(S) = 0
    BY FS_EmptySet
  <2>2. Arranges(<<>>, S)
    BY <2>1 DEF Arranges
  <2> QED BY <1>3, <2>2
<1>6. PICK last \in S : \A x \in S : x.local <= last.local
  BY <1>4, <1>5, HasLast
<1>7. PICK T : T = S \ {last}
  OBVIOUS
<1>8. T \in SUBSET held /\ T \subseteq S /\ T # S
  BY <1>4, <1>6, <1>7
<1>9. PICK s : Arranges(s, T)
  <2>1. <<T, S>> \in StrictSubsetOrdering(held)
    BY <1>4, <1>8 DEF StrictSubsetOrdering
  <2> QED BY <1>3, <1>8, <2>1
<1>10. PICK n \in Nat : Cardinality(S) = n
  BY <1>4, FS_CardinalityType
<1>11. n > 0 /\ Cardinality(T) = n - 1
  <2>1. Cardinality(T) = n - 1
    BY <1>4, <1>6, <1>7, <1>10, FS_RemoveElement
  <2>2. n # 0
    BY <1>4, <1>5, <1>10, FS_EmptySet
  <2> QED BY <2>1, <2>2
<1>12. s \in [1 .. n - 1 -> T] /\ \A i, j \in 1 .. n - 1 : i < j => s[i].local < s[j].local
  BY <1>9, <1>11 DEF Arranges
<1>13. \A x \in T : x.local < last.local
  <2> SUFFICES ASSUME NEW x \in T PROVE x.local < last.local
    OBVIOUS
  <2>1. x \in S /\ x # last
    BY <1>7
  <2>2. x.local \in Nat /\ last.local \in Nat /\ x.local # last.local
    BY <1>4, <1>6, <2>1 DEF Apart
  <2> QED BY <1>6, <2>1, <2>2
<1>14. PICK all : all = [i \in 1 .. n |-> IF i = n THEN last ELSE s[i]]
  OBVIOUS
<1>15. all \in [1 .. n -> S]
  <2>1. \A i \in 1 .. n : i # n => s[i] \in S
    BY <1>8, <1>11, <1>12
  <2> QED BY <1>6, <1>14, <2>1
<1>16. ASSUME NEW i \in 1 .. n, NEW j \in 1 .. n, i < j PROVE all[i].local < all[j].local
  <2>1. i \in 1 .. n - 1 /\ all[i] = s[i] /\ s[i] \in T
    BY <1>11, <1>12, <1>14, <1>16
  <2>2. CASE j = n
    BY <1>13, <1>14, <2>1, <2>2
  <2>3. CASE j # n
    BY <1>11, <1>12, <1>14, <1>16, <2>1, <2>3
  <2> QED BY <2>2, <2>3
<1>17. Arranges(all, S)
  BY <1>10, <1>15, <1>16 DEF Arranges
<1> QED BY <1>3, <1>17

\* InOrder puts every one of them in its place.
LEMMA InOrderIsOrdered ==
  ASSUME NEW held, IsFiniteSet(held), Apart(held)
  PROVE  /\ Cardinality(held) \in Nat
         /\ InOrder(held) \in [1 .. Cardinality(held) -> held]
         /\ \A i, j \in 1 .. Cardinality(held) : i < j => InOrder(held)[i].local < InOrder(held)[j].local
         /\ \A o \in held : \E i \in 1 .. Cardinality(held) : InOrder(held)[i] = o
<1>1. PICK n \in Nat : n = Cardinality(held)
  BY FS_CardinalityType
<1>2. PICK s : Arranges(s, held)
  BY HasOrder
<1>3. /\ InOrder(held) \in [1 .. n -> held]
      /\ \A i, j \in 1 .. n : i < j => InOrder(held)[i].local < InOrder(held)[j].local
  <2>1. \E x \in [1 .. Cardinality(held) -> held] :
          \A i, j \in 1 .. Cardinality(held) : i < j => x[i].local < x[j].local
    BY <1>2 DEF Arranges
  <2> QED BY <1>1, <2>1 DEF InOrder
<1>4. PICK f : f = InOrder(held)
  OBVIOUS
<1>5. f \in Injection(1 .. n, held)
  <2>1. ASSUME NEW i \in 1 .. n, NEW j \in 1 .. n, f[i] = f[j] PROVE i = j
    <3>1. f[i].local \in Nat /\ f[j].local \in Nat
      BY <1>3, <1>4 DEF Apart
    <3>2. ~(i < j) /\ ~(j < i)
      BY <1>3, <1>4, <2>1, <3>1
    <3> QED BY <3>2
  <2> QED BY <1>3, <1>4, <2>1 DEF Injection, IsInjective
<1>6. f \in Surjection(1 .. n, held)
  <2>1. Cardinality(1 .. n) = n
    BY FS_Interval
  <2> QED BY <1>1, <1>5, <2>1, FS_Injection
<1> QED BY <1>1, <1>3, <1>4, <1>6 DEF Surjection

----------------------------------------------------------------------------
(* Types. *)

Names == Nat \cup {None}
Phases == {"new", "open", "halting", "quit", "left", "halted"}

Owners == [kind : {"session"}, session : Sessions, client : Nat, method : Methods, token : Names]
          \cup [kind : {"orphan", "release"}, session : {None}, client : {0}, method : Methods,
                token : Names]
Pendings == [id : Nat, owner : Owners]
Helds == [local : Nat, session : Sessions, token : Nat, kind : Kinds]
Events == [token : Nat, number : Nat, ends : BOOLEAN]
EarlyItems == [token : Nat, events : Seq(Events)]
WorkItems == [do : {"halt"}] \cup [do : {"flush"}, token : Nat] \cup [do : {"event"}, event : Events]
             \cup [do : {"tell"}, owned : Helds, event : Events]
Queries == [id : Nat, method : Methods, token : Names]
Replies == [msg : {"answer"}, id : Nat, token : Names] \cup [msg : {"event"}, event : Events]
Subs == [token : Nat, kind : Kinds]
Nodes == [subs : SUBSET Subs, lost : SUBSET Nat, sent : Seq(Nat), events : Nat, garbled : Nat]
Askings == [session : Sessions, withId : BOOLEAN, answers : Nat]
Hearings == [session : Sessions, token : Nat, events : Seq(Nat), ended : BOOLEAN]

Shapes ==
  /\ session \in [Sessions -> Phases]
  /\ pending \in SUBSET Pendings /\ IsFiniteSet(pending) /\ counter \in Nat
  /\ owned \in SUBSET Helds /\ IsFiniteSet(owned)
  /\ early \in Seq(EarlyItems) /\ work \in Seq(WorkItems)
  /\ toNode \in Seq(Queries) /\ fromNode \in Seq(Replies) /\ node \in Nodes
  /\ asked \in Seq(Askings) /\ heard \in Seq(Hearings)

LEMMA NamesApart == None \notin Nat /\ None \notin Sessions
BY BrokerAssumption

LEMMA ReleasesAreMethods ==
  /\ \A kind \in Kinds : ReleaseOf(kind) \in Releases
  /\ Releases \subseteq Methods /\ Kinds \subseteq Methods /\ "call" \in Methods
  /\ Kinds \cap Releases = {}
  /\ \A kind \in Kinds : kind = "follow" <=> ReleaseOf(kind) = "unfollow"
  /\ \A kind \in Kinds : kind # "unfollow" /\ kind # "call"
  /\ \A m \in Releases : m # "follow"
BY BrokerAssumption DEF Releases, Methods, ReleaseOf

\* The pairs one Track adds.
Tracked(c, owners) == {[id |-> c + i, owner |-> owners[i]] : i \in DOMAIN owners}

LEMMA TrackedIsFinite ==
  ASSUME NEW c \in Nat, NEW owners, NEW n \in Nat, owners \in Seq(Owners), Len(owners) = n
  PROVE  /\ IsFiniteSet(Tracked(c, owners)) /\ Tracked(c, owners) \subseteq Pendings
         /\ Cardinality(Tracked(c, owners)) = n
         /\ \A i \in 1 .. n : [id |-> c + i, owner |-> owners[i]] \in Tracked(c, owners)
         /\ \A p \in Tracked(c, owners) :
              /\ p.id \in c + 1 .. c + n /\ p.owner = owners[p.id - c] /\ p.owner \in Owners
<1>1. PICK f : f = [i \in 1 .. n |-> [id |-> c + i, owner |-> owners[i]]]
  OBVIOUS
<1>2. DOMAIN owners = 1 .. n
  OBVIOUS
<1>3. f \in [1 .. n -> Tracked(c, owners)]
  BY <1>1, <1>2 DEF Tracked
<1>4. f \in Surjection(1 .. n, Tracked(c, owners))
  <2>1. \A p \in Tracked(c, owners) : \E i \in 1 .. n : f[i] = p
    BY <1>1, <1>2 DEF Tracked
  <2> QED BY <1>3, <2>1 DEF Surjection
<1>5. f \in Injection(1 .. n, Tracked(c, owners))
  <2>1. ASSUME NEW i \in 1 .. n, NEW j \in 1 .. n, f[i] = f[j] PROVE i = j
    <3>1. f[i].id = c + i /\ f[j].id = c + j
      BY <1>1
    <3> QED BY <2>1, <3>1
  <2> QED BY <1>3, <2>1 DEF Injection, IsInjective
<1>6. IsFiniteSet(1 .. n) /\ Cardinality(1 .. n) = n
  BY FS_Interval
<1>7. IsFiniteSet(Tracked(c, owners)) /\ Cardinality(Tracked(c, owners)) = n
  BY <1>4, <1>5, <1>6, FS_Surjection
<1>8. ASSUME NEW p \in Tracked(c, owners)
      PROVE  p.id \in c + 1 .. c + n /\ p.owner = owners[p.id - c] /\ p.owner \in Owners /\ p \in Pendings
  <2>1. PICK i \in 1 .. n : p = [id |-> c + i, owner |-> owners[i]]
    BY <1>2 DEF Tracked
  <2>2. p.id = c + i /\ p.owner = owners[i] /\ owners[i] \in Owners
    BY <1>2, <2>1
  <2>3. c + i \in Nat /\ p.id - c = i
    BY <2>2
  <2>4. p \in Pendings
    BY <2>1, <2>2, <2>3 DEF Pendings
  <2> QED BY <2>2, <2>3, <2>4
<1> QED BY <1>2, <1>7, <1>8 DEF Tracked

\* What Track does, in full.
LEMMA TrackAdds ==
  ASSUME Shapes, NEW left \in SUBSET Pendings, IsFiniteSet(left),
         NEW owners \in Seq(Owners), Track(left, owners)
  PROVE  /\ pending' = left \cup Tracked(counter, owners)
         /\ pending' \in SUBSET Pendings /\ IsFiniteSet(pending')
         /\ counter' \in Nat /\ counter' = counter + Len(owners)
         /\ toNode' \in Seq(Queries) /\ Len(toNode') = Len(toNode) + Len(owners)
         /\ \A i \in 1 .. Len(toNode) : toNode'[i] = toNode[i]
         /\ \A i \in 1 .. Len(owners) :
              toNode'[Len(toNode) + i] = [id |-> counter + i, method |-> owners[i].method, token |-> owners[i].token]
<1>1. /\ counter \in Nat /\ toNode \in Seq(Queries) /\ Len(owners) \in Nat
      /\ DOMAIN owners = 1 .. Len(owners) /\ Len(toNode) \in Nat
  BY DEF Shapes
<1>2. PICK more : more = [i \in DOMAIN owners |->
                 [id |-> counter + i, method |-> owners[i].method, token |-> owners[i].token]]
  OBVIOUS
<1>3. \A i \in 1 .. Len(owners) : owners[i] \in Owners
  OBVIOUS
<1>4. \A i \in 1 .. Len(owners) : owners[i].method \in Methods /\ owners[i].token \in Names
  BY <1>3 DEF Owners
<1>5. more \in Seq(Queries) /\ Len(more) = Len(owners)
  <2>1. \A i \in 1 .. Len(owners) : counter + i \in Nat
    BY <1>1
  <2>2. \A i \in 1 .. Len(owners) : more[i] \in Queries
    BY <1>2, <1>4, <2>1 DEF Queries
  <2>3. more \in [1 .. Len(owners) -> Queries]
    BY <1>1, <1>2, <2>2
  <2> QED BY <1>1, <2>3
<1>6. toNode' = toNode \o more
  BY <1>2 DEF Track
<1>7. pending' = left \cup Tracked(counter, owners)
  BY DEF Track, Tracked
<1>8. IsFiniteSet(Tracked(counter, owners)) /\ Tracked(counter, owners) \subseteq Pendings
  BY <1>1, TrackedIsFinite
<1>9. pending' \in SUBSET Pendings /\ IsFiniteSet(pending')
  BY <1>7, <1>8, FS_Union
<1>10. counter' \in Nat /\ counter' = counter + Len(owners)
  BY <1>1 DEF Track
<1>11. toNode' \in Seq(Queries) /\ Len(toNode') = Len(toNode) + Len(owners)
  BY <1>1, <1>5, <1>6
<1>12. \A i \in 1 .. Len(toNode) : toNode'[i] = toNode[i]
  BY <1>1, <1>5, <1>6
<1>13. \A i \in 1 .. Len(owners) : toNode'[Len(toNode) + i] = more[i]
  BY <1>1, <1>5, <1>6
<1> QED BY <1>1, <1>2, <1>7, <1>9, <1>10, <1>11, <1>12, <1>13

LEMMA AskedShapes ==
  ASSUME Shapes, NEW s \in Sessions, NEW withId \in BOOLEAN, NEW answers \in Nat,
         asked' = Asked(s, withId, answers)
  PROVE  /\ asked' \in Seq(Askings) /\ Len(asked') = Len(asked) + 1
         /\ asked'[Len(asked) + 1] = [session |-> s, withId |-> withId, answers |-> answers]
         /\ \A n \in 1 .. Len(asked) : asked'[n] = asked[n]
         /\ Client \in Nat /\ Client = Len(asked) + 1
<1>1. PICK a : a = [session |-> s, withId |-> withId, answers |-> answers]
  OBVIOUS
<1>2. a \in Askings
  BY <1>1 DEF Askings
<1>3. asked' = Append(asked, a) /\ asked \in Seq(Askings)
  BY <1>1 DEF Asked, Shapes
<1> QED BY <1>1, <1>2, <1>3 DEF Client

LEMMA AnswerHereShapes ==
  ASSUME Shapes, NEW s \in Sessions, NEW withId \in BOOLEAN, AnswerHere(s, withId)
  PROVE  /\ asked' \in Seq(Askings) /\ pending' = pending /\ counter' = counter /\ toNode' = toNode
         /\ asked' = Asked(s, withId, IF withId THEN 1 ELSE 0)
<1>1. asked' = Asked(s, withId, IF withId THEN 1 ELSE 0)
  BY DEF AnswerHere
<1>2. (IF withId THEN 1 ELSE 0) \in Nat
  OBVIOUS
<1>3. asked' \in Seq(Askings)
  BY <1>1, <1>2, AskedShapes
<1> QED BY <1>1, <1>3 DEF AnswerHere

\* A request goes on to the node, tracked under one new owner or under none.
ForwardsAs(owner) ==
  /\ owner \in Owners
  /\ Track(pending, <<owner>>)

LEMMA ForwardTracks ==
  ASSUME Shapes, NEW s \in Sessions, NEW withId \in BOOLEAN, NEW method \in Methods,
         NEW token \in Names, Forward(s, withId, method, token)
  PROVE  /\ asked' = Asked(s, withId, 0)
         /\ \/ /\ withId
               /\ ForwardsAs(Owner("session", s, Len(asked) + 1, method, token))
            \/ /\ ~withId /\ method = "follow"
               /\ ForwardsAs(Owner("orphan", None, 0, method, token))
            \/ /\ ~withId /\ method = "unfollow"
               /\ ForwardsAs(Owner("release", None, 0, method, token))
            \/ /\ ~withId /\ method \notin {"follow", "unfollow"}
               /\ toNode' = Append(toNode, [id |-> 0, method |-> method, token |-> token])
               /\ pending' = pending /\ counter' = counter
<1>1. Len(asked) + 1 \in Nat
  BY DEF Shapes
<1>2. /\ Owner("session", s, Len(asked) + 1, method, token) \in Owners
      /\ Owner("orphan", None, 0, method, token) \in Owners
      /\ Owner("release", None, 0, method, token) \in Owners
  BY <1>1 DEF Owner, Owners
<1>3. asked' = Asked(s, withId, 0)
  BY DEF Forward
<1>4. CASE withId
  BY <1>2, <1>3, <1>4 DEF Forward, ForwardsAs, Client
<1>5. CASE ~withId
  BY <1>2, <1>3, <1>5 DEF Forward, ForwardsAs
<1> QED BY <1>4, <1>5

LEMMA ForwardShapes ==
  ASSUME Shapes, NEW s \in Sessions, NEW withId \in BOOLEAN, NEW method \in Methods,
         NEW token \in Names, Forward(s, withId, method, token)
  PROVE  /\ pending' \in SUBSET Pendings /\ IsFiniteSet(pending') /\ counter' \in Nat
         /\ toNode' \in Seq(Queries) /\ asked' \in Seq(Askings)
<1>1. asked' \in Seq(Askings)
  BY ForwardTracks, AskedShapes
<1>2. ASSUME NEW owner, ForwardsAs(owner)
      PROVE  pending' \in SUBSET Pendings /\ IsFiniteSet(pending') /\ counter' \in Nat /\ toNode' \in Seq(Queries)
  <2>1. <<owner>> \in Seq(Owners) /\ Track(pending, <<owner>>)
    BY <1>2 DEF ForwardsAs
  <2>2. pending \in SUBSET Pendings /\ IsFiniteSet(pending)
    BY DEF Shapes
  <2> QED BY <2>1, <2>2, TrackAdds
<1>3. CASE ~withId /\ method \notin {"follow", "unfollow"}
  <2>1. [id |-> 0, method |-> method, token |-> token] \in Queries
    BY DEF Queries
  <2>2. toNode' = Append(toNode, [id |-> 0, method |-> method, token |-> token])
        /\ pending' = pending /\ counter' = counter
    BY <1>3, ForwardTracks
  <2> QED BY <1>1, <2>1, <2>2 DEF Shapes
<1>4. CASE ~(~withId /\ method \notin {"follow", "unfollow"})
  BY <1>1, <1>2, <1>4, ForwardTracks
<1> QED BY <1>3, <1>4

LEMMA ConnectShapes == ASSUME Shapes, NEW s \in Sessions, Connect(s) PROVE Shapes'
BY DEF Shapes, Connect, Phases

LEMMA SubscribeShapes ==
  ASSUME Shapes, NEW s \in Sessions, NEW kind \in Kinds, NEW withId \in BOOLEAN,
         Subscribe(s, kind, withId)
  PROVE  Shapes'
<1>1. kind \in Methods /\ None \in Names
  BY ReleasesAreMethods DEF Names
<1>2. Forward(s, withId, kind, None)
  BY DEF Subscribe
<1>3. /\ pending' \in SUBSET Pendings /\ IsFiniteSet(pending') /\ counter' \in Nat
      /\ toNode' \in Seq(Queries) /\ asked' \in Seq(Askings)
  BY <1>1, <1>2, ForwardShapes
<1> QED BY <1>3 DEF Shapes, Subscribe

LEMMA CallShapes ==
  ASSUME Shapes, NEW s \in Sessions, NEW l \in DOMAIN heard, Call(s, l)
  PROVE  Shapes'
<1>1. "call" \in Methods /\ None \in Names
  BY ReleasesAreMethods DEF Names
<1>2. /\ pending' \in SUBSET Pendings /\ IsFiniteSet(pending') /\ counter' \in Nat
      /\ toNode' \in Seq(Queries) /\ asked' \in Seq(Askings)
  <2>1. CASE AnswerHere(s, TRUE)
    BY <2>1, AnswerHereShapes DEF Shapes
  <2>2. CASE Forward(s, TRUE, "call", None)
    BY <1>1, <2>2, ForwardShapes
  <2> QED BY <2>1, <2>2 DEF Call
<1> QED BY <1>2 DEF Shapes, Call

LEMMA ReleaseShapes ==
  ASSUME Shapes, NEW s \in Sessions, NEW l \in DOMAIN heard, NEW withId \in BOOLEAN,
         Release(s, l, withId)
  PROVE  Shapes'
<1>1. /\ pending' \in SUBSET Pendings /\ IsFiniteSet(pending') /\ counter' \in Nat
      /\ toNode' \in Seq(Queries) /\ asked' \in Seq(Askings)
  <2>1. CASE AnswerHere(s, withId)
    BY <2>1, AnswerHereShapes DEF Shapes
  <2>2. ASSUME NEW o \in owned, Forward(s, withId, ReleaseOf(o.kind), o.token)
        PROVE  /\ pending' \in SUBSET Pendings /\ IsFiniteSet(pending') /\ counter' \in Nat
               /\ toNode' \in Seq(Queries) /\ asked' \in Seq(Askings)
    <3>1. o.kind \in Kinds /\ o.token \in Names
      BY DEF Shapes, Helds, Names
    <3> QED BY <2>2, <3>1, ForwardShapes, ReleasesAreMethods
  <2> QED BY <2>1, <2>2 DEF Release
<1>2. owned' \in SUBSET Helds /\ IsFiniteSet(owned')
  <2>1. \A o : IsFiniteSet(owned \ {o})
    BY FS_RemoveElement DEF Shapes
  <2> QED BY <2>1 DEF Release, Shapes
<1> QED BY <1>1, <1>2 DEF Shapes, Release

\* A local token is that of one subscription, and the session that holds it hears under it.
Belongs(o) ==
  o.local \in DOMAIN heard /\ heard[o.local].session = o.session /\ heard[o.local].token = o.token

Named ==
  /\ \A o \in owned : Belongs(o)
  /\ \A o, x \in owned : o.local = x.local => o = x

LEMMA OwnedApart == ASSUME Shapes, Named PROVE \A held \in SUBSET owned : IsFiniteSet(held) /\ Apart(held)
<1>1. \A o \in owned : o.local \in Nat
  BY DEF Shapes, Helds
<1>2. IsFiniteSet(owned)
  BY DEF Shapes
<1>3. \A held \in SUBSET owned : IsFiniteSet(held)
  BY <1>2, FS_Subset
<1> QED BY <1>1, <1>3 DEF Named, Apart

Mine(s) == {o \in owned : o.session = s}
LastOf(s) == {o \in Mine(s) : \A x \in Holders(o.token) : x.session = s /\ x.local <= o.local}

LEMMA OrphanedShapes ==
  ASSUME Shapes, NEW s \in Sessions
  PROVE  /\ Orphaned(s) \in SUBSET Pendings /\ IsFiniteSet(Orphaned(s))
         /\ Cardinality(Orphaned(s)) <= Cardinality(pending)
<1>1. PICK f : f = [p \in pending |-> IF p.owner.session = s
                     THEN [p EXCEPT !.owner = Owner("orphan", None, 0, p.owner.method, p.owner.token)] ELSE p]
  OBVIOUS
<1>2. \A p \in pending : f[p] \in Pendings
  <2> SUFFICES ASSUME NEW p \in pending PROVE f[p] \in Pendings
    OBVIOUS
  <2>1. p \in Pendings /\ p.owner \in Owners
    BY DEF Shapes, Pendings
  <2>2. p.owner.method \in Methods /\ p.owner.token \in Names
    BY <2>1 DEF Owners
  <2>3. Owner("orphan", None, 0, p.owner.method, p.owner.token) \in Owners
    BY <2>2 DEF Owner, Owners
  <2>4. [p EXCEPT !.owner = Owner("orphan", None, 0, p.owner.method, p.owner.token)] \in Pendings
    BY <2>1, <2>3 DEF Pendings
  <2> QED BY <1>1, <2>1, <2>4
<1>3. Orphaned(s) = {f[p] : p \in pending}
  BY <1>1 DEF Orphaned
<1>4. f \in Surjection(pending, Orphaned(s))
  <2>1. f \in [pending -> Orphaned(s)]
    BY <1>1, <1>3
  <2> QED BY <1>3, <2>1 DEF Surjection
<1>5. IsFiniteSet(pending)
  BY DEF Shapes
<1> QED BY <1>2, <1>3, <1>4, <1>5, FS_Surjection

\* What Leave sends: the release of each subscription the session alone held.
LEMMA LeaveTracks ==
  ASSUME Shapes, Named, NEW s \in Sessions, Leave(s)
  PROVE  \E sent \in Seq(Owners) :
           /\ Track(Orphaned(s), sent) /\ Len(sent) = Cardinality(LastOf(s))
           /\ \A i \in 1 .. Len(sent) : \E o \in LastOf(s) :
                o = InOrder(LastOf(s))[i] /\ sent[i] = SentRelease(o.kind, o.token)
           /\ \A o \in LastOf(s) : \E i \in 1 .. Len(sent) : sent[i] = SentRelease(o.kind, o.token)
<1>1. LastOf(s) \in SUBSET owned
  BY DEF LastOf, Mine
<1>2. IsFiniteSet(LastOf(s)) /\ Apart(LastOf(s))
  BY <1>1, OwnedApart
<1>3. PICK order : order = InOrder(LastOf(s))
  OBVIOUS
<1>4. PICK n \in Nat : n = Cardinality(LastOf(s))
  BY <1>2, FS_CardinalityType
<1>5. /\ order \in [1 .. n -> LastOf(s)]
      /\ \A o \in LastOf(s) : \E i \in 1 .. n : order[i] = o
  BY <1>2, <1>3, <1>4, InOrderIsOrdered
<1>6. PICK sent : sent = [i \in 1 .. n |-> SentRelease(order[i].kind, order[i].token)]
  OBVIOUS
<1>7. ASSUME NEW i \in 1 .. n PROVE sent[i] \in Owners
  <2>1. order[i].kind \in Kinds /\ order[i].token \in Nat
    BY <1>1, <1>5 DEF Shapes, Helds
  <2>2. ReleaseOf(order[i].kind) \in Methods
    BY <2>1, ReleasesAreMethods
  <2>3. SentRelease(order[i].kind, order[i].token) \in Owners
    BY <2>1, <2>2 DEF SentRelease, Owner, Owners, Names
  <2> QED BY <1>6, <2>3
<1>8. sent \in Seq(Owners) /\ Len(sent) = n
  <2>1. sent \in [1 .. n -> Owners]
    BY <1>6, <1>7
  <2> QED BY <2>1
<1>9. Track(Orphaned(s), sent)
  <2>1. Track(Orphaned(s), [i \in 1 .. Cardinality(LastOf(s)) |->
                 LET o == InOrder(LastOf(s))[i] IN SentRelease(o.kind, o.token)])
    BY DEF Leave, LastOf, Mine
  <2> QED BY <1>3, <1>4, <1>6, <2>1
<1> QED BY <1>3, <1>4, <1>5, <1>6, <1>8, <1>9

LEMMA LeaveShapes == ASSUME Shapes, Named, NEW s \in Sessions, Leave(s) PROVE Shapes'
<1>1. PICK sent \in Seq(Owners) : Track(Orphaned(s), sent)
  BY LeaveTracks
<1>2. Orphaned(s) \in SUBSET Pendings /\ IsFiniteSet(Orphaned(s))
  BY OrphanedShapes
<1>3. /\ pending' \in SUBSET Pendings /\ IsFiniteSet(pending') /\ counter' \in Nat
      /\ toNode' \in Seq(Queries)
  BY <1>1, <1>2, TrackAdds
<1>4. owned' \in SUBSET Helds /\ IsFiniteSet(owned')
  <2>1. owned' \in SUBSET owned
    BY DEF Leave
  <2> QED BY <2>1, FS_Subset DEF Shapes
<1>5. session' \in [Sessions -> Phases]
  BY DEF Leave, Shapes, Phases
<1> QED BY <1>3, <1>4, <1>5 DEF Leave, Shapes

LEMMA LeaveHaltingShapes == ASSUME Shapes, NEW s \in Sessions, LeaveHalting(s) PROVE Shapes'
BY DEF Shapes, LeaveHalting, Phases

\* The upstream connection is gone, and with it all that depended on it.
Dropped ==
  /\ pending' = {} /\ owned' = {} /\ early' = <<>> /\ toNode' = <<>> /\ fromNode' = <<>>
  /\ node' = [node EXCEPT !.subs = {}, !.lost = {}]
  /\ counter' = counter

LEMMA DroppedShapes ==
  ASSUME Shapes, Dropped
  PROVE  /\ pending' \in SUBSET Pendings /\ IsFiniteSet(pending') /\ counter' \in Nat
         /\ owned' \in SUBSET Helds /\ IsFiniteSet(owned') /\ early' \in Seq(EarlyItems)
         /\ toNode' \in Seq(Queries) /\ fromNode' \in Seq(Replies) /\ node' \in Nodes
         /\ node'.sent = node.sent /\ node'.subs = {}
<1>1. IsFiniteSet({})
  BY FS_EmptySet
<1>2. node' \in Nodes /\ node'.sent = node.sent /\ node'.subs = {}
  BY DEF Shapes, Dropped, Nodes
<1> QED BY <1>1, <1>2 DEF Shapes, Dropped

LEMMA DisconnectAllShapes == ASSUME Shapes, DisconnectAll PROVE Shapes' /\ Dropped
<1>1. Dropped
  BY DEF DisconnectAll, DropUpstream, Dropped
<1>2. session' \in [Sessions -> Phases]
  BY DEF DisconnectAll, Shapes, Phases
<1>3. UNCHANGED <<work, asked, heard>>
  BY DEF DisconnectAll, DropUpstream
<1> QED BY <1>1, <1>2, <1>3, DroppedShapes DEF Shapes

\* A sequence with one more in front.
LEMMA InFront ==
  ASSUME NEW S, NEW x \in S, NEW s \in Seq(S)
  PROVE  /\ <<x>> \o s \in Seq(S) /\ Len(<<x>> \o s) = Len(s) + 1
         /\ (<<x>> \o s)[1] = x
         /\ \A i \in 1 .. Len(s) : (<<x>> \o s)[i + 1] = s[i]
         /\ Tail(<<x>> \o s) = s
OBVIOUS

LEMMA HaltShapes == ASSUME Shapes, Halt PROVE Shapes'
<1>1. session' \in [Sessions -> Phases]
  BY DEF Halt, Shapes, Phases
<1>2. [do |-> "halt"] \in WorkItems
  BY DEF WorkItems
<1>3. work' \in Seq(WorkItems)
  BY <1>2, InFront DEF Halt, Shapes
<1> QED BY <1>1, <1>3 DEF Halt, Shapes

LEMMA HaltSessionShapes ==
  ASSUME Shapes, NEW s \in Sessions, HaltSession(s)
  PROVE  /\ Shapes' /\ Len(asked') = Len(asked) /\ Len(heard') = Len(heard)
         /\ \A n \in 1 .. Len(asked) :
              asked'[n] = [asked[n] EXCEPT !.answers = IF HaltAnswers(s, n) THEN @ + 1 ELSE @]
         /\ \A l \in 1 .. Len(heard) :
              heard'[l] = [heard[l] EXCEPT !.ended = heard'[l].ended]
<1>1. session' \in [Sessions -> Phases]
  BY DEF HaltSession, Shapes, Phases
<1>2. /\ asked' \in Seq(Askings) /\ Len(asked') = Len(asked)
      /\ \A n \in 1 .. Len(asked) :
           asked'[n] = [asked[n] EXCEPT !.answers = IF HaltAnswers(s, n) THEN @ + 1 ELSE @]
  <2>1. DOMAIN asked = 1 .. Len(asked) /\ Len(asked) \in Nat
    BY DEF Shapes
  <2>2. asked' = [n \in 1 .. Len(asked) |->
                   [asked[n] EXCEPT !.answers = IF HaltAnswers(s, n) THEN @ + 1 ELSE @]]
    BY <2>1 DEF HaltSession
  <2>3. \A n \in 1 .. Len(asked) :
          [asked[n] EXCEPT !.answers = IF HaltAnswers(s, n) THEN @ + 1 ELSE @] \in Askings
    <3>1. \A n \in 1 .. Len(asked) : asked[n] \in Askings
      BY DEF Shapes
    <3>2. \A a \in Askings : a.answers \in Nat /\ a.answers + 1 \in Nat
      BY DEF Askings
    <3>3. \A a \in Askings, k \in Nat : [a EXCEPT !.answers = k] \in Askings
      BY DEF Askings
    <3> QED BY <3>1, <3>2, <3>3
  <2>4. asked' \in [1 .. Len(asked) -> Askings]
    BY <2>2, <2>3
  <2> QED BY <2>1, <2>2, <2>4
<1>3. /\ heard' \in Seq(Hearings) /\ Len(heard') = Len(heard)
      /\ \A l \in 1 .. Len(heard) : heard'[l] = [heard[l] EXCEPT !.ended = heard'[l].ended]
  <2>1. DOMAIN heard = 1 .. Len(heard) /\ Len(heard) \in Nat
    BY DEF Shapes
  <2>2. PICK ends : ends = [l \in 1 .. Len(heard) |-> heard[l].ended \/
                              \E o \in owned : o.local = l /\ o.session = s /\ o.kind = "follow"]
    OBVIOUS
  <2>3. heard' = [l \in 1 .. Len(heard) |-> [heard[l] EXCEPT !.ended = ends[l]]]
    BY <2>1, <2>2 DEF HaltSession
  <2>4. \A l \in 1 .. Len(heard) : ends[l] \in BOOLEAN /\ heard[l] \in Hearings
    <3>1. \A l \in 1 .. Len(heard) : heard[l] \in Hearings
      BY DEF Shapes
    <3>2. \A l \in 1 .. Len(heard) : ends[l] \in BOOLEAN
      BY <2>2, Zenon
    <3> QED BY <3>1, <3>2
  <2>5. \A l \in 1 .. Len(heard) : /\ [heard[l] EXCEPT !.ended = ends[l]] \in Hearings
                                   /\ [heard[l] EXCEPT !.ended = ends[l]].ended = ends[l]
    BY <2>4 DEF Hearings
  <2>6. heard' \in [1 .. Len(heard) -> Hearings]
    BY <2>3, <2>5
  <2> QED BY <2>1, <2>3, <2>5, <2>6
<1> QED BY <1>1, <1>2, <1>3 DEF HaltSession, Shapes

LEMMA HaltEndsShapes == ASSUME Shapes, HaltEnds PROVE Shapes' /\ Dropped
<1>1. Dropped
  BY DEF HaltEnds, Dropped
<1>2. work' \in Seq(WorkItems)
  BY DEF HaltEnds, Halting, Shapes
<1>3. UNCHANGED <<session, asked, heard>>
  BY DEF HaltEnds
<1> QED BY <1>1, <1>2, <1>3, DroppedShapes DEF Shapes

----------------------------------------------------------------------------
(* Types, kept by the broker's and the node's steps. *)

LEMMA HeadTail ==
  ASSUME NEW S, NEW s \in Seq(S), s # <<>>
  PROVE  /\ Head(s) \in S /\ Head(s) = s[1] /\ 1 \in DOMAIN s /\ Len(s) \in Nat
         /\ Tail(s) \in Seq(S) /\ Len(Tail(s)) = Len(s) - 1
         /\ \A i \in 1 .. Len(s) - 1 : Tail(s)[i] = s[i + 1]
OBVIOUS

LEMMA Appended ==
  ASSUME NEW S, NEW s \in Seq(S), NEW x \in S
  PROVE  /\ Append(s, x) \in Seq(S) /\ Len(Append(s, x)) = Len(s) + 1 /\ Len(s) \in Nat
         /\ Append(s, x)[Len(s) + 1] = x
         /\ \A i \in 1 .. Len(s) : Append(s, x)[i] = s[i]
OBVIOUS

LEMMA RemoveAtRemoves ==
  ASSUME NEW S, NEW s \in Seq(S), NEW k \in 1 .. Len(s)
  PROVE  /\ RemoveAt(s, k) \in Seq(S) /\ Len(RemoveAt(s, k)) = Len(s) - 1
         /\ \A i \in 1 .. Len(s) - 1 : RemoveAt(s, k)[i] = IF i < k THEN s[i] ELSE s[i + 1]
<1>1. PICK n \in Nat : n = Len(s)
  OBVIOUS
<1>2. \A i \in 1 .. n : s[i] \in S
  BY <1>1
<1>3. PICK a : a = SubSeq(s, 1, k - 1)
  OBVIOUS
<1>4. /\ a \in Seq(S) /\ Len(a) = k - 1
      /\ \A i \in 1 .. k - 1 : a[i] = s[i]
  <2>1. \A i \in 1 .. k - 1 : s[i] \in S
    BY <1>1, <1>2
  <2>2. 1 \in Int /\ k - 1 \in Int
    OBVIOUS
  <2> QED BY <1>1, <1>3, <2>1, <2>2, SubSeqProperties
<1>5. PICK b : b = SubSeq(s, k + 1, n)
  OBVIOUS
<1>6. /\ b \in Seq(S) /\ Len(b) = n - k
      /\ \A i \in 1 .. n - k : b[i] = s[k + i]
  <2>1. \A i \in k + 1 .. n : s[i] \in S
    BY <1>1, <1>2
  <2>2. k + 1 \in Int /\ n \in Int
    BY <1>1
  <2>3. /\ b \in Seq(S) /\ Len(b) = IF k + 1 <= n THEN n - (k + 1) + 1 ELSE 0
        /\ \A i \in 1 .. n - (k + 1) + 1 : b[i] = s[(k + 1) + i - 1]
    BY <1>5, <2>1, <2>2, SubSeqProperties
  <2> QED BY <1>1, <2>3
<1>7. RemoveAt(s, k) = a \o b
  BY <1>1, <1>3, <1>5 DEF RemoveAt
<1>8. a \o b \in Seq(S) /\ Len(a \o b) = n - 1
  BY <1>1, <1>4, <1>6
<1>9. ASSUME NEW i \in 1 .. n - 1 PROVE (a \o b)[i] = IF i < k THEN s[i] ELSE s[i + 1]
  <2>1. CASE i < k
    BY <1>1, <1>4, <1>6, <2>1
  <2>2. CASE ~(i < k)
    <3>1. i - (k - 1) \in 1 .. n - k /\ (a \o b)[i] = b[i - (k - 1)]
      BY <1>1, <1>4, <1>6, <2>2
    <3>2. b[i - (k - 1)] = s[k + (i - (k - 1))] /\ k + (i - (k - 1)) = i + 1
      BY <1>1, <1>6, <3>1
    <3> QED BY <2>2, <3>1, <3>2
  <2> QED BY <2>1, <2>2
<1> QED BY <1>1, <1>7, <1>8, <1>9

\* EarlyDropped keeps the order of what it keeps.
LEMMA EarlyDroppedShapes ==
  ASSUME Shapes, NEW t
  PROVE  /\ EarlyDropped(t) \in Seq(EarlyItems)
         /\ EarlyAt(t) = {} => EarlyDropped(t) = early
         /\ EarlyAt(t) # {} => \E k \in EarlyAt(t) :
              /\ EarlyOf(t) = early[k].events /\ Len(EarlyDropped(t)) = Len(early) - 1
              /\ \A i \in 1 .. Len(early) - 1 :
                   EarlyDropped(t)[i] = IF i < k THEN early[i] ELSE early[i + 1]
<1>1. early \in Seq(EarlyItems)
  BY DEF Shapes
<1>2. CASE EarlyAt(t) = {}
  BY <1>1, <1>2 DEF EarlyDropped
<1>3. CASE EarlyAt(t) # {}
  <2>1. PICK k : k = CHOOSE i \in EarlyAt(t) : TRUE
    OBVIOUS
  <2>2. k \in EarlyAt(t) /\ k \in 1 .. Len(early)
    BY <1>1, <1>3, <2>1 DEF EarlyAt
  <2>3. EarlyDropped(t) = RemoveAt(early, k) /\ EarlyOf(t) = early[k].events
    BY <1>3, <2>1 DEF EarlyDropped, EarlyOf
  <2> QED BY <1>1, <1>3, <2>2, <2>3, RemoveAtRemoves
<1> QED BY <1>2, <1>3

LEMMA EarlyOfShapes == ASSUME Shapes, NEW t PROVE EarlyOf(t) \in Seq(Events)
<1>1. CASE EarlyAt(t) = {}
  BY <1>1 DEF EarlyOf
<1>2. CASE EarlyAt(t) # {}
  <2>1. PICK k \in EarlyAt(t) : EarlyOf(t) = early[k].events
    BY <1>2, EarlyDroppedShapes
  <2>2. early[k] \in EarlyItems
    BY <2>1 DEF EarlyAt, Shapes
  <2> QED BY <2>1, <2>2 DEF EarlyItems
<1> QED BY <1>1, <1>2

\* The ways the answer at the head of the queue is handled.
Reply == fromNode[1]
Unknown ==
  /\ \A p \in pending : p.id # Reply.id
  /\ UNCHANGED <<pending, counter, early, toNode, owned, heard, work, asked>>
Mapped(p) ==
  /\ p.owner.kind = "session" /\ Reply.token # None /\ p.owner.method \in Kinds
  /\ AnswerSession(p.owner, Reply.token)
  /\ pending' = pending \ {p} /\ UNCHANGED <<early, counter, toNode>>
Relayed(p) ==
  /\ p.owner.kind = "session" /\ (Reply.token = None \/ p.owner.method \notin Kinds)
  /\ Answered(p.owner.client)
  /\ pending' = pending \ {p} /\ UNCHANGED <<early, counter, toNode, owned, heard, work>>
Freed(p) ==
  /\ p.owner.kind = "orphan" /\ Reply.token # None /\ p.owner.method \in Kinds
  /\ Holders(Reply.token) = {}
  /\ early' = EarlyDropped(Reply.token)
  /\ Track(pending \ {p}, <<SentRelease(p.owner.method, Reply.token)>>)
  /\ UNCHANGED <<owned, heard, work, asked>>
Closed(p) ==
  /\ p.owner.kind \in {"orphan", "release"}
  /\ p.owner.kind = "orphan" =>
       Reply.token = None \/ p.owner.method \notin Kinds \/ Holders(Reply.token) # {}
  /\ pending' = pending \ {p} /\ UNCHANGED <<early, counter, toNode, owned, heard, work, asked>>

LEMMA HandleAnswerCases ==
  ASSUME Shapes, HandleAnswer
  PROVE  /\ work = <<>> /\ fromNode # <<>> /\ fromNode' = Tail(fromNode)
         /\ Reply \in Replies /\ Reply.msg = "answer" /\ Reply.id \in Nat /\ Reply.token \in Names
         /\ UNCHANGED <<session, node>>
         /\ \/ Unknown
            \/ \E p \in pending : p.id = Reply.id /\ (Mapped(p) \/ Relayed(p) \/ Freed(p) \/ Closed(p))
<1>1. work = <<>> /\ fromNode # <<>> /\ fromNode' = Tail(fromNode) /\ UNCHANGED <<session, node>>
  BY DEF HandleAnswer, FromNode
<1>2. Head(fromNode) = Reply /\ Reply \in Replies
  BY <1>1, HeadTail DEF Shapes, Reply
<1>3. Reply.msg = "answer"
  BY <1>2 DEF HandleAnswer, FromNode
<1>4. Reply.id \in Nat /\ Reply.token \in Names
  BY <1>2, <1>3 DEF Replies
<1>5. PICK known : known = {p \in pending : p.id = Reply.id}
  OBVIOUS
<1>6. CASE known = {}
  <2>1. Unknown
    BY <1>2, <1>5, <1>6 DEF HandleAnswer, Unknown
  <2> QED BY <1>1, <1>2, <1>3, <1>4, <2>1
<1>7. CASE known # {}
  <2>1. PICK p \in known :
           \/ /\ p.owner.kind = "session"
              /\ IF Reply.token # None /\ p.owner.method \in Kinds THEN AnswerSession(p.owner, Reply.token)
                 ELSE Answered(p.owner.client) /\ UNCHANGED <<owned, heard, work>>
              /\ pending' = pending \ {p}
              /\ UNCHANGED <<early, counter, toNode>>
           \/ /\ p.owner.kind = "orphan"
              /\ AnswerOrphan(p, Reply.token)
              /\ UNCHANGED <<owned, heard, work, asked>>
           \/ /\ p.owner.kind = "release"
              /\ pending' = pending \ {p}
              /\ UNCHANGED <<early, counter, toNode, owned, heard, work, asked>>
    BY <1>2, <1>5, <1>7 DEF HandleAnswer
  <2>2. p \in pending /\ p.id = Reply.id
    BY <1>5, <2>1
  <2>3. Mapped(p) \/ Relayed(p) \/ Freed(p) \/ Closed(p)
    <3>1. CASE p.owner.kind = "session"
      BY <2>1, <3>1 DEF Mapped, Relayed
    <3>2. CASE p.owner.kind = "orphan" /\ Reply.token # None /\ p.owner.method \in Kinds /\ Holders(Reply.token) = {}
      BY <2>1, <3>2 DEF Freed, AnswerOrphan
    <3>3. CASE p.owner.kind = "orphan" /\ ~(Reply.token # None /\ p.owner.method \in Kinds /\ Holders(Reply.token) = {})
      BY <2>1, <3>3 DEF Closed, AnswerOrphan
    <3>4. CASE p.owner.kind = "release"
      BY <2>1, <3>4 DEF Closed
    <3> QED BY <2>1, <3>1, <3>2, <3>3, <3>4
  <2> QED BY <1>1, <1>2, <1>3, <1>4, <2>2, <2>3
<1> QED BY <1>6, <1>7

LEMMA AnsweredShapes ==
  ASSUME Shapes, NEW n, Answered(n)
  PROVE  /\ asked' \in Seq(Askings) /\ Len(asked') = Len(asked)
         /\ \A k \in 1 .. Len(asked) : k # n => asked'[k] = asked[k]
         /\ n \in 1 .. Len(asked) => asked'[n] = [asked[n] EXCEPT !.answers = @ + 1]
<1>1. \A k \in 1 .. Len(asked) : asked[k] \in Askings
  BY DEF Shapes
<1>2. \A a \in Askings : [a EXCEPT !.answers = @ + 1] \in Askings
  BY DEF Askings
<1>3. asked' = [k \in 1 .. Len(asked) |->
                  IF k = n THEN [asked[k] EXCEPT !.answers = @ + 1] ELSE asked[k]]
  <2>1. asked \in [1 .. Len(asked) -> Askings]
    BY DEF Shapes
  <2>2. asked' = [asked EXCEPT ![n].answers = @ + 1]
    BY DEF Answered
  <2> QED BY <2>1, <2>2
<1>4. asked' \in [1 .. Len(asked) -> Askings]
  BY <1>1, <1>2, <1>3
<1>5. Len(asked) \in Nat
  BY DEF Shapes
<1> QED BY <1>3, <1>4, <1>5

\* A new subscription, under the next local token.
NewHeld(p) == [local |-> Len(heard) + 1, session |-> p.owner.session, token |-> Reply.token,
               kind |-> p.owner.method]
NewHearing(p) == [session |-> p.owner.session, token |-> Reply.token, events |-> <<>>, ended |-> FALSE]

LEMMA MappedShapes ==
  ASSUME Shapes, HandleAnswer, NEW p \in pending, Mapped(p)
  PROVE  /\ Shapes'
         /\ Reply.token \in Nat /\ NewHeld(p) \in Helds /\ NewHearing(p) \in Hearings
         /\ owned' = owned \cup {NewHeld(p)}
         /\ heard' = Append(heard, NewHearing(p)) /\ Len(heard) \in Nat
         /\ work' = <<[do |-> "flush", token |-> Reply.token]>>
         /\ p.owner \in Owners /\ p.owner.session \in Sessions
<1>1. Reply.token \in Nat
  BY HandleAnswerCases DEF Mapped, Names
<1>2. p.owner \in Owners /\ p.owner.session \in Sessions
  <2>1. p.owner \in Owners
    BY DEF Shapes, Pendings
  <2> QED BY <2>1 DEF Mapped, Owners
<1>3. p.owner.method \in Kinds
  BY DEF Mapped
<1>4. Len(heard) \in Nat /\ heard \in Seq(Hearings)
  BY DEF Shapes
<1>5. NewHeld(p) \in Helds /\ NewHearing(p) \in Hearings
  BY <1>1, <1>2, <1>3, <1>4 DEF NewHeld, NewHearing, Helds, Hearings
<1>6. /\ owned' = owned \cup {NewHeld(p)} /\ heard' = Append(heard, NewHearing(p))
      /\ work' = <<[do |-> "flush", token |-> Reply.token]>>
  BY DEF Mapped, AnswerSession, NewHeld, NewHearing
<1>7. owned' \in SUBSET Helds /\ IsFiniteSet(owned')
  BY <1>5, <1>6, FS_AddElement DEF Shapes
<1>8. heard' \in Seq(Hearings)
  BY <1>4, <1>5, <1>6
<1>9. work' \in Seq(WorkItems)
  <2>1. [do |-> "flush", token |-> Reply.token] \in WorkItems
    BY <1>1 DEF WorkItems
  <2> QED BY <1>6, <2>1
<1>10. asked' \in Seq(Askings)
  BY AnsweredShapes DEF Mapped, AnswerSession
<1>11. pending' \in SUBSET Pendings /\ IsFiniteSet(pending')
  BY FS_RemoveElement DEF Mapped, Shapes
<1>12. fromNode' \in Seq(Replies)
  BY HandleAnswerCases, HeadTail DEF Shapes
<1>13. UNCHANGED <<session, counter, early, toNode, node>>
  BY HandleAnswerCases DEF Mapped
<1> QED BY <1>1, <1>2, <1>4, <1>5, <1>6, <1>7, <1>8, <1>9, <1>10, <1>11, <1>12, <1>13 DEF Shapes

LEMMA FreedShapes ==
  ASSUME Shapes, HandleAnswer, NEW p \in pending, Freed(p)
  PROVE  /\ Shapes'
         /\ Reply.token \in Nat /\ SentRelease(p.owner.method, Reply.token) \in Owners
<1>1. Reply.token \in Nat
  BY HandleAnswerCases DEF Freed, Names
<1>2. ReleaseOf(p.owner.method) \in Methods
  BY ReleasesAreMethods DEF Freed
<1>3. SentRelease(p.owner.method, Reply.token) \in Owners
  BY <1>1, <1>2 DEF SentRelease, Owner, Owners, Names
<1>4. <<SentRelease(p.owner.method, Reply.token)>> \in Seq(Owners)
  BY <1>3
<1>5. pending \ {p} \in SUBSET Pendings /\ IsFiniteSet(pending \ {p})
  BY FS_RemoveElement DEF Shapes
<1>6. /\ pending' \in SUBSET Pendings /\ IsFiniteSet(pending') /\ counter' \in Nat
      /\ toNode' \in Seq(Queries)
  BY <1>4, <1>5, TrackAdds DEF Freed
<1>7. early' \in Seq(EarlyItems)
  BY EarlyDroppedShapes DEF Freed
<1>8. fromNode' \in Seq(Replies)
  BY HandleAnswerCases, HeadTail DEF Shapes
<1>9. UNCHANGED <<session, node, owned, heard, work, asked>>
  BY HandleAnswerCases DEF Freed
<1> QED BY <1>1, <1>3, <1>6, <1>7, <1>8, <1>9 DEF Shapes

LEMMA HandleAnswerShapes == ASSUME Shapes, HandleAnswer PROVE Shapes'
<1>1. fromNode' \in Seq(Replies) /\ UNCHANGED <<session, node>>
  BY HandleAnswerCases, HeadTail DEF Shapes
<1>2. CASE Unknown
  BY <1>1, <1>2 DEF Unknown, Shapes
<1>3. ASSUME NEW p \in pending, Relayed(p) PROVE Shapes'
  <2>1. asked' \in Seq(Askings)
    BY <1>3, AnsweredShapes DEF Relayed
  <2>2. pending' \in SUBSET Pendings /\ IsFiniteSet(pending')
    BY <1>3, FS_RemoveElement DEF Relayed, Shapes
  <2> QED BY <1>1, <1>3, <2>1, <2>2 DEF Relayed, Shapes
<1>4. ASSUME NEW p \in pending, Closed(p) PROVE Shapes'
  <2>1. pending' \in SUBSET Pendings /\ IsFiniteSet(pending')
    BY <1>4, FS_RemoveElement DEF Closed, Shapes
  <2> QED BY <1>1, <1>4, <2>1 DEF Closed, Shapes
<1> QED BY <1>2, <1>3, <1>4, HandleAnswerCases, MappedShapes, FreedShapes

LEMMA HandleEventShapes ==
  ASSUME Shapes, HandleEvent
  PROVE  /\ Shapes' /\ work = <<>> /\ fromNode # <<>> /\ fromNode' = Tail(fromNode)
         /\ Reply.msg = "event" /\ Reply.event \in Events
         /\ work' = <<[do |-> "event", event |-> Reply.event]>>
<1>1. work = <<>> /\ fromNode # <<>> /\ fromNode' = Tail(fromNode)
  BY DEF HandleEvent, FromNode
<1>2. Head(fromNode) = Reply /\ Reply \in Replies /\ fromNode' \in Seq(Replies)
  BY <1>1, HeadTail DEF Shapes, Reply
<1>3. Reply.msg = "event"
  BY <1>2 DEF HandleEvent, FromNode
<1>4. Reply.event \in Events
  BY <1>2, <1>3 DEF Replies
<1>5. work' = <<[do |-> "event", event |-> Reply.event]>>
  BY <1>2 DEF HandleEvent
<1>6. work' \in Seq(WorkItems)
  <2>1. [do |-> "event", event |-> Reply.event] \in WorkItems
    BY <1>4 DEF WorkItems
  <2> QED BY <1>5, <2>1
<1> QED BY <1>1, <1>2, <1>3, <1>4, <1>5, <1>6 DEF HandleEvent, Shapes

\* Entries that take the place of the first.
LEMMA InPlace ==
  ASSUME NEW S, NEW a \in Seq(S), NEW w \in Seq(S), w # <<>>
  PROVE  /\ a \o Tail(w) \in Seq(S) /\ Len(a \o Tail(w)) = Len(a) + Len(w) - 1
         /\ Len(a) \in Nat /\ Len(w) \in Nat
         /\ \A i \in 1 .. Len(a) : (a \o Tail(w))[i] = a[i]
         /\ \A i \in 1 .. Len(w) - 1 : (a \o Tail(w))[Len(a) + i] = w[i + 1]
<1>1. PICK t : t = Tail(w)
  OBVIOUS
<1>2. t \in Seq(S) /\ Len(t) = Len(w) - 1 /\ \A i \in 1 .. Len(w) - 1 : t[i] = w[i + 1]
  BY <1>1, HeadTail
<1>3. a \o t \in Seq(S) /\ Len(a \o t) = Len(a) + Len(t) /\ Len(a) \in Nat /\ Len(w) \in Nat
  <2>1. Len(a) \in Nat /\ Len(w) \in Nat
    OBVIOUS
  <2> QED BY <1>2, <2>1, ConcatProperties
<1>4. \A i \in 1 .. Len(a) : (a \o t)[i] = a[i]
  BY <1>2, <1>3
<1>5. \A i \in 1 .. Len(t) : (a \o t)[Len(a) + i] = t[i]
  BY <1>2, <1>3
<1> QED BY <1>1, <1>2, <1>3, <1>4, <1>5

LEMMA WorkHead ==
  ASSUME Shapes, NEW kind, Working(kind)
  PROVE  work # <<>> /\ Head(work) = work[1] /\ work[1] \in WorkItems /\ work[1].do = kind
         /\ Len(work) \in Nat /\ 1 \in DOMAIN work
<1>1. work # <<>> /\ work \in Seq(WorkItems)
  BY DEF Working, Shapes
<1> QED BY <1>1, HeadTail DEF Working

LEMMA FlushShapes ==
  ASSUME Shapes, Flush
  PROVE  /\ Shapes' /\ work # <<>> /\ work[1].do = "flush" /\ work[1].token \in Nat
         /\ early' = EarlyDropped(work[1].token)
         /\ \E events \in Seq(Events) :
              /\ events = EarlyOf(work[1].token)
              /\ Len(work') = Len(events) + Len(work) - 1
              /\ \A i \in 1 .. Len(events) : work'[i] = [do |-> "event", event |-> events[i]]
              /\ \A i \in 1 .. Len(work) - 1 : work'[Len(events) + i] = work[i + 1]
<1>1. work # <<>> /\ Head(work) = work[1] /\ work[1] \in WorkItems /\ work[1].do = "flush"
  BY WorkHead DEF Flush
<1>2. PICK t \in Nat : t = work[1].token
  BY <1>1 DEF WorkItems
<1>3. PICK events \in Seq(Events) : events = EarlyOf(t)
  BY EarlyOfShapes
<1>4. PICK evs : evs = [i \in DOMAIN events |-> [do |-> "event", event |-> events[i]]]
  OBVIOUS
<1>5. evs \in Seq(WorkItems) /\ Len(evs) = Len(events)
  <2>1. DOMAIN events = 1 .. Len(events) /\ Len(events) \in Nat
    OBVIOUS
  <2>2. \A i \in 1 .. Len(events) : evs[i] \in WorkItems
    BY <1>4, <2>1 DEF WorkItems
  <2>3. evs \in [1 .. Len(events) -> WorkItems]
    BY <1>4, <2>1, <2>2
  <2> QED BY <2>1, <2>3
<1>6. work' = evs \o Tail(work) /\ early' = EarlyDropped(t)
  BY <1>1, <1>2, <1>3, <1>4 DEF Flush
<1>7. /\ work' \in Seq(WorkItems) /\ Len(work') = Len(events) + Len(work) - 1
      /\ \A i \in 1 .. Len(events) : work'[i] = evs[i]
      /\ \A i \in 1 .. Len(work) - 1 : work'[Len(events) + i] = work[i + 1]
  <2>1. work \in Seq(WorkItems)
    BY DEF Shapes
  <2>2. /\ evs \o Tail(work) \in Seq(WorkItems) /\ Len(evs \o Tail(work)) = Len(evs) + Len(work) - 1
        /\ \A i \in 1 .. Len(evs) : (evs \o Tail(work))[i] = evs[i]
        /\ \A i \in 1 .. Len(work) - 1 : (evs \o Tail(work))[Len(evs) + i] = work[i + 1]
    <3>1. evs \in Seq(WorkItems) /\ work # <<>>
      BY <1>1, <1>5
    <3> QED BY <2>1, <3>1, InPlace
  <2> QED BY <1>5, <1>6, <2>2
<1>8. early' \in Seq(EarlyItems)
  BY <1>6, EarlyDroppedShapes
<1>9. Shapes'
  BY <1>7, <1>8 DEF Flush, Shapes
<1>10. \A i \in 1 .. Len(events) : evs[i] = [do |-> "event", event |-> events[i]]
  BY <1>4
<1> QED BY <1>1, <1>2, <1>3, <1>6, <1>7, <1>9, <1>10

\* An event that no answer has named yet joins those of its token, or starts a new place.
LEMMA BufferedShapes ==
  ASSUME Shapes, NEW event \in Events
  PROVE  Buffered(event) \in Seq(EarlyItems)
<1>1. early \in Seq(EarlyItems) /\ Len(early) \in Nat
  BY DEF Shapes
<1>2. CASE EarlyAt(event.token) = {}
  <2>1. PICK room : room = IF Len(early) >= MaxEarlyTokens THEN Tail(early) ELSE early
    OBVIOUS
  <2>2. room \in Seq(EarlyItems)
    <3>1. CASE Len(early) >= MaxEarlyTokens
      <4>1. MaxEarlyTokens \in Nat /\ MaxEarlyTokens > 0
        BY BrokerAssumption
      <4>2. Len(early) > 0
        BY <1>1, <3>1, <4>1
      <4>3. early # <<>>
        BY <1>1, <4>2
      <4> QED BY <1>1, <2>1, <3>1, <4>3, HeadTail
    <3>2. CASE ~(Len(early) >= MaxEarlyTokens)
      BY <1>1, <2>1, <3>2
    <3> QED BY <3>1, <3>2
  <2>3. [token |-> event.token, events |-> <<event>>] \in EarlyItems
    <3>1. event.token \in Nat /\ <<event>> \in Seq(Events)
      BY DEF Events
    <3> QED BY <3>1 DEF EarlyItems
  <2>4. Buffered(event) = Append(room, [token |-> event.token, events |-> <<event>>])
    BY <1>2, <2>1 DEF Buffered
  <2> QED BY <2>2, <2>3, <2>4, Appended
<1>3. CASE EarlyAt(event.token) # {}
  <2>1. \A e \in EarlyItems : [e EXCEPT !.events = Append(@, event)] \in EarlyItems
    <3> SUFFICES ASSUME NEW e \in EarlyItems PROVE [e EXCEPT !.events = Append(@, event)] \in EarlyItems
      OBVIOUS
    <3>1. e.events \in Seq(Events) /\ e.token \in Nat
      BY DEF EarlyItems
    <3>2. Append(e.events, event) \in Seq(Events)
      BY <3>1
    <3> QED BY <3>2 DEF EarlyItems
  <2>2. Buffered(event) = [i \in 1 .. Len(early) |->
              IF early[i].token = event.token /\ Len(early[i].events) < MaxEarlyEvents
              THEN [early[i] EXCEPT !.events = Append(@, event)] ELSE early[i]]
    <3>1. DOMAIN early = 1 .. Len(early)
      BY <1>1
    <3> QED BY <1>3, <3>1 DEF Buffered
  <2>3. \A i \in 1 .. Len(early) : early[i] \in EarlyItems
    BY <1>1
  <2>4. Buffered(event) \in [1 .. Len(early) -> EarlyItems]
    BY <2>1, <2>2, <2>3
  <2> QED BY <1>1, <2>4
<1> QED BY <1>2, <1>3

LEMMA RouteShapes ==
  ASSUME Shapes, Named, Route
  PROVE  /\ Shapes' /\ work # <<>> /\ work[1].do = "event" /\ work[1].event \in Events
         /\ owned' = Ended(work[1].event) /\ owned' \subseteq owned
         /\ Holders(work[1].event.token) = {} /\ ~Releasing(work[1].event.token) /\ MayOpen =>
              early' = Buffered(work[1].event)
         /\ \E order \in Seq(Helds) :
              /\ \A i \in 1 .. Len(order) : order[i] \in Holders(work[1].event.token)
              /\ \A o \in Holders(work[1].event.token) : \E i \in 1 .. Len(order) : order[i] = o
              /\ \A i, j \in 1 .. Len(order) : i < j => order[i].local < order[j].local
              /\ Len(work') = Len(order) + Len(work) - 1
              /\ \A i \in 1 .. Len(order) :
                   work'[i] = [do |-> "tell", owned |-> order[i], event |-> work[1].event]
              /\ \A i \in 1 .. Len(work) - 1 : work'[Len(order) + i] = work[i + 1]
              /\ \/ early' = early
                 \/ Holders(work[1].event.token) = {} /\ early' = Buffered(work[1].event)
<1>1. work # <<>> /\ Head(work) = work[1] /\ work[1] \in WorkItems /\ work[1].do = "event"
  BY WorkHead DEF Route
<1>2. PICK e \in Events : e = work[1].event
  BY <1>1 DEF WorkItems
<1>3. Holders(e.token) \in SUBSET owned /\ IsFiniteSet(Holders(e.token)) /\ Apart(Holders(e.token))
  <2>1. Holders(e.token) \in SUBSET owned
    BY DEF Holders
  <2> QED BY <2>1, OwnedApart
<1>4. PICK n \in Nat : n = Cardinality(Holders(e.token))
  BY <1>3, FS_CardinalityType
<1>5. PICK order : order = InOrder(Holders(e.token))
  OBVIOUS
<1>6. /\ order \in [1 .. n -> Holders(e.token)]
      /\ \A i, j \in 1 .. n : i < j => order[i].local < order[j].local
      /\ \A o \in Holders(e.token) : \E i \in 1 .. n : order[i] = o
  BY <1>3, <1>4, <1>5, InOrderIsOrdered
<1>7. order \in Seq(Helds) /\ Len(order) = n /\ DOMAIN order = 1 .. n
  <2>1. \A i \in 1 .. n : order[i] \in Helds
    BY <1>3, <1>6 DEF Shapes
  <2>2. order \in [1 .. n -> Helds]
    BY <1>6, <2>1
  <2> QED BY <2>2
<1>8. PICK tells : tells = [i \in 1 .. n |-> [do |-> "tell", owned |-> order[i], event |-> e]]
  OBVIOUS
<1>9. tells \in Seq(WorkItems) /\ Len(tells) = n
  <2>1. \A i \in 1 .. n : order[i] \in Helds
    BY <1>3, <1>6 DEF Shapes
  <2>2. \A i \in 1 .. n : tells[i] \in WorkItems
    BY <1>8, <2>1 DEF WorkItems
  <2>3. tells \in [1 .. n -> WorkItems]
    BY <1>8, <2>2
  <2> QED BY <2>3
<1>10. work' = tells \o Tail(work) /\ owned' = Ended(e)
       /\ early' = IF order = <<>> /\ ~Releasing(e.token) /\ MayOpen THEN Buffered(e) ELSE early
  <2>1. Head(work).event = e
    BY <1>1, <1>2
  <2> QED BY <1>5, <1>7, <1>8, <2>1 DEF Route
<1>11. /\ work' \in Seq(WorkItems) /\ Len(work') = n + Len(work) - 1
       /\ \A i \in 1 .. n : work'[i] = tells[i]
       /\ \A i \in 1 .. Len(work) - 1 : work'[n + i] = work[i + 1]
  <2>1. work \in Seq(WorkItems)
    BY DEF Shapes
  <2>2. /\ tells \o Tail(work) \in Seq(WorkItems) /\ Len(tells \o Tail(work)) = Len(tells) + Len(work) - 1
        /\ \A i \in 1 .. Len(tells) : (tells \o Tail(work))[i] = tells[i]
        /\ \A i \in 1 .. Len(work) - 1 : (tells \o Tail(work))[Len(tells) + i] = work[i + 1]
    <3>1. tells \in Seq(WorkItems) /\ work # <<>>
      BY <1>1, <1>9
    <3> QED BY <2>1, <3>1, InPlace
  <2> QED BY <1>9, <1>10, <2>2
<1>12. owned' \subseteq owned /\ owned' \in SUBSET Helds /\ IsFiniteSet(owned')
  <2>1. owned' \in SUBSET owned
    BY <1>10 DEF Ended
  <2> QED BY <2>1, FS_Subset DEF Shapes
<1>13. early' \in Seq(EarlyItems)
  BY <1>2, <1>10, BufferedShapes DEF Shapes
<1>14. Shapes'
  BY <1>11, <1>12, <1>13 DEF Route, Shapes
<1>15. early' = early \/ (Holders(e.token) = {} /\ early' = Buffered(e))
  <2>1. CASE order = <<>>
    <3>1. Len(order) = 0 /\ n = 0
      BY <1>7, <2>1
    <3>2. Holders(e.token) = {}
      BY <1>3, <1>4, <3>1, FS_EmptySet
    <3> QED BY <1>10, <3>2
  <2>2. CASE order # <<>>
    BY <1>10, <2>2
  <2> QED BY <2>1, <2>2
<1>16. \A i \in 1 .. n : tells[i] = [do |-> "tell", owned |-> order[i], event |-> e]
  BY <1>8
<1>17. /\ \A i \in 1 .. Len(order) : order[i] \in Holders(e.token)
       /\ \A o \in Holders(e.token) : \E i \in 1 .. Len(order) : order[i] = o
       /\ \A i, j \in 1 .. Len(order) : i < j => order[i].local < order[j].local
       /\ Len(work') = Len(order) + Len(work) - 1
       /\ \A i \in 1 .. Len(order) : work'[i] = [do |-> "tell", owned |-> order[i], event |-> e]
       /\ \A i \in 1 .. Len(work) - 1 : work'[Len(order) + i] = work[i + 1]
  BY <1>6, <1>7, <1>11, <1>16
<1>18. Holders(e.token) = {} /\ ~Releasing(e.token) /\ MayOpen => early' = Buffered(e)
  <2>1. ASSUME Holders(e.token) = {} PROVE order = <<>>
    <3>1. n = 0
      BY <1>4, <2>1, FS_EmptySet
    <3> QED BY <1>7, <3>1
  <2> QED BY <1>10, <2>1
<1>19. owned' = Ended(e) /\ owned' \subseteq owned
  BY <1>10, <1>12
<1> QED BY <1>1, <1>2, <1>7, <1>14, <1>15, <1>17, <1>18, <1>19

\* What the telling of an event to o does.
LEMMA TellShapes ==
  ASSUME Shapes, Tell
  PROVE  /\ Shapes' /\ work # <<>> /\ work[1].do = "tell" /\ work[1].owned \in Helds
         /\ work[1].event \in Events /\ work' = Tail(work) /\ Len(heard') = Len(heard)
         /\ \A l \in 1 .. Len(heard) :
              heard'[l] = IF Tells(work[1].owned, work[1].event) /\ l = work[1].owned.local
                          THEN [heard[l] EXCEPT !.events = Append(@, work[1].event.number),
                                                !.ended = @ \/ work[1].event.ends]
                          ELSE heard[l]
<1>1. /\ work # <<>> /\ Head(work) = work[1] /\ work[1] \in WorkItems /\ work[1].do = "tell"
  BY WorkHead DEF Tell
<1>2. PICK o \in Helds, e \in Events : o = work[1].owned /\ e = work[1].event
  BY <1>1 DEF WorkItems
<1>3. heard \in [1 .. Len(heard) -> Hearings] /\ Len(heard) \in Nat
  BY DEF Shapes
<1>4. heard' = IF Tells(o, e)
               THEN [heard EXCEPT ![o.local].events = Append(@, e.number),
                                  ![o.local].ended = @ \/ e.ends]
               ELSE heard
  BY <1>1, <1>2 DEF Tell
<1>5. e.number \in Nat /\ e.ends \in BOOLEAN
  BY DEF Events
<1>6. \A h \in Hearings :
        LET new == [h EXCEPT !.events = Append(@, e.number), !.ended = @ \/ e.ends]
        IN  new \in Hearings
  <2> SUFFICES ASSUME NEW h \in Hearings
               PROVE  [h EXCEPT !.events = Append(@, e.number), !.ended = @ \/ e.ends] \in Hearings
    OBVIOUS
  <2>1. PICK b : b = (h.ended \/ e.ends)
    OBVIOUS
  <2>2. b \in BOOLEAN
    BY <2>1, Zenon
  <2>3. PICK q : q = Append(h.events, e.number)
    OBVIOUS
  <2>4. q \in Seq(Nat)
    BY <1>5, <2>3 DEF Hearings
  <2>5. [h EXCEPT !.events = q, !.ended = b] \in Hearings
    BY <2>2, <2>4 DEF Hearings
  <2>6. [h EXCEPT !.events = Append(@, e.number), !.ended = @ \/ e.ends] = [h EXCEPT !.events = q, !.ended = b]
    BY <2>1, <2>3 DEF Hearings
  <2> QED BY <2>5, <2>6
<1>7. heard' = [l \in 1 .. Len(heard) |->
                IF Tells(o, e) /\ l = o.local
                THEN [heard[l] EXCEPT !.events = Append(@, e.number), !.ended = @ \/ e.ends]
                ELSE heard[l]]
  <2>1. CASE ~Tells(o, e)
    BY <1>3, <1>4, <2>1
  <2>2. CASE Tells(o, e)
    <3>1. heard' = [heard EXCEPT ![o.local].events = Append(@, e.number),
                                 ![o.local].ended = @ \/ e.ends]
      BY <1>4, <2>2
    <3> QED BY <1>3, <2>2, <3>1 DEF Hearings
  <2> QED BY <2>1, <2>2
<1>8. heard' \in Seq(Hearings) /\ Len(heard') = Len(heard)
  <2>1. \A l \in 1 .. Len(heard) : heard[l] \in Hearings
    BY <1>3
  <2>2. heard' \in [1 .. Len(heard) -> Hearings]
    BY <1>6, <1>7, <2>1
  <2> QED BY <1>3, <2>2
<1>9. work' = Tail(work) /\ work' \in Seq(WorkItems)
  BY <1>1, HeadTail DEF Tell, Shapes
<1>10. Shapes'
  BY <1>8, <1>9 DEF Tell, Shapes
<1> QED BY <1>1, <1>2, <1>7, <1>8, <1>9, <1>10

\* What the node does with the request it reads.
Query == toNode[1]
NewToken == Len(node.sent) + 1

Refuses == fromNode' = Append(fromNode, AnswerMsg(Query.id, None)) /\ node' = node
Runs ==
  /\ fromNode' = Append(fromNode, AnswerMsg(Query.id, NewToken))
  /\ node' = [node EXCEPT !.subs = @ \cup {Sub(NewToken, Query.method)}, !.sent = Append(@, 0)]
RunsEarly(ends) ==
  /\ node.events < MaxEvents
  /\ fromNode' = fromNode \o <<EventMsg(NewToken, 1, ends), AnswerMsg(Query.id, NewToken)>>
  /\ node' = [node EXCEPT !.subs = IF ends THEN @ ELSE @ \cup {Sub(NewToken, Query.method)},
                          !.sent = Append(@, 1), !.events = @ + 1]
SharesOne(x) ==
  /\ Shares /\ Query.method = "watch" /\ x.kind = "watch"
  /\ fromNode' = Append(fromNode, AnswerMsg(Query.id, x.token)) /\ node' = node
Garbles ==
  /\ fromNode' = Append(fromNode, AnswerMsg(Query.id, None))
  /\ node' = [node EXCEPT !.subs = @ \cup {Sub(NewToken, Query.method)}, !.lost = @ \cup {NewToken},
                          !.sent = Append(@, 0), !.garbled = @ + 1]

LEMMA QueryShapes ==
  ASSUME Shapes, toNode # <<>>
  PROVE  Head(toNode) = Query /\ Query \in Queries /\ Query.id \in Nat /\ Query.method \in Methods
         /\ Tail(toNode) \in Seq(Queries) /\ Len(toNode) \in Nat /\ Len(Tail(toNode)) = Len(toNode) - 1
         /\ \A i \in 1 .. Len(toNode) - 1 : Tail(toNode)[i] = toNode[i + 1]
<1>1. toNode \in Seq(Queries)
  BY DEF Shapes
<1>2. Head(toNode) = Query /\ Query \in Queries
  BY <1>1, HeadTail DEF Query
<1> QED BY <1>1, <1>2, HeadTail DEF Queries

LEMMA NodeOpensCases ==
  ASSUME Shapes, NodeOpens
  PROVE  /\ toNode # <<>> /\ Query.method \in Kinds /\ toNode' = Tail(toNode)
         /\ UNCHANGED <<session, pending, counter, owned, early, work, asked, heard>>
         /\ \/ Refuses \/ Runs \/ Garbles \/ \E ends \in BOOLEAN : RunsEarly(ends)
            \/ \E x \in node.subs : SharesOne(x)
<1>1. toNode # <<>> /\ Head(toNode) = Query
  BY QueryShapes DEF NodeOpens
<1> QED BY <1>1 DEF NodeOpens, Refuses, Runs, Garbles, RunsEarly, SharesOne, NewToken

LEMMA MessageShapes ==
  ASSUME NEW id \in Nat
  PROVE  /\ \A t \in Names : AnswerMsg(id, t) \in Replies
         /\ \A t \in Nat, k \in Nat, ends \in BOOLEAN : EventMsg(t, k, ends) \in Replies
BY DEF AnswerMsg, EventMsg, Replies, Events

LEMMA NodeShapes ==
  ASSUME Shapes
  PROVE  /\ node.subs \in SUBSET Subs /\ node.lost \in SUBSET Nat /\ node.sent \in Seq(Nat)
         /\ node.events \in Nat /\ node.garbled \in Nat /\ node \in Nodes /\ NewToken \in Nat
BY DEF Shapes, Nodes, NewToken

\* The subscriptions, their sent events and the queue, for each of the node's choices.
LEMMA NodeOpensShapes ==
  ASSUME Shapes, NodeOpens
  PROVE  /\ Shapes'
         /\ Refuses => node' = node
         /\ Runs => /\ node'.subs = node.subs \cup {Sub(NewToken, Query.method)} /\ node'.lost = node.lost
                    /\ node'.sent = Append(node.sent, 0)
         /\ Garbles => /\ node'.subs = node.subs \cup {Sub(NewToken, Query.method)}
                       /\ node'.lost = node.lost \cup {NewToken} /\ node'.sent = Append(node.sent, 0)
         /\ \A ends \in BOOLEAN : RunsEarly(ends) =>
              /\ node'.subs = IF ends THEN node.subs ELSE node.subs \cup {Sub(NewToken, Query.method)}
              /\ node'.lost = node.lost /\ node'.sent = Append(node.sent, 1)
<1>1. /\ toNode # <<>> /\ Query.method \in Kinds /\ toNode' = Tail(toNode)
      /\ UNCHANGED <<session, pending, counter, owned, early, work, asked, heard>>
  BY NodeOpensCases
<1>2. Query.id \in Nat /\ toNode' \in Seq(Queries)
  BY <1>1, QueryShapes
<1>3. fromNode \in Seq(Replies)
  BY DEF Shapes
<1>4. NewToken \in Nat /\ NewToken \in Names /\ None \in Names
  BY NodeShapes DEF Names
<1>5. Sub(NewToken, Query.method) \in Subs
  BY <1>1, <1>4 DEF Sub, Subs
<1>6. PICK n : n = node
  OBVIOUS
<1>7. /\ n \in Nodes /\ n.subs \in SUBSET Subs /\ n.lost \in SUBSET Nat /\ n.sent \in Seq(Nat)
      /\ n.events \in Nat /\ n.garbled \in Nat
  BY <1>6, NodeShapes
<1>8. PICK x \in Subs : x = Sub(NewToken, Query.method)
  BY <1>5
<1>9. PICK t \in Nat : t = NewToken
  BY <1>4
<1>10. Append(n.sent, 0) \in Seq(Nat) /\ Append(n.sent, 1) \in Seq(Nat) /\ n.events + 1 \in Nat /\ n.garbled + 1 \in Nat
  BY <1>7
<1>11. \A id \in {Query.id}, u \in Names : Append(fromNode, AnswerMsg(id, u)) \in Seq(Replies)
  BY <1>2, <1>3, MessageShapes, Appended
<1>12. ASSUME Runs
       PROVE  /\ fromNode' \in Seq(Replies) /\ node' \in Nodes
              /\ node'.subs = node.subs \cup {Sub(NewToken, Query.method)} /\ node'.lost = node.lost
              /\ node'.sent = Append(node.sent, 0)
  <2>1. node' = [n EXCEPT !.subs = @ \cup {x}, !.sent = Append(@, 0)]
    BY <1>6, <1>8, <1>12 DEF Runs
  <2>2. /\ node' \in Nodes /\ node'.subs = n.subs \cup {x} /\ node'.lost = n.lost
        /\ node'.sent = Append(n.sent, 0)
    BY <1>7, <1>10, <2>1 DEF Nodes
  <2> QED BY <1>4, <1>6, <1>8, <1>11, <1>12, <2>2 DEF Runs
<1>13. ASSUME Garbles
       PROVE  /\ fromNode' \in Seq(Replies) /\ node' \in Nodes
              /\ node'.subs = node.subs \cup {Sub(NewToken, Query.method)}
              /\ node'.lost = node.lost \cup {NewToken} /\ node'.sent = Append(node.sent, 0)
  <2>1. node' = [n EXCEPT !.subs = @ \cup {x}, !.lost = @ \cup {t}, !.sent = Append(@, 0), !.garbled = @ + 1]
    BY <1>6, <1>8, <1>9, <1>13 DEF Garbles
  <2>2. /\ node' \in Nodes /\ node'.subs = n.subs \cup {x} /\ node'.lost = n.lost \cup {t}
        /\ node'.sent = Append(n.sent, 0)
    BY <1>7, <1>10, <2>1 DEF Nodes
  <2> QED BY <1>4, <1>6, <1>8, <1>9, <1>11, <1>13, <2>2 DEF Garbles
<1>14. ASSUME NEW ends \in BOOLEAN, RunsEarly(ends)
       PROVE  /\ fromNode' \in Seq(Replies) /\ node' \in Nodes
              /\ node'.subs = IF ends THEN node.subs ELSE node.subs \cup {Sub(NewToken, Query.method)}
              /\ node'.lost = node.lost /\ node'.sent = Append(node.sent, 1)
  <2>1. PICK subs : subs = IF ends THEN n.subs ELSE n.subs \cup {x}
    OBVIOUS
  <2>2. subs \in SUBSET Subs
    BY <1>7, <2>1
  <2>3. node' = [n EXCEPT !.subs = subs, !.sent = Append(@, 1), !.events = @ + 1]
    BY <1>6, <1>8, <1>14, <2>1 DEF RunsEarly
  <2>4. /\ node' \in Nodes /\ node'.subs = subs /\ node'.lost = n.lost
        /\ node'.sent = Append(n.sent, 1)
    BY <1>7, <1>10, <2>2, <2>3 DEF Nodes
  <2>5. <<EventMsg(NewToken, 1, ends), AnswerMsg(Query.id, NewToken)>> \in Seq(Replies)
    BY <1>2, <1>4, MessageShapes
  <2>6. fromNode' \in Seq(Replies)
    BY <1>3, <1>14, <2>5, ConcatProperties DEF RunsEarly
  <2> QED BY <1>6, <1>8, <2>1, <2>4, <2>6
<1>15. ASSUME NEW y \in node.subs, SharesOne(y)
       PROVE  fromNode' \in Seq(Replies) /\ node' \in Nodes
  <2>1. y.token \in Names
    BY NodeShapes DEF Subs, Names
  <2> QED BY <1>6, <1>7, <1>11, <1>15, <2>1 DEF SharesOne
<1>16. fromNode' \in Seq(Replies) /\ node' \in Nodes
  <2>1. CASE Refuses
    BY <1>4, <1>6, <1>7, <1>11, <2>1 DEF Refuses
  <2> QED BY <1>12, <1>13, <1>14, <1>15, <2>1, NodeOpensCases
<1>17. Shapes'
  BY <1>1, <1>2, <1>16 DEF Shapes
<1> QED BY <1>12, <1>13, <1>14, <1>17 DEF Refuses

LEMMA NodeReadsShapes ==
  ASSUME Shapes, NodeReads
  PROVE  /\ Shapes' /\ toNode # <<>> /\ Query.method \notin Kinds /\ toNode' = Tail(toNode)
         /\ UNCHANGED <<session, pending, counter, owned, early, work, asked, heard>>
         /\ fromNode' = IF Query.id = 0 THEN fromNode ELSE Append(fromNode, AnswerMsg(Query.id, None))
         /\ node'.sent = node.sent /\ node'.lost = node.lost
         /\ node'.subs = IF Query.method \in Releases THEN {x \in node.subs : x.token # Query.token} ELSE node.subs
<1>1. /\ toNode # <<>> /\ Head(toNode) = Query /\ Query.id \in Nat /\ toNode' = Tail(toNode)
      /\ toNode' \in Seq(Queries)
  BY QueryShapes DEF NodeReads
<1>2. /\ Query.method \notin Kinds
      /\ fromNode' = IF Query.id = 0 THEN fromNode ELSE Append(fromNode, AnswerMsg(Query.id, None))
      /\ node' = IF Query.method \in Releases
                 THEN [node EXCEPT !.subs = {x \in @ : x.token # Query.token}] ELSE node
      /\ UNCHANGED <<session, pending, counter, owned, early, work, asked, heard>>
  BY <1>1 DEF NodeReads
<1>3. fromNode' \in Seq(Replies)
  <2>1. fromNode \in Seq(Replies) /\ None \in Names
    BY DEF Shapes, Names
  <2>2. Append(fromNode, AnswerMsg(Query.id, None)) \in Seq(Replies)
    BY <1>1, <2>1, MessageShapes, Appended
  <2> QED BY <1>2, <2>1, <2>2
<1>4. /\ node' \in Nodes /\ node'.sent = node.sent /\ node'.lost = node.lost
      /\ node'.subs = IF Query.method \in Releases THEN {x \in node.subs : x.token # Query.token} ELSE node.subs
  <2> QED BY <1>2, NodeShapes DEF Nodes
<1>5. Shapes'
  BY <1>1, <1>2, <1>3, <1>4 DEF Shapes
<1> QED BY <1>1, <1>2, <1>4, <1>5

LEMMA NodeSendsShapes ==
  ASSUME Shapes, NEW x \in node.subs, NEW ends \in BOOLEAN, NodeSends(x, ends),
         x.token \in DOMAIN node.sent
  PROVE  /\ Shapes'
         /\ fromNode' = Append(fromNode, EventMsg(x.token, node.sent[x.token] + 1, ends))
         /\ EventMsg(x.token, node.sent[x.token] + 1, ends) \in Replies
         /\ node'.sent = [node.sent EXCEPT ![x.token] = @ + 1] /\ node'.lost = node.lost
         /\ node'.subs = IF ends THEN node.subs \ {x} ELSE node.subs
         /\ UNCHANGED <<session, pending, counter, owned, early, work, toNode, asked, heard>>
<1>1. /\ fromNode' = Append(fromNode, EventMsg(x.token, node.sent[x.token] + 1, ends))
      /\ node' = [node EXCEPT !.sent[x.token] = @ + 1, !.events = @ + 1,
                              !.subs = IF ends THEN @ \ {x} ELSE @]
      /\ UNCHANGED <<session, pending, counter, owned, early, work, toNode, asked, heard>>
  BY DEF NodeSends
<1>2. x.token \in Nat /\ node.sent[x.token] + 1 \in Nat
  BY NodeShapes DEF Subs
<1>3. EventMsg(x.token, node.sent[x.token] + 1, ends) \in Replies
  BY <1>2 DEF EventMsg, Replies, Events
<1>4. fromNode' \in Seq(Replies)
  BY <1>1, <1>3, Appended DEF Shapes
<1>5. PICK sent : sent = [node.sent EXCEPT ![x.token] = @ + 1]
  OBVIOUS
<1>6. sent \in Seq(Nat)
  BY <1>2, <1>5, NodeShapes
<1>7. PICK subs : subs = IF ends THEN node.subs \ {x} ELSE node.subs
  OBVIOUS
<1>8. subs \in SUBSET Subs
  BY <1>7, NodeShapes
<1>9. node' = [node EXCEPT !.sent = sent, !.events = @ + 1, !.subs = subs]
  BY <1>1, <1>5, <1>7, NodeShapes DEF Nodes
<1>10. node' \in Nodes /\ node'.sent = sent /\ node'.lost = node.lost /\ node'.subs = subs
  <2>1. PICK n : n = node
    OBVIOUS
  <2>2. n \in Nodes /\ n.events + 1 \in Nat
    BY <2>1, NodeShapes
  <2>3. node' = [n EXCEPT !.sent = sent, !.events = @ + 1, !.subs = subs]
    BY <1>9, <2>1
  <2>4. node' \in Nodes /\ node'.sent = sent /\ node'.lost = n.lost /\ node'.subs = subs
    BY <1>6, <1>8, <2>2, <2>3 DEF Nodes
  <2> QED BY <2>1, <2>4
<1>11. Shapes'
  BY <1>1, <1>4, <1>10 DEF Shapes
<1> QED BY <1>1, <1>3, <1>5, <1>7, <1>10, <1>11

----------------------------------------------------------------------------
(* Requests and their answers. *)

\* The broker halts in one place at most, that of the entry at the head of its work.
OneHalt == \A i \in DOMAIN work : work[i].do = "halt" => i = 1
Calm == \A i \in DOMAIN work : work[i].do # "halt"

LEMMA CalmOrHalting ==
  ASSUME Shapes, OneHalt
  PROVE  Calm <=> ~Halting
<1>1. work \in Seq(WorkItems)
  BY DEF Shapes
<1>2. CASE work = <<>>
  BY <1>2 DEF Calm, Halting
<1>3. CASE work # <<>>
  <2>1. Head(work) = work[1] /\ 1 \in DOMAIN work
    BY <1>1, <1>3, HeadTail
  <2> QED BY <1>3, <2>1 DEF Calm, Halting, OneHalt
<1> QED BY <1>2, <1>3

Waits(n) == \E p \in pending : p.owner.kind = "session" /\ p.owner.client = n

\* A request in flight under its session is one that session made, with an id.
Backed(p) ==
  /\ p.owner.client \in DOMAIN asked
  /\ asked[p.owner.client].session = p.owner.session /\ asked[p.owner.client].withId
  /\ ~Halting => session[p.owner.session] = "open"

\* It is unanswered exactly as long as it is in flight, until its session is gone.
Served(n) ==
  LET r == asked[n]
  IN  /\ session[r.session] # "new" /\ r.answers \in {0, 1}
      /\ r.withId /\ session[r.session] \in {"open", "halting", "quit"} => (r.answers = 0 <=> Waits(n))
      /\ r.withId /\ session[r.session] = "halted" => r.answers = 1

Requests ==
  /\ \A p \in pending : p.owner.kind = "session" => Backed(p)
  /\ \A p, q \in pending : p.owner.kind = "session" /\ q.owner.kind = "session"
                             /\ p.owner.client = q.owner.client => p = q
  /\ \A n \in DOMAIN asked : Served(n)
  /\ IF Halting THEN \A s \in Sessions : session[s] # "open"
     ELSE \A s \in Sessions : session[s] \notin {"halting", "quit"}

\* The same requests wait for their sessions.
SameWaits ==
  \A p : p.owner.kind = "session" => (p \in pending' <=> p \in pending)

LEMMA RequestsStay ==
  ASSUME Shapes, Requests, Shapes', Halting' <=> Halting, SameWaits, UNCHANGED <<session, asked>>
  PROVE  Requests'
<1>1. \A n : Waits(n)' <=> Waits(n)
  BY DEF Waits, SameWaits
<1>2. \A p \in pending' : p.owner.kind = "session" => Backed(p)'
  BY DEF Requests, SameWaits, Backed
<1>3. \A n \in DOMAIN asked' : Served(n)'
  BY <1>1 DEF Requests, Served
<1>4. \A p, q \in pending' : p.owner.kind = "session" /\ q.owner.kind = "session"
                               /\ p.owner.client = q.owner.client => p = q
  BY DEF Requests, SameWaits
<1>5. IF Halting' THEN \A s \in Sessions : session'[s] # "open"
      ELSE \A s \in Sessions : session'[s] \notin {"halting", "quit"}
  BY DEF Requests
<1> QED BY <1>2, <1>3, <1>4, <1>5 DEF Requests

\* A session asks: what it asks is answered at once, waits, or has no answer to wait for.
LEMMA RequestsAsk ==
  ASSUME Shapes, Requests, Shapes', ~Halting, UNCHANGED <<session, work>>,
         NEW s \in Sessions, session[s] = "open", NEW withId \in BOOLEAN, NEW answers \in {0, 1},
         asked' = Asked(s, withId, answers),
         \/ (withId => answers = 1) /\ SameWaits
         \/ withId /\ answers = 0 /\ \E p : /\ pending' = pending \cup {p} /\ p.owner.kind = "session"
                                            /\ p.owner.client = Len(asked) + 1 /\ p.owner.session = s
  PROVE  Requests'
<1>1. PICK n \in Nat : n = Len(asked)
  BY DEF Shapes
<1>2. /\ DOMAIN asked = 1 .. n /\ DOMAIN asked' = 1 .. n + 1
      /\ asked'[n + 1] = [session |-> s, withId |-> withId, answers |-> answers]
      /\ \A k \in 1 .. n : asked'[k] = asked[k]
  <2>1. answers \in Nat
    OBVIOUS
  <2>2. asked' \in Seq(Askings) /\ Len(asked') = n + 1 /\ asked \in Seq(Askings)
    BY <1>1, <2>1, AskedShapes DEF Shapes
  <2> QED BY <1>1, <2>1, <2>2, AskedShapes
<1>3. ~Halting'
  BY DEF Halting
<1>4. \A k \in 1 .. n : Waits(k)' <=> Waits(k)
  BY <1>1 DEF Waits, SameWaits
<1>5. \A p \in pending : p.owner.kind = "session" => p.owner.client \in 1 .. n
  BY <1>2 DEF Requests, Backed
<1>6. Waits(n + 1)' <=> (withId /\ answers = 0)
  <2>1. CASE (withId => answers = 1) /\ SameWaits
    BY <1>5, <2>1 DEF Waits, SameWaits
  <2>2. CASE withId /\ answers = 0 /\ \E p : /\ pending' = pending \cup {p} /\ p.owner.kind = "session"
                                            /\ p.owner.client = Len(asked) + 1 /\ p.owner.session = s
    BY <1>1, <2>2 DEF Waits
  <2> QED BY <2>1, <2>2
<1>7. \A k \in 1 .. n + 1 : Served(k)'
  <2>1. ASSUME NEW k \in 1 .. n PROVE Served(k)'
    BY <1>2, <1>4, <2>1 DEF Requests, Served
  <2>2. Served(n + 1)'
    BY <1>2, <1>6 DEF Served
  <2>3. \A k \in 1 .. n + 1 : k \in 1 .. n \/ k = n + 1
    OBVIOUS
  <2> QED BY <2>1, <2>2, <2>3
<1>8. \A p \in pending : p.owner.kind = "session" => Backed(p)'
  BY <1>2, <1>3, <1>5 DEF Requests, Backed
<1>9. \A p \in pending' : p.owner.kind = "session" => Backed(p)'
  <2>1. CASE SameWaits
    BY <1>8, <2>1 DEF SameWaits
  <2>2. ASSUME withId, NEW p, pending' = pending \cup {p}, p.owner.client = n + 1, p.owner.session = s
        PROVE  Backed(p)' /\ \A q \in pending' : q \in pending \/ q = p
    <3>1. n + 1 \in DOMAIN asked' /\ asked'[n + 1].session = s /\ asked'[n + 1].withId = withId
      BY <1>2
    <3>2. asked'[p.owner.client].withId
      BY <2>2, <3>1
    <3>3. session'[p.owner.session] = "open"
      BY <2>2
    <3>4. Backed(p)'
      BY <2>2, <3>1, <3>2, <3>3 DEF Backed
    <3> QED BY <2>2, <3>4
  <2> QED BY <1>1, <1>8, <2>1, <2>2
<1>10. \A p, q \in pending' : p.owner.kind = "session" /\ q.owner.kind = "session"
                               /\ p.owner.client = q.owner.client => p = q
  <2>1. CASE SameWaits
    BY <2>1 DEF SameWaits, Requests
  <2>2. ASSUME NEW p, pending' = pending \cup {p}, p.owner.client = n + 1
        PROVE  \A q, x \in pending' : q.owner.kind = "session" /\ x.owner.kind = "session"
                               /\ q.owner.client = x.owner.client => q = x
    <3>1. \A q \in pending : q.owner.kind = "session" => q.owner.client # n + 1
      BY <1>5
    <3> QED BY <2>2, <3>1 DEF Requests
  <2> QED BY <1>1, <2>1, <2>2
<1> QED BY <1>2, <1>3, <1>7, <1>9, <1>10 DEF Requests

LEMMA AskedParts ==
  ASSUME Shapes
  PROVE  /\ DOMAIN asked = 1 .. Len(asked) /\ Len(asked) \in Nat
         /\ \A n \in DOMAIN asked : /\ asked[n] \in Askings /\ asked[n].session \in Sessions
                                    /\ asked[n].withId \in BOOLEAN /\ asked[n].answers \in Nat
<1>1. asked \in Seq(Askings)
  BY DEF Shapes
<1>2. \A n \in DOMAIN asked : asked[n] \in Askings
  BY <1>1
<1>3. \A a \in Askings : a.session \in Sessions /\ a.withId \in BOOLEAN /\ a.answers \in Nat
  BY DEF Askings
<1> QED BY <1>1, <1>2, <1>3

\* A session, or all of them, moves on where nobody waits for what that changes.
LEMMA RequestsConnect ==
  ASSUME Shapes, Requests, Shapes', NEW s \in Sessions, Connect(s)
  PROVE  Requests'
<1>1. /\ session[s] = "new" /\ ~Halting /\ session' = [session EXCEPT ![s] = "open"]
      /\ UNCHANGED <<pending, work, asked>>
  BY DEF Connect
<1>2. ~Halting'
  BY <1>1 DEF Halting
<1>3. session' \in [Sessions -> Phases] /\ \A x \in Sessions : session'[x] = IF x = s THEN "open" ELSE session[x]
  BY <1>1 DEF Shapes
<1>4. \A n : Waits(n)' <=> Waits(n)
  BY <1>1 DEF Waits
<1>5. ASSUME NEW n \in DOMAIN asked PROVE Served(n)'
  <2>1. asked[n].session \in Sessions
    BY AskedParts
  <2>2. session'[asked[n].session] = session[asked[n].session]
    BY <1>1, <1>3, <1>5, <2>1 DEF Requests, Served
  <2> QED BY <1>1, <1>4, <2>2 DEF Requests, Served
<1>6. \A p \in pending : p.owner.kind = "session" => Backed(p)'
  BY <1>1, <1>2 DEF Requests, Backed, Shapes
<1> QED BY <1>1, <1>2, <1>3, <1>5, <1>6 DEF Requests

LEMMA RequestsLeave ==
  ASSUME Shapes, Requests, Named, Shapes', NEW s \in Sessions, Leave(s)
  PROVE  Requests'
<1>1. /\ session[s] = "open" /\ session' = [session EXCEPT ![s] = "left"]
      /\ UNCHANGED <<work, asked>>
  BY DEF Leave
<1>2. PICK sent \in Seq(Owners) :
        /\ Track(Orphaned(s), sent)
        /\ \A i \in 1 .. Len(sent) : \E o \in LastOf(s) : sent[i] = SentRelease(o.kind, o.token)
  BY LeaveTracks
<1>3. pending' = Orphaned(s) \cup Tracked(counter, sent)
  BY <1>2, OrphanedShapes, TrackAdds
<1>4. \A p \in Tracked(counter, sent) : p.owner.kind = "release"
  <2>1. \A i \in 1 .. Len(sent) : sent[i].kind = "release"
    <3>1. \A o : SentRelease(o.kind, o.token).kind = "release"
      BY DEF SentRelease, Owner
    <3> QED BY <1>2, <3>1
  <2> QED BY <2>1 DEF Tracked
<1>5. \A p : p.owner.kind = "session" => (p \in pending' <=> p \in pending /\ p.owner.session # s)
  <2>1. ASSUME NEW p, p.owner.kind = "session", p \in pending' PROVE p \in pending /\ p.owner.session # s
    <3>1. p \in Orphaned(s)
      BY <1>3, <1>4, <2>1
    <3>2. PICK q \in pending : p = IF q.owner.session = s
             THEN [q EXCEPT !.owner = Owner("orphan", None, 0, q.owner.method, q.owner.token)] ELSE q
      BY <3>1 DEF Orphaned
    <3>3. q.owner.session # s
      <4> SUFFICES ASSUME q.owner.session = s PROVE FALSE
        OBVIOUS
      <4>1. p.owner = Owner("orphan", None, 0, q.owner.method, q.owner.token)
        BY <3>2 DEF Shapes, Pendings
      <4> QED BY <2>1, <4>1 DEF Owner
    <3> QED BY <3>2, <3>3
  <2>2. ASSUME NEW p \in pending, p.owner.session # s PROVE p \in pending'
    BY <1>3, <2>2 DEF Orphaned
  <2> QED BY <2>1, <2>2
<1>6. ~Halting /\ ~Halting'
  BY <1>1 DEF Requests, Halting
<1>7. \A x \in Sessions : session'[x] = IF x = s THEN "left" ELSE session[x]
  BY <1>1 DEF Shapes
<1>8. ASSUME NEW n \in DOMAIN asked PROVE Served(n)'
  <2>1. asked[n].session \in Sessions
    BY AskedParts
  <2>2. CASE asked[n].session = s
    BY <1>1, <1>7, <2>1, <2>2 DEF Requests, Served
  <2>3. CASE asked[n].session # s
    <3>1. Waits(n)' <=> Waits(n)
      BY <1>5, <2>3 DEF Waits, Requests, Backed
    <3>2. session'[asked[n].session] = session[asked[n].session]
      BY <1>7, <2>1, <2>3
    <3> QED BY <1>1, <3>1, <3>2 DEF Requests, Served
  <2> QED BY <2>2, <2>3
<1>9. \A p \in pending' : p.owner.kind = "session" => Backed(p)'
  <2> SUFFICES ASSUME NEW p \in pending', p.owner.kind = "session" PROVE Backed(p)'
    OBVIOUS
  <2>1. p \in pending /\ p.owner.session # s
    BY <1>5
  <2>2. Backed(p) /\ session[p.owner.session] = "open"
    BY <1>6, <2>1 DEF Requests, Backed
  <2>3. p.owner.session \in Sessions
    BY <2>2, AskedParts DEF Backed
  <2> QED BY <1>1, <1>7, <2>1, <2>2, <2>3 DEF Backed
<1>10. \A p, q \in pending' : p.owner.kind = "session" /\ q.owner.kind = "session"
                               /\ p.owner.client = q.owner.client => p = q
  BY <1>5 DEF Requests
<1> QED BY <1>1, <1>6, <1>7, <1>8, <1>9, <1>10 DEF Requests

\* Nothing is in flight any more.
LEMMA RequestsEmpty ==
  ASSUME Shapes, Requests, Shapes', ~Halting', pending' = {}, asked' = asked,
         \A s \in Sessions : /\ session'[s] \notin {"open", "halting", "quit"}
                             /\ session'[s] = "new" => session[s] = "new"
                             /\ session'[s] = "halted" => session[s] = "halted"
  PROVE  Requests'
<1>1. ASSUME NEW n \in DOMAIN asked PROVE Served(n)'
  <2>1. asked[n].session \in Sessions
    BY AskedParts
  <2> QED BY <2>1 DEF Requests, Served
<1> QED BY <1>1 DEF Requests

LEMMA RequestsDisconnectAll ==
  ASSUME Shapes, Requests, Shapes', DisconnectAll
  PROVE  Requests'
<1>1. /\ ~Halting /\ session' = [s \in Sessions |-> IF session[s] = "open" THEN "left" ELSE session[s]]
      /\ UNCHANGED <<work, asked>> /\ pending' = {}
  BY DEF DisconnectAll, DropUpstream
<1>2. ~Halting'
  BY <1>1 DEF Halting
<1>3. \A s \in Sessions : /\ session'[s] \notin {"open", "halting", "quit"}
                          /\ session'[s] = "new" => session[s] = "new"
                          /\ session'[s] = "halted" => session[s] = "halted"
  BY <1>1 DEF Requests
<1> QED BY <1>1, <1>2, <1>3, RequestsEmpty

LEMMA RequestsHalt ==
  ASSUME Shapes, Requests, OneHalt, Shapes', Halt
  PROVE  Requests' /\ OneHalt'
<1>1. /\ ~Halting /\ session' = [s \in Sessions |-> IF session[s] = "open" THEN "halting" ELSE session[s]]
      /\ UNCHANGED <<pending, asked>> /\ work' = <<[do |-> "halt"]>> \o work
  BY DEF Halt
<1>2. /\ Len(work') = Len(work) + 1 /\ work'[1] = [do |-> "halt"] /\ Len(work) \in Nat
      /\ \A i \in 1 .. Len(work) : work'[i + 1] = work[i]
  <2>1. [do |-> "halt"] \in WorkItems /\ work \in Seq(WorkItems)
    BY DEF WorkItems, Shapes
  <2> QED BY <1>1, <2>1, InFront
<1>3. Calm
  BY <1>1, CalmOrHalting
<1>4. OneHalt'
  <2> SUFFICES ASSUME NEW i \in DOMAIN work', work'[i].do = "halt" PROVE i = 1
    BY DEF OneHalt
  <2>1. i \in 1 .. Len(work) + 1
    BY <1>2 DEF Shapes
  <2>2. i # 1 => /\ i - 1 \in 1 .. Len(work) /\ work'[i] = work[i - 1] /\ i - 1 \in DOMAIN work
    <3> SUFFICES ASSUME i # 1 PROVE i - 1 \in 1 .. Len(work) /\ work'[i] = work[i - 1] /\ i - 1 \in DOMAIN work
      OBVIOUS
    <3>1. i - 1 \in 1 .. Len(work) /\ (i - 1) + 1 = i
      BY <1>2, <2>1
    <3>2. DOMAIN work = 1 .. Len(work)
      BY DEF Shapes
    <3> QED BY <1>2, <3>1, <3>2
  <2> QED BY <1>3, <2>2 DEF Calm
<1>5. Halting'
  <2>1. work' # <<>> /\ Head(work') = work'[1]
    BY <1>2, HeadTail DEF Shapes
  <2> QED BY <1>2, <2>1 DEF Halting
<1>6. \A n : Waits(n)' <=> Waits(n)
  BY <1>1 DEF Waits
<1>7. ASSUME NEW n \in DOMAIN asked PROVE Served(n)'
  <2>1. asked[n].session \in Sessions
    BY AskedParts
  <2> QED BY <1>1, <1>6, <2>1 DEF Requests, Served
<1>8. \A p \in pending : p.owner.kind = "session" => Backed(p)'
  BY <1>1, <1>5 DEF Requests, Backed
<1> QED BY <1>1, <1>4, <1>5, <1>7, <1>8 DEF Requests

LEMMA RequestsLeaveHalting ==
  ASSUME Shapes, Requests, Shapes', NEW s \in Sessions, LeaveHalting(s)
  PROVE  Requests'
<1>1. /\ session[s] = "halting" /\ session' = [session EXCEPT ![s] = "quit"]
      /\ UNCHANGED <<pending, asked, work>>
  BY DEF LeaveHalting
<1>2. Halting /\ Halting'
  BY <1>1 DEF Requests, Halting
<1>3. \A x \in Sessions : session'[x] = IF x = s THEN "quit" ELSE session[x]
  BY <1>1 DEF Shapes
<1>4. \A n : Waits(n)' <=> Waits(n)
  BY <1>1 DEF Waits
<1>5. ASSUME NEW n \in DOMAIN asked PROVE Served(n)'
  <2>1. asked[n].session \in Sessions
    BY AskedParts
  <2> QED BY <1>1, <1>3, <1>4, <2>1 DEF Requests, Served
<1>6. \A p \in pending : p.owner.kind = "session" => Backed(p)'
  BY <1>1, <1>2 DEF Requests, Backed
<1> QED BY <1>1, <1>2, <1>3, <1>5, <1>6 DEF Requests

LEMMA RequestsHaltSession ==
  ASSUME Shapes, Requests, Shapes', NEW s \in Sessions, HaltSession(s)
  PROVE  Requests'
<1>1. /\ Halting /\ session[s] \in {"halting", "quit"}
      /\ session' = [session EXCEPT ![s] = IF @ = "quit" THEN "left" ELSE "halted"]
      /\ UNCHANGED <<pending, work>>
  BY DEF HaltSession
<1>2. Halting'
  BY <1>1 DEF Halting
<1>3. \A x \in Sessions : session'[x] = IF x = s THEN IF session[s] = "quit" THEN "left" ELSE "halted"
                                        ELSE session[x]
  BY <1>1 DEF Shapes
<1>4. /\ DOMAIN asked' = DOMAIN asked
      /\ \A n \in DOMAIN asked :
           asked'[n] = [asked[n] EXCEPT !.answers = IF HaltAnswers(s, n) THEN @ + 1 ELSE @]
  BY AskedParts DEF HaltSession
<1>5. \A n \in DOMAIN asked :
        /\ asked'[n].session = asked[n].session /\ asked'[n].withId = asked[n].withId
        /\ asked'[n].answers = IF HaltAnswers(s, n) THEN asked[n].answers + 1 ELSE asked[n].answers
  <2>1. \A n \in DOMAIN asked : asked[n] \in Askings
    BY AskedParts
  <2> QED BY <1>4, <2>1 DEF Askings
<1>6. \A n : HaltAnswers(s, n) => Waits(n)
  <2>1. \A p \in pending : p.owner.session = s => p.owner.kind = "session"
    BY NamesApart DEF Shapes, Pendings, Owners
  <2> QED BY <2>1 DEF HaltAnswers, Waits
<1>7. \A n \in DOMAIN asked : HaltAnswers(s, n) <=> Waits(n) /\ asked[n].session = s
  <2>1. \A p \in pending : p.owner.session = s => p.owner.kind = "session"
    BY NamesApart DEF Shapes, Pendings, Owners
  <2>2. \A p \in pending : p.owner.kind = "session" => asked[p.owner.client].session = p.owner.session
    BY DEF Requests, Backed
  <2> QED BY <2>1, <2>2 DEF HaltAnswers, Waits
<1>8. \A n \in DOMAIN asked : Waits(n) => asked[n].withId
  BY DEF Waits, Requests, Backed
<1>9. \A n : Waits(n)' <=> Waits(n)
  BY <1>1 DEF Waits
<1>10. ASSUME NEW n \in DOMAIN asked PROVE Served(n)'
  <2>1. asked[n].session \in Sessions
    BY AskedParts
  <2>2. Served(n)
    BY DEF Requests
  <2>3. CASE asked[n].session = s
    <3>1. session'[s] \in {"left", "halted"}
      BY <1>3
    <3>2. CASE HaltAnswers(s, n)
      <4>1. asked[n].withId /\ asked[n].answers = 0
        BY <1>1, <1>7, <1>8, <2>2, <2>3, <3>2 DEF Served
      <4>2. asked'[n].answers = 1
        BY <1>5, <3>2, <4>1
      <4> QED BY <1>5, <2>3, <3>1, <4>2 DEF Served
    <3>3. CASE ~HaltAnswers(s, n)
      <4>1. asked'[n].answers = asked[n].answers /\ asked[n].answers \in {0, 1}
        BY <1>5, <2>2, <3>3 DEF Served
      <4>2. asked[n].withId => asked[n].answers = 1
        BY <1>1, <1>7, <2>2, <2>3, <3>3 DEF Served
      <4> QED BY <1>5, <2>3, <3>1, <4>1, <4>2 DEF Served
    <3> QED BY <3>2, <3>3
  <2>4. CASE asked[n].session # s
    <3>1. asked'[n].answers = asked[n].answers /\ session'[asked[n].session] = session[asked[n].session]
      BY <1>3, <1>5, <1>7, <2>1, <2>4
    <3> QED BY <1>5, <1>9, <2>2, <3>1 DEF Served
  <2> QED BY <2>3, <2>4
<1>11. \A p \in pending : p.owner.kind = "session" => Backed(p)'
  BY <1>1, <1>2, <1>4, <1>5 DEF Requests, Backed
<1>12. \A x \in Sessions : session'[x] # "open"
  BY <1>1, <1>3 DEF Requests
<1> QED BY <1>1, <1>2, <1>4, <1>10, <1>11, <1>12 DEF Requests

LEMMA OneTracked ==
  ASSUME Shapes, NEW left \in SUBSET Pendings, IsFiniteSet(left), NEW owner \in Owners,
         Track(left, <<owner>>)
  PROVE  /\ pending' = left \cup {[id |-> counter + 1, owner |-> owner]} /\ counter' = counter + 1
         /\ Len(toNode') = Len(toNode) + 1
         /\ \A i \in 1 .. Len(toNode) : toNode'[i] = toNode[i]
         /\ toNode'[Len(toNode) + 1] = [id |-> counter + 1, method |-> owner.method, token |-> owner.token]
<1>1. PICK owners \in Seq(Owners) : owners = <<owner>>
  <2>1. <<owner>> \in Seq(Owners)
    OBVIOUS
  <2> QED BY <2>1
<1>2. Len(owners) = 1 /\ owners[1] = owner /\ DOMAIN owners = {1}
  BY <1>1
<1>3. Track(left, owners)
  BY <1>1
<1>4. Tracked(counter, owners) = {[id |-> counter + 1, owner |-> owner]}
  BY <1>2 DEF Tracked
<1>5. /\ pending' = left \cup Tracked(counter, owners) /\ counter' = counter + Len(owners)
      /\ Len(toNode') = Len(toNode) + Len(owners)
      /\ \A i \in 1 .. Len(toNode) : toNode'[i] = toNode[i]
      /\ \A i \in 1 .. Len(owners) :
           toNode'[Len(toNode) + i] = [id |-> counter + i, method |-> owners[i].method, token |-> owners[i].token]
  BY <1>3, TrackAdds
<1>6. 1 \in 1 .. Len(owners)
  BY <1>2
<1> QED BY <1>2, <1>4, <1>5, <1>6

LEMMA ForwardAsks ==
  ASSUME Shapes, Requests, Shapes', ~Halting, UNCHANGED <<session, work>>,
         NEW s \in Sessions, session[s] = "open", NEW withId \in BOOLEAN, NEW method \in Methods,
         NEW token \in Names, Forward(s, withId, method, token)
  PROVE  Requests'
<1>1. asked' = Asked(s, withId, 0) /\ 0 \in {0, 1}
  BY ForwardTracks
<1>2. pending \in SUBSET Pendings /\ IsFiniteSet(pending)
  BY DEF Shapes
<1>3. CASE withId
  <2>1. PICK owner : /\ owner = Owner("session", s, Len(asked) + 1, method, token) /\ ForwardsAs(owner)
    BY <1>3, ForwardTracks
  <2>2. PICK p : p = [id |-> counter + 1, owner |-> owner] /\ pending' = pending \cup {p}
    BY <1>2, <2>1, OneTracked DEF ForwardsAs
  <2>3. p.owner.kind = "session" /\ p.owner.client = Len(asked) + 1 /\ p.owner.session = s
    BY <2>1, <2>2 DEF Owner
  <2> QED BY <1>1, <1>3, <2>2, <2>3, RequestsAsk
<1>4. CASE ~withId
  <2>1. SameWaits
    <3>1. ASSUME NEW owner, owner.kind # "session", ForwardsAs(owner) PROVE SameWaits
      <4>1. pending' = pending \cup {[id |-> counter + 1, owner |-> owner]}
        BY <1>2, <3>1, OneTracked DEF ForwardsAs
      <4> QED BY <3>1, <4>1 DEF SameWaits
    <3>2. /\ Owner("orphan", None, 0, method, token).kind # "session"
          /\ Owner("release", None, 0, method, token).kind # "session"
      BY DEF Owner
    <3>3. CASE pending' = pending
      BY <3>3 DEF SameWaits
    <3> QED BY <1>4, <3>1, <3>2, <3>3, ForwardTracks
  <2> QED BY <1>1, <1>4, <2>1, RequestsAsk
<1> QED BY <1>3, <1>4

LEMMA AnswerHereAsks ==
  ASSUME Shapes, Requests, Shapes', ~Halting, UNCHANGED <<session, work>>,
         NEW s \in Sessions, session[s] = "open", NEW withId \in BOOLEAN, AnswerHere(s, withId)
  PROVE  Requests'
<1>1. PICK answers : answers = IF withId THEN 1 ELSE 0
  OBVIOUS
<1>2. asked' = Asked(s, withId, answers) /\ pending' = pending /\ answers \in {0, 1}
      /\ (withId => answers = 1)
  BY <1>1, AnswerHereShapes
<1>3. SameWaits
  BY <1>2 DEF SameWaits
<1> QED BY <1>2, <1>3, RequestsAsk

LEMMA OpenIsNotHalting ==
  ASSUME Requests, NEW s \in Sessions, session[s] = "open"
  PROVE  ~Halting
BY DEF Requests

LEMMA RequestsSubscribe ==
  ASSUME Shapes, Requests, Shapes', NEW s \in Sessions, NEW kind \in Kinds, NEW withId \in BOOLEAN,
         Subscribe(s, kind, withId)
  PROVE  Requests'
<1>1. kind \in Methods /\ None \in Names
  BY ReleasesAreMethods DEF Names
<1>2. Forward(s, withId, kind, None) /\ session[s] = "open" /\ UNCHANGED <<session, work>>
  BY DEF Subscribe, CanSend
<1> QED BY <1>1, <1>2, ForwardAsks, OpenIsNotHalting

LEMMA RequestsCall ==
  ASSUME Shapes, Requests, Shapes', NEW s \in Sessions, NEW l \in DOMAIN heard, Call(s, l)
  PROVE  Requests'
<1>1. "call" \in Methods /\ None \in Names
  BY ReleasesAreMethods DEF Names
<1>2. session[s] = "open" /\ UNCHANGED <<session, work>>
  BY DEF Call, CanSend
<1>3. CASE AnswerHere(s, TRUE)
  BY <1>2, <1>3, AnswerHereAsks, OpenIsNotHalting
<1>4. CASE Forward(s, TRUE, "call", None)
  BY <1>1, <1>2, <1>4, ForwardAsks, OpenIsNotHalting
<1> QED BY <1>3, <1>4 DEF Call

LEMMA RequestsRelease ==
  ASSUME Shapes, Requests, Shapes', NEW s \in Sessions, NEW l \in DOMAIN heard, NEW withId \in BOOLEAN,
         Release(s, l, withId)
  PROVE  Requests'
<1>1. session[s] = "open" /\ UNCHANGED <<session, work>>
  BY DEF Release, CanRelease
<1>2. CASE AnswerHere(s, withId)
  BY <1>1, <1>2, AnswerHereAsks, OpenIsNotHalting
<1>3. ASSUME NEW o \in owned, Forward(s, withId, ReleaseOf(o.kind), o.token) PROVE Requests'
  <2>1. ReleaseOf(o.kind) \in Methods /\ o.token \in Names
    BY ReleasesAreMethods DEF Shapes, Helds, Names
  <2> QED BY <1>1, <1>3, <2>1, ForwardAsks, OpenIsNotHalting
<1> QED BY <1>2, <1>3 DEF Release

LEMMA RequestsHaltEnds ==
  ASSUME Shapes, Requests, OneHalt, Shapes', HaltEnds
  PROVE  Requests' /\ Calm'
<1>1. /\ Halting /\ \A s \in Sessions : session[s] \notin {"halting", "quit"}
      /\ pending' = {} /\ work' = Tail(work) /\ UNCHANGED <<session, asked>>
  BY DEF HaltEnds
<1>2. work # <<>> /\ work \in Seq(WorkItems)
  BY <1>1 DEF Halting, Shapes
<1>3. Len(work') = Len(work) - 1 /\ \A i \in 1 .. Len(work) - 1 : work'[i] = work[i + 1]
  BY <1>1, <1>2, HeadTail
<1>4. Calm'
  <2> SUFFICES ASSUME NEW i \in DOMAIN work' PROVE work'[i].do # "halt"
    BY DEF Calm
  <2>1. i \in 1 .. Len(work) - 1
    BY <1>3 DEF Shapes
  <2>2. work'[i] = work[i + 1] /\ i + 1 \in DOMAIN work /\ i + 1 # 1
    BY <1>2, <1>3, <2>1
  <2> QED BY <2>2 DEF OneHalt
<1>5. ~Halting'
  <2>1. CASE work' = <<>>
    BY <2>1 DEF Halting
  <2>2. CASE work' # <<>>
    <3>1. Head(work') = work'[1] /\ 1 \in DOMAIN work'
      BY <2>2, HeadTail DEF Shapes
    <3> QED BY <1>4, <3>1 DEF Calm, Halting
  <2> QED BY <2>1, <2>2
<1>6. \A s \in Sessions : /\ session'[s] \notin {"open", "halting", "quit"}
                          /\ session'[s] = "new" => session[s] = "new"
                          /\ session'[s] = "halted" => session[s] = "halted"
  BY <1>1 DEF Requests
<1> QED BY <1>1, <1>4, <1>5, <1>6, RequestsEmpty

\* One answer reaches the session that waits for it.
LEMMA RequestsAnswered ==
  ASSUME Shapes, Requests, Shapes', ~Halting, ~Halting', UNCHANGED session,
         NEW p \in pending, p.owner.kind = "session", Answered(p.owner.client),
         pending' = pending \ {p}
  PROVE  Requests'
<1>1. PICK n : n = p.owner.client
  OBVIOUS
<1>2. n \in DOMAIN asked /\ asked[n].withId /\ session[asked[n].session] = "open" /\ Waits(n)
  BY <1>1 DEF Requests, Backed, Waits
<1>3. /\ DOMAIN asked' = DOMAIN asked
      /\ \A k \in DOMAIN asked : k # n => asked'[k] = asked[k]
      /\ asked'[n] = [asked[n] EXCEPT !.answers = @ + 1]
  <2>1. /\ asked' \in Seq(Askings) /\ Len(asked') = Len(asked)
        /\ \A k \in 1 .. Len(asked) : k # n => asked'[k] = asked[k]
        /\ n \in 1 .. Len(asked) => asked'[n] = [asked[n] EXCEPT !.answers = @ + 1]
    BY <1>1, AnsweredShapes
  <2>2. DOMAIN asked' = 1 .. Len(asked') /\ DOMAIN asked = 1 .. Len(asked)
    BY <2>1, AskedParts
  <2> QED BY <1>2, <2>1, <2>2
<1>4. asked[n].answers = 0
  BY <1>2 DEF Requests, Served
<1>5. /\ asked'[n].answers = 1 /\ asked'[n].session = asked[n].session /\ asked'[n].withId = asked[n].withId
  <2>1. asked[n] \in Askings
    BY <1>2, AskedParts
  <2>2. \A a \in Askings : /\ [a EXCEPT !.answers = @ + 1].answers = a.answers + 1
                           /\ [a EXCEPT !.answers = @ + 1].session = a.session
                           /\ [a EXCEPT !.answers = @ + 1].withId = a.withId
    BY DEF Askings
  <2> QED BY <1>3, <1>4, <2>1, <2>2
<1>6. ~Waits(n)'
  BY <1>1 DEF Waits, Requests
<1>7. \A k : k # n => (Waits(k)' <=> Waits(k))
  BY <1>1 DEF Waits
<1>8. ASSUME NEW k \in DOMAIN asked PROVE Served(k)'
  <2>1. CASE k = n
    BY <1>2, <1>5, <1>6, <2>1 DEF Served
  <2>2. CASE k # n
    BY <1>3, <1>7, <2>2 DEF Served, Requests
  <2> QED BY <2>1, <2>2
<1>9. \A q \in pending : q.owner.kind = "session" => Backed(q)'
  <2>1. \A k \in DOMAIN asked : asked'[k].session = asked[k].session /\ asked'[k].withId = asked[k].withId
    BY <1>3, <1>5
  <2> QED BY <1>3, <2>1 DEF Requests, Backed
<1> QED BY <1>3, <1>8, <1>9 DEF Requests

LEMMA RequestsHandleAnswer ==
  ASSUME Shapes, Requests, Shapes', HandleAnswer
  PROVE  Requests' /\ Calm'
<1>1. work = <<>> /\ UNCHANGED session
  BY HandleAnswerCases
<1>2. Calm' /\ ~Halting'
  <2>1. CASE work' = work
    BY <1>1, <2>1 DEF Calm, Halting
  <2>2. ASSUME NEW p \in pending, Mapped(p) PROVE Calm' /\ ~Halting'
    <3>1. work' = <<[do |-> "flush", token |-> Reply.token]>>
      BY <2>2 DEF Mapped, AnswerSession
    <3> QED BY <3>1 DEF Calm, Halting
  <2> QED BY <2>1, <2>2, HandleAnswerCases DEF Unknown, Relayed, Freed, Closed
<1>3. ~Halting
  BY <1>1 DEF Halting
<1>4. CASE Unknown
  <2>1. SameWaits
    BY <1>4 DEF Unknown, SameWaits
  <2> QED BY <1>1, <1>2, <1>3, <1>4, <2>1, RequestsStay DEF Unknown
<1>5. ASSUME NEW p \in pending, Mapped(p) \/ Relayed(p) PROVE Requests'
  <2>1. p.owner.kind = "session" /\ Answered(p.owner.client) /\ pending' = pending \ {p}
    BY <1>5 DEF Mapped, Relayed, AnswerSession
  <2> QED BY <1>1, <1>2, <1>3, <2>1, RequestsAnswered
<1>6. ASSUME NEW p \in pending, Freed(p) PROVE Requests'
  <2>1. pending' = (pending \ {p}) \cup {[id |-> counter + 1, owner |-> SentRelease(p.owner.method, Reply.token)]}
    <3>1. pending \ {p} \in SUBSET Pendings /\ IsFiniteSet(pending \ {p})
      BY FS_RemoveElement DEF Shapes
    <3>2. SentRelease(p.owner.method, Reply.token) \in Owners
      BY <1>6, FreedShapes
    <3> QED BY <1>6, <3>1, <3>2, OneTracked DEF Freed
  <2>2. p.owner.kind = "orphan" /\ SentRelease(p.owner.method, Reply.token).kind = "release"
    BY <1>6 DEF Freed, SentRelease, Owner
  <2>3. SameWaits
    BY <2>1, <2>2 DEF SameWaits
  <2> QED BY <1>1, <1>2, <1>3, <1>6, <2>3, RequestsStay DEF Freed
<1>7. ASSUME NEW p \in pending, Closed(p) PROVE Requests'
  <2>1. SameWaits
    BY <1>7 DEF Closed, SameWaits
  <2> QED BY <1>1, <1>2, <1>3, <1>7, <2>1, RequestsStay DEF Closed
<1> QED BY <1>2, <1>4, <1>5, <1>6, <1>7, HandleAnswerCases

----------------------------------------------------------------------------
(* Local tokens, and the tokens the node gave out. *)

\* What is told goes to the session that held the subscription, of its own events.
Telling ==
  \A i \in DOMAIN work : work[i].do = "tell" =>
    Belongs(work[i].owned) /\ work[i].event.token = work[i].owned.token

\* The node numbers its subscriptions, and its events under each.
KnownEvent(e) == e.token \in DOMAIN node.sent /\ e.number <= node.sent[e.token]
KnownReply(m) ==
  /\ m.msg = "answer" => m.token \in DOMAIN node.sent \cup {None}
  /\ m.msg = "event" => KnownEvent(m.event)
Known ==
  /\ \A x \in node.subs : x.token \in DOMAIN node.sent
  /\ \A i \in DOMAIN fromNode : KnownReply(fromNode[i])
  /\ \A l \in DOMAIN heard : heard[l].token \in DOMAIN node.sent

\* A local token stays that of its session and subscription.
NamesKept ==
  /\ DOMAIN heard \subseteq DOMAIN heard'
  /\ \A l \in DOMAIN heard : heard'[l].session = heard[l].session /\ heard'[l].token = heard[l].token

LEMMA HeardParts ==
  ASSUME Shapes
  PROVE  /\ DOMAIN heard = 1 .. Len(heard) /\ Len(heard) \in Nat
         /\ \A l \in DOMAIN heard : /\ heard[l] \in Hearings /\ heard[l].session \in Sessions
                                    /\ heard[l].token \in Nat /\ heard[l].events \in Seq(Nat)
<1>1. heard \in Seq(Hearings)
  BY DEF Shapes
<1>2. \A l \in DOMAIN heard : heard[l] \in Hearings
  BY <1>1
<1>3. \A h \in Hearings : h.session \in Sessions /\ h.token \in Nat /\ h.events \in Seq(Nat)
  BY DEF Hearings
<1> QED BY <1>1, <1>2, <1>3

LEMMA HaltSessionNames ==
  ASSUME Shapes, NEW s \in Sessions, HaltSession(s)
  PROVE  /\ NamesKept /\ DOMAIN heard' = DOMAIN heard
         /\ \A l \in DOMAIN heard : heard'[l].events = heard[l].events
<1>1. Shapes' /\ Len(heard') = Len(heard)
      /\ \A l \in 1 .. Len(heard) : heard'[l] = [heard[l] EXCEPT !.ended = heard'[l].ended]
  BY HaltSessionShapes
<1>2. DOMAIN heard = 1 .. Len(heard) /\ DOMAIN heard' = 1 .. Len(heard')
  <2>1. heard' \in Seq(Hearings)
    BY <1>1 DEF Shapes
  <2> QED BY <2>1, HeardParts
<1>3. \A b : \A h \in Hearings :
                             /\ [h EXCEPT !.ended = b].session = h.session
                             /\ [h EXCEPT !.ended = b].token = h.token
                             /\ [h EXCEPT !.ended = b].events = h.events
  BY DEF Hearings
<1>4. ASSUME NEW l \in DOMAIN heard
      PROVE  /\ heard'[l].session = heard[l].session /\ heard'[l].token = heard[l].token
             /\ heard'[l].events = heard[l].events
  <2>1. PICK b : b = heard'[l].ended
    OBVIOUS
  <2>2. heard'[l] = [heard[l] EXCEPT !.ended = b]
    BY <1>1, <1>2, <2>1
  <2>3. heard[l] \in Hearings
    BY HeardParts
  <2> QED BY <1>3, <2>2, <2>3
<1> QED BY <1>1, <1>2, <1>4 DEF NamesKept

LEMMA TellNames ==
  ASSUME Shapes, Tell
  PROVE  /\ NamesKept /\ DOMAIN heard' = DOMAIN heard
         /\ \A l \in DOMAIN heard :
              IF Tells(work[1].owned, work[1].event) /\ l = work[1].owned.local
              THEN /\ heard'[l].events = Append(heard[l].events, work[1].event.number)
                   /\ heard'[l].ended = (heard[l].ended \/ work[1].event.ends)
              ELSE heard'[l] = heard[l]
<1>1. PICK o, e : o = work[1].owned /\ e = work[1].event
  OBVIOUS
<1>2. /\ Shapes' /\ Len(heard') = Len(heard)
      /\ \A l \in 1 .. Len(heard) :
              heard'[l] = IF Tells(o, e) /\ l = o.local
                          THEN [heard[l] EXCEPT !.events = Append(@, e.number), !.ended = @ \/ e.ends]
                          ELSE heard[l]
  BY <1>1, TellShapes
<1>3. DOMAIN heard = 1 .. Len(heard) /\ DOMAIN heard' = 1 .. Len(heard')
  <2>1. heard' \in Seq(Hearings)
    BY <1>2 DEF Shapes
  <2> QED BY <2>1, HeardParts
<1>4. \A h \in Hearings :
        /\ [h EXCEPT !.events = Append(@, e.number), !.ended = @ \/ e.ends].session = h.session
        /\ [h EXCEPT !.events = Append(@, e.number), !.ended = @ \/ e.ends].token = h.token
        /\ [h EXCEPT !.events = Append(@, e.number), !.ended = @ \/ e.ends].events = Append(h.events, e.number)
        /\ [h EXCEPT !.events = Append(@, e.number), !.ended = @ \/ e.ends].ended = (h.ended \/ e.ends)
  BY DEF Hearings
<1>5. \A l \in DOMAIN heard : heard[l] \in Hearings
  BY HeardParts
<1>6. \A l \in DOMAIN heard :
        IF Tells(o, e) /\ l = o.local
        THEN /\ heard'[l].session = heard[l].session /\ heard'[l].token = heard[l].token
             /\ heard'[l].events = Append(heard[l].events, e.number)
             /\ heard'[l].ended = (heard[l].ended \/ e.ends)
        ELSE heard'[l] = heard[l]
  <2> SUFFICES ASSUME NEW l \in DOMAIN heard, Tells(o, e), l = o.local
               PROVE  /\ heard'[l].session = heard[l].session /\ heard'[l].token = heard[l].token
                      /\ heard'[l].events = Append(heard[l].events, e.number)
                      /\ heard'[l].ended = (heard[l].ended \/ e.ends)
    BY <1>2, <1>3
  <2>1. heard[l] \in Hearings
    BY <1>5
  <2>2. heard'[l] = [heard[l] EXCEPT !.events = Append(@, e.number), !.ended = @ \/ e.ends]
    BY <1>2, <1>3
  <2>3. PICK h \in Hearings : h = heard[l]
    BY <2>1
  <2>4. heard'[l] = [h EXCEPT !.events = Append(@, e.number), !.ended = @ \/ e.ends]
    BY <2>2, <2>3
  <2> QED BY <1>4, <2>3, <2>4
<1> QED BY <1>1, <1>2, <1>3, <1>6 DEF NamesKept

LEMMA MappedNames ==
  ASSUME Shapes, HandleAnswer, NEW p \in pending, Mapped(p)
  PROVE  /\ NamesKept /\ DOMAIN heard' = 1 .. Len(heard) + 1 /\ DOMAIN heard = 1 .. Len(heard)
         /\ Len(heard) \in Nat
         /\ heard'[Len(heard) + 1] = NewHearing(p)
         /\ \A l \in DOMAIN heard : heard'[l] = heard[l]
<1>1. heard' = Append(heard, NewHearing(p)) /\ NewHearing(p) \in Hearings /\ heard \in Seq(Hearings)
  BY MappedShapes DEF Shapes
<1>2. /\ Len(heard') = Len(heard) + 1 /\ heard'[Len(heard) + 1] = NewHearing(p)
      /\ \A l \in 1 .. Len(heard) : heard'[l] = heard[l]
      /\ heard' \in Seq(Hearings) /\ Len(heard) \in Nat
  BY <1>1, Appended
<1>3. DOMAIN heard' = 1 .. Len(heard) + 1 /\ DOMAIN heard = 1 .. Len(heard)
  BY <1>1, <1>2
<1> QED BY <1>2, <1>3 DEF NamesKept

\* Nothing newly held, and no local token renamed.
LEMMA NamedStays ==
  ASSUME Named, NamesKept, owned' \subseteq owned
  PROVE  Named'
<1>1. \A o \in owned' : Belongs(o)'
  <2> SUFFICES ASSUME NEW o \in owned' PROVE Belongs(o)'
    OBVIOUS
  <2>1. Belongs(o)
    BY DEF Named
  <2> QED BY <2>1 DEF Belongs, NamesKept
<1> QED BY <1>1 DEF Named

LEMMA MappedNamed ==
  ASSUME Shapes, Named, HandleAnswer, NEW p \in pending, Mapped(p)
  PROVE  Named' /\ Telling' /\ OneHalt'
<1>1. /\ owned' = owned \cup {NewHeld(p)} /\ work' = <<[do |-> "flush", token |-> Reply.token]>>
      /\ Len(heard) \in Nat
  BY MappedShapes
<1>2. \A o \in owned : Belongs(o)'
  <2> SUFFICES ASSUME NEW o \in owned PROVE Belongs(o)'
    OBVIOUS
  <2>1. Belongs(o)
    BY DEF Named
  <2> QED BY <2>1, MappedNames DEF Belongs, NamesKept
<1>3. PICK new : new = NewHeld(p)
  OBVIOUS
<1>4. Belongs(new)'
  <2>1. new.local = Len(heard) + 1 /\ new.session = NewHearing(p).session /\ new.token = NewHearing(p).token
    BY <1>3 DEF NewHeld, NewHearing
  <2>2. Len(heard) + 1 \in DOMAIN heard'
    BY <1>1, MappedNames
  <2> QED BY <2>1, <2>2, MappedNames DEF Belongs
<1>5. \A o \in owned : o.local # new.local
  <2>1. new.local = Len(heard) + 1
    BY <1>3 DEF NewHeld
  <2>2. \A o \in owned : o.local \in 1 .. Len(heard)
    BY MappedNames DEF Named, Belongs
  <2> QED BY <1>1, <2>1, <2>2
<1>6. Named'
  <2>1. owned' = owned \cup {new}
    BY <1>1, <1>3
  <2> QED BY <1>2, <1>4, <1>5, <2>1 DEF Named
<1> QED BY <1>1, <1>6 DEF Telling, OneHalt

\* Work that is done, or set aside, leaves the rest as it was.
LEMMA TellingStays ==
  ASSUME Telling, NamesKept,
         \A i \in DOMAIN work' : work'[i].do = "tell" => \E j \in DOMAIN work : work[j] = work'[i]
  PROVE  Telling'
<1> SUFFICES ASSUME NEW i \in DOMAIN work', work'[i].do = "tell", NEW o, o = work'[i].owned
             PROVE  Belongs(o)' /\ work'[i].event.token = o.token
  BY DEF Telling, Belongs
<1>1. PICK j \in DOMAIN work : work[j] = work'[i]
  OBVIOUS
<1>2. o = work[j].owned
  BY <1>1
<1>3. Belongs(o) /\ work[j].event.token = o.token
  BY <1>1, <1>2 DEF Telling
<1>4. Belongs(o)'
  BY <1>3 DEF Belongs, NamesKept
<1> QED BY <1>1, <1>2, <1>3, <1>4

LEMMA FirstOrLater ==
  ASSUME NEW n \in Nat, NEW m \in Nat, NEW i \in 1 .. n + m - 1
  PROVE  i \in 1 .. n \/ \E k \in 1 .. m - 1 : i = n + k
<1>1. CASE i <= n
  BY <1>1
<1>2. CASE i > n
  <2>1. i - n \in 1 .. m - 1 /\ i = n + (i - n)
    BY <1>2
  <2> QED BY <2>1
<1> QED BY <1>1, <1>2

LEMMA HandleEventNamed ==
  ASSUME Shapes, HandleEvent
  PROVE  Telling' /\ Calm'
BY HandleEventShapes DEF Telling, Calm

LEMMA FlushNamed ==
  ASSUME Shapes, Telling, OneHalt, Flush
  PROVE  Telling' /\ Calm'
<1>1. work # <<>> /\ work[1].do = "flush" /\ UNCHANGED heard
  BY FlushShapes DEF Flush
<1>2. PICK events \in Seq(Events) :
              /\ Len(work') = Len(events) + Len(work) - 1
              /\ \A i \in 1 .. Len(events) : work'[i] = [do |-> "event", event |-> events[i]]
              /\ \A i \in 1 .. Len(work) - 1 : work'[Len(events) + i] = work[i + 1]
  BY FlushShapes
<1>3. Len(work) \in Nat /\ DOMAIN work = 1 .. Len(work) /\ DOMAIN work' = 1 .. Len(work') /\ Len(events) \in Nat
  <2>1. work \in Seq(WorkItems)
    BY DEF Shapes
  <2>2. work' \in Seq(WorkItems)
    BY FlushShapes DEF Shapes
  <2> QED BY <2>1, <2>2
<1>4. \A i \in DOMAIN work' : \/ i \in 1 .. Len(events) /\ work'[i].do = "event"
                              \/ \E j \in DOMAIN work : j # 1 /\ work[j] = work'[i]
  <2>0. ASSUME NEW i \in 1 .. Len(events) PROVE work'[i].do = "event"
    <3>1. work'[i] = [do |-> "event", event |-> events[i]]
      BY <1>2
    <3> QED BY <3>1
  <2> SUFFICES ASSUME NEW i \in DOMAIN work', i \notin 1 .. Len(events)
               PROVE  \E j \in DOMAIN work : j # 1 /\ work[j] = work'[i]
    BY <2>0
  <2>1. PICK k \in 1 .. Len(work) - 1 : i = Len(events) + k
    <3>1. i \in 1 .. Len(events) + Len(work) - 1
      BY <1>2, <1>3
    <3> QED BY <1>3, <3>1, FirstOrLater
  <2>2. k + 1 \in DOMAIN work /\ k + 1 # 1 /\ work[k + 1] = work'[i]
    BY <1>2, <1>3, <2>1
  <2> QED BY <2>2
<1>5. NamesKept
  BY <1>1 DEF NamesKept
<1>6. Telling'
  BY <1>4, <1>5, TellingStays
<1> QED BY <1>4, <1>6 DEF Calm, OneHalt

LEMMA RouteNamed ==
  ASSUME Shapes, Named, Telling, OneHalt, Route
  PROVE  Telling' /\ Calm'
<1>1. work # <<>> /\ work[1].do = "event" /\ UNCHANGED heard
  BY RouteShapes DEF Route
<1>2. PICK order \in Seq(Helds) :
              /\ \A i \in 1 .. Len(order) : order[i] \in Holders(work[1].event.token)
              /\ Len(work') = Len(order) + Len(work) - 1
              /\ \A i \in 1 .. Len(order) :
                   work'[i] = [do |-> "tell", owned |-> order[i], event |-> work[1].event]
              /\ \A i \in 1 .. Len(work) - 1 : work'[Len(order) + i] = work[i + 1]
  BY RouteShapes
<1>3. Len(work) \in Nat /\ DOMAIN work = 1 .. Len(work) /\ DOMAIN work' = 1 .. Len(work') /\ Len(order) \in Nat
  BY RouteShapes DEF Shapes
<1>4. \A i \in DOMAIN work' : \/ i \in 1 .. Len(order)
                              \/ \E j \in DOMAIN work : j # 1 /\ work[j] = work'[i]
  <2> SUFFICES ASSUME NEW i \in DOMAIN work', i \notin 1 .. Len(order)
               PROVE  \E j \in DOMAIN work : j # 1 /\ work[j] = work'[i]
    OBVIOUS
  <2>1. PICK k \in 1 .. Len(work) - 1 : i = Len(order) + k
    <3>1. i \in 1 .. Len(order) + Len(work) - 1
      BY <1>2, <1>3
    <3> QED BY <1>3, <3>1, FirstOrLater
  <2>2. k + 1 \in DOMAIN work /\ k + 1 # 1 /\ work[k + 1] = work'[i]
    BY <1>2, <1>3, <2>1
  <2> QED BY <2>2
<1>5. Calm'
  <2>1. ASSUME NEW i \in 1 .. Len(order) PROVE work'[i].do = "tell"
    <3>1. work'[i] = [do |-> "tell", owned |-> order[i], event |-> work[1].event]
      BY <1>2
    <3> QED BY <3>1
  <2> QED BY <1>4, <2>1 DEF Calm, OneHalt
<1>6. Telling'
  <2> SUFFICES ASSUME NEW i \in DOMAIN work', work'[i].do = "tell", NEW o, o = work'[i].owned
               PROVE  Belongs(o) /\ work'[i].event.token = o.token
    BY <1>1 DEF Telling, Belongs
  <2>1. CASE i \in 1 .. Len(order)
    <3>1. work'[i] = [do |-> "tell", owned |-> order[i], event |-> work[1].event]
      BY <1>2, <2>1
    <3>2. o = order[i] /\ work'[i].event = work[1].event
      BY <3>1
    <3>3. o \in owned /\ o.token = work[1].event.token
      BY <1>2, <2>1, <3>2 DEF Holders
    <3> QED BY <3>2, <3>3 DEF Named
  <2>2. CASE i \notin 1 .. Len(order)
    <3>1. PICK j \in DOMAIN work : work[j] = work'[i]
      BY <1>4, <2>2
    <3> QED BY <3>1 DEF Telling
  <2> QED BY <2>1, <2>2
<1> QED BY <1>5, <1>6

LEMMA TellNamed ==
  ASSUME Shapes, Telling, OneHalt, Tell
  PROVE  Telling' /\ Calm'
<1>1. work # <<>> /\ work' = Tail(work) /\ work \in Seq(WorkItems)
  BY TellShapes DEF Shapes
<1>2. \A i \in DOMAIN work' : \E j \in DOMAIN work : j # 1 /\ work[j] = work'[i]
  <2> SUFFICES ASSUME NEW i \in DOMAIN work' PROVE \E j \in DOMAIN work : j # 1 /\ work[j] = work'[i]
    OBVIOUS
  <2>1. i \in 1 .. Len(work) - 1 /\ work'[i] = work[i + 1] /\ i + 1 \in DOMAIN work /\ i + 1 # 1
    BY <1>1, HeadTail
  <2> QED BY <2>1
<1>3. Telling'
  BY <1>2, TellNames, TellingStays
<1> QED BY <1>2, <1>3 DEF Calm, OneHalt

\* A step after which the node's books still cover what is known.
LEMMA KnownMoves ==
  ASSUME Shapes, Known, Shapes',
         DOMAIN node.sent \subseteq DOMAIN node'.sent,
         \A t \in DOMAIN node.sent : node.sent[t] <= node'.sent[t],
         \A x \in node'.subs : x \in node.subs \/ x.token \in DOMAIN node'.sent,
         \A i \in DOMAIN fromNode' : \/ KnownReply(fromNode[i])'
                                     \/ \E j \in DOMAIN fromNode : fromNode[j] = fromNode'[i],
         \A l \in DOMAIN heard' : heard'[l].token \in DOMAIN node'.sent
  PROVE  Known'
<1>1. ASSUME NEW i \in DOMAIN fromNode', NEW j \in DOMAIN fromNode, fromNode[j] = fromNode'[i]
      PROVE  KnownReply(fromNode[i])'
  <2>1. PICK m : m = fromNode[j]
    OBVIOUS
  <2>2. KnownReply(m) /\ m \in Replies
    BY <2>1 DEF Known, Shapes
  <2>3. m.msg = "event" => m.event.number \in Nat
    BY <2>2 DEF Replies, Events
  <2>4. \A t \in DOMAIN node.sent : node.sent[t] \in Nat /\ node'.sent[t] \in Nat
    <3>1. node.sent \in Seq(Nat) /\ node'.sent \in Seq(Nat)
      BY DEF Shapes, Nodes
    <3> QED BY <3>1
  <2>5. KnownReply(m)'
    BY <2>2, <2>3, <2>4 DEF KnownReply, KnownEvent
  <2> QED BY <1>1, <2>1, <2>5 DEF KnownReply, KnownEvent
<1>2. \A i \in DOMAIN fromNode' : KnownReply(fromNode[i])'
  BY <1>1
<1> QED BY <1>2 DEF Known, KnownReply, KnownEvent

LEMMA SentParts ==
  ASSUME Shapes
  PROVE  /\ node.sent \in Seq(Nat) /\ DOMAIN node.sent = 1 .. Len(node.sent) /\ Len(node.sent) \in Nat
         /\ \A t \in DOMAIN node.sent : node.sent[t] \in Nat /\ t \in Nat
BY DEF Shapes, Nodes

\* The broker's and the sessions' steps learn of no subscription the node has not named.
LEMMA KnownStays ==
  ASSUME Shapes, Known, Shapes', node'.sent = node.sent, node'.subs \subseteq node.subs,
         \A i \in DOMAIN fromNode' : \E j \in DOMAIN fromNode : fromNode[j] = fromNode'[i],
         \A l \in DOMAIN heard' : heard'[l].token \in DOMAIN node.sent
  PROVE  Known'
BY SentParts, KnownMoves

LEMMA KnownSame ==
  ASSUME Shapes, Known, Shapes', NamesKept, DOMAIN heard' = DOMAIN heard, UNCHANGED <<node, fromNode>>
  PROVE  Known'
<1>1. \A l \in DOMAIN heard' : heard'[l].token \in DOMAIN node.sent
  BY DEF Known, NamesKept
<1> QED BY <1>1, KnownStays

LEMMA FromNodeTail ==
  ASSUME Shapes, fromNode # <<>>
  PROVE  \A i \in DOMAIN Tail(fromNode) : i + 1 \in DOMAIN fromNode /\ fromNode[i + 1] = Tail(fromNode)[i]
<1>1. fromNode \in Seq(Replies)
  BY DEF Shapes
<1> QED BY <1>1, HeadTail

LEMMA HandleAnswerKnown ==
  ASSUME Shapes, Known, Shapes', HandleAnswer
  PROVE  Known'
<1>1. fromNode # <<>> /\ fromNode' = Tail(fromNode) /\ node' = node
  BY HandleAnswerCases
<1>2. \A i \in DOMAIN fromNode' : \E j \in DOMAIN fromNode : fromNode[j] = fromNode'[i]
  BY <1>1, FromNodeTail
<1>3. \A l \in DOMAIN heard' : heard'[l].token \in DOMAIN node.sent
  <2>1. CASE heard' = heard
    BY <2>1 DEF Known
  <2>2. ASSUME NEW p \in pending, Mapped(p) PROVE \A l \in DOMAIN heard' : heard'[l].token \in DOMAIN node.sent
    <3>1. /\ DOMAIN heard' = 1 .. Len(heard) + 1 /\ DOMAIN heard = 1 .. Len(heard) /\ Len(heard) \in Nat
          /\ heard'[Len(heard) + 1] = NewHearing(p) /\ \A l \in DOMAIN heard : heard'[l] = heard[l]
      BY <2>2, MappedNames
    <3>2. Reply.token \in DOMAIN node.sent
      <4>1. 1 \in DOMAIN fromNode /\ Reply = fromNode[1] /\ Reply.msg = "answer"
        BY <1>1, HandleAnswerCases, HeadTail DEF Shapes, Reply
      <4>2. KnownReply(Reply)
        BY <4>1 DEF Known
      <4> QED BY <2>2, <4>1, <4>2 DEF KnownReply, Mapped
    <3>3. heard'[Len(heard) + 1].token = Reply.token
      BY <3>1 DEF NewHearing
    <3>4. ASSUME NEW l \in DOMAIN heard' PROVE heard'[l].token \in DOMAIN node.sent
      <4>1. l \in DOMAIN heard \/ l = Len(heard) + 1
        BY <3>1
      <4> QED BY <3>1, <3>2, <3>3, <4>1 DEF Known
    <3> QED BY <3>4
  <2> QED BY <2>1, <2>2, HandleAnswerCases DEF Unknown, Relayed, Freed, Closed
<1> QED BY <1>1, <1>2, <1>3, KnownStays

\* A token the node gives out is next, and its count of events starts there.
LEMMA SentAppended ==
  ASSUME Shapes, Shapes', NEW k \in Nat, node'.sent = Append(node.sent, k)
  PROVE  /\ DOMAIN node'.sent = 1 .. Len(node.sent) + 1 /\ NewToken = Len(node.sent) + 1
         /\ NewToken \notin DOMAIN node.sent
         /\ NewToken \in DOMAIN node'.sent /\ DOMAIN node.sent \subseteq DOMAIN node'.sent
         /\ node'.sent[NewToken] = k /\ \A t \in DOMAIN node.sent : node'.sent[t] = node.sent[t]
<1>1. node.sent \in Seq(Nat) /\ Len(node.sent) \in Nat /\ DOMAIN node.sent = 1 .. Len(node.sent)
  BY SentParts
<1> QED BY <1>1, Appended DEF NewToken

LEMMA NodeOpensKnown ==
  ASSUME Shapes, Known, Shapes', NodeOpens
  PROVE  Known'
<1>1. heard' = heard
  BY NodeOpensCases
<1>2. fromNode \in Seq(Replies) /\ DOMAIN fromNode = 1 .. Len(fromNode) /\ Len(fromNode) \in Nat
  BY DEF Shapes
<1>3. ASSUME NEW m, m \in Replies, fromNode' = Append(fromNode, m), KnownReply(m)'
      PROVE  \A i \in DOMAIN fromNode' : \/ KnownReply(fromNode[i])'
                                         \/ \E j \in DOMAIN fromNode : fromNode[j] = fromNode'[i]
  <2> SUFFICES ASSUME NEW i \in DOMAIN fromNode'
               PROVE  fromNode'[i] = m \/ \E j \in DOMAIN fromNode : fromNode[j] = fromNode'[i]
    BY <1>3 DEF KnownReply, KnownEvent
  <2>1. i \in 1 .. Len(fromNode) \/ i = Len(fromNode) + 1
    BY <1>2, <1>3, Appended
  <2> QED BY <1>2, <1>3, <2>1, Appended
<1>4. Query.id \in Nat /\ Query.method \in Kinds
  BY NodeOpensCases, QueryShapes
<1>5. \A t \in Names : AnswerMsg(Query.id, t) \in Replies /\ AnswerMsg(Query.id, t).msg = "answer"
                       /\ AnswerMsg(Query.id, t).token = t
  BY <1>4, MessageShapes DEF AnswerMsg
<1>6. NewToken \in Names /\ None \in Names
  BY NodeShapes DEF Names
<1>7. CASE Refuses
  <2>1. PICK m : m = AnswerMsg(Query.id, None)
    OBVIOUS
  <2>2. m \in Replies /\ KnownReply(m)' /\ fromNode' = Append(fromNode, m) /\ node' = node
    BY <1>5, <1>6, <1>7, <2>1 DEF KnownReply, Refuses
  <2>3. \A t \in DOMAIN node.sent : node.sent[t] <= node'.sent[t]
    BY <2>2, SentParts
  <2> QED BY <1>1, <1>3, <2>2, <2>3, KnownMoves DEF Known
<1>8. CASE Runs
  <2>1. /\ node'.subs = node.subs \cup {Sub(NewToken, Query.method)} /\ node'.sent = Append(node.sent, 0)
        /\ fromNode' = Append(fromNode, AnswerMsg(Query.id, NewToken))
    BY <1>8, NodeOpensShapes DEF Runs
  <2>2. PICK m : m = AnswerMsg(Query.id, NewToken)
    OBVIOUS
  <2>3. m \in Replies /\ KnownReply(m)' /\ fromNode' = Append(fromNode, m)
    BY <1>5, <1>6, <2>1, <2>2, SentAppended DEF KnownReply
  <2>4. \A t \in DOMAIN node.sent : node.sent[t] <= node'.sent[t]
    BY <2>1, SentParts, SentAppended
  <2>5. \A x \in node'.subs : x \in node.subs \/ x.token \in DOMAIN node'.sent
    BY <2>1, SentAppended DEF Sub
  <2> QED BY <1>1, <1>3, <2>1, <2>3, <2>4, <2>5, SentAppended, KnownMoves DEF Known
<1>9. CASE Garbles
  <2>1. /\ node'.subs = node.subs \cup {Sub(NewToken, Query.method)} /\ node'.sent = Append(node.sent, 0)
        /\ fromNode' = Append(fromNode, AnswerMsg(Query.id, None))
    BY <1>9, NodeOpensShapes DEF Garbles
  <2>2. PICK m : m = AnswerMsg(Query.id, None)
    OBVIOUS
  <2>3. m \in Replies /\ KnownReply(m)' /\ fromNode' = Append(fromNode, m)
    BY <1>5, <1>6, <2>1, <2>2 DEF KnownReply
  <2>4. \A t \in DOMAIN node.sent : node.sent[t] <= node'.sent[t]
    BY <2>1, SentParts, SentAppended
  <2>5. \A x \in node'.subs : x \in node.subs \/ x.token \in DOMAIN node'.sent
    BY <2>1, SentAppended DEF Sub
  <2> QED BY <1>1, <1>3, <2>1, <2>3, <2>4, <2>5, SentAppended, KnownMoves DEF Known
<1>10. ASSUME NEW x \in node.subs, SharesOne(x) PROVE Known'
  <2>1. PICK m : m = AnswerMsg(Query.id, x.token)
    OBVIOUS
  <2>2. x.token \in Names /\ x.token \in DOMAIN node.sent
    BY NodeShapes DEF Subs, Names, Known
  <2>3. m \in Replies /\ KnownReply(m)' /\ fromNode' = Append(fromNode, m) /\ node' = node
    BY <1>5, <1>10, <2>1, <2>2 DEF KnownReply, SharesOne
  <2>4. \A t \in DOMAIN node.sent : node.sent[t] <= node'.sent[t]
    BY <2>3, SentParts
  <2> QED BY <1>1, <1>3, <2>3, <2>4, KnownMoves DEF Known
<1>11. ASSUME NEW ends \in BOOLEAN, RunsEarly(ends) PROVE Known'
  <2>1. /\ node'.subs \subseteq node.subs \cup {Sub(NewToken, Query.method)} /\ node'.sent = Append(node.sent, 1)
        /\ fromNode' = fromNode \o <<EventMsg(NewToken, 1, ends), AnswerMsg(Query.id, NewToken)>>
    <3>1. node'.subs = IF ends THEN node.subs ELSE node.subs \cup {Sub(NewToken, Query.method)}
      BY <1>11, NodeOpensShapes
    <3> QED BY <1>11, <3>1, NodeOpensShapes DEF RunsEarly
  <2>2. PICK e : e = EventMsg(NewToken, 1, ends)
    OBVIOUS
  <2>3. PICK m : m = AnswerMsg(Query.id, NewToken)
    OBVIOUS
  <2>4. e \in Replies /\ m \in Replies
    BY <1>4, <1>5, <1>6, <2>2, <2>3, NodeShapes, MessageShapes
  <2>5. KnownReply(m)'
    BY <1>5, <1>6, <2>1, <2>3, SentAppended DEF KnownReply
  <2>6. KnownReply(e)'
    <3>1. e.msg = "event" /\ e.event.token = NewToken /\ e.event.number = 1
      BY <2>2 DEF EventMsg
    <3> QED BY <2>1, <3>1, SentAppended DEF KnownReply, KnownEvent
  <2>7. ASSUME NEW i \in DOMAIN fromNode'
        PROVE  \/ fromNode'[i] = e \/ fromNode'[i] = m
               \/ \E j \in DOMAIN fromNode : fromNode[j] = fromNode'[i]
    <3>1. <<e, m>> \in Seq(Replies) /\ Len(<<e, m>>) = 2 /\ <<e, m>>[1] = e /\ <<e, m>>[2] = m
      BY <2>4
    <3>2. fromNode' = fromNode \o <<e, m>>
      BY <2>1, <2>2, <2>3
    <3>3. i \in 1 .. Len(fromNode) + 2
          /\ fromNode'[i] = IF i <= Len(fromNode) THEN fromNode[i] ELSE <<e, m>>[i - Len(fromNode)]
      BY <1>2, <3>1, <3>2, ConcatProperties
    <3>4. CASE i <= Len(fromNode)
      BY <1>2, <3>3, <3>4
    <3>5. CASE i > Len(fromNode)
      <4>1. i - Len(fromNode) = 1 \/ i - Len(fromNode) = 2
        BY <1>2, <3>3, <3>5
      <4> QED BY <1>2, <3>1, <3>3, <3>5, <4>1
    <3> QED BY <1>2, <3>3, <3>4, <3>5
  <2>8. \A i \in DOMAIN fromNode' : \/ KnownReply(fromNode[i])'
                                    \/ \E j \in DOMAIN fromNode : fromNode[j] = fromNode'[i]
    BY <2>5, <2>6, <2>7 DEF KnownReply, KnownEvent
  <2>9. \A t \in DOMAIN node.sent : node.sent[t] <= node'.sent[t]
    BY <2>1, SentParts, SentAppended
  <2>10. \A x \in node'.subs : x \in node.subs \/ x.token \in DOMAIN node'.sent
    BY <2>1, SentAppended DEF Sub
  <2> QED BY <1>1, <2>1, <2>8, <2>9, <2>10, SentAppended, KnownMoves DEF Known
<1> QED BY <1>7, <1>8, <1>9, <1>10, <1>11, NodeOpensCases

LEMMA NodeReadsKnown ==
  ASSUME Shapes, Known, Shapes', NodeReads
  PROVE  Known'
<1>1. /\ heard' = heard /\ node'.sent = node.sent /\ node'.subs \subseteq node.subs
      /\ fromNode' = IF Query.id = 0 THEN fromNode ELSE Append(fromNode, AnswerMsg(Query.id, None))
      /\ Query.id \in Nat
  BY NodeReadsShapes, QueryShapes
<1>2. fromNode \in Seq(Replies) /\ DOMAIN fromNode = 1 .. Len(fromNode) /\ Len(fromNode) \in Nat
  BY DEF Shapes
<1>3. PICK m : m = AnswerMsg(Query.id, None)
  OBVIOUS
<1>4. m \in Replies /\ KnownReply(m)'
  BY <1>1, <1>3, MessageShapes DEF AnswerMsg, KnownReply, Names
<1>5. \A i \in DOMAIN fromNode' : fromNode'[i] = m \/ \E j \in DOMAIN fromNode : fromNode[j] = fromNode'[i]
  <2>1. CASE Query.id = 0
    BY <1>1, <2>1
  <2>2. CASE Query.id # 0
    <3>1. fromNode' = Append(fromNode, m)
      BY <1>1, <1>3, <2>2
    <3>2. \A i \in DOMAIN fromNode' : i \in 1 .. Len(fromNode) \/ i = Len(fromNode) + 1
      BY <1>2, <1>4, <3>1, Appended
    <3> QED BY <1>2, <1>4, <3>1, <3>2, Appended
  <2> QED BY <2>1, <2>2
<1>6. \A i \in DOMAIN fromNode' : \/ KnownReply(fromNode[i])'
                                  \/ \E j \in DOMAIN fromNode : fromNode[j] = fromNode'[i]
  BY <1>4, <1>5 DEF KnownReply, KnownEvent
<1>7. \A t \in DOMAIN node.sent : node.sent[t] <= node'.sent[t]
  BY <1>1, SentParts
<1> QED BY <1>1, <1>6, <1>7, KnownMoves DEF Known

LEMMA NodeSendsKnown ==
  ASSUME Shapes, Known, Shapes', NEW x \in node.subs, NEW ends \in BOOLEAN, NodeSends(x, ends)
  PROVE  Known'
<1>1. x.token \in DOMAIN node.sent
  BY DEF Known
<1>2. PICK m : m = EventMsg(x.token, node.sent[x.token] + 1, ends)
  OBVIOUS
<1>3. /\ heard' = heard /\ fromNode' = Append(fromNode, m) /\ m \in Replies
      /\ node'.sent = [node.sent EXCEPT ![x.token] = @ + 1] /\ node'.subs \subseteq node.subs
  BY <1>1, <1>2, NodeSendsShapes
<1>4. /\ DOMAIN node'.sent = DOMAIN node.sent
      /\ \A t \in DOMAIN node.sent : node'.sent[t] = IF t = x.token THEN node.sent[t] + 1 ELSE node.sent[t]
  BY <1>3, SentParts
<1>5. KnownReply(m)'
  <2>1. m.msg = "event" /\ m.event.token = x.token /\ m.event.number = node.sent[x.token] + 1
    BY <1>2 DEF EventMsg
  <2> QED BY <1>1, <1>4, <2>1, SentParts DEF KnownReply, KnownEvent
<1>6. \A i \in DOMAIN fromNode' : fromNode'[i] = m \/ \E j \in DOMAIN fromNode : fromNode[j] = fromNode'[i]
  <2>1. fromNode \in Seq(Replies) /\ DOMAIN fromNode = 1 .. Len(fromNode) /\ Len(fromNode) \in Nat
    BY DEF Shapes
  <2>2. \A i \in DOMAIN fromNode' : i \in 1 .. Len(fromNode) \/ i = Len(fromNode) + 1
    BY <1>3, <2>1, Appended
  <2> QED BY <1>3, <2>1, <2>2, Appended
<1>7. \A i \in DOMAIN fromNode' : \/ KnownReply(fromNode[i])'
                                  \/ \E j \in DOMAIN fromNode : fromNode[j] = fromNode'[i]
  BY <1>5, <1>6 DEF KnownReply, KnownEvent
<1>8. \A t \in DOMAIN node.sent : node.sent[t] <= node'.sent[t]
  BY <1>4, SentParts
<1> QED BY <1>3, <1>4, <1>7, <1>8, KnownMoves DEF Known

BaseInv == Shapes /\ Named /\ Telling /\ OneHalt /\ Requests /\ Known

LEMMA BaseInvInit == Init => BaseInv
<1> SUFFICES ASSUME Init PROVE BaseInv
  OBVIOUS
<1>1. IsFiniteSet({})
  BY FS_EmptySet
<1>2. node \in Nodes /\ node.subs = {}
  BY DEF Init, Nodes
<1>3. session \in [Sessions -> Phases]
  BY DEF Init, Phases
<1>4. Shapes
  BY <1>1, <1>2, <1>3 DEF Init, Shapes
<1>5. Requests
  BY DEF Init, Requests, Halting
<1>6. Named /\ Telling /\ OneHalt /\ Known
  BY <1>2 DEF Init, Named, Telling, OneHalt, Known
<1> QED BY <1>4, <1>5, <1>6 DEF BaseInv

\* Steps that leave what is being handled and the node alone.
LEMMA AsideBase ==
  ASSUME BaseInv, Shapes', Requests', UNCHANGED <<work, fromNode, node, heard>>, owned' \subseteq owned
  PROVE  BaseInv'
<1>1. NamesKept /\ DOMAIN heard' = DOMAIN heard
  BY DEF NamesKept
<1>2. Named' /\ Telling' /\ OneHalt'
  BY <1>1, NamedStays, TellingStays DEF BaseInv, OneHalt
<1>3. Known'
  BY <1>1, KnownSame DEF BaseInv
<1> QED BY <1>2, <1>3 DEF BaseInv

LEMMA SessionStepBase == ASSUME BaseInv, SessionStep PROVE BaseInv'
<1> USE DEF BaseInv
<1>1. PICK s \in Sessions :
    \/ Connect(s) \/ Leave(s) \/ LeaveHalting(s)
    \/ \E kind \in Kinds, withId \in BOOLEAN : Subscribe(s, kind, withId)
    \/ \E l \in DOMAIN heard : Call(s, l)
    \/ \E l \in DOMAIN heard, withId \in BOOLEAN : Release(s, l, withId)
  BY DEF SessionStep
<1>2. CASE Connect(s)
  BY <1>2, ConnectShapes, RequestsConnect, AsideBase DEF Connect
<1>3. CASE Leave(s)
  BY <1>3, LeaveShapes, RequestsLeave, AsideBase DEF Leave
<1>4. CASE LeaveHalting(s)
  BY <1>4, LeaveHaltingShapes, RequestsLeaveHalting, AsideBase DEF LeaveHalting
<1>5. ASSUME NEW kind \in Kinds, NEW withId \in BOOLEAN, Subscribe(s, kind, withId) PROVE BaseInv'
  BY <1>5, SubscribeShapes, RequestsSubscribe, AsideBase DEF Subscribe
<1>6. ASSUME NEW l \in DOMAIN heard, Call(s, l) PROVE BaseInv'
  BY <1>6, CallShapes, RequestsCall, AsideBase DEF Call
<1>7. ASSUME NEW l \in DOMAIN heard, NEW withId \in BOOLEAN, Release(s, l, withId) PROVE BaseInv'
  <2>1. UNCHANGED <<work, fromNode, node, heard>> /\ owned' \subseteq owned
    BY <1>7 DEF Release
  <2> QED BY <1>7, <2>1, ReleaseShapes, RequestsRelease, AsideBase
<1> QED BY <1>1, <1>2, <1>3, <1>4, <1>5, <1>6, <1>7

LEMMA HaltTells ==
  ASSUME Shapes, Halt
  PROVE  \A i \in DOMAIN work' : work'[i].do = "tell" => \E j \in DOMAIN work : work[j] = work'[i]
<1>1. work \in Seq(WorkItems) /\ [do |-> "halt"] \in WorkItems /\ work' = <<[do |-> "halt"]>> \o work /\ Shapes'
  BY HaltShapes DEF Halt, Shapes, WorkItems
<1>2. PICK h : h = [do |-> "halt"]
  OBVIOUS
<1>3. /\ Len(work') = Len(work) + 1 /\ work'[1] = h /\ h.do = "halt" /\ Len(work) \in Nat
      /\ \A i \in 1 .. Len(work) : work'[i + 1] = work[i]
      /\ DOMAIN work = 1 .. Len(work) /\ DOMAIN work' = 1 .. Len(work')
  BY <1>1, <1>2, InFront DEF Shapes
<1> SUFFICES ASSUME NEW i \in DOMAIN work', work'[i].do = "tell" PROVE \E j \in DOMAIN work : work[j] = work'[i]
  OBVIOUS
<1>4. i # 1
  BY <1>3
<1>5. i - 1 \in DOMAIN work /\ (i - 1) + 1 = i
  BY <1>3, <1>4
<1> QED BY <1>3, <1>5

LEMMA OwnerStepBase == ASSUME BaseInv, OwnerStep PROVE BaseInv'
<1> USE DEF BaseInv
<1>1. CASE DisconnectAll
  <2>1. Shapes' /\ Dropped /\ Requests' /\ UNCHANGED <<work, heard>>
    BY <1>1, DisconnectAllShapes, RequestsDisconnectAll DEF DisconnectAll, DropUpstream
  <2>2. NamesKept /\ DOMAIN heard' = DOMAIN heard
    BY <2>1 DEF NamesKept
  <2>3. Named' /\ Telling' /\ OneHalt'
    BY <2>1, <2>2, NamedStays, TellingStays DEF Dropped, OneHalt
  <2>4. Known'
    BY <2>1, DroppedShapes, KnownStays DEF Dropped, Known
  <2> QED BY <2>1, <2>3, <2>4
<1>2. CASE Halt
  <2>1. Shapes' /\ Requests' /\ OneHalt' /\ UNCHANGED <<owned, fromNode, node, heard>>
    BY <1>2, HaltShapes, RequestsHalt DEF Halt
  <2>2. NamesKept /\ DOMAIN heard' = DOMAIN heard
    BY <2>1 DEF NamesKept
  <2>3. \A i \in DOMAIN work' : work'[i].do = "tell" => \E j \in DOMAIN work : work[j] = work'[i]
    BY <1>2, HaltTells
  <2>4. Named' /\ Telling'
    BY <2>1, <2>2, <2>3, NamedStays, TellingStays
  <2>5. Known'
    BY <2>1, <2>2, KnownSame
  <2> QED BY <2>1, <2>4, <2>5
<1> QED BY <1>1, <1>2 DEF OwnerStep

LEMMA SameWaitsStep ==
  ASSUME BaseInv, Shapes', Calm', ~Halting, UNCHANGED <<session, pending, asked>>
  PROVE  Requests' /\ OneHalt'
<1>1. ~Halting' /\ OneHalt'
  <2>1. OneHalt'
    BY DEF OneHalt, Calm
  <2>2. CASE work' = <<>>
    BY <2>1, <2>2 DEF Halting
  <2>3. CASE work' # <<>>
    <3>1. Head(work') = work'[1] /\ 1 \in DOMAIN work'
      BY <2>3, HeadTail DEF Shapes
    <3> QED BY <2>1, <3>1 DEF Calm, Halting
  <2> QED BY <2>2, <2>3, <2>1
<1>2. SameWaits
  BY DEF SameWaits
<1> QED BY <1>1, <1>2, RequestsStay DEF BaseInv

LEMMA HandleAnswerBase == ASSUME BaseInv, HandleAnswer PROVE BaseInv'
<1> USE DEF BaseInv
<1>1. Shapes' /\ Requests' /\ Calm' /\ Known'
  BY HandleAnswerShapes, RequestsHandleAnswer, HandleAnswerKnown
<1>2. OneHalt'
  BY <1>1 DEF OneHalt, Calm
<1>3. Named' /\ Telling'
  <2>1. CASE UNCHANGED <<owned, heard, work>>
    <3>1. NamesKept
      BY <2>1 DEF NamesKept
    <3> QED BY <2>1, <3>1, NamedStays, TellingStays
  <2>2. ASSUME NEW p \in pending, Mapped(p) PROVE Named' /\ Telling'
    BY <2>2, MappedNamed
  <2> QED BY <2>1, <2>2, HandleAnswerCases DEF Unknown, Relayed, Freed, Closed
<1> QED BY <1>1, <1>2, <1>3

LEMMA BrokerStepBase == ASSUME BaseInv, BrokerStep PROVE BaseInv'
<1> USE DEF BaseInv
<1>1. CASE HandleEvent
  <2>1. Shapes' /\ Telling' /\ Calm' /\ work = <<>> /\ fromNode # <<>> /\ fromNode' = Tail(fromNode)
    BY <1>1, HandleEventShapes, HandleEventNamed
  <2>2. UNCHANGED <<session, pending, owned, node, asked, heard>>
    BY <1>1 DEF HandleEvent
  <2>3. ~Halting /\ NamesKept
    BY <2>1, <2>2 DEF Halting, NamesKept
  <2>4. Requests' /\ OneHalt' /\ Named'
    BY <2>1, <2>2, <2>3, SameWaitsStep, NamedStays
  <2>5. \A i \in DOMAIN fromNode' : \E j \in DOMAIN fromNode : fromNode[j] = fromNode'[i]
    BY <2>1, FromNodeTail
  <2>6. Known'
    BY <2>1, <2>2, <2>5, KnownStays DEF Known
  <2> QED BY <2>1, <2>4, <2>6
<1>2. CASE Flush
  <2>1. Shapes' /\ Telling' /\ Calm' /\ UNCHANGED <<session, pending, owned, fromNode, node, asked, heard>>
    BY <1>2, FlushShapes, FlushNamed DEF Flush
  <2>2. ~Halting /\ NamesKept
    BY <1>2, <2>1 DEF Halting, NamesKept, Flush, Working
  <2>3. Requests' /\ OneHalt' /\ Named' /\ Known'
    BY <2>1, <2>2, SameWaitsStep, NamedStays, KnownSame
  <2> QED BY <2>1, <2>3
<1>3. CASE Route
  <2>1. Shapes' /\ Telling' /\ Calm' /\ owned' \subseteq owned
    BY <1>3, RouteShapes, RouteNamed
  <2>2. UNCHANGED <<session, pending, fromNode, node, asked, heard>>
    BY <1>3 DEF Route
  <2>3. ~Halting /\ NamesKept
    BY <1>3, <2>2 DEF Halting, NamesKept, Route, Working
  <2>4. Requests' /\ OneHalt' /\ Named' /\ Known'
    BY <2>1, <2>2, <2>3, SameWaitsStep, NamedStays, KnownSame
  <2> QED BY <2>1, <2>4
<1>4. CASE Tell
  <2>1. Shapes' /\ Telling' /\ Calm' /\ NamesKept /\ DOMAIN heard' = DOMAIN heard
    BY <1>4, TellShapes, TellNamed, TellNames
  <2>2. UNCHANGED <<session, pending, owned, fromNode, node, asked>> /\ ~Halting
    BY <1>4 DEF Tell, Working, Halting
  <2>3. Requests' /\ OneHalt' /\ Named' /\ Known'
    BY <2>1, <2>2, SameWaitsStep, NamedStays, KnownSame
  <2> QED BY <2>1, <2>3
<1>5. CASE HaltEnds
  <2>1. Shapes' /\ Dropped /\ Requests' /\ Calm' /\ UNCHANGED heard /\ Halting /\ work' = Tail(work)
    BY <1>5, HaltEndsShapes, RequestsHaltEnds DEF HaltEnds
  <2>2. NamesKept
    BY <2>1 DEF NamesKept
  <2>3. \A i \in DOMAIN work' : work'[i].do = "tell" => \E j \in DOMAIN work : work[j] = work'[i]
    <3>1. work # <<>> /\ work \in Seq(WorkItems)
      BY <2>1 DEF Halting, Shapes
    <3>2. \A i \in DOMAIN work' : i + 1 \in DOMAIN work /\ work[i + 1] = work'[i]
      BY <2>1, <3>1, HeadTail
    <3> QED BY <3>2
  <2>4. Named' /\ Telling' /\ OneHalt'
    BY <2>1, <2>2, <2>3, NamedStays, TellingStays DEF Dropped, OneHalt, Calm
  <2>5. Known'
    BY <2>1, DroppedShapes, KnownStays DEF Dropped, Known
  <2> QED BY <2>1, <2>4, <2>5
<1>6. ASSUME NEW s \in Sessions, HaltSession(s) PROVE BaseInv'
  <2>1. Shapes' /\ Requests' /\ NamesKept /\ DOMAIN heard' = DOMAIN heard
    BY <1>6, HaltSessionShapes, HaltSessionNames, RequestsHaltSession
  <2>2. UNCHANGED <<pending, owned, work, fromNode, node>>
    BY <1>6 DEF HaltSession
  <2>3. Named' /\ Telling' /\ OneHalt' /\ Known'
    BY <2>1, <2>2, NamedStays, TellingStays, KnownSame DEF OneHalt
  <2> QED BY <2>1, <2>3
<1> QED BY <1>1, <1>2, <1>3, <1>4, <1>5, <1>6, HandleAnswerBase DEF BrokerStep

LEMMA NodeStepBase == ASSUME BaseInv, NodeStep PROVE BaseInv'
<1> USE DEF BaseInv
<1>1. /\ Shapes' /\ Known' /\ ~Halting
      /\ UNCHANGED <<session, pending, owned, work, asked, heard>>
  <2>1. CASE NodeOpens
    BY <2>1, NodeOpensShapes, NodeOpensCases, NodeOpensKnown DEF NodeStep
  <2>2. CASE NodeReads
    BY <2>2, NodeReadsShapes, NodeReadsKnown DEF NodeStep
  <2>3. ASSUME NEW x \in node.subs, NEW ends \in BOOLEAN, NodeSends(x, ends)
        PROVE  /\ Shapes' /\ Known' /\ ~Halting
               /\ UNCHANGED <<session, pending, owned, work, asked, heard>>
    <3>1. x.token \in DOMAIN node.sent
      BY DEF Known
    <3> QED BY <2>3, <3>1, NodeSendsShapes, NodeSendsKnown DEF NodeStep
  <2> QED BY <2>1, <2>2, <2>3 DEF NodeStep
<1>2. NamesKept
  BY <1>1 DEF NamesKept
<1>3. Named' /\ Telling' /\ OneHalt'
  BY <1>1, <1>2, NamedStays, TellingStays DEF OneHalt
<1>4. ~Halting' /\ SameWaits
  BY <1>1 DEF Halting, SameWaits
<1>5. Requests'
  BY <1>1, <1>4, RequestsStay
<1> QED BY <1>1, <1>3, <1>5

LEMMA BaseInvNext == BaseInv /\ [Next]_vars => BaseInv'
<1> SUFFICES ASSUME BaseInv, [Next]_vars PROVE BaseInv'
  OBVIOUS
<1>1. CASE UNCHANGED vars
  BY <1>1 DEF BaseInv, vars, Shapes, Named, Telling, OneHalt, Requests, Known, Belongs, Backed, Served,
              Waits, Halting, KnownReply, KnownEvent
<1> QED BY <1>1, SessionStepBase, OwnerStepBase, BrokerStepBase, NodeStepBase DEF Next

LEMMA BaseInvariant == Spec => []BaseInv
BY BaseInvInit, BaseInvNext, PTL DEF Spec

\* Each request with an id is answered once, or its session is gone (handleUpstreamResponse,
\* answerHaltedSession).
THEOREM BrokerAnswersOnce == Spec => []AnsweredOnce
<1>1. BaseInv => AnsweredOnce
  <2> SUFFICES ASSUME BaseInv, NEW n \in DOMAIN asked
               PROVE  /\ asked[n].answers <= 1
                      /\ asked[n].withId /\ session[asked[n].session] = "open" => (asked[n].answers = 0 <=> Waits(n))
                      /\ asked[n].withId /\ session[asked[n].session] = "halted" => asked[n].answers = 1
    BY DEF AnsweredOnce, Waits
  <2>1. Served(n)
    BY DEF BaseInv, Requests
  <2> QED BY <2>1 DEF Served
<1> QED BY <1>1, BaseInvariant, PTL

\* What GoneIsQuiet says of one step.
QuietStep ==
  /\ \A l \in DOMAIN heard : /\ Gone(heard[l].session) => heard'[l] = heard[l]
                             /\ (\A o \in owned : o.local # l) /\ heard'[l].events # heard[l].events
                                  => heard'[l].ended
  /\ \A n \in DOMAIN asked : Gone(asked[n].session) => asked'[n] = asked[n]

LEMMA SilentStep ==
  ASSUME \A l \in DOMAIN heard : heard'[l] = heard[l], \A n \in DOMAIN asked : asked'[n] = asked[n]
  PROVE  QuietStep
BY DEF QuietStep

LEMMA AskedGrows ==
  ASSUME Shapes, NEW s \in Sessions, NEW withId \in BOOLEAN, NEW answers \in {0, 1},
         asked' = Asked(s, withId, answers)
  PROVE  \A n \in DOMAIN asked : asked'[n] = asked[n]
<1>1. answers \in Nat
  OBVIOUS
<1> QED BY <1>1, AskedShapes, AskedParts

LEMMA SessionsAreQuiet == ASSUME BaseInv, SessionStep PROVE QuietStep
<1> USE DEF BaseInv
<1>1. heard' = heard
  BY DEF SessionStep, Connect, Leave, LeaveHalting, Subscribe, Call, Release
<1>2. PICK s \in Sessions :
    \/ Connect(s) \/ Leave(s) \/ LeaveHalting(s)
    \/ \E kind \in Kinds, withId \in BOOLEAN : Subscribe(s, kind, withId)
    \/ \E l \in DOMAIN heard : Call(s, l)
    \/ \E l \in DOMAIN heard, withId \in BOOLEAN : Release(s, l, withId)
  BY DEF SessionStep
<1>3. \A n \in DOMAIN asked : asked'[n] = asked[n]
  <2>1. ASSUME NEW withId \in BOOLEAN, NEW method, NEW token, Forward(s, withId, method, token)
        PROVE  \A n \in DOMAIN asked : asked'[n] = asked[n]
    <3>1. asked' = Asked(s, withId, 0)
      BY <2>1 DEF Forward
    <3> QED BY <3>1, AskedGrows
  <2>2. ASSUME NEW withId \in BOOLEAN, AnswerHere(s, withId)
        PROVE  \A n \in DOMAIN asked : asked'[n] = asked[n]
    <3>1. PICK answers \in {0, 1} : answers = IF withId THEN 1 ELSE 0
      OBVIOUS
    <3>2. asked' = Asked(s, withId, answers)
      BY <2>2, <3>1 DEF AnswerHere
    <3> QED BY <3>2, AskedGrows
  <2>3. CASE Connect(s) \/ Leave(s) \/ LeaveHalting(s)
    BY <2>3 DEF Connect, Leave, LeaveHalting
  <2>4. ASSUME NEW kind \in Kinds, NEW withId \in BOOLEAN, Subscribe(s, kind, withId)
        PROVE  \A n \in DOMAIN asked : asked'[n] = asked[n]
    BY <2>1, <2>4 DEF Subscribe
  <2>5. ASSUME NEW l \in DOMAIN heard, Call(s, l) PROVE \A n \in DOMAIN asked : asked'[n] = asked[n]
    BY <2>1, <2>2, <2>5 DEF Call
  <2>6. ASSUME NEW l \in DOMAIN heard, NEW withId \in BOOLEAN, Release(s, l, withId)
        PROVE  \A n \in DOMAIN asked : asked'[n] = asked[n]
    BY <2>1, <2>2, <2>6 DEF Release
  <2> QED BY <1>2, <2>3, <2>4, <2>5, <2>6
<1> QED BY <1>1, <1>3, SilentStep

\* An answer reaches an open session only.
LEMMA AnswersAreQuiet == ASSUME BaseInv, HandleAnswer PROVE QuietStep
<1> USE DEF BaseInv
<1>1. ASSUME NEW p \in pending, p.owner.kind = "session", Answered(p.owner.client)
      PROVE  \A n \in DOMAIN asked : Gone(asked[n].session) => asked'[n] = asked[n]
  <2>1. work = <<>>
    BY HandleAnswerCases
  <2>2. Backed(p) /\ ~Halting
    BY <1>1, <2>1 DEF Requests, Halting
  <2>3. ~Gone(asked[p.owner.client].session)
    BY <2>2 DEF Backed, Gone
  <2>4. PICK n : n = p.owner.client
    OBVIOUS
  <2>5. \A k \in 1 .. Len(asked) : k # n => asked'[k] = asked[k]
    <3>1. Answered(n)
      BY <1>1, <2>4 DEF Answered
    <3> QED BY <3>1, AnsweredShapes
  <2>6. DOMAIN asked = 1 .. Len(asked)
    BY AskedParts
  <2> QED BY <2>3, <2>4, <2>5, <2>6
<1>2. \A l \in DOMAIN heard : heard'[l] = heard[l]
  BY HandleAnswerCases, MappedNames DEF Unknown, Relayed, Freed, Closed
<1>3. \A n \in DOMAIN asked : Gone(asked[n].session) => asked'[n] = asked[n]
  BY <1>1, HandleAnswerCases DEF Unknown, Relayed, Freed, Closed, Mapped, AnswerSession
<1> QED BY <1>2, <1>3 DEF QuietStep

\* The halt is told to the sessions it took out.
LEMMA HaltIsQuiet == ASSUME BaseInv, NEW s \in Sessions, HaltSession(s) PROVE QuietStep
<1> USE DEF BaseInv
<1>1. ~Gone(s)
  BY DEF HaltSession, Gone
<1>2. ASSUME NEW l \in DOMAIN heard, Gone(heard[l].session) PROVE heard'[l] = heard[l]
  <2>1. \A o \in owned : ~(o.local = l /\ o.session = s)
    BY <1>1, <1>2 DEF Named, Belongs
  <2>2. PICK b : b = (heard[l].ended \/ \E o \in owned : o.local = l /\ o.session = s /\ o.kind = "follow")
    OBVIOUS
  <2>3. heard'[l] = [heard[l] EXCEPT !.ended = b]
    BY <2>2 DEF HaltSession
  <2>4. heard[l] \in Hearings /\ heard[l].ended \in BOOLEAN
    BY HeardParts DEF Hearings
  <2>5. b = heard[l].ended
    BY <2>1, <2>2, <2>4, Zenon
  <2> QED BY <2>3, <2>4, <2>5 DEF Hearings
<1>3. ASSUME NEW n \in DOMAIN asked, Gone(asked[n].session) PROVE asked'[n] = asked[n]
  <2>1. ~HaltAnswers(s, n)
    <3>1. \A p \in pending : p.owner.session = s => p.owner.kind = "session"
      BY NamesApart DEF Shapes, Pendings, Owners
    <3>2. \A p \in pending : p.owner.kind = "session" => asked[p.owner.client].session = p.owner.session
      BY DEF Requests, Backed
    <3> QED BY <1>1, <1>3, <3>1, <3>2 DEF HaltAnswers
  <2>2. asked'[n] = [asked[n] EXCEPT !.answers = IF HaltAnswers(s, n) THEN @ + 1 ELSE @]
    BY DEF HaltSession
  <2>3. asked[n] \in Askings
    BY AskedParts
  <2> QED BY <2>1, <2>2, <2>3 DEF Askings
<1>4. \A l \in DOMAIN heard : heard'[l].events = heard[l].events
  BY HaltSessionNames
<1> QED BY <1>2, <1>3, <1>4 DEF QuietStep

\* An event is told to an open session, and once nobody holds it only the last one is.
LEMMA TellingIsQuiet == ASSUME BaseInv, Tell PROVE QuietStep
<1> USE DEF BaseInv
<1>1. PICK o : o = work[1].owned
  OBVIOUS
<1>2. PICK e : e = work[1].event
  OBVIOUS
<1>3. /\ asked' = asked
      /\ \A l \in DOMAIN heard :
           IF Tells(o, e) /\ l = o.local
           THEN /\ heard'[l].events = Append(heard[l].events, e.number)
                /\ heard'[l].ended = (heard[l].ended \/ e.ends)
           ELSE heard'[l] = heard[l]
  <2>1. asked' = asked
    BY DEF Tell
  <2>2. \A l \in DOMAIN heard :
          IF Tells(work[1].owned, work[1].event) /\ l = work[1].owned.local
          THEN /\ heard'[l].events = Append(heard[l].events, work[1].event.number)
               /\ heard'[l].ended = (heard[l].ended \/ work[1].event.ends)
          ELSE heard'[l] = heard[l]
    BY TellNames
  <2> QED BY <1>1, <1>2, <2>1, <2>2
<1>4. Belongs(o)
  <2>1. work[1].do = "tell" /\ 1 \in DOMAIN work
    BY WorkHead DEF Tell
  <2> QED BY <1>1, <2>1 DEF Telling
<1>5. ASSUME NEW l \in DOMAIN heard, Gone(heard[l].session) PROVE heard'[l] = heard[l]
  BY <1>3, <1>4, <1>5 DEF Tells, Belongs, Gone
<1>6. ASSUME NEW l \in DOMAIN heard, \A x \in owned : x.local # l, heard'[l].events # heard[l].events
      PROVE  heard'[l].ended
  <2>1. Tells(o, e) /\ l = o.local
    BY <1>3, <1>6
  <2>2. e.ends
    BY <1>6, <2>1 DEF Tells
  <2>3. heard'[l].ended = (heard[l].ended \/ e.ends)
    BY <1>3, <2>1
  <2> QED BY <2>2, <2>3
<1> QED BY <1>3, <1>5, <1>6 DEF QuietStep

LEMMA EveryStepIsQuiet == BaseInv /\ [Next]_vars => [QuietStep]_vars
<1> SUFFICES ASSUME BaseInv, Next PROVE QuietStep
  OBVIOUS
<1>1. ASSUME heard' = heard, asked' = asked PROVE QuietStep
  BY <1>1, SilentStep
<1>2. CASE OwnerStep
  BY <1>1, <1>2 DEF OwnerStep, DisconnectAll, Halt
<1>3. CASE NodeStep
  BY <1>1, <1>3 DEF NodeStep, NodeOpens, NodeReads, NodeSends
<1>4. CASE HandleEvent \/ Flush \/ Route \/ HaltEnds
  BY <1>1, <1>4 DEF HandleEvent, Flush, Route, HaltEnds
<1> QED BY <1>2, <1>3, <1>4, SessionsAreQuiet, AnswersAreQuiet, HaltIsQuiet, TellingIsQuiet DEF Next, BrokerStep

\* A session that is gone hears and is answered nothing more, and nothing is heard of a released
\* subscription but the final event whose delivery had begun (handleUpstreamSubscription, answerSession).
THEOREM BrokerGoneIsQuiet == Spec => GoneIsQuiet
<1>1. QuietStep <=>
        /\ \A l \in DOMAIN heard : /\ Gone(heard[l].session) => heard'[l] = heard[l]
                                   /\ (\A o \in owned : o.local # l) /\ heard'[l].events # heard[l].events
                                        => heard'[l].ended
        /\ \A n \in DOMAIN asked : Gone(asked[n].session) => asked'[n] = asked[n]
  BY DEF QuietStep
<1>2. BaseInv /\ [Next]_vars => [QuietStep]_vars
  BY EveryStepIsQuiet
<1> QED BY <1>1, <1>2, BaseInvariant, PTL DEF Spec, GoneIsQuiet

----------------------------------------------------------------------------
(* What runs at the node.  A request is in one place until it is           *)
(* answered: on its way to the node or its answer on the way back, under   *)
(* the id of the pending request it belongs to.                            *)

Numbered ==
  /\ \A p \in pending : p.id \in 1 .. counter /\ (p.owner.kind = "release" => p.owner.method \in Releases)
  /\ \A p, q \in pending : p.id = q.id => p = q

\* A query under an id is pending.  Only a call or an unwatch has none.
Pends(q, P) == q.id # 0 => \E p \in P : p.id = q.id /\ p.owner.method = q.method
Querying ==
  /\ \A i \in DOMAIN toNode : /\ toNode[i].id \in 0 .. counter /\ Pends(toNode[i], pending)
                              /\ toNode[i].id = 0 => toNode[i].method \notin Kinds \cup {"unfollow"}
  /\ \A i, j \in DOMAIN toNode : toNode[i].id # 0 /\ toNode[i].id = toNode[j].id => i = j

Answering ==
  /\ \A j \in DOMAIN fromNode : fromNode[j].msg = "answer" =>
       fromNode[j].id \in 1 .. counter /\ \A i \in DOMAIN toNode : toNode[i].id # fromNode[j].id
  /\ \A i, j \in DOMAIN fromNode :
       fromNode[i].msg = "answer" /\ fromNode[j].msg = "answer" /\ fromNode[i].id = fromNode[j].id => i = j

Ids == Numbered /\ Querying /\ Answering

\* The replies that are still to be read, k of the oldest read.
Reads(k) == \A i \in DOMAIN fromNode' : i + k \in DOMAIN fromNode /\ fromNode'[i] = fromNode[i + k]

LEMMA ReadsOne == ASSUME Shapes, fromNode # <<>>, fromNode' = Tail(fromNode) PROVE Reads(1)
BY FromNodeTail DEF Reads

LEMMA ReadsNone == ASSUME Shapes, fromNode' = fromNode PROVE Reads(0)
<1>1. \A i \in DOMAIN fromNode : i + 0 = i
  BY DEF Shapes
<1> QED BY <1>1 DEF Reads

LEMMA IdParts ==
  ASSUME Shapes
  PROVE  /\ counter \in Nat /\ DOMAIN toNode = 1 .. Len(toNode) /\ Len(toNode) \in Nat
         /\ DOMAIN fromNode = 1 .. Len(fromNode) /\ Len(fromNode) \in Nat
         /\ \A p \in pending : p \in Pendings /\ p.id \in Nat /\ p.owner \in Owners
         /\ \A i \in DOMAIN toNode : toNode[i] \in Queries /\ toNode[i].id \in Nat
         /\ \A i \in DOMAIN fromNode : fromNode[i] \in Replies /\ (fromNode[i].msg = "answer" => fromNode[i].id \in Nat)
<1>1. \A p \in Pendings : p.id \in Nat /\ p.owner \in Owners
  BY DEF Pendings
<1>2. \A q \in Queries : q.id \in Nat
  BY DEF Queries
<1>3. \A m \in Replies : m.msg = "answer" => m.id \in Nat
  BY DEF Replies
<1>4. toNode \in Seq(Queries) /\ fromNode \in Seq(Replies) /\ pending \subseteq Pendings /\ counter \in Nat
  BY DEF Shapes
<1> QED BY <1>1, <1>2, <1>3, <1>4

\* Requests are tracked after `left`, which keeps the ids of the queries on their way.
LEMMA TrackIds ==
  ASSUME Shapes, Ids, Shapes', NEW left \in SUBSET Pendings, IsFiniteSet(left),
         NEW owners \in Seq(Owners), Track(left, owners),
         \A p, q \in left : p.id = q.id => p = q,
         \A q \in left : \E p \in pending :
           p.id = q.id /\ p.owner.method = q.owner.method /\ (q.owner.kind = "release" => p.owner.kind = "release"),
         \A i \in DOMAIN toNode, p \in pending : p.id = toNode[i].id =>
           \E q \in left : q.id = p.id /\ q.owner.method = p.owner.method,
         \A i \in 1 .. Len(owners) : owners[i].kind = "release" => owners[i].method \in Releases,
         NEW k \in {0, 1}, Reads(k)
  PROVE  Ids'
<1>1. PICK n \in Nat : n = Len(owners)
  OBVIOUS
<1>2. PICK more : more = Tracked(counter, owners)
  OBVIOUS
<1>3. /\ pending' = left \cup more /\ counter' = counter + n /\ Len(toNode') = Len(toNode) + n
      /\ \A i \in 1 .. Len(toNode) : toNode'[i] = toNode[i]
      /\ \A i \in 1 .. n : toNode'[Len(toNode) + i] =
           [id |-> counter + i, method |-> owners[i].method, token |-> owners[i].token]
  BY <1>1, <1>2, TrackAdds
<1>4. /\ \A p \in more : p.id \in counter + 1 .. counter + n /\ p.owner = owners[p.id - counter]
      /\ \A i \in 1 .. n : [id |-> counter + i, owner |-> owners[i]] \in more
      /\ more \subseteq Pendings
  BY <1>1, <1>2, TrackedIsFinite, IdParts
<1>5. \A p \in more : p = [id |-> p.id, owner |-> p.owner]
  BY <1>4 DEF Pendings
<1>6. /\ counter \in Nat /\ DOMAIN toNode = 1 .. Len(toNode) /\ Len(toNode) \in Nat
      /\ DOMAIN toNode' = 1 .. Len(toNode')
  BY IdParts DEF Shapes
<1>7. \A q \in left : q.id \in 1 .. counter
  BY DEF Ids, Numbered
<1>8. Numbered'
  <2>1. ASSUME NEW p \in more PROVE p.id \in 1 .. counter' /\ (p.owner.kind = "release" => p.owner.method \in Releases)
    <3>1. p.id - counter \in 1 .. n
      BY <1>4, <1>6
    <3> QED BY <1>1, <1>3, <1>4, <1>6, <3>1
  <2>2. ASSUME NEW p \in left PROVE p.id \in 1 .. counter' /\ (p.owner.kind = "release" => p.owner.method \in Releases)
    BY <1>3, <1>6, <1>7 DEF Ids, Numbered
  <2>3. \A p, q \in more : p.id = q.id => p = q
    BY <1>4, <1>5
  <2>4. \A p \in more, q \in left : p.id # q.id
    BY <1>4, <1>6, <1>7
  <2> QED BY <1>3, <2>1, <2>2, <2>3, <2>4 DEF Numbered
<1>9. ASSUME NEW i \in DOMAIN toNode'
      PROVE  \/ i \in DOMAIN toNode /\ toNode'[i] = toNode[i]
             \/ \E j \in 1 .. n : i = Len(toNode) + j
                  /\ toNode'[i] = [id |-> counter + j, method |-> owners[j].method, token |-> owners[j].token]
  <2>1. i \in 1 .. Len(toNode) \/ i - Len(toNode) \in 1 .. n
    BY <1>3, <1>6
  <2>2. CASE i \in 1 .. Len(toNode)
    BY <1>3, <1>6, <2>2
  <2>3. CASE i - Len(toNode) \in 1 .. n
    <3>1. PICK j \in 1 .. n : i = Len(toNode) + j
      BY <1>6, <2>3
    <3> QED BY <1>3, <3>1
  <2> QED BY <2>1, <2>2, <2>3
<1>10. Querying'
  <2>1. ASSUME NEW i \in DOMAIN toNode, toNode'[i] = toNode[i]
        PROVE  /\ toNode'[i].id \in 0 .. counter' /\ Pends(toNode'[i], pending')
               /\ toNode'[i].id = 0 => toNode'[i].method \notin Kinds \cup {"unfollow"}
    <3>1. toNode[i].id \in 0 .. counter' /\ (toNode[i].id = 0 => toNode[i].method \notin Kinds \cup {"unfollow"})
      BY <1>3, <1>6 DEF Ids, Querying
    <3>2. Pends(toNode[i], pending)
      BY DEF Ids, Querying
    <3>3. Pends(toNode[i], pending')
      BY <1>3, <3>2 DEF Pends
    <3> QED BY <2>1, <3>1, <3>3
  <2>2. ASSUME NEW i, NEW j \in 1 .. n,
               toNode'[i] = [id |-> counter + j, method |-> owners[j].method, token |-> owners[j].token]
        PROVE  /\ toNode'[i].id \in 0 .. counter' /\ Pends(toNode'[i], pending')
               /\ toNode'[i].id = 0 => toNode'[i].method \notin Kinds \cup {"unfollow"}
    <3>1. toNode'[i].id = counter + j /\ toNode'[i].method = owners[j].method
      BY <2>2
    <3>2. PICK p \in more : p = [id |-> counter + j, owner |-> owners[j]]
      BY <1>4
    <3>3. p.id = counter + j /\ p.owner = owners[j]
      BY <3>2
    <3> QED BY <1>3, <1>6, <3>1, <3>3 DEF Pends
  <2>3. ASSUME NEW i \in DOMAIN toNode', NEW j \in DOMAIN toNode', toNode'[i].id # 0, toNode'[i].id = toNode'[j].id
        PROVE  i = j
    <3>1. \A h \in DOMAIN toNode : toNode[h].id <= counter
      BY <1>6 DEF Ids, Querying
    <3>2. ASSUME NEW h \in DOMAIN toNode', h \notin DOMAIN toNode
          PROVE  toNode'[h].id = counter + (h - Len(toNode)) /\ h - Len(toNode) >= 1
      <4>1. PICK l \in 1 .. n : /\ h = Len(toNode) + l
                               /\ toNode'[h] = [id |-> counter + l, method |-> owners[l].method, token |-> owners[l].token]
        BY <1>9, <3>2
      <4>2. toNode'[h].id = counter + l /\ h - Len(toNode) = l
        BY <1>6, <4>1
      <4> QED BY <4>2
    <3>3. CASE i \in DOMAIN toNode /\ j \in DOMAIN toNode
      BY <1>3, <1>6, <2>3, <3>3 DEF Ids, Querying
    <3> QED BY <1>3, <1>6, <2>3, <3>1, <3>2, <3>3
  <2> QED BY <1>9, <2>1, <2>2, <2>3 DEF Querying
<1>11. Answering'
  <2>1. ASSUME NEW i \in DOMAIN fromNode', fromNode'[i].msg = "answer"
        PROVE  fromNode'[i].id \in 1 .. counter' /\ \A j \in DOMAIN toNode' : toNode'[j].id # fromNode'[i].id
    <3>1. i + k \in DOMAIN fromNode /\ fromNode'[i] = fromNode[i + k]
      BY DEF Reads
    <3>2. fromNode[i + k].id \in 1 .. counter /\ \A j \in DOMAIN toNode : toNode[j].id # fromNode[i + k].id
      BY <2>1, <3>1 DEF Ids, Answering
    <3>3. ASSUME NEW j \in DOMAIN toNode' PROVE toNode'[j].id # fromNode'[i].id
      <4>1. ASSUME NEW h \in 1 .. n, toNode'[j].id = counter + h PROVE toNode'[j].id # fromNode'[i].id
        BY <1>6, <3>1, <3>2, <4>1
      <4> QED BY <1>9, <3>1, <3>2, <4>1
    <3> QED BY <1>3, <1>6, <3>1, <3>2, <3>3
  <2>2. ASSUME NEW i \in DOMAIN fromNode', NEW j \in DOMAIN fromNode', fromNode'[i].msg = "answer",
               fromNode'[j].msg = "answer", fromNode'[i].id = fromNode'[j].id
        PROVE  i = j
    <3>1. /\ i + k \in DOMAIN fromNode /\ fromNode'[i] = fromNode[i + k] /\ i \in Nat
          /\ j + k \in DOMAIN fromNode /\ fromNode'[j] = fromNode[j + k] /\ j \in Nat
      <4>1. DOMAIN fromNode' = 1 .. Len(fromNode')
        BY DEF Shapes
      <4> QED BY <4>1 DEF Reads
    <3>2. i + k = j + k
      BY <2>2, <3>1 DEF Ids, Answering
    <3> QED BY <3>1, <3>2
  <2> QED BY <2>1, <2>2 DEF Answering
<1> QED BY <1>8, <1>10, <1>11 DEF Ids

\* A request goes upstream under no id.
LEMMA UntrackedIds ==
  ASSUME Shapes, Ids, Shapes', UNCHANGED <<pending, counter, fromNode>>, NEW method \in Methods, NEW token \in Names,
         method \notin Kinds \cup {"unfollow"},
         toNode' = Append(toNode, [id |-> 0, method |-> method, token |-> token])
  PROVE  Ids'
<1>1. PICK q : q = [id |-> 0, method |-> method, token |-> token]
  OBVIOUS
<1>2. q \in Queries /\ q.id = 0 /\ q.method = method
  BY <1>1 DEF Queries
<1>3. toNode' = Append(toNode, q) /\ toNode \in Seq(Queries)
  BY <1>1 DEF Shapes
<1>4. /\ DOMAIN toNode = 1 .. Len(toNode) /\ Len(toNode) \in Nat /\ DOMAIN toNode' = 1 .. Len(toNode) + 1
      /\ toNode'[Len(toNode) + 1] = q /\ \A i \in 1 .. Len(toNode) : toNode'[i] = toNode[i]
  BY <1>2, <1>3, Appended
<1>5. \A i \in DOMAIN toNode' : (i \in DOMAIN toNode /\ toNode'[i] = toNode[i]) \/ toNode'[i] = q
  BY <1>4
<1>6. counter \in Nat /\ \A j \in DOMAIN fromNode : fromNode[j].msg = "answer" => fromNode[j].id # 0
  BY IdParts DEF Ids, Answering
<1>7. Numbered'
  BY DEF Ids, Numbered
<1>8. Querying'
  <2>1. ASSUME NEW i \in DOMAIN toNode'
        PROVE  /\ toNode'[i].id \in 0 .. counter' /\ Pends(toNode'[i], pending')
               /\ toNode'[i].id = 0 => toNode'[i].method \notin Kinds \cup {"unfollow"}
    BY <1>2, <1>5, <1>6 DEF Ids, Querying, Pends
  <2>2. \A i, j \in DOMAIN toNode' : toNode'[i].id # 0 /\ toNode'[i].id = toNode'[j].id => i = j
    BY <1>2, <1>5 DEF Ids, Querying
  <2> QED BY <2>1, <2>2 DEF Querying
<1>9. Answering'
  BY <1>2, <1>5, <1>6 DEF Ids, Answering
<1> QED BY <1>7, <1>8, <1>9 DEF Ids

LEMMA QuietIds == ASSUME Ids, UNCHANGED <<pending, counter, toNode, fromNode>> PROVE Ids'
BY DEF Ids, Numbered, Querying, Answering

LEMMA EmptyIds == ASSUME Shapes', pending' = {}, toNode' = <<>>, fromNode' = <<>> PROVE Ids'
BY DEF Ids, Numbered, Querying, Answering

\* An answer, or an event, is taken off the link, and the request it was for with it.
LEMMA TakeIds ==
  ASSUME Shapes, Ids, Shapes', UNCHANGED <<counter, toNode>>, fromNode # <<>>, fromNode' = Tail(fromNode),
         \/ pending' = pending
         \/ Reply.msg = "answer" /\ \E p \in pending : p.id = Reply.id /\ pending' = pending \ {p}
  PROVE  Ids'
<1>1. Reads(1)
  BY ReadsOne
<1>2. pending' \subseteq pending
  OBVIOUS
<1>3. Numbered'
  BY <1>2 DEF Ids, Numbered
<1>4. 1 \in DOMAIN fromNode /\ Reply = fromNode[1]
  BY HeadTail DEF Shapes, Reply
<1>5. ASSUME NEW q \in pending, q \notin pending' PROVE \A i \in DOMAIN toNode : toNode[i].id # q.id
  BY <1>4, <1>5 DEF Ids, Answering
<1>6. Querying'
  <2>1. ASSUME NEW i \in DOMAIN toNode PROVE Pends(toNode[i], pending')
    <3>1. Pends(toNode[i], pending)
      BY DEF Ids, Querying
    <3> QED BY <1>5, <3>1 DEF Pends
  <2> QED BY <2>1 DEF Ids, Querying
<1>7. Answering'
  <2>1. \A i \in DOMAIN fromNode' : i \in Nat
    BY DEF Shapes
  <2>2. \A i, j \in Nat : i + 1 = j + 1 => i = j
    OBVIOUS
  <2> QED BY <1>1, <2>1, <2>2 DEF Ids, Answering, Reads
<1> QED BY <1>3, <1>6, <1>7 DEF Ids

\* The node reads a request and answers under its id, or sends events.
LEMMA ReadIds ==
  ASSUME Shapes, Ids, Shapes', UNCHANGED <<pending, counter>>, toNode # <<>>, toNode' = Tail(toNode), NEW last,
         \A i \in DOMAIN fromNode' : \/ i \in DOMAIN fromNode /\ fromNode'[i] = fromNode[i]
                                     \/ fromNode'[i].msg = "event"
                                     \/ i = last /\ Query.id # 0 /\ fromNode'[i].id = Query.id
  PROVE  Ids'
<1>1. /\ 1 \in DOMAIN toNode /\ Query = toNode[1] /\ Query.id \in Nat
      /\ \A i \in DOMAIN toNode' : i + 1 \in DOMAIN toNode /\ toNode'[i] = toNode[i + 1] /\ i \in Nat /\ i + 1 # 1
  <2>1. /\ Tail(toNode) \in Seq(Queries) /\ Len(toNode) \in Nat /\ Len(Tail(toNode)) = Len(toNode) - 1
        /\ \A i \in 1 .. Len(toNode) - 1 : Tail(toNode)[i] = toNode[i + 1]
        /\ Query.id \in Nat
    BY QueryShapes
  <2>2. DOMAIN toNode = 1 .. Len(toNode) /\ DOMAIN Tail(toNode) = 1 .. Len(toNode) - 1
    BY <2>1 DEF Shapes
  <2>3. 1 \in DOMAIN toNode
    BY HeadTail DEF Shapes
  <2> QED BY <2>1, <2>2, <2>3 DEF Query
<1>2. Numbered'
  BY DEF Ids, Numbered
<1>3. Querying'
  <2>1. \A i, j \in DOMAIN toNode' : i + 1 = j + 1 => i = j
    BY <1>1
  <2> QED BY <1>1, <2>1 DEF Ids, Querying
<1>4. Query.id \in 0 .. counter /\ counter \in Nat
  BY <1>1, IdParts DEF Ids, Querying
<1>5. Answering'
  <2>1. ASSUME NEW i \in DOMAIN fromNode', fromNode'[i].msg = "answer"
        PROVE  fromNode'[i].id \in 1 .. counter /\ \A j \in DOMAIN toNode' : toNode'[j].id # fromNode'[i].id
    <3>1. CASE i \in DOMAIN fromNode /\ fromNode'[i] = fromNode[i]
      BY <1>1, <2>1, <3>1 DEF Ids, Answering
    <3>2. CASE Query.id # 0 /\ fromNode'[i].id = Query.id
      <4>1. \A j \in DOMAIN toNode' : toNode'[j].id # Query.id
        BY <1>1, <3>2 DEF Ids, Querying
      <4> QED BY <1>4, <3>2, <4>1
    <3> QED BY <2>1, <3>1, <3>2
  <2>2. ASSUME NEW i \in DOMAIN fromNode', NEW j \in DOMAIN fromNode', fromNode'[i].msg = "answer",
               fromNode'[j].msg = "answer", fromNode'[i].id = fromNode'[j].id
        PROVE  i = j
    BY <1>1, <2>2 DEF Ids, Answering
  <2> QED BY <2>1, <2>2 DEF Answering
<1> QED BY <1>2, <1>3, <1>5 DEF Ids

\* The node sends events.
LEMMA SendIds ==
  ASSUME Shapes, Ids, UNCHANGED <<pending, counter, toNode>>,
         \A i \in DOMAIN fromNode' : \/ i \in DOMAIN fromNode /\ fromNode'[i] = fromNode[i]
                                     \/ fromNode'[i].msg = "event"
  PROVE  Ids'
BY DEF Ids, Numbered, Querying, Answering

\* What the node may have told of a request that opens a subscription.
Opened(t) ==
  \/ t = None /\ node' = node
  \/ \E x \in node.subs : t = x.token /\ x.kind = Query.method /\ node' = node
  \/ /\ t = NewToken /\ DOMAIN node'.sent = DOMAIN node.sent \cup {NewToken} /\ node'.lost = node.lost
     /\ node'.subs = node.subs \/ node'.subs = node.subs \cup {Sub(NewToken, Query.method)}
  \/ /\ t = None /\ DOMAIN node'.sent = DOMAIN node.sent \cup {NewToken}
     /\ node'.lost = node.lost \cup {NewToken}
     /\ node'.subs = node.subs \cup {Sub(NewToken, Query.method)}

\* The replies already on the way, and the answer at `last`.
Replied(last, t) ==
  /\ last \in DOMAIN fromNode' /\ last \notin DOMAIN fromNode /\ fromNode'[last] = AnswerMsg(Query.id, t)
  /\ \A i \in DOMAIN fromNode : i \in DOMAIN fromNode' /\ fromNode'[i] = fromNode[i]
  /\ \A i \in DOMAIN fromNode' :
       \/ i \in DOMAIN fromNode
       \/ i = last
       \/ /\ fromNode'[i].msg = "event" /\ fromNode'[i].event.token = NewToken
          /\ NewToken \in DOMAIN node'.sent /\ (fromNode'[i].event.ends => node'.subs = node.subs)

LEMMA AppendReplies ==
  ASSUME Shapes, NEW id \in Nat, NEW t \in Names, id = Query.id, fromNode' = Append(fromNode, AnswerMsg(id, t))
  PROVE  Replied(Len(fromNode) + 1, t)
<1>1. fromNode \in Seq(Replies) /\ AnswerMsg(id, t) \in Replies
  BY MessageShapes DEF Shapes
<1>2. DOMAIN fromNode = 1 .. Len(fromNode) /\ Len(fromNode) \in Nat /\ DOMAIN fromNode' = 1 .. Len(fromNode) + 1
  BY <1>1, Appended
<1>3. fromNode'[Len(fromNode) + 1] = AnswerMsg(id, t) /\ \A i \in 1 .. Len(fromNode) : fromNode'[i] = fromNode[i]
  BY <1>1, Appended
<1> QED BY <1>2, <1>3 DEF Replied

LEMMA NodeOpensReplies ==
  ASSUME Shapes, Shapes', NodeOpens
  PROVE  \E t \in Names : \E last \in DOMAIN fromNode' : Replied(last, t) /\ Opened(t)
<1>1. Query.id \in Nat /\ Query.method \in Kinds /\ NewToken \in Names /\ None \in Names /\ NewToken \in Nat
  BY NodeOpensCases, QueryShapes, NodeShapes DEF Names
<1>2. fromNode \in Seq(Replies) /\ DOMAIN fromNode = 1 .. Len(fromNode) /\ Len(fromNode) \in Nat
  BY DEF Shapes
<1>3. ASSUME NEW t \in Names, Opened(t), fromNode' = Append(fromNode, AnswerMsg(Query.id, t))
      PROVE  \E last \in DOMAIN fromNode' : Replied(last, t) /\ Opened(t)
  <2>1. Replied(Len(fromNode) + 1, t)
    BY <1>1, <1>3, AppendReplies
  <2> QED BY <1>3, <2>1 DEF Replied
<1>4. ASSUME NEW k \in Nat, node'.sent = Append(node.sent, k)
      PROVE  DOMAIN node'.sent = DOMAIN node.sent \cup {NewToken}
  <2>1. DOMAIN node.sent = 1 .. Len(node.sent) /\ Len(node.sent) \in Nat
    BY SentParts
  <2>2. DOMAIN node'.sent = 1 .. Len(node.sent) + 1 /\ NewToken = Len(node.sent) + 1
    BY <1>4, SentAppended
  <2> QED BY <2>1, <2>2
<1>5. CASE Refuses
  BY <1>1, <1>3, <1>5 DEF Refuses, Opened
<1>6. CASE Runs
  <2>1. node'.subs = node.subs \cup {Sub(NewToken, Query.method)} /\ node'.lost = node.lost
        /\ node'.sent = Append(node.sent, 0)
    BY <1>6, NodeOpensShapes
  <2>2. Opened(NewToken)
    BY <1>4, <2>1 DEF Opened
  <2> QED BY <1>1, <1>3, <1>6, <2>2 DEF Runs
<1>7. CASE Garbles
  <2>1. node'.subs = node.subs \cup {Sub(NewToken, Query.method)} /\ node'.lost = node.lost \cup {NewToken}
        /\ node'.sent = Append(node.sent, 0)
    BY <1>7, NodeOpensShapes
  <2>2. Opened(None)
    BY <1>4, <2>1 DEF Opened
  <2> QED BY <1>1, <1>3, <1>7, <2>2 DEF Garbles
<1>8. ASSUME NEW x \in node.subs, SharesOne(x)
      PROVE  \E t \in Names : \E last \in DOMAIN fromNode' : Replied(last, t) /\ Opened(t)
  <2>1. x.token \in Names
    BY NodeShapes DEF Subs, Names
  <2>2. Opened(x.token)
    BY <1>8 DEF Opened, SharesOne
  <2> QED BY <1>3, <1>8, <2>1, <2>2 DEF SharesOne
<1>9. ASSUME NEW ends \in BOOLEAN, RunsEarly(ends)
      PROVE  \E t \in Names : \E last \in DOMAIN fromNode' : Replied(last, t) /\ Opened(t)
  <2>1. node'.subs = (IF ends THEN node.subs ELSE node.subs \cup {Sub(NewToken, Query.method)})
        /\ node'.lost = node.lost /\ node'.sent = Append(node.sent, 1)
    BY <1>9, NodeOpensShapes
  <2>2. Opened(NewToken)
    BY <1>4, <2>1 DEF Opened
  <2>3. PICK e : e = EventMsg(NewToken, 1, ends)
    OBVIOUS
  <2>4. PICK m : m = AnswerMsg(Query.id, NewToken)
    OBVIOUS
  <2>5. e \in Replies /\ m \in Replies
    BY <1>1, <2>3, <2>4, MessageShapes
  <2>6. <<e, m>> \in Seq(Replies) /\ Len(<<e, m>>) = 2 /\ <<e, m>>[1] = e /\ <<e, m>>[2] = m
    BY <2>5
  <2>7. fromNode' = fromNode \o <<e, m>>
    BY <1>9, <2>3, <2>4 DEF RunsEarly
  <2>8. /\ Len(fromNode') = Len(fromNode) + 2 /\ DOMAIN fromNode' = 1 .. Len(fromNode) + 2
        /\ \A i \in 1 .. Len(fromNode) : fromNode'[i] = fromNode[i]
        /\ fromNode'[Len(fromNode) + 1] = e /\ fromNode'[Len(fromNode) + 2] = m
    BY <1>2, <2>6, <2>7, ConcatProperties
  <2>9. e.msg = "event" /\ e.event.token = NewToken /\ e.event.ends = ends
    BY <2>3 DEF EventMsg
  <2>10. ASSUME NEW i \in DOMAIN fromNode', i \notin DOMAIN fromNode, i # Len(fromNode) + 2
         PROVE  /\ fromNode'[i].msg = "event" /\ fromNode'[i].event.token = NewToken
                /\ NewToken \in DOMAIN node'.sent /\ (fromNode'[i].event.ends => node'.subs = node.subs)
    <3>1. i = Len(fromNode) + 1
      BY <1>2, <2>8, <2>10
    <3>2. fromNode'[i] = e
      BY <2>8, <3>1
    <3>3. NewToken \in DOMAIN node'.sent
      BY <1>4, <2>1
    <3> QED BY <2>1, <2>9, <3>2, <3>3
  <2>11. Replied(Len(fromNode) + 2, NewToken)
    BY <1>2, <2>4, <2>8, <2>10 DEF Replied
  <2> QED BY <1>1, <2>2, <2>11 DEF Replied
<1> QED BY <1>1, <1>5, <1>6, <1>7, <1>8, <1>9, NodeOpensCases, <1>3

LEMMA ForwardIds ==
  ASSUME Shapes, Ids, Shapes', fromNode' = fromNode, NEW s \in Sessions, NEW withId \in BOOLEAN,
         NEW method \in Methods, NEW token \in Names, Forward(s, withId, method, token),
         withId \/ method = "follow" \/ method \in Releases \cup {"call"}
  PROVE  Ids'
<1>1. ASSUME NEW owner \in Owners, Track(pending, <<owner>>), owner.kind = "release" => owner.method \in Releases
      PROVE  Ids'
  <2>1. <<owner>> \in Seq(Owners) /\ Len(<<owner>>) = 1 /\ <<owner>>[1] = owner
    OBVIOUS
  <2>2. \A i \in 1 .. Len(<<owner>>) : <<owner>>[i].kind = "release" => <<owner>>[i].method \in Releases
    BY <1>1, <2>1
  <2>3. pending \in SUBSET Pendings /\ IsFiniteSet(pending)
    BY DEF Shapes
  <2>4. \A p, q \in pending : p.id = q.id => p = q
    BY DEF Ids, Numbered
  <2>5. Reads(0)
    BY ReadsNone
  <2> QED BY <1>1, <2>1, <2>2, <2>3, <2>4, <2>5, TrackIds
<1>2. ASSUME ~withId, method = "unfollow" PROVE method \in Releases
  BY <1>2, ReleasesAreMethods
<1>3. ASSUME ~withId, method \notin {"follow", "unfollow"} PROVE method \notin Kinds \cup {"unfollow"}
  BY <1>3, ReleasesAreMethods
<1>4. /\ Owner("session", s, Len(asked) + 1, method, token).kind = "session"
      /\ Owner("orphan", None, 0, method, token).kind = "orphan"
      /\ Owner("release", None, 0, method, token).kind = "release"
      /\ Owner("release", None, 0, method, token).method = method
  BY DEF Owner
<1>5. ASSUME NEW owner, ForwardsAs(owner), owner.kind = "release" => owner.method \in Releases PROVE Ids'
  BY <1>1, <1>5 DEF ForwardsAs
<1>6. CASE withId
  BY <1>4, <1>5, <1>6, ForwardTracks
<1>7. CASE ~withId /\ method = "follow"
  BY <1>4, <1>5, <1>7, ForwardTracks
<1>8. CASE ~withId /\ method = "unfollow"
  BY <1>2, <1>4, <1>5, <1>8, ForwardTracks
<1>9. CASE ~withId /\ method \notin {"follow", "unfollow"}
  <2>1. /\ toNode' = Append(toNode, [id |-> 0, method |-> method, token |-> token])
        /\ pending' = pending /\ counter' = counter
    BY <1>9, ForwardTracks
  <2> QED BY <1>3, <1>9, <2>1, UntrackedIds
<1> QED BY <1>6, <1>7, <1>8, <1>9

\* What Orphaned changes of a request is its owner.
LEMMA OrphanedParts ==
  ASSUME Shapes, NEW s \in Sessions
  PROVE  /\ \A q \in Orphaned(s) : \E p \in pending :
              /\ p.id = q.id /\ p.owner.method = q.owner.method
              /\ q = IF p.owner.session = s
                     THEN [p EXCEPT !.owner = Owner("orphan", None, 0, p.owner.method, p.owner.token)] ELSE p
         /\ \A p \in pending : \E q \in Orphaned(s) : q.id = p.id /\ q.owner.method = p.owner.method
         /\ \A q \in Orphaned(s) : \E p \in pending :
              p.id = q.id /\ p.owner.method = q.owner.method /\ (q.owner.kind = "release" => p.owner.kind = "release")
<1>1. ASSUME NEW p \in pending, NEW q,
             q = IF p.owner.session = s
                 THEN [p EXCEPT !.owner = Owner("orphan", None, 0, p.owner.method, p.owner.token)] ELSE p
      PROVE  q.id = p.id /\ q.owner.method = p.owner.method /\ (q.owner.kind = "release" => p.owner.kind = "release")
  <2>1. p = [id |-> p.id, owner |-> p.owner]
    BY DEF Shapes, Pendings
  <2> QED BY <1>1, <2>1 DEF Owner
<1>2. \A p \in pending :
        (IF p.owner.session = s
         THEN [p EXCEPT !.owner = Owner("orphan", None, 0, p.owner.method, p.owner.token)] ELSE p) \in Orphaned(s)
  BY DEF Orphaned
<1>3. \A q \in Orphaned(s) : \E p \in pending :
        q = IF p.owner.session = s
            THEN [p EXCEPT !.owner = Owner("orphan", None, 0, p.owner.method, p.owner.token)] ELSE p
  BY DEF Orphaned
<1>4. ASSUME NEW p \in pending
      PROVE  \E q \in Orphaned(s) : q.id = p.id /\ q.owner.method = p.owner.method
  <2>1. PICK q : q = IF p.owner.session = s
                     THEN [p EXCEPT !.owner = Owner("orphan", None, 0, p.owner.method, p.owner.token)] ELSE p
    OBVIOUS
  <2> QED BY <1>1, <1>2, <2>1
<1>5. ASSUME NEW q \in Orphaned(s)
      PROVE  \E p \in pending :
              /\ p.id = q.id /\ p.owner.method = q.owner.method /\ (q.owner.kind = "release" => p.owner.kind = "release")
              /\ q = IF p.owner.session = s
                     THEN [p EXCEPT !.owner = Owner("orphan", None, 0, p.owner.method, p.owner.token)] ELSE p
  <2>1. PICK p \in pending :
          q = IF p.owner.session = s
              THEN [p EXCEPT !.owner = Owner("orphan", None, 0, p.owner.method, p.owner.token)] ELSE p
    BY <1>3
  <2> QED BY <1>1, <2>1
<1> QED BY <1>4, <1>5

LEMMA LeaveIds ==
  ASSUME Shapes, Named, Ids, Shapes', NEW s \in Sessions, Leave(s)
  PROVE  Ids'
<1>1. PICK sent \in Seq(Owners) :
        /\ Track(Orphaned(s), sent)
        /\ \A i \in 1 .. Len(sent) : \E o \in LastOf(s) : sent[i] = SentRelease(o.kind, o.token)
  BY LeaveTracks
<1>2. Orphaned(s) \in SUBSET Pendings /\ IsFiniteSet(Orphaned(s))
  BY OrphanedShapes
<1>3. \A p, q \in Orphaned(s) : p.id = q.id => p = q
  <2> SUFFICES ASSUME NEW p \in Orphaned(s), NEW q \in Orphaned(s), p.id = q.id PROVE p = q
    OBVIOUS
  <2>1. PICK x \in pending : /\ x.id = p.id
                             /\ p = IF x.owner.session = s
                                    THEN [x EXCEPT !.owner = Owner("orphan", None, 0, x.owner.method, x.owner.token)]
                                    ELSE x
    BY OrphanedParts
  <2>2. PICK y \in pending : /\ y.id = q.id
                             /\ q = IF y.owner.session = s
                                    THEN [y EXCEPT !.owner = Owner("orphan", None, 0, y.owner.method, y.owner.token)]
                                    ELSE y
    BY OrphanedParts
  <2>3. x = y
    BY <2>1, <2>2 DEF Ids, Numbered
  <2> QED BY <2>1, <2>2, <2>3
<1>4. \A i \in 1 .. Len(sent) : sent[i].kind = "release" => sent[i].method \in Releases
  <2> SUFFICES ASSUME NEW i \in 1 .. Len(sent) PROVE sent[i].method \in Releases
    OBVIOUS
  <2>1. PICK o \in LastOf(s) : sent[i] = SentRelease(o.kind, o.token)
    BY <1>1
  <2>2. o.kind \in Kinds
    BY DEF LastOf, Mine, Shapes, Helds
  <2> QED BY <2>1, <2>2, ReleasesAreMethods DEF SentRelease, Owner
<1>5. \A i \in DOMAIN toNode, p \in pending : p.id = toNode[i].id =>
        \E q \in Orphaned(s) : q.id = p.id /\ q.owner.method = p.owner.method
  BY OrphanedParts
<1>6. \A q \in Orphaned(s) : \E p \in pending :
        p.id = q.id /\ p.owner.method = q.owner.method /\ (q.owner.kind = "release" => p.owner.kind = "release")
  BY OrphanedParts
<1>7. Reads(0)
  BY ReadsNone DEF Leave
<1> QED BY <1>1, <1>2, <1>3, <1>4, <1>5, <1>6, <1>7, TrackIds

LEMMA SessionStepIds == ASSUME Shapes, Named, Ids, Shapes', SessionStep PROVE Ids'
<1>1. PICK s \in Sessions :
    \/ Connect(s) \/ Leave(s) \/ LeaveHalting(s)
    \/ \E kind \in Kinds, withId \in BOOLEAN : Subscribe(s, kind, withId)
    \/ \E l \in DOMAIN heard : Call(s, l)
    \/ \E l \in DOMAIN heard, withId \in BOOLEAN : Release(s, l, withId)
  BY DEF SessionStep
<1>2. fromNode' = fromNode
  BY <1>1 DEF Connect, Leave, LeaveHalting, Subscribe, Call, Release
<1>3. None \in Names /\ \A kind \in Kinds : kind \in Methods /\ ReleaseOf(kind) \in Releases \cap Methods
  BY ReleasesAreMethods DEF Names
<1>4. ASSUME NEW withId \in BOOLEAN, AnswerHere(s, withId) PROVE Ids'
  BY <1>2, <1>4, QuietIds DEF AnswerHere
<1>5. CASE Connect(s) \/ LeaveHalting(s)
  BY <1>5, QuietIds DEF Connect, LeaveHalting
<1>6. CASE Leave(s)
  BY <1>6, LeaveIds
<1>7. ASSUME NEW kind \in Kinds, NEW withId \in BOOLEAN, Subscribe(s, kind, withId) PROVE Ids'
  <2>1. Forward(s, withId, kind, None) /\ (withId \/ kind = "follow")
    BY <1>7 DEF Subscribe
  <2> QED BY <1>2, <1>3, <2>1, ForwardIds
<1>8. ASSUME NEW l \in DOMAIN heard, Call(s, l) PROVE Ids'
  <2>1. Forward(s, TRUE, "call", None) \/ AnswerHere(s, TRUE)
    BY <1>8 DEF Call
  <2>2. "call" \in Methods
    BY ReleasesAreMethods
  <2> QED BY <1>2, <1>3, <1>4, <2>1, <2>2, ForwardIds
<1>9. ASSUME NEW l \in DOMAIN heard, NEW withId \in BOOLEAN, Release(s, l, withId) PROVE Ids'
  <2>1. CASE AnswerHere(s, withId)
    BY <1>4, <2>1
  <2>2. ASSUME NEW o \in owned, Forward(s, withId, ReleaseOf(o.kind), o.token) PROVE Ids'
    <3>1. o.kind \in Kinds /\ o.token \in Names
      BY DEF Shapes, Helds, Names
    <3> QED BY <1>2, <1>3, <2>2, <3>1, ForwardIds
  <2> QED BY <1>9, <2>1, <2>2 DEF Release
<1> QED BY <1>1, <1>5, <1>6, <1>7, <1>8, <1>9

LEMMA HandleAnswerIds == ASSUME Shapes, Ids, Shapes', HandleAnswer PROVE Ids'
<1>1. fromNode # <<>> /\ fromNode' = Tail(fromNode) /\ Reply.msg = "answer"
  BY HandleAnswerCases
<1>2. CASE Unknown
  BY <1>1, <1>2, TakeIds DEF Unknown
<1>3. ASSUME NEW p \in pending, p.id = Reply.id, Mapped(p) \/ Relayed(p) \/ Closed(p) PROVE Ids'
  <2>1. pending' = pending \ {p} /\ UNCHANGED <<counter, toNode>>
    BY <1>3 DEF Mapped, Relayed, Closed
  <2> QED BY <1>1, <1>3, <2>1, TakeIds
<1>4. ASSUME NEW p \in pending, p.id = Reply.id, Freed(p) PROVE Ids'
  <2>1. PICK owner : owner = SentRelease(p.owner.method, Reply.token)
    OBVIOUS
  <2>2. owner \in Owners /\ owner.method = ReleaseOf(p.owner.method) /\ p.owner.method \in Kinds
        /\ Track(pending \ {p}, <<owner>>)
    BY <1>4, <2>1, FreedShapes DEF Freed, SentRelease, Owner
  <2>3. <<owner>> \in Seq(Owners) /\ Len(<<owner>>) = 1 /\ <<owner>>[1] = owner
    BY <2>2
  <2>4. owner.method \in Releases
    BY <2>2, ReleasesAreMethods
  <2>5. \A i \in 1 .. Len(<<owner>>) : <<owner>>[i].kind = "release" => <<owner>>[i].method \in Releases
    BY <2>3, <2>4
  <2>6. PICK left : left = pending \ {p}
    OBVIOUS
  <2>7. left \in SUBSET Pendings /\ IsFiniteSet(left) /\ left \subseteq pending /\ Track(left, <<owner>>)
    BY <2>2, <2>6, FS_Subset DEF Shapes
  <2>8. 1 \in DOMAIN fromNode /\ Reply = fromNode[1]
    BY <1>1, HeadTail DEF Shapes, Reply
  <2>9. \A i \in DOMAIN toNode, q \in pending : q.id = toNode[i].id => q \in left
    BY <1>1, <1>4, <2>6, <2>8 DEF Ids, Answering
  <2>10. \A x, y \in left : x.id = y.id => x = y
    BY <2>7 DEF Ids, Numbered
  <2>11. Reads(1)
    BY <1>1, ReadsOne
  <2> QED BY <2>3, <2>5, <2>7, <2>9, <2>10, <2>11, TrackIds
<1> QED BY <1>2, <1>3, <1>4, HandleAnswerCases

LEMMA NodeStepIds == ASSUME Shapes, Known, Ids, Shapes', NodeStep PROVE Ids'
<1>1. CASE NodeOpens
  <2>1. UNCHANGED <<pending, counter>> /\ toNode # <<>> /\ toNode' = Tail(toNode) /\ Query.method \in Kinds
    BY <1>1, NodeOpensCases
  <2>2. PICK t \in Names : \E last \in DOMAIN fromNode' : Replied(last, t)
    BY <1>1, NodeOpensReplies
  <2>3. PICK last \in DOMAIN fromNode' : Replied(last, t)
    BY <2>2
  <2>4. Query.id # 0
    <3>1. 1 \in DOMAIN toNode
      BY <2>1, HeadTail DEF Shapes
    <3> QED BY <2>1, <3>1 DEF Ids, Querying, Query
  <2>5. AnswerMsg(Query.id, t).id = Query.id
    BY DEF AnswerMsg
  <2> QED BY <2>1, <2>3, <2>4, <2>5, ReadIds DEF Replied
<1>2. CASE NodeReads
  <2>1. /\ UNCHANGED <<pending, counter>> /\ toNode # <<>> /\ toNode' = Tail(toNode) /\ Query.id \in Nat
        /\ fromNode' = IF Query.id = 0 THEN fromNode ELSE Append(fromNode, AnswerMsg(Query.id, None))
    BY <1>2, NodeReadsShapes, QueryShapes
  <2>2. CASE Query.id = 0
    BY <2>1, <2>2, ReadIds
  <2>3. CASE Query.id # 0
    <3>1. fromNode' = Append(fromNode, AnswerMsg(Query.id, None)) /\ None \in Names
      BY <2>1, <2>3 DEF Names
    <3>2. PICK last : last = Len(fromNode) + 1
      OBVIOUS
    <3>3. Replied(last, None)
      BY <2>1, <3>1, <3>2, AppendReplies
    <3>4. AnswerMsg(Query.id, None).id = Query.id
      BY DEF AnswerMsg
    <3> QED BY <2>1, <2>3, <3>3, <3>4, ReadIds DEF Replied
  <2> QED BY <2>2, <2>3
<1>3. ASSUME NEW x \in node.subs, NEW ends \in BOOLEAN, NodeSends(x, ends) PROVE Ids'
  <2>1. x.token \in DOMAIN node.sent
    BY DEF Known
  <2>2. PICK m : m = EventMsg(x.token, node.sent[x.token] + 1, ends)
    OBVIOUS
  <2>3. /\ fromNode' = Append(fromNode, m) /\ m \in Replies /\ UNCHANGED <<pending, counter, toNode>>
        /\ fromNode \in Seq(Replies)
    BY <1>3, <2>1, <2>2, NodeSendsShapes DEF Shapes
  <2>4. m.msg = "event"
    BY <2>2 DEF EventMsg
  <2>5. \A i \in DOMAIN fromNode' : i \in 1 .. Len(fromNode) \/ i = Len(fromNode) + 1
    BY <2>3, Appended
  <2>6. \A i \in DOMAIN fromNode' : \/ i \in DOMAIN fromNode /\ fromNode'[i] = fromNode[i]
                                    \/ fromNode'[i].msg = "event"
    BY <2>3, <2>4, <2>5, Appended
  <2> QED BY <2>3, <2>6, SendIds
<1> QED BY <1>1, <1>2, <1>3 DEF NodeStep

LEMMA IdsNext == ASSUME BaseInv, Ids, [Next]_vars PROVE Ids'
<1> USE DEF BaseInv
<1>1. Shapes'
  BY BaseInvNext
<1>2. CASE UNCHANGED vars
  BY <1>2, QuietIds DEF vars
<1>3. CASE OwnerStep
  <2>1. CASE DisconnectAll
    BY <1>1, <2>1, DisconnectAllShapes, EmptyIds DEF Dropped
  <2>2. CASE Halt
    BY <2>2, QuietIds DEF Halt
  <2> QED BY <1>3, <2>1, <2>2 DEF OwnerStep
<1>4. CASE HaltEnds
  BY <1>1, <1>4, HaltEndsShapes, EmptyIds DEF Dropped
<1>5. CASE Flush \/ Route \/ Tell \/ \E s \in Sessions : HaltSession(s)
  BY <1>5, QuietIds DEF Flush, Route, Tell, HaltSession
<1>6. CASE HandleEvent
  BY <1>1, <1>6, HandleEventShapes, TakeIds DEF HandleEvent
<1> QED BY <1>1, <1>2, <1>3, <1>4, <1>5, <1>6, SessionStepIds, HandleAnswerIds, NodeStepIds DEF Next, BrokerStep

\* What was pending is pending as it was, but for its owner.
Continues ==
  \A p \in pending' : p.id > counter \/ \E q \in pending : q.id = p.id /\ q.owner.method = p.owner.method

LEMMA TrackContinues ==
  ASSUME Shapes, NEW left \in SUBSET Pendings, IsFiniteSet(left), NEW owners \in Seq(Owners), Track(left, owners),
         \A q \in left : \E p \in pending : p.id = q.id /\ p.owner.method = q.owner.method
  PROVE  Continues
<1>1. pending' = left \cup Tracked(counter, owners) /\ counter \in Nat /\ Len(owners) \in Nat
  BY TrackAdds DEF Shapes
<1>2. \A p \in Tracked(counter, owners) : p.id \in counter + 1 .. counter + Len(owners)
  BY <1>1, TrackedIsFinite
<1>3. \A p \in Tracked(counter, owners) : p.id > counter
  BY <1>1, <1>2
<1> QED BY <1>1, <1>3 DEF Continues

LEMMA FewerContinue == ASSUME pending' \subseteq pending PROVE Continues
BY DEF Continues

LEMMA ForwardContinues ==
  ASSUME Shapes, NEW s \in Sessions, NEW withId \in BOOLEAN, NEW method \in Methods, NEW token \in Names,
         Forward(s, withId, method, token)
  PROVE  Continues
<1>1. ASSUME NEW owner, ForwardsAs(owner) PROVE Continues
  <2>1. <<owner>> \in Seq(Owners) /\ Track(pending, <<owner>>)
    BY <1>1 DEF ForwardsAs
  <2>2. pending \in SUBSET Pendings /\ IsFiniteSet(pending)
    BY DEF Shapes
  <2> QED BY <2>1, <2>2, TrackContinues
<1> QED BY <1>1, ForwardTracks, FewerContinue

LEMMA SessionStepContinues == ASSUME Shapes, Named, SessionStep PROVE Continues
<1>1. PICK s \in Sessions :
    \/ Connect(s) \/ Leave(s) \/ LeaveHalting(s)
    \/ \E kind \in Kinds, withId \in BOOLEAN : Subscribe(s, kind, withId)
    \/ \E l \in DOMAIN heard : Call(s, l)
    \/ \E l \in DOMAIN heard, withId \in BOOLEAN : Release(s, l, withId)
  BY DEF SessionStep
<1>2. None \in Names /\ "call" \in Methods /\ \A kind \in Kinds : kind \in Methods /\ ReleaseOf(kind) \in Methods
  BY ReleasesAreMethods DEF Names
<1>3. ASSUME NEW withId \in BOOLEAN, AnswerHere(s, withId) PROVE Continues
  BY <1>3, FewerContinue DEF AnswerHere
<1>4. CASE Connect(s) \/ LeaveHalting(s)
  BY <1>4, FewerContinue DEF Connect, LeaveHalting
<1>5. CASE Leave(s)
  <2>1. PICK sent \in Seq(Owners) : Track(Orphaned(s), sent)
    BY <1>5, LeaveTracks
  <2>2. Orphaned(s) \in SUBSET Pendings /\ IsFiniteSet(Orphaned(s))
    BY OrphanedShapes
  <2>3. \A q \in Orphaned(s) : \E p \in pending : p.id = q.id /\ p.owner.method = q.owner.method
    BY OrphanedParts
  <2> QED BY <2>1, <2>2, <2>3, TrackContinues
<1>6. ASSUME NEW kind \in Kinds, NEW withId \in BOOLEAN, Subscribe(s, kind, withId) PROVE Continues
  BY <1>2, <1>6, ForwardContinues DEF Subscribe
<1>7. ASSUME NEW l \in DOMAIN heard, Call(s, l) PROVE Continues
  BY <1>2, <1>3, <1>7, ForwardContinues DEF Call
<1>8. ASSUME NEW l \in DOMAIN heard, NEW withId \in BOOLEAN, Release(s, l, withId) PROVE Continues
  <2>1. ASSUME NEW o \in owned, Forward(s, withId, ReleaseOf(o.kind), o.token) PROVE Continues
    <3>1. o.kind \in Kinds /\ o.token \in Names
      BY DEF Shapes, Helds, Names
    <3> QED BY <1>2, <2>1, <3>1, ForwardContinues
  <2> QED BY <1>3, <1>8, <2>1 DEF Release
<1> QED BY <1>1, <1>4, <1>5, <1>6, <1>7, <1>8

LEMMA HandleAnswerContinues == ASSUME Shapes, HandleAnswer PROVE Continues
<1>1. ASSUME NEW p \in pending, Freed(p) PROVE Continues
  <2>1. PICK owner : owner = SentRelease(p.owner.method, Reply.token)
    OBVIOUS
  <2>2. <<owner>> \in Seq(Owners) /\ Track(pending \ {p}, <<owner>>)
    BY <1>1, <2>1, FreedShapes DEF Freed
  <2>3. pending \ {p} \in SUBSET Pendings /\ IsFiniteSet(pending \ {p})
    BY FS_Subset DEF Shapes
  <2>4. \A q \in pending \ {p} : \E x \in pending : x.id = q.id /\ x.owner.method = q.owner.method
    OBVIOUS
  <2> QED BY <2>2, <2>3, <2>4, TrackContinues
<1> QED BY <1>1, HandleAnswerCases, FewerContinue DEF Unknown, Mapped, Relayed, Closed

----------------------------------------------------------------------------
(* A subscription has one kind wherever it is named. *)

OneToken == \A x, y \in node.subs : x.token = y.token => x = y
HeldKinds == \A x \in node.subs, o \in owned : x.token = o.token => o.kind = x.kind
NamedKinds ==
  \A x \in node.subs, i \in DOMAIN fromNode, p \in pending :
    fromNode[i].msg = "answer" /\ fromNode[i].token = x.token /\ p.id = fromNode[i].id => p.owner.method = x.kind
OneKind == OneToken /\ HeldKinds /\ NamedKinds

LEMMA NamedKindsStay ==
  ASSUME Shapes, Ids, OneKind, node'.subs \subseteq node.subs, Continues, NEW k \in {0, 1}, Reads(k)
  PROVE  OneToken' /\ NamedKinds'
<1>1. OneToken'
  BY DEF OneKind, OneToken
<1>2. ASSUME NEW x \in node'.subs, NEW i \in DOMAIN fromNode', NEW p \in pending', fromNode'[i].msg = "answer",
             fromNode'[i].token = x.token, p.id = fromNode'[i].id
      PROVE  p.owner.method = x.kind
  <2>1. i + k \in DOMAIN fromNode /\ fromNode'[i] = fromNode[i + k]
    BY DEF Reads
  <2>2. p.id \in 1 .. counter /\ counter \in Nat
    BY <1>2, <2>1 DEF Ids, Answering, Shapes
  <2>3. PICK q \in pending : q.id = p.id /\ q.owner.method = p.owner.method
    BY <2>2 DEF Continues
  <2> QED BY <1>2, <2>1, <2>3 DEF OneKind, NamedKinds
<1> QED BY <1>1, <1>2 DEF NamedKinds

LEMMA KindsStay ==
  ASSUME Shapes, Ids, OneKind, node'.subs \subseteq node.subs, owned' \subseteq owned, Continues,
         NEW k \in {0, 1}, Reads(k)
  PROVE  OneKind'
BY NamedKindsStay DEF OneKind, HeldKinds

LEMMA HandleAnswerKinds == ASSUME Shapes, Ids, OneKind, HandleAnswer PROVE OneKind'
<1>1. fromNode # <<>> /\ fromNode' = Tail(fromNode) /\ node' = node /\ Reply.msg = "answer"
  BY HandleAnswerCases
<1>2. Reads(1)
  BY <1>1, ReadsOne
<1>3. CASE owned' = owned
  BY <1>1, <1>2, <1>3, HandleAnswerContinues, KindsStay
<1>4. ASSUME NEW p \in pending, p.id = Reply.id, Mapped(p) PROVE OneKind'
  <2>1. OneToken' /\ NamedKinds'
    BY <1>1, <1>2, HandleAnswerContinues, NamedKindsStay
  <2>2. owned' = owned \cup {NewHeld(p)}
    BY <1>4, MappedShapes
  <2>3. NewHeld(p).token = Reply.token /\ NewHeld(p).kind = p.owner.method
    BY DEF NewHeld
  <2>4. 1 \in DOMAIN fromNode /\ Reply = fromNode[1]
    BY <1>1, HeadTail DEF Shapes, Reply
  <2>5. \A x \in node.subs : x.token = Reply.token => p.owner.method = x.kind
    BY <1>1, <1>4, <2>4 DEF OneKind, NamedKinds
  <2> QED BY <1>1, <2>1, <2>2, <2>3, <2>5 DEF OneKind, HeldKinds
<1> QED BY <1>3, <1>4, HandleAnswerCases DEF Unknown, Relayed, Freed, Closed

\* What is held has a token the node gave out.
LEMMA HeldIsKnown == ASSUME Named, Known PROVE \A o \in owned : o.token \in DOMAIN node.sent
BY DEF Named, Belongs, Known

LEMMA NodeOpensKinds == ASSUME Shapes, Named, Known, Ids, OneKind, Shapes', NodeOpens PROVE OneKind'
<1>1. UNCHANGED <<pending, owned>> /\ toNode # <<>> /\ Query.method \in Kinds
  BY NodeOpensCases
<1>2. PICK t \in Names : \E last \in DOMAIN fromNode' : Replied(last, t) /\ Opened(t)
  BY NodeOpensReplies
<1>3. PICK last \in DOMAIN fromNode' : Replied(last, t) /\ Opened(t)
  BY <1>2
<1>4. NewToken \notin DOMAIN node.sent /\ NewToken \in Nat /\ None \notin Nat
  BY SentParts, NodeShapes, NamesApart DEF NewToken
<1>5. \A x \in node.subs : x.token \in DOMAIN node.sent /\ x.token \in Nat
  BY NodeShapes DEF Known, Subs
<1>6. Sub(NewToken, Query.method).token = NewToken /\ Sub(NewToken, Query.method).kind = Query.method
  BY DEF Sub
<1>7. \A x \in node'.subs : x \in node.subs \/ x = Sub(NewToken, Query.method)
  BY <1>3 DEF Opened
<1>8. OneToken'
  BY <1>4, <1>5, <1>6, <1>7 DEF OneKind, OneToken
<1>9. HeldKinds'
  BY <1>1, <1>4, <1>6, <1>7, HeldIsKnown DEF OneKind, HeldKinds
<1>10. ASSUME NEW p \in pending, p.id = Query.id PROVE p.owner.method = Query.method
  <2>1. 1 \in DOMAIN toNode /\ Query = toNode[1]
    BY <1>1, HeadTail DEF Shapes, Query
  <2>2. Query.id # 0
    BY <1>1, <2>1 DEF Ids, Querying
  <2>3. PICK q \in pending : q.id = Query.id /\ q.owner.method = Query.method
    BY <2>1, <2>2 DEF Ids, Querying, Pends
  <2> QED BY <1>10, <2>3 DEF Ids, Numbered
<1>11. ASSUME NEW x \in node'.subs, x.token = t PROVE x.kind = Query.method
  <2>1. x.token \in Nat
    BY <1>4, <1>5, <1>6, <1>7
  <2>2. t # None
    BY <1>4, <1>11, <2>1
  <2>3. CASE t = NewToken
    BY <1>4, <1>5, <1>6, <1>7, <1>11, <2>3
  <2>4. ASSUME NEW y \in node.subs, t = y.token, y.kind = Query.method, node' = node PROVE x.kind = Query.method
    BY <1>11, <2>4 DEF OneKind, OneToken
  <2> QED BY <1>3, <2>2, <2>3, <2>4 DEF Opened
<1>12. ASSUME NEW x \in node'.subs, NEW i \in DOMAIN fromNode', NEW p \in pending, fromNode'[i].msg = "answer",
              fromNode'[i].token = x.token, p.id = fromNode'[i].id
       PROVE  p.owner.method = x.kind
  <2>1. CASE i \in DOMAIN fromNode
    <3>1. fromNode'[i] = fromNode[i]
      BY <1>3, <2>1 DEF Replied
    <3>2. fromNode[i].token \in DOMAIN node.sent \cup {None}
      BY <1>12, <2>1, <3>1 DEF Known, KnownReply
    <3>3. x \in node.subs
      BY <1>4, <1>6, <1>7, <1>12, <3>1, <3>2
    <3> QED BY <1>12, <2>1, <3>1, <3>3 DEF OneKind, NamedKinds
  <2>2. CASE i = last
    <3>1. fromNode'[i].token = t /\ fromNode'[i].id = Query.id
      BY <1>3, <2>2 DEF Replied, AnswerMsg
    <3> QED BY <1>10, <1>11, <1>12, <3>1
  <2> QED BY <1>3, <1>12, <2>1, <2>2 DEF Replied
<1> QED BY <1>1, <1>8, <1>9, <1>12 DEF OneKind, NamedKinds

\* The node answers nothing that names a subscription.
LEMMA NodeKindsStay ==
  ASSUME Shapes, OneKind, node'.subs \subseteq node.subs, UNCHANGED <<owned, pending>>,
         \A i \in DOMAIN fromNode' : \/ i \in DOMAIN fromNode /\ fromNode'[i] = fromNode[i]
                                     \/ fromNode'[i].msg = "answer" => fromNode'[i].token = None
  PROVE  OneKind'
<1>1. \A x \in node.subs : x.token # None
  BY NodeShapes, NamesApart DEF Subs
<1> QED BY <1>1 DEF OneKind, OneToken, HeldKinds, NamedKinds

LEMMA NodeStepKinds == ASSUME Shapes, Named, Known, Ids, OneKind, Shapes', NodeStep PROVE OneKind'
<1>1. fromNode \in Seq(Replies) /\ DOMAIN fromNode = 1 .. Len(fromNode)
  BY DEF Shapes
<1>2. ASSUME NEW m, m \in Replies, fromNode' = Append(fromNode, m), m.msg = "answer" => m.token = None
      PROVE  \A i \in DOMAIN fromNode' : \/ i \in DOMAIN fromNode /\ fromNode'[i] = fromNode[i]
                                         \/ fromNode'[i].msg = "answer" => fromNode'[i].token = None
  <2>1. \A i \in DOMAIN fromNode' : i \in 1 .. Len(fromNode) \/ i = Len(fromNode) + 1
    BY <1>1, <1>2, Appended
  <2> QED BY <1>1, <1>2, <2>1, Appended
<1>3. CASE NodeReads
  <2>1. /\ UNCHANGED <<pending, owned>> /\ node'.subs \subseteq node.subs /\ Query.id \in Nat
        /\ fromNode' = fromNode \/ fromNode' = Append(fromNode, AnswerMsg(Query.id, None))
    BY <1>3, NodeReadsShapes, QueryShapes
  <2>2. PICK m : m = AnswerMsg(Query.id, None)
    OBVIOUS
  <2>3. m \in Replies /\ m.token = None
    BY <2>1, <2>2, MessageShapes DEF AnswerMsg, Names
  <2>4. \A i \in DOMAIN fromNode' : \/ i \in DOMAIN fromNode /\ fromNode'[i] = fromNode[i]
                                    \/ fromNode'[i].msg = "answer" => fromNode'[i].token = None
    BY <1>2, <2>1, <2>2, <2>3
  <2> QED BY <2>1, <2>4, NodeKindsStay
<1>4. ASSUME NEW x \in node.subs, NEW ends \in BOOLEAN, NodeSends(x, ends) PROVE OneKind'
  <2>1. x.token \in DOMAIN node.sent
    BY DEF Known
  <2>2. PICK m : m = EventMsg(x.token, node.sent[x.token] + 1, ends)
    OBVIOUS
  <2>3. /\ fromNode' = Append(fromNode, m) /\ m \in Replies /\ UNCHANGED <<pending, owned>>
        /\ node'.subs \subseteq node.subs
    BY <1>4, <2>1, <2>2, NodeSendsShapes
  <2>4. m.msg = "event"
    BY <2>2 DEF EventMsg
  <2> QED BY <1>2, <2>3, <2>4, NodeKindsStay
<1> QED BY <1>3, <1>4, NodeOpensKinds DEF NodeStep

LEMMA KindsNext == ASSUME BaseInv, Ids, OneKind, [Next]_vars PROVE OneKind'
<1> USE DEF BaseInv
<1>1. Shapes'
  BY BaseInvNext
<1>2. ASSUME UNCHANGED <<fromNode, node, pending>>, owned' \subseteq owned PROVE OneKind'
  BY <1>2, ReadsNone, FewerContinue, KindsStay
<1>3. CASE UNCHANGED vars
  BY <1>2, <1>3 DEF vars
<1>4. CASE Dropped
  BY <1>4 DEF Dropped, OneKind, OneToken, HeldKinds, NamedKinds
<1>5. CASE OwnerStep
  BY <1>2, <1>4, <1>5, DisconnectAllShapes DEF OwnerStep, Halt
<1>6. CASE SessionStep
  <2>1. owned' \subseteq owned /\ UNCHANGED <<fromNode, node>>
    BY <1>6 DEF SessionStep, Connect, Leave, LeaveHalting, Subscribe, Call, Release
  <2> QED BY <1>6, <2>1, ReadsNone, SessionStepContinues, KindsStay
<1>7. CASE HandleEvent
  <2>1. fromNode # <<>> /\ fromNode' = Tail(fromNode) /\ UNCHANGED <<pending, owned, node>>
    BY <1>7, HandleEventShapes DEF HandleEvent
  <2> QED BY <2>1, ReadsOne, FewerContinue, KindsStay
<1>8. CASE Flush \/ Tell \/ \E s \in Sessions : HaltSession(s)
  BY <1>2, <1>8 DEF Flush, Tell, HaltSession
<1>9. CASE Route
  BY <1>2, <1>9, RouteShapes DEF Route
<1> QED BY <1>1, <1>3, <1>4, <1>5, <1>6, <1>7, <1>8, <1>9, HaltEndsShapes, HandleAnswerKinds, NodeStepKinds
    DEF Next, BrokerStep

----------------------------------------------------------------------------
(* What is held early. *)

LEMMA EarlyParts ==
  ASSUME Shapes
  PROVE  /\ DOMAIN early = 1 .. Len(early) /\ Len(early) \in Nat
         /\ \A i \in DOMAIN early : /\ early[i] \in EarlyItems /\ early[i].token \in Nat
                                    /\ early[i].events \in Seq(Events)
                                    /\ DOMAIN early[i].events = 1 .. Len(early[i].events)
                                    /\ Len(early[i].events) \in Nat
<1>1. early \in Seq(EarlyItems)
  BY DEF Shapes
<1>2. \A e \in EarlyItems : e.token \in Nat /\ e.events \in Seq(Events)
  BY DEF EarlyItems
<1>3. \A s \in Seq(Events) : DOMAIN s = 1 .. Len(s) /\ Len(s) \in Nat
  OBVIOUS
<1> QED BY <1>1, <1>2, <1>3

\* An event of a token not held yet takes a new place, the oldest one's where there is no room.
LEMMA BufferedNew ==
  ASSUME Shapes, NEW event \in Events, EarlyAt(event.token) = {}
  PROVE  \E room \in Seq(EarlyItems) : \E d \in {0, 1} :
           /\ Len(Buffered(event)) = Len(room) + 1
           /\ Buffered(event)[Len(room) + 1] = [token |-> event.token, events |-> <<event>>]
           /\ \A i \in 1 .. Len(room) : Buffered(event)[i] = room[i]
           /\ \A i \in 1 .. Len(room) : i + d \in DOMAIN early /\ room[i] = early[i + d]
           /\ Len(early) <= MaxEarlyTokens => Len(room) + 1 <= MaxEarlyTokens
           /\ Len(early) < MaxEarlyTokens => room = early
<1>1. early \in Seq(EarlyItems) /\ Len(early) \in Nat /\ DOMAIN early = 1 .. Len(early)
      /\ MaxEarlyTokens \in Nat /\ MaxEarlyTokens > 0
  BY BrokerAssumption DEF Shapes
<1>2. PICK room : room = IF Len(early) >= MaxEarlyTokens THEN Tail(early) ELSE early
  OBVIOUS
<1>3. PICK item : item = [token |-> event.token, events |-> <<event>>]
  OBVIOUS
<1>4. item \in EarlyItems
  <2>1. event.token \in Nat /\ <<event>> \in Seq(Events)
    BY DEF Events
  <2> QED BY <1>3, <2>1 DEF EarlyItems
<1>5. Buffered(event) = Append(room, item)
  BY <1>2, <1>3 DEF Buffered
<1>6. ASSUME room \in Seq(EarlyItems)
      PROVE  /\ Len(Buffered(event)) = Len(room) + 1 /\ Buffered(event)[Len(room) + 1] = item
             /\ \A i \in 1 .. Len(room) : Buffered(event)[i] = room[i]
  BY <1>4, <1>5, <1>6, Appended
<1>7. CASE Len(early) >= MaxEarlyTokens
  <2>1. early # <<>>
    BY <1>1, <1>7
  <2>2. /\ Tail(early) \in Seq(EarlyItems) /\ Len(Tail(early)) = Len(early) - 1
        /\ \A i \in 1 .. Len(early) - 1 : Tail(early)[i] = early[i + 1]
    BY <1>1, <2>1, HeadTail
  <2>3. room = Tail(early) /\ room \in Seq(EarlyItems) /\ Len(room) = Len(early) - 1
    BY <1>2, <1>7, <2>2
  <2>4. \A i \in 1 .. Len(room) : i + 1 \in DOMAIN early /\ room[i] = early[i + 1]
    BY <1>1, <2>2, <2>3
  <2>5. Len(early) <= MaxEarlyTokens => Len(room) + 1 <= MaxEarlyTokens
    BY <1>1, <2>3
  <2>6. 1 \in {0, 1}
    OBVIOUS
  <2>7. ~(Len(early) < MaxEarlyTokens)
    BY <1>1, <1>7
  <2> QED BY <1>3, <1>6, <2>3, <2>4, <2>5, <2>6, <2>7
<1>8. CASE ~(Len(early) >= MaxEarlyTokens)
  <2>1. room = early /\ room \in Seq(EarlyItems)
    BY <1>1, <1>2, <1>8
  <2>2. \A i \in 1 .. Len(room) : i + 0 \in DOMAIN early /\ room[i] = early[i + 0]
    BY <1>1, <2>1
  <2>3. Len(room) + 1 <= MaxEarlyTokens
    BY <1>1, <1>8, <2>1
  <2>4. 0 \in {0, 1}
    OBVIOUS
  <2> QED BY <1>3, <1>6, <2>1, <2>2, <2>3, <2>4
<1> QED BY <1>7, <1>8

\* One of a token already held goes last, unless that token's place is full.
LEMMA BufferedMore ==
  ASSUME Shapes, NEW event \in Events, EarlyAt(event.token) # {}
  PROVE  /\ DOMAIN Buffered(event) = DOMAIN early /\ Len(Buffered(event)) = Len(early)
         /\ \A i \in DOMAIN early :
              \/ Buffered(event)[i] = early[i]
              \/ /\ early[i].token = event.token /\ Len(early[i].events) < MaxEarlyEvents
                 /\ Buffered(event)[i].token = event.token
                 /\ Buffered(event)[i].events = Append(early[i].events, event)
         /\ \A i \in DOMAIN early : early[i].token = event.token /\ Len(early[i].events) < MaxEarlyEvents
              => Buffered(event)[i].events = Append(early[i].events, event)
<1>1. Buffered(event) = [i \in DOMAIN early |->
              IF early[i].token = event.token /\ Len(early[i].events) < MaxEarlyEvents
              THEN [early[i] EXCEPT !.events = Append(@, event)] ELSE early[i]]
  BY DEF Buffered
<1>2. DOMAIN early = 1 .. Len(early) /\ Len(early) \in Nat
  BY EarlyParts
<1>3. Len(Buffered(event)) = Len(early)
  BY <1>1, <1>2
<1>4. ASSUME NEW i \in DOMAIN early
      PROVE  \/ Buffered(event)[i] = early[i]
             \/ /\ early[i].token = event.token /\ Len(early[i].events) < MaxEarlyEvents
                /\ Buffered(event)[i].token = event.token
                /\ Buffered(event)[i].events = Append(early[i].events, event)
  <2>1. early[i] \in EarlyItems
    BY EarlyParts
  <2>2. \A e \in EarlyItems : /\ [e EXCEPT !.events = Append(@, event)].token = e.token
                              /\ [e EXCEPT !.events = Append(@, event)].events = Append(e.events, event)
    BY DEF EarlyItems
  <2> QED BY <1>1, <2>1, <2>2
<1>5. ASSUME NEW i \in DOMAIN early, early[i].token = event.token, Len(early[i].events) < MaxEarlyEvents
      PROVE  Buffered(event)[i].events = Append(early[i].events, event)
  <2>1. early[i] \in EarlyItems
    BY EarlyParts
  <2>2. \A e \in EarlyItems : [e EXCEPT !.events = Append(@, event)].events = Append(e.events, event)
    BY DEF EarlyItems
  <2> QED BY <1>1, <1>5, <2>1, <2>2
<1> QED BY <1>1, <1>3, <1>4, <1>5

\* Every event held was held before, or is the new one.
LEMMA BufferedParts ==
  ASSUME Shapes, NEW event \in Events
  PROVE  /\ \A i \in DOMAIN Buffered(event) :
              \/ Buffered(event)[i].token = event.token
              \/ \E k \in DOMAIN early : Buffered(event)[i].token = early[k].token
         /\ \A i \in DOMAIN Buffered(event) : \A j \in DOMAIN Buffered(event)[i].events :
              \/ Buffered(event)[i].events[j] = event
              \/ \E k \in DOMAIN early : \E l \in DOMAIN early[k].events :
                   Buffered(event)[i].events[j] = early[k].events[l]
<1>1. PICK b : b = Buffered(event)
  OBVIOUS
<1>2. b \in Seq(EarlyItems)
  BY <1>1, BufferedShapes
<1>3. ASSUME NEW i \in DOMAIN b
      PROVE  /\ b[i].token = event.token \/ \E k \in DOMAIN early : b[i].token = early[k].token
             /\ \A j \in DOMAIN b[i].events :
                  b[i].events[j] = event
                  \/ \E k \in DOMAIN early : \E l \in DOMAIN early[k].events : b[i].events[j] = early[k].events[l]
  <2>1. ASSUME NEW k \in DOMAIN early, b[i] = early[k]
        PROVE  /\ \E h \in DOMAIN early : b[i].token = early[h].token
               /\ \A j \in DOMAIN b[i].events :
                    \E h \in DOMAIN early : \E l \in DOMAIN early[h].events : b[i].events[j] = early[h].events[l]
    BY <2>1
  <2>2. CASE EarlyAt(event.token) = {}
    <3>1. PICK room \in Seq(EarlyItems), d \in {0, 1} :
           /\ Len(b) = Len(room) + 1
           /\ b[Len(room) + 1] = [token |-> event.token, events |-> <<event>>]
           /\ \A h \in 1 .. Len(room) : b[h] = room[h]
           /\ \A h \in 1 .. Len(room) : h + d \in DOMAIN early /\ room[h] = early[h + d]
      BY <1>1, <2>2, BufferedNew
    <3>2. i \in 1 .. Len(room) \/ i = Len(room) + 1
      BY <1>2, <3>1
    <3>3. CASE i = Len(room) + 1
      <4>1. b[i].token = event.token /\ b[i].events = <<event>>
        BY <3>1, <3>3
      <4> QED BY <4>1
    <3>4. CASE i \in 1 .. Len(room)
      <4>1. i + d \in DOMAIN early /\ b[i] = early[i + d]
        BY <3>1, <3>4
      <4> QED BY <2>1, <4>1
    <3> QED BY <3>2, <3>3, <3>4
  <2>3. CASE EarlyAt(event.token) # {}
    <3>1. i \in DOMAIN early
      BY <1>1, <2>3, BufferedMore
    <3>2. CASE b[i] = early[i]
      BY <2>1, <3>1, <3>2
    <3>3. CASE b[i].token = event.token /\ b[i].events = Append(early[i].events, event)
      <4>1. early[i].events \in Seq(Events) /\ DOMAIN early[i].events = 1 .. Len(early[i].events)
        BY <3>1, EarlyParts
      <4>2. ASSUME NEW j \in DOMAIN b[i].events
            PROVE  b[i].events[j] = event \/ \E l \in DOMAIN early[i].events : b[i].events[j] = early[i].events[l]
        <5>1. j \in 1 .. Len(early[i].events) \/ j = Len(early[i].events) + 1
          BY <3>3, <4>1, Appended
        <5> QED BY <3>3, <4>1, <5>1, Appended
      <4> QED BY <3>1, <3>3, <4>2
    <3> QED BY <1>1, <2>3, <3>1, <3>2, <3>3, BufferedMore
  <2> QED BY <2>2, <2>3
<1> QED BY <1>1, <1>3

LEMMA DroppedParts ==
  ASSUME Shapes, NEW t
  PROVE  \A i \in DOMAIN EarlyDropped(t) : \E k \in DOMAIN early : EarlyDropped(t)[i] = early[k]
<1>1. PICK b : b = EarlyDropped(t)
  OBVIOUS
<1>2. DOMAIN early = 1 .. Len(early) /\ Len(early) \in Nat /\ DOMAIN b = 1 .. Len(b)
  <2>1. b \in Seq(EarlyItems)
    BY <1>1, EarlyDroppedShapes
  <2> QED BY <2>1, EarlyParts
<1>3. CASE EarlyAt(t) = {}
  BY <1>1, <1>3, EarlyDroppedShapes
<1>4. CASE EarlyAt(t) # {}
  <2>1. PICK k \in EarlyAt(t) : /\ Len(b) = Len(early) - 1
                                /\ \A i \in 1 .. Len(early) - 1 : b[i] = IF i < k THEN early[i] ELSE early[i + 1]
    BY <1>1, <1>4, EarlyDroppedShapes
  <2>2. \A i \in 1 .. Len(early) - 1 : i \in DOMAIN early /\ i + 1 \in DOMAIN early
    BY <1>2
  <2> QED BY <1>1, <1>2, <2>1, <2>2
<1> QED BY <1>3, <1>4

LEMMA EarlyOfParts ==
  ASSUME Shapes, NEW t
  PROVE  \A j \in DOMAIN EarlyOf(t) : \E k \in DOMAIN early :
           early[k].token = t /\ j \in DOMAIN early[k].events /\ EarlyOf(t)[j] = early[k].events[j]
<1>1. CASE EarlyAt(t) = {}
  BY <1>1 DEF EarlyOf
<1>2. CASE EarlyAt(t) # {}
  BY <1>2, EarlyDroppedShapes DEF EarlyAt
<1> QED BY <1>1, <1>2

----------------------------------------------------------------------------
(* Events on their way.  Nothing runs under a token whose final event the  *)
(* node has sent.                                                          *)

Sound(e) == e.token \in DOMAIN node.sent /\ (e.ends => \A x \in node.subs : x.token # e.token)
SentSound == \A i \in DOMAIN fromNode : fromNode[i].msg = "event" => Sound(fromNode[i].event)
WorkSound == \A i \in DOMAIN work : work[i].do = "event" => Sound(work[i].event)
EarlySound ==
  \A i \in DOMAIN early : /\ early[i].token \in DOMAIN node.sent
                          /\ \A j \in DOMAIN early[i].events : Sound(early[i].events[j])
Ends == SentSound /\ WorkSound /\ EarlySound

\* The node gives out fresh tokens only.
Fresh ==
  /\ DOMAIN node.sent \subseteq DOMAIN node'.sent
  /\ \A x \in node'.subs : x \in node.subs \/ x.token \notin DOMAIN node.sent

LEMMA SoundStays == ASSUME Fresh, NEW e, Sound(e) PROVE Sound(e)'
BY DEF Fresh, Sound

LEMMA SameIsFresh == ASSUME node' = node PROVE Fresh
BY DEF Fresh

\* What is handled, and what is held, was there before.
WorkStays ==
  \A i \in DOMAIN work' : work'[i].do = "event" => \E j \in DOMAIN work : work[j] = work'[i]
EarlyStays == \A i \in DOMAIN early' : \E k \in DOMAIN early : early'[i] = early[k]

LEMMA WorkStaysSound == ASSUME WorkSound, Fresh, WorkStays PROVE WorkSound'
<1> SUFFICES ASSUME NEW i \in DOMAIN work', work'[i].do = "event" PROVE Sound(work[i].event)'
  BY DEF WorkSound
<1>1. PICK j \in DOMAIN work : work[j] = work'[i]
  BY DEF WorkStays
<1>2. PICK e : e = work[j].event
  OBVIOUS
<1>3. Sound(e)
  BY <1>1, <1>2 DEF WorkSound
<1>4. Sound(e)'
  BY <1>3, SoundStays
<1> QED BY <1>1, <1>2, <1>4

LEMMA EarlyStaysSound == ASSUME EarlySound, Fresh, EarlyStays PROVE EarlySound'
<1> SUFFICES ASSUME NEW i \in DOMAIN early'
             PROVE  /\ early'[i].token \in DOMAIN node'.sent
                    /\ \A j \in DOMAIN early'[i].events : Sound(early[i].events[j])'
  BY DEF EarlySound
<1>1. PICK k \in DOMAIN early : early'[i] = early[k]
  BY DEF EarlyStays
<1>2. ASSUME NEW j \in DOMAIN early'[i].events PROVE Sound(early[i].events[j])'
  <2>1. PICK e : e = early[k].events[j]
    OBVIOUS
  <2>2. Sound(e)
    BY <1>1, <2>1 DEF EarlySound
  <2>3. Sound(e)'
    BY <2>2, SoundStays
  <2> QED BY <1>1, <2>1, <2>3
<1> QED BY <1>1, <1>2 DEF EarlySound, Fresh

LEMMA SentStaysSound == ASSUME SentSound, Fresh, NEW k \in {0, 1}, Reads(k) PROVE SentSound'
<1> SUFFICES ASSUME NEW i \in DOMAIN fromNode', fromNode'[i].msg = "event" PROVE Sound(fromNode[i].event)'
  BY DEF SentSound
<1>1. i + k \in DOMAIN fromNode /\ fromNode'[i] = fromNode[i + k]
  BY DEF Reads
<1>2. PICK e : e = fromNode[i + k].event
  OBVIOUS
<1>3. Sound(e)
  BY <1>1, <1>2 DEF SentSound
<1>4. Sound(e)'
  BY <1>3, SoundStays
<1> QED BY <1>1, <1>2, <1>4

\* What is handled after a flush: the held events, and then what was to come.
FlushedTo(events) ==
  /\ DOMAIN work' = 1 .. Len(events) + Len(work) - 1
  /\ \A i \in DOMAIN events : i \in DOMAIN work' /\ work'[i] = [do |-> "event", event |-> events[i]]
  /\ \A i \in DOMAIN work' :
       \/ i \in DOMAIN events /\ work'[i] = [do |-> "event", event |-> events[i]]
       \/ i \notin DOMAIN events /\ \E k \in DOMAIN work : k > 1 /\ i = Len(events) + k - 1 /\ work'[i] = work[k]

LEMMA FlushPlaces ==
  ASSUME Shapes, Flush
  PROVE  \E events \in Seq(Events) : events = EarlyOf(work[1].token) /\ FlushedTo(events)
<1>1. PICK events \in Seq(Events) :
              /\ events = EarlyOf(work[1].token)
              /\ Len(work') = Len(events) + Len(work) - 1
              /\ \A i \in 1 .. Len(events) : work'[i] = [do |-> "event", event |-> events[i]]
              /\ \A i \in 1 .. Len(work) - 1 : work'[Len(events) + i] = work[i + 1]
  BY FlushShapes
<1>2. work # <<>> /\ Shapes'
  BY FlushShapes
<1>3. /\ DOMAIN work' = 1 .. Len(events) + Len(work) - 1 /\ Len(events) \in Nat /\ Len(work) \in Nat
      /\ Len(work) > 0 /\ DOMAIN work = 1 .. Len(work) /\ DOMAIN events = 1 .. Len(events)
  BY <1>1, <1>2 DEF Shapes
<1>4. \A i \in DOMAIN events : i \in DOMAIN work' /\ work'[i] = [do |-> "event", event |-> events[i]]
  BY <1>1, <1>3
<1>5. ASSUME NEW i \in DOMAIN work', i \notin DOMAIN events
      PROVE  \E k \in DOMAIN work : k > 1 /\ i = Len(events) + k - 1 /\ work'[i] = work[k]
  <2>1. i \in 1 .. Len(events) + Len(work) - 1
    BY <1>3
  <2>2. PICK k \in 1 .. Len(work) - 1 : i = Len(events) + k
    BY <1>3, <1>5, <2>1, FirstOrLater
  <2>3. k + 1 \in DOMAIN work /\ k + 1 > 1 /\ i = Len(events) + (k + 1) - 1
    BY <1>3, <2>2
  <2>4. work'[i] = work[k + 1]
    BY <1>1, <2>2
  <2> QED BY <2>3, <2>4
<1> QED BY <1>1, <1>3, <1>4, <1>5 DEF FlushedTo

\* What is handled after an event: its tellings in the order of the local tokens, and then what was to come.
RoutedTo(order) ==
  /\ DOMAIN work' = 1 .. Len(order) + Len(work) - 1
  /\ \A i \in DOMAIN order : i \in DOMAIN work'
                             /\ work'[i] = [do |-> "tell", owned |-> order[i], event |-> work[1].event]
  /\ \A i \in DOMAIN work' :
       \/ i \in DOMAIN order /\ work'[i] = [do |-> "tell", owned |-> order[i], event |-> work[1].event]
       \/ i \notin DOMAIN order /\ \E k \in DOMAIN work : k > 1 /\ i = Len(order) + k - 1 /\ work'[i] = work[k]

LEMMA RoutePlaces ==
  ASSUME Shapes, Named, Route
  PROVE  \E order \in Seq(Helds) :
           /\ RoutedTo(order)
           /\ \A i \in DOMAIN order : order[i] \in Holders(work[1].event.token)
           /\ \A o \in Holders(work[1].event.token) : \E i \in DOMAIN order : order[i] = o
           /\ \A i, j \in DOMAIN order : i < j => order[i].local < order[j].local
<1>1. PICK order \in Seq(Helds) :
          /\ \A i \in 1 .. Len(order) : order[i] \in Holders(work[1].event.token)
          /\ \A o \in Holders(work[1].event.token) : \E i \in 1 .. Len(order) : order[i] = o
          /\ \A i, j \in 1 .. Len(order) : i < j => order[i].local < order[j].local
          /\ Len(work') = Len(order) + Len(work) - 1
          /\ \A i \in 1 .. Len(order) :
               work'[i] = [do |-> "tell", owned |-> order[i], event |-> work[1].event]
          /\ \A i \in 1 .. Len(work) - 1 : work'[Len(order) + i] = work[i + 1]
  BY RouteShapes
<1>2. work # <<>> /\ Shapes'
  BY RouteShapes
<1>3. /\ DOMAIN work' = 1 .. Len(order) + Len(work) - 1 /\ Len(order) \in Nat /\ Len(work) \in Nat
      /\ Len(work) > 0 /\ DOMAIN work = 1 .. Len(work) /\ DOMAIN order = 1 .. Len(order)
  BY <1>1, <1>2 DEF Shapes
<1>4. \A i \in DOMAIN order : i \in DOMAIN work'
                              /\ work'[i] = [do |-> "tell", owned |-> order[i], event |-> work[1].event]
  BY <1>1, <1>3
<1>5. ASSUME NEW i \in DOMAIN work', i \notin DOMAIN order
      PROVE  \E k \in DOMAIN work : k > 1 /\ i = Len(order) + k - 1 /\ work'[i] = work[k]
  <2>1. i \in 1 .. Len(order) + Len(work) - 1
    BY <1>3
  <2>2. PICK k \in 1 .. Len(work) - 1 : i = Len(order) + k
    BY <1>3, <1>5, <2>1, FirstOrLater
  <2>3. k + 1 \in DOMAIN work /\ k + 1 > 1 /\ i = Len(order) + (k + 1) - 1
    BY <1>3, <2>2
  <2>4. work'[i] = work[k + 1]
    BY <1>1, <2>2
  <2> QED BY <2>3, <2>4
<1>6. RoutedTo(order)
  BY <1>3, <1>4, <1>5 DEF RoutedTo
<1> QED BY <1>1, <1>3, <1>6

LEMMA FlushEnds == ASSUME Shapes, Ends, Flush PROVE Ends'
<1>1. node' = node /\ fromNode' = fromNode
  BY DEF Flush
<1>2. SentSound'
  BY <1>1, ReadsNone, SameIsFresh, SentStaysSound DEF Ends
<1>3. EarlySound'
  <2>1. PICK t : early' = EarlyDropped(t)
    BY FlushShapes
  <2>2. EarlyStays
    BY <2>1, DroppedParts DEF EarlyStays
  <2> QED BY <1>1, <2>2, SameIsFresh, EarlyStaysSound DEF Ends
<1>4. WorkSound'
  <2>1. PICK events \in Seq(Events) : events = EarlyOf(work[1].token) /\ FlushedTo(events)
    BY FlushPlaces
  <2>2. ASSUME NEW i \in DOMAIN events, work'[i] = [do |-> "event", event |-> events[i]] PROVE Sound(work[i].event)'
    <3>1. work'[i].event = events[i]
      BY <2>2
    <3>2. \E k \in DOMAIN early : i \in DOMAIN early[k].events /\ events[i] = early[k].events[i]
      BY <2>1, EarlyOfParts
    <3>3. PICK e : e = events[i]
      OBVIOUS
    <3>4. Sound(e)
      BY <3>2, <3>3 DEF Ends, EarlySound
    <3>5. Sound(e)'
      BY <1>1, <3>4, SameIsFresh, SoundStays
    <3> QED BY <3>1, <3>3, <3>5
  <2>3. ASSUME NEW i \in DOMAIN work', NEW k \in DOMAIN work, work'[i] = work[k], work'[i].do = "event"
        PROVE  Sound(work[i].event)'
    <3>1. PICK e : e = work[k].event
      OBVIOUS
    <3>2. Sound(e)
      BY <2>3, <3>1 DEF Ends, WorkSound
    <3>3. Sound(e)'
      BY <1>1, <3>2, SameIsFresh, SoundStays
    <3> QED BY <2>3, <3>1, <3>3
  <2>4. ASSUME NEW i \in DOMAIN work', work'[i].do = "event" PROVE Sound(work[i].event)'
    BY <2>1, <2>2, <2>3, <2>4 DEF FlushedTo
  <2> QED BY <2>4 DEF WorkSound
<1> QED BY <1>2, <1>3, <1>4 DEF Ends

LEMMA RouteEnds == ASSUME Shapes, Named, Ends, Route PROVE Ends'
<1>1. node' = node /\ fromNode' = fromNode
  BY DEF Route
<1>2. SentSound'
  BY <1>1, ReadsNone, SameIsFresh, SentStaysSound DEF Ends
<1>3. work # <<>> /\ work[1].do = "event" /\ work[1].event \in Events /\ Shapes'
  BY RouteShapes
<1>4. PICK e \in Events : e = work[1].event
  BY <1>3
<1>5. Sound(e)
  <2>1. 1 \in DOMAIN work
    BY <1>3, HeadTail DEF Shapes
  <2> QED BY <1>3, <1>4, <2>1 DEF Ends, WorkSound
<1>6. EarlySound'
  <2>1. CASE early' = early
    BY <1>1, <2>1, SameIsFresh, EarlyStaysSound DEF Ends, EarlyStays
  <2>2. CASE early' = Buffered(e)
    <3>1. ASSUME NEW i \in DOMAIN early' PROVE early'[i].token \in DOMAIN node'.sent
      BY <1>1, <1>5, <2>2, BufferedParts DEF Ends, EarlySound, Sound
    <3>2. ASSUME NEW i \in DOMAIN early', NEW j \in DOMAIN early'[i].events PROVE Sound(early[i].events[j])'
      <4>1. PICK x : x = early'[i].events[j]
        OBVIOUS
      <4>2. x = e \/ \E k \in DOMAIN early : \E l \in DOMAIN early[k].events : x = early[k].events[l]
        BY <2>2, <4>1, BufferedParts
      <4>3. Sound(x)
        BY <1>5, <4>2 DEF Ends, EarlySound
      <4>4. Sound(x)'
        BY <1>1, <4>3, SameIsFresh, SoundStays
      <4> QED BY <4>1, <4>4
    <3> QED BY <3>1, <3>2 DEF EarlySound
  <2> QED BY <1>4, <2>1, <2>2, RouteShapes
<1>7. WorkStays
  <2>1. PICK order \in Seq(Helds) : RoutedTo(order)
    BY RoutePlaces
  <2>2. \A i \in DOMAIN order : [do |-> "tell", owned |-> order[i], event |-> work[1].event].do = "tell"
    OBVIOUS
  <2> QED BY <2>1, <2>2 DEF WorkStays, RoutedTo
<1>8. WorkSound'
  BY <1>1, <1>7, SameIsFresh, WorkStaysSound DEF Ends
<1> QED BY <1>2, <1>6, <1>8 DEF Ends

LEMMA NodeGrowsSound ==
  ASSUME Ends, Fresh, UNCHANGED <<work, early>>,
         \A i \in DOMAIN fromNode' : \/ i \in DOMAIN fromNode /\ fromNode'[i] = fromNode[i]
                                     \/ fromNode'[i].msg = "event" => Sound(fromNode[i].event)'
  PROVE  Ends'
<1>1. WorkSound' /\ EarlySound'
  BY WorkStaysSound, EarlyStaysSound DEF Ends, WorkStays, EarlyStays
<1>2. ASSUME NEW i \in DOMAIN fromNode', fromNode'[i].msg = "event" PROVE Sound(fromNode[i].event)'
  <2>1. CASE i \in DOMAIN fromNode /\ fromNode'[i] = fromNode[i]
    <3>1. PICK e : e = fromNode[i].event
      OBVIOUS
    <3>2. Sound(e)
      BY <1>2, <2>1, <3>1 DEF Ends, SentSound
    <3>3. Sound(e)'
      BY <3>2, SoundStays
    <3> QED BY <2>1, <3>1, <3>3
  <2> QED BY <1>2, <2>1
<1> QED BY <1>1, <1>2 DEF Ends, SentSound

LEMMA NodeStepEnds == ASSUME Shapes, Known, OneToken, Ends, Shapes', NodeStep PROVE Ends'
<1>1. \A x \in node.subs : x.token \in DOMAIN node.sent
  BY DEF Known
<1>2. fromNode \in Seq(Replies) /\ DOMAIN fromNode = 1 .. Len(fromNode)
  BY DEF Shapes
<1>3. ASSUME NEW m, m \in Replies, fromNode' = Append(fromNode, m)
      PROVE  \A i \in DOMAIN fromNode' : \/ i \in DOMAIN fromNode /\ fromNode'[i] = fromNode[i]
                                         \/ fromNode'[i] = m
  <2>1. \A i \in DOMAIN fromNode' : i \in 1 .. Len(fromNode) \/ i = Len(fromNode) + 1
    BY <1>2, <1>3, Appended
  <2> QED BY <1>2, <1>3, <2>1, Appended
<1>4. CASE NodeOpens
  <2>1. UNCHANGED <<work, early>>
    BY <1>4, NodeOpensCases
  <2>2. PICK t \in Names : \E last \in DOMAIN fromNode' : Replied(last, t) /\ Opened(t)
    BY <1>4, NodeOpensReplies
  <2>3. PICK last \in DOMAIN fromNode' : Replied(last, t) /\ Opened(t)
    BY <2>2
  <2>4. NewToken \notin DOMAIN node.sent
    BY SentParts DEF NewToken
  <2>5. Sub(NewToken, Query.method).token = NewToken
    BY DEF Sub
  <2>6. Fresh
    BY <2>3, <2>4, <2>5 DEF Opened, Fresh
  <2>7. ASSUME NEW i \in DOMAIN fromNode', fromNode'[i].msg = "event", i \notin DOMAIN fromNode
        PROVE  Sound(fromNode[i].event)'
    <3>1. fromNode'[last].msg = "answer"
      BY <2>3 DEF Replied, AnswerMsg
    <3>2. /\ fromNode'[i].event.token = NewToken /\ NewToken \in DOMAIN node'.sent
          /\ fromNode'[i].event.ends => node'.subs = node.subs
      BY <2>3, <2>7, <3>1 DEF Replied
    <3> QED BY <1>1, <2>4, <3>2 DEF Sound
  <2>8. \A i \in DOMAIN fromNode : fromNode'[i] = fromNode[i]
    BY <2>3 DEF Replied
  <2> QED BY <2>1, <2>6, <2>7, <2>8, NodeGrowsSound
<1>5. CASE NodeReads
  <2>1. /\ UNCHANGED <<work, early>> /\ node'.subs \subseteq node.subs /\ node'.sent = node.sent /\ Query.id \in Nat
        /\ fromNode' = fromNode \/ fromNode' = Append(fromNode, AnswerMsg(Query.id, None))
    BY <1>5, NodeReadsShapes, QueryShapes
  <2>2. Fresh
    BY <2>1 DEF Fresh
  <2>3. PICK m : m = AnswerMsg(Query.id, None)
    OBVIOUS
  <2>4. m \in Replies /\ m.msg = "answer"
    BY <2>1, <2>3, MessageShapes DEF AnswerMsg, Names
  <2>5. \A i \in DOMAIN fromNode' : \/ i \in DOMAIN fromNode /\ fromNode'[i] = fromNode[i]
                                    \/ fromNode'[i] = m
    BY <1>3, <2>1, <2>3, <2>4
  <2>6. \A i \in DOMAIN fromNode' : \/ i \in DOMAIN fromNode /\ fromNode'[i] = fromNode[i]
                                    \/ fromNode'[i].msg = "event" => Sound(fromNode[i].event)'
    BY <2>4, <2>5
  <2> QED BY <2>1, <2>2, <2>6, NodeGrowsSound
<1>6. ASSUME NEW x \in node.subs, NEW ends \in BOOLEAN, NodeSends(x, ends) PROVE Ends'
  <2>1. PICK m : m = EventMsg(x.token, node.sent[x.token] + 1, ends)
    OBVIOUS
  <2>2. /\ fromNode' = Append(fromNode, m) /\ m \in Replies /\ UNCHANGED <<work, early>>
        /\ node'.sent = [node.sent EXCEPT ![x.token] = @ + 1]
        /\ node'.subs = IF ends THEN node.subs \ {x} ELSE node.subs
    BY <1>1, <1>6, <2>1, NodeSendsShapes
  <2>3. DOMAIN node'.sent = DOMAIN node.sent /\ node'.subs \subseteq node.subs
    BY <2>2
  <2>4. Fresh
    BY <2>3 DEF Fresh
  <2>5. m.event.token = x.token /\ m.event.ends = ends
    BY <2>1 DEF EventMsg
  <2>6. PICK e : e = m.event
    OBVIOUS
  <2>7. Sound(e)'
    BY <1>1, <2>2, <2>3, <2>5, <2>6 DEF Sound, OneToken
  <2>8. ASSUME NEW i \in DOMAIN fromNode', fromNode'[i] = m PROVE Sound(fromNode[i].event)'
    BY <2>6, <2>7, <2>8
  <2>9. \A i \in DOMAIN fromNode' : \/ i \in DOMAIN fromNode /\ fromNode'[i] = fromNode[i]
                                    \/ fromNode'[i] = m
    BY <1>3, <2>2
  <2> QED BY <2>2, <2>4, <2>8, <2>9, NodeGrowsSound
<1> QED BY <1>4, <1>5, <1>6 DEF NodeStep

LEMMA WorkTailStays == ASSUME Shapes, work # <<>>, work' = Tail(work) PROVE WorkStays
<1>1. \A i \in DOMAIN Tail(work) : i + 1 \in DOMAIN work /\ work[i + 1] = Tail(work)[i]
  BY DEF Shapes
<1> QED BY <1>1 DEF WorkStays

LEMMA HandleAnswerEnds == ASSUME Shapes, Ends, HandleAnswer PROVE Ends'
<1>1. fromNode # <<>> /\ fromNode' = Tail(fromNode) /\ node' = node
  BY HandleAnswerCases
<1>2. SentSound'
  BY <1>1, ReadsOne, SameIsFresh, SentStaysSound DEF Ends
<1>3. EarlyStays
  <2>1. CASE early' = early
    BY <2>1 DEF EarlyStays
  <2>2. ASSUME NEW t, early' = EarlyDropped(t) PROVE EarlyStays
    BY <2>2, DroppedParts DEF EarlyStays
  <2> QED BY <2>1, <2>2, HandleAnswerCases DEF Unknown, Mapped, Relayed, Freed, Closed
<1>4. WorkStays
  <2>1. CASE work' = work
    BY <2>1 DEF WorkStays
  <2>2. ASSUME NEW p \in pending, Mapped(p) PROVE WorkStays
    <3>1. work' = <<[do |-> "flush", token |-> Reply.token]>>
      BY <2>2, MappedShapes
    <3> QED BY <3>1 DEF WorkStays
  <2> QED BY <2>1, <2>2, HandleAnswerCases DEF Unknown, Relayed, Freed, Closed
<1>5. WorkSound' /\ EarlySound'
  BY <1>1, <1>3, <1>4, SameIsFresh, WorkStaysSound, EarlyStaysSound DEF Ends
<1> QED BY <1>2, <1>5 DEF Ends

LEMMA EndsNext == ASSUME BaseInv, OneKind, Ends, [Next]_vars PROVE Ends'
<1> USE DEF BaseInv
<1>1. Shapes'
  BY BaseInvNext
<1>2. ASSUME UNCHANGED <<fromNode, early, node>>, WorkStays PROVE Ends'
  BY <1>2, ReadsNone, SameIsFresh, SentStaysSound, WorkStaysSound, EarlyStaysSound DEF Ends, EarlyStays
<1>3. ASSUME work' = work PROVE WorkStays
  BY <1>3 DEF WorkStays
<1>4. CASE UNCHANGED vars
  BY <1>2, <1>3, <1>4 DEF vars
<1>5. ASSUME Dropped, WorkStays PROVE Ends'
  <2>1. Fresh
    BY <1>5, DroppedShapes DEF Fresh
  <2>2. SentSound' /\ EarlySound'
    BY <1>5 DEF Dropped, SentSound, EarlySound
  <2> QED BY <1>5, <2>1, <2>2, WorkStaysSound DEF Ends
<1>6. CASE OwnerStep
  <2>1. CASE DisconnectAll
    BY <1>3, <1>5, <2>1, DisconnectAllShapes DEF DisconnectAll, DropUpstream
  <2>2. CASE Halt
    <3>1. PICK h : h = [do |-> "halt"]
      OBVIOUS
    <3>2. work' = <<h>> \o work /\ h \in WorkItems /\ work \in Seq(WorkItems) /\ h.do = "halt"
      BY <2>2, <3>1 DEF Halt, WorkItems, Shapes
    <3>3. /\ Len(work') = Len(work) + 1 /\ work'[1] = h /\ DOMAIN work' = 1 .. Len(work) + 1
          /\ \A i \in 1 .. Len(work) : work'[i + 1] = work[i]
          /\ Len(work) \in Nat /\ DOMAIN work = 1 .. Len(work)
      BY <3>2, InFront
    <3>4. WorkStays
      <4> SUFFICES ASSUME NEW i \in DOMAIN work', work'[i].do = "event" PROVE \E j \in DOMAIN work : work[j] = work'[i]
        BY DEF WorkStays
      <4>1. i # 1
        BY <3>2, <3>3
      <4>2. i \in 1 .. Len(work) + 1
        BY <3>3
      <4>3. i - 1 \in 1 .. Len(work) /\ i = (i - 1) + 1
        BY <3>3, <4>1, <4>2
      <4> QED BY <3>3, <4>3
    <3> QED BY <1>2, <2>2, <3>4 DEF Halt
  <2> QED BY <1>6, <2>1, <2>2 DEF OwnerStep
<1>7. CASE HaltEnds
  <2>1. work # <<>> /\ work' = Tail(work)
    BY <1>7 DEF HaltEnds, Halting
  <2> QED BY <1>5, <1>7, <2>1, HaltEndsShapes, WorkTailStays
<1>8. CASE SessionStep
  <2>1. UNCHANGED <<fromNode, early, node, work>>
    BY <1>8 DEF SessionStep, Connect, Leave, LeaveHalting, Subscribe, Call, Release
  <2> QED BY <1>2, <1>3, <2>1
<1>9. CASE \E s \in Sessions : HaltSession(s)
  BY <1>2, <1>3, <1>9 DEF HaltSession
<1>10. CASE Tell
  <2>1. work # <<>> /\ work' = Tail(work) /\ UNCHANGED <<fromNode, early, node>>
    BY <1>10 DEF Tell, Working
  <2> QED BY <1>2, <2>1, WorkTailStays
<1>11. CASE HandleEvent
  <2>1. /\ fromNode # <<>> /\ fromNode' = Tail(fromNode) /\ UNCHANGED <<early, node>>
        /\ work' = <<[do |-> "event", event |-> Reply.event]>> /\ Reply.msg = "event"
    BY <1>11, HandleEventShapes DEF HandleEvent
  <2>2. 1 \in DOMAIN fromNode /\ Reply = fromNode[1]
    BY <2>1, HeadTail DEF Shapes, Reply
  <2>3. PICK e : e = Reply.event
    OBVIOUS
  <2>4. Sound(e)
    BY <2>1, <2>2, <2>3 DEF Ends, SentSound
  <2>5. Sound(e)'
    BY <2>1, <2>4, SameIsFresh, SoundStays
  <2>6. DOMAIN work' = {1} /\ work'[1].event = e
    BY <2>1, <2>3
  <2>7. WorkSound'
    <3>1. Sound(work[1].event)'
      BY <2>5, <2>6
    <3> QED BY <2>6, <3>1 DEF WorkSound
  <2> QED BY <2>1, <2>7, ReadsOne, SameIsFresh, SentStaysSound, EarlyStaysSound DEF Ends, EarlyStays
<1> QED BY <1>1, <1>4, <1>6, <1>7, <1>8, <1>9, <1>10, <1>11, HandleAnswerEnds, FlushEnds, RouteEnds, NodeStepEnds
    DEF Next, BrokerStep, OneKind

----------------------------------------------------------------------------
(* Nothing runs for nobody: a subscription the node runs has a holder, the *)
(* answer that names it is on the way to a request that is pending, or its *)
(* release is on the way to the node.                                      *)

Kept(x) ==
  \/ \E o \in owned : o.token = x.token
  \/ \E p \in pending, i \in DOMAIN fromNode : p.owner.method = x.kind /\ fromNode[i] = AnswerMsg(p.id, x.token)
  \/ \E i \in DOMAIN toNode : toNode[i].method = ReleaseOf(x.kind) /\ toNode[i].token = x.token
Cared == \A x \in node.subs : x.token \notin node.lost => Kept(x)

\* Requests are added to those on the way to the node, and to the pending ones.
Sends ==
  /\ \A i \in DOMAIN toNode : i \in DOMAIN toNode' /\ toNode'[i] = toNode[i]
  /\ \A p \in pending : \E q \in pending' : q.id = p.id /\ q.owner.method = p.owner.method
SendsOne(method, token) ==
  \E i \in DOMAIN toNode' : toNode'[i].method = method /\ toNode'[i].token = token

LEMMA KeptStays ==
  ASSUME NEW x \in node.subs, Kept(x), Sends, fromNode' = fromNode,
         (\E o \in owned : o.token = x.token) => Kept(x)'
  PROVE  Kept(x)'
<1>1. ASSUME NEW p \in pending, NEW i \in DOMAIN fromNode, p.owner.method = x.kind,
             fromNode[i] = AnswerMsg(p.id, x.token)
      PROVE  Kept(x)'
  <2>1. PICK q \in pending' : q.id = p.id /\ q.owner.method = p.owner.method
    BY DEF Sends
  <2>2. AnswerMsg(q.id, x.token) = AnswerMsg(p.id, x.token)
    BY <2>1 DEF AnswerMsg
  <2> QED BY <1>1, <2>1, <2>2 DEF Kept, AnswerMsg
<1>2. ASSUME NEW i \in DOMAIN toNode, toNode[i].method = ReleaseOf(x.kind), toNode[i].token = x.token
      PROVE  Kept(x)'
  BY <1>2 DEF Sends, Kept
<1> QED BY <1>1, <1>2 DEF Kept

LEMMA TrackSends ==
  ASSUME Shapes, Shapes', NEW left \in SUBSET Pendings, IsFiniteSet(left), NEW owners \in Seq(Owners),
         Track(left, owners),
         \A p \in pending : \E q \in left : q.id = p.id /\ q.owner.method = p.owner.method
  PROVE  Sends /\ \A i \in 1 .. Len(owners) : SendsOne(owners[i].method, owners[i].token)
<1>1. /\ pending' = left \cup Tracked(counter, owners)
      /\ Len(toNode') = Len(toNode) + Len(owners)
      /\ \A i \in 1 .. Len(toNode) : toNode'[i] = toNode[i]
      /\ \A i \in 1 .. Len(owners) :
           toNode'[Len(toNode) + i] = [id |-> counter + i, method |-> owners[i].method, token |-> owners[i].token]
  BY TrackAdds
<1>2. /\ DOMAIN toNode = 1 .. Len(toNode) /\ Len(toNode) \in Nat /\ Len(owners) \in Nat
      /\ DOMAIN toNode' = 1 .. Len(toNode')
  BY DEF Shapes
<1>3. Sends
  BY <1>1, <1>2 DEF Sends
<1>4. ASSUME NEW i \in 1 .. Len(owners) PROVE SendsOne(owners[i].method, owners[i].token)
  <2>1. Len(toNode) + i \in DOMAIN toNode'
    BY <1>1, <1>2
  <2>2. toNode'[Len(toNode) + i] = [id |-> counter + i, method |-> owners[i].method, token |-> owners[i].token]
    BY <1>1
  <2> QED BY <2>1, <2>2 DEF SendsOne
<1> QED BY <1>3, <1>4

LEMMA ForwardSends ==
  ASSUME Shapes, Shapes', NEW s \in Sessions, NEW withId \in BOOLEAN, NEW method \in Methods, NEW token \in Names,
         Forward(s, withId, method, token)
  PROVE  Sends /\ SendsOne(method, token)
<1>1. ASSUME NEW owner, ForwardsAs(owner), owner.method = method, owner.token = token
      PROVE  Sends /\ SendsOne(method, token)
  <2>1. <<owner>> \in Seq(Owners) /\ Track(pending, <<owner>>) /\ Len(<<owner>>) = 1 /\ <<owner>>[1] = owner
    BY <1>1 DEF ForwardsAs
  <2>2. pending \in SUBSET Pendings /\ IsFiniteSet(pending)
    BY DEF Shapes
  <2>3. Sends /\ \A i \in 1 .. Len(<<owner>>) : SendsOne(<<owner>>[i].method, <<owner>>[i].token)
    BY <2>1, <2>2, TrackSends
  <2>4. SendsOne(<<owner>>[1].method, <<owner>>[1].token)
    BY <2>1, <2>3
  <2> QED BY <1>1, <2>1, <2>3, <2>4
<1>2. ASSUME toNode' = Append(toNode, [id |-> 0, method |-> method, token |-> token]), pending' = pending
      PROVE  Sends /\ SendsOne(method, token)
  <2>1. PICK q : q = [id |-> 0, method |-> method, token |-> token]
    OBVIOUS
  <2>2. q \in Queries /\ q.method = method /\ q.token = token /\ toNode \in Seq(Queries) /\ toNode' = Append(toNode, q)
    BY <1>2, <2>1 DEF Queries, Shapes
  <2>3. /\ DOMAIN toNode = 1 .. Len(toNode) /\ Len(toNode) \in Nat /\ DOMAIN toNode' = 1 .. Len(toNode) + 1
        /\ toNode'[Len(toNode) + 1] = q /\ \A i \in 1 .. Len(toNode) : toNode'[i] = toNode[i]
    BY <2>2, Appended
  <2>4. Len(toNode) + 1 \in DOMAIN toNode'
    BY <2>3
  <2> QED BY <1>2, <2>2, <2>3, <2>4 DEF Sends, SendsOne
<1>3. /\ \A kind, client : Owner(kind, None, client, method, token).method = method
                           /\ Owner(kind, None, client, method, token).token = token
      /\ \A kind, client : Owner(kind, s, client, method, token).method = method
                           /\ Owner(kind, s, client, method, token).token = token
  BY DEF Owner
<1> QED BY <1>1, <1>2, <1>3, ForwardTracks

LEMMA ReleaseKeeps ==
  ASSUME Shapes, HeldKinds, Shapes', NEW s \in Sessions, NEW l \in DOMAIN heard, NEW withId \in BOOLEAN,
         Release(s, l, withId), NEW x \in node.subs, Kept(x)
  PROVE  Kept(x)'
<1>1. fromNode' = fromNode
  BY DEF Release
<1>2. ASSUME AnswerHere(s, withId) PROVE Sends
  BY <1>2 DEF AnswerHere, Sends
<1>3. CASE AnswerHere(s, withId) /\ owned' = owned
  BY <1>1, <1>2, <1>3, KeptStays DEF Kept
<1>4. ASSUME NEW o \in owned, owned' = owned \ {o}, Holders(o.token) = {o},
             Forward(s, withId, ReleaseOf(o.kind), o.token)
      PROVE  Kept(x)'
  <2>1. o.kind \in Kinds /\ o.token \in Names
    BY DEF Shapes, Helds, Names
  <2>2. ReleaseOf(o.kind) \in Methods
    BY <2>1, ReleasesAreMethods
  <2>3. Sends /\ SendsOne(ReleaseOf(o.kind), o.token)
    BY <1>4, <2>1, <2>2, ForwardSends
  <2>4. ASSUME NEW y \in owned, y.token = x.token PROVE Kept(x)'
    <3>1. CASE y = o
      <4>1. x.kind = o.kind
        BY <2>4, <3>1 DEF HeldKinds
      <4> QED BY <2>3, <2>4, <3>1, <4>1 DEF SendsOne, Kept
    <3>2. CASE y # o
      BY <1>4, <2>4, <3>2 DEF Kept
    <3> QED BY <3>1, <3>2
  <2> QED BY <1>1, <2>3, <2>4, KeptStays
<1>5. ASSUME NEW o \in owned, owned' = owned \ {o}, Holders(o.token) # {o}, AnswerHere(s, withId)
      PROVE  Kept(x)'
  <2>1. PICK z \in owned : z.token = o.token /\ z # o
    BY <1>5 DEF Holders
  <2>2. ASSUME NEW y \in owned, y.token = x.token PROVE Kept(x)'
    <3>1. \E w \in owned' : w.token = x.token
      BY <1>5, <2>1, <2>2
    <3> QED BY <3>1 DEF Kept
  <2> QED BY <1>1, <1>2, <1>5, <2>2, KeptStays
<1> QED BY <1>3, <1>4, <1>5 DEF Release

LEMMA LeaveKeeps ==
  ASSUME Shapes, Named, HeldKinds, Shapes', NEW s \in Sessions, Leave(s), NEW x \in node.subs, Kept(x)
  PROVE  Kept(x)'
<1>1. PICK sent \in Seq(Owners) :
        /\ Track(Orphaned(s), sent)
        /\ \A o \in LastOf(s) : \E i \in 1 .. Len(sent) : sent[i] = SentRelease(o.kind, o.token)
  BY LeaveTracks
<1>2. Orphaned(s) \in SUBSET Pendings /\ IsFiniteSet(Orphaned(s))
  BY OrphanedShapes
<1>3. Sends /\ \A i \in 1 .. Len(sent) : SendsOne(sent[i].method, sent[i].token)
  BY <1>1, <1>2, OrphanedParts, TrackSends
<1>4. fromNode' = fromNode /\ owned' = owned \ Mine(s)
  BY DEF Leave, Mine
<1>5. ASSUME NEW y \in owned, y.token = x.token PROVE Kept(x)'
  <2>1. CASE \E z \in owned : z.token = x.token /\ z.session # s
    BY <1>4, <2>1 DEF Kept, Mine
  <2>2. CASE \A z \in owned : z.token = x.token => z.session = s
    <3>1. Holders(x.token) \in SUBSET owned /\ Holders(x.token) # {}
      BY <1>5 DEF Holders
    <3>2. PICK o \in Holders(x.token) : \A z \in Holders(x.token) : z.local <= o.local
      BY <3>1, OwnedApart, HasLast
    <3>3. o \in LastOf(s) /\ o.token = x.token /\ o.kind = x.kind
      BY <2>2, <3>2 DEF Holders, LastOf, Mine, HeldKinds
    <3>4. PICK i \in 1 .. Len(sent) : sent[i] = SentRelease(o.kind, o.token)
      BY <1>1, <3>3
    <3>5. sent[i].method = ReleaseOf(x.kind) /\ sent[i].token = x.token
      BY <3>3, <3>4 DEF SentRelease, Owner
    <3>6. SendsOne(sent[i].method, sent[i].token)
      BY <1>3
    <3> QED BY <3>5, <3>6 DEF SendsOne, Kept
  <2> QED BY <2>1, <2>2
<1> QED BY <1>3, <1>4, <1>5, KeptStays

LEMMA SessionStepKeeps ==
  ASSUME Shapes, Named, HeldKinds, Shapes', SessionStep, NEW x \in node.subs, Kept(x)
  PROVE  Kept(x)'
<1>1. PICK s \in Sessions :
    \/ Connect(s) \/ Leave(s) \/ LeaveHalting(s)
    \/ \E kind \in Kinds, withId \in BOOLEAN : Subscribe(s, kind, withId)
    \/ \E l \in DOMAIN heard : Call(s, l)
    \/ \E l \in DOMAIN heard, withId \in BOOLEAN : Release(s, l, withId)
  BY DEF SessionStep
<1>2. ASSUME UNCHANGED <<owned, fromNode>>, Sends PROVE Kept(x)'
  BY <1>2, KeptStays DEF Kept
<1>3. ASSUME UNCHANGED <<pending, toNode>> PROVE Sends
  BY <1>3 DEF Sends
<1>4. CASE Connect(s) \/ LeaveHalting(s)
  BY <1>2, <1>3, <1>4 DEF Connect, LeaveHalting
<1>5. None \in Names /\ "call" \in Methods /\ \A kind \in Kinds : kind \in Methods
  BY ReleasesAreMethods DEF Names
<1>6. ASSUME NEW kind \in Kinds, NEW withId \in BOOLEAN, Subscribe(s, kind, withId) PROVE Kept(x)'
  BY <1>2, <1>5, <1>6, ForwardSends DEF Subscribe
<1>7. ASSUME NEW l \in DOMAIN heard, Call(s, l) PROVE Kept(x)'
  <2>1. CASE AnswerHere(s, TRUE)
    BY <1>2, <1>3, <1>7, <2>1 DEF AnswerHere, Call
  <2>2. CASE Forward(s, TRUE, "call", None)
    <3>1. Sends
      BY <1>5, <2>2, ForwardSends
    <3> QED BY <1>2, <1>7, <3>1 DEF Call
  <2> QED BY <1>7, <2>1, <2>2 DEF Call
<1> QED BY <1>1, <1>4, <1>6, <1>7, ReleaseKeeps, LeaveKeeps

LEMMA FreedSends ==
  ASSUME Shapes, HandleAnswer, NEW p \in pending, Freed(p)
  PROVE  /\ \A i \in DOMAIN toNode : i \in DOMAIN toNode' /\ toNode'[i] = toNode[i]
         /\ SendsOne(ReleaseOf(p.owner.method), Reply.token)
         /\ pending \ {p} \subseteq pending'
<1>1. PICK owner : owner = SentRelease(p.owner.method, Reply.token)
  OBVIOUS
<1>2. Shapes' /\ <<owner>> \in Seq(Owners) /\ Track(pending \ {p}, <<owner>>) /\ Len(<<owner>>) = 1 /\ <<owner>>[1] = owner
  BY <1>1, FreedShapes DEF Freed
<1>3. pending \ {p} \in SUBSET Pendings /\ IsFiniteSet(pending \ {p})
  BY FS_Subset DEF Shapes
<1>4. owner.method = ReleaseOf(p.owner.method) /\ owner.token = Reply.token
  BY <1>1 DEF SentRelease, Owner
<1>5. /\ pending' = (pending \ {p}) \cup Tracked(counter, <<owner>>)
      /\ Len(toNode') = Len(toNode) + Len(<<owner>>)
      /\ \A i \in 1 .. Len(toNode) : toNode'[i] = toNode[i]
      /\ \A i \in 1 .. Len(<<owner>>) :
           toNode'[Len(toNode) + i] = [id |-> counter + i, method |-> <<owner>>[i].method, token |-> <<owner>>[i].token]
  BY <1>2, <1>3, TrackAdds
<1>6. /\ DOMAIN toNode = 1 .. Len(toNode) /\ Len(toNode) \in Nat /\ DOMAIN toNode' = 1 .. Len(toNode')
  BY <1>2 DEF Shapes
<1>7. Len(toNode') = Len(toNode) + 1
  BY <1>2, <1>5
<1>8. Len(toNode) + 1 \in DOMAIN toNode'
  BY <1>6, <1>7
<1>9. toNode'[Len(toNode) + 1] = [id |-> counter + 1, method |-> owner.method, token |-> owner.token]
  BY <1>2, <1>5
<1> QED BY <1>4, <1>5, <1>6, <1>7, <1>8, <1>9 DEF SendsOne

\* An answer takes nothing that is held, or on the way, and no request but its own.
LEMMA AnswerMoves ==
  ASSUME Shapes, HandleAnswer
  PROVE  /\ owned \subseteq owned'
         /\ \A i \in DOMAIN toNode : i \in DOMAIN toNode' /\ toNode'[i] = toNode[i]
         /\ \A q \in pending : q \in pending' \/ q.id = Reply.id
<1>1. CASE Unknown
  BY <1>1 DEF Unknown
<1>2. ASSUME NEW p \in pending, p.id = Reply.id, Relayed(p) \/ Closed(p) \/ Mapped(p)
      PROVE  /\ owned \subseteq owned' /\ UNCHANGED toNode
             /\ \A q \in pending : q \in pending' \/ q.id = Reply.id
  BY <1>2, MappedShapes DEF Relayed, Closed, Mapped
<1>3. ASSUME NEW p \in pending, p.id = Reply.id, Freed(p)
      PROVE  /\ owned \subseteq owned' /\ \A i \in DOMAIN toNode : i \in DOMAIN toNode' /\ toNode'[i] = toNode[i]
             /\ \A q \in pending : q \in pending' \/ q.id = Reply.id
  <2>1. owned' = owned
    BY <1>3 DEF Freed
  <2>2. \A q \in pending : q \in pending' \/ q = p
    BY <1>3, FreedSends
  <2> QED BY <1>3, <2>1, <2>2, FreedSends
<1> QED BY <1>1, <1>2, <1>3, HandleAnswerCases

LEMMA HandleAnswerKeeps ==
  ASSUME Shapes, Ids, HandleAnswer, NEW x \in node.subs, Kept(x)
  PROVE  Kept(x)'
<1>1. /\ fromNode # <<>> /\ fromNode' = Tail(fromNode) /\ Reply.msg = "answer"
      /\ 1 \in DOMAIN fromNode /\ Reply = fromNode[1]
  BY HandleAnswerCases, HeadTail DEF Shapes, Reply
<1>2. CASE \E o \in owned : o.token = x.token
  BY <1>2, AnswerMoves DEF Kept
<1>3. CASE \E i \in DOMAIN toNode : toNode[i].method = ReleaseOf(x.kind) /\ toNode[i].token = x.token
  <2>1. PICK i \in DOMAIN toNode : toNode[i].method = ReleaseOf(x.kind) /\ toNode[i].token = x.token
    BY <1>3
  <2>2. i \in DOMAIN toNode' /\ toNode'[i] = toNode[i]
    BY AnswerMoves
  <2> QED BY <2>1, <2>2 DEF Kept
<1>4. ASSUME NEW p \in pending, NEW i \in DOMAIN fromNode, p.owner.method = x.kind, fromNode[i] = AnswerMsg(p.id, x.token)
      PROVE  Kept(x)'
  <2>1. fromNode[i].msg = "answer" /\ fromNode[i].id = p.id /\ fromNode[i].token = x.token
    BY <1>4 DEF AnswerMsg
  <2>2. CASE i = 1
    <3>1. Reply.id = p.id /\ Reply.token = x.token
      BY <1>1, <2>1, <2>2
    <3>2. x.token \in Nat /\ x.token # None /\ x.kind \in Kinds
      BY NodeShapes, NamesApart DEF Subs
    <3>3. \A q \in pending : q.id = Reply.id => q = p
      BY <3>1 DEF Ids, Numbered
    <3>4. p.owner.kind # "release"
      BY <1>4, <3>2, ReleasesAreMethods DEF Ids, Numbered
    <3>5. CASE Mapped(p)
      <4>1. owned' = owned \cup {NewHeld(p)} /\ NewHeld(p).token = x.token
        BY <3>1, <3>5, MappedShapes DEF NewHeld
      <4> QED BY <4>1 DEF Kept
    <3>6. CASE Freed(p)
      <4>1. SendsOne(ReleaseOf(x.kind), x.token)
        BY <1>4, <3>1, <3>6, FreedSends
      <4> QED BY <4>1 DEF SendsOne, Kept
    <3>7. CASE Closed(p)
      <4>1. Holders(Reply.token) # {} /\ owned' = owned
        BY <1>4, <3>1, <3>2, <3>4, <3>7 DEF Closed
      <4> QED BY <3>1, <4>1 DEF Holders, Kept
    <3>8. ~Relayed(p) /\ ~Unknown
      BY <1>4, <3>1, <3>2 DEF Relayed, Unknown
    <3>9. Mapped(p) \/ Relayed(p) \/ Freed(p) \/ Closed(p)
      BY <3>3, <3>8, HandleAnswerCases
    <3> QED BY <3>5, <3>6, <3>7, <3>8, <3>9
  <2>3. CASE i # 1
    <3>1. p \in pending'
      <4>1. fromNode[1].id # p.id
        BY <1>1, <2>1, <2>3 DEF Ids, Answering
      <4> QED BY <1>1, <4>1, AnswerMoves
    <3>2. i - 1 \in DOMAIN fromNode' /\ fromNode'[i - 1] = fromNode[i]
      <4>1. fromNode \in Seq(Replies) /\ DOMAIN fromNode = 1 .. Len(fromNode) /\ Len(fromNode) \in Nat
        BY DEF Shapes
      <4>2. /\ Tail(fromNode) \in Seq(Replies) /\ Len(Tail(fromNode)) = Len(fromNode) - 1
            /\ \A k \in 1 .. Len(fromNode) - 1 : Tail(fromNode)[k] = fromNode[k + 1]
        BY <1>1, <4>1, HeadTail
      <4>3. DOMAIN Tail(fromNode) = 1 .. Len(fromNode) - 1
        BY <4>2
      <4>4. i - 1 \in 1 .. Len(fromNode) - 1 /\ (i - 1) + 1 = i
        BY <2>3, <4>1
      <4> QED BY <1>1, <4>2, <4>3, <4>4
    <3> QED BY <1>4, <3>1, <3>2 DEF Kept, AnswerMsg
  <2> QED BY <2>2, <2>3
<1> QED BY <1>2, <1>3, <1>4 DEF Kept

\* A step that leaves the requests alone, and keeps the answers on their way.
LEMMA KeptRests ==
  ASSUME NEW x \in node.subs, Kept(x), UNCHANGED <<pending, toNode>>,
         \A i \in DOMAIN fromNode : fromNode[i].msg = "answer" => \E j \in DOMAIN fromNode' : fromNode'[j] = fromNode[i],
         (\E o \in owned : o.token = x.token) => Kept(x)'
  PROVE  Kept(x)'
<1>1. ASSUME NEW p \in pending, NEW i \in DOMAIN fromNode, p.owner.method = x.kind, fromNode[i] = AnswerMsg(p.id, x.token)
      PROVE  Kept(x)'
  <2>1. fromNode[i].msg = "answer"
    BY <1>1 DEF AnswerMsg
  <2>2. PICK j \in DOMAIN fromNode' : fromNode'[j] = fromNode[i]
    BY <2>1
  <2> QED BY <1>1, <2>2 DEF Kept, AnswerMsg
<1> QED BY <1>1 DEF Kept

LEMMA HandleEventKeeps ==
  ASSUME Shapes, HandleEvent, NEW x \in node.subs, Kept(x)
  PROVE  Kept(x)'
<1>1. /\ fromNode # <<>> /\ fromNode' = Tail(fromNode) /\ Reply.msg = "event" /\ Reply = fromNode[1]
      /\ UNCHANGED <<pending, toNode, owned>>
  BY HandleEventShapes DEF HandleEvent, Reply
<1>2. fromNode \in Seq(Replies) /\ DOMAIN fromNode = 1 .. Len(fromNode) /\ Len(fromNode) \in Nat
  BY DEF Shapes
<1>3. /\ Tail(fromNode) \in Seq(Replies) /\ Len(Tail(fromNode)) = Len(fromNode) - 1
      /\ \A k \in 1 .. Len(fromNode) - 1 : Tail(fromNode)[k] = fromNode[k + 1]
  BY <1>1, <1>2, HeadTail
<1>4. DOMAIN Tail(fromNode) = 1 .. Len(fromNode) - 1
  BY <1>3
<1>5. ASSUME NEW i \in DOMAIN fromNode, fromNode[i].msg = "answer"
      PROVE  \E j \in DOMAIN fromNode' : fromNode'[j] = fromNode[i]
  <2>1. i # 1
    BY <1>1, <1>5
  <2>2. i - 1 \in 1 .. Len(fromNode) - 1 /\ (i - 1) + 1 = i
    BY <1>2, <2>1
  <2> QED BY <1>1, <1>3, <1>4, <2>2
<1> QED BY <1>1, <1>5, KeptRests DEF Kept

LEMMA RouteKeeps ==
  ASSUME Shapes, Ends, Route, NEW x \in node.subs, Kept(x)
  PROVE  Kept(x)'
<1>1. work # <<>> /\ Head(work) = work[1] /\ work[1].do = "event"
  BY WorkHead DEF Route
<1>2. owned' = Ended(work[1].event) /\ UNCHANGED <<pending, toNode, fromNode>>
  BY <1>1 DEF Route
<1>3. 1 \in DOMAIN work
  BY <1>1, HeadTail DEF Shapes
<1>4. Sound(work[1].event)
  BY <1>1, <1>3 DEF Ends, WorkSound
<1>5. ASSUME NEW o \in owned, o.token = x.token PROVE Kept(x)'
  <2>1. o \in owned'
    BY <1>2, <1>4, <1>5 DEF Ended, Sound, Holders
  <2> QED BY <1>5, <2>1 DEF Kept
<1> QED BY <1>2, <1>5, KeptRests

\* The node takes a request, and answers after what it sent.
LEMMA KeptRead ==
  ASSUME Shapes, toNode # <<>>, toNode' = Tail(toNode), UNCHANGED <<owned, pending>>,
         \A i \in DOMAIN fromNode : i \in DOMAIN fromNode' /\ fromNode'[i] = fromNode[i],
         NEW x \in node.subs, Kept(x), Query.method # ReleaseOf(x.kind) \/ Query.token # x.token
  PROVE  Kept(x)'
<1>1. /\ Tail(toNode) \in Seq(Queries) /\ Len(toNode) \in Nat /\ Len(Tail(toNode)) = Len(toNode) - 1
      /\ \A i \in 1 .. Len(toNode) - 1 : Tail(toNode)[i] = toNode[i + 1]
  BY QueryShapes
<1>2. DOMAIN toNode = 1 .. Len(toNode) /\ DOMAIN Tail(toNode) = 1 .. Len(toNode) - 1
  BY <1>1 DEF Shapes
<1>3. ASSUME NEW i \in DOMAIN toNode, toNode[i].method = ReleaseOf(x.kind), toNode[i].token = x.token
      PROVE  Kept(x)'
  <2>1. i # 1
    BY <1>3 DEF Query
  <2>2. i - 1 \in 1 .. Len(toNode) - 1 /\ (i - 1) + 1 = i
    BY <1>1, <1>2, <2>1
  <2>3. i - 1 \in DOMAIN toNode' /\ toNode'[i - 1] = toNode[i]
    BY <1>1, <1>2, <2>2
  <2> QED BY <1>3, <2>3 DEF Kept
<1>4. ASSUME NEW p \in pending, NEW i \in DOMAIN fromNode, p.owner.method = x.kind, fromNode[i] = AnswerMsg(p.id, x.token)
      PROVE  Kept(x)'
  BY <1>4 DEF Kept, AnswerMsg
<1> QED BY <1>3, <1>4 DEF Kept

LEMMA NodeOpensKeeps ==
  ASSUME Shapes, Ids, Cared, Shapes', NodeOpens, NEW x \in node'.subs, x.token \notin node'.lost
  PROVE  Kept(x)'
<1>1. UNCHANGED <<pending, owned>> /\ toNode # <<>> /\ Query.method \in Kinds /\ toNode' = Tail(toNode)
  BY NodeOpensCases
<1>2. PICK t \in Names : \E last \in DOMAIN fromNode' : Replied(last, t) /\ Opened(t)
  BY NodeOpensReplies
<1>3. PICK last \in DOMAIN fromNode' : Replied(last, t) /\ Opened(t)
  BY <1>2
<1>4. CASE x \in node.subs
  <2>1. Kept(x)
    BY <1>3, <1>4 DEF Opened, Cared
  <2>2. x.kind \in Kinds
    BY <1>4, NodeShapes DEF Subs
  <2>3. Query.method # ReleaseOf(x.kind)
    BY <1>1, <2>2, ReleasesAreMethods
  <2>4. \A i \in DOMAIN fromNode : i \in DOMAIN fromNode' /\ fromNode'[i] = fromNode[i]
    BY <1>3 DEF Replied
  <2> QED BY <1>1, <1>4, <2>1, <2>3, <2>4, KeptRead
<1>5. CASE x \notin node.subs
  <2>1. x = Sub(NewToken, Query.method) /\ x.token = NewToken /\ x.kind = Query.method
    BY <1>3, <1>5 DEF Opened, Sub
  <2>2. t = x.token
    BY <1>3, <1>5, <2>1 DEF Opened
  <2>3. 1 \in DOMAIN toNode /\ Query = toNode[1]
    BY <1>1, HeadTail DEF Shapes, Query
  <2>4. PICK p \in pending : p.id = Query.id /\ p.owner.method = Query.method
    BY <1>1, <2>3 DEF Ids, Querying, Pends
  <2>5. fromNode'[last] = AnswerMsg(p.id, x.token)
    BY <1>3, <2>2, <2>4 DEF Replied
  <2> QED BY <1>1, <2>1, <2>4, <2>5 DEF Kept, AnswerMsg
<1> QED BY <1>4, <1>5

LEMMA NodeStepKeeps ==
  ASSUME Shapes, Known, Ids, Cared, Shapes', NodeStep, NEW x \in node'.subs, x.token \notin node'.lost
  PROVE  Kept(x)'
<1>1. fromNode \in Seq(Replies) /\ DOMAIN fromNode = 1 .. Len(fromNode) /\ Len(fromNode) \in Nat
  BY DEF Shapes
<1>2. ASSUME NEW m, m \in Replies, fromNode' = Append(fromNode, m)
      PROVE  \A i \in DOMAIN fromNode : i \in DOMAIN fromNode' /\ fromNode'[i] = fromNode[i]
  BY <1>1, <1>2, Appended
<1>3. CASE NodeReads
  <2>1. /\ toNode # <<>> /\ toNode' = Tail(toNode) /\ UNCHANGED <<owned, pending>> /\ Query.id \in Nat
        /\ fromNode' = fromNode \/ fromNode' = Append(fromNode, AnswerMsg(Query.id, None))
        /\ node'.lost = node.lost
        /\ node'.subs = IF Query.method \in Releases THEN {y \in node.subs : y.token # Query.token} ELSE node.subs
    BY <1>3, NodeReadsShapes, QueryShapes
  <2>2. PICK m : m = AnswerMsg(Query.id, None)
    OBVIOUS
  <2>3. m \in Replies
    BY <2>1, <2>2, MessageShapes DEF Names
  <2>4. \A i \in DOMAIN fromNode : i \in DOMAIN fromNode' /\ fromNode'[i] = fromNode[i]
    BY <1>2, <2>1, <2>2, <2>3
  <2>5. x \in node.subs
    BY <2>1
  <2>6. x.kind \in Kinds /\ Kept(x)
    BY <2>1, <2>5, NodeShapes DEF Subs, Cared
  <2>7. ReleaseOf(x.kind) \in Releases
    BY <2>6, ReleasesAreMethods
  <2>8. Query.method # ReleaseOf(x.kind) \/ Query.token # x.token
    BY <2>1, <2>7
  <2> QED BY <2>1, <2>4, <2>5, <2>6, <2>8, KeptRead
<1>4. ASSUME NEW y \in node.subs, NEW ends \in BOOLEAN, NodeSends(y, ends) PROVE Kept(x)'
  <2>1. y.token \in DOMAIN node.sent
    BY DEF Known
  <2>2. PICK m : m = EventMsg(y.token, node.sent[y.token] + 1, ends)
    OBVIOUS
  <2>3. /\ fromNode' = Append(fromNode, m) /\ m \in Replies /\ UNCHANGED <<pending, owned, toNode>>
        /\ node'.lost = node.lost /\ node'.subs \subseteq node.subs
    BY <1>4, <2>1, <2>2, NodeSendsShapes
  <2>4. x \in node.subs /\ Kept(x)
    BY <2>3 DEF Cared
  <2>5. \A i \in DOMAIN fromNode : i \in DOMAIN fromNode' /\ fromNode'[i] = fromNode[i]
    BY <1>2, <2>3
  <2>6. (\E o \in owned : o.token = x.token) => Kept(x)'
    BY <2>3 DEF Kept
  <2> QED BY <2>3, <2>4, <2>5, <2>6, KeptRests
<1> QED BY <1>3, <1>4, NodeOpensKeeps DEF NodeStep

LEMMA CaredNext == ASSUME BaseInv, Ids, OneKind, Ends, Cared, [Next]_vars PROVE Cared'
<1> USE DEF BaseInv
<1>1. Shapes'
  BY BaseInvNext
<1>2. ASSUME UNCHANGED <<owned, pending, toNode, fromNode, node>> PROVE Cared'
  BY <1>2 DEF Cared, Kept
<1>3. ASSUME UNCHANGED node, \A x \in node.subs : Kept(x) => Kept(x)' PROVE Cared'
  BY <1>3 DEF Cared
<1>4. CASE UNCHANGED vars
  BY <1>2, <1>4 DEF vars
<1>5. CASE Dropped
  BY <1>5, DroppedShapes DEF Cared
<1>6. CASE OwnerStep
  BY <1>2, <1>5, <1>6, DisconnectAllShapes DEF OwnerStep, Halt
<1>7. CASE SessionStep
  <2>1. UNCHANGED node
    BY <1>7 DEF SessionStep, Connect, Leave, LeaveHalting, Subscribe, Call, Release
  <2>2. \A x \in node.subs : Kept(x) => Kept(x)'
    BY <1>1, <1>7, SessionStepKeeps DEF OneKind
  <2> QED BY <1>3, <2>1, <2>2
<1>8. CASE HandleAnswer
  <2>1. UNCHANGED node /\ \A x \in node.subs : Kept(x) => Kept(x)'
    BY <1>8, HandleAnswerCases, HandleAnswerKeeps
  <2> QED BY <1>3, <2>1
<1>9. CASE HandleEvent
  <2>1. UNCHANGED node /\ \A x \in node.subs : Kept(x) => Kept(x)'
    BY <1>9, HandleEventKeeps DEF HandleEvent
  <2> QED BY <1>3, <2>1
<1>10. CASE Route
  <2>1. UNCHANGED node /\ \A x \in node.subs : Kept(x) => Kept(x)'
    BY <1>10, RouteKeeps DEF Route
  <2> QED BY <1>3, <2>1
<1>11. CASE Flush \/ Tell \/ \E s \in Sessions : HaltSession(s)
  BY <1>2, <1>11 DEF Flush, Tell, HaltSession
<1>12. CASE NodeStep
  BY <1>1, <1>12, NodeStepKeeps DEF Cared
<1> QED BY <1>1, <1>4, <1>5, <1>6, <1>7, <1>8, <1>9, <1>10, <1>11, <1>12, HaltEndsShapes DEF Next, BrokerStep

----------------------------------------------------------------------------
(* The follows the broker counts: those it holds, and those it is asking   *)
(* for or releasing.                                                       *)

HeldFollows == {o.token : o \in {x \in owned : x.kind = "follow"}}
FollowRequests == {p \in pending : p.owner.method \in {"follow", "unfollow"}}
Counted == Cardinality(HeldFollows) + Cardinality(FollowRequests) <= FollowLimit

LEMMA InjectedIsFewer ==
  ASSUME NEW S, NEW T, IsFiniteSet(T), NEW f \in [S -> T], \A x, y \in S : f[x] = f[y] => x = y
  PROVE  IsFiniteSet(S) /\ Cardinality(S) <= Cardinality(T)
<1>1. f \in Injection(S, T)
  BY DEF Injection, IsInjective
<1> QED BY <1>1, FS_Injection

LEMMA CountsAreFinite ==
  ASSUME Shapes
  PROVE  /\ IsFiniteSet(HeldFollows) /\ Cardinality(HeldFollows) \in Nat
         /\ IsFiniteSet(FollowRequests) /\ Cardinality(FollowRequests) \in Nat
<1>1. IsFiniteSet(owned) /\ IsFiniteSet(pending)
  BY DEF Shapes
<1>2. PICK F : F = {x \in owned : x.kind = "follow"}
  OBVIOUS
<1>3. IsFiniteSet(F)
  BY <1>1, <1>2, FS_Subset
<1>4. PICK f : f = [o \in F |-> o.token]
  OBVIOUS
<1>5. f \in Surjection(F, HeldFollows)
  BY <1>2, <1>4 DEF Surjection, HeldFollows
<1>6. IsFiniteSet(HeldFollows)
  BY <1>3, <1>5, FS_Surjection
<1>7. FollowRequests \in SUBSET pending
  BY DEF FollowRequests
<1>8. IsFiniteSet(FollowRequests)
  BY <1>1, <1>7, FS_Subset
<1> QED BY <1>6, <1>8, FS_CardinalityType

\* Requests that move from what was held to what is on its way.
LEMMA CountMoves ==
  ASSUME Shapes, Shapes', Counted, HeldFollows' \subseteq HeldFollows,
         NEW kept, IsFiniteSet(kept), Cardinality(kept) <= Cardinality(FollowRequests),
         NEW moved, IsFiniteSet(moved), Cardinality(moved) <= Cardinality(HeldFollows \ HeldFollows'),
         FollowRequests' \subseteq kept \cup moved
  PROVE  Counted'
<1>1. /\ IsFiniteSet(HeldFollows) /\ Cardinality(HeldFollows) \in Nat
      /\ IsFiniteSet(FollowRequests) /\ Cardinality(FollowRequests) \in Nat
  BY CountsAreFinite
<1>2. PICK h : h = HeldFollows'
  OBVIOUS
<1>3. IsFiniteSet(h) /\ Cardinality(h) \in Nat
  BY <1>1, <1>2, FS_Subset, FS_CardinalityType
<1>4. HeldFollows \cap h = h
  BY <1>2
<1>5. Cardinality(HeldFollows \ h) = Cardinality(HeldFollows) - Cardinality(h)
  BY <1>1, <1>4, FS_Difference
<1>6. /\ IsFiniteSet(kept \cup moved) /\ Cardinality(kept) \in Nat /\ Cardinality(moved) \in Nat
      /\ Cardinality(kept \cap moved) \in Nat
      /\ Cardinality(kept \cup moved) = Cardinality(kept) + Cardinality(moved) - Cardinality(kept \cap moved)
  BY FS_Union, FS_CardinalityType, FS_Intersection
<1>7. PICK r : r = FollowRequests'
  OBVIOUS
<1>8. Cardinality(r) <= Cardinality(kept \cup moved) /\ IsFiniteSet(r)
  BY <1>6, <1>7, FS_Subset
<1>9. Cardinality(r) \in Nat
  BY <1>8, FS_CardinalityType
<1>10. FollowLimit \in Nat
  BY BrokerAssumption
<1>11. Cardinality(HeldFollows) + Cardinality(FollowRequests) <= FollowLimit
  BY DEF Counted
<1>12. Cardinality(kept \cup moved) \in Nat
  BY <1>6, FS_CardinalityType
<1>13. Cardinality(moved) <= Cardinality(HeldFollows) - Cardinality(h)
  BY <1>2, <1>5
<1>14. Cardinality(kept \cup moved) <= Cardinality(kept) + Cardinality(moved)
  BY <1>6, <1>12
<1>15. Cardinality(h) + Cardinality(r) <= FollowLimit
  BY <1>1, <1>3, <1>6, <1>8, <1>9, <1>10, <1>11, <1>12, <1>13, <1>14
<1> QED BY <1>2, <1>7, <1>15 DEF Counted

LEMMA CountFewer ==
  ASSUME Shapes, Shapes', Counted, HeldFollows' \subseteq HeldFollows, FollowRequests' \subseteq FollowRequests
  PROVE  Counted'
<1>1. IsFiniteSet(FollowRequests) /\ IsFiniteSet(HeldFollows \ HeldFollows') /\ Cardinality(HeldFollows \ HeldFollows') \in Nat
  BY CountsAreFinite, FS_Difference, FS_CardinalityType
<1>2. IsFiniteSet({}) /\ Cardinality({}) = 0 /\ Cardinality(FollowRequests) <= Cardinality(FollowRequests)
  BY CountsAreFinite, FS_EmptySet
<1>3. Cardinality({}) <= Cardinality(HeldFollows \ HeldFollows')
  BY <1>1, <1>2
<1>4. FollowRequests' \subseteq FollowRequests \cup {}
  OBVIOUS
<1> QED BY <1>1, <1>2, <1>3, <1>4, CountMoves

LEMMA CountDrops ==
  ASSUME Shapes, Shapes', Counted, owned' \subseteq owned, pending' \subseteq pending
  PROVE  Counted'
<1>1. HeldFollows' \subseteq HeldFollows /\ FollowRequests' \subseteq FollowRequests
  BY DEF HeldFollows, FollowRequests
<1> QED BY <1>1, CountFewer

\* The requests a forwarded one makes.
LEMMA ForwardRequests ==
  ASSUME Shapes, NEW s \in Sessions, NEW withId \in BOOLEAN, NEW method \in Methods, NEW token \in Names,
         Forward(s, withId, method, token)
  PROVE  \E p : /\ FollowRequests' \subseteq FollowRequests \cup {p}
                /\ method \notin {"follow", "unfollow"} => FollowRequests' \subseteq FollowRequests
<1>1. ASSUME NEW owner, ForwardsAs(owner), owner.method = method
      PROVE  \E p : /\ FollowRequests' \subseteq FollowRequests \cup {p}
                    /\ method \notin {"follow", "unfollow"} => FollowRequests' \subseteq FollowRequests
  <2>1. /\ <<owner>> \in Seq(Owners) /\ Track(pending, <<owner>>) /\ DOMAIN <<owner>> = {1} /\ <<owner>>[1] = owner
        /\ pending \in SUBSET Pendings /\ IsFiniteSet(pending)
    BY <1>1 DEF ForwardsAs, Shapes
  <2>2. pending' = pending \cup Tracked(counter, <<owner>>)
    BY <2>1, TrackAdds
  <2>3. Tracked(counter, <<owner>>) = {[id |-> counter + 1, owner |-> owner]}
    BY <2>1 DEF Tracked
  <2>4. PICK p : p = [id |-> counter + 1, owner |-> owner]
    OBVIOUS
  <2>5. pending' = pending \cup {p} /\ p.owner.method = method
    BY <1>1, <2>2, <2>3, <2>4
  <2>6. FollowRequests' \subseteq FollowRequests \cup {p}
    BY <2>5 DEF FollowRequests
  <2>7. method \notin {"follow", "unfollow"} => FollowRequests' \subseteq FollowRequests
    BY <2>5 DEF FollowRequests
  <2> QED BY <2>6, <2>7
<1>2. /\ \A kind, client : Owner(kind, None, client, method, token).method = method
      /\ \A kind, client : Owner(kind, s, client, method, token).method = method
  BY DEF Owner
<1>3. CASE pending' = pending
  BY <1>3 DEF FollowRequests
<1> QED BY <1>1, <1>2, <1>3, ForwardTracks

LEMMA SubscribeCounts ==
  ASSUME Shapes, Shapes', Counted, NEW s \in Sessions, NEW kind \in Kinds, NEW withId \in BOOLEAN,
         Subscribe(s, kind, withId)
  PROVE  Counted'
<1>1. Forward(s, withId, kind, None) /\ owned' = owned
  BY DEF Subscribe
<1>2. kind \in Methods /\ None \in Names /\ kind # "unfollow"
  BY ReleasesAreMethods DEF Names
<1>3. PICK p : /\ FollowRequests' \subseteq FollowRequests \cup {p}
               /\ kind \notin {"follow", "unfollow"} => FollowRequests' \subseteq FollowRequests
  BY <1>1, <1>2, ForwardRequests
<1>4. HeldFollows' = HeldFollows
  BY <1>1 DEF HeldFollows
<1>5. CASE kind # "follow"
  BY <1>2, <1>3, <1>4, <1>5, CountFewer
<1>6. CASE kind = "follow"
  <2>1. Cardinality(HeldFollows) + Cardinality(FollowRequests) < FollowLimit
    BY <1>6 DEF Subscribe, CountFollows, HeldFollows, FollowRequests
  <2>2. /\ Cardinality(HeldFollows) \in Nat /\ IsFiniteSet(FollowRequests) /\ Cardinality(FollowRequests) \in Nat
        /\ FollowLimit \in Nat
    BY CountsAreFinite, BrokerAssumption
  <2>3. /\ IsFiniteSet(FollowRequests \cup {p})
        /\ Cardinality(FollowRequests \cup {p}) <= Cardinality(FollowRequests) + 1
    <3>1. PICK n \in Nat : n = Cardinality(FollowRequests)
      BY <2>2
    <3>2. IsFiniteSet(FollowRequests \cup {p}) /\ (\/ Cardinality(FollowRequests \cup {p}) = n
                                                   \/ Cardinality(FollowRequests \cup {p}) = n + 1)
      BY <2>2, <3>1, FS_AddElement
    <3> QED BY <3>1, <3>2
  <2>4. PICK r : r = FollowRequests'
    OBVIOUS
  <2>5. Cardinality(r) <= Cardinality(FollowRequests \cup {p}) /\ IsFiniteSet(r)
    BY <1>3, <2>3, <2>4, FS_Subset
  <2>6. Cardinality(r) \in Nat /\ Cardinality(FollowRequests \cup {p}) \in Nat
    BY <2>3, <2>5, FS_CardinalityType
  <2>7. Cardinality(HeldFollows) + Cardinality(r) <= FollowLimit
    BY <2>1, <2>2, <2>3, <2>5, <2>6
  <2> QED BY <1>4, <2>4, <2>7 DEF Counted
<1> QED BY <1>5, <1>6

LEMMA ReleaseCounts ==
  ASSUME Shapes, Shapes', Counted, NEW s \in Sessions, NEW l \in DOMAIN heard, NEW withId \in BOOLEAN,
         Release(s, l, withId)
  PROVE  Counted'
<1>1. CASE AnswerHere(s, withId)
  <2>1. owned' \subseteq owned /\ pending' = pending
    BY <1>1 DEF Release, AnswerHere
  <2> QED BY <2>1, CountDrops
<1>2. ASSUME NEW o \in owned, owned' = owned \ {o}, Holders(o.token) = {o},
             Forward(s, withId, ReleaseOf(o.kind), o.token)
      PROVE  Counted'
  <2>1. o.kind \in Kinds /\ o.token \in Names
    BY DEF Shapes, Helds, Names
  <2>2. ReleaseOf(o.kind) \in Methods /\ ReleaseOf(o.kind) \in Releases /\ (o.kind = "follow" <=> ReleaseOf(o.kind) = "unfollow")
        /\ ReleaseOf(o.kind) # "follow"
    BY <2>1, ReleasesAreMethods
  <2>3. PICK p : /\ FollowRequests' \subseteq FollowRequests \cup {p}
                 /\ ReleaseOf(o.kind) \notin {"follow", "unfollow"} => FollowRequests' \subseteq FollowRequests
    BY <1>2, <2>1, <2>2, ForwardRequests
  <2>4. HeldFollows' \subseteq HeldFollows
    BY <1>2 DEF HeldFollows
  <2>5. CASE o.kind # "follow"
    BY <2>2, <2>3, <2>4, <2>5, CountFewer
  <2>6. CASE o.kind = "follow"
    <3>1. o.token \in HeldFollows \ HeldFollows'
      BY <1>2, <2>6 DEF HeldFollows, Holders
    <3>2. PICK gone : gone = HeldFollows \ HeldFollows'
      OBVIOUS
    <3>3. IsFiniteSet(gone) /\ {o.token} \in SUBSET gone
      BY <3>1, <3>2, CountsAreFinite, FS_Difference
    <3>4. Cardinality({o.token}) <= Cardinality(gone) /\ Cardinality({o.token}) = 1 /\ Cardinality({p}) = 1 /\ IsFiniteSet({p})
      BY <3>3, FS_Subset, FS_Singleton
    <3>5. Cardinality({p}) <= Cardinality(HeldFollows \ HeldFollows')
      BY <3>2, <3>4
    <3>6. IsFiniteSet(FollowRequests) /\ Cardinality(FollowRequests) <= Cardinality(FollowRequests)
      BY CountsAreFinite
    <3> QED BY <2>3, <2>4, <3>4, <3>5, <3>6, CountMoves
  <2> QED BY <2>5, <2>6
<1> QED BY <1>1, <1>2 DEF Release

LEMMA LeaveCounts ==
  ASSUME Shapes, Named, Shapes', Counted, NEW s \in Sessions, Leave(s)
  PROVE  Counted'
<1>1. PICK sent \in Seq(Owners) :
        /\ Track(Orphaned(s), sent) /\ Len(sent) = Cardinality(LastOf(s))
        /\ \A i \in 1 .. Len(sent) : \E o \in LastOf(s) :
             o = InOrder(LastOf(s))[i] /\ sent[i] = SentRelease(o.kind, o.token)
  BY LeaveTracks
<1>2. LastOf(s) \in SUBSET owned /\ owned' = owned \ Mine(s)
  BY DEF LastOf, Mine, Leave
<1>3. IsFiniteSet(LastOf(s)) /\ Apart(LastOf(s))
  BY <1>2, OwnedApart
<1>4. \A i, j \in 1 .. Len(sent) : i < j => InOrder(LastOf(s))[i].local < InOrder(LastOf(s))[j].local
  BY <1>1, <1>3, InOrderIsOrdered
<1>5. Orphaned(s) \in SUBSET Pendings /\ IsFiniteSet(Orphaned(s))
  BY OrphanedShapes
<1>6. pending' = Orphaned(s) \cup Tracked(counter, sent) /\ Len(sent) \in Nat /\ DOMAIN sent = 1 .. Len(sent)
  <2>1. pending' = Orphaned(s) \cup Tracked(counter, sent)
    BY <1>1, <1>5, TrackAdds
  <2> QED BY <2>1
<1>7. PICK kept : kept = {q \in Orphaned(s) : q.owner.method \in {"follow", "unfollow"}}
  OBVIOUS
<1>8. PICK moved : moved = {q \in Tracked(counter, sent) : q.owner.method \in {"follow", "unfollow"}}
  OBVIOUS
<1>9. FollowRequests' \subseteq kept \cup moved
  BY <1>6, <1>7, <1>8 DEF FollowRequests
<1>10. HeldFollows' \subseteq HeldFollows
  BY <1>2 DEF HeldFollows
<1>11. IsFiniteSet(kept) /\ Cardinality(kept) <= Cardinality(FollowRequests)
  <2>1. \A q \in kept : \E p \in FollowRequests :
          q = IF p.owner.session = s
              THEN [p EXCEPT !.owner = Owner("orphan", None, 0, p.owner.method, p.owner.token)] ELSE p
    <3> SUFFICES ASSUME NEW q \in kept
                 PROVE  \E p \in FollowRequests :
                          q = IF p.owner.session = s
                              THEN [p EXCEPT !.owner = Owner("orphan", None, 0, p.owner.method, p.owner.token)] ELSE p
      OBVIOUS
    <3>1. q \in Orphaned(s) /\ q.owner.method \in {"follow", "unfollow"}
      BY <1>7
    <3>2. PICK p \in pending :
              /\ p.owner.method = q.owner.method
              /\ q = IF p.owner.session = s
                     THEN [p EXCEPT !.owner = Owner("orphan", None, 0, p.owner.method, p.owner.token)] ELSE p
      BY <3>1, OrphanedParts
    <3> QED BY <3>1, <3>2 DEF FollowRequests
  <2>2. PICK f : f = [q \in kept |-> CHOOSE p \in FollowRequests :
          q = IF p.owner.session = s
              THEN [p EXCEPT !.owner = Owner("orphan", None, 0, p.owner.method, p.owner.token)] ELSE p]
    OBVIOUS
  <2>3. \A q \in kept :
          /\ f[q] \in FollowRequests
          /\ q = IF f[q].owner.session = s
                 THEN [f[q] EXCEPT !.owner = Owner("orphan", None, 0, f[q].owner.method, f[q].owner.token)] ELSE f[q]
    BY <2>1, <2>2
  <2>4. f \in [kept -> FollowRequests]
    BY <2>2, <2>3
  <2>5. ASSUME NEW x \in kept, NEW y \in kept, f[x] = f[y] PROVE x = y
    <3>1. PICK p : p = f[x]
      OBVIOUS
    <3>2. x = IF p.owner.session = s
              THEN [p EXCEPT !.owner = Owner("orphan", None, 0, p.owner.method, p.owner.token)] ELSE p
      BY <2>3, <3>1
    <3>3. y = IF p.owner.session = s
              THEN [p EXCEPT !.owner = Owner("orphan", None, 0, p.owner.method, p.owner.token)] ELSE p
      BY <2>3, <2>5, <3>1
    <3> QED BY <3>2, <3>3
  <2> QED BY <2>4, <2>5, CountsAreFinite, InjectedIsFewer
<1>12. IsFiniteSet(moved) /\ Cardinality(moved) <= Cardinality(HeldFollows \ HeldFollows')
  <2>1. ASSUME NEW q \in moved
        PROVE  \E i \in 1 .. Len(sent), o \in LastOf(s) :
                 /\ q = [id |-> counter + i, owner |-> sent[i]] /\ o = InOrder(LastOf(s))[i]
                 /\ q.owner.token = o.token /\ o.token \in HeldFollows \ HeldFollows'
    <3>1. q \in Tracked(counter, sent) /\ q.owner.method \in {"follow", "unfollow"}
      BY <1>8
    <3>2. PICK i \in 1 .. Len(sent) : q = [id |-> counter + i, owner |-> sent[i]]
      BY <1>6, <3>1 DEF Tracked
    <3>3. PICK o \in LastOf(s) : o = InOrder(LastOf(s))[i] /\ sent[i] = SentRelease(o.kind, o.token)
      BY <1>1
    <3>4. q.owner.token = o.token /\ q.owner.method = ReleaseOf(o.kind)
      BY <3>2, <3>3 DEF SentRelease, Owner
    <3>5. o \in owned /\ o.kind \in Kinds
      BY <1>2 DEF Shapes, Helds
    <3>6. o.kind = "follow"
      BY <3>1, <3>4, <3>5, ReleasesAreMethods
    <3>7. o.token \in HeldFollows
      BY <3>5, <3>6 DEF HeldFollows
    <3>8. \A x \in owned : x.token = o.token => x \in Mine(s)
      BY DEF LastOf, Holders, Mine
    <3>9. o.token \notin HeldFollows'
      BY <1>2, <3>8 DEF HeldFollows
    <3> QED BY <3>2, <3>3, <3>4, <3>7, <3>9
  <2>2. PICK f : f = [q \in moved |-> q.owner.token]
    OBVIOUS
  <2>3. f \in [moved -> HeldFollows \ HeldFollows']
    BY <2>1, <2>2
  <2>4. ASSUME NEW x \in moved, NEW y \in moved, f[x] = f[y] PROVE x = y
    <3>1. PICK i \in 1 .. Len(sent), o \in LastOf(s) :
            x = [id |-> counter + i, owner |-> sent[i]] /\ o = InOrder(LastOf(s))[i] /\ x.owner.token = o.token
      BY <2>1
    <3>2. PICK j \in 1 .. Len(sent), u \in LastOf(s) :
            y = [id |-> counter + j, owner |-> sent[j]] /\ u = InOrder(LastOf(s))[j] /\ y.owner.token = u.token
      BY <2>1
    <3>3. o.token = u.token
      BY <2>2, <2>4, <3>1, <3>2
    <3>4. o.local <= u.local /\ u.local <= o.local /\ o.local \in Nat /\ u.local \in Nat
      BY <1>2, <3>3 DEF LastOf, Mine, Holders, Shapes, Helds
    <3>5. o.local = u.local
      BY <3>4
    <3>6. ~(i < j) /\ ~(j < i)
      BY <1>4, <3>1, <3>2, <3>4, <3>5
    <3>7. i = j
      BY <1>6, <3>6
    <3> QED BY <3>1, <3>2, <3>7
  <2>5. IsFiniteSet(HeldFollows \ HeldFollows')
    BY CountsAreFinite, FS_Difference
  <2> QED BY <2>3, <2>4, <2>5, InjectedIsFewer
<1> QED BY <1>9, <1>10, <1>11, <1>12, CountMoves

LEMMA SessionStepCounts == ASSUME Shapes, Named, Shapes', Counted, SessionStep PROVE Counted'
<1>1. PICK s \in Sessions :
    \/ Connect(s) \/ Leave(s) \/ LeaveHalting(s)
    \/ \E kind \in Kinds, withId \in BOOLEAN : Subscribe(s, kind, withId)
    \/ \E l \in DOMAIN heard : Call(s, l)
    \/ \E l \in DOMAIN heard, withId \in BOOLEAN : Release(s, l, withId)
  BY DEF SessionStep
<1>2. CASE Connect(s) \/ LeaveHalting(s)
  BY <1>2, CountDrops DEF Connect, LeaveHalting
<1>3. ASSUME NEW l \in DOMAIN heard, Call(s, l) PROVE Counted'
  <2>1. CASE AnswerHere(s, TRUE)
    BY <1>3, <2>1, CountDrops DEF AnswerHere, Call
  <2>2. CASE Forward(s, TRUE, "call", None)
    <3>1. "call" \in Methods /\ None \in Names
      BY ReleasesAreMethods DEF Names
    <3>2. FollowRequests' \subseteq FollowRequests
      BY <2>2, <3>1, ForwardRequests
    <3>3. HeldFollows' = HeldFollows
      BY <1>3 DEF Call, HeldFollows
    <3> QED BY <3>2, <3>3, CountFewer
  <2> QED BY <1>3, <2>1, <2>2 DEF Call
<1> QED BY <1>1, <1>2, <1>3, SubscribeCounts, ReleaseCounts, LeaveCounts

LEMMA HandleAnswerCounts == ASSUME Shapes, Shapes', Counted, HandleAnswer PROVE Counted'
<1>1. CASE Unknown
  BY <1>1, CountDrops DEF Unknown
<1>2. ASSUME NEW p \in pending, Relayed(p) \/ Closed(p) PROVE Counted'
  BY <1>2, CountDrops DEF Relayed, Closed
<1>3. /\ IsFiniteSet(HeldFollows) /\ Cardinality(HeldFollows) \in Nat
      /\ IsFiniteSet(FollowRequests) /\ Cardinality(FollowRequests) \in Nat /\ FollowLimit \in Nat
  BY CountsAreFinite, BrokerAssumption
<1>4. ASSUME NEW p \in FollowRequests PROVE IsFiniteSet(FollowRequests \ {p}) /\ Cardinality(FollowRequests \ {p}) = Cardinality(FollowRequests) - 1
  BY <1>3, FS_RemoveElement
<1>5. ASSUME NEW p \in pending, Mapped(p) PROVE Counted'
  <2>1. /\ owned' = owned \cup {NewHeld(p)} /\ NewHeld(p).token = Reply.token /\ NewHeld(p).kind = p.owner.method
        /\ pending' = pending \ {p} /\ p.owner.method \in Kinds
    BY <1>5, MappedShapes DEF NewHeld, Mapped
  <2>2. FollowRequests' = FollowRequests \ {p}
    BY <2>1 DEF FollowRequests
  <2>3. CASE p.owner.method # "follow"
    <3>1. HeldFollows' \subseteq HeldFollows
      BY <2>1, <2>3 DEF HeldFollows
    <3> QED BY <2>2, <3>1, CountFewer
  <2>4. CASE p.owner.method = "follow"
    <3>1. HeldFollows' \subseteq HeldFollows \cup {Reply.token} /\ p \in FollowRequests
      BY <2>1, <2>4 DEF HeldFollows, FollowRequests
    <3>2. PICK n \in Nat : n = Cardinality(HeldFollows)
      BY <1>3
    <3>3. /\ IsFiniteSet(HeldFollows \cup {Reply.token})
          /\ Cardinality(HeldFollows \cup {Reply.token}) = n \/ Cardinality(HeldFollows \cup {Reply.token}) = n + 1
      BY <1>3, <3>2, FS_AddElement
    <3>4. PICK h : h = HeldFollows'
      OBVIOUS
    <3>5. IsFiniteSet(h) /\ Cardinality(h) <= Cardinality(HeldFollows \cup {Reply.token})
      BY <3>1, <3>3, <3>4, FS_Subset
    <3>6. Cardinality(h) \in Nat
      BY <3>5, FS_CardinalityType
    <3>7. Cardinality(FollowRequests \ {p}) = Cardinality(FollowRequests) - 1
      BY <1>4, <3>1
    <3>8. n + Cardinality(FollowRequests) <= FollowLimit
      BY <3>2 DEF Counted
    <3>9. Cardinality(h) <= n + 1
      BY <3>2, <3>3, <3>5, <3>6
    <3>10. Cardinality(h) + Cardinality(FollowRequests \ {p}) <= FollowLimit
      BY <1>3, <3>2, <3>6, <3>7, <3>8, <3>9
    <3> QED BY <2>2, <3>4, <3>10 DEF Counted
  <2> QED BY <2>3, <2>4
<1>6. ASSUME NEW p \in pending, Freed(p) PROVE Counted'
  <2>1. PICK owner : owner = SentRelease(p.owner.method, Reply.token)
    OBVIOUS
  <2>2. /\ <<owner>> \in Seq(Owners) /\ Track(pending \ {p}, <<owner>>) /\ DOMAIN <<owner>> = {1} /\ <<owner>>[1] = owner
        /\ p.owner.method \in Kinds /\ owned' = owned
    BY <1>6, <2>1, FreedShapes DEF Freed
  <2>3. pending \ {p} \in SUBSET Pendings /\ IsFiniteSet(pending \ {p})
    BY FS_Subset DEF Shapes
  <2>4. pending' = (pending \ {p}) \cup Tracked(counter, <<owner>>)
    BY <2>2, <2>3, TrackAdds
  <2>5. Tracked(counter, <<owner>>) = {[id |-> counter + 1, owner |-> owner]}
    BY <2>2 DEF Tracked
  <2>6. PICK q : q = [id |-> counter + 1, owner |-> owner]
    OBVIOUS
  <2>7. pending' = (pending \ {p}) \cup {q} /\ q.owner.method = ReleaseOf(p.owner.method)
    BY <2>1, <2>4, <2>5, <2>6 DEF SentRelease, Owner
  <2>8. HeldFollows' = HeldFollows
    BY <2>2 DEF HeldFollows
  <2>9. CASE p.owner.method # "follow"
    <3>1. q.owner.method \notin {"follow", "unfollow"}
      BY <2>2, <2>7, <2>9, ReleasesAreMethods
    <3>2. FollowRequests' \subseteq FollowRequests
      BY <2>7, <3>1 DEF FollowRequests
    <3> QED BY <2>8, <3>2, CountFewer
  <2>10. CASE p.owner.method = "follow"
    <3>1. p \in FollowRequests
      BY <2>10 DEF FollowRequests
    <3>2. FollowRequests' \subseteq (FollowRequests \ {p}) \cup {q}
      BY <2>7 DEF FollowRequests
    <3>3. PICK kept : kept = (FollowRequests \ {p}) \cup {q}
      OBVIOUS
    <3>4. PICK n \in Nat : n = Cardinality(FollowRequests \ {p}) /\ n + 1 = Cardinality(FollowRequests)
      <4>1. Cardinality(FollowRequests \ {p}) \in Nat
        BY <1>4, <3>1, FS_CardinalityType
      <4>2. Cardinality(FollowRequests \ {p}) = Cardinality(FollowRequests) - 1
        BY <1>4, <3>1
      <4>3. PICK n \in Nat : n = Cardinality(FollowRequests \ {p})
        BY <4>1
      <4>4. n + 1 = Cardinality(FollowRequests)
        BY <1>3, <4>2, <4>3
      <4> QED BY <4>3, <4>4
    <3>5. IsFiniteSet(kept) /\ (Cardinality(kept) = n \/ Cardinality(kept) = n + 1)
      BY <1>4, <3>1, <3>3, <3>4, FS_AddElement
    <3>6. IsFiniteSet(kept) /\ Cardinality(kept) <= Cardinality(FollowRequests)
      BY <3>4, <3>5
    <3>7. IsFiniteSet({}) /\ Cardinality({}) <= Cardinality(HeldFollows \ HeldFollows')
      <4>1. Cardinality(HeldFollows \ HeldFollows') \in Nat
        BY <1>3, FS_Difference, FS_CardinalityType
      <4> QED BY <4>1, FS_EmptySet
    <3>8. HeldFollows' \subseteq HeldFollows /\ FollowRequests' \subseteq kept \cup {}
      BY <2>8, <3>2, <3>3
    <3> QED BY <3>6, <3>7, <3>8, CountMoves
  <2> QED BY <2>9, <2>10
<1> QED BY <1>1, <1>2, <1>5, <1>6, HandleAnswerCases

LEMMA CountedNext == ASSUME BaseInv, Counted, [Next]_vars PROVE Counted'
<1> USE DEF BaseInv
<1>1. Shapes'
  BY BaseInvNext
<1>2. CASE UNCHANGED vars
  BY <1>1, <1>2, CountDrops DEF vars
<1>3. CASE OwnerStep
  BY <1>1, <1>3, CountDrops, DisconnectAllShapes DEF OwnerStep, Halt, Dropped
<1>4. CASE NodeStep
  <2>1. owned' = owned /\ pending' = pending
    BY <1>4 DEF NodeStep, NodeOpens, NodeReads, NodeSends
  <2> QED BY <1>1, <2>1, CountDrops
<1>5. CASE HandleEvent \/ Flush \/ Tell \/ (\E s \in Sessions : HaltSession(s)) \/ HaltEnds
  BY <1>1, <1>5, CountDrops DEF HandleEvent, Flush, Tell, HaltSession, HaltEnds
<1>6. CASE Route
  <2>1. owned' \subseteq owned /\ pending' = pending
    BY <1>6, RouteShapes DEF Route
  <2> QED BY <1>1, <2>1, CountDrops
<1> QED BY <1>1, <1>2, <1>3, <1>4, <1>5, <1>6, SessionStepCounts, HandleAnswerCounts DEF Next, BrokerStep

----------------------------------------------------------------------------
(* What runs at the node is held, asked for or being released. *)

RunsInv == Ids /\ OneKind /\ Ends /\ Cared /\ Counted

LEMMA RunsInvInit == Init => RunsInv
<1> SUFFICES ASSUME Init PROVE RunsInv
  OBVIOUS
<1>1. node.subs = {} /\ node.sent = <<>>
  BY DEF Init
<1>2. Ids /\ OneKind /\ Ends /\ Cared
  BY <1>1 DEF Init, Ids, Numbered, Querying, Answering, OneKind, OneToken, HeldKinds, NamedKinds, Ends, SentSound,
              WorkSound, EarlySound, Cared
<1>3. HeldFollows = {} /\ FollowRequests = {}
  BY DEF Init, HeldFollows, FollowRequests
<1>4. Counted
  BY <1>3, FS_EmptySet, BrokerAssumption DEF Counted
<1> QED BY <1>2, <1>4 DEF RunsInv

LEMMA RunsInvariant == Spec => [](BaseInv /\ RunsInv)
<1>1. BaseInv /\ RunsInv /\ [Next]_vars => RunsInv'
  BY IdsNext, KindsNext, EndsNext, CaredNext, CountedNext DEF RunsInv
<1> QED BY <1>1, BaseInvInit, BaseInvNext, RunsInvInit, PTL DEF Spec

\* No subscription runs at the node for nobody: someone holds it, or its release or its answer is on the
\* way (answerOrphan, disconnectSession).
THEOREM BrokerLeaksNothing == Spec => []NoLeak
<1>1. Cared /\ Shapes => NoLeak
  <2> SUFFICES ASSUME Cared, Shapes, NEW x \in node.subs, x.token \notin node.lost
               PROVE  \/ Holders(x.token) # {}
                      \/ \E i \in DOMAIN toNode : toNode[i].token = x.token /\ toNode[i].method \in Releases
                      \/ \E i \in DOMAIN fromNode : fromNode[i].msg = "answer" /\ fromNode[i].token = x.token
    BY DEF NoLeak
  <2>1. Kept(x)
    BY DEF Cared
  <2>2. x.kind \in Kinds
    BY NodeShapes DEF Subs
  <2>3. ReleaseOf(x.kind) \in Releases
    BY <2>2, ReleasesAreMethods
  <2> QED BY <2>1, <2>3 DEF Kept, Holders, AnswerMsg
<1> QED BY <1>1, RunsInvariant, PTL DEF BaseInv, RunsInv

\* Request p opened x and its answer is on the way, or it is x's release.
Serves(p, x) ==
  \/ \E i \in DOMAIN fromNode : fromNode[i] = AnswerMsg(p.id, x.token)
  \/ \E i \in DOMAIN toNode : toNode[i].id = p.id /\ toNode[i].id # 0 /\ toNode[i].token = x.token

LEMMA ServesOne ==
  ASSUME Ids, NEW p, NEW x, NEW y, Serves(p, x), Serves(p, y)
  PROVE  x.token = y.token
<1>1. \A i, j \in DOMAIN fromNode : fromNode[i] = AnswerMsg(p.id, x.token) /\ fromNode[j] = AnswerMsg(p.id, y.token)
        => fromNode[i] = fromNode[j]
  <2> SUFFICES ASSUME NEW i \in DOMAIN fromNode, NEW j \in DOMAIN fromNode, fromNode[i] = AnswerMsg(p.id, x.token),
                      fromNode[j] = AnswerMsg(p.id, y.token)
               PROVE  fromNode[i] = fromNode[j]
    OBVIOUS
  <2>1. fromNode[i].msg = "answer" /\ fromNode[j].msg = "answer" /\ fromNode[i].id = fromNode[j].id
    BY DEF AnswerMsg
  <2>2. i = j
    BY <2>1 DEF Ids, Answering
  <2> QED BY <2>2
<1>2. \A i, j \in DOMAIN toNode : toNode[i].id = p.id /\ toNode[i].id # 0 /\ toNode[j].id = p.id => i = j
  BY DEF Ids, Querying
<1>3. \A t : \A i \in DOMAIN toNode, j \in DOMAIN fromNode : fromNode[j] = AnswerMsg(p.id, t) => toNode[i].id # p.id
  <2> SUFFICES ASSUME NEW i \in DOMAIN toNode, NEW j \in DOMAIN fromNode, NEW t, fromNode[j] = AnswerMsg(p.id, t)
               PROVE  toNode[i].id # p.id
    OBVIOUS
  <2>1. fromNode[j].msg = "answer" /\ fromNode[j].id = p.id
    BY DEF AnswerMsg
  <2> QED BY <2>1 DEF Ids, Answering
<1>4. CASE \E i \in DOMAIN fromNode : fromNode[i] = AnswerMsg(p.id, x.token)
  <2>1. \E j \in DOMAIN fromNode : fromNode[j] = AnswerMsg(p.id, y.token)
    BY <1>3, <1>4 DEF Serves
  <2>2. AnswerMsg(p.id, x.token) = AnswerMsg(p.id, y.token)
    BY <1>1, <1>4, <2>1
  <2>3. AnswerMsg(p.id, x.token).token = x.token /\ AnswerMsg(p.id, y.token).token = y.token
    BY DEF AnswerMsg
  <2> QED BY <2>2, <2>3
<1>5. CASE \A i \in DOMAIN fromNode : fromNode[i] # AnswerMsg(p.id, x.token)
  <2>1. PICK i \in DOMAIN toNode : toNode[i].id = p.id /\ toNode[i].id # 0 /\ toNode[i].token = x.token
    BY <1>5 DEF Serves
  <2>2. PICK j \in DOMAIN toNode : toNode[j].id = p.id /\ toNode[j].id # 0 /\ toNode[j].token = y.token
    BY <1>3, <2>1 DEF Serves
  <2> QED BY <1>2, <2>1, <2>2
<1> QED BY <1>4, <1>5

\* The node never runs more follows than its limit, but for one whose answer did not parse: each it runs is counted
\* under a token of its own, or under a request of its own (hasRoom, countFollows).
THEOREM BrokerKeepsLimit == Spec => []FollowLimitKept
<1>1. Shapes /\ RunsInv => FollowLimitKept
  <2> SUFFICES ASSUME Shapes, RunsInv PROVE FollowLimitKept
    OBVIOUS
  <2>1. PICK running : running = {x \in node.subs : x.kind = "follow" /\ x.token \notin node.lost}
    OBVIOUS
  <2>2. PICK held : held = {x \in running : \E o \in owned : o.token = x.token}
    OBVIOUS
  <2>3. PICK served : served = {x \in running : \A o \in owned : o.token # x.token}
    OBVIOUS
  <2>4. /\ IsFiniteSet(HeldFollows) /\ Cardinality(HeldFollows) \in Nat
        /\ IsFiniteSet(FollowRequests) /\ Cardinality(FollowRequests) \in Nat /\ FollowLimit \in Nat
    BY CountsAreFinite, BrokerAssumption
  <2>5. IsFiniteSet(held) /\ Cardinality(held) <= Cardinality(HeldFollows)
    <3>1. PICK f : f = [x \in held |-> x.token]
      OBVIOUS
    <3>2. \A x \in held : \E o \in owned : o.token = x.token /\ o.kind = "follow"
      BY <2>1, <2>2 DEF RunsInv, OneKind, HeldKinds
    <3>3. \A x \in held : x.token \in HeldFollows
      BY <3>2 DEF HeldFollows
    <3>4. f \in [held -> HeldFollows]
      BY <3>1, <3>3
    <3>5. \A x, y \in held : f[x] = f[y] => x = y
      BY <2>1, <2>2, <3>1 DEF RunsInv, OneKind, OneToken
    <3> QED BY <2>4, <3>4, <3>5, InjectedIsFewer
  <2>6. IsFiniteSet(served) /\ Cardinality(served) <= Cardinality(FollowRequests)
    <3>1. \A x \in served : \E p \in FollowRequests : Serves(p, x)
      <4> SUFFICES ASSUME NEW x \in served PROVE \E p \in FollowRequests : Serves(p, x)
        OBVIOUS
      <4>1. x \in node.subs /\ x.kind = "follow" /\ Kept(x) /\ \A o \in owned : o.token # x.token
        BY <2>1, <2>3 DEF RunsInv, Cared
      <4>2. ASSUME NEW i \in DOMAIN toNode, toNode[i].method = "unfollow", toNode[i].token = x.token
            PROVE  \E p \in FollowRequests : Serves(p, x)
        <5>1. toNode[i].id # 0
          BY <4>2 DEF RunsInv, Ids, Querying
        <5>2. PICK p \in pending : p.id = toNode[i].id /\ p.owner.method = toNode[i].method
          BY <5>1 DEF RunsInv, Ids, Querying, Pends
        <5> QED BY <4>2, <5>1, <5>2 DEF FollowRequests, Serves
      <4>3. ASSUME NEW p \in pending, NEW i \in DOMAIN fromNode, p.owner.method = "follow",
                   fromNode[i] = AnswerMsg(p.id, x.token)
            PROVE  \E q \in FollowRequests : Serves(q, x)
        BY <4>3 DEF FollowRequests, Serves
      <4> QED BY <4>1, <4>2, <4>3 DEF Kept, ReleaseOf
    <3>2. PICK f : f = [x \in served |-> CHOOSE p \in FollowRequests : Serves(p, x)]
      OBVIOUS
    <3>3. \A x \in served : f[x] \in FollowRequests /\ Serves(f[x], x)
      BY <3>1, <3>2
    <3>4. f \in [served -> FollowRequests]
      BY <3>2, <3>3
    <3>5. ASSUME NEW x \in served, NEW y \in served, f[x] = f[y] PROVE x = y
      <4>1. PICK p : p = f[x]
        OBVIOUS
      <4>2. Serves(p, x) /\ Serves(p, y)
        BY <3>3, <3>5, <4>1
      <4>3. x.token = y.token
        BY <4>2, ServesOne DEF RunsInv
      <4> QED BY <2>1, <2>3, <4>3 DEF RunsInv, OneKind, OneToken
    <3> QED BY <2>4, <3>4, <3>5, InjectedIsFewer
  <2>7. running = held \cup served
    BY <2>2, <2>3
  <2>8. /\ Cardinality(held) \in Nat /\ Cardinality(served) \in Nat /\ Cardinality(held \cap served) \in Nat
        /\ Cardinality(running) = Cardinality(held) + Cardinality(served) - Cardinality(held \cap served)
    BY <2>5, <2>6, <2>7, FS_Union, FS_Intersection, FS_CardinalityType
  <2>9. Cardinality(HeldFollows) + Cardinality(FollowRequests) <= FollowLimit
    BY DEF RunsInv, Counted
  <2>10. Cardinality(running) <= FollowLimit
    BY <2>4, <2>5, <2>6, <2>8, <2>9
  <2> QED BY <2>1, <2>10 DEF FollowLimitKept
<1> QED BY <1>1, RunsInvariant, PTL DEF BaseInv

----------------------------------------------------------------------------
(* What the broker holds, it holds for open sessions and within its caps. *)

Within(s) ==
  /\ Len(s) <= MaxEarlyTokens
  /\ \A i \in DOMAIN s : Len(s[i].events) \in 1 .. MaxEarlyEvents
  /\ \A i, j \in DOMAIN s : s[i].token = s[j].token => i = j

OwnedOpen == \A o \in owned : Halting \/ session[o.session] = "open"
AskedKnown == \A p \in pending : p.owner.token \in DOMAIN node.sent \cup {None}
HoldsInv == Within(early) /\ OwnedOpen /\ AskedKnown

LEMMA EmptyWithin == Within(<<>>)
BY BrokerAssumption DEF Within

LEMMA DroppedWithin ==
  ASSUME Shapes, Within(early), NEW t
  PROVE  Within(EarlyDropped(t)) /\ \A i \in DOMAIN EarlyDropped(t) : EarlyDropped(t)[i].token # t
<1>1. PICK b : b = EarlyDropped(t)
  OBVIOUS
<1>2. DOMAIN early = 1 .. Len(early) /\ Len(early) \in Nat /\ DOMAIN b = 1 .. Len(b) /\ MaxEarlyTokens \in Nat
  <2>1. b \in Seq(EarlyItems)
    BY <1>1, EarlyDroppedShapes
  <2> QED BY <2>1, EarlyParts, BrokerAssumption
<1>3. CASE EarlyAt(t) = {}
  BY <1>1, <1>3, EarlyDroppedShapes DEF EarlyAt
<1>4. CASE EarlyAt(t) # {}
  <2>1. PICK k \in EarlyAt(t) : /\ Len(b) = Len(early) - 1
                                /\ \A i \in 1 .. Len(early) - 1 : b[i] = IF i < k THEN early[i] ELSE early[i + 1]
    BY <1>1, <1>4, EarlyDroppedShapes
  <2>2. k \in DOMAIN early /\ early[k].token = t
    BY DEF EarlyAt
  <2>3. PICK g : g = [i \in 1 .. Len(early) - 1 |-> IF i < k THEN i ELSE i + 1]
    OBVIOUS
  <2>4. \A i \in 1 .. Len(early) - 1 : g[i] \in DOMAIN early /\ g[i] # k /\ b[i] = early[g[i]]
    BY <1>2, <2>1, <2>2, <2>3
  <2>5. \A i, j \in 1 .. Len(early) - 1 : g[i] = g[j] => i = j
    BY <1>2, <2>2, <2>3
  <2>6. \A i, j \in DOMAIN b : b[i].token = b[j].token => i = j
    BY <1>2, <2>1, <2>4, <2>5 DEF Within
  <2>7. \A i \in DOMAIN b : b[i].token # t
    BY <1>2, <2>1, <2>2, <2>4 DEF Within
  <2>8. Len(b) <= MaxEarlyTokens
    BY <1>2, <2>1 DEF Within
  <2>9. \A i \in DOMAIN b : Len(b[i].events) \in 1 .. MaxEarlyEvents
    BY <1>2, <2>1, <2>4 DEF Within
  <2> QED BY <1>1, <2>6, <2>7, <2>8, <2>9 DEF Within
<1> QED BY <1>3, <1>4

LEMMA BufferedWithin ==
  ASSUME Shapes, Within(early), NEW event \in Events
  PROVE  Within(Buffered(event))
<1>1. PICK b : b = Buffered(event)
  OBVIOUS
<1>2. b \in Seq(EarlyItems) /\ DOMAIN b = 1 .. Len(b) /\ Len(b) \in Nat
  <2>1. b \in Seq(EarlyItems)
    BY <1>1, BufferedShapes
  <2> QED BY <2>1
<1>3. MaxEarlyTokens \in Nat /\ MaxEarlyEvents \in Nat /\ MaxEarlyEvents > 0
  BY BrokerAssumption
<1>4. CASE EarlyAt(event.token) = {}
  <2>1. PICK room \in Seq(EarlyItems), d \in {0, 1} :
           /\ Len(b) = Len(room) + 1
           /\ b[Len(room) + 1] = [token |-> event.token, events |-> <<event>>]
           /\ \A i \in 1 .. Len(room) : b[i] = room[i]
           /\ \A i \in 1 .. Len(room) : i + d \in DOMAIN early /\ room[i] = early[i + d]
           /\ Len(early) <= MaxEarlyTokens => Len(room) + 1 <= MaxEarlyTokens
    BY <1>1, <1>4, BufferedNew
  <2>2. Len(room) \in Nat /\ \A i \in DOMAIN b : i \in 1 .. Len(room) \/ i = Len(room) + 1
    BY <1>2, <2>1
  <2>3. \A i \in 1 .. Len(room) : i + d \in DOMAIN early /\ b[i] = early[i + d] /\ b[i].token # event.token
    BY <1>4, <2>1 DEF EarlyAt
  <2>4. b[Len(room) + 1].token = event.token /\ Len(b[Len(room) + 1].events) = 1
    BY <2>1
  <2>5. \A i \in DOMAIN b : Len(b[i].events) \in 1 .. MaxEarlyEvents
    <3>1. \A i \in 1 .. Len(room) : Len(b[i].events) \in 1 .. MaxEarlyEvents
      BY <2>3 DEF Within
    <3>2. 1 \in 1 .. MaxEarlyEvents
      BY <1>3
    <3> QED BY <2>2, <2>4, <3>1, <3>2
  <2>6. \A i, j \in 1 .. Len(room) : i + d = j + d => i = j
    BY <2>2
  <2>7. \A i, j \in 1 .. Len(room) : b[i].token = b[j].token => i = j
    BY <2>3, <2>6 DEF Within
  <2>8. \A i, j \in DOMAIN b : b[i].token = b[j].token => i = j
    BY <2>2, <2>3, <2>4, <2>7
  <2>9. Len(b) <= MaxEarlyTokens
    BY <2>1 DEF Within
  <2> QED BY <1>1, <2>5, <2>8, <2>9 DEF Within
<1>5. CASE EarlyAt(event.token) # {}
  <2>1. DOMAIN b = DOMAIN early /\ Len(b) = Len(early)
    BY <1>1, <1>5, BufferedMore
  <2>2. ASSUME NEW i \in DOMAIN b PROVE b[i].token = early[i].token /\ Len(b[i].events) \in 1 .. MaxEarlyEvents
    <3>1. CASE b[i] = early[i]
      BY <2>1, <3>1 DEF Within
    <3>2. CASE /\ early[i].token = event.token /\ Len(early[i].events) < MaxEarlyEvents
               /\ b[i].token = event.token /\ b[i].events = Append(early[i].events, event)
      <4>1. early[i].events \in Seq(Events) /\ Len(early[i].events) \in Nat
        BY <2>1, EarlyParts
      <4>2. Len(b[i].events) = Len(early[i].events) + 1
        BY <3>2, <4>1, Appended
      <4> QED BY <1>3, <3>2, <4>1, <4>2
    <3> QED BY <1>1, <1>5, <2>1, <3>1, <3>2, BufferedMore
  <2> QED BY <1>1, <2>1, <2>2 DEF Within
<1> QED BY <1>4, <1>5

LEMMA HandleAnswerHolds == ASSUME BaseInv, RunsInv, HoldsInv, HandleAnswer PROVE HoldsInv'
<1> USE DEF BaseInv
<1>1. /\ work = <<>> /\ fromNode # <<>> /\ UNCHANGED <<session, node>> /\ Reply.msg = "answer"
      /\ 1 \in DOMAIN fromNode /\ Reply = fromNode[1]
  BY HandleAnswerCases, HeadTail DEF Shapes, Reply
<1>2. Within(early')
  <2>1. CASE early' = early
    BY <2>1 DEF HoldsInv
  <2>2. ASSUME NEW t, early' = EarlyDropped(t) PROVE Within(early')
    BY <2>2, DroppedWithin DEF HoldsInv
  <2> QED BY <2>1, <2>2, HandleAnswerCases DEF Unknown, Mapped, Relayed, Freed, Closed
<1>3. \A o \in owned : session[o.session] = "open"
  BY <1>1 DEF HoldsInv, OwnedOpen, Halting
<1>4. OwnedOpen'
  <2>1. CASE owned' = owned
    BY <1>1, <1>3, <2>1 DEF OwnedOpen
  <2>2. ASSUME NEW p \in pending, Mapped(p) PROVE OwnedOpen'
    <3>1. owned' = owned \cup {NewHeld(p)} /\ NewHeld(p).session = p.owner.session
      BY <2>2, MappedShapes DEF NewHeld
    <3>2. session[p.owner.session] = "open"
      BY <1>1, <2>2 DEF Requests, Backed, Mapped, Halting
    <3> QED BY <1>1, <1>3, <3>1, <3>2 DEF OwnedOpen
  <2> QED BY <2>1, <2>2, HandleAnswerCases DEF Unknown, Relayed, Freed, Closed
<1>5. AskedKnown'
  <2>1. CASE pending' \subseteq pending
    BY <1>1, <2>1 DEF HoldsInv, AskedKnown
  <2>2. ASSUME NEW p \in pending, Freed(p) PROVE AskedKnown'
    <3>1. PICK owner : owner = SentRelease(p.owner.method, Reply.token)
      OBVIOUS
    <3>2. /\ <<owner>> \in Seq(Owners) /\ Track(pending \ {p}, <<owner>>) /\ DOMAIN <<owner>> = {1} /\ <<owner>>[1] = owner
      BY <2>2, <3>1, FreedShapes DEF Freed
    <3>3. pending \ {p} \in SUBSET Pendings /\ IsFiniteSet(pending \ {p})
      BY FS_Subset DEF Shapes
    <3>4. pending' = (pending \ {p}) \cup Tracked(counter, <<owner>>)
      BY <3>2, <3>3, TrackAdds
    <3>5. Tracked(counter, <<owner>>) = {[id |-> counter + 1, owner |-> owner]}
      BY <3>2 DEF Tracked
    <3>6. owner.token = Reply.token
      BY <3>1 DEF SentRelease, Owner
    <3>7. Reply.token \in DOMAIN node.sent \cup {None}
      BY <1>1 DEF Known, KnownReply
    <3>8. \A q \in pending' : q \in pending \/ q.owner = owner
      BY <3>4, <3>5
    <3> QED BY <1>1, <3>6, <3>7, <3>8 DEF HoldsInv, AskedKnown
  <2> QED BY <2>1, <2>2, HandleAnswerCases DEF Unknown, Mapped, Relayed, Closed
<1> QED BY <1>2, <1>4, <1>5 DEF HoldsInv

\* Requests are added whose tokens the node gave out.
LEMMA TrackKnown ==
  ASSUME Shapes, AskedKnown, node' = node, NEW left \in SUBSET Pendings, IsFiniteSet(left), NEW owners \in Seq(Owners),
         Track(left, owners), \A q \in left : q.owner.token \in DOMAIN node.sent \cup {None},
         \A i \in 1 .. Len(owners) : owners[i].token \in DOMAIN node.sent \cup {None}
  PROVE  AskedKnown'
<1>1. pending' = left \cup Tracked(counter, owners) /\ DOMAIN owners = 1 .. Len(owners)
  <2>1. pending' = left \cup Tracked(counter, owners)
    BY TrackAdds
  <2> QED BY <2>1
<1>2. \A q \in Tracked(counter, owners) : \E i \in 1 .. Len(owners) : q.owner = owners[i]
  BY <1>1 DEF Tracked
<1> QED BY <1>1, <1>2 DEF AskedKnown

LEMMA ForwardKnown ==
  ASSUME Shapes, AskedKnown, node' = node, NEW s \in Sessions, NEW withId \in BOOLEAN, NEW method \in Methods,
         NEW token \in Names, token \in DOMAIN node.sent \cup {None}, Forward(s, withId, method, token)
  PROVE  AskedKnown'
<1>1. ASSUME NEW owner, ForwardsAs(owner), owner.token = token PROVE AskedKnown'
  <2>1. /\ <<owner>> \in Seq(Owners) /\ Track(pending, <<owner>>) /\ Len(<<owner>>) = 1 /\ <<owner>>[1] = owner
        /\ pending \in SUBSET Pendings /\ IsFiniteSet(pending)
    BY <1>1 DEF ForwardsAs, Shapes
  <2>2. \A i \in 1 .. Len(<<owner>>) : <<owner>>[i].token \in DOMAIN node.sent \cup {None}
    BY <1>1, <2>1
  <2>3. \A q \in pending : q.owner.token \in DOMAIN node.sent \cup {None}
    BY DEF AskedKnown
  <2> QED BY <2>1, <2>2, <2>3, TrackKnown
<1>2. /\ \A kind, client : Owner(kind, None, client, method, token).token = token
      /\ \A kind, client : Owner(kind, s, client, method, token).token = token
  BY DEF Owner
<1>3. CASE pending' = pending
  BY <1>3 DEF AskedKnown
<1>4. \/ \E owner : ForwardsAs(owner) /\ owner.token = token
      \/ pending' = pending
  BY <1>2, ForwardTracks
<1> QED BY <1>1, <1>3, <1>4

LEMMA LeaveKnown ==
  ASSUME Shapes, Named, Known, AskedKnown, NEW s \in Sessions, Leave(s)
  PROVE  AskedKnown'
<1>1. PICK sent \in Seq(Owners) :
        /\ Track(Orphaned(s), sent)
        /\ \A i \in 1 .. Len(sent) : \E o \in LastOf(s) : sent[i] = SentRelease(o.kind, o.token)
  BY LeaveTracks
<1>2. Orphaned(s) \in SUBSET Pendings /\ IsFiniteSet(Orphaned(s)) /\ node' = node
  BY OrphanedShapes DEF Leave
<1>3. ASSUME NEW q \in Orphaned(s) PROVE q.owner.token \in DOMAIN node.sent \cup {None}
  <2>1. PICK p \in pending : q = IF p.owner.session = s
              THEN [p EXCEPT !.owner = Owner("orphan", None, 0, p.owner.method, p.owner.token)] ELSE p
    BY OrphanedParts
  <2>2. p = [id |-> p.id, owner |-> p.owner]
    BY DEF Shapes, Pendings
  <2>3. q.owner.token = p.owner.token
    BY <2>1, <2>2 DEF Owner
  <2> QED BY <2>3 DEF AskedKnown
<1>4. ASSUME NEW i \in 1 .. Len(sent) PROVE sent[i].token \in DOMAIN node.sent \cup {None}
  <2>1. PICK o \in LastOf(s) : sent[i] = SentRelease(o.kind, o.token)
    BY <1>1
  <2>2. o \in owned
    BY DEF LastOf, Mine
  <2> QED BY <2>1, <2>2, HeldIsKnown DEF SentRelease, Owner
<1> QED BY <1>1, <1>2, <1>3, <1>4, TrackKnown

LEMMA SessionStepHolds == ASSUME BaseInv, HoldsInv, SessionStep PROVE HoldsInv'
<1> USE DEF BaseInv
<1>1. PICK s \in Sessions :
    \/ Connect(s) \/ Leave(s) \/ LeaveHalting(s)
    \/ \E kind \in Kinds, withId \in BOOLEAN : Subscribe(s, kind, withId)
    \/ \E l \in DOMAIN heard : Call(s, l)
    \/ \E l \in DOMAIN heard, withId \in BOOLEAN : Release(s, l, withId)
  BY DEF SessionStep
<1>2. UNCHANGED <<early, work, node>> /\ owned' \subseteq owned
  BY <1>1 DEF Connect, Leave, LeaveHalting, Subscribe, Call, Release
<1>3. Within(early') /\ (Halting' <=> Halting)
  BY <1>2 DEF HoldsInv, Halting
<1>4. OwnedOpen'
  <2>1. CASE session' = session
    BY <1>2, <1>3, <2>1 DEF HoldsInv, OwnedOpen
  <2>2. CASE Connect(s) \/ LeaveHalting(s)
    <3>1. session \in [Sessions -> Phases] /\ \A o \in owned : o.session \in Sessions
      BY DEF Shapes, Helds
    <3>2. CASE Connect(s)
      <4>1. session' = [session EXCEPT ![s] = "open"]
        BY <3>2 DEF Connect
      <4> QED BY <1>2, <1>3, <3>1, <4>1 DEF HoldsInv, OwnedOpen
    <3>3. CASE LeaveHalting(s)
      <4>1. session' = [session EXCEPT ![s] = "quit"] /\ session[s] = "halting"
        BY <3>3 DEF LeaveHalting
      <4> QED BY <1>2, <1>3, <3>1, <4>1 DEF HoldsInv, OwnedOpen
    <3> QED BY <2>2, <3>2, <3>3
  <2>3. CASE Leave(s)
    <3>1. owned' = owned \ Mine(s) /\ session' = [session EXCEPT ![s] = "left"] /\ session \in [Sessions -> Phases]
      BY <2>3 DEF Leave, Mine, Shapes
    <3> QED BY <1>3, <3>1 DEF HoldsInv, OwnedOpen, Mine
  <2> QED BY <1>1, <2>1, <2>2, <2>3 DEF Subscribe, Call, Release
<1>5. None \in Names /\ "call" \in Methods /\ \A kind \in Kinds : kind \in Methods /\ ReleaseOf(kind) \in Methods
  BY ReleasesAreMethods DEF Names
<1>6. CASE pending' = pending
  BY <1>2, <1>3, <1>4, <1>6 DEF HoldsInv, AskedKnown
<1>7. ASSUME NEW withId \in BOOLEAN, NEW method \in Methods, NEW token \in Names, Forward(s, withId, method, token),
             token \in DOMAIN node.sent \cup {None}
      PROVE  HoldsInv'
  <2>1. AskedKnown'
    BY <1>2, <1>7, ForwardKnown DEF HoldsInv
  <2> QED BY <1>3, <1>4, <2>1 DEF HoldsInv
<1>8. CASE Connect(s) \/ LeaveHalting(s)
  BY <1>6, <1>8 DEF Connect, LeaveHalting
<1>9. CASE Leave(s)
  <2>1. AskedKnown'
    BY <1>9, LeaveKnown DEF HoldsInv
  <2> QED BY <1>3, <1>4, <2>1 DEF HoldsInv
<1>10. ASSUME NEW kind \in Kinds, NEW withId \in BOOLEAN, Subscribe(s, kind, withId) PROVE HoldsInv'
  BY <1>5, <1>7, <1>10 DEF Subscribe
<1>11. ASSUME NEW l \in DOMAIN heard, Call(s, l) PROVE HoldsInv'
  BY <1>5, <1>6, <1>7, <1>11 DEF Call, AnswerHere
<1>12. ASSUME NEW l \in DOMAIN heard, NEW withId \in BOOLEAN, Release(s, l, withId) PROVE HoldsInv'
  <2>1. CASE AnswerHere(s, withId)
    BY <1>6, <2>1 DEF AnswerHere
  <2>2. ASSUME NEW o \in owned, Forward(s, withId, ReleaseOf(o.kind), o.token) PROVE HoldsInv'
    <3>1. o.kind \in Kinds /\ o.token \in Names /\ o.token \in DOMAIN node.sent
      BY HeldIsKnown DEF Shapes, Helds, Names
    <3> QED BY <1>5, <1>7, <2>2, <3>1
  <2> QED BY <1>12, <2>1, <2>2 DEF Release
<1> QED BY <1>1, <1>8, <1>9, <1>10, <1>11, <1>12

LEMMA HoldsNext == ASSUME BaseInv, RunsInv, HoldsInv, [Next]_vars PROVE HoldsInv'
<1> USE DEF BaseInv
<1>1. CASE UNCHANGED vars
  BY <1>1 DEF vars, HoldsInv, Within, OwnedOpen, AskedKnown, Halting
<1>2. ASSUME pending' = {}, owned' = {}, early' = <<>> PROVE HoldsInv'
  BY <1>2, EmptyWithin DEF HoldsInv, OwnedOpen, AskedKnown
<1>3. ASSUME UNCHANGED <<pending, node, session>>, owned' \subseteq owned, ~Halting, Within(early') PROVE HoldsInv'
  BY <1>3 DEF HoldsInv, OwnedOpen, AskedKnown
<1>4. CASE OwnerStep
  <2>1. CASE DisconnectAll
    BY <1>2, <2>1 DEF DisconnectAll, DropUpstream
  <2>2. CASE Halt
    <3>1. PICK h : h = [do |-> "halt"]
      OBVIOUS
    <3>2. work' = <<h>> \o work /\ h \in WorkItems /\ work \in Seq(WorkItems) /\ h.do = "halt"
      BY <2>2, <3>1 DEF Halt, WorkItems, Shapes
    <3>3. Len(work') = Len(work) + 1 /\ work'[1] = h /\ Len(work) \in Nat
      BY <3>2, InFront
    <3>4. Halting'
      <4>1. work' # <<>> /\ Head(work') = work'[1]
        BY <3>3
      <4> QED BY <3>2, <3>3, <4>1 DEF Halting
    <3> QED BY <2>2, <3>4 DEF Halt, HoldsInv, OwnedOpen, AskedKnown
  <2> QED BY <1>4, <2>1, <2>2 DEF OwnerStep
<1>5. CASE HaltEnds
  BY <1>2, <1>5 DEF HaltEnds
<1>6. CASE \E s \in Sessions : HaltSession(s)
  <2>1. Halting' /\ UNCHANGED <<early, pending, owned, node>>
    BY <1>6 DEF HaltSession, Halting
  <2> QED BY <2>1 DEF HoldsInv, OwnedOpen, AskedKnown
<1>7. CASE HandleEvent \/ Tell
  <2>1. ~Halting /\ UNCHANGED <<pending, node, session, owned, early>>
    BY <1>7 DEF HandleEvent, Tell, FromNode, Working, Halting
  <2> QED BY <1>3, <2>1 DEF HoldsInv
<1>8. CASE Flush
  <2>1. ~Halting /\ UNCHANGED <<pending, node, session, owned>>
    BY <1>8 DEF Flush, Working, Halting
  <2>2. PICK t : early' = EarlyDropped(t)
    BY <1>8, FlushShapes
  <2>3. Within(early')
    BY <2>2, DroppedWithin DEF HoldsInv
  <2> QED BY <1>3, <2>1, <2>3
<1>9. CASE Route
  <2>1. ~Halting /\ UNCHANGED <<pending, node, session>> /\ owned' \subseteq owned
    BY <1>9, RouteShapes DEF Route, Working, Halting
  <2>2. work[1].event \in Events /\ (early' = early \/ early' = Buffered(work[1].event))
    BY <1>9, RouteShapes
  <2>3. Within(early')
    BY <2>2, BufferedWithin DEF HoldsInv
  <2> QED BY <1>3, <2>1, <2>3
<1>10. CASE NodeStep
  <2>1. UNCHANGED <<session, pending, owned, early, work>>
    BY <1>10 DEF NodeStep, NodeOpens, NodeReads, NodeSends
  <2>2. DOMAIN node.sent \subseteq DOMAIN node'.sent
    <3>1. CASE NodeOpens
      BY <1>10, <3>1, BaseInvNext, NodeOpensReplies DEF Opened
    <3>2. CASE NodeReads
      BY <3>2, NodeReadsShapes
    <3>3. ASSUME NEW x \in node.subs, NEW ends \in BOOLEAN, NodeSends(x, ends)
          PROVE  DOMAIN node.sent \subseteq DOMAIN node'.sent
      BY <3>3, NodeSendsShapes DEF Known
    <3> QED BY <1>10, <3>1, <3>2, <3>3 DEF NodeStep
  <2> QED BY <2>1, <2>2 DEF HoldsInv, OwnedOpen, AskedKnown, Halting
<1> QED BY <1>1, <1>4, <1>5, <1>6, <1>7, <1>8, <1>9, <1>10, SessionStepHolds, HandleAnswerHolds DEF Next, BrokerStep

LEMMA HoldsInvariant == Spec => [](BaseInv /\ RunsInv /\ HoldsInv)
<1>1. Init => HoldsInv
  BY EmptyWithin DEF Init, HoldsInv, OwnedOpen, AskedKnown
<1>2. BaseInv /\ RunsInv /\ HoldsInv /\ [Next]_vars => HoldsInv'
  BY HoldsNext
<1> QED BY <1>1, <1>2, RunsInvariant, PTL DEF Spec

\* What runs at the node is what the broker holds, for sessions that are open and within its caps, or its answer
\* or release is on the way (orphanSession, adopt, disconnectSession).
THEOREM BrokerHoldingsAgree == Spec => []HoldingsAgree
<1>1. ASSUME BaseInv, RunsInv, HoldsInv PROVE TypeOK
  <2> USE <1>1 DEF BaseInv, RunsInv, HoldsInv
  <2>1. session \in [Sessions -> {"new", "open", "halting", "quit", "left", "halted"}]
    BY DEF Shapes, Phases
  <2>2. ASSUME NEW p \in pending
        PROVE  /\ p.id \in 1 .. counter
               /\ p.owner.kind \in {"session", "orphan", "release"}
               /\ p.owner.kind = "session" /\ ~Halting => session[p.owner.session] = "open"
               /\ p.owner.method \in Methods /\ p.owner.token \in DOMAIN node.sent \cup {None}
    <3>1. p.owner \in Owners
      BY DEF Shapes, Pendings
    <3>2. p.owner.kind \in {"session", "orphan", "release"} /\ p.owner.method \in Methods
      BY <3>1 DEF Owners
    <3>3. p.id \in 1 .. counter
      BY DEF Ids, Numbered
    <3>4. p.owner.kind = "session" /\ ~Halting => session[p.owner.session] = "open"
      BY DEF Requests, Backed
    <3> QED BY <3>2, <3>3, <3>4 DEF AskedKnown
  <2>3. \A o \in owned : /\ o.local \in DOMAIN heard /\ o.token \in DOMAIN node.sent
                         /\ o.kind \in Kinds /\ (Halting \/ session[o.session] = "open")
    BY HeldIsKnown DEF Named, Belongs, Shapes, Helds, OwnedOpen
  <2>4. /\ \A i \in DOMAIN early : early[i].token \in DOMAIN node.sent /\ Len(early[i].events) \in 1 .. MaxEarlyEvents
        /\ \A i, j \in DOMAIN early : early[i].token = early[j].token => i = j
        /\ Len(early) <= MaxEarlyTokens
    BY DEF Within, Ends, EarlySound
  <2>5. \A n \in DOMAIN asked : asked[n].session \in Sessions /\ asked[n].answers \in Nat
    <3>1. asked \in Seq(Askings)
      BY DEF Shapes
    <3>2. \A n \in DOMAIN asked : asked[n] \in Askings
      BY <3>1
    <3> QED BY <3>2 DEF Askings
  <2> QED BY <2>1, <2>2, <2>3, <2>4, <2>5 DEF TypeOK
<1> QED BY <1>1, HoldsInvariant, BrokerLeaksNothing, PTL DEF HoldingsAgree

----------------------------------------------------------------------------
(* Deliveries in order.  An event waits in one of three places: early, in  *)
(* what is being handled, or in the channel from the node.                 *)

\* What is being handled: the tellings of one event come first, to different local tokens, and a flush is alone.
Lined ==
  /\ \A i, j \in DOMAIN work : i < j /\ work[j].do = "tell" => work[i].do \in {"halt", "tell"}
  /\ \A i, j \in DOMAIN work : i # j /\ work[i].do = "flush" => work[j].do = "halt"
  /\ \A i, j \in DOMAIN work : work[i].do = "tell" /\ work[j].do = "tell" /\ work[i].owned.local = work[j].owned.local
       => i = j

LEMMA TailParts ==
  ASSUME Shapes, work # <<>>, work' = Tail(work)
  PROVE  \A i \in DOMAIN work' : i \in Nat /\ i + 1 \in DOMAIN work /\ work'[i] = work[i + 1]
BY DEF Shapes

LEMMA WorkParts ==
  ASSUME Shapes
  PROVE  /\ work \in Seq(WorkItems) /\ DOMAIN work = 1 .. Len(work) /\ Len(work) \in Nat
         /\ \A i \in DOMAIN work : work[i] \in WorkItems
BY DEF Shapes

LEMMA TailLined == ASSUME Shapes, Lined, work # <<>>, work' = Tail(work) PROVE Lined'
<1>1. \A i \in DOMAIN work' : i \in Nat /\ i + 1 \in DOMAIN work /\ work'[i] = work[i + 1]
  BY TailParts
<1>2. \A i, j \in Nat : (i < j => i + 1 < j + 1) /\ (i # j => i + 1 # j + 1) /\ (i + 1 = j + 1 => i = j)
  OBVIOUS
<1>3. \A i, j \in DOMAIN work' : i < j /\ work'[j].do = "tell" => work'[i].do \in {"halt", "tell"}
  BY <1>1, <1>2 DEF Lined
<1>4. \A i, j \in DOMAIN work' : i # j /\ work'[i].do = "flush" => work'[j].do = "halt"
  BY <1>1, <1>2 DEF Lined
<1>5. \A i, j \in DOMAIN work' : work'[i].do = "tell" /\ work'[j].do = "tell" /\ work'[i].owned.local = work'[j].owned.local
       => i = j
  BY <1>1, <1>2 DEF Lined
<1> QED BY <1>3, <1>4, <1>5 DEF Lined

\* One entry is in line.
LEMMA OneLined == ASSUME NEW x, work' = <<x>> PROVE Lined'
<1>1. DOMAIN work' = {1}
  OBVIOUS
<1> QED BY <1>1 DEF Lined

LEMMA FlushAlone == ASSUME Shapes, OneHalt, Lined, work # <<>>, work[1].do = "flush" PROVE DOMAIN work = {1}
<1>1. DOMAIN work = 1 .. Len(work) /\ Len(work) \in Nat /\ 1 \in DOMAIN work
  BY WorkParts, HeadTail
<1>2. ASSUME NEW j \in DOMAIN work, j # 1 PROVE FALSE
  BY <1>1, <1>2 DEF Lined, OneHalt
<1> QED BY <1>1, <1>2

\* Once an event is at the head, nothing but events follows it.
LEMMA EventFirst ==
  ASSUME Shapes, OneHalt, Lined, work # <<>>, work[1].do = "event"
  PROVE  \A j \in DOMAIN work : work[j].do = "event"
<1>1. DOMAIN work = 1 .. Len(work) /\ Len(work) \in Nat /\ 1 \in DOMAIN work
  BY WorkParts, HeadTail
<1> SUFFICES ASSUME NEW j \in DOMAIN work, j # 1 PROVE work[j].do = "event"
  OBVIOUS
<1>2. work[j].do \in {"halt", "flush", "event", "tell"}
  BY WorkParts DEF WorkItems
<1>3. work[j].do # "halt"
  BY DEF OneHalt
<1>4. work[j].do # "flush"
  BY <1>1 DEF Lined
<1>5. work[j].do # "tell"
  BY <1>1 DEF Lined
<1> QED BY <1>2, <1>3, <1>4, <1>5

LEMMA FlushLined == ASSUME Shapes, OneHalt, Lined, Flush PROVE Lined'
<1>1. DOMAIN work = {1}
  BY FlushShapes, FlushAlone
<1>2. PICK events \in Seq(Events) : FlushedTo(events)
  BY FlushPlaces
<1>3. \A i \in DOMAIN work' : work'[i].do = "event"
  <2> SUFFICES ASSUME NEW i \in DOMAIN work' PROVE work'[i].do = "event"
    OBVIOUS
  <2>1. i \in DOMAIN events /\ work'[i] = [do |-> "event", event |-> events[i]]
    BY <1>1, <1>2 DEF FlushedTo
  <2> QED BY <2>1
<1> QED BY <1>3 DEF Lined

LEMMA RouteLined == ASSUME Shapes, Named, OneHalt, Lined, Route PROVE Lined'
<1>1. work # <<>> /\ work[1].do = "event" /\ Shapes'
  BY RouteShapes
<1>2. \A j \in DOMAIN work : work[j].do = "event"
  BY <1>1, EventFirst
<1>3. PICK order \in Seq(Helds) :
        RoutedTo(order) /\ (\A i, j \in DOMAIN order : i < j => order[i].local < order[j].local)
  BY RoutePlaces
<1>4. DOMAIN order = 1 .. Len(order) /\ Len(order) \in Nat /\ \A i \in DOMAIN order : order[i].local \in Nat
  <2>1. DOMAIN order = 1 .. Len(order) /\ Len(order) \in Nat /\ \A i \in DOMAIN order : order[i] \in Helds
    OBVIOUS
  <2> QED BY <2>1 DEF Helds
<1>5. DOMAIN work' = 1 .. Len(work') /\ Len(work') \in Nat
  BY <1>1 DEF Shapes
<1>6. ASSUME NEW i \in DOMAIN work', work'[i].do # "event"
      PROVE  i \in DOMAIN order /\ work'[i] = [do |-> "tell", owned |-> order[i], event |-> work[1].event]
  BY <1>2, <1>3, <1>6 DEF RoutedTo
<1>7. ASSUME NEW i \in DOMAIN work', i \in DOMAIN order PROVE work'[i].do = "tell" /\ work'[i].owned = order[i]
  <2>1. work'[i] = [do |-> "tell", owned |-> order[i], event |-> work[1].event]
    BY <1>3, <1>7 DEF RoutedTo
  <2> QED BY <2>1
<1>8. \A i, j \in DOMAIN work' : i < j /\ work'[j].do = "tell" => work'[i].do \in {"halt", "tell"}
  <2> SUFFICES ASSUME NEW i \in DOMAIN work', NEW j \in DOMAIN work', i < j, work'[j].do = "tell"
               PROVE  work'[i].do = "tell"
    OBVIOUS
  <2>1. j \in DOMAIN order
    BY <1>6
  <2>2. i \in DOMAIN order
    BY <1>4, <1>5, <2>1
  <2> QED BY <1>7, <2>2
<1>9. \A i \in DOMAIN work' : work'[i].do # "flush"
  BY <1>6, <1>7
<1>10. ASSUME NEW i \in DOMAIN work', NEW j \in DOMAIN work', work'[i].do = "tell", work'[j].do = "tell",
              work'[i].owned.local = work'[j].owned.local
       PROVE  i = j
  <2>1. i \in DOMAIN order /\ j \in DOMAIN order
    BY <1>6, <1>10
  <2>2. work'[i].owned = order[i] /\ work'[j].owned = order[j]
    BY <1>7, <2>1
  <2>3. order[i].local = order[j].local
    BY <1>10, <2>2
  <2> QED BY <1>3, <1>4, <2>1, <2>3
<1> QED BY <1>8, <1>9, <1>10 DEF Lined

LEMMA HaltLined == ASSUME Shapes, Lined, Halt PROVE Lined'
<1>1. PICK h : h = [do |-> "halt"]
  OBVIOUS
<1>2. work' = <<h>> \o work /\ h \in WorkItems /\ work \in Seq(WorkItems) /\ h.do = "halt"
  BY <1>1 DEF Halt, WorkItems, Shapes
<1>3. /\ Len(work') = Len(work) + 1 /\ work'[1] = h /\ DOMAIN work' = 1 .. Len(work) + 1
      /\ \A i \in 1 .. Len(work) : work'[i + 1] = work[i]
      /\ Len(work) \in Nat /\ DOMAIN work = 1 .. Len(work)
  BY <1>2, InFront
<1>4. ASSUME NEW i \in DOMAIN work', work'[i].do # "halt"
      PROVE  i - 1 \in DOMAIN work /\ work'[i] = work[i - 1] /\ i \in Nat
  <2>1. i # 1
    BY <1>2, <1>3, <1>4
  <2>2. i \in Nat /\ i - 1 \in 1 .. Len(work) /\ i = (i - 1) + 1
    BY <1>3, <2>1
  <2> QED BY <1>3, <2>2
<1>5. \A i, j \in Nat : (i < j => i - 1 < j - 1) /\ (i # j => i - 1 # j - 1) /\ (i - 1 = j - 1 => i = j)
  OBVIOUS
<1>6. \A i, j \in DOMAIN work' : i < j /\ work'[j].do = "tell" => work'[i].do \in {"halt", "tell"}
  BY <1>4, <1>5 DEF Lined
<1>7. \A i, j \in DOMAIN work' : i # j /\ work'[i].do = "flush" => work'[j].do = "halt"
  BY <1>4, <1>5 DEF Lined
<1>8. \A i, j \in DOMAIN work' : work'[i].do = "tell" /\ work'[j].do = "tell" /\ work'[i].owned.local = work'[j].owned.local
       => i = j
  BY <1>4, <1>5 DEF Lined
<1> QED BY <1>6, <1>7, <1>8 DEF Lined

LEMMA LinedNext == ASSUME BaseInv, Lined, [Next]_vars PROVE Lined'
<1> USE DEF BaseInv
<1>1. ASSUME work' = work PROVE Lined'
  BY <1>1 DEF Lined
<1>2. CASE UNCHANGED vars
  BY <1>1, <1>2 DEF vars
<1>3. CASE SessionStep
  BY <1>1, <1>3 DEF SessionStep, Connect, Leave, LeaveHalting, Subscribe, Call, Release
<1>4. CASE OwnerStep
  BY <1>1, <1>4, HaltLined DEF OwnerStep, DisconnectAll, DropUpstream
<1>5. CASE NodeStep
  BY <1>1, <1>5 DEF NodeStep, NodeOpens, NodeReads, NodeSends
<1>6. CASE HandleAnswer
  <2>1. ASSUME NEW p \in pending, Mapped(p) PROVE Lined'
    <3>1. PICK x : x = [do |-> "flush", token |-> Reply.token]
      OBVIOUS
    <3>2. work' = <<x>>
      BY <1>6, <2>1, <3>1, MappedShapes
    <3> QED BY <3>2, OneLined
  <2> QED BY <1>1, <1>6, <2>1, HandleAnswerCases DEF Unknown, Relayed, Freed, Closed
<1>7. CASE HandleEvent
  BY <1>7, OneLined DEF HandleEvent
<1>8. CASE Tell \/ HaltEnds
  BY <1>8, TailLined DEF Tell, Working, HaltEnds, Halting
<1>9. CASE \E s \in Sessions : HaltSession(s)
  BY <1>1, <1>9 DEF HaltSession
<1> QED BY <1>2, <1>3, <1>4, <1>5, <1>6, <1>7, <1>8, <1>9, FlushLined, RouteLined DEF Next, BrokerStep

\* What is held early is held under its own token, and a token that is held has a flush of it to come.
EarlyOwn == \A i \in DOMAIN early : \A j \in DOMAIN early[i].events : early[i].events[j].token = early[i].token
Flushing(t) == \E j \in DOMAIN work : work[j].do = "flush" /\ work[j].token = t
HeldFlushed == \A o \in owned : \A i \in DOMAIN early : early[i].token = o.token => Flushing(o.token)
NoneEarly == \A o \in owned : \A i \in DOMAIN early : early[i].token # o.token

Buffers ==
  /\ Route /\ early' = Buffered(work[1].event) /\ Holders(work[1].event.token) = {}
  /\ work # <<>> /\ work[1].do = "event" /\ work[1].event \in Events

\* What is held early was held before, but for the event a step buffers.
LEMMA EarlyChanges == ASSUME BaseInv, [Next]_vars PROVE EarlyStays \/ Buffers
<1> USE DEF BaseInv
<1>1. ASSUME early' = early PROVE EarlyStays
  BY <1>1 DEF EarlyStays
<1>2. ASSUME NEW t, early' = EarlyDropped(t) PROVE EarlyStays
  BY <1>2, DroppedParts DEF EarlyStays
<1>3. ASSUME early' = <<>> PROVE EarlyStays
  BY <1>3 DEF EarlyStays
<1>4. CASE UNCHANGED vars
  BY <1>1, <1>4 DEF vars
<1>5. CASE SessionStep
  BY <1>1, <1>5 DEF SessionStep, Connect, Leave, LeaveHalting, Subscribe, Call, Release
<1>6. CASE OwnerStep
  BY <1>1, <1>3, <1>6 DEF OwnerStep, DisconnectAll, DropUpstream, Halt
<1>7. CASE NodeStep
  BY <1>1, <1>7 DEF NodeStep, NodeOpens, NodeReads, NodeSends
<1>8. CASE HandleAnswer
  BY <1>1, <1>2, <1>8, HandleAnswerCases DEF Unknown, Mapped, Relayed, Freed, Closed
<1>9. CASE HandleEvent \/ Tell \/ HaltEnds \/ \E s \in Sessions : HaltSession(s)
  BY <1>1, <1>3, <1>9 DEF HandleEvent, Tell, HaltEnds, HaltSession
<1>10. CASE Flush
  BY <1>2, <1>10, FlushShapes
<1>11. CASE Route
  BY <1>1, <1>11, RouteShapes DEF Buffers
<1> QED BY <1>4, <1>5, <1>6, <1>7, <1>8, <1>9, <1>10, <1>11 DEF Next, BrokerStep

LEMMA BufferedOwn ==
  ASSUME Shapes, EarlyOwn, NEW event \in Events, NEW b, b = Buffered(event)
  PROVE  \A i \in DOMAIN b : \A j \in DOMAIN b[i].events : b[i].events[j].token = b[i].token
<1>1. b \in Seq(EarlyItems) /\ DOMAIN b = 1 .. Len(b)
  <2>1. b \in Seq(EarlyItems)
    BY BufferedShapes
  <2> QED BY <2>1
<1>2. ASSUME NEW k \in DOMAIN early, NEW i \in DOMAIN b, b[i] = early[k], NEW j \in DOMAIN b[i].events
      PROVE  b[i].events[j].token = b[i].token
  BY <1>2 DEF EarlyOwn
<1>3. CASE EarlyAt(event.token) = {}
  <2>1. PICK room \in Seq(EarlyItems), d \in {0, 1} :
           /\ Len(b) = Len(room) + 1
           /\ b[Len(room) + 1] = [token |-> event.token, events |-> <<event>>]
           /\ \A i \in 1 .. Len(room) : b[i] = room[i]
           /\ \A i \in 1 .. Len(room) : i + d \in DOMAIN early /\ room[i] = early[i + d]
    BY <1>3, BufferedNew
  <2>2. \A i \in DOMAIN b : i \in 1 .. Len(room) \/ i = Len(room) + 1
    BY <1>1, <2>1
  <2>3. b[Len(room) + 1].token = event.token /\ b[Len(room) + 1].events = <<event>>
    BY <2>1
  <2>4. \A i \in 1 .. Len(room) : i + d \in DOMAIN early /\ b[i] = early[i + d]
    BY <2>1
  <2>5. DOMAIN <<event>> = {1} /\ <<event>>[1] = event
    OBVIOUS
  <2> QED BY <1>2, <2>2, <2>3, <2>4, <2>5
<1>4. CASE EarlyAt(event.token) # {}
  <2> SUFFICES ASSUME NEW i \in DOMAIN b, NEW j \in DOMAIN b[i].events PROVE b[i].events[j].token = b[i].token
    OBVIOUS
  <2>1. i \in DOMAIN early
    BY <1>4, BufferedMore
  <2>2. CASE b[i] = early[i]
    BY <1>2, <2>1, <2>2
  <2>3. CASE b[i].token = event.token /\ early[i].token = event.token /\ b[i].events = Append(early[i].events, event)
    <3>1. early[i].events \in Seq(Events) /\ DOMAIN early[i].events = 1 .. Len(early[i].events)
      BY <2>1, EarlyParts
    <3>2. j \in 1 .. Len(early[i].events) \/ j = Len(early[i].events) + 1
      BY <2>3, <3>1, Appended
    <3>3. b[i].events[j] = event \/ (j \in DOMAIN early[i].events /\ b[i].events[j] = early[i].events[j])
      BY <2>3, <3>1, <3>2, Appended
    <3> QED BY <2>1, <2>3, <3>3 DEF EarlyOwn
  <2> QED BY <1>4, <2>1, <2>2, <2>3, BufferedMore
<1> QED BY <1>3, <1>4

LEMMA EarlyOwnNext == ASSUME BaseInv, EarlyOwn, [Next]_vars PROVE EarlyOwn'
<1>1. CASE EarlyStays
  BY <1>1 DEF EarlyOwn, EarlyStays
<1>2. CASE Buffers
  BY <1>2, BufferedOwn DEF BaseInv, Buffers, EarlyOwn
<1> QED BY <1>1, <1>2, EarlyChanges

LEMMA HandleAnswerFlushed == ASSUME BaseInv, NoneEarly, HandleAnswer PROVE HeldFlushed'
<1> USE DEF BaseInv
<1>1. EarlyStays
  BY EarlyChanges DEF Next, BrokerStep, Buffers, HandleAnswer, FromNode
<1>2. CASE owned' = owned
  BY <1>1, <1>2 DEF NoneEarly, HeldFlushed, EarlyStays
<1>3. ASSUME NEW p \in pending, Mapped(p) PROVE HeldFlushed'
  <2>1. owned' = owned \cup {NewHeld(p)} /\ work' = <<[do |-> "flush", token |-> Reply.token]>>
    BY <1>3, MappedShapes
  <2>2. NewHeld(p).token = Reply.token
    BY DEF NewHeld
  <2>3. DOMAIN work' = {1} /\ work'[1].do = "flush" /\ work'[1].token = Reply.token
    BY <2>1
  <2>4. PICK t : t = Reply.token
    OBVIOUS
  <2>5. \A o \in owned : \A i \in DOMAIN early' : early'[i].token # o.token
    BY <1>1 DEF NoneEarly, EarlyStays
  <2>6. \A o \in owned' : \A i \in DOMAIN early' : early'[i].token = o.token => o.token = t
    BY <2>1, <2>2, <2>4, <2>5
  <2>7. Flushing(t)'
    BY <2>3, <2>4 DEF Flushing
  <2> QED BY <2>6, <2>7 DEF HeldFlushed
<1> QED BY <1>2, <1>3, HandleAnswerCases DEF Unknown, Relayed, Freed, Closed

LEMMA HeldFlushedNext == ASSUME BaseInv, HoldsInv, Lined, HeldFlushed, [Next]_vars PROVE HeldFlushed'
<1> USE DEF BaseInv
<1>1. ASSUME owned' \subseteq owned, early' = early, \A t : Flushing(t) => Flushing(t)' PROVE HeldFlushed'
  BY <1>1 DEF HeldFlushed
<1>2. ASSUME work' = work PROVE \A t : Flushing(t) => Flushing(t)'
  BY <1>2 DEF Flushing
<1>3. ASSUME NoneEarly, owned' \subseteq owned, EarlyStays PROVE HeldFlushed'
  BY <1>3 DEF NoneEarly, EarlyStays, HeldFlushed
<1>4. ASSUME owned' = {} PROVE HeldFlushed'
  BY <1>4 DEF HeldFlushed
<1>5. ASSUME \A j \in DOMAIN work : work[j].do # "flush" PROVE NoneEarly
  BY <1>5 DEF NoneEarly, HeldFlushed, Flushing
<1>6. CASE UNCHANGED vars
  BY <1>1, <1>2, <1>6 DEF vars
<1>7. CASE SessionStep
  <2>1. owned' \subseteq owned /\ early' = early /\ work' = work
    BY <1>7 DEF SessionStep, Connect, Leave, LeaveHalting, Subscribe, Call, Release
  <2> QED BY <1>1, <1>2, <2>1
<1>8. CASE DisconnectAll \/ HaltEnds
  BY <1>4, <1>8 DEF DisconnectAll, DropUpstream, HaltEnds
<1>9. CASE Halt
  <2>1. PICK h : h = [do |-> "halt"]
    OBVIOUS
  <2>2. work' = <<h>> \o work /\ h \in WorkItems /\ work \in Seq(WorkItems)
    BY <1>9, <2>1 DEF Halt, WorkItems, Shapes
  <2>3. /\ \A i \in 1 .. Len(work) : work'[i + 1] = work[i]
        /\ DOMAIN work = 1 .. Len(work) /\ DOMAIN work' = 1 .. Len(work) + 1 /\ Len(work) \in Nat
    BY <2>2, InFront
  <2>4. \A i \in DOMAIN work : i + 1 \in DOMAIN work' /\ work'[i + 1] = work[i]
    BY <2>3
  <2>5. \A t : Flushing(t) => Flushing(t)'
    BY <2>4 DEF Flushing
  <2> QED BY <1>1, <1>9, <2>5 DEF Halt
<1>10. CASE NodeStep
  BY <1>1, <1>2, <1>10 DEF NodeStep, NodeOpens, NodeReads, NodeSends
<1>11. CASE HandleAnswer
  <2>1. work = <<>>
    BY <1>11 DEF HandleAnswer, FromNode
  <2> QED BY <1>5, <1>11, <2>1, HandleAnswerFlushed
<1>12. CASE HandleEvent
  <2>1. work = <<>> /\ owned' = owned /\ early' = early
    BY <1>12 DEF HandleEvent, FromNode
  <2> QED BY <1>3, <1>5, <2>1 DEF EarlyStays
<1>13. CASE Flush
  <2>1. DOMAIN work = {1}
    BY <1>13, FlushShapes, FlushAlone
  <2>2. PICK t : t = work[1].token
    OBVIOUS
  <2>3. early' = EarlyDropped(t) /\ owned' = owned
    BY <1>13, <2>2, FlushShapes DEF Flush
  <2>4. EarlyStays /\ \A i \in DOMAIN early' : early'[i].token # t
    BY <2>3, DroppedParts, DroppedWithin DEF EarlyStays, HoldsInv
  <2>5. \A o \in owned : \A i \in DOMAIN early : early[i].token = o.token => o.token = t
    BY <2>1, <2>2 DEF HeldFlushed, Flushing
  <2>6. \A o \in owned' : \A i \in DOMAIN early' : early'[i].token # o.token
    BY <2>3, <2>4, <2>5 DEF EarlyStays
  <2> QED BY <2>6 DEF HeldFlushed
<1>14. CASE Route
  <2>1. owned' \subseteq owned /\ work # <<>> /\ work[1].do = "event"
    BY <1>14, RouteShapes
  <2>2. NoneEarly
    BY <1>5, <2>1, EventFirst
  <2>3. CASE Buffers
    <3>1. \A o \in owned : o.token # work[1].event.token
      BY <2>3 DEF Buffers, Holders
    <3>2. \A i \in DOMAIN early' :
              \/ early'[i].token = work[1].event.token
              \/ \E k \in DOMAIN early : early'[i].token = early[k].token
      BY <2>3, BufferedParts DEF Buffers
    <3>3. \A o \in owned' : \A i \in DOMAIN early' : early'[i].token # o.token
      BY <2>1, <2>2, <3>1, <3>2 DEF NoneEarly
    <3> QED BY <3>3 DEF HeldFlushed
  <2> QED BY <1>3, <2>1, <2>2, <2>3, EarlyChanges
<1>15. CASE Tell
  <2>1. work # <<>> /\ work[1].do = "tell" /\ owned' = owned /\ early' = early
    BY <1>15, TellShapes DEF Tell
  <2>2. 1 \in DOMAIN work
    BY <2>1, HeadTail DEF Shapes
  <2>3. \A j \in DOMAIN work : work[j].do # "flush"
    BY <2>1, <2>2 DEF Lined
  <2> QED BY <1>3, <1>5, <2>1, <2>3 DEF EarlyStays
<1>16. CASE \E s \in Sessions : HaltSession(s)
  BY <1>1, <1>2, <1>16 DEF HaltSession
<1> QED BY <1>6, <1>7, <1>8, <1>9, <1>10, <1>11, <1>12, <1>13, <1>14, <1>15, <1>16 DEF Next, BrokerStep, OwnerStep

\* Where an event waits, and which of two events the sessions hear first.
EarlyHas(e) == \E k \in DOMAIN early : \E j \in DOMAIN early[k].events : early[k].events[j] = e
WorkHas(e) == \E i \in DOMAIN work : work[i].do = "event" /\ work[i].event = e
NodeHas(e) == \E i \in DOMAIN fromNode : fromNode[i].msg = "event" /\ fromNode[i].event = e
EarlyRun(e, f) ==
  \E k \in DOMAIN early : \E i, j \in DOMAIN early[k].events :
    i < j /\ early[k].events[i] = e /\ early[k].events[j] = f
WorkRun(e, f) ==
  \E i, j \in DOMAIN work : /\ i < j /\ work[i].do = "event" /\ work[j].do = "event"
                            /\ work[i].event = e /\ work[j].event = f
NodeRun(e, f) ==
  \E i, j \in DOMAIN fromNode : /\ i < j /\ fromNode[i].msg = "event" /\ fromNode[j].msg = "event"
                                /\ fromNode[i].event = e /\ fromNode[j].event = f
Comes(e) == EarlyHas(e) \/ WorkHas(e) \/ NodeHas(e)
Ahead(e, f) ==
  \/ EarlyRun(e, f) \/ WorkRun(e, f) \/ NodeRun(e, f)
  \/ EarlyHas(e) /\ (WorkHas(f) \/ NodeHas(f))
  \/ WorkHas(e) /\ NodeHas(f)

\* The events of a subscription wait in the order the node sent them.
Ordered ==
  /\ \A e \in Events : Comes(e) => KnownEvent(e)
  /\ \A e, f \in Events : Ahead(e, f) /\ e.token = f.token => e.number < f.number

\* No event comes that did not, and none overtakes another of its subscription.
InTurn ==
  /\ \A e \in Events : Comes(e)' => Comes(e)
  /\ \A e, f \in Events : Ahead(e, f)' /\ e.token = f.token => Ahead(e, f)

EarlyCalm == \A e, f : (EarlyHas(e)' => EarlyHas(e)) /\ (EarlyRun(e, f)' => EarlyRun(e, f))
WorkCalm == \A e, f : (WorkHas(e)' => WorkHas(e)) /\ (WorkRun(e, f)' => WorkRun(e, f))
NodeCalm == \A e, f : (NodeHas(e)' => NodeHas(e)) /\ (NodeRun(e, f)' => NodeRun(e, f))

LEMMA EarlyStaysCalm == ASSUME EarlyStays PROVE EarlyCalm
BY DEF EarlyStays, EarlyCalm, EarlyHas, EarlyRun

\* The entries of work that are events stand where they stood, d places on.
WorkShifts(d) ==
  \A i \in DOMAIN work' : work'[i].do = "event" => i \in Int /\ i + d \in DOMAIN work /\ work[i + d] = work'[i]

LEMMA WorkShiftsCalm == ASSUME NEW d \in Int, WorkShifts(d) PROVE WorkCalm
<1>1. \A i, j \in Int : i < j => i + d < j + d
  OBVIOUS
<1>2. ASSUME NEW e, WorkHas(e)' PROVE WorkHas(e)
  BY <1>2 DEF WorkShifts, WorkHas
<1>3. ASSUME NEW e, NEW f, WorkRun(e, f)' PROVE WorkRun(e, f)
  <2>1. PICK i \in DOMAIN work' : \E j \in DOMAIN work' :
              /\ i < j /\ work'[i].do = "event" /\ work'[j].do = "event"
              /\ work'[i].event = e /\ work'[j].event = f
    BY <1>3 DEF WorkRun
  <2>2. PICK j \in DOMAIN work' :
              /\ i < j /\ work'[i].do = "event" /\ work'[j].do = "event"
              /\ work'[i].event = e /\ work'[j].event = f
    BY <2>1
  <2>3. i \in Int /\ j \in Int /\ i + d \in DOMAIN work /\ j + d \in DOMAIN work
        /\ work[i + d] = work'[i] /\ work[j + d] = work'[j]
    BY <2>2 DEF WorkShifts
  <2>4. i + d < j + d
    BY <1>1, <2>2, <2>3
  <2> QED BY <2>2, <2>3, <2>4 DEF WorkRun
<1> QED BY <1>2, <1>3 DEF WorkCalm

LEMMA ReadsCalm == ASSUME Shapes, Shapes', NEW k \in {0, 1}, Reads(k) PROVE NodeCalm
<1>1. DOMAIN fromNode' \subseteq Int
  BY DEF Shapes
<1>2. \A i, j \in Int : i < j => i + k < j + k
  OBVIOUS
<1>3. ASSUME NEW e, NodeHas(e)' PROVE NodeHas(e)
  BY <1>3 DEF Reads, NodeHas
<1>4. ASSUME NEW e, NEW f, NodeRun(e, f)' PROVE NodeRun(e, f)
  <2>1. PICK i \in DOMAIN fromNode' : \E j \in DOMAIN fromNode' :
              /\ i < j /\ fromNode'[i].msg = "event" /\ fromNode'[j].msg = "event"
              /\ fromNode'[i].event = e /\ fromNode'[j].event = f
    BY <1>4 DEF NodeRun
  <2>2. PICK j \in DOMAIN fromNode' :
              /\ i < j /\ fromNode'[i].msg = "event" /\ fromNode'[j].msg = "event"
              /\ fromNode'[i].event = e /\ fromNode'[j].event = f
    BY <2>1
  <2>3. i \in Int /\ j \in Int /\ i + k \in DOMAIN fromNode /\ j + k \in DOMAIN fromNode
        /\ fromNode[i + k] = fromNode'[i] /\ fromNode[j + k] = fromNode'[j]
    BY <1>1, <2>2 DEF Reads
  <2>4. i + k < j + k
    BY <1>2, <2>2, <2>3
  <2> QED BY <2>2, <2>3, <2>4 DEF NodeRun
<1> QED BY <1>3, <1>4 DEF NodeCalm

LEMMA CalmInTurn == ASSUME EarlyCalm, WorkCalm, NodeCalm PROVE InTurn
BY DEF EarlyCalm, WorkCalm, NodeCalm, InTurn, Comes, Ahead

LEMMA WorkTailShifts == ASSUME Shapes, work # <<>>, work' = Tail(work) PROVE WorkShifts(1)
BY TailParts DEF WorkShifts

LEMMA WorkSameShifts == ASSUME Shapes, work' = work PROVE WorkShifts(0)
<1>1. \A i \in DOMAIN work : i \in Int /\ i + 0 = i
  BY WorkParts
<1> QED BY <1>1 DEF WorkShifts

LEMMA HaltShifts == ASSUME Shapes, Halt PROVE WorkShifts(-1)
<1>1. PICK h : h = [do |-> "halt"]
  OBVIOUS
<1>2. work' = <<h>> \o work /\ h \in WorkItems /\ work \in Seq(WorkItems) /\ h.do = "halt"
  BY <1>1 DEF Halt, WorkItems, Shapes
<1>3. /\ Len(work') = Len(work) + 1 /\ work'[1] = h /\ DOMAIN work' = 1 .. Len(work) + 1
      /\ \A i \in 1 .. Len(work) : work'[i + 1] = work[i]
      /\ Len(work) \in Nat /\ DOMAIN work = 1 .. Len(work)
  BY <1>2, InFront
<1>4. ASSUME NEW i \in DOMAIN work', work'[i].do = "event"
      PROVE  i \in Int /\ i + (-1) \in DOMAIN work /\ work[i + (-1)] = work'[i]
  <2>1. i # 1
    BY <1>2, <1>3, <1>4
  <2>2. i \in Int /\ i + (-1) \in 1 .. Len(work) /\ i = (i + (-1)) + 1
    BY <1>3, <2>1
  <2> QED BY <1>3, <2>2
<1> QED BY <1>4 DEF WorkShifts

\* A flush puts the events held early of one subscription ahead, as they were.
LEMMA FlushInTurn == ASSUME BaseInv, HoldsInv, Lined, EarlyOwn, Flush PROVE InTurn
<1> USE DEF BaseInv
<1>1. DOMAIN work = {1}
  BY FlushShapes, FlushAlone
<1>2. PICK t : t = work[1].token
  OBVIOUS
<1>3. PICK events \in Seq(Events) : events = EarlyOf(t) /\ FlushedTo(events)
  BY <1>2, FlushPlaces
<1>4. early' = EarlyDropped(t) /\ fromNode' = fromNode
  BY <1>2, FlushShapes DEF Flush
<1>5. EarlyStays /\ \A i \in DOMAIN early' : early'[i].token # t
  BY <1>4, DroppedParts, DroppedWithin DEF EarlyStays, HoldsInv
<1>6. EarlyCalm /\ NodeCalm
  BY <1>4, <1>5, EarlyStaysCalm, FlushShapes, ReadsNone, ReadsCalm
<1>7. ASSUME NEW i \in DOMAIN work' PROVE i \in DOMAIN events /\ work'[i] = [do |-> "event", event |-> events[i]]
  BY <1>1, <1>3 DEF FlushedTo
<1>8. \A i \in DOMAIN work' : i \in DOMAIN events /\ work'[i].event = events[i]
  BY <1>7
<1>9. PICK k : EarlyAt(t) # {} => k \in DOMAIN early /\ early[k].token = t /\ events = early[k].events
  <2>1. PICK k : k = CHOOSE i \in EarlyAt(t) : TRUE
    OBVIOUS
  <2>2. EarlyAt(t) # {} => k \in EarlyAt(t) /\ events = early[k].events
    BY <1>3, <2>1 DEF EarlyOf
  <2> QED BY <2>2 DEF EarlyAt
<1>10. EarlyAt(t) = {} => DOMAIN work' = {}
  <2>1. EarlyAt(t) = {} => events = <<>>
    BY <1>3 DEF EarlyOf
  <2> QED BY <1>8, <2>1
<1>11. ASSUME NEW e, WorkHas(e)' PROVE EarlyHas(e) /\ e.token = t
  <2>1. PICK i \in DOMAIN work' : work'[i].event = e
    BY <1>11 DEF WorkHas
  <2>2. k \in DOMAIN early /\ early[k].token = t /\ i \in DOMAIN early[k].events /\ early[k].events[i] = e
    BY <1>8, <1>9, <1>10, <2>1
  <2> QED BY <2>2 DEF EarlyHas, EarlyOwn
<1>12. ASSUME NEW e, NEW f, WorkRun(e, f)' PROVE EarlyRun(e, f)
  <2>1. PICK i \in DOMAIN work' : \E j \in DOMAIN work' : i < j /\ work'[i].event = e /\ work'[j].event = f
    BY <1>12 DEF WorkRun
  <2>2. PICK j \in DOMAIN work' : i < j /\ work'[i].event = e /\ work'[j].event = f
    BY <2>1
  <2>3. k \in DOMAIN early /\ i \in DOMAIN early[k].events /\ early[k].events[i] = e
        /\ j \in DOMAIN early[k].events /\ early[k].events[j] = f
    BY <1>8, <1>9, <1>10, <2>2
  <2> QED BY <2>2, <2>3 DEF EarlyRun
<1>13. ASSUME NEW e, EarlyHas(e)' PROVE e.token # t
  <2>1. PICK i \in DOMAIN early' : \E j \in DOMAIN early'[i].events : early'[i].events[j] = e
    BY <1>13 DEF EarlyHas
  <2>2. PICK h \in DOMAIN early : early'[i] = early[h]
    BY <1>5 DEF EarlyStays
  <2>3. e.token = early'[i].token
    BY <2>1, <2>2 DEF EarlyOwn
  <2> QED BY <1>5, <2>3
<1>14. \A e : Comes(e)' => Comes(e)
  BY <1>6, <1>11 DEF Comes, EarlyCalm, NodeCalm
<1>15. ASSUME NEW e, NEW f, Ahead(e, f)', e.token = f.token PROVE Ahead(e, f)
  <2>1. CASE EarlyRun(e, f)' \/ NodeRun(e, f)'
    BY <1>6, <2>1 DEF EarlyCalm, NodeCalm, Ahead
  <2>2. CASE WorkRun(e, f)'
    BY <1>12, <2>2 DEF Ahead
  <2>3. CASE EarlyHas(e)' /\ NodeHas(f)'
    BY <1>6, <2>3 DEF EarlyCalm, NodeCalm, Ahead
  <2>4. CASE EarlyHas(e)' /\ WorkHas(f)'
    BY <1>11, <1>13, <1>15, <2>4
  <2>5. CASE WorkHas(e)' /\ NodeHas(f)'
    BY <1>6, <1>11, <2>5 DEF NodeCalm, Ahead
  <2> QED BY <1>15, <2>1, <2>2, <2>3, <2>4, <2>5 DEF Ahead
<1> QED BY <1>14, <1>15 DEF InTurn

\* What is handled next leaves the channel.
LEMMA HandleEventInTurn == ASSUME BaseInv, HandleEvent PROVE InTurn
<1> USE DEF BaseInv
<1>1. /\ work = <<>> /\ fromNode # <<>> /\ fromNode' = Tail(fromNode) /\ early' = early
      /\ work' = <<[do |-> "event", event |-> Reply.event]>> /\ Reply.msg = "event" /\ Shapes'
  BY HandleEventShapes DEF HandleEvent
<1>2. 1 \in DOMAIN fromNode /\ Reply = fromNode[1]
  BY <1>1, HeadTail DEF Shapes, Reply
<1>3. PICK h : h = Reply.event
  OBVIOUS
<1>4. DOMAIN work' = {1} /\ work'[1].event = h
  BY <1>1, <1>3
<1>5. EarlyCalm /\ Reads(1)
  BY <1>1, EarlyStaysCalm, ReadsOne DEF EarlyStays
<1>6. NodeCalm
  BY <1>1, <1>5, ReadsCalm
<1>7. NodeHas(h)
  BY <1>1, <1>2, <1>3 DEF NodeHas
<1>8. ASSUME NEW e, WorkHas(e)' PROVE e = h
  BY <1>4, <1>8 DEF WorkHas
<1>9. ASSUME NEW f, NodeHas(f)' PROVE NodeRun(h, f)
  <2>1. PICK i \in DOMAIN fromNode' : fromNode'[i].msg = "event" /\ fromNode'[i].event = f
    BY <1>9 DEF NodeHas
  <2>2. i + 1 \in DOMAIN fromNode /\ fromNode[i + 1] = fromNode'[i]
    BY <1>5, <2>1 DEF Reads
  <2>3. 1 < i + 1
    BY <1>1 DEF Shapes
  <2> QED BY <1>1, <1>2, <1>3, <2>1, <2>2, <2>3 DEF NodeRun
<1>10. ASSUME NEW e, NEW f, WorkRun(e, f)' PROVE FALSE
  <2>1. \A i, j \in DOMAIN work' : ~ (i < j)
    BY <1>4
  <2> QED BY <1>10, <2>1 DEF WorkRun
<1>11. \A e : Comes(e)' => Comes(e)
  BY <1>5, <1>6, <1>7, <1>8 DEF EarlyCalm, NodeCalm, Comes
<1>12. \A e, f : Ahead(e, f)' => Ahead(e, f)
  BY <1>5, <1>6, <1>7, <1>8, <1>9, <1>10 DEF EarlyCalm, NodeCalm, Ahead
<1> QED BY <1>11, <1>12 DEF InTurn

\* A buffered event goes behind those of its token.
LEMMA BufferedRuns ==
  ASSUME Shapes, NEW event \in Events, NEW b, b = Buffered(event),
         NEW i \in DOMAIN b, NEW p \in DOMAIN b[i].events, NEW q \in DOMAIN b[i].events, p < q
  PROVE  \E k \in DOMAIN early :
           /\ p \in DOMAIN early[k].events /\ b[i].events[p] = early[k].events[p]
           /\ \/ q \in DOMAIN early[k].events /\ b[i].events[q] = early[k].events[q]
              \/ b[i].events[q] = event
<1>1. b \in Seq(EarlyItems) /\ DOMAIN b = 1 .. Len(b)
  <2>1. b \in Seq(EarlyItems)
    BY BufferedShapes
  <2> QED BY <2>1
<1>2. ASSUME NEW k \in DOMAIN early, b[i] = early[k]
      PROVE  \E h \in DOMAIN early :
           /\ p \in DOMAIN early[h].events /\ b[i].events[p] = early[h].events[p]
           /\ \/ q \in DOMAIN early[h].events /\ b[i].events[q] = early[h].events[q]
              \/ b[i].events[q] = event
  BY <1>2
<1>3. CASE EarlyAt(event.token) = {}
  <2>1. PICK room \in Seq(EarlyItems), d \in {0, 1} :
           /\ Len(b) = Len(room) + 1
           /\ b[Len(room) + 1] = [token |-> event.token, events |-> <<event>>]
           /\ \A h \in 1 .. Len(room) : b[h] = room[h]
           /\ \A h \in 1 .. Len(room) : h + d \in DOMAIN early /\ room[h] = early[h + d]
    BY <1>3, BufferedNew
  <2>2. i \in 1 .. Len(room) \/ i = Len(room) + 1
    BY <1>1, <2>1
  <2>3. CASE i = Len(room) + 1
    <3>1. b[i].events = <<event>>
      BY <2>1, <2>3
    <3>2. p = 1 /\ q = 1
      BY <3>1
    <3> QED BY <3>2
  <2>4. CASE i \in 1 .. Len(room)
    BY <1>2, <2>1, <2>4
  <2> QED BY <2>2, <2>3, <2>4
<1>4. CASE EarlyAt(event.token) # {}
  <2>1. i \in DOMAIN early
    BY <1>4, BufferedMore
  <2>2. CASE b[i] = early[i]
    BY <1>2, <2>1, <2>2
  <2>3. CASE b[i].events = Append(early[i].events, event)
    <3>1. early[i].events \in Seq(Events) /\ DOMAIN early[i].events = 1 .. Len(early[i].events) /\ Len(early[i].events) \in Nat
      BY <2>1, EarlyParts
    <3>2. /\ p \in 1 .. Len(early[i].events) + 1 /\ q \in 1 .. Len(early[i].events) + 1
          /\ b[i].events[Len(early[i].events) + 1] = event
          /\ \A h \in 1 .. Len(early[i].events) : b[i].events[h] = early[i].events[h]
      BY <2>3, <3>1, Appended
    <3>3. p \in 1 .. Len(early[i].events)
      BY <3>1, <3>2
    <3>4. q \in 1 .. Len(early[i].events) \/ q = Len(early[i].events) + 1
      BY <3>1, <3>2
    <3> QED BY <2>1, <3>1, <3>2, <3>3, <3>4
  <2> QED BY <1>4, <2>1, <2>2, <2>3, BufferedMore
<1> QED BY <1>3, <1>4

\* The event that is handled goes to its holders, waits behind those of its token, or is dropped.
LEMMA RouteInTurn == ASSUME BaseInv, Route PROVE InTurn
<1> USE DEF BaseInv
<1>1. work # <<>> /\ work[1].do = "event" /\ work[1].event \in Events /\ Shapes' /\ fromNode' = fromNode
  BY RouteShapes DEF Route
<1>2. PICK h \in Events : h = work[1].event
  BY <1>1
<1>3. PICK order \in Seq(Helds) : RoutedTo(order)
  BY RoutePlaces
<1>4. Len(order) \in Nat /\ DOMAIN work = 1 .. Len(work) /\ Len(work) \in Nat /\ 1 \in DOMAIN work
      /\ DOMAIN work' \subseteq Int
  BY <1>1, WorkParts, HeadTail DEF Shapes
<1>5. ASSUME NEW i \in DOMAIN work', work'[i].do = "event"
      PROVE  /\ i \in Int /\ i + (1 - Len(order)) \in DOMAIN work /\ i + (1 - Len(order)) > 1
             /\ work[i + (1 - Len(order))] = work'[i]
  <2>1. ASSUME i \in DOMAIN order PROVE FALSE
    <3>1. work'[i] = [do |-> "tell", owned |-> order[i], event |-> work[1].event]
      BY <1>3, <2>1 DEF RoutedTo
    <3> QED BY <1>5, <3>1
  <2>2. PICK k \in DOMAIN work : k > 1 /\ i = Len(order) + k - 1 /\ work'[i] = work[k]
    BY <1>3, <2>1 DEF RoutedTo
  <2>3. k = i + (1 - Len(order)) /\ i \in Int
    BY <1>4, <2>2
  <2> QED BY <2>2, <2>3
<1>6. WorkCalm /\ NodeCalm
  <2>1. PICK d \in Int : d = 1 - Len(order)
    BY <1>4
  <2>2. WorkShifts(d)
    BY <1>5, <2>1 DEF WorkShifts
  <2> QED BY <1>1, <2>2, WorkShiftsCalm, ReadsNone, ReadsCalm
<1>7. CASE EarlyStays
  BY <1>6, <1>7, EarlyStaysCalm, CalmInTurn
<1>8. CASE Buffers
  <2>1. early' = Buffered(h)
    BY <1>2, <1>8 DEF Buffers
  <2>2. WorkHas(h)
    BY <1>1, <1>2, <1>4 DEF WorkHas
  <2>3. ASSUME NEW f, WorkHas(f)' PROVE WorkRun(h, f)
    <3>1. PICK i \in DOMAIN work' : work'[i].do = "event" /\ work'[i].event = f
      BY <2>3 DEF WorkHas
    <3> QED BY <1>1, <1>2, <1>4, <1>5, <3>1 DEF WorkRun
  <2>4. ASSUME NEW e, EarlyHas(e)' PROVE EarlyHas(e) \/ e = h
    BY <2>1, <2>4, BufferedParts DEF EarlyHas
  <2>5. ASSUME NEW e, NEW f, EarlyRun(e, f)' PROVE EarlyRun(e, f) \/ (EarlyHas(e) /\ f = h)
    <3>1. PICK b : b = Buffered(h)
      OBVIOUS
    <3>2. PICK i \in DOMAIN b : \E p, q \in DOMAIN b[i].events : p < q /\ b[i].events[p] = e /\ b[i].events[q] = f
      BY <2>1, <2>5, <3>1 DEF EarlyRun
    <3>3. PICK p \in DOMAIN b[i].events : \E q \in DOMAIN b[i].events : p < q /\ b[i].events[p] = e /\ b[i].events[q] = f
      BY <3>2
    <3>4. PICK q \in DOMAIN b[i].events : p < q /\ b[i].events[p] = e /\ b[i].events[q] = f
      BY <3>3
    <3>5. \E k \in DOMAIN early :
           /\ p \in DOMAIN early[k].events /\ b[i].events[p] = early[k].events[p]
           /\ \/ q \in DOMAIN early[k].events /\ b[i].events[q] = early[k].events[q]
              \/ b[i].events[q] = h
      BY <3>1, <3>4, BufferedRuns
    <3> QED BY <3>4, <3>5 DEF EarlyRun, EarlyHas
  <2>6. \A e : Comes(e)' => Comes(e)
    BY <1>6, <2>2, <2>4 DEF WorkCalm, NodeCalm, Comes
  <2>7. ASSUME NEW e, NEW f, Ahead(e, f)' PROVE Ahead(e, f)
    <3>1. CASE EarlyRun(e, f)'
      BY <2>2, <2>5, <3>1 DEF Ahead
    <3>2. CASE WorkRun(e, f)' \/ NodeRun(e, f)' \/ (WorkHas(e)' /\ NodeHas(f)')
      BY <1>6, <3>2 DEF WorkCalm, NodeCalm, Ahead
    <3>3. CASE EarlyHas(e)' /\ WorkHas(f)'
      BY <1>6, <2>3, <2>4, <3>3 DEF WorkCalm, Ahead
    <3>4. CASE EarlyHas(e)' /\ NodeHas(f)'
      BY <1>6, <2>2, <2>4, <3>4 DEF NodeCalm, Ahead
    <3> QED BY <2>7, <3>1, <3>2, <3>3, <3>4 DEF Ahead
  <2> QED BY <2>6, <2>7 DEF InTurn
<1> QED BY <1>7, <1>8, EarlyChanges DEF Next, BrokerStep

\* Every step but the node's own leaves the order alone.
LEMMA EveryStepInTurn == ASSUME BaseInv, HoldsInv, Lined, EarlyOwn, [Next]_vars PROVE InTurn \/ NodeStep
<1> USE DEF BaseInv
<1>1. Shapes'
  BY BaseInvNext
<1>2. ASSUME EarlyStays, NEW d \in Int, WorkShifts(d), NEW k \in {0, 1}, Reads(k) PROVE InTurn
  BY <1>1, <1>2, EarlyStaysCalm, WorkShiftsCalm, ReadsCalm, CalmInTurn
<1>3. ASSUME early' = early PROVE EarlyStays
  BY <1>3 DEF EarlyStays
<1>4. 0 \in Int /\ 1 \in Int /\ -1 \in Int /\ 0 \in {0, 1} /\ 1 \in {0, 1}
  OBVIOUS
<1>5. ASSUME UNCHANGED <<early, work, fromNode>> PROVE InTurn
  BY <1>2, <1>3, <1>4, <1>5, WorkSameShifts, ReadsNone
<1>6. ASSUME early' = <<>>, fromNode' = <<>>, NEW d \in Int, WorkShifts(d) PROVE InTurn
  <2>1. EarlyStays /\ Reads(0)
    BY <1>6 DEF EarlyStays, Reads
  <2> QED BY <1>2, <1>4, <1>6, <2>1
<1>7. CASE UNCHANGED vars
  BY <1>5, <1>7 DEF vars
<1>8. CASE SessionStep
  BY <1>5, <1>8 DEF SessionStep, Connect, Leave, LeaveHalting, Subscribe, Call, Release
<1>9. CASE DisconnectAll
  BY <1>4, <1>6, <1>9, WorkSameShifts DEF DisconnectAll, DropUpstream
<1>10. CASE Halt
  <2>1. WorkShifts(-1) /\ early' = early /\ fromNode' = fromNode
    BY <1>10, HaltShifts DEF Halt
  <2> QED BY <1>2, <1>3, <1>4, <2>1, ReadsNone
<1>11. CASE HaltEnds
  BY <1>4, <1>6, <1>11, WorkTailShifts DEF HaltEnds, Halting
<1>12. CASE Tell
  <2>1. WorkShifts(1) /\ early' = early /\ fromNode' = fromNode
    BY <1>12, WorkTailShifts DEF Tell, Working
  <2> QED BY <1>2, <1>3, <1>4, <2>1, ReadsNone
<1>13. CASE \E s \in Sessions : HaltSession(s)
  BY <1>5, <1>13 DEF HaltSession
<1>14. CASE HandleAnswer
  <2>1. EarlyStays
    BY <1>14, EarlyChanges DEF Buffers, HandleAnswer, FromNode
  <2>2. fromNode # <<>> /\ fromNode' = Tail(fromNode) /\ work = <<>>
    BY <1>14, HandleAnswerCases DEF HandleAnswer, FromNode
  <2>3. WorkShifts(0)
    <3>1. CASE work' = work
      BY <3>1, WorkSameShifts
    <3>2. ASSUME NEW p \in pending, Mapped(p) PROVE WorkShifts(0)
      <4>1. work' = <<[do |-> "flush", token |-> Reply.token]>>
        BY <1>14, <3>2, MappedShapes
      <4> QED BY <4>1 DEF WorkShifts
    <3> QED BY <1>14, <3>1, <3>2, HandleAnswerCases DEF Unknown, Relayed, Freed, Closed
  <2> QED BY <1>2, <1>4, <2>1, <2>2, <2>3, ReadsOne
<1> QED BY <1>7, <1>8, <1>9, <1>10, <1>11, <1>12, <1>13, <1>14, HandleEventInTurn, FlushInTurn, RouteInTurn
    DEF Next, BrokerStep, OwnerStep

\* An event the node has sent last of its subscription, or first.
Late(e) ==
  /\ e.token \in DOMAIN node'.sent /\ e.number <= node'.sent[e.token]
  /\ e.token \in DOMAIN node.sent => node.sent[e.token] < e.number

SentGrows == \A t \in DOMAIN node.sent : t \in DOMAIN node'.sent /\ node.sent[t] <= node'.sent[t]
OneLate ==
  \A i \in DOMAIN fromNode' : \/ i \in DOMAIN fromNode /\ fromNode'[i] = fromNode[i]
                              \/ fromNode'[i].msg = "answer"
                              \/ i = Len(fromNode) + 1 /\ Late(fromNode'[i].event)

LEMMA SentSame == ASSUME Shapes, node'.sent = node.sent PROVE SentGrows
BY SentParts DEF SentGrows

LEMMA AppendedLate ==
  ASSUME Shapes, NEW m \in Replies, fromNode' = Append(fromNode, m), m.msg = "answer" \/ Late(m.event)
  PROVE  OneLate
<1>1. fromNode \in Seq(Replies) /\ DOMAIN fromNode = 1 .. Len(fromNode)
  BY DEF Shapes
<1>2. /\ DOMAIN fromNode' = 1 .. Len(fromNode) + 1 /\ fromNode'[Len(fromNode) + 1] = m
      /\ \A i \in 1 .. Len(fromNode) : fromNode'[i] = fromNode[i]
  BY <1>1, Appended
<1>3. \A i \in DOMAIN fromNode' : i \in DOMAIN fromNode \/ i = Len(fromNode) + 1
  BY <1>1, <1>2
<1> QED BY <1>1, <1>2, <1>3 DEF OneLate

LEMMA NodeOpensLate == ASSUME BaseInv, NodeOpens PROVE SentGrows /\ OneLate
<1> USE DEF BaseInv
<1>1. Query.id \in Nat /\ NewToken \in Names /\ None \in Names /\ NewToken \in Nat /\ NewToken \notin DOMAIN node.sent
  BY NodeOpensCases, QueryShapes, NodeShapes, SentParts DEF Names, NewToken
<1>2. ASSUME NEW k \in Nat, node'.sent = Append(node.sent, k)
      PROVE  SentGrows /\ NewToken \in DOMAIN node'.sent /\ node'.sent[NewToken] = k
  <2>1. node.sent \in Seq(Nat) /\ DOMAIN node.sent = 1 .. Len(node.sent) /\ Len(node.sent) \in Nat
        /\ \A t \in DOMAIN node.sent : node.sent[t] \in Nat
    BY SentParts
  <2>2. /\ DOMAIN node'.sent = 1 .. Len(node.sent) + 1 /\ node'.sent[Len(node.sent) + 1] = k
        /\ \A t \in 1 .. Len(node.sent) : node'.sent[t] = node.sent[t]
    BY <1>2, <2>1, Appended
  <2> QED BY <2>1, <2>2 DEF SentGrows, NewToken
<1>3. ASSUME NEW t \in Names, fromNode' = Append(fromNode, AnswerMsg(Query.id, t)) PROVE OneLate
  <2>1. PICK m : m = AnswerMsg(Query.id, t)
    OBVIOUS
  <2>2. m \in Replies /\ m.msg = "answer"
    BY <1>1, <2>1, MessageShapes DEF AnswerMsg
  <2> QED BY <1>3, <2>1, <2>2, AppendedLate
<1>4. CASE Refuses
  BY <1>1, <1>3, <1>4, SentSame DEF Refuses
<1>5. CASE Runs
  BY <1>1, <1>2, <1>3, <1>5, NodeOpensShapes DEF Runs
<1>6. CASE Garbles
  BY <1>1, <1>2, <1>3, <1>6, NodeOpensShapes DEF Garbles
<1>7. ASSUME NEW x \in node.subs, SharesOne(x) PROVE SentGrows /\ OneLate
  <2>1. x.token \in Names
    BY NodeShapes DEF Subs, Names
  <2> QED BY <1>3, <1>7, <2>1, SentSame DEF SharesOne
<1>8. ASSUME NEW ends \in BOOLEAN, RunsEarly(ends) PROVE SentGrows /\ OneLate
  <2>1. node'.sent = Append(node.sent, 1)
    BY <1>8, NodeOpensShapes
  <2>2. SentGrows /\ NewToken \in DOMAIN node'.sent /\ node'.sent[NewToken] = 1
    BY <1>2, <2>1
  <2>3. PICK e : e = EventMsg(NewToken, 1, ends)
    OBVIOUS
  <2>4. PICK m : m = AnswerMsg(Query.id, NewToken)
    OBVIOUS
  <2>5. e \in Replies /\ m \in Replies
    BY <1>1, <2>3, <2>4, MessageShapes
  <2>6. <<e, m>> \in Seq(Replies) /\ Len(<<e, m>>) = 2 /\ <<e, m>>[1] = e /\ <<e, m>>[2] = m
    BY <2>5
  <2>7. fromNode' = fromNode \o <<e, m>>
    BY <1>8, <2>3, <2>4 DEF RunsEarly
  <2>8. fromNode \in Seq(Replies) /\ DOMAIN fromNode = 1 .. Len(fromNode) /\ Len(fromNode) \in Nat
    BY DEF Shapes
  <2>9. /\ Len(fromNode') = Len(fromNode) + 2 /\ DOMAIN fromNode' = 1 .. Len(fromNode) + 2
        /\ \A i \in 1 .. Len(fromNode) : fromNode'[i] = fromNode[i]
        /\ fromNode'[Len(fromNode) + 1] = e /\ fromNode'[Len(fromNode) + 2] = m
    BY <2>6, <2>7, <2>8, ConcatProperties
  <2>10. e.event.token = NewToken /\ e.event.number = 1 /\ m.msg = "answer"
    BY <2>3, <2>4 DEF EventMsg, AnswerMsg
  <2>11. Late(e.event)
    BY <1>1, <2>2, <2>10 DEF Late
  <2>12. \A i \in DOMAIN fromNode' : i \in DOMAIN fromNode \/ i = Len(fromNode) + 1 \/ i = Len(fromNode) + 2
    BY <2>8, <2>9
  <2>13. OneLate
    BY <2>8, <2>9, <2>10, <2>11, <2>12 DEF OneLate
  <2> QED BY <2>2, <2>13
<1> QED BY <1>4, <1>5, <1>6, <1>7, <1>8, NodeOpensCases

LEMMA NodeStepLate ==
  ASSUME BaseInv, NodeStep
  PROVE  SentGrows /\ OneLate /\ UNCHANGED <<early, work, owned, heard>>
<1> USE DEF BaseInv
<1>1. CASE NodeOpens
  BY <1>1, NodeOpensLate, NodeOpensCases
<1>2. CASE NodeReads
  <2>1. PICK m : m = AnswerMsg(Query.id, None)
    OBVIOUS
  <2>2. /\ fromNode' = fromNode \/ fromNode' = Append(fromNode, m)
        /\ node'.sent = node.sent /\ UNCHANGED <<early, work, owned, heard>> /\ Query.id \in Nat /\ None \in Names
    BY <1>2, <2>1, NodeReadsShapes, QueryShapes DEF Names
  <2>3. m \in Replies /\ m.msg = "answer"
    BY <2>1, <2>2, MessageShapes DEF AnswerMsg
  <2>4. OneLate
    BY <2>2, <2>3, AppendedLate DEF OneLate
  <2> QED BY <2>2, <2>4, SentSame
<1>3. ASSUME NEW x \in node.subs, NEW ends \in BOOLEAN, NodeSends(x, ends)
      PROVE  SentGrows /\ OneLate /\ UNCHANGED <<early, work, owned, heard>>
  <2>1. x.token \in DOMAIN node.sent /\ node.sent \in Seq(Nat) /\ \A t \in DOMAIN node.sent : node.sent[t] \in Nat
    BY SentParts DEF Known
  <2>2. PICK m : m = EventMsg(x.token, node.sent[x.token] + 1, ends)
    OBVIOUS
  <2>3. /\ fromNode' = Append(fromNode, m) /\ m \in Replies /\ UNCHANGED <<early, work, owned, heard>>
        /\ node'.sent = [node.sent EXCEPT ![x.token] = @ + 1]
    BY <1>3, <2>1, <2>2, NodeSendsShapes
  <2>4. m.event.token = x.token /\ m.event.number = node.sent[x.token] + 1
    BY <2>2 DEF EventMsg
  <2>5. DOMAIN node'.sent = DOMAIN node.sent /\ node'.sent[x.token] = node.sent[x.token] + 1
        /\ \A t \in DOMAIN node.sent : t # x.token => node'.sent[t] = node.sent[t]
    BY <2>1, <2>3
  <2>6. SentGrows
    BY <2>1, <2>5 DEF SentGrows
  <2>7. Late(m.event)
    BY <2>1, <2>4, <2>5 DEF Late
  <2> QED BY <2>3, <2>6, <2>7, AppendedLate
<1> QED BY <1>1, <1>2, <1>3 DEF NodeStep

\* What comes after a step of the node came before, or is late.
LEMMA LateComes ==
  ASSUME Shapes, Shapes', OneLate, UNCHANGED <<early, work>>
  PROVE  /\ \A e : Comes(e)' => Comes(e) \/ Late(e)
         /\ \A e, f : Ahead(e, f)' => Ahead(e, f) \/ (Comes(e) /\ Late(f))
<1>1. \A e, f : /\ EarlyHas(e)' <=> EarlyHas(e)
                /\ WorkHas(e)' <=> WorkHas(e)
                /\ EarlyRun(e, f)' <=> EarlyRun(e, f)
                /\ WorkRun(e, f)' <=> WorkRun(e, f)
  BY DEF EarlyHas, WorkHas, EarlyRun, WorkRun
<1>2. ASSUME NEW e, NodeHas(e)' PROVE NodeHas(e) \/ Late(e)
  BY <1>2 DEF NodeHas, OneLate
<1>3. /\ DOMAIN fromNode = 1 .. Len(fromNode) /\ Len(fromNode) \in Nat
      /\ DOMAIN fromNode' = 1 .. Len(fromNode') /\ Len(fromNode') \in Nat
  BY DEF Shapes
<1>4. ASSUME NEW e, NEW f, NodeRun(e, f)' PROVE NodeRun(e, f) \/ (NodeHas(e) /\ Late(f))
  <2>1. PICK i \in DOMAIN fromNode' : \E j \in DOMAIN fromNode' :
              /\ i < j /\ fromNode'[i].msg = "event" /\ fromNode'[j].msg = "event"
              /\ fromNode'[i].event = e /\ fromNode'[j].event = f
    BY <1>4 DEF NodeRun
  <2>2. PICK j \in DOMAIN fromNode' :
              /\ i < j /\ fromNode'[i].msg = "event" /\ fromNode'[j].msg = "event"
              /\ fromNode'[i].event = e /\ fromNode'[j].event = f
    BY <2>1
  <2>3. CASE j \in DOMAIN fromNode
    <3>1. i \in DOMAIN fromNode
      BY <1>3, <2>2, <2>3
    <3>2. i # Len(fromNode) + 1 /\ j # Len(fromNode) + 1
      BY <1>3, <2>3, <3>1
    <3>3. fromNode'[i] = fromNode[i] /\ fromNode'[j] = fromNode[j]
      BY <2>2, <3>2 DEF OneLate
    <3> QED BY <2>2, <2>3, <3>1, <3>3 DEF NodeRun
  <2>4. CASE j \notin DOMAIN fromNode
    <3>1. j = Len(fromNode) + 1 /\ Late(f)
      BY <2>2, <2>4 DEF OneLate
    <3>2. i # Len(fromNode) + 1
      BY <1>3, <2>2, <3>1
    <3>3. i \in DOMAIN fromNode /\ fromNode'[i] = fromNode[i]
      BY <2>2, <3>2 DEF OneLate
    <3> QED BY <2>2, <3>1, <3>3 DEF NodeHas
  <2> QED BY <2>3, <2>4
<1>5. \A e : Comes(e)' => Comes(e) \/ Late(e)
  BY <1>1, <1>2 DEF Comes
<1>6. \A e, f : Ahead(e, f)' => Ahead(e, f) \/ (Comes(e) /\ Late(f))
  BY <1>1, <1>2, <1>4 DEF Comes, Ahead
<1> QED BY <1>5, <1>6

\* Only the node sends.
LEMMA SentStays == ASSUME BaseInv, [Next]_vars PROVE SentGrows \/ NodeStep
<1> SUFFICES ASSUME ~NodeStep PROVE node'.sent = node.sent
  BY SentSame DEF BaseInv
<1>1. CASE SessionStep
  BY <1>1 DEF SessionStep, Connect, Leave, LeaveHalting, Subscribe, Call, Release
<1>2. CASE OwnerStep \/ HaltEnds
  <2>1. node' = node \/ node' = [node EXCEPT !.subs = {}, !.lost = {}]
      BY <1>2 DEF OwnerStep, DisconnectAll, DropUpstream, Halt, HaltEnds
  <2> QED BY <2>1 DEF BaseInv, Shapes, Nodes
<1>3. CASE HandleAnswer \/ HandleEvent \/ Flush \/ Route \/ Tell \/ \E s \in Sessions : HaltSession(s)
  BY <1>3 DEF HandleAnswer, HandleEvent, Flush, Route, Tell, HaltSession
<1>4. CASE UNCHANGED vars
  BY <1>4 DEF vars
<1> QED BY <1>1, <1>2, <1>3, <1>4 DEF Next, BrokerStep

LEMMA OrderedNext == ASSUME BaseInv, HoldsInv, Lined, EarlyOwn, Ordered, [Next]_vars PROVE Ordered'
<1>1. CASE InTurn /\ SentGrows
  <2>1. ASSUME NEW e \in Events, Comes(e)' PROVE KnownEvent(e)'
    <3>1. KnownEvent(e)
      BY <1>1, <2>1 DEF InTurn, Ordered
    <3>2. e.token \in DOMAIN node'.sent /\ node.sent[e.token] <= node'.sent[e.token] /\ e.number <= node.sent[e.token]
      BY <1>1, <3>1 DEF SentGrows, KnownEvent
    <3>3. e.number \in Nat /\ node.sent[e.token] \in Nat /\ node'.sent[e.token] \in Nat
      <4>1. Shapes'
        BY BaseInvNext DEF BaseInv
      <4>2. node'.sent \in Seq(Nat)
        BY <4>1 DEF Shapes, Nodes
      <4>3. node'.sent[e.token] \in Nat
        BY <3>2, <4>2
      <4> QED BY <3>1, <4>3, SentParts DEF BaseInv, KnownEvent, Events
    <3>4. e.number <= node'.sent[e.token]
      BY <3>2, <3>3
    <3> QED BY <3>2, <3>4 DEF KnownEvent
  <2>2. ASSUME NEW e \in Events, NEW f \in Events, Ahead(e, f)', e.token = f.token PROVE e.number < f.number
    BY <1>1, <2>2 DEF InTurn, Ordered
  <2> QED BY <2>1, <2>2 DEF Ordered
<1>2. CASE NodeStep
  <2>1. SentGrows /\ OneLate /\ UNCHANGED <<early, work>>
    BY <1>2, NodeStepLate
  <2>2. Shapes /\ Shapes'
    BY BaseInvNext DEF BaseInv
  <2>3. /\ \A t \in DOMAIN node.sent : node.sent[t] \in Nat
        /\ \A t \in DOMAIN node'.sent : node'.sent[t] \in Nat
    <3>1. node.sent \in Seq(Nat) /\ node'.sent \in Seq(Nat)
      BY <2>2 DEF Shapes, Nodes
    <3> QED BY <3>1
  <2>4. \A e \in Events : e.number \in Nat
    BY DEF Events
  <2>5. ASSUME NEW e \in Events, Comes(e)' PROVE KnownEvent(e)'
    <3>1. CASE Comes(e)
      <4>1. e.token \in DOMAIN node.sent /\ e.number <= node.sent[e.token]
        BY <3>1 DEF Ordered, KnownEvent
      <4>2. e.token \in DOMAIN node'.sent /\ node.sent[e.token] <= node'.sent[e.token]
        BY <2>1, <4>1 DEF SentGrows
      <4>3. e.number <= node'.sent[e.token]
        BY <2>3, <2>4, <4>1, <4>2
      <4> QED BY <4>2, <4>3 DEF KnownEvent
    <3>2. CASE Late(e)
      BY <3>2 DEF Late, KnownEvent
    <3> QED BY <2>1, <2>2, <2>5, <3>1, <3>2, LateComes
  <2>6. ASSUME NEW e \in Events, NEW f \in Events, Ahead(e, f)', e.token = f.token PROVE e.number < f.number
    <3>1. CASE Ahead(e, f)
      BY <2>6, <3>1 DEF Ordered
    <3>2. CASE Comes(e) /\ Late(f)
      <4>1. e.token \in DOMAIN node.sent /\ e.number <= node.sent[e.token]
        BY <3>2 DEF Ordered, KnownEvent
      <4>2. node.sent[e.token] < f.number
        BY <2>6, <3>2, <4>1 DEF Late
      <4> QED BY <2>3, <2>4, <4>1, <4>2
    <3> QED BY <2>1, <2>2, <2>6, <3>1, <3>2, LateComes
  <2> QED BY <2>5, <2>6 DEF Ordered
<1> QED BY <1>1, <1>2, EveryStepInTurn, SentStays


\* What was heard of a subscription is behind all that is still to come of it.
Told(l, n) == \A i \in DOMAIN heard[l].events : heard[l].events[i] < n
HeardSent == \A l \in DOMAIN heard : \A i \in DOMAIN heard[l].events : heard[l].events[i] <= node.sent[heard[l].token]
HeldUntold == \A o \in owned, e \in Events : Comes(e) /\ e.token = o.token => Told(o.local, e.number)
TellsUntold == \A k \in DOMAIN work : work[k].do = "tell" => Told(work[k].owned.local, work[k].event.number)
TellsFirst ==
  \A k \in DOMAIN work : work[k].do = "tell" =>
    /\ KnownEvent(work[k].event)
    /\ \A e \in Events : Comes(e) /\ e.token = work[k].event.token => work[k].event.number < e.number
Hears == HeardInOrder /\ HeardSent /\ HeldUntold /\ TellsUntold /\ TellsFirst

SameHeard ==
  /\ NamesKept /\ DOMAIN heard' = DOMAIN heard
  /\ \A l \in DOMAIN heard : heard'[l].events = heard[l].events

LEMMA HeardUnchanged == ASSUME heard' = heard PROVE SameHeard
BY DEF SameHeard, NamesKept

\* A token keeps its count of events.
LEMMA SentKept ==
  ASSUME Shapes, Shapes', SentGrows, NEW t \in DOMAIN node.sent, NEW n \in Nat, n <= node.sent[t]
  PROVE  t \in DOMAIN node'.sent /\ n <= node'.sent[t]
<1>1. node.sent \in Seq(Nat) /\ node'.sent \in Seq(Nat)
  BY DEF Shapes, Nodes
<1>2. t \in DOMAIN node'.sent /\ node.sent[t] <= node'.sent[t]
  BY DEF SentGrows
<1>3. node.sent[t] \in Nat /\ node'.sent[t] \in Nat
  BY <1>1, <1>2
<1> QED BY <1>2, <1>3

\* Steps by which nobody hears anything.
LEMMA SilentHears ==
  ASSUME BaseInv, Shapes', Hears, SameHeard, SentGrows
  PROVE  HeardInOrder' /\ HeardSent'
<1>1. HeardInOrder'
  BY DEF Hears, HeardInOrder, SameHeard
<1>2. ASSUME NEW l \in DOMAIN heard', NEW i \in DOMAIN heard'[l].events
      PROVE  heard'[l].events[i] <= node'.sent[heard'[l].token]
  <2>1. l \in DOMAIN heard /\ heard'[l].events = heard[l].events /\ heard'[l].token = heard[l].token
    BY DEF SameHeard, NamesKept
  <2>2. heard[l].events[i] <= node.sent[heard[l].token] /\ i \in DOMAIN heard[l].events
    BY <2>1 DEF Hears, HeardSent
  <2>3. heard[l].token \in DOMAIN node.sent
    BY <2>1 DEF BaseInv, Known
  <2>4. heard[l].events \in Seq(Nat)
    BY <2>1, HeardParts DEF BaseInv
  <2>5. heard[l].events[i] \in Nat
    BY <2>2, <2>4
  <2> QED BY <2>1, <2>2, <2>3, <2>5, SentKept DEF BaseInv
<1> QED BY <1>1, <1>2 DEF HeardSent

LEMMA SilentTold ==
  ASSUME SameHeard, NEW l \in DOMAIN heard, NEW n, Told(l, n)
  PROVE  Told(l, n)'
BY DEF SameHeard, Told

LEMMA SilentHolds ==
  ASSUME BaseInv, Hears, SameHeard, InTurn, owned' \subseteq owned
  PROVE  HeldUntold'
<1> SUFFICES ASSUME NEW o \in owned', NEW e \in Events, Comes(e)', e.token = o.token PROVE Told(o.local, e.number)'
  BY DEF HeldUntold, Told
<1>1. Told(o.local, e.number)
  BY DEF InTurn, Hears, HeldUntold
<1>2. o.local \in DOMAIN heard
  BY DEF BaseInv, Named, Belongs
<1> QED BY <1>1, <1>2, SilentTold

LEMMA SilentTells ==
  ASSUME BaseInv, Shapes', Hears, SameHeard, InTurn, SentGrows,
         \A i \in DOMAIN work' : work'[i].do = "tell" => \E j \in DOMAIN work : work[j] = work'[i]
  PROVE  TellsUntold' /\ TellsFirst'
<1> SUFFICES ASSUME NEW k \in DOMAIN work', work'[k].do = "tell",
                    NEW o, o = work'[k].owned, NEW f, f = work'[k].event
             PROVE  /\ Told(o.local, f.number)' /\ KnownEvent(f)'
                    /\ \A e \in Events : Comes(e)' /\ e.token = f.token => f.number < e.number
  BY DEF TellsUntold, TellsFirst, Told, KnownEvent
<1>1. PICK j \in DOMAIN work : work[j] = work'[k]
  OBVIOUS
<1>2. work[j].do = "tell" /\ o = work[j].owned /\ f = work[j].event
  BY <1>1
<1>3. f \in Events /\ o \in Helds
  BY <1>2, WorkParts DEF BaseInv, WorkItems
<1>4. o.local \in DOMAIN heard
  BY <1>2 DEF BaseInv, Telling, Belongs
<1>5. Told(o.local, f.number)'
  BY <1>2, <1>4, SilentTold DEF Hears, TellsUntold
<1>6. KnownEvent(f)'
  <2>1. KnownEvent(f)
    BY <1>2 DEF Hears, TellsFirst
  <2>2. f.number \in Nat
    BY <1>3 DEF Events
  <2> QED BY <2>1, <2>2, SentKept DEF BaseInv, KnownEvent
<1>7. \A e \in Events : Comes(e)' /\ e.token = f.token => f.number < e.number
  BY <1>2 DEF InTurn, Hears, TellsFirst
<1> QED BY <1>5, <1>6, <1>7

LEMMA SilentStepHears ==
  ASSUME BaseInv, Shapes', Hears, SameHeard, InTurn, SentGrows, owned' \subseteq owned,
         \A i \in DOMAIN work' : work'[i].do = "tell" => \E j \in DOMAIN work : work[j] = work'[i]
  PROVE  Hears'
<1>1. HeardInOrder' /\ HeardSent'
  BY SilentHears
<1>2. HeldUntold'
  BY SilentHolds
<1>3. TellsUntold' /\ TellsFirst'
  BY SilentTells
<1> QED BY <1>1, <1>2, <1>3 DEF Hears


LEMMA MappedHears ==
  ASSUME BaseInv, Shapes', Hears, InTurn, SentGrows, HandleAnswer, NEW p \in pending, Mapped(p)
  PROVE  Hears'
<1> USE DEF BaseInv
<1>1. /\ NamesKept /\ DOMAIN heard' = 1 .. Len(heard) + 1 /\ DOMAIN heard = 1 .. Len(heard)
      /\ Len(heard) \in Nat /\ heard'[Len(heard) + 1] = NewHearing(p)
      /\ \A l \in DOMAIN heard : heard'[l] = heard[l]
  BY MappedNames
<1>2. owned' = owned \cup {NewHeld(p)} /\ work' = <<[do |-> "flush", token |-> Reply.token]>>
  BY MappedShapes
<1>3. NewHearing(p).events = <<>> /\ NewHeld(p).local = Len(heard) + 1
  BY DEF NewHearing, NewHeld
<1>4. \A l \in DOMAIN heard' : l \in DOMAIN heard \/ heard'[l].events = <<>>
  BY <1>1, <1>3
<1>5. HeardInOrder'
  BY <1>1, <1>4 DEF Hears, HeardInOrder
<1>6. ASSUME NEW l \in DOMAIN heard', NEW i \in DOMAIN heard'[l].events
      PROVE  heard'[l].events[i] <= node'.sent[heard'[l].token]
  <2>1. l \in DOMAIN heard /\ heard'[l] = heard[l]
    BY <1>1, <1>4, <1>6
  <2>2. heard[l].events[i] <= node.sent[heard[l].token] /\ i \in DOMAIN heard[l].events
    BY <1>6, <2>1 DEF Hears, HeardSent
  <2>3. heard[l].token \in DOMAIN node.sent
    BY <2>1 DEF Known
  <2>4. heard[l].events \in Seq(Nat)
    BY <2>1, HeardParts
  <2>5. heard[l].events[i] \in Nat
    BY <2>2, <2>4
  <2> QED BY <2>1, <2>2, <2>3, <2>5, SentKept
<1>7. ASSUME NEW o \in owned', NEW e \in Events, Comes(e)', e.token = o.token PROVE Told(o.local, e.number)'
  <2>1. CASE o \in owned
    <3>1. Told(o.local, e.number)
      BY <1>7, <2>1 DEF InTurn, Hears, HeldUntold
    <3>2. o.local \in DOMAIN heard
      BY <2>1 DEF Named, Belongs
    <3> QED BY <1>1, <3>1, <3>2 DEF Told
  <2>2. CASE o = NewHeld(p)
    <3>1. heard'[o.local].events = <<>>
      BY <1>1, <1>3, <2>2
    <3> QED BY <3>1 DEF Told
  <2> QED BY <1>2, <2>1, <2>2
<1>8. TellsUntold' /\ TellsFirst'
  BY <1>2 DEF TellsUntold, TellsFirst
<1>9. HeardSent' /\ HeldUntold'
  BY <1>6, <1>7 DEF HeardSent, HeldUntold, Told
<1> QED BY <1>5, <1>8, <1>9 DEF Hears

\* An event at the head is behind all that was heard and ahead of all that comes.
LEMMA RouteHears ==
  ASSUME BaseInv, Shapes', Lined, EarlyOwn, HeldFlushed, Ordered, Hears, InTurn, SentGrows, Route
  PROVE  Hears'
<1> USE DEF BaseInv
<1>1. /\ work # <<>> /\ work[1].do = "event" /\ work[1].event \in Events /\ owned' \subseteq owned
      /\ early' = early \/ Holders(work[1].event.token) = {}
  BY RouteShapes
<1>2. 1 \in DOMAIN work /\ \A j \in DOMAIN work : work[j].do = "event" /\ j \in Nat
  BY <1>1, EventFirst, HeadTail DEF Shapes
<1>3. PICK e \in Events : e = work[1].event
  BY <1>1
<1>4. PICK order \in Seq(Helds) : RoutedTo(order) /\ \A i \in DOMAIN order : order[i] \in Holders(e.token)
  BY <1>3, RoutePlaces
<1>5. heard' = heard /\ fromNode' = fromNode
  BY DEF Route
<1>6. SameHeard
  BY <1>5, HeardUnchanged
<1>7. HeardInOrder' /\ HeardSent' /\ HeldUntold'
  BY <1>1, <1>6, SilentHears, SilentHolds
<1>8. WorkHas(e) /\ Comes(e)
  BY <1>2, <1>3 DEF WorkHas, Comes
<1>9. ASSUME NEW k \in DOMAIN work', work'[k].do = "tell"
      PROVE  work'[k].event = e /\ work'[k].owned \in owned /\ work'[k].owned.token = e.token
  <2>1. k \in DOMAIN order /\ work'[k] = [do |-> "tell", owned |-> order[k], event |-> e]
    BY <1>2, <1>3, <1>4, <1>9 DEF RoutedTo
  <2>2. order[k] \in owned /\ order[k].token = e.token
    BY <1>4, <2>1 DEF Holders
  <2> QED BY <2>1, <2>2
<1>10. TellsUntold'
  <2> SUFFICES ASSUME NEW k \in DOMAIN work', work'[k].do = "tell", NEW o, o = work'[k].owned, NEW f, f = work'[k].event
               PROVE  Told(o.local, f.number)'
    BY DEF TellsUntold, Told
  <2>1. f = e /\ o \in owned /\ o.token = e.token
    BY <1>9
  <2>2. Told(o.local, e.number)
    BY <1>8, <2>1 DEF Hears, HeldUntold
  <2> QED BY <1>5, <2>1, <2>2 DEF Told
<1>11. ASSUME NEW f \in Events, Comes(f)', f.token = e.token, early' = early, NoneEarly,
              NEW o \in owned, o.token = e.token
       PROVE  e.number < f.number
  <2>1. CASE EarlyHas(f)'
    <3>1. PICK k \in DOMAIN early : \E j \in DOMAIN early[k].events : early[k].events[j] = f
      BY <1>11, <2>1 DEF EarlyHas
    <3>2. early[k].token = e.token
      BY <1>11, <3>1 DEF EarlyOwn
    <3> QED BY <1>11, <3>2 DEF NoneEarly
  <2>2. CASE WorkHas(f)'
    <3>1. PICK i \in DOMAIN work' : work'[i].do = "event" /\ work'[i].event = f
      BY <2>2 DEF WorkHas
    <3>2. PICK k \in DOMAIN work : k > 1 /\ work'[i] = work[k]
      <4>1. work'[i] # [do |-> "tell", owned |-> order[i], event |-> work[1].event]
        BY <3>1
      <4> QED BY <1>4, <4>1 DEF RoutedTo
    <3>3. 1 < k /\ work[k].do = "event" /\ work[k].event = f
      BY <1>2, <3>1, <3>2
    <3>4. WorkRun(e, f)
      BY <1>2, <1>3, <3>3 DEF WorkRun
    <3> QED BY <1>11, <3>4 DEF Ordered, Ahead
  <2>3. CASE NodeHas(f)'
    <3>1. NodeHas(f)
      BY <1>5, <2>3 DEF NodeHas
    <3> QED BY <1>8, <1>11, <3>1 DEF Ordered, Ahead
  <2> QED BY <1>11, <2>1, <2>2, <2>3 DEF Comes
<1>12. TellsFirst'
  <2> SUFFICES ASSUME NEW k \in DOMAIN work', work'[k].do = "tell", NEW o, o = work'[k].owned, NEW g, g = work'[k].event
               PROVE  KnownEvent(g)' /\ \A f \in Events : Comes(f)' /\ f.token = g.token => g.number < f.number
    BY DEF TellsFirst, KnownEvent
  <2>1. g = e /\ o \in owned /\ o.token = e.token
    BY <1>9
  <2>2. early' = early
    BY <1>1, <1>3, <2>1 DEF Holders
  <2>3. NoneEarly
    BY <1>2 DEF NoneEarly, HeldFlushed, Flushing
  <2>4. KnownEvent(e)'
    <3>1. KnownEvent(e) /\ e.number \in Nat
      BY <1>8 DEF Ordered, Events
    <3> QED BY <3>1, SentKept DEF KnownEvent
  <2> QED BY <1>11, <2>1, <2>2, <2>3, <2>4
<1> QED BY <1>7, <1>10, <1>12 DEF Hears

\* The last number heard is the greatest.
LEMMA GrowsInOrder ==
  ASSUME NEW s \in Seq(Nat), NEW n \in Nat, \A i \in DOMAIN s : s[i] < n,
         \A i, j \in DOMAIN s : i < j => s[i] < s[j], NEW u, u = Append(s, n)
  PROVE  /\ \A i, j \in DOMAIN u : i < j => u[i] < u[j]
         /\ \A i \in DOMAIN u : u[i] = n \/ \E k \in DOMAIN s : u[i] = s[k]
<1>1. /\ Len(u) = Len(s) + 1 /\ u[Len(s) + 1] = n /\ u \in Seq(Nat) /\ Len(s) \in Nat
      /\ \A i \in 1 .. Len(s) : u[i] = s[i]
  BY Appended
<1>2. DOMAIN u = 1 .. Len(s) + 1 /\ DOMAIN s = 1 .. Len(s)
  BY <1>1
<1>3. \A i \in DOMAIN u : i \in DOMAIN s \/ i = Len(s) + 1
  BY <1>1, <1>2
<1>4. ASSUME NEW i \in DOMAIN u, NEW k \in DOMAIN u, i < k PROVE u[i] < u[k]
  <2>1. i \in DOMAIN s /\ u[i] = s[i]
    BY <1>1, <1>2, <1>4
  <2>2. CASE k \in DOMAIN s
    BY <1>1, <1>2, <1>4, <2>1, <2>2
  <2>3. CASE k = Len(s) + 1
    BY <1>1, <2>1, <2>3
  <2> QED BY <1>3, <2>2, <2>3
<1> QED BY <1>1, <1>2, <1>3, <1>4


LEMMA TellGrows ==
  ASSUME BaseInv, Hears, Tell
  PROVE  /\ NamesKept /\ DOMAIN heard' = DOMAIN heard /\ HeardInOrder'
         /\ \A l \in DOMAIN heard : l # work[1].owned.local => heard'[l] = heard[l]
         /\ \A l \in DOMAIN heard : \A i \in DOMAIN heard'[l].events :
              \/ \E k \in DOMAIN heard[l].events : heard'[l].events[i] = heard[l].events[k]
              \/ l = work[1].owned.local /\ heard'[l].events[i] = work[1].event.number
<1> USE DEF BaseInv
<1>1. PICK o \in Helds, e \in Events : o = work[1].owned /\ e = work[1].event
  BY TellShapes
<1>2. 1 \in DOMAIN work /\ work[1].do = "tell"
  BY TellShapes, HeadTail DEF Shapes
<1>3. NamesKept /\ DOMAIN heard' = DOMAIN heard
  BY TellNames
<1>4. \A l \in DOMAIN heard :
        heard'[l] = heard[l] \/ (l = o.local /\ heard'[l].events = Append(heard[l].events, e.number))
  BY <1>1, TellNames
<1>5. Told(o.local, e.number) /\ e.number \in Nat
  BY <1>1, <1>2 DEF Hears, TellsUntold, Events
<1>6. ASSUME NEW l \in DOMAIN heard
      PROVE  /\ \A i, k \in DOMAIN heard'[l].events : i < k => heard'[l].events[i] < heard'[l].events[k]
             /\ \A i \in DOMAIN heard'[l].events :
                  \/ \E k \in DOMAIN heard[l].events : heard'[l].events[i] = heard[l].events[k]
                  \/ l = o.local /\ heard'[l].events[i] = e.number
  <2>1. heard[l].events \in Seq(Nat)
    BY HeardParts
  <2>2. \A i, k \in DOMAIN heard[l].events : i < k => heard[l].events[i] < heard[l].events[k]
    BY DEF Hears, HeardInOrder
  <2>3. CASE heard'[l] = heard[l]
    BY <2>2, <2>3
  <2>4. CASE l = o.local /\ heard'[l].events = Append(heard[l].events, e.number)
    <3>1. \A i \in DOMAIN heard[l].events : heard[l].events[i] < e.number
      BY <1>5, <2>4 DEF Told
    <3>2. PICK n \in Nat : n = e.number
      BY <1>5
    <3>3. PICK s \in Seq(Nat) : s = heard[l].events
      BY <2>1
    <3>4. PICK u : u = heard'[l].events
      OBVIOUS
    <3>5. u = Append(s, n) /\ \A i \in DOMAIN s : s[i] < n
      BY <2>4, <3>1, <3>2, <3>3, <3>4
    <3>6. \A i, k \in DOMAIN s : i < k => s[i] < s[k]
      BY <2>2, <3>3
    <3>7. /\ \A i, k \in DOMAIN u : i < k => u[i] < u[k]
          /\ \A i \in DOMAIN u : u[i] = n \/ \E k \in DOMAIN s : u[i] = s[k]
      BY <3>5, <3>6, GrowsInOrder
    <3> QED BY <2>4, <3>2, <3>3, <3>4, <3>7
  <2> QED BY <1>4, <2>3, <2>4
<1>7. HeardInOrder'
  BY <1>3, <1>6 DEF HeardInOrder
<1> QED BY <1>1, <1>3, <1>4, <1>6, <1>7

LEMMA TellHears ==
  ASSUME BaseInv, Shapes', Lined, Hears, InTurn, Tell
  PROVE  Hears'
<1> USE DEF BaseInv
<1>1. PICK o \in Helds, e \in Events : o = work[1].owned /\ e = work[1].event
  BY TellShapes
<1>2. 1 \in DOMAIN work /\ work[1].do = "tell" /\ work # <<>> /\ work' = Tail(work)
  BY TellShapes, HeadTail DEF Shapes
<1>3. UNCHANGED <<node, owned>>
  BY DEF Tell
<1>4. Belongs(o) /\ e.token = o.token
  BY <1>1, <1>2 DEF Telling
<1>5. /\ KnownEvent(e)
      /\ \A f \in Events : Comes(f) /\ f.token = e.token => e.number < f.number
  BY <1>1, <1>2 DEF Hears, TellsFirst
<1>6. /\ NamesKept /\ DOMAIN heard' = DOMAIN heard /\ HeardInOrder'
      /\ \A l \in DOMAIN heard : l # o.local => heard'[l] = heard[l]
      /\ \A l \in DOMAIN heard : \A i \in DOMAIN heard'[l].events :
              \/ \E k \in DOMAIN heard[l].events : heard'[l].events[i] = heard[l].events[k]
              \/ l = o.local /\ heard'[l].events[i] = e.number
  BY <1>1, TellGrows
<1>7. ASSUME NEW l \in DOMAIN heard', NEW i \in DOMAIN heard'[l].events
      PROVE  heard'[l].events[i] <= node.sent[heard[l].token]
  <2>1. CASE \E k \in DOMAIN heard[l].events : heard'[l].events[i] = heard[l].events[k]
    BY <1>6, <2>1 DEF Hears, HeardSent
  <2>2. CASE l = o.local /\ heard'[l].events[i] = e.number
    BY <1>4, <1>5, <2>2 DEF KnownEvent, Belongs
  <2> QED BY <1>6, <2>1, <2>2
<1>8. HeardSent'
  <2>1. \A l \in DOMAIN heard : heard'[l].token = heard[l].token
    BY <1>6 DEF NamesKept
  <2> QED BY <1>3, <1>6, <1>7, <2>1 DEF HeardSent
<1>9. ASSUME NEW x \in owned, NEW f \in Events, Comes(f)', f.token = x.token PROVE Told(x.local, f.number)'
  <2>1. Comes(f) /\ Told(x.local, f.number)
    BY <1>9 DEF InTurn, Hears, HeldUntold
  <2>2. x.local \in DOMAIN heard /\ heard[x.local].token = x.token
    BY DEF Named, Belongs
  <2>3. x.local = o.local => e.number < f.number
    BY <1>4, <1>5, <1>9, <2>1, <2>2 DEF Belongs
  <2> QED BY <1>6, <2>1, <2>2, <2>3 DEF Told
<1>10. HeldUntold'
  BY <1>3, <1>9 DEF HeldUntold, Told
<1>11. ASSUME NEW k \in DOMAIN work', work'[k].do = "tell"
       PROVE  \E j \in DOMAIN work : j # 1 /\ work[j] = work'[k]
  <2>1. k \in Nat /\ k + 1 \in DOMAIN work /\ work'[k] = work[k + 1] /\ k \in DOMAIN work'
    BY <1>2, TailParts
  <2>2. k # 0
    BY <2>1 DEF Shapes
  <2> QED BY <2>1, <2>2
<1>12. TellsUntold'
  <2> SUFFICES ASSUME NEW k \in DOMAIN work', work'[k].do = "tell", NEW x, x = work'[k].owned, NEW f, f = work'[k].event
               PROVE  Told(x.local, f.number)'
    BY DEF TellsUntold, Told
  <2>1. PICK j \in DOMAIN work : j # 1 /\ work[j] = work'[k]
    BY <1>11
  <2>2. work[j].do = "tell" /\ x = work[j].owned /\ f = work[j].event
    BY <2>1
  <2>3. x.local # o.local
    BY <1>1, <1>2, <2>1, <2>2 DEF Lined
  <2>4. Told(x.local, f.number) /\ x.local \in DOMAIN heard
    BY <2>2 DEF Hears, TellsUntold, Telling, Belongs
  <2> QED BY <1>6, <2>3, <2>4 DEF Told
<1>13. TellsFirst'
  <2> SUFFICES ASSUME NEW k \in DOMAIN work', work'[k].do = "tell", NEW g, g = work'[k].event
               PROVE  KnownEvent(g)' /\ \A f \in Events : Comes(f)' /\ f.token = g.token => g.number < f.number
    BY DEF TellsFirst, KnownEvent
  <2>1. PICK j \in DOMAIN work : j # 1 /\ work[j] = work'[k]
    BY <1>11
  <2>2. work[j].do = "tell" /\ g = work[j].event
    BY <2>1
  <2>3. KnownEvent(g) /\ \A f \in Events : Comes(f) /\ f.token = g.token => g.number < f.number
    BY <2>2 DEF Hears, TellsFirst
  <2> QED BY <1>3, <2>3 DEF InTurn, KnownEvent
<1> QED BY <1>6, <1>8, <1>10, <1>12, <1>13 DEF Hears

\* What the node sends comes after all it sent before.
LEMMA NodeHears == ASSUME BaseInv, Shapes', Hears, NodeStep PROVE Hears'
<1> USE DEF BaseInv
<1>1. SentGrows /\ OneLate /\ UNCHANGED <<early, work, owned, heard>>
  BY NodeStepLate
<1>2. SameHeard
  BY <1>1, HeardUnchanged
<1>3. HeardInOrder' /\ HeardSent'
  BY <1>1, <1>2, SilentHears
<1>4. \A e : Comes(e)' => Comes(e) \/ Late(e)
  BY <1>1, LateComes
<1>5. ASSUME NEW t \in DOMAIN node.sent, NEW n \in Nat, n <= node.sent[t], NEW e \in Events, Late(e), e.token = t
      PROVE  n < e.number
  <2>1. node.sent[t] < e.number
    BY <1>5 DEF Late
  <2>2. node.sent[t] \in Nat /\ e.number \in Nat
    BY SentParts DEF Events
  <2> QED BY <1>5, <2>1, <2>2
<1>6. ASSUME NEW l \in DOMAIN heard, NEW e \in Events, Late(e), e.token = heard[l].token PROVE Told(l, e.number)
  <2>1. heard[l].token \in DOMAIN node.sent
    BY DEF Known
  <2>2. heard[l].events \in Seq(Nat)
    BY HeardParts
  <2>3. ASSUME NEW i \in DOMAIN heard[l].events PROVE heard[l].events[i] < e.number
    <3>1. heard[l].events[i] \in Nat
      BY <2>2
    <3>2. heard[l].events[i] <= node.sent[heard[l].token]
      BY DEF Hears, HeardSent
    <3> QED BY <1>5, <1>6, <2>1, <3>1, <3>2
  <2> QED BY <2>3 DEF Told
<1>7. ASSUME NEW o \in owned, NEW e \in Events, Comes(e)', e.token = o.token PROVE Told(o.local, e.number)
  <2>1. o.local \in DOMAIN heard /\ heard[o.local].token = o.token
    BY DEF Named, Belongs
  <2>2. CASE Comes(e)
    BY <1>7, <2>2 DEF Hears, HeldUntold
  <2>3. CASE Late(e)
    BY <1>6, <1>7, <2>1, <2>3
  <2> QED BY <1>4, <1>7, <2>2, <2>3
<1>8. HeldUntold' /\ TellsUntold'
  <2>1. HeldUntold'
    BY <1>1, <1>7 DEF HeldUntold, Told
  <2>2. TellsUntold'
    BY <1>1 DEF Hears, TellsUntold, Told
  <2> QED BY <2>1, <2>2
<1>9. TellsFirst'
  <2> SUFFICES ASSUME NEW k \in DOMAIN work, work[k].do = "tell", NEW g, g = work[k].event
               PROVE  KnownEvent(g)' /\ \A f \in Events : Comes(f)' /\ f.token = g.token => g.number < f.number
    BY <1>1 DEF TellsFirst, KnownEvent
  <2>1. KnownEvent(g) /\ \A f \in Events : Comes(f) /\ f.token = g.token => g.number < f.number
    BY DEF Hears, TellsFirst
  <2>2. g.number \in Nat
    <3>1. work[k] \in WorkItems
      BY WorkParts
    <3> QED BY <3>1 DEF WorkItems, Events
  <2>3. KnownEvent(g)'
    BY <1>1, <2>1, <2>2, SentKept DEF KnownEvent
  <2>4. ASSUME NEW f \in Events, Late(f), f.token = g.token PROVE g.number < f.number
    BY <1>5, <2>1, <2>2, <2>4 DEF KnownEvent
  <2> QED BY <1>4, <2>1, <2>3, <2>4
<1> QED BY <1>3, <1>8, <1>9 DEF Hears

LEMMA HearsNext ==
  ASSUME BaseInv, HoldsInv, Lined, EarlyOwn, HeldFlushed, Ordered, Hears, [Next]_vars
  PROVE  Hears'
<1> USE DEF BaseInv
<1>1. Shapes'
  BY BaseInvNext
<1>2. CASE NodeStep
  BY <1>1, <1>2, NodeHears
<1> SUFFICES ASSUME ~NodeStep PROVE Hears'
  BY <1>2
<1>3. InTurn /\ SentGrows
  BY EveryStepInTurn, SentStays
<1>4. ASSUME SameHeard, owned' \subseteq owned,
             \A i \in DOMAIN work' : work'[i].do = "tell" => \E j \in DOMAIN work : work[j] = work'[i]
      PROVE  Hears'
  BY <1>1, <1>3, <1>4, SilentStepHears
<1>5. ASSUME heard' = heard, owned' \subseteq owned, work' = work PROVE Hears'
  BY <1>4, <1>5, HeardUnchanged
<1>6. CASE UNCHANGED vars
  BY <1>5, <1>6 DEF vars
<1>7. CASE SessionStep
  BY <1>5, <1>7 DEF SessionStep, Connect, Leave, LeaveHalting, Subscribe, Call, Release
<1>8. CASE DisconnectAll
  BY <1>5, <1>8 DEF DisconnectAll, DropUpstream
<1>9. CASE Halt
  BY <1>4, <1>9, HaltTells, HeardUnchanged DEF Halt
<1>10. CASE HaltEnds
  <2>1. heard' = heard /\ owned' \subseteq owned /\ work # <<>> /\ work' = Tail(work)
    BY <1>10 DEF HaltEnds, Halting
  <2> QED BY <1>4, <2>1, TailParts, HeardUnchanged
<1>11. CASE \E s \in Sessions : HaltSession(s)
  <2>1. work' = work /\ owned' = owned /\ SameHeard
    BY <1>11, HaltSessionNames DEF HaltSession, SameHeard
  <2> QED BY <1>4, <2>1
<1>12. CASE HandleAnswer
  <2>1. CASE heard' = heard /\ owned' = owned /\ work' = work
    BY <1>5, <2>1
  <2>2. ASSUME NEW p \in pending, Mapped(p) PROVE Hears'
    BY <1>1, <1>3, <1>12, <2>2, MappedHears
  <2> QED BY <1>12, <2>1, <2>2, HandleAnswerCases DEF Unknown, Relayed, Freed, Closed
<1>13. CASE HandleEvent
  <2>1. work' = <<[do |-> "event", event |-> Reply.event]>> /\ UNCHANGED <<heard, owned>>
    BY <1>13, HandleEventShapes DEF HandleEvent
  <2> QED BY <1>4, <2>1, HeardUnchanged
<1>14. CASE Flush
  <2>1. DOMAIN work = {1} /\ UNCHANGED <<heard, owned>>
    BY <1>14, FlushShapes, FlushAlone DEF Flush
  <2>2. PICK events \in Seq(Events) : FlushedTo(events)
    BY <1>14, FlushPlaces
  <2>3. \A i \in DOMAIN work' : work'[i].do = "event"
    BY <2>1, <2>2 DEF FlushedTo
  <2> QED BY <1>4, <2>1, <2>3, HeardUnchanged
<1>15. CASE Route
  BY <1>1, <1>3, <1>15, RouteHears
<1>16. CASE Tell
  BY <1>1, <1>3, <1>16, TellHears
<1> QED BY <1>6, <1>7, <1>8, <1>9, <1>10, <1>11, <1>12, <1>13, <1>14, <1>15, <1>16 DEF Next, BrokerStep, OwnerStep

HearInv == Lined /\ EarlyOwn /\ HeldFlushed /\ Ordered /\ Hears

LEMMA HearInvInit == Init => HearInv
<1> SUFFICES ASSUME Init PROVE HearInv
  OBVIOUS
<1>1. work = <<>> /\ early = <<>> /\ fromNode = <<>> /\ owned = {} /\ heard = <<>>
  BY DEF Init
<1>2. Lined /\ EarlyOwn /\ HeldFlushed
  BY <1>1 DEF Lined, EarlyOwn, HeldFlushed
<1>3. Ordered
  BY <1>1 DEF Ordered, Comes, Ahead, EarlyHas, WorkHas, NodeHas, EarlyRun, WorkRun, NodeRun
<1>4. Hears
  BY <1>1 DEF Hears, HeardInOrder, HeardSent, HeldUntold, TellsUntold, TellsFirst
<1> QED BY <1>2, <1>3, <1>4 DEF HearInv

\* Each local token hears its own subscription's events in the order the node sent them, each once, whatever sessions
\* do from the middle of a delivery, and those that came before the answer first (buffer, flush,
\* handleUpstreamSubscription).
THEOREM BrokerHeardInOrder == Spec => []HeardInOrder
<1>1. BaseInv /\ HoldsInv /\ HearInv /\ [Next]_vars => HearInv'
  BY LinedNext, EarlyOwnNext, HeldFlushedNext, OrderedNext, HearsNext DEF HearInv
<1>2. HearInv => HeardInOrder
  BY DEF HearInv, Hears
<1> QED BY <1>1, <1>2, HearInvInit, HoldsInvariant, PTL DEF Spec

=============================================================================
