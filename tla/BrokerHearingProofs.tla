------------------------ MODULE BrokerHearingProofs ------------------------
(***************************************************************************)
(* Theorems about ChainBroker, for any number of sessions, requests and    *)
(* events: what was heard of a subscription is its node's events from the  *)
(* first without a gap (HeardAll), and every other one the node sent is    *)
(* still to come (Whole), where the node names each subscription once and  *)
(* sends no more events than the early events have room for.               *)
(*                                                                         *)
(* ChainBrokerProofs orders what waits; this module says that nothing is   *)
(* missing from it.  Singly: a token is named by one answer, and what is   *)
(* expected (held, or still to be told of) is not being released.  Few and *)
(* Placed: there are no more tokens with events than events, and an early  *)
(* event is no later in its list than its number, so there is room for     *)
(* each.  Alive: what is expected runs at the node, or its end is on the   *)
(* way.  Whole: what is expected has heard, is being told, has early or on *)
(* the way every event the node sent of it, and hears the next one next.   *)
(***************************************************************************)
EXTENDS ChainBrokerProofs

----------------------------------------------------------------------------
(* Nothing expected is named twice or released. *)

Awaited(t) == \E i \in DOMAIN fromNode : fromNode[i].msg = "answer" /\ fromNode[i].token = t

\* A subscription that some session holds or has yet to be told of.
Expected(t) == t \in Nat /\ (Awaited(t) \/ \E o \in owned : o.token = t)

NamedOnce ==
  /\ \A i, j \in DOMAIN fromNode :
       fromNode[i].msg = "answer" /\ fromNode[j].msg = "answer" /\ fromNode[i].token # None
       /\ fromNode[i].token = fromNode[j].token => i = j
  /\ \A t \in Nat : Awaited(t) => \A l \in DOMAIN heard : heard[l].token # t

\* Nothing expected is being released.
Unreleased ==
  /\ \A i \in DOMAIN toNode : toNode[i].token \in DOMAIN node.sent \cup {None}
  /\ \A t \in Nat : Expected(t) => /\ \A i \in DOMAIN toNode : toNode[i].token # t
                                   /\ \A p \in pending : p.owner.token # t

OpensPend ==
  \A i \in DOMAIN fromNode : fromNode[i].msg = "answer" /\ fromNode[i].token # None =>
    \E p \in pending : p.id = fromNode[i].id /\ p.owner.method \in Kinds

Singly == NamedOnce /\ Unreleased /\ OpensPend

\* The steps of the broker and its sessions that leave the connection up.
Inner == node' = node /\ \E k \in {0, 1} : Reads(k)

LEMMA StepKinds == ASSUME BaseInv, [Next]_vars PROVE NodeStep \/ (Dropped /\ heard' = heard) \/ Inner
<1> USE DEF BaseInv
<1>1. 0 \in {0, 1} /\ 1 \in {0, 1}
  OBVIOUS
<1>2. ASSUME node' = node, fromNode' = fromNode PROVE Inner
  BY <1>1, <1>2, ReadsNone DEF Inner
<1>3. CASE UNCHANGED vars
  BY <1>2, <1>3 DEF vars
<1>4. CASE SessionStep
  BY <1>2, <1>4 DEF SessionStep, Connect, Leave, LeaveHalting, Subscribe, Call, Release
<1>5. CASE OwnerStep
  BY <1>2, <1>5, DisconnectAllShapes DEF OwnerStep, DisconnectAll, Halt
<1>6. CASE HaltEnds
  BY <1>6, HaltEndsShapes DEF HaltEnds
<1>7. CASE HandleAnswer \/ HandleEvent
  <2>1. fromNode # <<>> /\ fromNode' = Tail(fromNode) /\ node' = node
    BY <1>7 DEF HandleAnswer, HandleEvent, FromNode
  <2> QED BY <1>1, <2>1, ReadsOne DEF Inner
<1>8. CASE Flush \/ Route \/ Tell \/ \E s \in Sessions : HaltSession(s)
  BY <1>2, <1>8 DEF Flush, Route, Tell, HaltSession
<1> QED BY <1>3, <1>4, <1>5, <1>6, <1>7, <1>8 DEF Next, BrokerStep

\* What is held stays as it is, or an answer names one more.
MapsOne == HandleAnswer /\ \E p \in pending : p.id = Reply.id /\ Mapped(p)

LEMMA HeldOrMapped == ASSUME BaseInv, [Next]_vars PROVE MapsOne \/ owned' \subseteq owned
<1> USE DEF BaseInv
<1>1. CASE SessionStep
  BY <1>1 DEF SessionStep, Connect, Leave, LeaveHalting, Subscribe, Call, Release
<1>2. CASE HandleAnswer
  BY <1>2, HandleAnswerCases DEF MapsOne, Unknown, Relayed, Freed, Closed
<1>3. CASE Route
  BY <1>3, RouteShapes
<1>4. CASE OwnerStep \/ NodeStep \/ UNCHANGED vars
  BY <1>4 DEF OwnerStep, DisconnectAll, DropUpstream, Halt, NodeStep, NodeOpens, NodeReads, NodeSends, vars
<1>5. CASE HandleEvent \/ Flush \/ Tell \/ HaltEnds \/ \E s \in Sessions : HaltSession(s)
  BY <1>5 DEF HandleEvent, Flush, Tell, HaltEnds, HaltSession
<1> QED BY <1>1, <1>2, <1>3, <1>4, <1>5 DEF Next, BrokerStep

LEMMA MappedParts ==
  ASSUME BaseInv, MapsOne
  PROVE  \E p \in pending :
           /\ Mapped(p) /\ HandleAnswer /\ Reply.msg = "answer" /\ Reply.token \in Nat
           /\ owned' = owned \cup {NewHeld(p)} /\ NewHeld(p).token = Reply.token
           /\ NewHeld(p).local = Len(heard) + 1 /\ Len(heard) \in Nat
           /\ DOMAIN heard' = 1 .. Len(heard) + 1 /\ DOMAIN heard = 1 .. Len(heard)
           /\ heard'[Len(heard) + 1].token = Reply.token /\ heard'[Len(heard) + 1].events = <<>>
           /\ \A l \in DOMAIN heard : heard'[l] = heard[l]
           /\ work = <<>> /\ work' = <<[do |-> "flush", token |-> Reply.token]>> /\ early' = early
           /\ 1 \in DOMAIN fromNode /\ fromNode # <<>> /\ fromNode' = Tail(fromNode)
           /\ pending' = pending \ {p} /\ toNode' = toNode
<1> USE DEF BaseInv
<1>1. PICK p \in pending : Mapped(p) /\ HandleAnswer
  BY DEF MapsOne
<1>2. /\ Reply.token \in Nat /\ owned' = owned \cup {NewHeld(p)} /\ Len(heard) \in Nat
      /\ work' = <<[do |-> "flush", token |-> Reply.token]>>
  BY <1>1, MappedShapes
<1>3. /\ DOMAIN heard' = 1 .. Len(heard) + 1 /\ DOMAIN heard = 1 .. Len(heard)
      /\ heard'[Len(heard) + 1] = NewHearing(p) /\ \A l \in DOMAIN heard : heard'[l] = heard[l]
  BY <1>1, MappedNames
<1>4. /\ work = <<>> /\ fromNode # <<>> /\ fromNode' = Tail(fromNode) /\ Reply.msg = "answer"
  BY <1>1, HandleAnswerCases
<1>5. 1 \in DOMAIN fromNode
  BY <1>4, HeadTail DEF Shapes
<1>6. early' = early /\ pending' = pending \ {p} /\ toNode' = toNode
  BY <1>1 DEF Mapped
<1>7. NewHeld(p).token = Reply.token /\ NewHeld(p).local = Len(heard) + 1
  BY DEF NewHeld
<1>8. heard'[Len(heard) + 1].token = Reply.token /\ heard'[Len(heard) + 1].events = <<>>
  BY <1>3 DEF NewHearing
<1> QED BY <1>1, <1>2, <1>3, <1>4, <1>5, <1>6, <1>7, <1>8

\* Nothing is expected anew but what the node starts.
LEMMA ExpectedStays ==
  ASSUME BaseInv, [Next]_vars, Inner, NEW t, Expected(t)'
  PROVE  Expected(t)
<1>1. ASSUME Awaited(t)' PROVE Awaited(t)
  BY <1>1 DEF Inner, Reads, Awaited
<1>2. CASE owned' \subseteq owned
  BY <1>1, <1>2 DEF Expected
<1>3. CASE MapsOne
  <2>1. PICK p \in pending : /\ owned' = owned \cup {NewHeld(p)} /\ NewHeld(p).token = Reply.token
                             /\ Reply.msg = "answer" /\ 1 \in DOMAIN fromNode
    BY <1>3, MappedParts
  <2>2. Awaited(Reply.token)
    BY <2>1 DEF Awaited, Reply
  <2> QED BY <1>1, <2>1, <2>2 DEF Expected
<1> QED BY <1>2, <1>3, HeldOrMapped

LEMMA DroppedExpects == ASSUME Dropped, NEW t PROVE ~Expected(t)' /\ ~Awaited(t)'
BY DEF Dropped, Expected, Awaited

LEMMA NamesOrMapped == ASSUME BaseInv, [Next]_vars PROVE MapsOne \/ (NamesKept /\ DOMAIN heard' = DOMAIN heard)
<1> USE DEF BaseInv
<1>1. ASSUME heard' = heard PROVE NamesKept /\ DOMAIN heard' = DOMAIN heard
  BY <1>1 DEF NamesKept
<1>2. CASE SessionStep
  BY <1>1, <1>2 DEF SessionStep, Connect, Leave, LeaveHalting, Subscribe, Call, Release
<1>3. CASE HandleAnswer
  BY <1>1, <1>3, HandleAnswerCases DEF MapsOne, Unknown, Relayed, Freed, Closed
<1>4. CASE OwnerStep \/ NodeStep \/ UNCHANGED vars
  BY <1>1, <1>4 DEF OwnerStep, DisconnectAll, DropUpstream, Halt, NodeStep, NodeOpens, NodeReads, NodeSends, vars
<1>5. CASE HandleEvent \/ Flush \/ Route \/ HaltEnds
  BY <1>1, <1>5 DEF HandleEvent, Flush, Route, HaltEnds
<1> QED BY <1>2, <1>3, <1>4, <1>5, TellNames, HaltSessionNames DEF Next, BrokerStep

LEMMA InnerNamedOnce == ASSUME BaseInv, NamedOnce, [Next]_vars, Inner PROVE NamedOnce'
<1> USE DEF BaseInv
<1>1. PICK k \in {0, 1} : Reads(k)
  BY DEF Inner
<1>2. DOMAIN fromNode = 1 .. Len(fromNode) /\ Len(fromNode) \in Nat
  BY DEF Shapes
<1>3. ASSUME NEW i \in DOMAIN fromNode', NEW j \in DOMAIN fromNode', fromNode'[i].msg = "answer",
             fromNode'[j].msg = "answer", fromNode'[i].token # None, fromNode'[i].token = fromNode'[j].token
      PROVE  i = j
  <2>1. i + k \in DOMAIN fromNode /\ j + k \in DOMAIN fromNode
        /\ fromNode'[i] = fromNode[i + k] /\ fromNode'[j] = fromNode[j + k]
    BY <1>1, <1>3 DEF Reads
  <2>2. i + k = j + k
    BY <1>3, <2>1 DEF NamedOnce
  <2>3. i \in Nat /\ j \in Nat
    BY BaseInvNext DEF Shapes
  <2> QED BY <2>2, <2>3
<1>4. ASSUME NEW t, Awaited(t)' PROVE Awaited(t)
  BY <1>1, <1>4 DEF Reads, Awaited
<1>5. ASSUME NamesKept, DOMAIN heard' = DOMAIN heard, NEW t \in Nat, Awaited(t)', NEW l \in DOMAIN heard'
      PROVE  heard'[l].token # t
  BY <1>4, <1>5 DEF NamesKept, NamedOnce
<1>6. ASSUME MapsOne, NEW t \in Nat, Awaited(t)', NEW l \in DOMAIN heard' PROVE heard'[l].token # t
  <2>1. /\ Reply.msg = "answer" /\ Reply.token \in Nat /\ Len(heard) \in Nat
        /\ DOMAIN heard' = 1 .. Len(heard) + 1 /\ DOMAIN heard = 1 .. Len(heard)
        /\ heard'[Len(heard) + 1].token = Reply.token /\ \A m \in DOMAIN heard : heard'[m] = heard[m]
        /\ 1 \in DOMAIN fromNode /\ fromNode # <<>> /\ fromNode' = Tail(fromNode)
    BY <1>6, MappedParts
  <2>2. CASE l \in DOMAIN heard
    BY <1>4, <1>6, <2>1, <2>2 DEF NamedOnce
  <2>3. CASE l = Len(heard) + 1
    <3> SUFFICES ASSUME NEW i \in DOMAIN fromNode', fromNode'[i].msg = "answer", fromNode'[i].token = Reply.token
                 PROVE  FALSE
      BY <1>6, <2>1, <2>3 DEF Awaited
    <3>1. i + 1 \in DOMAIN fromNode /\ fromNode[i + 1] = fromNode'[i]
      BY <2>1, FromNodeTail
    <3>4. i \in Nat /\ i > 0
      BY BaseInvNext DEF Shapes
    <3>2. Reply.token # None
      BY <2>1, NamesApart
    <3>3. i + 1 = 1
      BY <2>1, <3>1, <3>2 DEF NamedOnce, Reply
    <3> QED BY <3>3, <3>4
  <2> QED BY <1>6, <2>1, <2>2, <2>3
<1> QED BY <1>3, <1>5, <1>6, NamesOrMapped DEF NamedOnce

LEMMA DroppedNamedOnce == ASSUME Dropped PROVE NamedOnce'
BY DroppedExpects DEF Dropped, NamedOnce

LEMMA DroppedSingly == ASSUME Dropped PROVE Singly'
BY DroppedNamedOnce DEF Dropped, Singly, Unreleased, OpensPend

\* What is asked of the node names nothing that is expected.
Quits(t) == t = None \/ (t \in DOMAIN node.sent /\ ~Expected(t)')

LEMMA TrackUnreleased ==
  ASSUME BaseInv, HoldsInv, Unreleased, [Next]_vars, Inner, NEW left \in SUBSET Pendings, IsFiniteSet(left),
         NEW owners \in Seq(Owners), Track(left, owners),
         \A q \in left : q.owner.token = None \/ \E p \in pending : p.owner.token = q.owner.token,
         \A i \in 1 .. Len(owners) : Quits(owners[i].token)
  PROVE  Unreleased'
<1> USE DEF BaseInv
<1>1. node' = node /\ \A t : Expected(t)' => Expected(t)
  BY ExpectedStays DEF Inner
<1>2. /\ pending' = left \cup Tracked(counter, owners)
      /\ Len(toNode') = Len(toNode) + Len(owners)
      /\ \A i \in 1 .. Len(toNode) : toNode'[i] = toNode[i]
      /\ \A i \in 1 .. Len(owners) :
           toNode'[Len(toNode) + i] = [id |-> counter + i, method |-> owners[i].method, token |-> owners[i].token]
  BY TrackAdds
<1>3. /\ DOMAIN toNode = 1 .. Len(toNode) /\ Len(toNode) \in Nat /\ DOMAIN toNode' = 1 .. Len(toNode')
      /\ DOMAIN owners = 1 .. Len(owners) /\ Len(owners) \in Nat
  BY BaseInvNext DEF Shapes
<1>4. ASSUME NEW i \in DOMAIN toNode'
      PROVE  toNode'[i].token \in DOMAIN node.sent \cup {None} /\ \A t \in Nat : Expected(t)' => toNode'[i].token # t
  <2>1. CASE i \in 1 .. Len(toNode)
    BY <1>1, <1>2, <1>3, <2>1 DEF Unreleased
  <2>2. CASE i \notin 1 .. Len(toNode)
    <3>1. PICK j \in 1 .. Len(owners) : i = Len(toNode) + j
      <4>1. i - Len(toNode) \in 1 .. Len(owners) /\ i = Len(toNode) + (i - Len(toNode))
        BY <1>2, <1>3, <2>2
      <4> QED BY <4>1
    <3>2. toNode'[Len(toNode) + j] = [id |-> counter + j, method |-> owners[j].method, token |-> owners[j].token]
      BY <1>2
    <3>3. toNode'[i].token = owners[j].token
      BY <3>1, <3>2
    <3>4. PICK t : t = owners[j].token /\ Quits(t)
      OBVIOUS
    <3> QED BY <3>3, <3>4, NamesApart DEF Quits
  <2> QED BY <2>1, <2>2
<1>5. ASSUME NEW p \in pending', NEW t \in Nat, Expected(t)' PROVE p.owner.token # t
  <2>1. CASE p \in left
    BY <1>1, <1>5, <2>1, NamesApart DEF Unreleased
  <2>2. CASE p \in Tracked(counter, owners)
    <3>1. PICK i \in 1 .. Len(owners) : p = [id |-> counter + i, owner |-> owners[i]]
      BY <1>3, <2>2 DEF Tracked
    <3>2. p.owner = owners[i]
      BY <3>1
    <3>3. PICK u : u = owners[i].token /\ Quits(u)
      OBVIOUS
    <3> QED BY <1>5, <3>2, <3>3, NamesApart DEF Quits
  <2> QED BY <1>2, <1>5, <2>1, <2>2
<1> QED BY <1>1, <1>4, <1>5 DEF Unreleased

LEMMA QuietUnreleased ==
  ASSUME BaseInv, Unreleased, [Next]_vars, Inner, pending' \subseteq pending, toNode' = toNode
  PROVE  Unreleased'
<1>1. node' = node /\ \A t : Expected(t)' => Expected(t)
  BY ExpectedStays DEF Inner
<1> QED BY <1>1 DEF Unreleased

LEMMA ForwardUnreleased ==
  ASSUME BaseInv, HoldsInv, Unreleased, [Next]_vars, Inner, NEW s \in Sessions, NEW withId \in BOOLEAN,
         NEW method \in Methods, NEW token \in Names, Quits(token), Forward(s, withId, method, token)
  PROVE  Unreleased'
<1> USE DEF BaseInv
<1>1. ASSUME NEW owner, ForwardsAs(owner), owner.token = token PROVE Unreleased'
  <2>1. <<owner>> \in Seq(Owners) /\ Track(pending, <<owner>>) /\ Len(<<owner>>) = 1 /\ <<owner>>[1] = owner
    BY <1>1 DEF ForwardsAs
  <2>2. \A i \in 1 .. Len(<<owner>>) : <<owner>>[i] = owner
    BY <2>1
  <2>3. \A i \in 1 .. Len(<<owner>>) : Quits(<<owner>>[i].token)
    BY <1>1, <2>2
  <2>4. pending \in SUBSET Pendings /\ IsFiniteSet(pending)
    BY DEF Shapes
  <2> QED BY <2>1, <2>3, <2>4, TrackUnreleased
<1>2. ASSUME toNode' = Append(toNode, [id |-> 0, method |-> method, token |-> token]), pending' = pending
      PROVE  Unreleased'
  <2>1. PICK q : q = [id |-> 0, method |-> method, token |-> token]
    OBVIOUS
  <2>2. q \in Queries /\ q.token = token /\ toNode \in Seq(Queries) /\ toNode' = Append(toNode, q)
    BY <1>2, <2>1 DEF Queries, Shapes
  <2>3. /\ DOMAIN toNode = 1 .. Len(toNode) /\ Len(toNode) \in Nat /\ DOMAIN toNode' = 1 .. Len(toNode) + 1
        /\ toNode'[Len(toNode) + 1] = q /\ \A i \in 1 .. Len(toNode) : toNode'[i] = toNode[i]
    BY <2>2, Appended
  <2>4. node' = node /\ \A t : Expected(t)' => Expected(t)
    BY ExpectedStays DEF Inner
  <2>5. token \in DOMAIN node.sent \cup {None} /\ \A t \in Nat : Expected(t)' => token # t
    BY NamesApart DEF Quits
  <2>6. ASSUME NEW i \in DOMAIN toNode'
        PROVE  toNode'[i].token \in DOMAIN node.sent \cup {None} /\ \A t \in Nat : Expected(t)' => toNode'[i].token # t
    BY <2>2, <2>3, <2>4, <2>5 DEF Unreleased
  <2> QED BY <1>2, <2>4, <2>6 DEF Unreleased
<1>3. /\ \A kind, client : Owner(kind, None, client, method, token).token = token
      /\ \A kind, client : Owner(kind, s, client, method, token).token = token
  BY DEF Owner
<1> QED BY <1>1, <1>2, <1>3, ForwardTracks

\* A token is awaited in one place, and what is held was named already.
LEMMA HeldIsNamed == ASSUME BaseInv, NamedOnce, NEW o \in owned PROVE o.token \in Nat /\ ~Awaited(o.token)
<1> USE DEF BaseInv
<1>1. o.local \in DOMAIN heard /\ heard[o.local].token = o.token
  BY DEF Named, Belongs
<1>2. o.token \in Nat
  BY DEF Shapes, Helds
<1> QED BY <1>1, <1>2 DEF NamedOnce

LEMMA SessionUnreleased ==
  ASSUME BaseInv, HoldsInv, NamedOnce, Unreleased, [Next]_vars, Inner, SessionStep
  PROVE  Unreleased'
<1> USE DEF BaseInv
<1>1. PICK s \in Sessions :
    \/ Connect(s) \/ Leave(s) \/ LeaveHalting(s)
    \/ \E kind \in Kinds, withId \in BOOLEAN : Subscribe(s, kind, withId)
    \/ \E l \in DOMAIN heard : Call(s, l)
    \/ \E l \in DOMAIN heard, withId \in BOOLEAN : Release(s, l, withId)
  BY DEF SessionStep
<1>2. None \in Names /\ Quits(None) /\ "call" \in Methods /\ \A kind \in Kinds : kind \in Methods
  BY ReleasesAreMethods DEF Names, Quits
<1>3. CASE Connect(s) \/ LeaveHalting(s)
  BY <1>3, QuietUnreleased DEF Connect, LeaveHalting
<1>4. ASSUME NEW withId \in BOOLEAN, AnswerHere(s, withId) PROVE Unreleased'
  BY <1>4, QuietUnreleased DEF AnswerHere
<1>5. ASSUME NEW kind \in Kinds, NEW withId \in BOOLEAN, Subscribe(s, kind, withId) PROVE Unreleased'
  BY <1>2, <1>5, ForwardUnreleased DEF Subscribe
<1>6. ASSUME NEW l \in DOMAIN heard, Call(s, l) PROVE Unreleased'
  BY <1>2, <1>4, <1>6, ForwardUnreleased DEF Call
<1>7. ASSUME NEW o \in owned, fromNode' = fromNode, \A x \in owned' : x.token # o.token PROVE Quits(o.token)
  <2>1. o.token \in DOMAIN node.sent /\ ~Awaited(o.token)
    BY HeldIsKnown, HeldIsNamed
  <2>2. PICK t : t = o.token
    OBVIOUS
  <2>3. ~Expected(t)'
    BY <1>7, <2>1, <2>2 DEF Expected, Awaited
  <2> QED BY <2>1, <2>2, <2>3 DEF Quits
<1>8. ASSUME NEW l \in DOMAIN heard, NEW withId \in BOOLEAN, Release(s, l, withId) PROVE Unreleased'
  <2>1. CASE AnswerHere(s, withId)
    BY <1>4, <2>1
  <2>2. ASSUME NEW o \in owned, owned' = owned \ {o}, Holders(o.token) = {o},
               Forward(s, withId, ReleaseOf(o.kind), o.token)
        PROVE  Unreleased'
    <3>1. \A x \in owned' : x.token # o.token
      BY <2>2 DEF Holders
    <3>2. Quits(o.token)
      BY <1>7, <1>8, <3>1 DEF Release
    <3>3. ReleaseOf(o.kind) \in Methods /\ o.token \in Names
      BY ReleasesAreMethods DEF Shapes, Helds, Names
    <3> QED BY <2>2, <3>2, <3>3, ForwardUnreleased
  <2> QED BY <1>8, <2>1, <2>2 DEF Release
<1>9. ASSUME Leave(s) PROVE Unreleased'
  <2>1. PICK sent \in Seq(Owners) :
          /\ Track(Orphaned(s), sent)
          /\ \A i \in 1 .. Len(sent) : \E o \in LastOf(s) : sent[i] = SentRelease(o.kind, o.token)
    BY <1>9, LeaveTracks
  <2>2. Orphaned(s) \in SUBSET Pendings /\ IsFiniteSet(Orphaned(s))
    BY OrphanedShapes
  <2>3. owned' = owned \ Mine(s) /\ fromNode' = fromNode
    BY <1>9 DEF Leave, Mine
  <2>4. ASSUME NEW i \in 1 .. Len(sent) PROVE Quits(sent[i].token)
    <3>1. PICK o \in LastOf(s) : sent[i] = SentRelease(o.kind, o.token)
      BY <2>1
    <3>2. o \in owned /\ \A x \in owned' : x.token # o.token
      BY <2>3 DEF LastOf, Mine, Holders
    <3>3. sent[i].token = o.token
      BY <3>1 DEF SentRelease, Owner
    <3> QED BY <1>7, <2>3, <3>2, <3>3
  <2>5. ASSUME NEW q \in Orphaned(s) PROVE q.owner.token = None \/ \E p \in pending : p.owner.token = q.owner.token
    <3>1. PICK p \in pending :
            q = IF p.owner.session = s
                THEN [p EXCEPT !.owner = Owner("orphan", None, 0, p.owner.method, p.owner.token)] ELSE p
      BY OrphanedParts
    <3>2. Owner("orphan", None, 0, p.owner.method, p.owner.token).token = p.owner.token /\ p \in Pendings
      BY DEF Owner, Shapes
    <3>3. q.owner.token = p.owner.token
      BY <3>1, <3>2 DEF Pendings
    <3> QED BY <3>3
  <2> QED BY <2>1, <2>2, <2>4, <2>5, TrackUnreleased
<1> QED BY <1>1, <1>3, <1>5, <1>6, <1>8, <1>9

\* The answer read is the only one that names its token.
LEMMA ReadOnce ==
  ASSUME BaseInv, NamedOnce, [Next]_vars, HandleAnswer, Reply.token \in Nat, NEW t, t = Reply.token
  PROVE  Awaited(t) /\ ~Awaited(t)'
<1> USE DEF BaseInv
<1>1. fromNode # <<>> /\ fromNode' = Tail(fromNode) /\ Reply.msg = "answer"
  BY HandleAnswerCases
<1>2. 1 \in DOMAIN fromNode
  BY <1>1, HeadTail DEF Shapes
<1>3. ASSUME NEW i \in DOMAIN fromNode', fromNode'[i].msg = "answer", fromNode'[i].token = t PROVE FALSE
  <2>1. i + 1 \in DOMAIN fromNode /\ fromNode[i + 1] = fromNode'[i]
    BY <1>1, FromNodeTail
  <2>2. i \in Nat /\ i > 0
    BY BaseInvNext DEF Shapes
  <2>3. i + 1 = 1
    BY <1>1, <1>2, <1>3, <2>1, NamesApart DEF NamedOnce, Reply
  <2> QED BY <2>2, <2>3
<1> QED BY <1>1, <1>2, <1>3 DEF Awaited, Reply

LEMMA AnswerUnreleased ==
  ASSUME BaseInv, HoldsInv, NamedOnce, Unreleased, [Next]_vars, Inner, HandleAnswer
  PROVE  Unreleased'
<1> USE DEF BaseInv
<1>1. ASSUME NEW p \in pending, Freed(p) PROVE Unreleased'
  <2>1. PICK owner : owner = SentRelease(p.owner.method, Reply.token)
    OBVIOUS
  <2>2. /\ <<owner>> \in Seq(Owners) /\ Track(pending \ {p}, <<owner>>) /\ Len(<<owner>>) = 1
        /\ <<owner>>[1] = owner /\ owner.token = Reply.token /\ Reply.token \in Nat
    BY <1>1, <2>1, FreedShapes DEF Freed, SentRelease, Owner
  <2>3. pending \ {p} \in SUBSET Pendings /\ IsFiniteSet(pending \ {p})
    BY FS_Subset DEF Shapes
  <2>4. PICK t : t = Reply.token
    OBVIOUS
  <2>5. ~Awaited(t)' /\ t \in DOMAIN node.sent
    <3>1. 1 \in DOMAIN fromNode /\ Reply.msg = "answer"
      BY HandleAnswerCases, HeadTail DEF Shapes
    <3> QED BY <2>2, <2>4, <3>1, ReadOnce, NamesApart DEF Known, KnownReply, Reply
  <2>6. \A x \in owned' : x.token # t
    BY <1>1, <2>4 DEF Freed, Holders
  <2>7. Quits(t)
    BY <2>5, <2>6 DEF Quits, Expected
  <2>8. \A i \in 1 .. Len(<<owner>>) : <<owner>>[i] = owner
    BY <2>2
  <2>9. \A i \in 1 .. Len(<<owner>>) : Quits(<<owner>>[i].token)
    BY <2>2, <2>4, <2>7, <2>8
  <2> QED BY <2>2, <2>3, <2>9, TrackUnreleased
<1>2. CASE pending' \subseteq pending /\ toNode' = toNode
  BY <1>2, QuietUnreleased
<1> QED BY <1>1, <1>2, HandleAnswerCases DEF Unknown, Mapped, Relayed, Closed

LEMMA InnerUnreleased ==
  ASSUME BaseInv, HoldsInv, NamedOnce, Unreleased, [Next]_vars, Inner, ~NodeStep, ~Dropped
  PROVE  Unreleased'
<1> USE DEF BaseInv
<1>1. CASE pending' = pending /\ toNode' = toNode
  BY <1>1, QuietUnreleased
<1>2. CASE UNCHANGED vars
  BY <1>1, <1>2 DEF vars
<1>3. CASE OwnerStep \/ HaltEnds
  BY <1>1, <1>3, DisconnectAllShapes, HaltEndsShapes DEF OwnerStep, Halt
<1>4. CASE HandleEvent \/ Flush \/ Route \/ Tell \/ \E s \in Sessions : HaltSession(s)
  BY <1>1, <1>4 DEF HandleEvent, Flush, Route, Tell, HaltSession
<1> QED BY <1>2, <1>3, <1>4, SessionUnreleased, AnswerUnreleased DEF Next, BrokerStep

\* An answer on its way keeps its request.
LEMMA PendingLasts ==
  ASSUME BaseInv, [Next]_vars, Inner, ~Dropped, NEW p \in pending
  PROVE  \/ \E q \in pending' : q.id = p.id /\ q.owner.method = p.owner.method
         \/ HandleAnswer /\ p.id = Reply.id
<1> USE DEF BaseInv
<1>1. Shapes'
  BY BaseInvNext
<1>2. CASE pending' = pending
  BY <1>2
<1>3. CASE SessionStep
  <2>1. PICK s \in Sessions :
      \/ Connect(s) \/ Leave(s) \/ LeaveHalting(s)
      \/ \E kind \in Kinds, withId \in BOOLEAN : Subscribe(s, kind, withId)
      \/ \E l \in DOMAIN heard : Call(s, l)
      \/ \E l \in DOMAIN heard, withId \in BOOLEAN : Release(s, l, withId)
    BY <1>3 DEF SessionStep
  <2>2. None \in Names /\ "call" \in Methods /\ \A kind \in Kinds : kind \in Methods
    BY ReleasesAreMethods DEF Names
  <2>3. ASSUME NEW withId \in BOOLEAN, NEW method \in Methods, NEW token \in Names, Forward(s, withId, method, token)
        PROVE  \E q \in pending' : q.id = p.id /\ q.owner.method = p.owner.method
    BY <1>1, <2>3, ForwardSends DEF Sends
  <2>4. ASSUME NEW kind \in Kinds, NEW withId \in BOOLEAN, Subscribe(s, kind, withId)
        PROVE  \E q \in pending' : q.id = p.id /\ q.owner.method = p.owner.method
    BY <2>2, <2>3, <2>4 DEF Subscribe
  <2>5. ASSUME NEW l \in DOMAIN heard, Call(s, l)
        PROVE  \E q \in pending' : q.id = p.id /\ q.owner.method = p.owner.method
    BY <2>2, <2>3, <2>5 DEF Call, AnswerHere
  <2>6. ASSUME NEW l \in DOMAIN heard, NEW withId \in BOOLEAN, Release(s, l, withId)
        PROVE  \E q \in pending' : q.id = p.id /\ q.owner.method = p.owner.method
    <3>1. \A o \in owned : ReleaseOf(o.kind) \in Methods /\ o.token \in Names
      BY ReleasesAreMethods DEF Shapes, Helds, Names
    <3> QED BY <2>3, <2>6, <3>1 DEF Release, AnswerHere
  <2>7. ASSUME Leave(s) PROVE \E q \in pending' : q.id = p.id /\ q.owner.method = p.owner.method
    <3>1. PICK sent \in Seq(Owners) : Track(Orphaned(s), sent)
      BY <2>7, LeaveTracks
    <3>2. Orphaned(s) \subseteq pending'
      BY <3>1, OrphanedShapes, TrackAdds
    <3> QED BY <3>2, OrphanedParts
  <2> QED BY <1>2, <2>1, <2>4, <2>5, <2>6, <2>7 DEF Connect, LeaveHalting
<1>4. CASE HandleAnswer
  BY <1>4, AnswerMoves
<1>5. CASE UNCHANGED vars
  BY <1>2, <1>5 DEF vars
<1>6. CASE OwnerStep \/ HaltEnds
  BY <1>2, <1>6, DisconnectAllShapes, HaltEndsShapes DEF OwnerStep, Halt
<1>7. CASE HandleEvent \/ Flush \/ Route \/ Tell \/ \E s \in Sessions : HaltSession(s)
  BY <1>2, <1>7 DEF HandleEvent, Flush, Route, Tell, HaltSession
<1>8. CASE NodeStep
  BY <1>2, <1>8 DEF NodeStep, NodeOpens, NodeReads, NodeSends
<1> QED BY <1>3, <1>4, <1>5, <1>6, <1>7, <1>8 DEF Next, BrokerStep

LEMMA InnerOpensPend ==
  ASSUME BaseInv, Ids, OpensPend, [Next]_vars, Inner, ~Dropped
  PROVE  OpensPend'
<1> USE DEF BaseInv
<1>1. PICK k \in {0, 1} : Reads(k)
  BY DEF Inner
<1> SUFFICES ASSUME NEW i \in DOMAIN fromNode', fromNode'[i].msg = "answer", fromNode'[i].token # None
             PROVE  \E q \in pending' : q.id = fromNode'[i].id /\ q.owner.method \in Kinds
  BY DEF OpensPend
<1>2. i + k \in DOMAIN fromNode /\ fromNode[i + k] = fromNode'[i]
  BY <1>1 DEF Reads
<1>3. PICK p \in pending : p.id = fromNode[i + k].id /\ p.owner.method \in Kinds
  BY <1>2 DEF OpensPend
<1>4. ASSUME HandleAnswer PROVE p.id # Reply.id
  <2>1. fromNode # <<>> /\ fromNode' = Tail(fromNode) /\ Reply.msg = "answer" /\ 1 \in DOMAIN fromNode
    BY <1>4, HandleAnswerCases, HeadTail DEF Shapes
  <2>2. i + 1 \in DOMAIN fromNode /\ fromNode[i + 1] = fromNode'[i]
    BY <2>1, FromNodeTail
  <2>3. i \in Nat /\ i > 0
    BY BaseInvNext DEF Shapes
  <2>4. fromNode[i + 1].id = fromNode[i + k].id
    BY <1>2, <2>2
  <2>5. fromNode[i + 1].id # fromNode[1].id
    <3>1. fromNode[i + 1].msg = "answer" /\ fromNode[1].msg = "answer"
      BY <2>1, <2>2 DEF Reply
    <3>2. i + 1 # 1
      BY <2>3
    <3> QED BY <2>1, <2>2, <3>1, <3>2 DEF Ids, Answering
  <2> QED BY <1>3, <2>4, <2>5 DEF Reply
<1> QED BY <1>2, <1>3, <1>4, PendingLasts

\* What a step of the node does: it takes a request, starts a subscription, with or without a first event, or sends
\* an event of one it runs.
KeepsReplies == \A i \in DOMAIN fromNode : i \in DOMAIN fromNode' /\ fromNode'[i] = fromNode[i]
SendsAlone(e) ==
  /\ NodeHas(e)' /\ \A i \in DOMAIN fromNode' : i \in DOMAIN fromNode \/ fromNode'[i].msg = "answer" \/ fromNode'[i].event = e
  /\ node.events < MaxEvents /\ node'.events = node.events + 1
SendsNothing ==
  /\ \A i \in DOMAIN fromNode' : i \in DOMAIN fromNode \/ fromNode'[i].msg = "answer"
  /\ node'.events = node.events
AnswersAlone(t) ==
  \E i \in DOMAIN fromNode' :
    /\ i \notin DOMAIN fromNode /\ fromNode'[i].msg = "answer" /\ fromNode'[i].id = Query.id /\ fromNode'[i].token = t
    /\ \A j \in DOMAIN fromNode' : j \in DOMAIN fromNode \/ j = i \/ fromNode'[j].msg = "event"
SentOnly(t, n) ==
  /\ DOMAIN node'.sent = DOMAIN node.sent \cup {t} /\ node'.sent[t] = n
  /\ \A u \in DOMAIN node.sent : u # t => node'.sent[u] = node.sent[u]
NowRuns(t) == \E x \in node'.subs : x.token = t

Idles ==
  /\ node'.sent = node.sent /\ SendsNothing
  /\ \A i \in DOMAIN fromNode' : i \in DOMAIN fromNode \/ fromNode'[i].token = None
  /\ \A x \in node.subs : x \in node'.subs \/ \E i \in DOMAIN toNode : toNode[i].token = x.token
Starts ==
  /\ toNode # <<>> /\ Query.method \in Kinds /\ NewToken \notin DOMAIN node.sent /\ node.subs \subseteq node'.subs
  /\ AnswersAlone(NewToken) \/ AnswersAlone(None)
  /\ \/ SentOnly(NewToken, 0) /\ SendsNothing /\ NowRuns(NewToken)
     \/ \E e \in Events : /\ SentOnly(NewToken, 1) /\ SendsAlone(e) /\ e.token = NewToken /\ e.number = 1
                          /\ e.ends \/ NowRuns(NewToken)
SendsMore ==
  \E e \in Events :
    /\ e.token \in DOMAIN node.sent /\ e.number = node.sent[e.token] + 1 /\ SentOnly(e.token, e.number) /\ SendsAlone(e)
    /\ \A i \in DOMAIN fromNode' : i \in DOMAIN fromNode \/ fromNode'[i].msg = "event"
    /\ \A x \in node.subs : x \in node'.subs \/ (x.token = e.token /\ e.ends)

LEMMA OneMore ==
  ASSUME Shapes, NEW m \in Replies, fromNode' = Append(fromNode, m)
  PROVE  /\ KeepsReplies /\ Len(fromNode) + 1 \in DOMAIN fromNode' /\ Len(fromNode) + 1 \notin DOMAIN fromNode
         /\ fromNode'[Len(fromNode) + 1] = m
         /\ \A i \in DOMAIN fromNode' : i \in DOMAIN fromNode \/ i = Len(fromNode) + 1
<1>1. fromNode \in Seq(Replies) /\ DOMAIN fromNode = 1 .. Len(fromNode) /\ Len(fromNode) \in Nat
  BY DEF Shapes
<1>2. /\ DOMAIN fromNode' = 1 .. Len(fromNode) + 1 /\ fromNode'[Len(fromNode) + 1] = m
      /\ \A i \in 1 .. Len(fromNode) : fromNode'[i] = fromNode[i]
  BY <1>1, Appended
<1> QED BY <1>1, <1>2 DEF KeepsReplies

LEMMA AnswerAppended ==
  ASSUME Shapes, Query.id \in Nat, NEW t \in Names, fromNode' = Append(fromNode, AnswerMsg(Query.id, t)),
         node'.events = node.events
  PROVE  KeepsReplies /\ SendsNothing /\ AnswersAlone(t)
<1>1. PICK m : m = AnswerMsg(Query.id, t)
  OBVIOUS
<1>2. m \in Replies /\ m.msg = "answer" /\ m.id = Query.id /\ m.token = t
  BY <1>1, MessageShapes DEF AnswerMsg
<1> QED BY <1>1, <1>2, OneMore DEF SendsNothing, AnswersAlone

LEMMA SentNew ==
  ASSUME Shapes, Shapes', NEW k \in Nat, node'.sent = Append(node.sent, k)
  PROVE  SentOnly(NewToken, k) /\ NewToken \notin DOMAIN node.sent
<1>1. DOMAIN node.sent = 1 .. Len(node.sent) /\ Len(node.sent) \in Nat
  BY SentParts
<1>2. /\ DOMAIN node'.sent = 1 .. Len(node.sent) + 1 /\ NewToken = Len(node.sent) + 1
      /\ NewToken \notin DOMAIN node.sent
      /\ node'.sent[NewToken] = k /\ \A t \in DOMAIN node.sent : node'.sent[t] = node.sent[t]
  BY SentAppended
<1>3. DOMAIN node'.sent = DOMAIN node.sent \cup {NewToken}
  BY <1>1, <1>2
<1> QED BY <1>2, <1>3 DEF SentOnly

LEMMA NodeOpensMoves == ASSUME BaseInv, ~Shares, NodeOpens PROVE KeepsReplies /\ (Idles \/ Starts)
<1> USE DEF BaseInv
<1>1. /\ Query.id \in Nat /\ Query.method \in Kinds /\ NewToken \in Names /\ None \in Names /\ NewToken \in Nat
      /\ toNode # <<>> /\ Shapes' /\ node \in Nodes
  BY NodeOpensCases, NodeOpensShapes, QueryShapes, NodeShapes DEF Names
<1>3. Sub(NewToken, Query.method).token = NewToken
  BY DEF Sub
<1>4. CASE Refuses
  <2>1. node' = node
    BY <1>4 DEF Refuses
  <2>2. KeepsReplies /\ SendsNothing /\ AnswersAlone(None)
    BY <1>1, <1>4, <2>1, AnswerAppended DEF Refuses
  <2>3. Idles
    BY <2>1, <2>2 DEF Idles, AnswersAlone, SendsNothing
  <2> QED BY <2>2, <2>3
<1>5. CASE Runs
  <2>1. node'.subs = node.subs \cup {Sub(NewToken, Query.method)} /\ node'.sent = Append(node.sent, 0)
    BY <1>5, NodeOpensShapes
  <2>2. node'.events = node.events
    BY <1>1, <1>5 DEF Runs, Nodes
  <2>3. SentOnly(NewToken, 0) /\ NewToken \notin DOMAIN node.sent
    BY <1>1, <2>1, SentNew
  <2>4. KeepsReplies /\ SendsNothing /\ AnswersAlone(NewToken)
    BY <1>1, <1>5, <2>2, AnswerAppended DEF Runs
  <2> QED BY <1>1, <1>3, <2>1, <2>3, <2>4 DEF Starts, NowRuns
<1>6. CASE Garbles
  <2>1. node'.subs = node.subs \cup {Sub(NewToken, Query.method)} /\ node'.sent = Append(node.sent, 0)
    BY <1>6, NodeOpensShapes
  <2>2. node'.events = node.events
    BY <1>1, <1>6 DEF Garbles, Nodes
  <2>3. SentOnly(NewToken, 0) /\ NewToken \notin DOMAIN node.sent
    BY <1>1, <2>1, SentNew
  <2>4. KeepsReplies /\ SendsNothing /\ AnswersAlone(None)
    BY <1>1, <1>6, <2>2, AnswerAppended DEF Garbles
  <2> QED BY <1>1, <1>3, <2>1, <2>3, <2>4 DEF Starts, NowRuns
<1>7. ASSUME NEW ends \in BOOLEAN, RunsEarly(ends) PROVE KeepsReplies /\ Starts
  <2>1. node'.subs = (IF ends THEN node.subs ELSE node.subs \cup {Sub(NewToken, Query.method)})
        /\ node'.sent = Append(node.sent, 1)
    BY <1>7, NodeOpensShapes
  <2>2. node'.events = node.events + 1 /\ node.events < MaxEvents
    BY <1>1, <1>7 DEF RunsEarly, Nodes
  <2>3. SentOnly(NewToken, 1) /\ NewToken \notin DOMAIN node.sent
    BY <1>1, <2>1, SentNew
  <2>4. PICK e : e = EventMsg(NewToken, 1, ends)
    OBVIOUS
  <2>5. PICK m : m = AnswerMsg(Query.id, NewToken)
    OBVIOUS
  <2>6. e \in Replies /\ m \in Replies
    BY <1>1, <2>4, <2>5, MessageShapes
  <2>7. <<e, m>> \in Seq(Replies) /\ Len(<<e, m>>) = 2 /\ <<e, m>>[1] = e /\ <<e, m>>[2] = m
    BY <2>6
  <2>8. fromNode' = fromNode \o <<e, m>>
    BY <1>7, <2>4, <2>5 DEF RunsEarly
  <2>9. fromNode \in Seq(Replies) /\ DOMAIN fromNode = 1 .. Len(fromNode) /\ Len(fromNode) \in Nat
    BY DEF Shapes
  <2>10. /\ DOMAIN fromNode' = 1 .. Len(fromNode) + 2 /\ \A i \in 1 .. Len(fromNode) : fromNode'[i] = fromNode[i]
         /\ fromNode'[Len(fromNode) + 1] = e /\ fromNode'[Len(fromNode) + 2] = m
    BY <2>7, <2>8, <2>9, ConcatProperties
  <2>11. /\ e.msg = "event" /\ e.event \in Events /\ e.event.token = NewToken /\ e.event.number = 1 /\ e.event.ends = ends
         /\ m.msg = "answer" /\ m.id = Query.id /\ m.token = NewToken
    BY <1>1, <2>4, <2>5 DEF EventMsg, AnswerMsg, Events
  <2>12. /\ \A i \in DOMAIN fromNode' : i \in DOMAIN fromNode \/ i = Len(fromNode) + 1 \/ i = Len(fromNode) + 2
         /\ Len(fromNode) + 1 \in DOMAIN fromNode' /\ Len(fromNode) + 2 \in DOMAIN fromNode'
         /\ Len(fromNode) + 2 \notin DOMAIN fromNode
    BY <2>9, <2>10
  <2>13. KeepsReplies /\ AnswersAlone(NewToken)
    BY <2>9, <2>10, <2>11, <2>12 DEF KeepsReplies, AnswersAlone
  <2>14. PICK f : f = e.event
    OBVIOUS
  <2>15. SendsAlone(f)
    <3>1. NodeHas(f)'
      BY <2>10, <2>11, <2>12, <2>14 DEF NodeHas
    <3> QED BY <2>2, <2>10, <2>11, <2>12, <2>14, <3>1 DEF SendsAlone
  <2>16. f \in Events /\ f.token = NewToken /\ f.number = 1 /\ (f.ends \/ NowRuns(NewToken))
    BY <1>3, <2>1, <2>11, <2>14 DEF NowRuns
  <2>17. node.subs \subseteq node'.subs
    BY <2>1
  <2> QED BY <1>1, <2>3, <2>13, <2>15, <2>16, <2>17 DEF Starts
<1>8. \A x \in node.subs : ~SharesOne(x)
  BY DEF SharesOne
<1> QED BY <1>4, <1>5, <1>6, <1>7, <1>8, NodeOpensCases

LEMMA NodeMoves ==
  ASSUME BaseInv, ~Shares, NodeStep
  PROVE  /\ KeepsReplies /\ UNCHANGED <<session, pending, counter, owned, early, work, asked, heard>>
         /\ \A i \in DOMAIN toNode' : \E j \in DOMAIN toNode : toNode[j] = toNode'[i]
         /\ Idles \/ Starts \/ SendsMore
<1> USE DEF BaseInv
<1>1. ASSUME toNode # <<>>, toNode' = Tail(toNode)
      PROVE  \A i \in DOMAIN toNode' : \E j \in DOMAIN toNode : toNode[j] = toNode'[i]
  <2>1. /\ Tail(toNode) \in Seq(Queries) /\ Len(toNode) \in Nat /\ Len(Tail(toNode)) = Len(toNode) - 1
        /\ \A i \in 1 .. Len(toNode) - 1 : Tail(toNode)[i] = toNode[i + 1]
    BY <1>1, QueryShapes
  <2>2. DOMAIN toNode' = 1 .. Len(toNode) - 1 /\ DOMAIN toNode = 1 .. Len(toNode)
    BY <1>1, <2>1 DEF Shapes
  <2>3. \A i \in DOMAIN toNode' : i + 1 \in DOMAIN toNode /\ toNode[i + 1] = toNode'[i]
    BY <1>1, <2>1, <2>2
  <2> QED BY <2>3
<1>2. CASE NodeOpens
  BY <1>1, <1>2, NodeOpensMoves, NodeOpensCases
<1>3. CASE NodeReads
  <2>1. /\ UNCHANGED <<session, pending, counter, owned, early, work, asked, heard>> /\ toNode # <<>>
        /\ fromNode' = (IF Query.id = 0 THEN fromNode ELSE Append(fromNode, AnswerMsg(Query.id, None)))
        /\ node'.sent = node.sent /\ toNode' = Tail(toNode)
        /\ node'.subs = IF Query.method \in Releases THEN {x \in node.subs : x.token # Query.token} ELSE node.subs
    BY <1>3, NodeReadsShapes
  <2>2. node'.events = node.events
    <3>1. node \in Nodes /\ Head(toNode) = Query
      BY <2>1, NodeShapes, QueryShapes
    <3>2. node' = node \/ node' = [node EXCEPT !.subs = {x \in @ : x.token # Query.token}]
      BY <1>3, <3>1 DEF NodeReads
    <3> QED BY <3>1, <3>2 DEF Nodes
  <2>3. None \in Names /\ Query.id \in Nat
    BY <2>1, QueryShapes DEF Names
  <2>4. KeepsReplies /\ SendsNothing /\ \A i \in DOMAIN fromNode' : i \in DOMAIN fromNode \/ fromNode'[i].token = None
    <3>1. CASE fromNode' = fromNode
      BY <2>2, <3>1 DEF KeepsReplies, SendsNothing
    <3>2. CASE fromNode' = Append(fromNode, AnswerMsg(Query.id, None))
      BY <2>2, <2>3, <3>2, AnswerAppended DEF AnswersAlone, SendsNothing
    <3> QED BY <2>1, <3>1, <3>2
  <2>5. 1 \in DOMAIN toNode /\ Query = toNode[1]
    BY <2>1, HeadTail DEF Shapes, Query
  <2>6. \A x \in node.subs : x \in node'.subs \/ toNode[1].token = x.token
    BY <2>1, <2>5
  <2> QED BY <1>1, <2>1, <2>4, <2>5, <2>6 DEF Idles
<1>4. ASSUME NEW x \in node.subs, NEW ends \in BOOLEAN, NodeSends(x, ends)
      PROVE  /\ KeepsReplies /\ UNCHANGED <<session, pending, counter, owned, early, work, asked, heard>>
             /\ toNode' = toNode /\ SendsMore
  <2>1. x.token \in DOMAIN node.sent /\ node.sent \in Seq(Nat) /\ x.token \in Nat /\ node.sent[x.token] + 1 \in Nat
    BY SentParts DEF Known
  <2>2. PICK m : m = EventMsg(x.token, node.sent[x.token] + 1, ends)
    OBVIOUS
  <2>3. /\ fromNode' = Append(fromNode, m) /\ m \in Replies
        /\ UNCHANGED <<session, pending, counter, owned, early, work, toNode, asked, heard>>
        /\ node'.sent = [node.sent EXCEPT ![x.token] = @ + 1]
        /\ node'.subs = IF ends THEN node.subs \ {x} ELSE node.subs
    BY <1>4, <2>1, <2>2, NodeSendsShapes
  <2>4. PICK e : e = m.event
    OBVIOUS
  <2>5. m.msg = "event" /\ e \in Events /\ e.token = x.token /\ e.number = node.sent[x.token] + 1 /\ e.ends = ends
    BY <2>1, <2>2, <2>4 DEF EventMsg, Events
  <2>6. DOMAIN node'.sent = DOMAIN node.sent /\ node'.sent[x.token] = node.sent[x.token] + 1
        /\ \A t \in DOMAIN node.sent : t # x.token => node'.sent[t] = node.sent[t]
    BY <2>1, <2>3
  <2>7. SentOnly(e.token, e.number)
    BY <2>1, <2>5, <2>6 DEF SentOnly
  <2>8. node.events < MaxEvents /\ node'.events = node.events + 1
    <3>1. node \in Nodes /\ node.events < MaxEvents
          /\ node' = [node EXCEPT !.sent[x.token] = @ + 1, !.events = @ + 1, !.subs = IF ends THEN @ \ {x} ELSE @]
      BY <1>4, NodeShapes DEF NodeSends
    <3> QED BY <3>1 DEF Nodes
  <2>9. KeepsReplies /\ \A i \in DOMAIN fromNode' : i \in DOMAIN fromNode \/ fromNode'[i] = m
    BY <2>3, OneMore
  <2>10. NodeHas(e)'
    BY <2>3, <2>4, <2>5, OneMore DEF NodeHas
  <2>11. SendsAlone(e) /\ \A i \in DOMAIN fromNode' : i \in DOMAIN fromNode \/ fromNode'[i].msg = "event"
    BY <2>4, <2>5, <2>8, <2>9, <2>10 DEF SendsAlone
  <2>12. \A y \in node.subs : y \in node'.subs \/ (y.token = e.token /\ e.ends)
    BY <2>3, <2>5
  <2> QED BY <2>1, <2>3, <2>5, <2>7, <2>9, <2>11, <2>12 DEF SendsMore
<1> QED BY <1>2, <1>3, <1>4 DEF NodeStep

LEMMA NodeExpects ==
  ASSUME BaseInv, ~Shares, NodeStep, NEW t \in Nat
  PROVE  /\ Awaited(t)' => Awaited(t) \/ (Starts /\ t = NewToken)
         /\ Expected(t)' => Expected(t) \/ (Starts /\ t = NewToken)
<1>1. KeepsReplies /\ owned' = owned /\ (Idles \/ Starts \/ SendsMore)
  BY NodeMoves
<1>2. ASSUME Awaited(t)' PROVE Awaited(t) \/ (Starts /\ t = NewToken)
  <2>1. PICK i \in DOMAIN fromNode' : fromNode'[i].msg = "answer" /\ fromNode'[i].token = t
    BY <1>2 DEF Awaited
  <2>2. CASE i \in DOMAIN fromNode
    BY <1>1, <2>1, <2>2 DEF KeepsReplies, Awaited
  <2>3. CASE i \notin DOMAIN fromNode
    BY <1>1, <2>1, <2>3, NamesApart DEF Idles, Starts, AnswersAlone, SendsMore
  <2> QED BY <2>2, <2>3
<1> QED BY <1>1, <1>2 DEF Expected

LEMMA NodeSingly ==
  ASSUME BaseInv, RunsInv, HoldsInv, Singly, ~Shares, NodeStep
  PROVE  Singly'
<1> USE DEF BaseInv
<1>1. /\ KeepsReplies /\ UNCHANGED <<pending, owned, heard>> /\ (Idles \/ Starts \/ SendsMore)
      /\ \A i \in DOMAIN toNode' : \E j \in DOMAIN toNode : toNode[j] = toNode'[i]
  BY NodeMoves
<1>2. \A t \in DOMAIN node.sent : t \in DOMAIN node'.sent /\ t # None
  BY <1>1, SentParts, NamesApart DEF Idles, Starts, SendsMore, SentOnly
<1>3. NewToken \in Nat /\ NewToken # None
  BY NodeShapes, NamesApart
<1>4. ASSUME NEW i \in DOMAIN fromNode', i \notin DOMAIN fromNode, fromNode'[i].msg = "answer", fromNode'[i].token # None
      PROVE  /\ Starts /\ fromNode'[i].token = NewToken /\ fromNode'[i].id = Query.id
             /\ \A j \in DOMAIN fromNode' : j \in DOMAIN fromNode \/ j = i \/ fromNode'[j].msg = "event"
  <2>1. Starts
    BY <1>1, <1>4 DEF Idles, SendsMore
  <2>2. PICK t \in {None, NewToken} : AnswersAlone(t)
    BY <2>1 DEF Starts
  <2>3. PICK k \in DOMAIN fromNode' :
            /\ k \notin DOMAIN fromNode /\ fromNode'[k].msg = "answer" /\ fromNode'[k].id = Query.id /\ fromNode'[k].token = t
            /\ \A j \in DOMAIN fromNode' : j \in DOMAIN fromNode \/ j = k \/ fromNode'[j].msg = "event"
    BY <2>2 DEF AnswersAlone
  <2>4. i = k
    BY <1>4, <2>3
  <2> QED BY <1>4, <2>1, <2>2, <2>3, <2>4
<1>5. ASSUME NEW i \in DOMAIN fromNode', NEW j \in DOMAIN fromNode', fromNode'[i].msg = "answer",
             fromNode'[j].msg = "answer", fromNode'[i].token # None, fromNode'[i].token = fromNode'[j].token
      PROVE  i = j
  <2>1. \A k \in DOMAIN fromNode : fromNode[k].msg = "answer" => fromNode[k].token \in DOMAIN node.sent \cup {None}
    BY DEF Known, KnownReply
  <2>2. Starts => NewToken \notin DOMAIN node.sent
    BY DEF Starts
  <2>3. CASE i \in DOMAIN fromNode /\ j \in DOMAIN fromNode
    BY <1>1, <1>5, <2>3 DEF KeepsReplies, Singly, NamedOnce
  <2>4. CASE i \notin DOMAIN fromNode /\ j \in DOMAIN fromNode
    BY <1>1, <1>3, <1>4, <1>5, <2>1, <2>2, <2>4 DEF KeepsReplies
  <2>5. CASE i \in DOMAIN fromNode /\ j \notin DOMAIN fromNode
    BY <1>1, <1>3, <1>4, <1>5, <2>1, <2>2, <2>5 DEF KeepsReplies
  <2>6. CASE i \notin DOMAIN fromNode /\ j \notin DOMAIN fromNode
    BY <1>4, <1>5, <2>6
  <2> QED BY <2>3, <2>4, <2>5, <2>6
<1>6. ASSUME NEW t \in Nat, Awaited(t)', NEW l \in DOMAIN heard PROVE heard[l].token # t
  <2>1. CASE Awaited(t)
    BY <2>1 DEF Singly, NamedOnce
  <2>2. CASE Starts /\ t = NewToken
    BY <2>2 DEF Starts, Known
  <2> QED BY <1>6, <2>1, <2>2, NodeExpects
<1>7. NamedOnce'
  BY <1>1, <1>5, <1>6 DEF NamedOnce
<1>8. \A i \in DOMAIN toNode' : toNode'[i].token \in DOMAIN node'.sent \cup {None}
  BY <1>1, <1>2 DEF Singly, Unreleased
<1>9. ASSUME NEW t \in Nat, Expected(t)'
      PROVE  (\A i \in DOMAIN toNode' : toNode'[i].token # t) /\ \A p \in pending : p.owner.token # t
  <2>1. CASE Expected(t)
    BY <1>1, <2>1 DEF Singly, Unreleased
  <2>2. CASE Starts /\ t = NewToken
    BY <1>1, <1>3, <2>2 DEF Starts, HoldsInv, AskedKnown, Singly, Unreleased
  <2> QED BY <1>9, <2>1, <2>2, NodeExpects
<1>10. Unreleased'
  BY <1>1, <1>8, <1>9 DEF Unreleased
<1>11. ASSUME NEW i \in DOMAIN fromNode', fromNode'[i].msg = "answer", fromNode'[i].token # None
       PROVE  \E p \in pending : p.id = fromNode'[i].id /\ p.owner.method \in Kinds
  <2>1. CASE i \in DOMAIN fromNode
    BY <1>1, <1>11, <2>1 DEF KeepsReplies, Singly, OpensPend
  <2>2. CASE i \notin DOMAIN fromNode
    <3>1. toNode # <<>> /\ Query.method \in Kinds /\ fromNode'[i].id = Query.id
      BY <1>4, <1>11, <2>2 DEF Starts
    <3>2. 1 \in DOMAIN toNode /\ Query = toNode[1]
      BY <3>1, HeadTail DEF Shapes, Query
    <3>3. Query.id # 0 /\ Pends(Query, pending)
      BY <3>1, <3>2 DEF RunsInv, Ids, Querying
    <3> QED BY <3>1, <3>3 DEF Pends
  <2> QED BY <2>1, <2>2
<1>12. OpensPend'
  BY <1>1, <1>11 DEF OpensPend
<1> QED BY <1>7, <1>10, <1>12 DEF Singly

LEMMA SinglyNext == ASSUME BaseInv, RunsInv, HoldsInv, Singly, ~Shares, [Next]_vars PROVE Singly'
<1>1. CASE NodeStep
  BY <1>1, NodeSingly
<1>2. CASE Dropped
  BY <1>2, DroppedSingly
<1>3. CASE Inner /\ ~NodeStep /\ ~Dropped
  BY <1>3, InnerNamedOnce, InnerUnreleased, InnerOpensPend DEF Singly, RunsInv
<1> QED BY <1>1, <1>2, <1>3, StepKinds

\* The subscriptions the node has sent an event of are no more than its events, and each event's number is at least
\* its place.
Active == {t \in DOMAIN node.sent : node.sent[t] > 0}
Few ==
  /\ node.events <= MaxEvents /\ IsFiniteSet(Active) /\ Cardinality(Active) <= node.events
  /\ \A t \in DOMAIN node.sent : node.sent[t] <= node.events
Placed ==
  /\ \A e \in Events : Comes(e) => e.number > 0
  /\ \A k \in DOMAIN early : \A j \in DOMAIN early[k].events : j <= early[k].events[j].number

\* An event of token t is the node's next.
LEMMA OneMoreActive ==
  ASSUME Shapes, Shapes', Few, NEW t, NEW n \in Nat, SentOnly(t, n), n <= node'.events,
         node.events < MaxEvents, node'.events = node.events + 1
  PROVE  Few'
<1>1. node.events \in Nat /\ MaxEvents \in Nat /\ node'.events \in Nat
  BY BrokerAssumption DEF Shapes, Nodes
<1>2. Active' \in SUBSET (Active \cup {t})
  BY DEF SentOnly, Active
<1>3. /\ IsFiniteSet(Active \cup {t}) /\ Cardinality(Active) \in Nat
      /\ Cardinality(Active \cup {t}) = IF t \in Active THEN Cardinality(Active) ELSE Cardinality(Active) + 1
  BY FS_AddElement, FS_CardinalityType DEF Few
<1>4. /\ IsFiniteSet(Active') /\ Cardinality(Active') <= Cardinality(Active \cup {t})
      /\ Cardinality(Active') \in Nat
  BY <1>2, <1>3, FS_Subset, FS_CardinalityType
<1>5. Cardinality(Active') <= node'.events
  BY <1>1, <1>3, <1>4 DEF Few
<1>6. ASSUME NEW u \in DOMAIN node'.sent PROVE node'.sent[u] <= node'.events
  <2>1. CASE u = t
    BY <2>1 DEF SentOnly
  <2>2. CASE u # t
    <3>1. u \in DOMAIN node.sent /\ node'.sent[u] = node.sent[u] /\ node.sent[u] <= node.events
      BY <2>2 DEF SentOnly, Few
    <3>2. node.sent[u] \in Nat
      BY <3>1, SentParts
    <3> QED BY <1>1, <3>1, <3>2
  <2> QED BY <2>1, <2>2
<1>7. node'.events <= MaxEvents
  BY <1>1
<1> QED BY <1>4, <1>5, <1>6, <1>7 DEF Few

LEMMA SameFew == ASSUME Few, node'.sent = node.sent, node'.events = node.events PROVE Few'
BY DEF Few, Active

LEMMA FewNext == ASSUME BaseInv, Few, ~Shares, [Next]_vars PROVE Few'
<1> USE DEF BaseInv
<1>1. Shapes' /\ node \in Nodes
  BY BaseInvNext DEF Shapes
<1>2. CASE Inner
  BY <1>2, SameFew DEF Inner
<1>3. CASE Dropped
  BY <1>1, <1>3, SameFew DEF Dropped, Nodes
<1>4. CASE NodeStep
  <2>1. Idles \/ Starts \/ SendsMore
    BY <1>4, NodeMoves
  <2>2. CASE Idles
    BY <2>2, SameFew DEF Idles, SendsNothing
  <2>3. CASE SentOnly(NewToken, 0) /\ SendsNothing /\ NewToken \notin DOMAIN node.sent
    <3>1. /\ node'.events = node.events /\ node.events \in Nat
          /\ DOMAIN node'.sent = DOMAIN node.sent \cup {NewToken} /\ node'.sent[NewToken] = 0
          /\ \A u \in DOMAIN node.sent : node'.sent[u] = node.sent[u]
      BY <1>1, <2>3 DEF SentOnly, SendsNothing, Nodes
    <3>2. Active' = Active
      BY <3>1 DEF Active
    <3>3. \A u \in DOMAIN node'.sent : node'.sent[u] <= node'.events
      BY <3>1 DEF Few
    <3> QED BY <3>1, <3>2, <3>3 DEF Few
  <2>4. ASSUME NEW e \in Events, SentOnly(NewToken, 1), SendsAlone(e) PROVE Few'
    <3>1. node.events \in Nat /\ 1 <= node.events + 1
      BY <1>1 DEF Nodes
    <3> QED BY <1>1, <2>4, <3>1, OneMoreActive DEF SendsAlone
  <2>5. CASE SendsMore
    <3>1. PICK e \in Events : /\ e.token \in DOMAIN node.sent /\ e.number = node.sent[e.token] + 1
                              /\ SentOnly(e.token, e.number) /\ SendsAlone(e)
      BY <2>5 DEF SendsMore
    <3>2. e.number \in Nat /\ node.events \in Nat /\ node.sent[e.token] \in Nat /\ node.sent[e.token] <= node.events
      BY <1>1, <3>1, SentParts DEF Events, Nodes, Few
    <3>3. e.number <= node.events + 1
      BY <3>1, <3>2
    <3> QED BY <1>1, <3>1, <3>2, <3>3, OneMoreActive DEF SendsAlone
  <2> QED BY <2>1, <2>2, <2>3, <2>4, <2>5 DEF Starts
<1> QED BY <1>2, <1>3, <1>4, StepKinds

\* All that comes still comes after a step of the node, and one event more at most.
LEMMA NodeComes ==
  ASSUME BaseInv, ~Shares, NodeStep
  PROVE  /\ \A f : Comes(f) => Comes(f)'
         /\ \A f : Comes(f)' => Comes(f) \/ \E e \in Events : f = e /\ SendsAlone(e) /\ e.number > 0
<1> USE DEF BaseInv
<1>1. KeepsReplies /\ early' = early /\ work' = work /\ (Idles \/ Starts \/ SendsMore)
  BY NodeMoves
<1>2. \A f : (EarlyHas(f)' <=> EarlyHas(f)) /\ (WorkHas(f)' <=> WorkHas(f)) /\ (NodeHas(f) => NodeHas(f)')
  BY <1>1 DEF EarlyHas, WorkHas, NodeHas, KeepsReplies
<1>3. ASSUME NEW f, NodeHas(f)', ~NodeHas(f) PROVE \E e \in Events : f = e /\ SendsAlone(e) /\ e.number > 0
  <2>1. PICK i \in DOMAIN fromNode' : fromNode'[i].msg = "event" /\ fromNode'[i].event = f
    BY <1>3 DEF NodeHas
  <2>2. i \notin DOMAIN fromNode
    BY <1>1, <1>3, <2>1 DEF KeepsReplies, NodeHas
  <2>3. PICK e \in Events : SendsAlone(e) /\ (e.number = 1 \/ (e.token \in DOMAIN node.sent /\ e.number = node.sent[e.token] + 1))
    BY <1>1, <2>1, <2>2 DEF Idles, Starts, SendsMore, SendsNothing
  <2>4. e.number > 0
    BY <2>3, SentParts
  <2>5. f = e
    BY <2>1, <2>2, <2>3 DEF SendsAlone
  <2> QED BY <2>3, <2>4, <2>5
<1> QED BY <1>2, <1>3 DEF Comes

\* An event that is held early behind k others has a number above k.
LEMMA BufferedPlaces ==
  ASSUME BaseInv, EarlyOwn, Ordered, Placed, Buffers, NEW i \in DOMAIN early, early[i].token = work[1].event.token
  PROVE  Len(early[i].events) + 1 <= work[1].event.number
<1> USE DEF BaseInv
<1>1. PICK h \in Events : h = work[1].event
  BY DEF Buffers
<1>2. WorkHas(h) /\ Comes(h) /\ h.number \in Nat
  <2>1. 1 \in DOMAIN work /\ work[1].do = "event"
    BY HeadTail DEF Buffers, Shapes
  <2> QED BY <1>1, <2>1 DEF WorkHas, Comes, Events
<1>3. /\ early[i].events \in Seq(Events) /\ DOMAIN early[i].events = 1 .. Len(early[i].events)
      /\ Len(early[i].events) \in Nat
  BY EarlyParts
<1>4. CASE Len(early[i].events) = 0
  BY <1>1, <1>2, <1>4 DEF Placed
<1>5. CASE Len(early[i].events) > 0
  <2>1. PICK k \in DOMAIN early[i].events : k = Len(early[i].events)
    BY <1>3, <1>5
  <2>2. PICK f \in Events : f = early[i].events[k]
    BY <1>3
  <2>3. EarlyHas(f) /\ f.token = h.token /\ k <= f.number
    BY <1>1, <2>2 DEF EarlyHas, EarlyOwn, Placed
  <2>4. f.number < h.number /\ f.number \in Nat
    BY <1>2, <2>3 DEF Ordered, Ahead, Events
  <2> QED BY <1>1, <1>2, <1>3, <2>1, <2>3, <2>4
<1> QED BY <1>3, <1>4, <1>5

LEMMA BuffersPlaced ==
  ASSUME BaseInv, EarlyOwn, Ordered, Placed, Buffers, NEW i \in DOMAIN early', NEW j \in DOMAIN early'[i].events
  PROVE  j <= early'[i].events[j].number
<1> USE DEF BaseInv
<1>1. PICK h \in Events : h = work[1].event
  BY DEF Buffers
<1>2. PICK b : b = Buffered(h)
  OBVIOUS
<1>3. early' = b
  BY <1>1, <1>2 DEF Buffers
<1>4. Comes(h) /\ h.number \in Nat /\ h.number > 0
  <2>1. 1 \in DOMAIN work /\ work[1].do = "event"
    BY HeadTail DEF Buffers, Shapes
  <2>2. Comes(h)
    BY <1>1, <2>1 DEF WorkHas, Comes
  <2> QED BY <2>2 DEF Placed, Events
<1>5. CASE EarlyAt(h.token) = {}
  <2>1. PICK room \in Seq(EarlyItems) : \E d \in {0, 1} :
           /\ Len(b) = Len(room) + 1 /\ b[Len(room) + 1] = [token |-> h.token, events |-> <<h>>]
           /\ \A k \in 1 .. Len(room) : b[k] = room[k]
           /\ \A k \in 1 .. Len(room) : k + d \in DOMAIN early /\ room[k] = early[k + d]
    BY <1>2, <1>5, BufferedNew
  <2>2. PICK d \in {0, 1} : \A k \in 1 .. Len(room) : b[k] = room[k] /\ k + d \in DOMAIN early /\ room[k] = early[k + d]
    BY <2>1
  <2>3. DOMAIN b = 1 .. Len(room) + 1
    <3>1. early' \in Seq(EarlyItems)
      BY BaseInvNext, RouteShapes DEF Buffers, Shapes
    <3> QED BY <1>3, <2>1, <3>1
  <2>4. CASE i = Len(room) + 1
    <3>1. b[i].events = <<h>>
      BY <2>1, <2>4
    <3>2. j = 1 /\ b[i].events[j] = h
      BY <1>3, <3>1
    <3> QED BY <1>3, <1>4, <3>2
  <2>5. CASE i \in 1 .. Len(room)
    BY <1>3, <2>2, <2>5 DEF Placed
  <2> QED BY <1>3, <2>3, <2>4, <2>5
<1>6. CASE EarlyAt(h.token) # {}
  <2>1. i \in DOMAIN early /\ (b[i] = early[i] \/ (early[i].token = h.token /\ b[i].events = Append(early[i].events, h)))
    BY <1>2, <1>3, <1>6, BufferedMore
  <2>2. CASE b[i] = early[i]
    BY <1>3, <2>1, <2>2 DEF Placed
  <2>3. CASE early[i].token = h.token /\ b[i].events = Append(early[i].events, h)
    <3>1. Len(early[i].events) + 1 <= h.number
      BY <1>1, <2>1, <2>3, BufferedPlaces
    <3>2. early[i].events \in Seq(Events) /\ DOMAIN early[i].events = 1 .. Len(early[i].events) /\ Len(early[i].events) \in Nat
      BY <2>1, EarlyParts
    <3>3. PICK u : u = b[i].events
      OBVIOUS
    <3>4. /\ Len(u) = Len(early[i].events) + 1 /\ u[Len(early[i].events) + 1] = h /\ u \in Seq(Events)
          /\ \A k \in 1 .. Len(early[i].events) : u[k] = early[i].events[k]
      BY <2>3, <3>2, <3>3, Appended
    <3>5. j = Len(early[i].events) + 1 \/ (j \in DOMAIN early[i].events /\ u[j] = early[i].events[j])
      BY <1>3, <3>2, <3>3, <3>4
    <3> QED BY <1>3, <2>1, <3>1, <3>3, <3>4, <3>5 DEF Placed
  <2> QED BY <2>1, <2>2, <2>3
<1> QED BY <1>5, <1>6

LEMMA PlacedNext ==
  ASSUME BaseInv, HoldsInv, Lined, EarlyOwn, Ordered, Placed, ~Shares, [Next]_vars
  PROVE  Placed'
<1>1. \A e \in Events : Comes(e)' => e.number > 0
  <2>1. CASE InTurn
    BY <2>1 DEF InTurn, Placed
  <2>2. CASE NodeStep
    BY <2>2, NodeComes DEF Placed
  <2> QED BY <2>1, <2>2, EveryStepInTurn
<1>2. ASSUME NEW i \in DOMAIN early', NEW j \in DOMAIN early'[i].events PROVE j <= early'[i].events[j].number
  BY <1>2, EarlyChanges, BuffersPlaced DEF EarlyStays, Placed
<1> QED BY <1>1, <1>2 DEF Placed

\* Within the bounds nothing held early is dropped to make room, and every event that should be held is.
LEMMA RoomForAll ==
  ASSUME BaseInv, HoldsInv, EarlyOwn, Ordered, Few, Placed, MaxEvents <= MaxEarlyTokens, Buffers,
         EarlyAt(work[1].event.token) = {}
  PROVE  Len(early) < MaxEarlyTokens
<1> USE DEF BaseInv
<1>1. PICK h \in Events : h = work[1].event
  BY DEF Buffers
<1>2. 1 \in DOMAIN work /\ work[1].do = "event"
  BY HeadTail DEF Buffers, Shapes
<1>3. ASSUME NEW e \in Events, Comes(e) PROVE e.token \in Active
  <2>1. e.token \in DOMAIN node.sent /\ e.number <= node.sent[e.token] /\ e.number > 0
    BY <1>3 DEF Ordered, KnownEvent, Placed
  <2>2. node.sent[e.token] \in Nat /\ e.number \in Nat
    BY <2>1, SentParts DEF Events
  <2> QED BY <2>1, <2>2 DEF Active
<1>4. h.token \in Active
  BY <1>1, <1>2, <1>3 DEF Comes, WorkHas
<1>5. DOMAIN early = 1 .. Len(early) /\ Len(early) \in Nat
  BY EarlyParts
<1>6. ASSUME NEW i \in DOMAIN early PROVE early[i].token \in Active /\ early[i].token # h.token
  <2>1. early[i].events \in Seq(Events) /\ DOMAIN early[i].events = 1 .. Len(early[i].events) /\ Len(early[i].events) \in Nat
    BY EarlyParts
  <2>2. 1 \in DOMAIN early[i].events
    BY <2>1 DEF HoldsInv, Within
  <2>3. PICK e \in Events : e = early[i].events[1]
    BY <2>1, <2>2
  <2>4. Comes(e) /\ e.token = early[i].token
    BY <2>2, <2>3 DEF Comes, EarlyHas, EarlyOwn
  <2>5. early[i].token # h.token
    BY <1>1 DEF EarlyAt
  <2> QED BY <1>3, <2>4, <2>5
<1>7. PICK g : g = [i \in 1 .. Len(early) + 1 |-> IF i \in DOMAIN early THEN early[i].token ELSE h.token]
  OBVIOUS
<1>8. g \in [1 .. Len(early) + 1 -> Active]
  BY <1>4, <1>6, <1>7
<1>9. ASSUME NEW x \in 1 .. Len(early) + 1, NEW y \in 1 .. Len(early) + 1, g[x] = g[y] PROVE x = y
  <2>1. CASE x \in DOMAIN early /\ y \in DOMAIN early
    BY <1>7, <1>9, <2>1 DEF HoldsInv, Within
  <2>2. CASE x \notin DOMAIN early /\ y \notin DOMAIN early
    BY <1>5, <2>2
  <2>3. CASE x \in DOMAIN early /\ y \notin DOMAIN early
    BY <1>6, <1>7, <1>9, <2>3
  <2>4. CASE x \notin DOMAIN early /\ y \in DOMAIN early
    BY <1>6, <1>7, <1>9, <2>4
  <2> QED BY <2>1, <2>2, <2>3, <2>4
<1>10. Cardinality(1 .. Len(early) + 1) <= Cardinality(Active)
  BY <1>8, <1>9, InjectedIsFewer DEF Few
<1>11. Cardinality(1 .. Len(early) + 1) = Len(early) + 1
  BY <1>5, FS_Interval
<1>12. /\ Cardinality(Active) \in Nat /\ node.events \in Nat /\ MaxEvents \in Nat /\ MaxEarlyTokens \in Nat
       /\ Cardinality(Active) <= node.events /\ node.events <= MaxEvents
  BY FS_CardinalityType, BrokerAssumption DEF Few, Shapes, Nodes
<1> QED BY <1>5, <1>10, <1>11, <1>12

LEMMA BuffersKeep ==
  ASSUME BaseInv, HoldsInv, EarlyOwn, Ordered, Few, Placed, MaxEvents <= MaxEarlyTokens, MaxEvents <= MaxEarlyEvents,
         Buffers, NEW h \in Events, h = work[1].event
  PROVE  EarlyHas(h)' /\ \A e \in Events : EarlyHas(e) => EarlyHas(e)'
<1> USE DEF BaseInv
<1>2. PICK b : b = Buffered(h)
  OBVIOUS
<1>3. early' = b
  BY <1>2 DEF Buffers
<1>4. DOMAIN early = 1 .. Len(early) /\ Len(early) \in Nat /\ b \in Seq(EarlyItems)
  BY <1>3, EarlyParts, BaseInvNext, RouteShapes DEF Buffers, Shapes
<1>5. CASE EarlyAt(h.token) = {}
  <2>1. Len(early) < MaxEarlyTokens
    BY <1>5, RoomForAll
  <2>2. /\ Len(b) = Len(early) + 1 /\ b[Len(early) + 1] = [token |-> h.token, events |-> <<h>>]
        /\ \A i \in 1 .. Len(early) : b[i] = early[i]
    BY <1>2, <1>5, <2>1, BufferedNew
  <2>3. DOMAIN b = 1 .. Len(early) + 1 /\ Len(early) + 1 \in DOMAIN b
    BY <1>4, <2>2
  <2>4. ASSUME NEW e \in Events, EarlyHas(e) PROVE EarlyHas(e)'
    BY <1>3, <1>4, <2>2, <2>3, <2>4 DEF EarlyHas
  <2>5. b[Len(early) + 1].events = <<h>>
    BY <2>2
  <2>6. 1 \in DOMAIN b[Len(early) + 1].events /\ b[Len(early) + 1].events[1] = h
    BY <2>5
  <2>7. EarlyHas(h)'
    BY <1>3, <2>3, <2>6 DEF EarlyHas
  <2> QED BY <2>4, <2>7
<1>6. CASE EarlyAt(h.token) # {}
  <2>1. /\ DOMAIN b = DOMAIN early
        /\ \A i \in DOMAIN early : \/ b[i] = early[i]
                                   \/ early[i].token = h.token /\ b[i].events = Append(early[i].events, h)
        /\ \A i \in DOMAIN early : early[i].token = h.token /\ Len(early[i].events) < MaxEarlyEvents
              => b[i].events = Append(early[i].events, h)
    BY <1>2, <1>6, BufferedMore
  <2>2. \A s \in Seq(Events) : /\ Len(s) + 1 \in DOMAIN Append(s, h) /\ Append(s, h)[Len(s) + 1] = h
                               /\ \A j \in DOMAIN s : j \in DOMAIN Append(s, h) /\ Append(s, h)[j] = s[j]
    <3> SUFFICES ASSUME NEW s \in Seq(Events), NEW u, u = Append(s, h)
                 PROVE  /\ Len(s) + 1 \in DOMAIN u /\ u[Len(s) + 1] = h
                        /\ \A j \in DOMAIN s : j \in DOMAIN u /\ u[j] = s[j]
      OBVIOUS
    <3>1. /\ Len(u) = Len(s) + 1 /\ u[Len(s) + 1] = h /\ u \in Seq(Events) /\ Len(s) \in Nat
          /\ \A j \in 1 .. Len(s) : u[j] = s[j]
      BY Appended
    <3> QED BY <3>1
  <2>3. ASSUME NEW e \in Events, EarlyHas(e) PROVE EarlyHas(e)'
    <3>1. PICK i \in DOMAIN early : \E j \in DOMAIN early[i].events : early[i].events[j] = e
      BY <2>3 DEF EarlyHas
    <3>2. PICK j \in DOMAIN early[i].events : early[i].events[j] = e
      BY <3>1
    <3>3. j \in DOMAIN b[i].events /\ b[i].events[j] = e
      BY <2>1, <2>2, <3>2, EarlyParts
    <3> QED BY <1>3, <2>1, <3>3 DEF EarlyHas
  <2>4. EarlyHas(h)'
    <3>1. PICK i \in DOMAIN early : early[i].token = h.token
      BY <1>6 DEF EarlyAt
    <3>2. Len(early[i].events) + 1 <= h.number
      BY <3>1, BufferedPlaces
    <3>3. h.number <= MaxEvents
      <4>1. Comes(h)
        <5>1. 1 \in DOMAIN work /\ work[1].do = "event"
          BY HeadTail DEF Buffers, Shapes
        <5> QED BY <5>1 DEF WorkHas, Comes
      <4>2. h.token \in DOMAIN node.sent /\ h.number <= node.sent[h.token]
        BY <4>1 DEF Ordered, KnownEvent
      <4>3. node.sent[h.token] <= node.events /\ node.events <= MaxEvents
        BY <4>2 DEF Few
      <4>4. h.number \in Nat /\ node.sent[h.token] \in Nat /\ node.events \in Nat /\ MaxEvents \in Nat
        BY <4>2, SentParts, BrokerAssumption DEF Events, Shapes, Nodes
      <4> QED BY <4>2, <4>3, <4>4
    <3>4. early[i].events \in Seq(Events) /\ Len(early[i].events) \in Nat
      BY EarlyParts
    <3>5. Len(early[i].events) < MaxEarlyEvents
      <4>1. h.number \in Nat /\ MaxEvents \in Nat /\ MaxEarlyEvents \in Nat
        BY BrokerAssumption DEF Events
      <4> QED BY <3>2, <3>3, <3>4, <4>1
    <3>6. b[i].events = Append(early[i].events, h)
      BY <2>1, <3>1, <3>5
    <3>7. Len(early[i].events) + 1 \in DOMAIN b[i].events /\ b[i].events[Len(early[i].events) + 1] = h
      BY <2>2, <3>4, <3>6
    <3> QED BY <1>3, <2>1, <3>7 DEF EarlyHas
  <2> QED BY <2>3, <2>4
<1> QED BY <1>5, <1>6

\* What is held of other tokens stays where one token's is taken.
LEMMA DroppedKeeps ==
  ASSUME Shapes, EarlyOwn, NEW t, early' = EarlyDropped(t), NEW e, EarlyHas(e), e.token # t
  PROVE  EarlyHas(e)'
<1>1. PICK b : b = EarlyDropped(t)
  OBVIOUS
<1>2. DOMAIN early = 1 .. Len(early) /\ Len(early) \in Nat /\ DOMAIN b = 1 .. Len(b)
  <2>1. b \in Seq(EarlyItems)
    BY <1>1, EarlyDroppedShapes
  <2> QED BY <2>1, EarlyParts
<1>3. PICK i \in DOMAIN early : \E j \in DOMAIN early[i].events : early[i].events[j] = e
  BY DEF EarlyHas
<1>4. early[i].token # t
  BY <1>3 DEF EarlyOwn
<1>5. CASE EarlyAt(t) = {}
  BY <1>5, EarlyDroppedShapes DEF EarlyHas
<1>6. CASE EarlyAt(t) # {}
  <2>1. PICK k \in EarlyAt(t) : /\ Len(b) = Len(early) - 1
                                /\ \A m \in 1 .. Len(early) - 1 : b[m] = IF m < k THEN early[m] ELSE early[m + 1]
    BY <1>1, <1>6, EarlyDroppedShapes
  <2>2. k \in DOMAIN early /\ early[k].token = t
    BY DEF EarlyAt
  <2>3. i # k
    BY <1>4, <2>2
  <2>4. \E m \in DOMAIN b : b[m] = early[i]
    <3>1. CASE i < k
      <4>1. i \in 1 .. Len(early) - 1
        BY <1>2, <2>2, <3>1
      <4> QED BY <1>2, <2>1, <3>1, <4>1
    <3>2. CASE i > k
      <4>1. i - 1 \in 1 .. Len(early) - 1 /\ ~(i - 1 < k) /\ (i - 1) + 1 = i
        BY <1>2, <2>2, <3>2
      <4> QED BY <1>2, <2>1, <4>1
    <3> QED BY <1>2, <2>2, <2>3, <3>1, <3>2
  <2> QED BY <1>1, <1>3, <2>4 DEF EarlyHas
<1> QED BY <1>5, <1>6

\* A token's events are held in one place.
LEMMA HeldOnce ==
  ASSUME HoldsInv, NEW i \in DOMAIN early, NEW k \in DOMAIN early, early[i].token = early[k].token
  PROVE  i = k
BY DEF HoldsInv, Within

LEMMA LaterStays ==
  ASSUME Shapes, fromNode # <<>>, fromNode' = Tail(fromNode), NEW i \in DOMAIN fromNode, i # 1
  PROVE  i - 1 \in DOMAIN fromNode' /\ fromNode'[i - 1] = fromNode[i]
<1>1. fromNode \in Seq(Replies) /\ DOMAIN fromNode = 1 .. Len(fromNode) /\ Len(fromNode) \in Nat
  BY DEF Shapes
<1>2. /\ Tail(fromNode) \in Seq(Replies) /\ Len(Tail(fromNode)) = Len(fromNode) - 1
      /\ \A j \in 1 .. Len(fromNode) - 1 : Tail(fromNode)[j] = fromNode[j + 1]
  BY <1>1, HeadTail
<1>3. i - 1 \in 1 .. Len(fromNode) - 1 /\ (i - 1) + 1 = i
  BY <1>1
<1>4. DOMAIN fromNode' = 1 .. Len(fromNode) - 1
  BY <1>1, <1>2
<1> QED BY <1>2, <1>3, <1>4

\* The bounds under which nothing that comes early is dropped.
Roomy == MaxEvents <= MaxEarlyTokens /\ MaxEvents <= MaxEarlyEvents

\* What a step leaves unheard of what is expected still comes, but for what it routes to its holders.
Lasts(e) == Comes(e)' \/ (Route /\ e = work[1].event /\ Holders(e.token) # {})

LEMMA RouteLasts ==
  ASSUME BaseInv, HoldsInv, EarlyOwn, Ordered, Singly, Few, Placed, Roomy, Route,
         NEW e \in Events, Comes(e), Expected(e.token)'
  PROVE  Lasts(e)
<1> USE DEF BaseInv
<1>1. /\ work # <<>> /\ work[1].do = "event" /\ work[1].event \in Events /\ owned' \subseteq owned
      /\ early' = early \/ Holders(work[1].event.token) = {}
      /\ Holders(work[1].event.token) = {} /\ ~Releasing(work[1].event.token) /\ MayOpen => early' = Buffered(work[1].event)
  BY RouteShapes
<1>2. PICK h \in Events : h = work[1].event
  BY <1>1
<1>3. /\ fromNode' = fromNode /\ Len(work) \in Nat /\ DOMAIN work = 1 .. Len(work)
  BY WorkParts DEF Route
<1>4. Buffers => EarlyHas(h)' /\ \A f \in Events : EarlyHas(f) => EarlyHas(f)'
  BY <1>2, BuffersKeep DEF Roomy
<1>5. EarlyStays \/ Buffers
  BY EarlyChanges DEF Next, BrokerStep
<1>6. early' = early \/ Buffers
  BY <1>1, RouteShapes DEF Buffers
<1>7. CASE EarlyHas(e)
  BY <1>4, <1>6, <1>7 DEF EarlyHas, Lasts, Comes
<1>8. CASE NodeHas(e)
  BY <1>3, <1>8 DEF NodeHas, Lasts, Comes
<1>9. CASE WorkHas(e) /\ e # h
  <2>1. PICK k \in DOMAIN work : work[k].do = "event" /\ work[k].event = e
    BY <1>9 DEF WorkHas
  <2>2. k # 1
    BY <1>2, <1>9, <2>1
  <2>3. PICK order \in Seq(Helds) : /\ Len(work') = Len(order) + Len(work) - 1
                                    /\ \A i \in 1 .. Len(work) - 1 : work'[Len(order) + i] = work[i + 1]
    BY RouteShapes
  <2>4. DOMAIN work' = 1 .. Len(work') /\ Len(order) \in Nat
    BY RouteShapes DEF Shapes
  <2>5. k - 1 \in 1 .. Len(work) - 1 /\ (k - 1) + 1 = k
    BY <1>3, <2>2
  <2>6. Len(order) + (k - 1) \in DOMAIN work'
    BY <1>3, <2>3, <2>4, <2>5
  <2>7. work'[Len(order) + (k - 1)] = work[k]
    BY <2>3, <2>5
  <2> QED BY <2>1, <2>6, <2>7 DEF WorkHas, Lasts, Comes
<1>10. CASE e = h /\ Holders(e.token) = {}
  <2>1. e.token \in Nat /\ Awaited(e.token)
    BY <1>1, <1>3, <1>10 DEF Expected, Awaited, Holders
  <2>2. ~Releasing(e.token)
    BY <2>1 DEF Releasing, Singly, Unreleased, Expected
  <2>3. MayOpen
    <3>1. PICK i \in DOMAIN fromNode : fromNode[i].msg = "answer" /\ fromNode[i].token = e.token
      BY <2>1 DEF Awaited
    <3>2. fromNode[i].token # None
      BY <2>1, <3>1, NamesApart
    <3> QED BY <3>1, <3>2 DEF Singly, OpensPend, MayOpen
  <2>4. Buffers
    BY <1>1, <1>2, <1>10, <2>2, <2>3 DEF Buffers
  <2> QED BY <1>4, <1>10, <2>4 DEF Lasts, Comes
<1>11. CASE e = h /\ Holders(e.token) # {}
  BY <1>2, <1>11 DEF Lasts
<1> QED BY <1>7, <1>8, <1>9, <1>10, <1>11 DEF Comes

LEMMA FlushLasts ==
  ASSUME BaseInv, HoldsInv, Lined, EarlyOwn, Flush, NEW e \in Events, Comes(e)
  PROVE  Comes(e)'
<1> USE DEF BaseInv
<1>1. DOMAIN work = {1} /\ work[1].do = "flush" /\ fromNode' = fromNode
  BY FlushShapes, FlushAlone DEF Flush
<1>2. PICK t : t = work[1].token
  OBVIOUS
<1>3. PICK events \in Seq(Events) : events = EarlyOf(t) /\ FlushedTo(events)
  BY <1>2, FlushPlaces
<1>4. early' = EarlyDropped(t)
  BY <1>2, FlushShapes
<1>5. CASE EarlyHas(e) /\ e.token # t
  BY <1>4, <1>5, DroppedKeeps DEF Comes
<1>6. CASE EarlyHas(e) /\ e.token = t
  <2>1. PICK i \in DOMAIN early : \E j \in DOMAIN early[i].events : early[i].events[j] = e
    BY <1>6 DEF EarlyHas
  <2>2. PICK j \in DOMAIN early[i].events : early[i].events[j] = e
    BY <2>1
  <2>3. early[i].token = t
    BY <1>6, <2>2 DEF EarlyOwn
  <2>4. early[i].events = events
    <3>1. EarlyAt(t) # {}
      BY <2>3 DEF EarlyAt
    <3> QED BY <1>3, <2>3, <3>1, EarlyDroppedShapes, HeldOnce DEF EarlyAt
  <2>5. j \in DOMAIN work' /\ work'[j] = [do |-> "event", event |-> e]
    BY <1>3, <2>2, <2>4 DEF FlushedTo
  <2> QED BY <2>5 DEF WorkHas, Comes
<1>7. CASE WorkHas(e)
  BY <1>1, <1>7 DEF WorkHas
<1>8. CASE NodeHas(e)
  BY <1>1, <1>8 DEF NodeHas, Comes
<1> QED BY <1>5, <1>6, <1>7, <1>8 DEF Comes

LEMMA HandleEventLasts == ASSUME BaseInv, HandleEvent, NEW e, Comes(e) PROVE Comes(e)'
<1> USE DEF BaseInv
<1>1. /\ work = <<>> /\ fromNode # <<>> /\ fromNode' = Tail(fromNode) /\ early' = early
      /\ work' = <<[do |-> "event", event |-> Reply.event]>> /\ Reply.msg = "event"
  BY HandleEventShapes DEF HandleEvent
<1>2. CASE EarlyHas(e)
  BY <1>1, <1>2 DEF EarlyHas, Comes
<1>3. CASE WorkHas(e)
  BY <1>1, <1>3 DEF WorkHas
<1>4. CASE NodeHas(e)
  <2>1. PICK i \in DOMAIN fromNode : fromNode[i].msg = "event" /\ fromNode[i].event = e
    BY <1>4 DEF NodeHas
  <2>2. CASE i = 1
    <3>1. 1 \in DOMAIN work' /\ work'[1] = [do |-> "event", event |-> e]
      BY <1>1, <2>1, <2>2 DEF Reply
    <3> QED BY <3>1 DEF WorkHas, Comes
  <2>3. CASE i # 1
    BY <1>1, <2>1, <2>3, LaterStays DEF NodeHas, Comes
  <2> QED BY <2>2, <2>3
<1> QED BY <1>2, <1>3, <1>4 DEF Comes

LEMMA AnswerLasts ==
  ASSUME BaseInv, EarlyOwn, NamedOnce, [Next]_vars, HandleAnswer, NEW e \in Events, Comes(e), Expected(e.token)'
  PROVE  Comes(e)'
<1> USE DEF BaseInv
<1>1. /\ work = <<>> /\ fromNode # <<>> /\ fromNode' = Tail(fromNode) /\ Reply.msg = "answer" /\ Reply.token \in Names
      /\ Unknown \/ \E p \in pending : p.id = Reply.id /\ (Mapped(p) \/ Relayed(p) \/ Freed(p) \/ Closed(p))
  BY HandleAnswerCases
<1>2. CASE NodeHas(e)
  <2>1. PICK i \in DOMAIN fromNode : fromNode[i].msg = "event" /\ fromNode[i].event = e
    BY <1>2 DEF NodeHas
  <2>2. i # 1
    BY <1>1, <2>1 DEF Reply
  <2> QED BY <1>1, <2>1, <2>2, LaterStays DEF NodeHas, Comes
<1>3. CASE WorkHas(e)
  BY <1>1, <1>3 DEF WorkHas
<1>4. CASE EarlyHas(e) /\ early' = early
  BY <1>4 DEF EarlyHas, Comes
<1>5. ASSUME EarlyHas(e), NEW p \in pending, Freed(p) PROVE Comes(e)'
  <2>1. /\ early' = EarlyDropped(Reply.token) /\ owned' = owned /\ Holders(Reply.token) = {} /\ Reply.token \in Nat
    BY <1>1, <1>5 DEF Freed, Names
  <2>2. PICK t \in Nat : t = Reply.token
    BY <2>1
  <2>3. ~Awaited(t)'
    BY <2>2, ReadOnce
  <2>4. e.token # t
    BY <2>1, <2>2, <2>3 DEF Expected, Holders
  <2> QED BY <1>5, <2>1, <2>2, <2>4, DroppedKeeps DEF Comes
<1> QED BY <1>1, <1>2, <1>3, <1>4, <1>5 DEF Comes, Unknown, Mapped, Relayed, Closed

LEMMA SameComes ==
  ASSUME UNCHANGED <<early, fromNode>>, NEW e, Comes(e),
         \A i \in DOMAIN work : work[i].do = "event" => \E j \in DOMAIN work' : work'[j] = work[i]
  PROVE  Comes(e)'
BY DEF Comes, EarlyHas, WorkHas, NodeHas

\* The entries of work that the head does not take stay.
LEMMA HaltKeeps == ASSUME Shapes, Halt PROVE \A i \in DOMAIN work : \E j \in DOMAIN work' : work'[j] = work[i]
<1>1. PICK h : h = [do |-> "halt"]
  OBVIOUS
<1>2. work' = <<h>> \o work /\ h \in WorkItems /\ work \in Seq(WorkItems)
  BY <1>1 DEF Halt, WorkItems, Shapes
<1>3. /\ DOMAIN work' = 1 .. Len(work) + 1 /\ \A i \in 1 .. Len(work) : work'[i + 1] = work[i]
      /\ Len(work) \in Nat /\ DOMAIN work = 1 .. Len(work)
  BY <1>2, InFront
<1>4. \A i \in DOMAIN work : i + 1 \in DOMAIN work'
  BY <1>3
<1> QED BY <1>3, <1>4

LEMMA TailKeeps ==
  ASSUME Shapes, work # <<>>, work' = Tail(work)
  PROVE  \A i \in DOMAIN work : i # 1 => \E j \in DOMAIN work' : work'[j] = work[i]
<1>1. work \in Seq(WorkItems) /\ DOMAIN work = 1 .. Len(work) /\ Len(work) \in Nat
  BY WorkParts
<1>2. /\ Tail(work) \in Seq(WorkItems) /\ Len(Tail(work)) = Len(work) - 1
      /\ \A i \in 1 .. Len(work) - 1 : Tail(work)[i] = work[i + 1]
  BY <1>1, HeadTail
<1>3. \A i \in DOMAIN work : i # 1 => i - 1 \in 1 .. Len(work) - 1 /\ (i - 1) + 1 = i
  BY <1>1
<1>4. DOMAIN work' = 1 .. Len(work) - 1
  BY <1>1, <1>2
<1> QED BY <1>2, <1>3, <1>4

LEMMA AllLasts ==
  ASSUME BaseInv, HoldsInv, Lined, EarlyOwn, Ordered, Singly, Few, Placed, Roomy, [Next]_vars, ~NodeStep, ~Dropped,
         NEW e \in Events, Comes(e), Expected(e.token)'
  PROVE  Lasts(e)
<1> USE DEF BaseInv
<1>1. ASSUME UNCHANGED <<early, fromNode, work>> PROVE Comes(e)'
  BY <1>1, SameComes
<1>2. CASE UNCHANGED vars
  BY <1>1, <1>2 DEF vars, Lasts
<1>3. CASE SessionStep
  BY <1>1, <1>3 DEF SessionStep, Connect, Leave, LeaveHalting, Subscribe, Call, Release, Lasts
<1>4. CASE OwnerStep
  <2>1. Halt
    BY <1>4, DisconnectAllShapes DEF OwnerStep
  <2> QED BY <2>1, HaltKeeps, SameComes DEF Halt, Lasts
<1>5. ~HaltEnds
  BY HaltEndsShapes
<1>6. CASE Tell
  <2>1. work # <<>> /\ work[1].do = "tell" /\ work' = Tail(work) /\ UNCHANGED <<early, fromNode>>
    BY <1>6, TellShapes DEF Tell
  <2>2. \A i \in DOMAIN work : work[i].do = "event" => \E j \in DOMAIN work' : work'[j] = work[i]
    BY <2>1, TailKeeps
  <2> QED BY <2>1, <2>2, SameComes DEF Lasts
<1>7. CASE \E s \in Sessions : HaltSession(s)
  BY <1>1, <1>7 DEF HaltSession, Lasts
<1>8. CASE Flush
  BY <1>8, FlushLasts DEF Lasts
<1>9. CASE HandleEvent
  BY <1>9, HandleEventLasts DEF Lasts
<1>10. CASE HandleAnswer
  BY <1>10, AnswerLasts DEF Lasts, Singly
<1>11. CASE Route
  BY <1>11, RouteLasts
<1> QED BY <1>2, <1>3, <1>4, <1>5, <1>6, <1>7, <1>8, <1>9, <1>10, <1>11 DEF Next, BrokerStep

\* An expected subscription runs, or its final event comes.
Alive == \A t \in Nat : Expected(t) => (\E x \in node.subs : x.token = t) \/ \E e \in Events : Comes(e) /\ e.token = t /\ e.ends

LEMMA NodeAlive == ASSUME BaseInv, Singly, ~Shares, Alive, NodeStep PROVE Alive'
<1> USE DEF BaseInv
<1> SUFFICES ASSUME NEW t \in Nat, Expected(t)'
             PROVE  NowRuns(t) \/ \E e \in Events : Comes(e)' /\ e.token = t /\ e.ends
  BY DEF Alive, NowRuns
<1>1. Idles \/ Starts \/ SendsMore
  BY NodeMoves
<1>2. \A e : SendsAlone(e) => Comes(e)'
  BY DEF SendsAlone, Comes
<1>3. CASE Expected(t) /\ \E e \in Events : Comes(e) /\ e.token = t /\ e.ends
  BY <1>3, NodeComes
<1>4. ASSUME Expected(t), NEW x \in node.subs, x.token = t
      PROVE  NowRuns(t) \/ \E e \in Events : Comes(e)' /\ e.token = t /\ e.ends
  <2>1. CASE Idles
    BY <1>4, <2>1 DEF Idles, NowRuns, Singly, Unreleased
  <2>2. CASE Starts
    BY <1>4, <2>2 DEF Starts, NowRuns
  <2>3. CASE SendsMore
    BY <1>2, <1>4, <2>3 DEF SendsMore, NowRuns
  <2> QED BY <1>1, <2>1, <2>2, <2>3
<1>5. CASE Starts /\ t = NewToken
  BY <1>2, <1>5 DEF Starts
<1> QED BY <1>3, <1>4, <1>5, NodeExpects DEF Alive

LEMMA RoutedEnds ==
  ASSUME BaseInv, NamedOnce, Route, NEW e, e = work[1].event, e.ends, Expected(e.token)'
  PROVE  Holders(e.token) = {}
<1> USE DEF BaseInv
<1>1. owned' = owned \ Holders(e.token) /\ fromNode' = fromNode
  BY RouteShapes DEF Ended, Route
<1>2. e.token \in Nat /\ Awaited(e.token)
  BY <1>1 DEF Expected, Awaited, Holders
<1> QED BY <1>2, HeldIsNamed DEF Holders

LEMMA AliveNext ==
  ASSUME BaseInv, HoldsInv, Lined, EarlyOwn, Ordered, Singly, Few, Placed, Roomy, ~Shares, Alive, [Next]_vars
  PROVE  Alive'
<1>1. CASE NodeStep
  BY <1>1, NodeAlive
<1>2. CASE Dropped
  BY <1>2, DroppedExpects DEF Alive
<1>3. CASE Inner /\ ~NodeStep /\ ~Dropped
  <2> SUFFICES ASSUME NEW t \in Nat, Expected(t)'
               PROVE  (\E x \in node'.subs : x.token = t) \/ \E e \in Events : Comes(e)' /\ e.token = t /\ e.ends
    BY DEF Alive
  <2>1. Expected(t) /\ node' = node
    BY <1>3, ExpectedStays DEF Inner
  <2>2. ASSUME NEW e \in Events, Comes(e), e.token = t, e.ends PROVE Comes(e)'
    BY <1>3, <2>2, AllLasts, RoutedEnds DEF Lasts, Singly
  <2> QED BY <2>1, <2>2 DEF Alive
<1> QED BY <1>1, <1>2, <1>3, StepKinds

\* Every event the node sent of what is expected is heard, being told, or comes.
Waiting(t, n) == \E e \in Events : Comes(e) /\ e.token = t /\ e.number = n
TellsIt(o, n) == \E i \in DOMAIN work : work[i].do = "tell" /\ work[i].owned = o /\ work[i].event.number = n
AwaitedWhole == \A t \in DOMAIN node.sent : Awaited(t) => \A n \in 1 .. node.sent[t] : Waiting(t, n)
HeldWhole ==
  \A o \in owned : \A n \in 1 .. node.sent[o.token] :
    n > Len(heard[o.local].events) => TellsIt(o, n) \/ Waiting(o.token, n)
Gapless == \A l \in DOMAIN heard : \A i \in DOMAIN heard[l].events : heard[l].events[i] = i
TellsNext ==
  \A i \in DOMAIN work : work[i].do = "tell" => work[i].event.number = Len(heard[work[i].owned.local].events) + 1
Whole == AwaitedWhole /\ HeldWhole /\ Gapless /\ TellsNext

LEMMA HeardMoves == ASSUME BaseInv, [Next]_vars PROVE MapsOne \/ Tell \/ SameHeard
<1> USE DEF BaseInv
<1>1. ASSUME heard' = heard PROVE SameHeard
  BY <1>1, HeardUnchanged
<1>2. CASE SessionStep
  BY <1>1, <1>2 DEF SessionStep, Connect, Leave, LeaveHalting, Subscribe, Call, Release
<1>3. CASE HandleAnswer
  BY <1>1, <1>3, HandleAnswerCases DEF MapsOne, Unknown, Relayed, Freed, Closed
<1>4. CASE OwnerStep \/ NodeStep \/ UNCHANGED vars
  BY <1>1, <1>4 DEF OwnerStep, DisconnectAll, DropUpstream, Halt, NodeStep, NodeOpens, NodeReads, NodeSends, vars
<1>5. CASE HandleEvent \/ Flush \/ Route \/ HaltEnds
  BY <1>1, <1>5 DEF HandleEvent, Flush, Route, HaltEnds
<1>6. CASE \E s \in Sessions : HaltSession(s)
  BY <1>6, HaltSessionNames DEF SameHeard
<1> QED BY <1>2, <1>3, <1>4, <1>5, <1>6 DEF Next, BrokerStep

\* What a step tells.
LEMMA TellingMoves ==
  ASSUME BaseInv, Lined, [Next]_vars
  PROVE  /\ \A i \in DOMAIN work : work[i].do = "tell" =>
              (\E j \in DOMAIN work' : work'[j] = work[i]) \/ (Tell /\ i = 1)
         /\ \A j \in DOMAIN work' : work'[j].do = "tell" =>
              Route \/ (~Tell /\ \E i \in DOMAIN work : work[i] = work'[j])
              \/ (Tell /\ \E i \in DOMAIN work : i # 1 /\ work[i] = work'[j])
<1> USE DEF BaseInv
<1>1. CASE work' = work /\ ~Tell
  BY <1>1
<1>2. CASE DOMAIN work = {1} /\ work[1].do = "flush" /\ Flush
  <2>1. \A j \in DOMAIN work' : work'[j].do = "event"
    <3>1. PICK events \in Seq(Events) : FlushedTo(events)
      BY <1>2, FlushPlaces
    <3> QED BY <1>2, <3>1 DEF FlushedTo
  <2> QED BY <1>2, <2>1
<1>3. CASE Route
  <2>1. \A j \in DOMAIN work : work[j].do = "event"
    BY <1>3, RouteShapes, EventFirst
  <2> QED BY <1>3, <2>1
<1>4. CASE Tell
  <2>1. work # <<>> /\ work' = Tail(work)
    BY <1>4, TellShapes
  <2>2. \A j \in DOMAIN work' : \E i \in DOMAIN work : i # 1 /\ work[i] = work'[j]
    <3> SUFFICES ASSUME NEW j \in DOMAIN work' PROVE \E i \in DOMAIN work : i # 1 /\ work[i] = work'[j]
      OBVIOUS
    <3>1. j \in Nat /\ j + 1 \in DOMAIN work /\ work'[j] = work[j + 1]
      BY <2>1, TailParts
    <3>2. j # 0
      <4>1. work' \in Seq(WorkItems)
        BY <1>4, TellShapes DEF Shapes
      <4>2. DOMAIN work' = 1 .. Len(work') /\ Len(work') \in Nat
        BY <4>1
      <4> QED BY <4>2
    <3> QED BY <3>1, <3>2
  <2> QED BY <1>4, <2>1, <2>2, TailKeeps
<1>5. CASE HaltEnds
  <2>1. work # <<>> /\ work' = Tail(work) /\ work[1].do = "halt" /\ ~Tell
    BY <1>5, HeadTail DEF HaltEnds, Halting, Tell, Working, Shapes
  <2> QED BY <2>1, TailKeeps, TailParts
<1>6. CASE Halt
  <2>1. ~Tell
    BY <1>6, HaltKeeps DEF Halt, Tell
  <2> QED BY <1>6, <2>1, HaltKeeps, HaltTells
<1>7. CASE HandleAnswer
  <2>1. work = <<>> /\ ~Tell
    BY <1>7 DEF HandleAnswer, FromNode, Tell, Working
  <2>2. CASE work' = work
    BY <2>1, <2>2
  <2>3. ASSUME NEW p \in pending, Mapped(p) PROVE \A j \in DOMAIN work' : work'[j].do = "flush"
    <3>1. work' = <<[do |-> "flush", token |-> Reply.token]>>
      BY <1>7, <2>3, MappedShapes
    <3> QED BY <3>1
  <2>4. CASE \E p \in pending : Mapped(p)
    BY <2>1, <2>3, <2>4
  <2> QED BY <1>7, <2>2, <2>4, HandleAnswerCases DEF Unknown, Relayed, Freed, Closed
<1>8. CASE HandleEvent
  <2>1. work = <<>> /\ ~Tell
    BY <1>8 DEF HandleEvent, FromNode, Tell, Working
  <2>2. \A j \in DOMAIN work' : work'[j].do = "event"
    BY <1>8, HandleEventShapes
  <2> QED BY <2>1, <2>2
<1>9. CASE Flush
  BY <1>2, <1>9, FlushShapes, FlushAlone
<1>10. CASE SessionStep \/ DisconnectAll \/ NodeStep \/ (\E s \in Sessions : HaltSession(s)) \/ UNCHANGED vars
  <2>1. work' = work
    BY <1>10 DEF SessionStep, Connect, Leave, LeaveHalting, Subscribe, Call, Release, DisconnectAll, DropUpstream,
                 NodeStep, NodeOpens, NodeReads, NodeSends, HaltSession, vars
  <2> QED BY <1>1, <1>4, <2>1
<1> QED BY <1>3, <1>4, <1>5, <1>6, <1>7, <1>8, <1>9, <1>10 DEF Next, BrokerStep, OwnerStep

\* The invariants above, before the last of them.
Steady == BaseInv /\ HoldsInv /\ HearInv /\ Singly /\ Few /\ Placed /\ Roomy /\ ~Shares

LEMMA SteadyParts ==
  ASSUME Steady
  PROVE  /\ BaseInv /\ HoldsInv /\ Lined /\ EarlyOwn /\ HeldFlushed /\ Ordered /\ Singly /\ NamedOnce /\ Few /\ Placed
         /\ Roomy /\ ~Shares /\ HeldUntold /\ Shapes /\ Named /\ OneHalt
BY DEF Steady, HearInv, Hears, Singly, BaseInv

LEMMA WaitingLasts ==
  ASSUME Steady, [Next]_vars, ~NodeStep, ~Dropped, NEW t, NEW n, Expected(t)', Waiting(t, n)
  PROVE  \/ Waiting(t, n)'
         \/ /\ Route /\ work[1].event.token = t /\ work[1].event.number = n /\ Holders(t) # {}
<1> USE SteadyParts
<1>1. PICK e \in Events : Comes(e) /\ e.token = t /\ e.number = n
  BY DEF Waiting
<1>2. Lasts(e)
  BY <1>1, AllLasts
<1> QED BY <1>1, <1>2 DEF Lasts, Waiting

LEMMA NodeWaits == ASSUME Steady, NodeStep, NEW t, NEW n, Waiting(t, n) PROVE Waiting(t, n)'
BY SteadyParts, NodeComes DEF Waiting

\* What the node has yet to answer, and what is held, is whole after a step of the node.
LEMMA NodeSent ==
  ASSUME Steady, NodeStep, NEW t \in DOMAIN node'.sent, NEW n \in 1 .. node'.sent[t]
  PROVE  (t \in DOMAIN node.sent /\ n \in 1 .. node.sent[t]) \/ Waiting(t, n)'
<1> USE SteadyParts
<1>1. Idles \/ Starts \/ SendsMore
  BY NodeMoves
<1>2. \A e : SendsAlone(e) => Comes(e)'
  BY DEF SendsAlone, Comes
<1>3. CASE Idles
  BY <1>3 DEF Idles
<1>4. CASE Starts
  <2>1. CASE t # NewToken
    BY <1>4, <2>1 DEF Starts, SentOnly
  <2>2. CASE t = NewToken /\ node'.sent[t] = 0
    BY <2>2
  <2>3. ASSUME NEW e \in Events, SentOnly(NewToken, 1), SendsAlone(e), e.token = NewToken, e.number = 1, t = NewToken
        PROVE  Waiting(t, n)'
    <3>1. n = 1
      BY <2>3 DEF SentOnly
    <3> QED BY <1>2, <2>3, <3>1 DEF Waiting
  <2> QED BY <1>4, <2>1, <2>2, <2>3 DEF Starts, SentOnly
<1>5. CASE SendsMore
  <2>1. PICK e \in Events : /\ e.token \in DOMAIN node.sent /\ e.number = node.sent[e.token] + 1
                            /\ SentOnly(e.token, e.number) /\ SendsAlone(e)
    BY <1>5 DEF SendsMore
  <2>2. CASE t # e.token
    BY <2>1, <2>2 DEF SentOnly
  <2>3. CASE t = e.token
    <3>1. node.sent[t] \in Nat /\ node'.sent[t] = node.sent[t] + 1 /\ t \in DOMAIN node.sent
      BY <2>1, <2>3, SentParts DEF SentOnly
    <3>2. n \in 1 .. node.sent[t] \/ n = e.number
      BY <2>1, <2>3, <3>1
    <3> QED BY <1>2, <2>1, <2>3, <3>1, <3>2 DEF Waiting
  <2> QED BY <2>2, <2>3
<1> QED BY <1>1, <1>3, <1>4, <1>5

LEMMA NodeWhole == ASSUME Steady, Whole, NodeStep PROVE AwaitedWhole' /\ HeldWhole'
<1> USE SteadyParts
<1>1. UNCHANGED <<owned, heard, work>>
  BY NodeMoves
<1>2. ASSUME NEW t \in DOMAIN node'.sent, Awaited(t)', NEW n \in 1 .. node'.sent[t] PROVE Waiting(t, n)'
  <2>1. CASE t \in DOMAIN node.sent /\ n \in 1 .. node.sent[t]
    <3>1. t \in Nat /\ (Starts => t # NewToken)
      BY <2>1, SentParts DEF Starts
    <3>2. Awaited(t)
      BY <1>2, <3>1, NodeExpects
    <3> QED BY <2>1, <3>2, NodeWaits DEF Whole, AwaitedWhole
  <2> QED BY <2>1, NodeSent
<1>3. ASSUME NEW o \in owned, NEW n \in 1 .. node'.sent[o.token], n > Len(heard[o.local].events)
      PROVE  TellsIt(o, n)' \/ Waiting(o.token, n)'
  <2>1. o.token \in DOMAIN node.sent /\ (o.token \in DOMAIN node'.sent)
    <3>1. o.token \in DOMAIN node.sent
      BY DEF BaseInv, Named, Belongs, Known
    <3>2. SentGrows
      BY NodeStepLate
    <3> QED BY <3>1, <3>2 DEF SentGrows
  <2>2. CASE n \in 1 .. node.sent[o.token]
    BY <1>1, <1>3, <2>2, NodeWaits DEF Whole, HeldWhole, TellsIt
  <2> QED BY <2>1, <2>2, NodeSent
<1>4. AwaitedWhole'
  BY <1>2 DEF AwaitedWhole
<1>5. HeldWhole'
  BY <1>1, <1>3 DEF HeldWhole
<1> QED BY <1>4, <1>5

LEMMA DroppedWhole == ASSUME Dropped PROVE AwaitedWhole' /\ HeldWhole'
BY DEF Dropped, AwaitedWhole, HeldWhole, Awaited

\* What a telling adds to what was heard.
LEMMA TellParts ==
  ASSUME BaseInv, Tell, NEW l \in DOMAIN heard
  PROVE  /\ DOMAIN heard' = DOMAIN heard /\ Len(heard[l].events) \in Nat /\ Len(heard'[l].events) \in Nat
         /\ \/ /\ heard'[l].events = heard[l].events
               /\ ~(Tells(work[1].owned, work[1].event) /\ l = work[1].owned.local)
            \/ /\ l = work[1].owned.local /\ Tells(work[1].owned, work[1].event)
               /\ Len(heard'[l].events) = Len(heard[l].events) + 1
               /\ heard'[l].events[Len(heard[l].events) + 1] = work[1].event.number
               /\ DOMAIN heard'[l].events = 1 .. Len(heard[l].events) + 1
               /\ DOMAIN heard[l].events = 1 .. Len(heard[l].events)
               /\ \A i \in DOMAIN heard[l].events : heard'[l].events[i] = heard[l].events[i]
<1> USE DEF BaseInv
<1>1. /\ DOMAIN heard' = DOMAIN heard
      /\ IF Tells(work[1].owned, work[1].event) /\ l = work[1].owned.local
         THEN heard'[l].events = Append(heard[l].events, work[1].event.number)
         ELSE heard'[l] = heard[l]
  BY TellNames
<1>2. PICK s \in Seq(Nat) : s = heard[l].events
  BY HeardParts
<1>3. PICK n \in Nat : n = work[1].event.number
  BY TellShapes DEF Events
<1>4. Len(s) \in Nat /\ DOMAIN s = 1 .. Len(s)
  OBVIOUS
<1>5. CASE Tells(work[1].owned, work[1].event) /\ l = work[1].owned.local
  <2>1. PICK u : u = heard'[l].events
    OBVIOUS
  <2>2. u = Append(s, n)
    BY <1>1, <1>2, <1>3, <1>5, <2>1
  <2>3. Len(u) = Len(s) + 1 /\ u[Len(s) + 1] = n /\ u \in Seq(Nat) /\ \A i \in 1 .. Len(s) : u[i] = s[i]
    BY <2>2, Appended
  <2>4. DOMAIN u = 1 .. Len(s) + 1 /\ Len(u) \in Nat
    BY <1>4, <2>3
  <2> QED BY <1>1, <1>2, <1>3, <1>4, <1>5, <2>1, <2>3, <2>4
<1>6. CASE ~(Tells(work[1].owned, work[1].event) /\ l = work[1].owned.local)
  BY <1>1, <1>2, <1>4, <1>6
<1> QED BY <1>5, <1>6

LEMMA TellHead ==
  ASSUME BaseInv, Tell
  PROVE  1 \in DOMAIN work /\ work[1].do = "tell" /\ work[1].owned.local \in DOMAIN heard /\ node' = node /\ owned' = owned
<1>1. 1 \in DOMAIN work /\ work[1].do = "tell" /\ node' = node /\ owned' = owned
  BY TellShapes, HeadTail DEF Tell, BaseInv, Shapes
<1> QED BY <1>1 DEF BaseInv, Telling, Belongs

LEMMA GaplessNext == ASSUME Steady, Whole, [Next]_vars PROVE Gapless'
<1> USE SteadyParts
<1>1. CASE SameHeard
  BY <1>1 DEF SameHeard, Whole, Gapless
<1>2. CASE MapsOne
  <2>1. /\ DOMAIN heard' = 1 .. Len(heard) + 1 /\ DOMAIN heard = 1 .. Len(heard) /\ Len(heard) \in Nat
        /\ heard'[Len(heard) + 1].events = <<>> /\ \A l \in DOMAIN heard : heard'[l] = heard[l]
    BY <1>2, MappedParts
  <2>2. \A l \in DOMAIN heard' : l \in DOMAIN heard \/ l = Len(heard) + 1
    BY <2>1
  <2> QED BY <2>1, <2>2 DEF Whole, Gapless
<1>3. CASE Tell
  <2> SUFFICES ASSUME NEW l \in DOMAIN heard', NEW i \in DOMAIN heard'[l].events PROVE heard'[l].events[i] = i
    BY DEF Gapless
  <2>1. l \in DOMAIN heard
    BY <1>3, TellNames
  <2>2. CASE heard'[l].events = heard[l].events
    BY <2>1, <2>2 DEF Whole, Gapless
  <2>3. CASE /\ l = work[1].owned.local
             /\ heard'[l].events[Len(heard[l].events) + 1] = work[1].event.number
             /\ DOMAIN heard'[l].events = 1 .. Len(heard[l].events) + 1
             /\ DOMAIN heard[l].events = 1 .. Len(heard[l].events) /\ Len(heard[l].events) \in Nat
             /\ \A k \in DOMAIN heard[l].events : heard'[l].events[k] = heard[l].events[k]
    <3>1. work[1].event.number = Len(heard[l].events) + 1
      BY <1>3, <2>3, TellHead DEF Whole, TellsNext
    <3>2. i \in DOMAIN heard[l].events \/ i = Len(heard[l].events) + 1
      BY <2>3
    <3> QED BY <2>1, <2>3, <3>1, <3>2 DEF Whole, Gapless
  <2> QED BY <1>3, <2>1, <2>2, <2>3, TellParts
<1> QED BY <1>1, <1>2, <1>3, HeardMoves

\* Where an event of a subscription somebody holds is at the head, all else that comes of it is later.
LEMMA HeadFirst ==
  ASSUME Steady, work # <<>>, work[1].do = "event", NEW h \in Events, h = work[1].event,
         NEW o \in owned, o.token = h.token, NEW e \in Events, Comes(e), e.token = h.token
  PROVE  e = h \/ h.number < e.number
<1> USE SteadyParts
<1>1. 1 \in DOMAIN work /\ \A j \in DOMAIN work : work[j].do = "event" /\ j \in Nat /\ j >= 1
  BY EventFirst, HeadTail DEF Shapes
<1>2. WorkHas(h)
  BY <1>1 DEF WorkHas
<1>3. CASE EarlyHas(e)
  <2>1. PICK k \in DOMAIN early : \E j \in DOMAIN early[k].events : early[k].events[j] = e
    BY <1>3 DEF EarlyHas
  <2>2. early[k].token = o.token
    BY <2>1 DEF EarlyOwn
  <2> QED BY <1>1, <2>2 DEF HeldFlushed, Flushing
<1>4. CASE WorkHas(e)
  <2>1. PICK k \in DOMAIN work : work[k].do = "event" /\ work[k].event = e
    BY <1>4 DEF WorkHas
  <2>2. k = 1 \/ 1 < k
    BY <1>1
  <2>3. CASE 1 < k
    <3>1. WorkRun(h, e)
      BY <1>1, <2>1, <2>3 DEF WorkRun
    <3> QED BY <3>1 DEF Ordered, Ahead
  <2> QED BY <2>1, <2>2, <2>3
<1>5. CASE NodeHas(e)
  BY <1>2, <1>5 DEF Ordered, Ahead
<1> QED BY <1>3, <1>4, <1>5 DEF Comes

\* The event at the head is the next its holders hear.
LEMMA HeadIsNext ==
  ASSUME Steady, Whole, work # <<>>, work[1].do = "event", NEW h \in Events, h = work[1].event,
         NEW o \in owned, o.token = h.token
  PROVE  h.number = Len(heard[o.local].events) + 1
<1> USE SteadyParts
<1>1. 1 \in DOMAIN work /\ \A j \in DOMAIN work : work[j].do = "event"
  BY EventFirst, HeadTail DEF Shapes
<1>2. Comes(h)
  BY <1>1 DEF WorkHas, Comes
<1>3. h.number \in Nat /\ h.number > 0 /\ h.token \in DOMAIN node.sent /\ h.number <= node.sent[h.token]
  BY <1>2 DEF Events, Placed, Ordered, KnownEvent
<1>4. o.local \in DOMAIN heard
  BY DEF Named, Belongs
<1>5. PICK s \in Seq(Nat) : s = heard[o.local].events
  BY <1>4, HeardParts
<1>6. Len(s) \in Nat /\ DOMAIN s = 1 .. Len(s)
  OBVIOUS
<1>7. Len(s) < h.number
  <2>1. CASE Len(s) = 0
    BY <1>3, <2>1
  <2>2. CASE Len(s) # 0
    <3>1. PICK i \in DOMAIN s : i = Len(s)
      BY <1>6, <2>2
    <3>2. s[i] = i
      BY <1>4, <1>5 DEF Whole, Gapless
    <3>3. s[i] < h.number
      BY <1>2, <1>5 DEF HeldUntold, Told
    <3> QED BY <3>1, <3>2, <3>3
  <2> QED BY <2>1, <2>2
<1>8. ASSUME Len(s) + 1 < h.number PROVE FALSE
  <2>1. PICK n \in Nat : n = Len(s) + 1
    BY <1>6
  <2>2. n \in 1 .. node.sent[o.token] /\ n > Len(heard[o.local].events)
    <3>1. node.sent[o.token] \in Nat
      BY <1>3, SentParts
    <3> QED BY <1>3, <1>5, <1>6, <1>8, <2>1, <3>1
  <2>3. TellsIt(o, n) \/ Waiting(o.token, n)
    BY <2>2 DEF Whole, HeldWhole
  <2>4. ~TellsIt(o, n)
    BY <1>1 DEF TellsIt
  <2>5. PICK e \in Events : Comes(e) /\ e.token = o.token /\ e.number = n
    BY <2>3, <2>4 DEF Waiting
  <2>6. e = h \/ h.number < e.number
    BY <2>5, HeadFirst
  <2> QED BY <1>3, <1>8, <2>1, <2>5, <2>6
<1> QED BY <1>3, <1>5, <1>6, <1>7, <1>8

LEMMA TellsNextNext == ASSUME Steady, Whole, [Next]_vars PROVE TellsNext'
<1> USE SteadyParts
<1> SUFFICES ASSUME NEW j \in DOMAIN work', work'[j].do = "tell", NEW o, o = work'[j].owned, NEW e, e = work'[j].event
             PROVE  e.number = Len(heard'[o.local].events) + 1
  BY DEF TellsNext
<1>1. CASE Route
  <2>1. /\ work # <<>> /\ work[1].do = "event" /\ work[1].event \in Events /\ heard' = heard
        /\ \A k \in DOMAIN work : work[k].do = "event"
    BY <1>1, RouteShapes, EventFirst DEF Route
  <2>2. PICK h \in Events : h = work[1].event
    BY <2>1
  <2>3. PICK order \in Seq(Helds) : RoutedTo(order) /\ \A i \in DOMAIN order : order[i] \in Holders(h.token)
    BY <1>1, <2>2, RoutePlaces
  <2>4. j \in DOMAIN order /\ work'[j] = [do |-> "tell", owned |-> order[j], event |-> h]
    BY <2>1, <2>2, <2>3 DEF RoutedTo
  <2>5. o \in owned /\ o.token = h.token /\ e = h
    BY <2>3, <2>4 DEF Holders
  <2> QED BY <2>1, <2>2, <2>5, HeadIsNext
<1>2. CASE Tell
  <2>1. PICK i \in DOMAIN work : i # 1 /\ work[i] = work'[j]
    BY <1>2, TellingMoves DEF Route, Tell, Working
  <2>2. work[i].do = "tell" /\ o = work[i].owned /\ e = work[i].event
    BY <2>1
  <2>3. o.local # work[1].owned.local
    BY <1>2, <2>1, <2>2, TellHead DEF Lined
  <2>4. o.local \in DOMAIN heard
    BY <2>2 DEF BaseInv, Telling, Belongs
  <2>5. heard'[o.local].events = heard[o.local].events
    BY <1>2, <2>3, <2>4, TellParts
  <2> QED BY <2>2, <2>5 DEF Whole, TellsNext
<1>3. CASE ~Route /\ ~Tell
  <2>1. PICK i \in DOMAIN work : work[i] = work'[j]
    BY <1>3, TellingMoves
  <2>2. work[i].do = "tell" /\ o = work[i].owned /\ e = work[i].event
    BY <2>1
  <2>3. SameHeard
    <3>1. MapsOne => work = <<>>
      BY MappedParts
    <3> QED BY <1>3, <2>1, <3>1, HeardMoves
  <2>4. o.local \in DOMAIN heard
    BY <2>2 DEF BaseInv, Telling, Belongs
  <2> QED BY <2>2, <2>3, <2>4 DEF SameHeard, Whole, TellsNext
<1> QED BY <1>1, <1>2, <1>3

LEMMA TellsItStays ==
  ASSUME Steady, [Next]_vars, NEW o, NEW n, TellsIt(o, n)
  PROVE  TellsIt(o, n)' \/ (Tell /\ work[1].owned = o /\ work[1].event.number = n)
<1>1. PICK i \in DOMAIN work : work[i].do = "tell" /\ work[i].owned = o /\ work[i].event.number = n
  BY DEF TellsIt
<1>2. (\E j \in DOMAIN work' : work'[j] = work[i]) \/ (Tell /\ i = 1)
  BY <1>1, SteadyParts, TellingMoves
<1> QED BY <1>1, <1>2 DEF TellsIt

LEMMA InnerAwaitedWhole ==
  ASSUME Steady, Whole, [Next]_vars, Inner, ~NodeStep, ~Dropped
  PROVE  AwaitedWhole'
<1> USE SteadyParts
<1> SUFFICES ASSUME NEW t \in DOMAIN node'.sent, Awaited(t)', NEW n \in 1 .. node'.sent[t] PROVE Waiting(t, n)'
  BY DEF AwaitedWhole
<1>1. node' = node /\ t \in Nat
  BY SentParts DEF Inner
<1>2. Awaited(t)
  BY DEF Inner, Reads, Awaited
<1>3. Waiting(t, n) /\ Expected(t)'
  BY <1>1, <1>2 DEF Whole, AwaitedWhole, Expected
<1>4. Holders(t) = {}
  BY <1>2, HeldIsNamed DEF Holders
<1> QED BY <1>3, <1>4, WaitingLasts

\* What was to be heard under a token held before still is.
LEMMA InnerKeepsWhole ==
  ASSUME Steady, Whole, [Next]_vars, Inner, ~NodeStep, ~Dropped, NEW o \in owned, o \in owned',
         NEW n \in 1 .. node.sent[o.token], n > Len(heard'[o.local].events)
  PROVE  TellsIt(o, n)' \/ Waiting(o.token, n)'
<1> USE SteadyParts
<1>1. o.local \in DOMAIN heard /\ o.token \in Nat
  BY HeldIsNamed DEF Named, Belongs
<1>2. Len(heard[o.local].events) \in Nat /\ Len(heard'[o.local].events) >= Len(heard[o.local].events)
  <2>1. Len(heard[o.local].events) \in Nat
    <3>1. heard[o.local].events \in Seq(Nat)
      BY <1>1, HeardParts
    <3> QED BY <3>1
  <2>2. CASE MapsOne
    BY <1>1, <2>1, <2>2, MappedParts
  <2>3. CASE SameHeard
    BY <1>1, <2>1, <2>3 DEF SameHeard
  <2>4. CASE Tell
    BY <1>1, <2>1, <2>4, TellParts
  <2> QED BY <2>1, <2>2, <2>3, <2>4, HeardMoves
<1>3. n > Len(heard[o.local].events)
  <2>1. Len(heard'[o.local].events) \in Nat /\ n \in Nat
    <3>1. Shapes' /\ o.local \in DOMAIN heard'
      BY <1>1, BaseInvNext, NamesOrMapped, MappedParts DEF NamesKept, BaseInv, Named, Belongs
    <3>2. heard' \in Seq(Hearings)
      BY <3>1 DEF Shapes
    <3>3. heard'[o.local] \in Hearings
      BY <3>1, <3>2
    <3>4. heard'[o.local].events \in Seq(Nat)
      BY <3>3 DEF Hearings
    <3>5. node.sent[o.token] \in Nat
      BY <1>1, SentParts DEF BaseInv, Known, Named, Belongs
    <3> QED BY <3>4, <3>5
  <2> QED BY <1>2, <2>1
<1>4. CASE TellsIt(o, n)
  <2>1. CASE Tell /\ work[1].owned = o /\ work[1].event.number = n
    <3>1. session[o.session] = "open"
      <4>1. ~Halting
        <5>1. 1 \in DOMAIN work /\ work[1].do = "tell" /\ work # <<>> /\ Head(work) = work[1]
          BY <2>1, TellHead, HeadTail DEF Shapes
        <5> QED BY <5>1 DEF Halting
      <4> QED BY <4>1 DEF HoldsInv, OwnedOpen
    <3>2. Tells(work[1].owned, work[1].event)
      BY <2>1, <3>1 DEF Tells
    <3>3. Len(heard'[o.local].events) = Len(heard[o.local].events) + 1
      BY <1>1, <2>1, <3>2, TellParts
    <3>4. n = Len(heard[o.local].events) + 1
      BY <2>1, TellHead DEF Whole, TellsNext
    <3> QED BY <1>2, <3>3, <3>4
  <2> QED BY <1>4, <2>1, TellsItStays
<1>5. CASE Waiting(o.token, n)
  <2>1. Expected(o.token)'
    BY <1>1 DEF Expected
  <2>2. CASE Route /\ work[1].event.token = o.token /\ work[1].event.number = n
    <3>1. PICK order : /\ RoutedTo(order)
                       /\ \A x \in Holders(work[1].event.token) : \E i \in DOMAIN order : order[i] = x
      BY <2>2, RoutePlaces
    <3>2. PICK i \in DOMAIN order : order[i] = o
      BY <2>2, <3>1 DEF Holders
    <3>3. i \in DOMAIN work' /\ work'[i] = [do |-> "tell", owned |-> o, event |-> work[1].event]
      BY <3>1, <3>2 DEF RoutedTo
    <3> QED BY <2>2, <3>3 DEF TellsIt
  <2> QED BY <1>5, <2>1, <2>2, WaitingLasts
<1> QED BY <1>3, <1>4, <1>5 DEF Whole, HeldWhole

LEMMA InnerHeldWhole ==
  ASSUME Steady, Whole, [Next]_vars, Inner, ~NodeStep, ~Dropped
  PROVE  HeldWhole'
<1> USE SteadyParts
<1> SUFFICES ASSUME NEW o \in owned', NEW n \in 1 .. node'.sent[o.token], n > Len(heard'[o.local].events)
             PROVE  TellsIt(o, n)' \/ Waiting(o.token, n)'
  BY DEF HeldWhole
<1>1. node' = node
  BY DEF Inner
<1>2. CASE o \in owned
  BY <1>1, <1>2, InnerKeepsWhole
<1>3. CASE o \notin owned
  <2>1. MapsOne
    BY <1>3, HeldOrMapped
  <2>2. o.token = Reply.token /\ Reply.token \in Nat /\ Reply.msg = "answer" /\ 1 \in DOMAIN fromNode /\ HandleAnswer
    BY <1>3, <2>1, MappedParts
  <2>3. Awaited(o.token) /\ Expected(o.token)'
    BY <2>2 DEF Awaited, Reply, Expected
  <2>4. o.token \in DOMAIN node.sent
    <3>1. KnownReply(Reply)
      BY <2>2 DEF BaseInv, Known, Reply
    <3> QED BY <2>2, <3>1, NamesApart DEF KnownReply
  <2>5. Waiting(o.token, n)
    BY <1>1, <2>3, <2>4 DEF Whole, AwaitedWhole
  <2>6. ~Route
    BY <2>2 DEF HandleAnswer, FromNode, Route, Working
  <2> QED BY <2>3, <2>5, <2>6, WaitingLasts
<1> QED BY <1>2, <1>3

LEMMA WholeNext == ASSUME Steady, Whole, [Next]_vars PROVE Whole'
<1>1. AwaitedWhole' /\ HeldWhole'
  <2>1. NodeStep \/ Dropped \/ (Inner /\ ~NodeStep /\ ~Dropped)
    BY StepKinds, SteadyParts
  <2> QED BY <2>1, NodeWhole, DroppedWhole, InnerAwaitedWhole, InnerHeldWhole
<1> QED BY <1>1, GaplessNext, TellsNextNext DEF Whole

\* What is held has its final event still to hear, where it does not run.
LEMMA HeldLives == ASSUME Steady, Alive PROVE HeldIsLive
<1> USE SteadyParts
<1> SUFFICES ASSUME NEW o \in owned, ~\E x \in node.subs : x.token = o.token
             PROVE  \/ \E i \in DOMAIN fromNode : fromNode[i].msg = "event" /\ fromNode[i].event.token = o.token
                                                  /\ fromNode[i].event.ends
                    \/ \E i \in DOMAIN work : \/ work[i].do = "flush" /\ work[i].token = o.token
                                              \/ work[i].do = "event" /\ work[i].event.token = o.token
  BY DEF HeldIsLive
<1>1. Expected(o.token)
  BY HeldIsNamed DEF Expected
<1>2. PICK e \in Events : Comes(e) /\ e.token = o.token /\ e.ends
  BY <1>1 DEF Alive, Expected
<1>3. CASE EarlyHas(e)
  <2>1. PICK k \in DOMAIN early : \E j \in DOMAIN early[k].events : early[k].events[j] = e
    BY <1>3 DEF EarlyHas
  <2>2. early[k].token = o.token
    BY <1>2, <2>1 DEF EarlyOwn
  <2> QED BY <2>2 DEF HeldFlushed, Flushing
<1> QED BY <1>2, <1>3 DEF Comes, WorkHas, NodeHas

AllInv == Singly /\ Few /\ Placed /\ Alive /\ Whole

LEMMA AllInvInit == Init => AllInv
<1> SUFFICES ASSUME Init PROVE AllInv
  OBVIOUS
<1>1. /\ work = <<>> /\ early = <<>> /\ fromNode = <<>> /\ toNode = <<>> /\ owned = {} /\ heard = <<>> /\ pending = {}
      /\ node = [subs |-> {}, lost |-> {}, sent |-> <<>>, events |-> 0, garbled |-> 0]
  BY DEF Init
<1>2. Singly
  BY <1>1 DEF Singly, NamedOnce, Unreleased, OpensPend, Awaited, Expected
<1>3. Few
  <2>1. Active = {} /\ node.events = 0 /\ node.sent = <<>>
    BY <1>1 DEF Active
  <2>2. IsFiniteSet({}) /\ Cardinality({}) = 0
    BY FS_EmptySet
  <2>3. 0 <= MaxEvents
    BY BrokerAssumption
  <2> QED BY <2>1, <2>2, <2>3 DEF Few
<1>4. Placed
  BY <1>1 DEF Placed, Comes, EarlyHas, WorkHas, NodeHas
<1>5. Alive
  BY <1>1 DEF Alive, Expected, Awaited
<1>6. Whole
  BY <1>1 DEF Whole, AwaitedWhole, HeldWhole, Gapless, TellsNext, Awaited
<1> QED BY <1>2, <1>3, <1>4, <1>5, <1>6 DEF AllInv

LEMMA HearingInvariant ==
  ASSUME ~Shares, MaxEvents <= MaxEarlyTokens, MaxEvents <= MaxEarlyEvents
  PROVE  Spec => [](Steady /\ AllInv)
<1>1. Roomy
  BY DEF Roomy
<1>2. BaseInv /\ HoldsInv /\ HearInv /\ [Next]_vars => HearInv'
  BY LinedNext, EarlyOwnNext, HeldFlushedNext, OrderedNext, HearsNext DEF HearInv
<1>3. BaseInv /\ RunsInv /\ HoldsInv /\ HearInv /\ AllInv /\ [Next]_vars => AllInv'
  <2> SUFFICES ASSUME BaseInv, RunsInv, HoldsInv, HearInv, AllInv, [Next]_vars PROVE AllInv'
    OBVIOUS
  <2>1. Steady
    BY <1>1 DEF Steady, AllInv
  <2>2. Singly' /\ Few' /\ Placed' /\ Alive'
    BY <2>1, SteadyParts, SinglyNext, FewNext, PlacedNext, AliveNext DEF AllInv
  <2>3. Whole'
    BY <2>1, WholeNext DEF AllInv
  <2> QED BY <2>2, <2>3 DEF AllInv
<1>4. BaseInv /\ HoldsInv /\ HearInv /\ AllInv => Steady
  BY <1>1 DEF Steady, AllInv
<1> QED BY <1>2, <1>3, <1>4, HearInvInit, AllInvInit, RunsInvInit, BaseInvariant, RunsInvariant, HoldsInvariant, PTL DEF Spec

\* Where tokens are not shared and the early caps are above the events there are, no event is missed: what was heard
\* under a local token is a run of its subscription's events from the first, and what a session holds runs at the node
\* or has its end on the way (buffer, flush, handleUpstreamSubscription).
THEOREM BrokerHearsAll ==
  ASSUME ~Shares, MaxEvents <= MaxEarlyTokens, MaxEvents <= MaxEarlyEvents
  PROVE  Spec => []HeardAll
<1>1. Steady /\ AllInv => HeardAll
  <2> SUFFICES ASSUME Steady, AllInv PROVE HeardAll
    OBVIOUS
  <2>1. HeldIsLive
    BY HeldLives DEF AllInv
  <2> QED BY <2>1 DEF HeardAll, AllInv, Whole, Gapless
<1>2. Spec => [](Steady /\ AllInv)
  BY HearingInvariant
<1> QED BY <1>1, <1>2, PTL

\* Nor will any be missed: every event the node sent of a subscription that a session holds was heard, is being told in
\* its turn, or waits early or on the way (buffer, flush, handleUpstreamSubscription).
THEOREM BrokerMissesNothing ==
  ASSUME ~Shares, MaxEvents <= MaxEarlyTokens, MaxEvents <= MaxEarlyEvents
  PROVE  Spec => []Whole
<1>1. Steady /\ AllInv => Whole
  BY DEF AllInv
<1>2. Spec => [](Steady /\ AllInv)
  BY HearingInvariant
<1> QED BY <1>1, <1>2, PTL

============================================================================
