# A TLA+ model of dotli's shared connections, frames and cores

dotli serves web apps ("products") under names that are registered on a
blockchain. A page resolves its name by talking to chains, either with a light
client in a hidden iframe and its SharedWorker or over WebSocket RPC. Many
consumers in many JavaScript contexts share few node connections: light client
chains are expensive to sync, and a node takes only a few `chainHead_v1_follow`
subscriptions per connection.

The sharing is where this code is hard. It is single-threaded JavaScript, so
there are no data races, but every layer calls back into consumers in the middle
of its own loops, and a consumer may call any operation from inside a callback.
Chains halt, are rebuilt by whoever hears of it first, pause when no tab is
visible and resume, while requests and subscriptions are in flight. The same
shape returns above the chains: the frame that hosts them is lost and rebuilt
under the callers that wait for it, the calls over it cross its close, the
page's one wallet core goes down under its leases, and the page's sign-in is read
while other tabs, the core and the store change it.

Ten modules model these parts: five for the path of a chain request, from the
pool down to one transport connection, with the worker that hosts it; three for
the frame, the wire to it and the chains served over it; two for the page's core
and its sign-in. Tests in the repository cover each operation and the common
nestings; the modules cover what callbacks, failures, other tabs and the node can
do in between.

Contents: [the system](#1-the-system) ·
[the modules](#2-the-modules) · [the runs](#3-the-runs) ·
[bounds](#4-bounds) · [fairness](#5-fairness) · [the proofs](#6-the-proofs) ·
[findings](#7-findings) · [not modelled](#8-what-the-modules-leave-out) ·
[plan](#9-plan)

## 1. The system

`PROJECT.json` lists every component with its sources. The table gives the parts
whose behaviour is more than a function of their input.

| Component | State it keeps | Operations | Hard because |
|---|---|---|---|
| **Chain pool** `createChainPool.ts` | one `Entry` per chain (lease count, destroy timer, follow reports), statuses, watchers, `paused` | lease, release, `getLocalProvider`, watch, pause, resume, `disconnectAll` | an entry halts while its leases are held, and halt handlers lease it again; a timer races the next lease |
| **Chain lanes, lane router** `createChainLanes.ts`, `createLaneRouter.ts` | open lanes, the status of each, each consumer's sessions and home lane | connect, follow, disconnect, pause, resume, halt | lanes open and close under loops over them |
| **Watch guard** `createWatchGuard.ts` | a lane's transaction watches | ends them with `dropped` on disconnect | answers and disconnects interleave |
| **Chain broker** `createChainBroker.ts` and its books | sessions, pending requests, owned tokens, early events | connect, send, release, disconnect, halt | ids and tokens are rewritten both ways; a session leaves while its subscribe is in flight |
| **Pausable transport** `createPausableTransport.ts` | requests in flight, kept and held, ids by the transport connection that issued them | send, pause, resume, disconnect | closed connections deliver late; requests must survive to the next one exactly once |
| **Light client** `createLightClient.ts` | one smoldot, its chains | add, remove and fail chains, restart | an external library whose failures end all chains |
| **Remote chains, engine scopes** `createRemoteChains.ts`, `createEngine.ts` | the page's connections, what each sent before it was accepted; the scope's connections, ten at most | connect, send, disconnect, halt, release | each side has its own books with messages between them; budgets run out while the other side goes on; the frame goes without a word |
| **Chain connect, redial** `createChainConnect.ts` | a core connection's lease and its gate | connect, send, redial | a halted connection redials on the next request |
| **Worker lifecycle** `createWorkerLifecycle.ts`, driven by `startProtocolWorker.ts` | tabs' ports, who has not heard, missed heartbeats, the closing phase | connect, status, heartbeat, pause, fail, dispose | tabs freeze and leave in silence; a closed worker drops what is queued |
| **Network pause** `createNetworkPause.ts`, `createFramePauseSender.ts` | page visibility, a delay | pause, resume | the delay races visibility |
| **Protocol frame** `createProtocolFrame.ts` | the frame booted or kept, the one held for the store, its status, the keeper's task | boot, hold, lose, rebuild, wait | keepers and callers run on in later turns, when the frame is another one |
| **Wire transport** `packages/transport` | handshakes, calls made, served and forwarded, those that ended lately | offer, request, subscribe, stop, forward, close | offers are lost and repeated; ends, stops and values cross; a close tells nobody |
| **Frame boot** `connectSharedWorker.ts`, `registerWorkerRelay.ts` | the tab's end of the worker's port | connect, retry | a dead worker answers nothing |
| **Shared store** `createSharedStore.ts`, `createSharedStoreHandler.ts` | auth, mode and wallet slots for all subdomains | read, write, change events | tabs write concurrently |
| **Page core** `createPageCore.ts` | the page's core and those it moved on from, their leases, the destroy timer | acquire, release, `setProduct`, take down, redial | boots end after their core is gone; a core goes down under its leases |
| **Session state** `createSessionState.ts`, `createCoreStorage.ts`, `restoreRule.ts`, `signInFlag.ts` | what the page shows, who speaks for it, the last read's outcome, the queue of reads, the signed-in flag | read, report, store, drop, mark unreachable, retry | every read is crossed by other tabs, the core and outages, and any request may fail |
| **Handoff, site rounds** `apps/host/src/runtime` | rounds between a page and its sign-in window | offer, confirm, end | windows close at any point |
| **Storage, caches, notifications, chat** `packages/storage` | IndexedDB records | claim, read, write | tabs race for a record |
| **Async task pool** `createAsyncTaskPool.ts` | queue, running tasks | add, abort | retries against abort |

How a request travels. A consumer leases a chain from its context's **pool**.
The lease's session belongs to a **lane router**, which puts calls on its home
lane and each follow on a lane with room. A lane is one **broker** over one
connection: it gives the request a broker id, remembers the owner and translates
the answer back. Below it the **pausable transport** numbers its openings, so
that it can tell the node connection of now from the one before the pause. The
frame's pool is itself the transport of the page's pool, through **remote
chains** and the **wire transport**.

How failure travels. A transport halts its connection; the broker answers
everything in flight, stops what is followed and tells each session; the lanes
halt the other brokers; the pool forgets the entry and tells each lease. Each
step delivers synchronously to consumers. A pause goes the other way: the page
becomes hidden, the worker pauses the network once *every* tab asks, the pool
pauses each entry, the lanes each lane, the transport closes.

What makes each modelled part correct:

* pool: one live entry per chain; an entry counts its leases whatever became of
  earlier entries; a chain is never closed under a lease without a halt the
  lease hears; an unleased chain closes; a pause leaves nothing connected;
* lanes: no lane exceeds the node's follow limit; extra lanes exist only for
  sessions; a halt reaches everyone, once;
* broker: exactly one answer per request; events in order, none lost, none
  after the end; no subscription left running for nobody;
* transport: a request is answered once over any number of connections; a
  release goes only to the connection that issued the id;
* worker: a failed worker closes once, after everyone it serves heard why; the
  pause is the conjunction over the tabs served; silent tabs are let go;
* wire: a call hears its values in order and one end, and nothing after it; a
  subscription nobody listens to any more is being stopped; no open end refuses
  a message of a peer that keeps the protocol;
* remote chains: both sides agree on what is open but for messages on their way;
  requests arrive in order, none is answered twice, and a chain's halt is heard
  after the answers to what it had; a lost frame is heard of;
* frame: no frame stays in the document that the books do not know; one that is
  down is booted again; a caller is given the frame that is there, or an error;
* page core: a core is live while it is leased and goes with its last lease; each
  runtime is disposed once; a holder that hears its core went down can get the
  next one;
* session state: once everything was heard, the page shows the session that is
  saved; a core's pairing is not replaced by an older read.

`PROJECT.json` lists under `hazards` the places where this can go wrong, each
with its line and the properties that speak about it.

## 2. The modules

Each module's header says what it models. A call of the code is one atomic step
as far as nothing else can run, which in JavaScript is up to the next delivery
to a consumer or the next `await`. From there, a stack, a work list or a phase
holds what the call has left to do, and others may act before it goes on. That is
the one idea all modules share.

| Module | Code | Code state → variables |
|---|---|---|
| `ChainPool` | `createChainPool.ts`, the follow of `openWatchFollow.ts` | `entries` → `entries`; `Entry` objects → `entry` (identities outlive their place in the map); `statuses`, `paused`, `watchers` as named; last activity told → `reported`; an entry that a throw cut short → `cut` (a history); connection closures → `lease`; microtasks → `queued`; nested calls → `stack` |
| `ChainLeases` | (the abstract promise) | which chains are up, who holds them, who is owed news of a halt |
| `ChainPoolProofs` | | invariants of `ChainPool`, and that it implements `ChainLeases`, proved |
| `ChainBrokerProofs`, `PausableTransportProofs`, `WireCallsProofs`, `RemoteChainsProofs` | | theorems about the module each is named for |
| `BrokerHearingProofs` | | that `ChainBroker` loses no event, on top of `ChainBrokerProofs` |
| `LanesLifecycleProofs` | | theorems about `ChainLanes`, `PageCore` and `WorkerLifecycle` |
| `FrameSessionProofs` | | theorems about `ProtocolFrame` and `SessionState` |
| `ChainLanes` | `createChainLanes.ts`, `createLaneRouter.ts` | `lanes`, `nextLane`, `paused`, `halted`, `closed`, `reported` as named; lane objects → `lane`; a broker's `countFollows` → the stages of `follow`; router sessions → `lane.sessions`, `home` |
| `ChainBroker` | `createChainBroker.ts`, `createPendingRequests.ts`, `createOwnedTokens.ts`, `createEarlySubscriptions.ts` | `sessions` → `session`; pending requests → `pending`, `counter`; owned tokens → `owned`; early subscriptions → `early`; the loop in progress → `work` |
| `PausableTransport` | `createPausableTransport.ts` | `paused`, `generation`, `upstream`, `inFlight`, `kept`, `held`, `follows`, `openedIds`, `closedIds` as named; the pause's loop → `work` |
| `WorkerLifecycle` | `createWorkerLifecycle.ts`, the handlers of `startProtocolWorker.ts` | `phase`, `closing`, `sessions`, `unheard`, `spoke`, `everyTabPaused` as named; timers and flush → `flush`; ports → `port`, `inbox` |
| `WireCalls` | `packages/transport/src`: `createTransport.ts`, `createConnection.ts`, `createHandshake.ts`, `createOutgoingCalls.ts`, `createServedCalls.ts`, `createForwarding.ts`, `createRecentIds.ts` | a connection's `Phase` → `phase` of the four ends; calls held behind a handshake → `placed`; open calls of the page, the frame's two sides and the worker → `calls`, `front`, `back`, `served`; recent ids → `lately`; what is posted → `toward` |
| `RemoteChains` | `createRemoteChains.ts`, a scope's `connect` of `createEngine.ts` | connection flags → `conn`, `connected`; `pending` as named; posted sends and unanswered ones → `leaving`, `flight`; the scope's connections → `held`; the wire → `toFrame`, `toPage` |
| `ProtocolFrame` | `createProtocolFrame.ts` | `status`, `slot`, `held` as named; iframes in the document → `alive`; where each `keepFrame` stands → `phase`, `lost`; the keeper's task → `keeper`, `mine`; callers → `waits`; a liveness check → `asking` |
| `PageCore` | `createPageCore.ts`, the redials of `createAsyncTaskPool.ts` | `current`, `cores` as named (`core`); `pageProduct` → `product`; `CoreLease`s → `lease`; what became of each runtime → `runs` |
| `SessionState` | `createSessionState.ts`, `createCoreStorage.ts`, `restoreRule.ts`, `signInFlag.ts`, the kept answer of `createWalletBoot.ts` | auth store → `auth`; `speaker` as named; `coreReport` → `report`; `lastReadFailed` → `readFailed`; `savedSessionReads` → `queue`, `run`; the page's kept answer → `kept`; the flag and who owns it → `flag`; the external store and the wire to it → `saved`, `up`, `out`, `inbox`, `casts`; the core → `core` |

Actions have the names of the functions they model (`Connect`, `Release`,
`GetLocalProvider`, `HandleAnswer`, `CloseDeadWorker` …); `PROJECT.json` maps
each definition to its lines. `MC*` modules only add symmetry and model values.

**External parts** appear by what the code in `src/` can see of them. The node
(in the broker and the transport) answers each request once, over ordered
channels, and may send a subscription's events before the answer that names it.
Consumers may call anything, at any time the code lets them run. Tabs post
messages, freeze and leave. Between modules, a layer appears in the one above it
by its reports and by which calls may throw (`Failing`); `ChainLanes` counts
follows in the stages `ChainBroker` gives them; `RemoteChains` takes its wire to be
the ordered one `WireCalls` is about, and its chain to answer before it halts as
a broker does. The core's runtime appears in `PageCore` by boots that
end, fail or hang, and in `SessionState` by the reads it makes and what it
reports of them, and its place may be taken by another core while what it asked is
unanswered (`gone`); the shared store runs requests in order, refuses or is late
with any of them (whether it ran or not), fails those in flight when its frame goes,
and tells other tabs' changes late.

**The abstract specification.** `ChainLeases` says what a consumer may rely on
without entries, timers, pauses and callbacks: a chain goes down under its
holders only by a halt, and each holder is then owed the news before its lease
can be forgotten. `ChainPool!LeasePromise` instantiates it with a refinement
mapping: `holders` are the held leases of the chain's *current* entry, `owed`
the leases that some halt on the stack has yet to tell.

## 3. The runs

Passing runs. A property that is a conjunction names its parts beside it, each
with its own comment in the module; one property of most modules has the type
invariant among its parts.

| Run | Shows |
|---|---|
| `pool_core` | One chain, two leases and a watcher, calls nested three deep, where pausing, connecting, releasing, resuming and ending the watchers' follow may all fail. `LeasesCounted` through halts and rebuilds; `PauseIsComplete` whatever consumers do inside the loop; `WatchingIsCurrent`, the watchers' own follow and what they last heard; `NothingIsStranded`: between turns an unleased chain counts down (`UnleasedCountsDown`), both but for an entry that a throw of that follow cut short, and a held lease of a dead chain has heard so (`HaltIsHeard`); the pool implements `ChainLeases` (`LeasePromise`). |
| `broker_follow` | Two sessions, follows against a limit of one, requests with and without ids, answers that do not parse: `AnsweredOnce`, `FollowLimitKept` (but for follows whose answer did not parse); `HoldingsAgree`: what is held, waiting and remembered is of sessions and subscriptions that are there, and nothing else runs at the node (`NoLeak`); `HeardAll`: a subscription that was never dropped has heard or will hear every event, and is live at the node or its end is on the way (`HeldIsLive`); `GoneIsQuiet` for sessions that left and tokens that were released. |
| `broker_shared` | A node that names one running watch to two subscribers and sends it two events: `HeardInOrder`, and with fairness `AnswersCome` (of each session's requests), `UnheldEnds`. |
| `pausable_core` | Three requests over two pauses, a node that issues the same ids on each connection, late deliveries: `RequestsAreKept` (each in one place until it is answered, sent in order), `HoldingsAgree` (follows, releases and ids match the connections), and with fairness `AnswersCome`. |
| `lanes_core` | Two consumers, lanes of one follow each, every failure: `LimitKept`; `SessionsAgree` (extra lanes are in use, follows have sessions); `EveryLaneFollows` (a halt and a pause reach every lane and consumer). |
| `worker_core` | Two tabs around failure, flush and dispose, with fairness: `PauseIsEveryTabs`, `ClosesOnceHeard`, `FailedCloses`. |
| `wire_calls` | A request and a subscription through the frame: `HeardInOrder`, `EndedIsQuiet`, `CallsAgree` (nothing is refused, no orphan runs on), and with fairness `RequestsEnd`. |
| `remote_chains` | Two connections over a scope that takes one: `BooksAgree`, `AnswersAddUp`, `GoneIsQuiet`, and with fairness `LostIsHeard`. |
| `protocol_frame` | A caller, two config changes and an eager status listener around frames that fail, hang, refuse or fall silent: `FramesAreSound` (none orphaned, none after a refusal), `WaitsGetTheFrame`, and with fairness `DownComesBack`, `WaitsEnd`. |
| `session_state` | Two sessions, another tab's write, a core, one event (a pairing, a sign-out) and one failure, any three of the four, on a page that owns the flag or does not: `PageSettles`: what a page with nothing under way shows is saved (`ShownIsSaved`), and it neither restores nor waits for a store that is there (`WaitingEnds`); `CoreKeepsThePage`. |
| `page_core` | Two requests, two products, up to four cores: `CoresAreHeld`, `RuntimeGoesOnce`, `DownIsReplaced`, and with fairness `RequestsEnd`. |

`pool_reopen` checks `CountdownClosesUnleased` and ends in a violation: see [findings](#7-findings).

Deadlock is checked in the pool's runs only. The others may stop for good (all
sessions left, all tabs gone, a core let go), and the bounds of section 4 stop
the rest. That nothing waits for ever is stated by the liveness properties, or by
what holds between turns, instead.

Each property has at least one mutant, a definition beside the one it changes
whose comment says what it gets wrong; TLC finds the property violated with it.

## 4. Bounds

Named as CONSTANTS, used in guards only, and never in place of a limit of the
code.

* `ChainPool`: `Entries = 3` identities, so that a chain's dead entry, its
  rebuilt one and a further rebuild are told apart; a dead entry nothing names
  is reused. `MaxDepth = 3`: a call inside a delivery inside a delivery. The
  reopening bug needs four (acquire, halt, a handler's own acquire, its halt), which
  `pool_reopen` allows; it also gives the pool a second chain. `MaxLost = 1`:
  leases counted for a session whose disconnect threw. `pool_core` has one chain: with two it does
  not finish. Chains share only `paused`, the watchers and the loops over entries, so
  what takes two, as an `unwatch` that throws at one entry and leaves the next its
  follow, rests on the proofs, which cover any number. Runs use a finite `Delay`, the pool's
  case with a timer; `"zero"` and `"never"` are covered by the proofs. (The
  frame's pool waits 60 s; the light client's and the host's frame link never
  close.)
* `ChainBroker`: `MaxRequests = 2` requests, after which sessions can still
  release all they hold; two is enough for two sessions to contend for one
  follow, or one to share with the other. `MaxEvents = 2` puts one event
  before and one after the answer that names the subscription, or two where they may
  change places; `MaxGarbled = 1`.
  `MaxEarlyTokens` and `MaxEarlyEvents` are limits of the code; they are set to
  where these runs do not reach them, so events are never dropped for want of room.
* `PausableTransport`: `MaxRequests = 3`, `MaxGeneration = 3`: one open
  connection is closed, and delivers late, while the next is open; `Reuses`: each
  connection issues the same ids.
  Calls, queries and watches are left to the proofs (and see section 7 on watches).
* `ChainLanes`: `MaxLanes = 3` lane ids (ids are not reused), `MaxFollows = 2`,
  `FollowLimit = 1`, so two follows need a second lane.
* `WorkerLifecycle`: `MissedBeats = 2` (3 in the code): a tab may miss one beat and speak again,
  or miss them all;
  `MaxInbox = 1` message of a tab on its way, two tabs each with one port.
* `WireCalls`: one request, which only the two ends and the frame between them see,
  and one subscription of `MaxValues = 2` values, enough to be out of order; two
  offers of the page, so that one is lost or one is repeated; `MaxCloses = 1` end
  that closes of itself, next to those a version mismatch closes.
* `RemoteChains`: `Limit = 1` (ten in the code) with `MaxConns = 2`, so that one is
  refused, or is accepted once the other has gone; `MaxSends = 2` to be out of
  order; `MaxTimeouts = 1` call out of its budget.
* `ProtocolFrame`: `MaxFrames = 6` frames something still refers to: the kept, the
  held and the booting one and those whose load, keeper or caller has yet to run
  on. Numbers are reused after that, so the frame is lost and rebuilt without end.
  `MaxConfigs = 2`, `MaxEager = 1`.
* `PageCore`: `MaxDials = 4`: a core, its replacement, the replacement of that, and
  one a request dials after. `Retries = 1` (two in the code). `MaxChanges = 1`.
* `SessionState`: `MaxWrites = 1` of another tab, `MaxCores = 1`, `MaxEvents = 1`
  pairing or sign-out, `MaxFails = 1`: an outage, a request that fails while the store
  is up, or a wallet read that does; `MaxTogether = 3` of these in one run, in any
  combination. The hazards here take one change that crosses one read, with one
  failure or report. Reads, retries and a store that comes back are not
  bounded. The proofs take any number of each; a second core is theirs alone.

Symmetry over consumers, sessions or leases is used only in runs of safety
properties where all members play the same part; fair runs with symmetry would
be unsound and use none.

## 5. Fairness

Fairness is only ever of the event loop and of what the code cannot work
without, never of consumers.

* `ChainPool` has none: that an unleased chain closes is checked by its safety
  core, that it counts down whenever no call runs (`NothingIsStranded`). The timer
  then fires unless someone leases, asks for or closes the chain.
* `ChainBroker`: the broker finishes a delivery, and the node reads and answers.
  A node that never answers is outside what the broker can promise.
* `PausableTransport`: deliveries, the node and `Resume`: requests are kept
  until a resume, so `AnswersCome` is about pauses that end.
* `WorkerLifecycle`: the heartbeat, the timers, the flush and each tab's
  messages are handled. Tabs owe nothing: frozen and departed tabs are the point.
* `WireCalls`: channels deliver, microtasks run, the frame offers to the worker, and
  the worker's handler of a request settles. Nobody has to call, leave or close,
  and a close is not heard of, so `RequestsEnd` allows the far side of a link to
  have closed: a worker's loss is `WorkerLifecycle`'s and `ProtocolFrame`'s to tell.
* `RemoteChains`: both sides hear what is on the wire, what a turn posts goes out,
  and a booting frame becomes ready or goes down. Chains may never answer.
* `ProtocolFrame`: backoffs end, a boot gets on or fails (its budgets see to that),
  an aborted keeper runs on, a caller's wait runs on. A kept frame may stay for ever.
* `PageCore`: the boot of a core that is still the page's ends, and a redial whose
  turn comes starts. A boot whose core is gone may hang: that it then still holds
  up nobody is what `RequestsEnd` is about. Leases need not be released.
* `SessionState` states no fairness: its properties are about pages that have
  nothing under way.

## 6. The proofs

Eight modules prove, with TLAPS, for every value of the constants what the runs
check on one. Each names the theorems' assumptions in its `ASSUME`s; those of the
modules (`PoolAssumption`, `BrokerAssumption` ...) say no more than that constants
are sets, numbers and marks that are none of the members, except where this
section says so. Every invariant below was checked with TLC, as an invariant of
the module's own specification, before it was proved.

### The pool

`ChainPoolProofs`, for any number of chains, entries, leases, watchers, any
delay, any nesting depth and (except where said) any set of failing calls:

| Theorem | Says |
|---|---|
| `PoolTyped` | `Spec => []TypeOK`; in particular no lease count goes below zero |
| `PoolOneEntryPerChain` | no chain is open twice |
| `PoolLeasesCounted` | a live entry counts exactly its held leases, more only where a disconnect threw |
| `PoolStatusIsCurrent` | the pool's status of a chain is its live entry's, and disconnected without one |
| `PoolPauseIsComplete` | between turns a paused pool has nothing open, a running one every leased chain |
| `PoolWatchingIsCurrent` | between turns the watchers' follow and what they last heard are the pool's, but for an entry that a throw of that follow's end cut short |
| `PoolNoCountdownUnderLease` | where a paused chain always opens again, no countdown runs on a leased chain |
| `PoolCountdownCloses` | under the same condition, a timer that fires closes a chain nobody leases |

None of these properties is inductive alone. `IInv` is
`Typed /\ Links /\ Counts /\ Apart`:

* `Typed`: the types of the leases, the stack and the rest of what is not the
  pool's record of its chains;
* `Links`: the types of that record, and that it is consistent: the map and the
  live entries name each other, each chain's status is its entry's, a dead entry
  has no timer. That no count goes below zero, which the types say, needs `Counts`;
* `Counts`: a lease that was taken names an entry, and a live entry counts at
  least the leases held on it, so that a release always has one to take off;
* `Apart`: a lease that an `acquire` on the stack is about to hand out is in no
  one's hands and in no other `acquire`, so that taking it adds exactly one.

The lemmas follow the code: what `Destroy`, `Idle`, `Build`, `Acquired`,
`Update` keep of the invariant, stated once; then a lemma per action group
(`ConnectKeeps`, `ReleaseKeeps`, `LoopsKeep` ...), and `NextInvariant` by cases.
A `Quiet...` family says that what a step pushes or pops leaves the stack's
acquires alone, so `Apart` survives it.

The countdown theorems strengthen it with `NoAcquire`: without a failing resume
no `acquire` is ever suspended in a halt, so it never takes an entry that other
calls rebuilt meanwhile. That is the exact place where `pool_reopen`
finds its counterexample when a resume can fail.

The two properties about turns are about loops. A pause closes the entries it
found one by one, and consumers act between two of them; between turns nothing is
open only because *during* the loop everything open was still to be closed.
`Underway` says so: whatever a paused pool has open, a running pool has closed or
the watchers' follow has wrong (of an entry that is not `cut`), is in what some loop on the stack still has to do
(`Opening`, `Watching`), or in a call that will see to it. On an empty stack nothing is.

The second part of `ChainPoolProofs` proves that the pool implements `ChainLeases`, and what that rests on:

| Theorem | Says |
|---|---|
| `PoolKeepsPromise` | `Spec => LeasePromise`: the initial states map to initial states, and each step to one of the four things a consumer may see or to a stutter |
| `PoolTold` | the invariant behind it |
| `PoolHaltIsHeard` | where a paused chain always opens again: between turns, who holds a lease on a chain that is gone has heard so |
| `PoolUnleasedCountsDown` | whatever fails, between turns an open chain nobody leases counts down, but for one whose release a throw of the watchers' follow cut short |
| `PoolNothingIsStranded` | both, where a paused chain always opens again |

`Told` says that a lease is owed the news of a halt by at most one halt on the
stack, that its chain is gone by then, and that a lease whose chain is gone heard
so or is owed it. So a lease the promise counts as owed is told exactly once, and
can be forgotten only then. `PoolUnleasedCountsDown` needs an invariant of its own
(`Ending`): in the middle of calls, an open entry without a lease or a countdown
is one some call on the stack will close or lease. The theorems but that one
assume `"resume" \notin Failing`, for the reason of the countdown theorems: a halt
inside an `acquire` gives the lease an entry others rebuilt.

### The lanes

`LanesLifecycleProofs`, for any number of lanes, consumers and follows and any follow limit:

| Theorem | Says |
|---|---|
| `LanesLimitKept` | no lane is asked to run more follows than its node takes, whatever is in flight on it |
| `LanesSessionsAgree` | between calls, an extra lane is open only for a session on it, nothing is left of a lane that is not open, and a follow that runs or waits has its session |
| `LanesEveryLaneFollows` | between calls, a halt closed every lane and was heard by every consumer there; a pause reached every lane and what ran on it |
| `LanesInvariant` | the invariant behind them |

Two of these are about lanes at rest, so as in the pool the invariant says what the
calls in progress owe. Three parts, over the stack of work a call has left:

* `Underway`: what a step on the stack may rely on when its turn comes. A lane
  picked for a follow is still open and still has room, a consumer to be connected
  is still new, a lane to be shut has no session. It holds because the steps that
  need the lane as it was picked are the next to run (`Ordered`);
* `Held`: a session has its consumer, a follow its session, an extra lane its
  session, and a lane that is not open nothing, each unless a step on the stack is
  there to see to it;
* `Owed`: while a halt or a pause goes on, whoever has not heard of it is
  in what the stack has still to do.

On an empty stack the exceptions are gone and what remains are the properties. The
limit rests on `hasRoom` counting follows in every stage that may still take a place
at the node (`LimitKept` is a part of the invariant, about cardinalities). `Halt`
and `Pause` take the lanes in order, the least first; that there is a least one is well-foundedness of `<`.

### The broker and the transport

`ChainBrokerProofs`, for any number of sessions, requests and events, nodes that
share subscriptions or not, and any follow limit and caps:

| Theorem | Says |
|---|---|
| `BrokerAnswersOnce` | each request has one answer at most, and an open session's is pending until it has |
| `BrokerGoneIsQuiet` | sessions that left and tokens that were released hear nothing more |
| `BrokerLeaksNothing` | what the node runs is held, about to be answered for, or being released |
| `BrokerKeepsLimit` | the node never runs more follows than it takes |
| `BrokerHoldingsAgree` | the books are of open sessions and known subscriptions, within the caps, and nothing leaks |
| `BrokerHeardInOrder` | each subscription's events are heard in the order the node sent them, each once |

The invariant comes in four layers, each proved from those before it:

* `BaseInv`, of the broker's books alone: local tokens are given out once and to
  one session, what is told belongs to whom it is told (`Named`, `Telling`), there
  is one halt (`OneHalt`), and each request is in one place (`Requests`, `Known`);
* `RunsInv` relates the books to the node: a request is read and answered once
  (`Ids`), tokens have one kind and one end (`OneKind`, `Ends`), what runs is cared for
  (`Cared`, which is `NoLeak` with the places a release or answer may be in), and the
  follows that run are among those the broker counts (`Counted`), by an injection
  rather than by counting both;
* `HoldsInv`: the caps of the early events, and whose the held tokens are;
* `HearInv`: an event is heard, in the loop in progress, waiting early for its
  answer, or on its way. `Ordered` says that all events of a subscription in the first of
  these places come before all in the next, in the node's numbering, and `Lined` that each place is
  in order itself; early events belong to no token held yet (`EarlyOwn`) unless the
  loop is just flushing them (`HeldFlushed`).

`BrokerHearingProofs`, for a node that shares no subscription (`~Shares`) and sends no more
events than either cap of early events takes (`MaxEvents <= MaxEarlyTokens`,
`MaxEvents <= MaxEarlyEvents`), and else for any number of sessions, requests and events:

| Theorem | Says |
|---|---|
| `BrokerHearsAll` | what was heard of a subscription is its events from the first, without a gap, and a held one runs at the node or its end is on the way |
| `BrokerMissesNothing` | every event the node sent of a held subscription was heard, is being told in its turn, or waits early or on the way |

That events keep their order says nothing of one that is dropped. What can drop one is a
release, an answer that names its token anew, a cap, or a delivery that finds no holder.
`Singly` excludes the first two for what is *expected*, held or still to be answered for:
one answer names a token, and no release of it is under way. `Few` and `Placed` exclude
the third by counting: no more tokens have events than there were events, and an early
event is never further back in its list than its number. The fourth is `HeldFlushed` and
`Ordered` of `HearInv`: once a token is held, what came early is told before what comes
later. So what a step does not deliver still comes (`Lasts`), and `Whole` follows: with
`Gapless` what was heard is a run from the first, and `TellsNext` says that what is being
told is the next.

`PausableTransportProofs`, for any number of requests, pauses and openings that throw:

| Theorem | Says |
|---|---|
| `TransportKeepsRequests` | each request is answered once or waits in exactly one place, and each connection is sent requests in the consumer's order |
| `TransportHoldingsAgree` | held follows are live or about to be stopped, nothing runs that cannot be released, releases go to the connection that issued their id; where ids stay apart |

`KeepInv` says which queue a request can be in for each phase of the connection
(`Phases`), that queues are sorted (`Lined`), and that what the open connection
answers it has read and answers once (`Channel`): so a late answer of a closed
connection, on top of the one its request gets from the next, is never taken.
`HoldInv` follows one subscription from its issue to its release: a holding of the
open connection is among its opened ids and runs or has its stop on the way
(`Present`); one of an earlier connection has a closed id and, if a follow, its stop
still owed (`Past`); an id in an answer on the way is held by nobody yet and is told
once (`Told`); a release under way is of an id nothing else names (`Released`). `Past`
is where ids matter: a release is answered locally exactly if its id is closed and
not opened again. `TransportHoldingsAgree` assumes `StaysApart`: connections issue
different ids, or there are no watches, the only subscriptions that a pause does not
stop. TLC finds the property violated without it; see the observations of section 7.

### The wire, the remote chains, the frame, the core, the worker

`WireCallsProofs`, for any number of calls, offers, values and closes:

| Theorem | Says |
|---|---|
| `CallsAreHeardInOrder` | a call hears the worker's values from the first, without a gap, and one end |
| `EndedCallsAreQuiet` | a call that ended hears nothing more, and one that ended behind a handshake is never sent |
| `WireCallsAgree` | no open end refuses a message, a subscription is stopped once, and one that still runs for a call that ended has its stop on the way |

The invariant follows one call through the four queues. Its opening is in one
place at a time (`OpensOnce`), so the frame opens it at the worker once. The values are
one stretch of numbers cut in four (`Streams`): heard, on their way to the page,
dropped by the frame after the page stopped, on their way to the frame. A step moves
a cut. `Serving` and `Forwarded` say which ends can be open for that.

A second invariant, `AgreeInv`, is about what each end may be asked. An end hears a
request only once its handshake is over (`Links`), and the page remembers a call as
long as an answer to it may come (`Answered`), so neither refuses. The worker serves a
call once (`ServedOnce`). A stop is behind the opening it stops on either link, or the
opening never gets there (`Stopped`): that is what a stop that overtook its opening would break.

`RemoteChainsProofs`, for any number of connections, requests and timeouts, and any
limit of the scope:

| Theorem | Says |
|---|---|
| `RemoteBooksAgree` | what the page has open the scope serves, and the other way, but for what is on the wire; requests reach the chain in order and without a gap |
| `RemoteAnswersAddUp` | a request is answered at most once, or again after its budget ran out; one told that its chain halted has an answer for all the chain took from it, one told of any halt before the frame accepted it has an answer for all it sent |
| `RemoteGoneIsQuiet` | a connection that is gone is told nothing more, and none of its requests is answered |
| `RemoteInvariant` | the invariant behind them |

It has three layers, each about both ends and the ordered wire between them:

* `EndsInv`: a connection is asked for once and accepted or refused once (`Asked`), and
  what one end has of it the other has too, or the message that says otherwise is on
  its way (`Matched`). A frame that is gone has nothing on the wire (`Gone`);
* `SentInv`: every request is sent once (`Sole`); the first ones of a connection
  reached its chain, and those on their way are the next, in order, behind what is
  still kept (`Kept`, `Lined`). This is where a stop may overtake the sends of its own
  turn: those are lost with the connection, and only from the end;
* `HeardInv`: a request that is still to be answered is kept, on its way, at the chain, or
  its answer is on its way (`Owed`, `Called`), and a connection's answers are ahead of
  its end. The chain's halt answers what it holds in any order, connection by connection
  (`HaltNews`); the proof uses only that each connection's end is its last.

`RemoteAssumption` takes the bounds on connections and requests to be at least one:
connection and request numbers begin there, and 0 marks a message without one.

`FrameSessionProofs`, for any number of frames, callers and config changes:

| Theorem | Says |
|---|---|
| `FramesSound` | no frame in the document is unknown to the books, and none follows a refusal |
| `WaitsAreServed` | a caller gets the frame it waited for, while it is there, or an error |

`FramesAreSound` becomes inductive with `Live` (what the kept and the held frame still
have to do), `Lost` (a loss is of a frame someone still keeps) and `Awaited`
(who waits, waits for the slot's frame). New frames take the least free number; that there
is one is a fact about natural numbers (`NewFrameIsFree`).

`LanesLifecycleProofs`, for any number of requests, products, cores and retries:

| Theorem | Says |
|---|---|
| `CoresHeld` | no core is disposed of under a request that holds it, and one nobody holds is the page's own, for its product, and lingers or replaces one that went down |
| `RuntimesGo` | each runtime that booted, even after its core was let go, is disposed of once |
| `LostAreReplaced` | who hears that its core went down finds another in the page, and no request is given one that went down |

`Books` says that leases and cores keep the same books, `Homes` which core may have
nobody, `Runtimes` what became of each runtime for each state of its core, and `Blank` that a
core not dialed yet has nothing.

`LanesLifecycleProofs` extends `ChainLanes`, `PageCore` and `WorkerLifecycle`, which share
no state (so the specifications of two are named `PageSpec` and `WorkerSpec`). Of the
worker, for any number of tabs and any limit of missed beats, from no assumption on
the constants:

| Theorem | Says |
|---|---|
| `WorkerPause` | while any tab is served, the network is paused exactly when all of them ask for it |
| `WorkerCloses` | the worker closes itself once, failed and not disposed, after everyone heard why, left or fell silent |

The first needs that a tab asks for no pause before it is served: a new tab
resumes the network, which `HandleConnect` does without looking at what it asked
(`Asking`). The second rests on `HearInv`: every tab served still waits to hear,
has its status open, or was told, and a worker that failed has no status open, so
once nobody waits everyone was told. Tabs a beat or a closed port lets go of
leave both conjuncts true of the rest; `LetGoPause` and `LetGoHears` say so once
for both callers.

### The session

`FrameSessionProofs` extends `SessionState` too, which shares no state with
`ProtocolFrame` (its specification is `SessionSpec`). For any number of sessions, of
cores the page dials one after the other, of other tabs' writes, failures and pairings:

| Theorem | Says |
|---|---|
| `NoWaitForever` | a page with nothing under way is not restoring, and is unreachable only if its last read failed |
| `CoreKeeps` | a core's pairing or sign-in on show is replaced by the core's next report or a sign-out the page is told of, and by no read of the copy |
| `SessionTyped` | the state is typed: a core has at most two reads open, whoever answers them |

All three rest on `Books`, which is about the line in which requests run and are
heard, those that wait and the answers on their way as one sequence (`Sent`,
`AskedBefore`): the read, the core and the core's store stand in it once at most and
only while they wait, so an answer finds whoever asked in the state it asked in. The
proof brought out what a single core does not show: a core's requests outlive it, and
what they find must not be taken for the next core's (`Leaves`).

`NoWaitForever` adds `Pends`: a page that restores has the load before it, and one that
is unreachable has a store that is down, a read to come or a read that failed. So a
read that answers, whichever reader made it, either ends the page's wait or queues the
read that will (`HeardReadIs`).

### Only model-checked

* All liveness (`AnswersCome`, `UnheldEnds`, `FailedCloses`, `RequestsEnd`, `LostIsHeard`,
  `DownComesBack`, `WaitsEnd`): fairness and ENABLED are outside this prover's reach.
* The worker's `WorkerTypeOK`, whose `sessions` are filtered by a recursive definition, and
  other results that would need induction over data.
* `ShownIsSaved`, that what the page shows last is the session that is saved. Its
  exceptions are about failures that no reader hears of, and an inductive invariant has
  to carry each of them from the request that fails to the page.
* `CountdownClosesUnleased` without its condition, which is false (`pool_reopen`).

## 7. Findings

1. **A countdown closes a leased chain** (`pool_reopen`,
   `createChainPool.ts:352`). `acquire()` of a paused chain whose reopening fails
   halts it. A halt handler leases and releases the chain anew, so the rebuilt
   entry counts down. `acquire()` then returns *that* entry without clearing its
   timer, and the timer closes the chain under the new lease.
The file's header (lines 5-6) says that an entry closes `destroyDelay` after its
last lease is released, so this is checked as a run of its own. Four nested calls
are needed; the passing run nests three, where all its properties hold with a
failing resume too.

**Observations.** Met while modelling and not backed by a run; the properties say
what holds instead.

* Broker, `createChainBroker.ts:152`: while a broker halts, a session that another
  one's halt handler ended is not in the map any more, so its disconnect changes
  nothing and it still hears its answers, stops and the halt. `brokerMessages.ts:106`
  says that disconnect ends the session. `GoneIsQuiet` leaves sessions of a halting
  broker out.
* Broker, `createChainBroker.ts:389`: after an answer to a follow that does not
  parse, the node runs a follow the broker can neither count nor release.
  `:326`: with a node that shares a subscription between subscribers, the last
  holder's release can cross an answer that names it to another session.
* Lanes, `createChainLanes.ts:362`: a consumer with an overflow follow hears the
  halt from its first lane while a follow on another still waits;
  `docs/chain-connections.md:22` has the answers first. `EveryLaneFollows` asks only
  that each is told in the end.
* Lanes, `createChainLanes.ts:135`: `addLane()` reports the new lane before the
  follow it is for is on it, so a status listener that follows inside the report
  takes its room. The model has listeners that do not call back.
* Transport, `createPausableTransport.ts:179`: an id the open connection issued again
  is not a closed one, so the release of a watch that was held over a pause goes to
  the open connection and ends what has that id there: with such a node
  `HoldingsAgree` fails (`NoLeak` first: the other holder's release is answered
  locally). The transport's test describes the first half ("releasing an id the new
  connection issued again"). Follows are stopped by a pause and transaction watches
  ended by the watch guard, so that leaves operations such as a broadcast.
  `pausable_core` therefore has follows and unpins over re-used ids, and the theorem
  names its condition (`StaysApart`).
* Transport, `createPausableTransport.ts:193`: a `send` that throws leaves its
  request in flight. The transports the repository builds do not throw there.
* Worker, `createWorkerLifecycle.ts:376`: a connect queued when the worker closes
  itself is dropped; the tab's own ready timeout answers it.
* Pool, `createChainPool.ts:391`: a session whose disconnect throws leaves its
  lease counted, as the known limits of `docs/chain-connections.md` say.
* Remote chains, `createRemoteChains.ts:86-88` against `:18-19`: the comment says
  that at a chain's halt "every request in flight or unsent gets an error", but a
  send on its way to the frame when the halt comes back is refused there and the
  refusal dropped here, so nobody answers it. The code and its comment disagree;
  `AnswersAddUp` speaks of the requests the chain had, and passes beside it.
* Pool, `createChainPool.ts:399` and `:534-537`: ending the watchers' follow may throw,
  out of a release before its report and its idle check, or out of the last `unwatch`
  before the other entries' turn. The first leaves an entry nobody leases open with no
  countdown, until it is leased and released again; the second leaves a follow without
  watchers. `NothingIsStranded` and `WatchingIsCurrent` leave such an entry out (`cut`).
* Session state, `createSessionState.ts:86`: the comment says that "a read that started
  before the store changed is never the last word". It may be. A read of the copy finds
  a session while the core reports the same one; another tab signs out, which the copy
  does not read again for, as the core's report is on show; the core reads too and
  reports its sign-out; the read, which still waits for the cached account, then shows
  the session again, as the copy may by now. `ShownIsSaved` leaves such a page out
  (`whence = "crossed"`); without that TLC finds these steps.
* Session state, `createCoreStorage.ts:313`: a drop of the session that fails while the
  store is up leaves the core without a session and the session saved, and on a page
  that owns the flag the flag too, so the next load signs in again. A write that
  runs but is answered too late does the same to a sign-in. No change is told, so no reader of the page
  reads again. `ShownIsSaved` leaves out a core that has not read since (`lost`).
* Session state, `createSessionState.ts:325`: a core whose own read failed reports
  a sign-out; if another reader's read was answered since, the page takes it for
  one. `ShownIsSaved` leaves such a core out (`misled`).
* Page core, `createPageCore.ts:257`: a redial that gives up with nobody holding
  it stays the page's core, faulted, until the next request, so `onCoresGone` is
  not told until then. `UnheldServes` exempts a redial.

## 8. What the modules leave out

* Everything whose component is `not_modelled` in `PROJECT.json`, with a reason
  each: presentation, telemetry, configuration and pure decoding on one side, and
  the parts of the plan below on the other.
* Data: encodings, wording, logging, identities of methods beyond the classes
  the code tells apart.
* `ChainPool`: status listeners and watchers are told but do not call the pool from
  inside the report; `watch` and `unwatch` are called between turns. Holders and halt
  handlers call it from inside. Within `acquire`, `lanes.resume` with its deliveries is
  one step.
* `ChainBroker`: opened and closed upstream are one (a send to a closed one
  fails and is answered here); a watch without an id and malformed session
  messages, which are answered on the spot, do not occur, and the node never answers
  from inside a send. Properties about the
  node's load except follows whose answer did not parse (`node.lost`).
  `HeldIsLive` and the rest of `HeardAll` are checked and proved only for nodes that do
  not share subscriptions, and that send no more events than the early events have
  room for: past its caps the broker drops early events by design.
* `PausableTransport`: requests without ids, the wrapped statement replay
  library, and a transport whose `send` throws.
* `ChainLanes`: the watch guard's `dropped` deliveries are only points at which
  consumers act, and consumers may act slightly before the first delivery of a
  pause or halt, which allows more than the code does.
* `WorkerLifecycle`: what the network is told while the worker closes, beats the
  worker sends to tabs, connects still queued when it closes (the browser drops
  them), the engine's methods and the pre-sync's chain work.
* `WireCalls`: codecs (a message may fail to decode on the page), ids and their
  wrapping, the bound on the ids remembered as ended, issue reports, and the
  debug tap. One page; each end closes at most once.
* `RemoteChains`: the engine's name reads and warm-up, statistics, and the length of
  budgets. Connections are to one chain, since the books keep no more than that.
* `ProtocolFrame`: reports and metrics, the frame's URL and attributes, and the
  length of its budgets: any wait may run out whenever it runs.
* `PageCore`: connections' providers and the phone requests tapped on them, prompts'
  scopes, `cancelPairing` and `resetSession`, which call into every core and change
  nothing here; what is told through `onCoresGone` is `SessionState!CoresGone`.
  A store change that finds a core stale is one of the causes of `GoesDown`.
* `SessionState`: a local wallet's page, the offer of a sign-in made elsewhere, the
  other slots of core storage, dispose. Another tab sets and clears the signed-in flag
  with the session in one step, and no change of the flag alone is heard. A framed
  preview, whose flag is not the site's, is not told apart. A request that failed for
  being late has run by then or never does; the code cannot call it back. A write of the
  session that is already saved, which changes nothing, does not occur.

## 9. Plan

The order puts first what every page depends on; the layers above the host pool
come last.

| Step | Modules | What they are to show |
|---|---|---|
| 1 (done) | `ChainPool`, `ChainLeases`, `ChainPoolProofs` | leases, halts, countdowns; the invariants proved |
| 2 (done) | `ChainBroker`, `PausableTransport`, `ChainLanes` | the path of a request, under pauses and halts |
| 3 (done) | `WorkerLifecycle`, its part of `LanesLifecycleProofs` | who keeps the worker and the network up; the pause and the close proved |
| 4 (done) | `ChainPoolProofs`, second part | `ChainPool` implements `ChainLeases`: each step a step or a stutter. A lease is in at most one halt on the stack, and its entry is then dead |
| 5 (done) | `LanesLifecycleProofs`, first part | `LimitKept`, `SessionsAgree`, `EveryLaneFollows` for any number of lanes and any follow limit |
| 6 (done) | `WireCalls`, `RemoteChains`, `ProtocolFrame` | a call ends once whichever end closes first; both books of a connection agree; the frame is rebuilt under its callers |
| 7 (done) | `PageCore`, `SessionState` | a core's leases over faults; one page's sign-in among several writers |
| 8 (done) | `LanesLifecycleProofs`, `FrameSessionProofs`, `WireCallsProofs`, `ChainBrokerProofs`, `BrokerHearingProofs`, `PausableTransportProofs`, `RemoteChainsProofs` | what each module's runs check of its safety, for any number of what it counts |
| 9 | watch guard, light client | a watch ends exactly once; a failed client halts every chain |
| 10 | chain connect and redial, network pause, shared store | one redial per loss; a hidden page's delay against visibility; writers of several tabs |
| 11 | sign-in window handoff, site rounds | a round ends once, whichever window closes |
