---------------------------- MODULE SessionState ----------------------------
(***************************************************************************)
(* What one page shows of its sign-in (createSessionState.ts): the saved    *)
(* copy's session, read one read at a time, or what the page's core         *)
(* reports.  Reads go through the restore rule of the load (restoreRule.ts, *)
(* createWalletBoot.ts) and through core storage (createCoreStorage.ts) to  *)
(* the shared store.                                                        *)
(*                                                                          *)
(* A request is sent, runs at the store and is answered in three turns, so  *)
(* other tabs write and the core reports in between.  Requests run in the   *)
(* order they were sent, and their answers and the changes the frame relays *)
(* come back over one port, in order.  A request fails when the frame goes  *)
(* down, is refused, or times out, and may have run when it does.           *)
(*                                                                          *)
(* External: the shared store and its status, the other tabs, and the core, *)
(* which reads and follows the saved session and reports what it read, or   *)
(* what became of a pairing, when it likes.  The page is in paired mode: a  *)
(* local wallet's page reads no session.  What its core stores or drops     *)
(* goes through the page's flag keeper (signInFlag.ts), which owns the      *)
(* signed-in flag on a page over the main store and only deletes it         *)
(* elsewhere.                                                               *)
(***************************************************************************)
EXTENDS Naturals, Sequences, FiniteSets

CONSTANTS Sessions, NoSession, Failed,
          MaxWrites, \* bound on the other tabs' writes
          MaxCores,  \* bound on the cores the page dials
          MaxFails,  \* bound on the outages, the requests that fail while the store is up, and the failed wallet reads
          MaxEvents, \* bound on what else happens: the user pairs, the phone ends a session, and the page is told of a
                     \* sign-out or a failure
          MaxTogether \* bound on all of these together

ASSUME SessionAssumption ==
  /\ NoSession \notin Sessions /\ Failed \notin Sessions \cup {NoSession}
  /\ {MaxWrites, MaxCores, MaxFails, MaxEvents, MaxTogether} \subseteq Nat

VARIABLES saved, up,       \* the saved session, and the store's status
          out, casts,      \* the page's requests that wait to run, and the changes the frame is to hear of other tabs
          inbox,           \* the answers and changes on their way to the page
          flag,            \* whether the signed-in flag is set, and whether the page owns it
          auth,            \* what the page shows, and of which session
          speaker, report, \* who speaks for the page, and the core's own last report
          readFailed,      \* whether the last session read failed (lastReadFailed)
          queue, run,      \* the reads of the saved session that wait, and the one that runs
          kept,            \* what of the restore is kept for the page: nothing, that the wallet was read, or all of it
          core,            \* the page's core
          whence,          \* where what the page shows is from: a read or report, what it was told, a read out of
                           \* date, or a read before one that failed
          left             \* what is left of the bounds

wires == <<out, casts, inbox>>
shown == <<auth, whence>>
reads == <<readFailed, queue, run, kept>>
sessionVars == <<saved, up, wires, flag, shown, speaker, report, reads, core, left>>

Saved == Sessions \cup {NoSession}
OpenTags == {"Disconnected", "LoginFailed", "Unreachable"}
Tags == OpenTags \cup {"Restoring", "Connected", "Pairing", "Authenticating"}
State(tag) == [tag |-> tag, of |-> NoSession]
Connected(b) == [tag |-> "Connected", of |-> b]

NoReport == State("none")
NoRun == [kind |-> "none", at |-> "none", got |-> NoSession, flag |-> TRUE, crossed |-> FALSE]
\* blind: its last session read failed. misled: it then reported itself signed out. lost: a write or a drop of the
\* page failed since it last read, so it is not told what is saved.
NoCore == [on |-> FALSE, sees |-> NoSession, doomed |-> NoSession, blind |-> FALSE, misled |-> FALSE, lost |-> FALSE,
           owes |-> FALSE, reads |-> 0, login |-> "no"]

\* Who asks the store: the read that runs, the core, a core that is gone since, or the core that stores or drops and
\* its flag keeper.
Askers == {"run", "core", "gone", "store"}

SessionTypeOK ==
  /\ saved \in Saved /\ up \in {"connecting", "available", "unavailable"}
  /\ flag \in [set : BOOLEAN, owned : BOOLEAN]
  /\ out \in Seq(Askers) /\ casts \in 0 .. MaxWrites
  /\ inbox \in Seq([who : Askers \cup {"cast"}, val : Saved \cup {Failed}])
  /\ auth \in [tag : Tags, of : Saved] /\ report \in [tag : Tags \cup {"none"}, of : Saved]
  /\ speaker \in {"copy", "core"} /\ readFailed \in BOOLEAN /\ kept \in {"nothing", "wallet", "all"}
  /\ whence \in {"read", "told", "crossed", "unread"}
  /\ queue \in Seq({"load", "read", "retry"})
  /\ run \in [kind : {"none", "load", "read", "retry"}, got : Saved, flag : BOOLEAN, crossed : BOOLEAN,
              at : {"none", "rule", "wallet", "unread", "drop", "cache", "session", "account"}]
  /\ core \in [on : BOOLEAN, sees : Saved, doomed : Saved, blind : BOOLEAN, misled : BOOLEAN, lost : BOOLEAN,
               owes : BOOLEAN, reads : 0 .. 2,
               login : {"no", "pairing", "auth", "writing", "dropping", "clearing", "keeping"}]

SessionInit ==
  /\ saved \in Saved /\ up = "connecting" /\ out = <<>> /\ casts = 0 /\ inbox = <<>>
  /\ flag \in [set : BOOLEAN, owned : BOOLEAN]
  /\ auth = State("Restoring") /\ speaker = "copy" /\ report = NoReport /\ whence = "read"
  /\ readFailed = FALSE /\ queue = <<"load">> /\ run = NoRun /\ kept = "nothing" /\ core = NoCore
  /\ left = [writes |-> MaxWrites, cores |-> MaxCores, events |-> MaxEvents, fails |-> MaxFails]

\* What of the bounds is spent.
Spent == (MaxWrites + MaxCores + MaxEvents + MaxFails) - (left.writes + left.cores + left.events + left.fails)
Spend(what) == left[what] > 0 /\ Spent < MaxTogether /\ left' = [left EXCEPT ![what] = @ - 1]

\* A read starts in the turn that queued it, or that ended the one before.
ReadsStarted == run.kind = "none" => queue = <<>>

\* A request that failed is heard in the turn it fails in, ahead of what is still on its way.
TurnOver == ReadsStarted /\ (inbox # <<>> => Head(inbox).val # Failed)

Show(next) == auth' = next /\ whence' = "read"

\* The saved copy may show what it reads (isCopyAllowedToShow).
Allowed == speaker = "copy" \/ auth.tag \in OpenTags \/ report.tag \in OpenTags

(***************************************************************************)
(* The store and the changes it tells                                       *)
(***************************************************************************)
\* Mutant of HeardRead: a read that answers says nothing to a page that waits for one.
HeardRead_deaf(failed) == UNCHANGED queue

\* A session read that answered may end Unreachable (subscribeSessionReads).
HeardRead(failed) == queue' = IF ~failed /\ auth.tag = "Unreachable" THEN Append(queue, "retry") ELSE queue

\* Mutant of Rereads: a change during a read is left to that read.
Rereads_busy ==
  /\ queue' = IF Allowed /\ run.kind = "none" THEN Append(queue, "read") ELSE queue
  /\ run' = [run EXCEPT !.crossed = @ \/ (run.kind # "none" /\ ~Allowed)]

\* The saved session changed (subscribeStoredSession). The page reads it again, after the read that runs.
Rereads ==
  /\ queue' = IF Allowed THEN Append(queue, "read") ELSE queue
  /\ run' = [run EXCEPT !.crossed = @ \/ (run.kind # "none" /\ ~Allowed)]

\* Its core reads it too, once at a time, and once more after a read that a change crossed.
Notified(c) == IF c.on /\ c.reads < 2 THEN [c EXCEPT !.reads = @ + 1] ELSE c

Heard == Rereads /\ core' = Notified(core)

CoreAsks(requests) == IF core.on /\ core.reads = 0 THEN Append(requests, "core") ELSE requests

Answer(who, b) == inbox' = Append(inbox, [who |-> who, val |-> b])

Arrives(who) == ReadsStarted /\ inbox # <<>> /\ Head(inbox).who = who /\ inbox' = Tail(inbox)

\* Another tab signs in or out. The frame hears of it later, and relays it.
OtherTab ==
  /\ TurnOver /\ Spend("writes") /\ \E b \in Saved \ {saved} : saved' = b /\ flag' = [flag EXCEPT !.set = (b # NoSession)]
  /\ casts' = IF up = "available" THEN casts + 1 ELSE casts
  /\ UNCHANGED <<up, out, inbox, shown, speaker, report, reads, core>>

Relay ==
  /\ TurnOver /\ casts > 0 /\ casts' = casts - 1 /\ Answer("cast", NoSession)
  /\ UNCHANGED <<saved, up, out, flag, shown, speaker, report, reads, core, left>>

HearCast ==
  /\ Arrives("cast") /\ Heard /\ out' = CoreAsks(out)
  /\ UNCHANGED <<saved, up, casts, flag, shown, speaker, report, readFailed, kept, left>>

\* The places of a set, the first one first.
InOrder(S) == {s \in [1 .. Cardinality(S) -> S] : \A n, m \in DOMAIN s : n < m => s[n] < s[m]}

\* The frame goes down: the requests in flight fail, whether they ran or not, and a page that is not signed in waits for
\* the store (markUnreachable).
GoDown ==
  /\ TurnOver /\ up # "unavailable" /\ Spend("fails") /\ up' = "unavailable" /\ casts' = 0 /\ out' = <<>>
  /\ LET whos == [i \in DOMAIN inbox |-> inbox[i].who] \o out
     IN \E asked \in InOrder({i \in DOMAIN whos : whos[i] # "cast"}) :
          inbox' = [n \in DOMAIN asked |-> [who |-> whos[asked[n]], val |-> Failed]]
  /\ IF auth.tag \in {"Restoring", "Disconnected"} THEN Show(State("Unreachable")) ELSE UNCHANGED shown
  /\ UNCHANGED <<saved, flag, speaker, report, reads, core>>

\* A frame listens. A store that comes back is a change.
ComeUp ==
  /\ TurnOver /\ up # "available" /\ up' = "available"
  /\ IF up = "unavailable" THEN Heard /\ out' = CoreAsks(out) ELSE UNCHANGED <<queue, run, core, out>>
  /\ UNCHANGED <<saved, casts, inbox, flag, shown, speaker, report, readFailed, kept, left>>

\* What the store does with the request of who, which it answers with b: a read, a drop of the session its sender saw
\* while it is still that one, or the write of a session not there yet.
TakesEffect(who, b) ==
  LET doomed == IF who = "run" THEN run.got ELSE core.doomed
  IN CASE (who = "run" /\ run.at = "drop") \/ (who = "store" /\ core.login = "dropping") ->
            /\ saved' = (IF saved = doomed THEN NoSession ELSE saved)
            /\ b = (IF saved = doomed THEN saved ELSE NoSession)
       [] who = "store" /\ core.login = "writing" -> b \in Sessions \ {saved} /\ saved' = b
       [] OTHER -> b = saved /\ UNCHANGED saved

\* The store runs the page's oldest request.
Serve ==
  /\ TurnOver /\ up = "available" /\ out # <<>> /\ out' = Tail(out)
  /\ \E b \in Saved : TakesEffect(Head(out), b) /\ Answer(Head(out), b)
  /\ UNCHANGED <<up, casts, flag, shown, speaker, report, reads, core, left>>

\* The page's oldest request is refused, or is not answered in time, as no frame is up or although one is, which may
\* have run it. What was on its way before was heard long since.
TimeOut ==
  /\ TurnOver /\ inbox = <<>> /\ out # <<>> /\ out' = Tail(out) /\ Answer(Head(out), Failed)
  /\ \/ up # "available" /\ UNCHANGED <<saved, left>>
     \/ up = "available" /\ Spend("fails") /\ (UNCHANGED saved \/ \E b \in Saved : TakesEffect(Head(out), b))
  /\ UNCHANGED <<up, casts, flag, shown, speaker, report, reads, core>>

(***************************************************************************)
(* A read of the saved session                                              *)
(***************************************************************************)
\* The state a page shows once the copy withdraws its sign-in.
Withdrawn == IF report.tag \in {"none", "Unreachable"} THEN State("Disconnected") ELSE report

\* Mutant of Finish: the copy shows what it read whoever speaks by now.
Finish_late(raw) ==
  /\ run' = NoRun
  /\ CASE raw # NoSession -> Show(Connected(raw))
       [] raw = NoSession /\ speaker = "core" /\ ~readFailed' /\ auth.tag = "Connected" -> Show(Withdrawn)
       [] raw = NoSession /\ auth.tag \in {"Restoring", "Unreachable"} ->
            Show(State(IF readFailed' THEN "Unreachable" ELSE "Disconnected"))
       [] OTHER -> UNCHANGED auth /\ whence' = (IF readFailed' THEN "unread" ELSE whence)

\* The read ends: the copy shows what it found, if it still may (applySavedSession).
Finish(raw) ==
  /\ run' = NoRun
  /\ CASE ~Allowed -> UNCHANGED shown
       [] Allowed /\ raw # NoSession ->
            auth' = Connected(raw) /\ whence' = (IF run.crossed THEN "crossed" ELSE "read")
       [] Allowed /\ raw = NoSession /\ speaker = "core" /\ ~readFailed' /\ auth.tag = "Connected" -> Show(Withdrawn)
       [] Allowed /\ raw = NoSession /\ auth.tag \in {"Restoring", "Unreachable"} ->
            Show(State(IF readFailed' THEN "Unreachable" ELSE "Disconnected"))
       [] OTHER -> UNCHANGED auth /\ whence' = (IF readFailed' THEN "unread" ELSE whence)

\* The next read starts, one at a time, unless there is nothing it may show. It waits for the restore first.
StartRead ==
  /\ run.kind = "none" /\ queue # <<>> /\ queue' = Tail(queue)
  /\ LET kind == Head(queue) IN
     IF ~Allowed \/ (kind = "retry" /\ auth.tag # "Unreachable") THEN UNCHANGED <<run, out>>
     ELSE /\ run' = [kind |-> kind, at |-> IF kept = "all" THEN "session" ELSE "rule", got |-> NoSession,
                   flag |-> flag.set \/ kept = "all", crossed |-> FALSE]
          /\ out' = Append(out, "run")
  /\ UNCHANGED <<saved, up, casts, inbox, flag, shown, speaker, report, readFailed, kept, core, left>>

\* The restore is over. The load shows what the rule left, any other read goes on to its own.
Restored(raw, requests) ==
  IF run.kind = "load" THEN Finish(raw) /\ out' = requests
  ELSE /\ run' = [run EXCEPT !.at = "session", !.got = NoSession, !.flag = TRUE] /\ out' = Append(requests, "run")
       /\ UNCHANGED shown

\* The restore rule's session read is answered. The rule waits for its wallet read too.
RuleReads ==
  /\ run.at = "rule" /\ Arrives("run")
  /\ LET got == Head(inbox).val
         failed == got = Failed
     IN /\ readFailed' = failed /\ HeardRead(failed)
        /\ run' = [run EXCEPT !.at = IF failed THEN "unread" ELSE "wallet", !.got = IF failed THEN NoSession ELSE got]
  /\ UNCHANGED <<saved, up, out, casts, flag, shown, speaker, report, kept, core, left>>

\* What the page keeps of a restore: a wallet that was read, once, and all of it once the session was read with it.
Remembers(wallet, session) == IF ~wallet THEN "nothing" ELSE IF session THEN "all" ELSE "wallet"

\* A wallet read is answered, or fails.
WalletRead(answered) == IF answered \/ up # "available" THEN UNCHANGED left ELSE Spend("fails")

\* The wallet read is answered too, or failed. A session stored with no flag, which is read again, is dropped.
RuleDecides ==
  /\ TurnOver /\ run.at \in {"wallet", "unread"} /\ UNCHANGED readFailed
  /\ \E answered \in BOOLEAN :
       LET wallet == answered \/ kept = "wallet" IN
       /\ WalletRead(answered)
       /\ IF run.got \in Sessions /\ ~run.flag /\ ~flag.set
          THEN /\ run' = [run EXCEPT !.at = "drop"] /\ out' = Append(out, "run") /\ UNCHANGED shown
               /\ kept' = Remembers(wallet, FALSE)
          ELSE kept' = Remembers(wallet, run.at = "wallet") /\ Restored(run.got, out)
  /\ UNCHANGED <<saved, up, casts, inbox, flag, speaker, report, queue, core>>

\* The drop is answered, or failed: the page goes on with no session. One that cleared it clears the cached account too,
\* and is then a change of its own (dropSessionIf).
RuleDropped ==
  /\ run.at = "drop" /\ Arrives("run") /\ UNCHANGED readFailed
  /\ core' = [core EXCEPT !.lost = @ \/ (core.on /\ Head(inbox).val = Failed)]
  /\ IF Head(inbox).val \in Sessions
     THEN run' = [run EXCEPT !.at = "cache"] /\ out' = Append(out, "run") /\ UNCHANGED <<shown, kept>>
     ELSE kept' = Remembers(kept = "wallet", TRUE) /\ Restored(NoSession, out)
  /\ UNCHANGED <<saved, up, casts, flag, speaker, report, queue, left>>

RuleCleared ==
  /\ run.at = "cache" /\ Arrives("run") /\ UNCHANGED readFailed /\ kept' = Remembers(kept = "wallet", TRUE)
  /\ queue' = (IF Allowed THEN Append(queue, "read") ELSE queue) /\ core' = Notified(core)
  /\ Restored(NoSession, CoreAsks(out))
  /\ UNCHANGED <<saved, up, casts, flag, speaker, report, left>>

\* The read's own session read is answered. The cached account is read after it.
SessionRead ==
  /\ run.at = "session" /\ Arrives("run")
  /\ LET got == Head(inbox).val
         failed == got = Failed
     IN /\ readFailed' = failed /\ HeardRead(failed)
        /\ IF got \in Sessions
           THEN run' = [run EXCEPT !.at = "account", !.got = got] /\ out' = Append(out, "run") /\ UNCHANGED shown
           ELSE Finish(NoSession) /\ UNCHANGED out
  /\ UNCHANGED <<saved, up, casts, flag, speaker, report, kept, core, left>>

\* The cached account is there, or is not: without it the session is shown with no name.
AccountRead ==
  /\ run.at = "account" /\ Arrives("run") /\ UNCHANGED readFailed /\ Finish(run.got)
  /\ UNCHANGED <<saved, up, out, casts, flag, speaker, report, queue, kept, core, left>>

(***************************************************************************)
(* The core                                                                 *)
(***************************************************************************)
\* What the core reports is what the page shows, and is kept as the core's own report (reportCore).
Report(next) == speaker' = "core" /\ report' = next /\ Show(next)

\* A core is dialed once the restore told it the wallet. It reads the session, and once more when it follows the store.
CoreBoots ==
  /\ TurnOver /\ ~core.on /\ Spend("cores") /\ run.kind # "load"
  /\ core' = [NoCore EXCEPT !.on = TRUE, !.reads = 2] /\ out' = Append(out, "core")
  /\ UNCHANGED <<saved, up, casts, inbox, flag, shown, speaker, report, reads>>

\* The core's read is answered. It takes a read that failed for no session. What a core asked that is gone since is
\* answered too, and is no other core's answer.
CoreReads ==
  /\ Arrives("core") \/ Arrives("gone")
  /\ LET failed == Head(inbox).val = Failed
         b == IF failed THEN NoSession ELSE Head(inbox).val
     IN /\ readFailed' = failed /\ HeardRead(failed)
        /\ IF Head(inbox).who = "core"
           THEN /\ core' = [core EXCEPT !.reads = @ - 1, !.sees = b, !.blind = failed, !.lost = @ /\ failed,
                                        !.owes = @ \/ b # core.sees \/ speaker = "copy"]
                /\ out' = IF core.reads = 2 THEN Append(out, "core") ELSE out
           ELSE UNCHANGED <<core, out>>
  /\ UNCHANGED <<saved, up, casts, flag, shown, speaker, report, run, kept, left>>

\* A core with no session signed out, unless the store could not be read.
DisconnectedReport == State(IF readFailed THEN "Unreachable" ELSE "Disconnected")

\* The core reports the session it sees, or none, in a later turn (reportCoreAuthState).
CoreReports ==
  /\ TurnOver /\ core.on /\ core.owes /\ core.login \in {"no", "pairing", "auth"}
  /\ core.sees = NoSession => core.login = "no"
  /\ core' = [core EXCEPT !.owes = FALSE, !.login = "no", !.misled = core.blind /\ ~readFailed]
  /\ Report(IF core.sees # NoSession THEN Connected(core.sees) ELSE DisconnectedReport)
  /\ UNCHANGED <<saved, up, wires, flag, reads, left>>

\* The user pairs on a page shown signed out.
CorePairs ==
  /\ TurnOver /\ core.on /\ core.login = "no" /\ core.sees = NoSession /\ ~core.owes /\ core.reads = 0
  /\ auth.tag \in {"Disconnected", "LoginFailed"} /\ Spend("events")
  /\ core' = [core EXCEPT !.login = "pairing"] /\ Report(State("Pairing"))
  /\ UNCHANGED <<saved, up, wires, flag, reads>>

CoreAuthenticates ==
  /\ TurnOver /\ core.login = "pairing" /\ core' = [core EXCEPT !.login = "auth"] /\ Report(State("Authenticating"))
  /\ UNCHANGED <<saved, up, wires, flag, reads, left>>

\* The pairing fails, or the user cancels it. A session the core came to see meanwhile ends it in CoreReports.
CoreFails ==
  /\ TurnOver /\ core.login \in {"pairing", "auth"} /\ core.sees = NoSession
  /\ core' = [core EXCEPT !.login = "no", !.misled = core.blind /\ ~readFailed]
  /\ \E next \in {State("LoginFailed"), DisconnectedReport} : Report(next)
  /\ UNCHANGED <<saved, up, wires, flag, reads, left>>

\* The pairing is through, or the phone ended the session: the core stores the one, whose flag is set first by a page
\* that owns it, or drops the other.
CoreStores ==
  /\ TurnOver /\ out' = Append(out, "store")
  /\ \/ /\ core.login = "auth" /\ core' = [core EXCEPT !.login = "writing"] /\ UNCHANGED left
        /\ flag' = [flag EXCEPT !.set = @ \/ flag.owned]
     \/ /\ core.on /\ core.login = "no" /\ core.sees # NoSession /\ ~core.owes /\ Spend("events")
        /\ core' = [core EXCEPT !.login = "dropping", !.doomed = core.sees, !.sees = NoSession]
        /\ UNCHANGED flag
  /\ UNCHANGED <<saved, up, casts, inbox, shown, speaker, report, reads>>

\* The core's write or drop is over, and the core has something to report.
Stored(c) == [c EXCEPT !.login = "no", !.owes = TRUE, !.doomed = NoSession]

\* The flag keeper reads what is saved before it settles the flag (dropIfEmpty, dropFlag).
KeeperAsks(c, requests) == core' = [c EXCEPT !.login = "keeping"] /\ out' = Append(requests, "store")

\* The drop cleared the session. Its cached account is cleared next.
SessionDropped ==
  /\ core.login = "dropping" /\ Head(inbox).val \in Sessions
  /\ core' = [core EXCEPT !.login = "clearing"] /\ out' = Append(out, "store")
  /\ UNCHANGED <<flag, readFailed, queue, run, left>>

\* A change of the page's own. A page that does not own the flag deletes it.
AccountCleared ==
  /\ core.login = "clearing" /\ Rereads /\ KeeperAsks(Notified(core), CoreAsks(out))
  /\ flag' = [flag EXCEPT !.set = @ /\ flag.owned] /\ UNCHANGED <<readFailed, left>>

SessionWritten ==
  /\ core.login = "writing" /\ Head(inbox).val # Failed /\ Rereads /\ out' = CoreAsks(out)
  /\ core' = Notified([Stored(core) EXCEPT !.sees = Head(inbox).val, !.blind = FALSE])
  /\ flag' = [flag EXCEPT !.set = @ \/ flag.owned] /\ UNCHANGED <<readFailed, left>>

\* A write that failed ends the pairing. A drop finds another session, or fails, and a page that does not own the flag
\* then deletes it. The owner reads what is saved, but not after a failed drop.
NothingStored ==
  LET failed == Head(inbox).val = Failed
      c == [core EXCEPT !.lost = @ \/ failed]
  IN /\ \/ core.login = "writing" /\ failed
        \/ core.login = "dropping" /\ Head(inbox).val \notin Sessions
     /\ IF flag.owned /\ (core.login = "writing" \/ ~failed)
        THEN KeeperAsks(c, out) ELSE core' = Stored(c) /\ UNCHANGED out
     /\ flag' = [flag EXCEPT !.set = @ /\ (flag.owned \/ core.login = "writing" \/ ~failed)]
     /\ run' = [run EXCEPT !.crossed = @ \/ (failed /\ run.kind # "none")]
     /\ UNCHANGED <<readFailed, queue, left>>

\* The keeper's read is answered. The owner deletes the flag once nothing is saved, unless its wallet read failed, and
\* any other page sets it again for a session saved since.
KeeperReads ==
  LET got == Head(inbox).val  failed == got = Failed IN
  /\ core.login = "keeping" /\ readFailed' = failed /\ HeardRead(failed)
  /\ core' = Stored(core)
  /\ \E answered \in BOOLEAN :
       /\ WalletRead(answered)
       /\ flag' = [flag EXCEPT !.set = IF flag.owned THEN @ /\ ~(got = NoSession /\ answered) ELSE @ \/ got \in Sessions]
  /\ UNCHANGED <<out, run>>

\* The core's write or drop, or its flag keeper's read, is answered.
CoreStored ==
  /\ Arrives("store")
  /\ SessionDropped \/ AccountCleared \/ SessionWritten \/ NothingStored \/ KeeperReads
  /\ UNCHANGED <<saved, up, casts, shown, speaker, report, kept>>

Leaves(who) == IF who = "core" THEN "gone" ELSE who

\* The page's last core goes, which no pairing leases: the copy speaks again, and is read at once (reportCoresGone).
CoresGone ==
  /\ TurnOver /\ core.on /\ core.login = "no" /\ core' = NoCore
  /\ out' = [i \in DOMAIN out |-> Leaves(out[i])]
  /\ inbox' = [i \in DOMAIN inbox |-> [inbox[i] EXCEPT !.who = Leaves(@)]]
  /\ speaker' = "copy" /\ report' = NoReport /\ queue' = Append(queue, "read")
  /\ UNCHANGED <<saved, up, casts, flag, shown, readFailed, run, kept, left>>

(***************************************************************************)
(* What the page is told                                                    *)
(***************************************************************************)
\* The page signed out with no core to report it, or a login failed before a core could.
Told ==
  /\ TurnOver /\ Spend("events") /\ whence' = "told"
  /\ \/ ~core.on /\ auth' = State("Disconnected")
     \/ (auth.tag \in {"Disconnected", "LoginFailed"} /\ auth' = State("LoginFailed"))
  /\ UNCHANGED <<saved, up, wires, flag, speaker, report, reads, core>>

\* The user comes back to a page shown as unreachable, or asks to read again.
RetryRead ==
  /\ TurnOver /\ run.kind = "none" /\ auth.tag = "Unreachable" /\ up # "available"
  /\ queue' = Append(queue, "retry")
  /\ UNCHANGED <<saved, up, wires, flag, shown, speaker, report, readFailed, run, kept, core, left>>

Reads == StartRead \/ RuleReads \/ RuleDecides \/ RuleDropped \/ RuleCleared \/ SessionRead \/ AccountRead
Heeds == HearCast \/ CoreReads \/ CoreStored

SessionNext ==
  \/ Reads \/ Heeds \/ Serve \/ TimeOut
  \/ OtherTab \/ Relay \/ GoDown \/ ComeUp
  \/ CoreBoots \/ CoreReports \/ CorePairs \/ CoreAuthenticates \/ CoreFails \/ CoreStores \/ CoresGone
  \/ Told \/ RetryRead

SessionSpec == SessionInit /\ [][SessionNext]_sessionVars

(***************************************************************************)
(* Properties                                                               *)
(***************************************************************************)
\* Nothing is under way, so what the page shows is the last word.
Quiet ==
  /\ run.kind = "none" /\ queue = <<>> /\ out = <<>> /\ casts = 0 /\ inbox = <<>> /\ up = "available"
  /\ core.reads = 0 /\ ~core.owes /\ core.login = "no"

\* What is shown is what is saved, in a page that is told nothing more: the saved session, unless the core's last
\* pairing failed, and, on a core's page, none once none is saved.
Current ==
  /\ (saved # NoSession /\ flag.set /\ auth.tag # "LoginFailed" => auth = Connected(saved))
  /\ (saved = NoSession /\ speaker = "core" => auth.tag # "Connected")

\* Once everything was heard, a page whose last read was answered shows the session that is saved, whichever of its
\* copy and its core showed it, and a sign-in the copy showed for a core is withdrawn. Left out are what the page was
\* told since, a copy whose last read failed, a core that took a failed read for a sign-out, a read that crossed a
\* change the page does not read again for, and a core that has not read since a write or a drop of the page failed.
ShownIsSaved == Quiet /\ ~readFailed /\ whence = "read" /\ ~core.misled /\ ~core.lost => Current

\* While the core's own pairing or sign-in is on show, only the core's next report, or a sign-out the page is told of,
\* takes its place: a read of the copy that was sent before it lands without effect.
CoreKeepsThePage ==
  [][speaker = "core" /\ auth = report /\ report.tag \in {"Pairing", "Authenticating", "Connected"} /\ auth' # auth =>
       report' = auth' \/ whence' = "told"]_sessionVars

\* Unreachable ends with a read that answers, whichever reader made it, and the load's read ends Restoring: neither is
\* the last word of a page that has nothing under way (subscribeSessionReads, markUnreachable).
WaitingEnds == Quiet => auth.tag # "Restoring" /\ (auth.tag = "Unreachable" => readFailed)

\* What a page with nothing under way shows is the saved session, and it waits for no read that nobody makes
\* (readAndApply, reportCoreAuthState).
PageSettles == SessionTypeOK /\ WaitingEnds /\ ShownIsSaved

=============================================================================
