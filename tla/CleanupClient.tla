--------------------------- MODULE CleanupClient ---------------------------
(***************************************************************************)
(* The cleanup page of production (GmailCleanupClient.tsx with              *)
(* adaptive-polling.ts, cleanup-availability-events.ts and                  *)
(* useCleanupCreditRefresh.ts): one browser tab whose requests, status      *)
(* polls and refreshes are answered late or never, while the server's jobs  *)
(* go on. An answer changes the state of the page at once; the effects      *)
(* follow when React commits it, and other answers may come in between.     *)
(* The server's jobs are the statuses that the other modules explain.       *)
(* Selection, wording, timings, what may be bought and the branches of      *)
(* development are left out.                                                *)
(***************************************************************************)
EXTENDS Naturals, FiniteSets, FiniteSetsExt, TLC

CONSTANTS
  Cleanups,         \* 1 .. n, in the order they are accepted
  Slots,            \* requests of operations that may be under way at once
  ClientScenarios,  \* which provider, which faults and how many of them
  None

Faults == {"expire", "refuse", "tab", "lost", "unheard", "hide", "reload", "rescan"}
Operations == {"resolution", "trash", "undo", "start_over", "rescan"}
Phases == {"none", "created", "ready", "moving", "complete", "uncertain", "failed", "undoing", "undo_complete", "gone"}
Views == [id : Cleanups, status : Phases \cup {"expired"}, at : Nat, moved : Nat]

ASSUME CleanupClientAssumption ==
  /\ Cleanups # {} /\ Cleanups \subseteq Nat \ {0}
  /\ ClientScenarios \subseteq [kind : {"outlook", "gmail"}, jobs : Nat, faults : SUBSET Faults, events : Nat]
  /\ \A s \in ClientScenarios : 1..s.jobs \subseteq Cleanups
  /\ None \notin Operations /\ None \notin Views

VARIABLES
  jobs,      \* the server's jobs, with the moment of their last change
  page,      \* the job and the active operation of the component
  settled,   \* page has been committed
  calls,     \* requests of operations, those of an unmounted page included
  poll,      \* the status polling that the last commit left
  load,      \* a refresh or a reload of the page under way
  shown,     \* what came with the page: its key, the credits, what is accounted for
  watch,     \* watchCleanupAvailability
  dropped,   \* discardedOutlookJobs
  visible,   \* document.visibilityState
  weather    \* the provider and what is left of the faults

clientVars == <<jobs, page, settled, calls, poll, load, shown, watch, dropped, visible, weather>>

Kind == weather.kind
Chance(fault) == fault \in weather.faults /\ weather.events > 0
Spend == weather' = [weather EXCEPT !.events = @ - 1]

-----------------------------------------------------------------------------
\* The server.
NoJob == [status |-> "none", at |-> 0, moved |-> 0, back |-> "no"]
ViewOf(j, job) == [id |-> j, status |-> job.status, at |-> job.at, moved |-> job.moved]
View(j) == ViewOf(j, jobs[j])
Row(j) == jobs[j].status \notin {"none", "gone"}
Now == 1 + Max({jobs[j].at : j \in Cleanups})
Credits == [j \in Cleanups |-> jobs[j].moved]

\* One status for each phase of the two providers: created stands for the check of a selection,
\* moving for every status between the confirmation and a result, uncertain for partial too.
Selecting == {"created", "ready"}
Results == {"complete", "uncertain", "failed"}
\* Mutant: a job under review is polled on, beside its confirmation.
PolledAtReview(job) == job.status \in {"created", "ready", "moving", "undoing"}
\* shouldPollOutlookCleanup, shouldPollGmailScalableJob.
Polled(job) == job.status \in {"created", "moving", "undoing"}

Follows(job) ==
  CASE job.status = "created" -> {"ready", "failed"}
    [] job.status = "moving" -> Results
    [] job.status = "undoing" -> {"undo_complete", "uncertain"}
    [] OTHER -> {}
MovedBy(job, status) ==
  IF job.status # "moving" THEN job.moved ELSE CASE status = "complete" -> 2 [] status = "uncertain" -> 1 [] OTHER -> 0
BackBy(job, status) ==
  IF job.status # "undoing" THEN job.back ELSE IF status = "undo_complete" THEN "all" ELSE "some"

ServerWorks(j) ==
  /\ \E status \in Follows(jobs[j]) :
       jobs' = [jobs EXCEPT ![j] = [@ EXCEPT !.status = status, !.at = Now, !.moved = MovedBy(jobs[j], status),
                                             !.back = BackBy(jobs[j], status)]]
  /\ UNCHANGED <<page, settled, calls, poll, load, shown, watch, dropped, visible, weather>>
\* A Gmail job that is restored leaves its row at once; one that waits leaves it in the end.
RowEnds(j) ==
  /\ \/ Kind = "gmail" /\ jobs[j].status = "undo_complete" /\ UNCHANGED weather
     \/ Chance("expire") /\ Spend /\ jobs[j].status \in Results \cup Selecting
  /\ jobs' = [jobs EXCEPT ![j].status = "gone", ![j].at = Now]
  /\ UNCHANGED <<page, settled, calls, poll, load, shown, watch, dropped, visible>>

-----------------------------------------------------------------------------
\* The routes: what a request changes, and what it is told.
Reply(ok, gone, job) == [ok |-> ok, gone |-> gone, job |-> job]
Refused == Reply(FALSE, FALSE, None)
\* The boundary counts the rows of the job before it looks for anything else.
StatusReply(j) == IF Row(j) THEN Reply(TRUE, FALSE, View(j)) ELSE Reply(FALSE, TRUE, None)

Leaves(reply) == [jobs |-> jobs, reply |-> reply]
Changes(j, job) == [jobs |-> [jobs EXCEPT ![j] = job], reply |-> Reply(TRUE, FALSE, ViewOf(j, job))]

\* A start over the selection of a job that is there is answered with that job; another selection
\* makes a new one. Bound: the cleanups of the instance.
Unused == {j \in 1..weather.jobs : jobs[j].status = "none"}
Reusable == {j \in Cleanups : jobs[j].status \in Selecting}
Start ==
  IF Unused \cup Reusable = {} THEN {Leaves(Refused)}
  ELSE {Leaves(Reply(TRUE, FALSE, View(j))) : j \in Reusable}
         \cup {Changes(j, [NoJob EXCEPT !.status = "created", !.at = Now]) : j \in {i \in Unused : i = Min(Unused)}}
Confirm(j) ==
  CASE ~Row(j) -> Leaves(Reply(FALSE, TRUE, None))
    [] jobs[j].status = "ready" ->
         Changes(j, [jobs[j] EXCEPT !.status = "moving", !.at = Now])
    [] jobs[j].status \in {"moving", "complete"} ->
         Leaves(Reply(TRUE, FALSE, View(j)))
    [] OTHER -> Leaves(Refused)
\* Bound: a job is undone once.
Undo(j) ==
  CASE jobs[j].status \in Results /\ jobs[j].moved > 0 /\ jobs[j].back = "no" ->
         Changes(j, [jobs[j] EXCEPT !.status = "undoing", !.at = Now])
    [] jobs[j].status = "undoing" -> Leaves(Reply(TRUE, FALSE, View(j)))
    [] OTHER -> Leaves(Refused)
Discard(j) ==
  IF jobs[j].status \in Selecting
  THEN [Changes(j, [jobs[j] EXCEPT !.status = "gone", !.at = Now]) EXCEPT !.reply.job = None]
  ELSE Leaves(Refused)

\* A request reaches its route, or is turned away before it.
Handled(c) ==
  /\ calls[c] # None /\ calls[c].reply = None
  /\ LET j == calls[c].job
         outcomes == CASE calls[c].op = "resolution" -> Start
                       [] calls[c].op = "trash" -> {Confirm(j)}
                       [] calls[c].op = "undo" -> {Undo(j)}
                       [] calls[c].op = "start_over" -> {Discard(j)}
                       [] OTHER -> {Leaves(Reply(TRUE, FALSE, None))}
     IN \/ /\ \E done \in outcomes : jobs' = done.jobs /\ calls' = [calls EXCEPT ![c].reply = done.reply]
           /\ UNCHANGED weather
        \/ Chance("refuse") /\ Spend /\ calls' = [calls EXCEPT ![c].reply = Refused] /\ UNCHANGED jobs
  /\ UNCHANGED <<page, settled, poll, load, shown, watch, dropped, visible>>
\* Another tab of the same user confirms, or undoes, the job.
OtherTab(j) ==
  /\ Chance("tab") /\ Spend
  /\ \E done \in {Confirm(j), Undo(j)} : done.jobs # jobs /\ jobs' = done.jobs
  /\ UNCHANGED <<page, settled, calls, poll, load, shown, watch, dropped, visible>>

-----------------------------------------------------------------------------
\* The component. What a page comes with; a page in place keeps its state.
Terminal == {"complete", "partial", "failed", "uncertain", "expired", "undo_complete"}
\* Mutant: an uncertain result is no reason to look at the balance.
KeyUnlessUncertain(job) ==
  IF job # None /\ job.status \in Terminal \ {"uncertain"} THEN <<job.id, job.moved>> ELSE <<0, 0>>
\* accountingKey.
AccountingKey(job) == IF job # None /\ job.status \in Terminal THEN <<job.id, job.moved>> ELSE <<0, 0>>
StatusOf(job) == IF job = None THEN "none" ELSE job.status
KeyOf(job) == IF job = None THEN 0 ELSE job.id
PolledId(job) == IF job # None /\ Polled(job) THEN job.id ELSE 0
NoPoll == [id |-> 0, stage |-> "stopped", reply |-> None]
Polling(id) == IF id = 0 THEN NoPoll ELSE [id |-> id, stage |-> "armed", reply |-> None]

Shown(job, credits) ==
  [key |-> KeyOf(job), credits |-> credits, came |-> AccountingKey(job), presented |-> AccountingKey(job),
   status |-> StatusOf(job)]
QuietWatch == [flying |-> FALSE, changed |-> FALSE, unseen |-> FALSE]
NoLoad == [kind |-> "none", step |-> 0, again |-> FALSE, credits |-> Credits, job |-> None]
\* useState, useRef and the first effects of a component that is mounted.
Mount(job, credits) ==
  /\ page' = [job |-> job, active |-> None] /\ settled' = TRUE
  /\ poll' = Polling(PolledId(job)) /\ shown' = Shown(job, credits)
  /\ watch' = QuietWatch /\ dropped' = {}
  /\ calls' = [c \in Slots |-> IF calls[c] = None THEN None ELSE [calls[c] EXCEPT !.mine = FALSE]]

\* The job the server shows: for Outlook one that has begun before one that is being chosen.
Latest(rows) == IF rows = {} THEN None ELSE View(CHOOSE j \in rows : \A i \in rows : jobs[i].at <= jobs[j].at)
Presented ==
  LET rows == {j \in Cleanups : Row(j)}
      begun == {j \in rows : jobs[j].status \notin Selecting}
  IN Latest(IF Kind = "outlook" /\ begun # {} THEN begun ELSE rows)

Refreshes(l) == IF l.kind = "none" THEN [NoLoad EXCEPT !.kind = "refresh"] ELSE [l EXCEPT !.again = TRUE]

\* run(force) of watchCleanupAvailability.
WatchRuns(w, seen) == IF seen /\ ~w.flying THEN [flying |-> TRUE, changed |-> FALSE, unseen |-> FALSE] ELSE w
Notify(w) == WatchRuns([w EXCEPT !.changed = TRUE, !.unseen = TRUE], visible)

\* The effects of a commit: polling follows the job, a change that is not polled is announced,
\* a new result asks for the balance.
Commit ==
  LET id == PolledId(page.job)
      status == StatusOf(page.job)
      key == AccountingKey(page.job)
      owed == key # <<0, 0>> /\ key # shown.presented
  IN
  /\ ~settled /\ settled' = TRUE
  /\ poll' = IF poll.id = id THEN poll ELSE Polling(id)
  /\ watch' = IF status # shown.status /\ id = 0 THEN Notify(watch) ELSE watch
  /\ shown' = [shown EXCEPT !.status = status, !.presented = IF owed THEN key ELSE @]
  /\ load' = IF owed THEN Refreshes(load) ELSE load
  /\ UNCHANGED <<jobs, page, calls, dropped, visible, weather>>

-----------------------------------------------------------------------------
\* The user presses what is drawn; beginOperation lets one operation in.
Send(op, id) ==
  \E c \in Slots : /\ calls[c] = None
                  /\ calls' = [calls EXCEPT ![c] = [op |-> op, job |-> id, mine |-> TRUE, reply |-> None]]
BeginOperation(op) == settled /\ page.active = None /\ page' = [page EXCEPT !.active = op]
Press(op, id) ==
  /\ visible /\ BeginOperation(op) /\ Send(op, id)
  /\ UNCHANGED <<jobs, settled, poll, load, shown, watch, dropped, visible, weather>>

\* The operations that each view lets the user press, in the status it shows.
SelectionOffers == IF Unused # {} \/ Reusable # {} THEN {"resolution"} ELSE {}
RestoreOffered(job) == IF job.status \in Results /\ job.moved > 0 THEN {"undo"} ELSE {}
OutlookOffers(job) ==
  CASE job.status = "created" -> {"start_over"}
    [] job.status = "ready" -> {"start_over", "trash"}
    [] job.status \in Results -> {"rescan"} \cup RestoreOffered(job)
    [] job.status = "undo_complete" -> {"rescan"}
    [] OTHER -> {}
GmailOffers(job) ==
  CASE job.status = "ready" -> {"trash"}
    [] job.status = "failed" -> RestoreOffered(job)
    [] job.status \in Results \ {"failed"} -> {"rescan"} \cup RestoreOffered(job)
    [] job.status = "undo_complete" -> {"rescan"}
    [] OTHER -> {}
Offers ==
  IF page.job = None THEN SelectionOffers
  ELSE IF Kind = "outlook" THEN OutlookOffers(page.job) ELSE GmailOffers(page.job)

ResolvePreview == "resolution" \in Offers /\ Press("resolution", 0)
ConfirmCleanup == "trash" \in Offers /\ Press("trash", page.job.id)
StartOver == "start_over" \in Offers /\ Press("start_over", page.job.id)
UndoCleanup == "undo" \in Offers /\ Press("undo", page.job.id)
\* Bound: in the instances that name it.
RescanInbox == "rescan" \in Offers \cap weather.faults /\ Press("rescan", page.job.id)

\* The continuation of an operation, in the component that began it.
FinishOperation(job) == page' = [job |-> job, active |-> None] /\ settled' = FALSE
Answered(c) ==
  LET call == calls[c] IN
  /\ call # None /\ call.reply # None
  /\ calls' = [calls EXCEPT ![c] = None]
  /\ \/ ~call.mine /\ UNCHANGED <<page, settled, dropped>>
     \/ /\ call.mine
        /\ CASE ~call.reply.ok -> FinishOperation(page.job) /\ UNCHANGED dropped
             [] call.reply.ok /\ call.op = "rescan" -> UNCHANGED <<page, settled, dropped>>  \* it leaves for the scan's page
             [] OTHER ->
              /\ FinishOperation(call.reply.job)
              /\ dropped' = IF call.op = "start_over" THEN dropped \cup {call.job} ELSE dropped
  /\ UNCHANGED <<jobs, poll, load, shown, watch, visible, weather>>
\* A request, or its answer, is lost.
CallLost(c) ==
  /\ Chance("lost") /\ Spend
  /\ calls[c] # None /\ calls' = [calls EXCEPT ![c] = None]
  /\ IF calls[c].mine THEN FinishOperation(page.job) ELSE UNCHANGED <<page, settled>>
  /\ UNCHANGED <<jobs, poll, load, shown, watch, dropped, visible>>

-----------------------------------------------------------------------------
\* startAdaptivePolling: one request at a time, none while the page is hidden.
PollAsks ==
  /\ poll.stage = "armed" /\ visible
  /\ poll' = [poll EXCEPT !.stage = "asked"]
  /\ UNCHANGED <<jobs, page, settled, calls, load, shown, watch, dropped, visible, weather>>
StatusAnswers ==
  /\ poll.stage = "asked"
  /\ \/ poll' = [poll EXCEPT !.stage = "told", !.reply = StatusReply(poll.id)] /\ UNCHANGED weather
     \/ Chance("unheard") /\ Spend /\ poll' = [poll EXCEPT !.stage = "told", !.reply = Refused]
  /\ UNCHANGED <<jobs, page, settled, calls, load, shown, watch, dropped, visible>>
\* A view replaces the job, unless the job was discarded, and says whether to ask again.
PolledView(job, id) ==
  IF id \in dropped
  THEN poll' = [poll EXCEPT !.stage = "stopped", !.reply = None] /\ UNCHANGED <<page, settled>>
  ELSE /\ page' = [page EXCEPT !.job = job] /\ settled' = FALSE
       /\ poll' = [poll EXCEPT !.stage = IF Polled(job) THEN "armed" ELSE "stopped", !.reply = None]
\* Mutant: an error ends the polling.
GivesUp(id) == [id |-> id, stage |-> "stopped", reply |-> None]
\* An error is shown, and asked again.
Retried(id) == Polling(id)
PollAnswered ==
  /\ poll.stage = "told"
  /\ \/ poll.reply.ok /\ PolledView(poll.reply.job, poll.id)
     \/ /\ poll.reply.gone
        /\ page' = IF page.job = None THEN page ELSE [page EXCEPT !.job.status = "expired"]
        /\ settled' = FALSE /\ poll' = [poll EXCEPT !.stage = "stopped", !.reply = None]
     \/ /\ ~poll.reply.ok /\ ~poll.reply.gone
        /\ poll' = Retried(poll.id) /\ UNCHANGED <<page, settled>>
  /\ UNCHANGED <<jobs, calls, load, shown, watch, dropped, visible, weather>>

-----------------------------------------------------------------------------
\* The tab is hidden and shown; the availability asked for is answered; pages are loaded.
Hide ==
  /\ Chance("hide") /\ Spend
  /\ visible /\ visible' = FALSE
  /\ UNCHANGED <<jobs, page, settled, calls, poll, load, shown, watch, dropped>>
Show ==
  /\ ~visible /\ visible' = TRUE
  /\ \/ watch' = WatchRuns(watch, TRUE)
     \/ ~watch.changed /\ UNCHANGED watch  \* it was asked less than five seconds ago
  /\ UNCHANGED <<jobs, page, settled, calls, poll, load, shown, dropped, weather>>
\* Mutant: what changed while a request was under way is taken as answered by it.
ForgetsChange(w) == [w EXCEPT !.flying = FALSE, !.changed = FALSE]
\* The finally of run: what changed in the meantime is asked about.
AfterAvailability(w) == IF w.changed THEN WatchRuns([w EXCEPT !.flying = FALSE], visible) ELSE [w EXCEPT !.flying = FALSE]
AvailabilityAnswered ==
  /\ watch.flying /\ watch' = AfterAvailability(watch)
  /\ UNCHANGED <<jobs, page, settled, calls, poll, load, shown, dropped, visible, weather>>

Reload ==
  /\ Chance("reload") /\ Spend
  /\ load' = [NoLoad EXCEPT !.kind = "reload"]
  /\ UNCHANGED <<jobs, page, settled, calls, poll, shown, watch, dropped, visible>>
\* CleanupPage reads the credits first, the job after them.
PageReads ==
  /\ load.kind # "none"
  /\ \/ load.step = 0 /\ load' = [load EXCEPT !.step = 1, !.credits = Credits]
     \/ load.step = 1 /\ load' = [load EXCEPT !.step = 2, !.job = Presented]
  /\ UNCHANGED <<jobs, page, settled, calls, poll, shown, watch, dropped, visible, weather>>
\* Of a refresh whose job is the one the page is keyed by, the component in place keeps its
\* own state and takes the credits. The access that comes too may give it a new availability
\* watch, or a notice in its place when nothing can be cleaned up; neither is modelled.
PageArrives ==
  /\ load.step = 2
  /\ load' = IF load.again THEN [NoLoad EXCEPT !.kind = "refresh"] ELSE NoLoad
  /\ \/ /\ load.kind = "refresh" /\ KeyOf(load.job) = shown.key
        /\ shown' = [shown EXCEPT !.credits = load.credits]
        /\ UNCHANGED <<page, settled, calls, poll, watch, dropped>>
     \/ /\ load.kind = "reload" \/ KeyOf(load.job) # shown.key
        /\ Mount(load.job, load.credits)
  /\ UNCHANGED <<jobs, visible, weather>>

-----------------------------------------------------------------------------
ClientInit ==
  /\ weather \in ClientScenarios
  /\ jobs = [j \in Cleanups |-> NoJob]
  /\ page = [job |-> None, active |-> None] /\ settled = TRUE
  /\ calls = [c \in Slots |-> None]
  /\ poll = NoPoll /\ load = NoLoad /\ shown = Shown(None, Credits)
  /\ watch = QuietWatch /\ dropped = {} /\ visible = TRUE

ServerMoves == \E j \in Cleanups : ServerWorks(j) \/ RowEnds(j) \/ OtherTab(j)
UserMoves == ResolvePreview \/ ConfirmCleanup \/ StartOver \/ UndoCleanup \/ RescanInbox \/ Reload \/ Hide
PollMoves == PollAsks \/ StatusAnswers \/ PollAnswered
CallMoves == \E c \in Slots : Handled(c) \/ Answered(c) \/ CallLost(c)
PageMoves == Commit \/ Show \/ AvailabilityAnswered \/ PageReads \/ PageArrives
ClientNext == ServerMoves \/ UserMoves \/ PollMoves \/ CallMoves \/ PageMoves

\* The jobs go on, the network answers, timers fire, React commits, and the user comes back to the tab.
ClientFairness ==
  /\ \A j \in Cleanups : WF_clientVars(ServerWorks(j))
  /\ WF_clientVars(PollMoves) /\ WF_clientVars(Commit) /\ WF_clientVars(Show)
ClientSpec == ClientInit /\ [][ClientNext]_clientVars /\ ClientFairness

-----------------------------------------------------------------------------
\* An answer never takes the page back, whatever the order in which polls and operations are
\* answered: neither to an older state of the job it shows, nor to a job whose selection was given
\* up (the abort of an effect, discardedOutlookJobs). Only a page that the server rendered may: a
\* refresh that crossed a request of the page shows the job as it was before.
NeverTakenBack ==
  [][LET now == page'.job IN
     now # None =>
       /\ now.id \notin dropped'
       /\ page.job # None /\ page.job.id = now.id /\ ~(load.step = 2 /\ load'.step # 2) => now.at >= page.job.at
    ]_clientVars
\* Work that is shown is followed until it needs no following, through lost polls, a hidden tab,
\* refreshes and rows that go away (startAdaptivePolling and its effects).
WorkIsFollowed == (page.job # None /\ Polled(page.job)) ~> (page.job = None \/ ~Polled(page.job))
\* Once nothing is being loaded, the credits on the page cover every mail the job on it moved,
\* unless the page came with that result (useCleanupCreditRefresh.ts:12-22).
BalanceCoversResult ==
  settled /\ load.kind = "none" /\ page.job # None /\ page.job.status \in Terminal
      /\ shown.came # <<page.job.id, page.job.moved>>
    => shown.credits[page.job.id] >= page.job.moved
\* A change of availability is never lost among requests that answer late or a tab that is hidden:
\* while one has not been asked about, a request is under way or the tab is hidden
\* (watchCleanupAvailability).
NoticesAreAnswered == watch.unseen => watch.flying \/ ~visible

\* organizinbox-specs.md:1280: "Status reads fall back to this terminal snapshot after transient
\* deletion so the browser reaches `UNDO_COMPLETE`". The boundary of the route refuses a job without
\* a row before the snapshot is read (production-cleanup.ts:60), and the page says "expired".
UndoneIsNotExpired ==
  page.job # None /\ page.job.status = "expired" => jobs[page.job.id].back # "all"
=============================================================================
