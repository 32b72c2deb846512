----------------------------- MODULE LiveScans -----------------------------
(***************************************************************************)
(* The live scans of one user and provider: the row of the scan in progress *)
(* and of its report (live-scan-store.ts), the workflow runs that scan the  *)
(* mailbox for it (workflows/provider-scan.ts, provider-scan-runner.ts,     *)
(* microsoft-scan.ts, gmail-benchmark.ts and the providers), and what       *)
(* happens around them: scans started twice, cancelled or replaced, reports *)
(* marked stale, inboxes disconnected, leases that lapse, rows that expire, *)
(* workers that crash.  What is read and reported is module MailReport's.   *)
(*                                                                          *)
(* `around` is chosen by Init: the provider, the mailbox, and the faults    *)
(* and user requests that may happen, `events` of them in all.              *)
(***************************************************************************)
EXTENDS MailReport

CONSTANTS
  Workers,        \* workflow runs that may be under way at a time
  Nobody,         \* no lock owner
  Gone,           \* the owner id of a run that is no more
  Scans,          \* scan ids: 1 .. n
  LargePage, SmallPage,   \* messages of a main page (500 and 100 in the code)
  Scenarios,      \* the environments Init chooses from
  Late            \* the message that may arrive during a scan

VARIABLES
  row,            \* the scan state of the user and provider, or NoRow
  scans,          \* the status of each row of the Scan table, "none" when there is none
  connected,      \* the provider connection is usable
  mailbox,        \* the messages, in the order the provider lists them
  worker,         \* the workflow runs
  request,        \* the user request under way between two of its statements
  around

vars == <<row, scans, connected, mailbox, worker, request, around>>

NoRow == [scan |-> 0]

\* A session: whether it has a report, the records and conversations the report
\* and the offers were made of, and whether it was marked stale.
NoSession == [reported |-> FALSE, records |-> <<>>, conversations |-> {}, stale |-> FALSE]
IdleWorker == [pc |-> "idle", scan |-> 0, page |-> LargePage, next |-> 1,
               records |-> <<>>, conversations |-> {}]
NoRequest == [pc |-> "none", scan |-> 0, session |-> NoSession]

Init ==
  /\ around \in Scenarios
  /\ row = NoRow /\ scans = [s \in Scans |-> "none"] /\ connected = TRUE
  /\ mailbox = around.mail
  /\ worker = [w \in Workers |-> IdleWorker] /\ request = NoRequest

Provider == around.provider
Budgeted(fault) == fault \in around.faults /\ around.events > 0
Spend == around' = [around EXCEPT !.events = @ - 1]
May(fault) == Budgeted(fault) /\ Spend

----------------------------------------------------------------------------
(* The store.                                                              *)

HasRow == row # NoRow
Running == HasRow /\ row.status = "running" /\ ~row.expired

\* Mutant: whoever is running may save, whoever holds the lock.
HoldsAny(w) == Running /\ row.scan = worker[w].scan

\* The conditions of a write or a request under a lock: replace, createScanRequestFence.
Holds(w) ==
  /\ Running /\ row.scan = worker[w].scan /\ row.lock = w /\ row.live
  /\ scans[row.scan] = "running" /\ connected

\* Mutant: a lock that was claimed once is never taken over.
ClaimsFree == Running /\ row.lock = Nobody

MayClaim == Running /\ (row.lock = Nobody \/ ~row.live)

\* The row as a worker leaves it; only a report with base records keeps the mark.
Saved(status, session) ==
  [row EXCEPT !.status = status, !.live = TRUE, !.unlocked = FALSE,
              !.session = [session EXCEPT !.stale =
                 @ \/ (row.session.stale /\ Provider = "graph" /\ status = "completed")]]

Save(w, status, session) ==
  /\ row' = Saved(status, session)
  /\ scans' = [scans EXCEPT ![row.scan] = status]

\* update: the lock owner read with the row is passed to replace, whose other conditions
\* hold only for a locked row.  A claim leaves the version alone: who read the row before
\* the claim still writes it as one without a lock.
Updatable == Running /\ row.live /\ scans[row.scan] = "running" /\ connected
MayUpdate == HasRow /\ ~row.expired /\ (row.unlocked \/ Updatable)

\* Such a write sets the entry of the Scan table to the status in the row.
Update(status, session) ==
  /\ row' = [row EXCEPT !.status = status, !.session = session, !.unlocked = (row.lock = Nobody)]
  /\ scans' = [scans EXCEPT ![row.scan] = status]

----------------------------------------------------------------------------
(* A workflow run: claim, scan, release.                                    *)

Step(w, r) == worker' = [worker EXCEPT ![w] = r]
Goto(w, pc) == Step(w, [worker[w] EXCEPT !.pc = pc])
At(w, pc) == worker[w].pc = pc

\* runDurableProviderScan: not running, locked, or claimed.
Claim(w) ==
  /\ At(w, "claim")
  /\ \/ /\ ~(Running /\ row.scan = worker[w].scan)
        /\ Step(w, IdleWorker) /\ UNCHANGED row
     \/ /\ row.scan = worker[w].scan /\ MayClaim
        /\ row' = [row EXCEPT !.lock = w, !.live = TRUE]
        /\ Goto(w, "begin")
     \/ /\ Running /\ row.scan = worker[w].scan /\ ~MayClaim
        /\ Goto(w, "locked") /\ UNCHANGED row
  /\ UNCHANGED <<scans, connected, mailbox, request, around>>

\* The workflow sleeps a minute and runs the step again.
Wake(w) ==
  /\ At(w, "locked") /\ Goto(w, "claim")
  /\ UNCHANGED <<row, scans, connected, mailbox, request, around>>

\* A write of progress: refused, it ends the run as stopped.
Progress(w, next) ==
  IF Holds(w) THEN Save(w, "running", NoSession) /\ Step(w, next)
  ELSE Goto(w, "release") /\ UNCHANGED <<row, scans>>

\* runMicrosoftScan, runGmailBenchmark: the context must still be the run's own.
Begin(w) ==
  /\ At(w, "begin")
  /\ IF HasRow /\ ~row.expired /\ row.scan = worker[w].scan /\ row.lock = w
     THEN Progress(w, [IdleWorker EXCEPT !.pc = "connect", !.scan = worker[w].scan])
     ELSE Goto(w, "release") /\ UNCHANGED <<row, scans>>
  /\ UNCHANGED <<connected, mailbox, request, around>>

Connect(w) ==
  /\ At(w, "connect")
  /\ \/ connected /\ Goto(w, "index") /\ UNCHANGED around
     \/ ~connected /\ Goto(w, "failed") /\ UNCHANGED around
     \/ Budgeted("error") /\ Spend /\ Goto(w, "failed")
  /\ UNCHANGED <<row, scans, connected, mailbox, request>>

\* A provider request goes out under the fence, which renews the lease.
Fenced(w) == row' = [row EXCEPT !.live = TRUE]
Stopped(w) == ~Holds(w) /\ Goto(w, "release") /\ UNCHANGED <<row, scans, around>>

\* scanParticipatedConversationIds, and the progress written after it.
IndexConversations(w) ==
  /\ At(w, "index")
  /\ \/ Stopped(w)
     \/ /\ Holds(w) /\ UNCHANGED around
        /\ Progress(w, [worker[w] EXCEPT !.pc = "pages", !.conversations =
             Participated({m \in ToSet(mailbox) : Listed(Provider, m)})])
     \/ /\ Holds(w) /\ Budgeted("error") /\ Spend
        /\ Fenced(w) /\ Goto(w, "failed") /\ UNCHANGED scans
  /\ UNCHANGED <<connected, mailbox, request>>

\* The messages the provider has left to list, from the cursor of the last page.
Listing == SelectSeq(mailbox, LAMBDA m : Listed(Provider, m))
PageOf(w) ==
  LET last == worker[w].next + worker[w].page - 1
  IN SubSeq(Listing, worker[w].next, IF last < Len(Listing) THEN last ELSE Len(Listing))

\* onBatch: a page is normalised and aggregated; progress is written when it is due.
ReadPage(w) ==
  /\ At(w, "pages") /\ worker[w].next <= Len(Listing)
  /\ \/ Stopped(w)
     \/ /\ Holds(w) /\ UNCHANGED around
        /\ LET read == PageOf(w)
               next == [worker[w] EXCEPT !.next = @ + Len(read), !.records = @ \o
                          [i \in DOMAIN read |-> Normalize(Provider, read[i])]]
           IN \/ Progress(w, next)
              \/ Step(w, next) /\ Fenced(w) /\ UNCHANGED scans
     \/ /\ Holds(w) /\ Budgeted("error") /\ Spend
        /\ Fenced(w) /\ Goto(w, "failed") /\ UNCHANGED scans
  /\ UNCHANGED <<connected, mailbox, request>>

\* Mutant: the records of the pages already read are kept.
FallbackKeeps(w) == [worker[w] EXCEPT !.page = SmallPage, !.next = 1]

\* onFallback: aggregation starts over.
Restarted(w) == [worker[w] EXCEPT !.page = SmallPage, !.next = 1, !.records = <<>>]

\* An oversized or invalid main page is answered once by smaller pages.
Oversized(w) ==
  /\ At(w, "pages") /\ worker[w].next <= Len(Listing) /\ Provider = "graph"
  /\ Holds(w) /\ Budgeted("oversized") /\ Spend
  /\ IF worker[w].page > SmallPage THEN Progress(w, Restarted(w))
     ELSE Fenced(w) /\ Goto(w, "failed") /\ UNCHANGED scans
  /\ UNCHANGED <<connected, mailbox, request>>

\* The completed scan is written with its report.
Finish(w) ==
  /\ At(w, "pages") /\ worker[w].next > Len(Listing)
  /\ IF Holds(w)
     THEN Save(w, "completed", [NoSession EXCEPT !.reported = TRUE,
            !.records = worker[w].records, !.conversations = worker[w].conversations])
     ELSE UNCHANGED <<row, scans>>
  /\ Goto(w, "release")
  /\ UNCHANGED <<connected, mailbox, request, around>>

\* Another error: the failure is written, unless the run was stopped.
Fail(w) ==
  /\ At(w, "failed")
  /\ IF Holds(w) THEN Save(w, "failed", NoSession) ELSE UNCHANGED <<row, scans>>
  /\ Goto(w, "release")
  /\ UNCHANGED <<connected, mailbox, request, around>>

Release(w) ==
  /\ At(w, "release")
  /\ row' = IF HasRow /\ row.scan = worker[w].scan /\ row.lock = w
            THEN [row EXCEPT !.lock = Nobody, !.live = FALSE, !.unlocked = TRUE] ELSE row
  /\ Step(w, IdleWorker)
  /\ UNCHANGED <<scans, connected, mailbox, request, around>>

\* A run dies; the workflow runs the step again under another owner id.
Crash(w) ==
  /\ worker[w].pc \notin {"idle", "claim", "locked"} /\ May("crash")
  /\ row' = IF HasRow /\ row.lock = w THEN [row EXCEPT !.lock = Gone] ELSE row
  /\ Step(w, [IdleWorker EXCEPT !.pc = "claim", !.scan = worker[w].scan])
  /\ UNCHANGED <<scans, connected, mailbox, request>>

Work(w) ==
  \/ Claim(w) \/ Wake(w) \/ Begin(w) \/ Connect(w) \/ IndexConversations(w)
  \/ ReadPage(w) \/ Finish(w) \/ Fail(w) \/ Release(w)

----------------------------------------------------------------------------
(* Time.                                                                    *)

\* The lease of a dead run ends; that of a live one when a request takes too long.
LeaseEnds ==
  /\ HasRow /\ row.live /\ row.lock = Gone
  /\ row' = [row EXCEPT !.live = FALSE]
  /\ UNCHANGED <<scans, connected, mailbox, worker, request, around>>

LeaseLapses ==
  /\ HasRow /\ row.live /\ row.lock \in Workers /\ May("slow")
  /\ row' = [row EXCEPT !.live = FALSE]
  /\ UNCHANGED <<scans, connected, mailbox, worker, request>>

Expire ==
  /\ HasRow /\ ~row.expired /\ May("expire")
  /\ row' = [row EXCEPT !.expired = TRUE, !.live = FALSE]
  /\ UNCHANGED <<scans, connected, mailbox, worker, request>>

\* Newest first for Outlook; at the end, beyond what is scanned, for Gmail.
Arrive ==
  /\ May("arrive") /\ Provider = "graph"
  /\ mailbox' = <<Late>> \o mailbox
  /\ UNCHANGED <<row, scans, connected, worker, request>>

----------------------------------------------------------------------------
(* The user.                                                                *)

Spare == {w \in Workers : worker[w].pc = "idle"}
StartWorkflow(s) ==
  LET w == CHOOSE v \in Spare : TRUE IN Step(w, [IdleWorker EXCEPT !.pc = "claim", !.scan = s])

\* createScanSession, up to acceptLiveScan's transaction: a running scan is
\* reused, anything else is replaced by a new scan.
Accept ==
  /\ request = NoRequest /\ connected /\ Spare # {}
  /\ \/ /\ Running /\ May("again")
        /\ request' = [pc |-> "reuse", scan |-> row.scan, session |-> row.session]
        /\ UNCHANGED <<row, scans>>
     \/ /\ ~Running
        /\ IF \A s \in Scans : scans[s] = "none" THEN UNCHANGED around ELSE May("rescan")
        /\ \E s \in Scans :
             /\ scans[s] = "none" /\ \A t \in Scans : scans[t] = "none" => s <= t
             /\ row' = [scan |-> s, status |-> "running", lock |-> Nobody, live |-> FALSE,
                        unlocked |-> TRUE, expired |-> FALSE, session |-> NoSession]
             /\ scans' = [scans EXCEPT ![s] = "running"]
             /\ request' = [NoRequest EXCEPT !.pc = "start", !.scan = s]
  /\ UNCHANGED <<connected, mailbox, worker>>

\* The count of duplicate starts is written with the session as it was read.
CountDuplicate ==
  /\ request.pc = "reuse"
  /\ IF HasRow /\ row.scan = request.scan /\ row.unlocked
     THEN /\ row' = [row EXCEPT !.status = "running", !.session = request.session,
                              !.expired = FALSE, !.unlocked = (row.lock = Nobody)]
          /\ scans' = [scans EXCEPT ![row.scan] = "running"]
     ELSE UNCHANGED <<row, scans>>
  /\ request' = [request EXCEPT !.pc = "start"]
  /\ UNCHANGED <<connected, mailbox, worker, around>>

\* The workflow is started, for a reused scan too; starting it may fail.
StartRun ==
  /\ request.pc = "start" /\ request' = NoRequest
  /\ \/ Spare # {} /\ StartWorkflow(request.scan) /\ UNCHANGED around
     \/ May("unstarted") /\ UNCHANGED worker
  /\ UNCHANGED <<row, scans, connected, mailbox>>

\* cancelLiveScan, offered for Gmail's development scans.
Cancel ==
  /\ May("cancel") /\ Provider = "gmail" /\ MayUpdate
  /\ Update(IF row.status = "running" THEN "cancelled" ELSE row.status, row.session)
  /\ UNCHANGED <<connected, mailbox, worker, request>>

\* markLiveReportStale, after a cleanup was attempted on this report or on an earlier one:
\* it marks whatever row there is, that of a scan in progress too.
MarkStale ==
  /\ HasRow /\ May("stale")
  /\ IF MayUpdate THEN Update(row.status, [row.session EXCEPT !.stale = TRUE])
     ELSE UNCHANGED <<row, scans>>
  /\ UNCHANGED <<connected, mailbox, worker, request>>

\* Disconnect: the connection, the scans, and the row, one statement each.
Disconnect ==
  /\ request = NoRequest /\ connected /\ HasRow /\ May("disconnect")
  /\ connected' = FALSE /\ request' = [NoRequest EXCEPT !.pc = "cancelScans"]
  /\ UNCHANGED <<row, scans, mailbox, worker>>
CancelScans ==
  /\ request.pc = "cancelScans"
  /\ scans' = [s \in Scans |-> IF scans[s] = "running" THEN "cancelled" ELSE scans[s]]
  /\ request' = [request EXCEPT !.pc = "clear"]
  /\ UNCHANGED <<row, connected, mailbox, worker, around>>
ClearRow ==
  /\ request.pc = "clear" /\ row' = NoRow /\ request' = NoRequest
  /\ UNCHANGED <<scans, connected, mailbox, worker, around>>

Reconnect ==
  /\ request = NoRequest /\ ~connected /\ connected' = TRUE
  /\ UNCHANGED <<row, scans, mailbox, worker, request, around>>

User ==
  \/ Accept \/ CountDuplicate \/ StartRun \/ Cancel \/ MarkStale
  \/ Disconnect \/ CancelScans \/ ClearRow \/ Reconnect

Next ==
  \/ User \/ LeaseEnds \/ LeaseLapses \/ Expire \/ Arrive
  \/ \E w \in Workers : Work(w) \/ Oversized(w) \/ Crash(w)

Spec == Init /\ [][Next]_vars

----------------------------------------------------------------------------
(* Fairness: a workflow goes on running its steps, the platform runs a dead *)
(* step again and its lease ends, and a request that was begun is finished. *)

Fairness ==
  /\ \A w \in Workers : WF_vars(Work(w))
  /\ WF_vars(LeaseEnds)
  /\ WF_vars(CountDuplicate \/ StartRun \/ CancelScans \/ ClearRow)

LiveSpec == Spec /\ Fairness

----------------------------------------------------------------------------
(* What the scans promise.                                                  *)

\* The report and the offers of the session in the row.
Reported == HasRow /\ row.session.reported
TheReport == Report(Provider, row.session.records, row.session.conversations)
OffersOf(report) == Offered(Provider, row.session.records, row.session.conversations, report)

\* The messages of a sender that were there when the scan began.
From(s) == SelectSeq(Listing, LAMBDA m : Sender(m) = s /\ m # Late)
Arrivals == Len(SelectSeq(mailbox, LAMBDA m : m = Late))

\* A report adds up: every message is ready, to be reviewed or protected, in the
\* whole, for every sender and every category, and every message of every sender
\* is counted once, whatever runs died, pages were read again or duplicates
\* started on the way.  A message that arrives meanwhile may shift one message to
\* two pages (StreamingReportAggregator.snapshot, onFallback).
ReportIsTrue ==
  Reported => \A report \in {TheReport} :
    /\ Reconciles(report)
    /\ \A s \in Senders \cup {Unknown} :
         LET counted == SumOver({x \in ToSet(report.senders) : x.key = s}, LAMBDA x : x.total)
         IN counted - Len(From(s)) \in 0 .. Arrivals

\* A message is offered for cleanup at most once and only when nothing about it
\* asks for caution: it is old, not sent, drafted or deleted, at whatever depth of
\* a folder, not starred, important or labelled, not part of a conversation the
\* user took part in.  The offers are as many as the report promises, and a
\* cleanup of n of them takes n (outlookCandidatePool, buildScalableCleanupTargets,
\* allocateScalableTargets); a scan over IMAP offers nothing.
OffersAreSafe ==
  Reported => \A report \in {TheReport} : \A offered \in {OffersOf(report)} :
    /\ \A i \in DOMAIN offered : \E m \in ToSet(mailbox) :
         m.id = offered[i].id /\ SafeToOffer(Provider, m, ToSet(Listing))
    /\ Cardinality({t.id : t \in ToSet(offered)}) = Len(offered)
    /\ Provider # "imap" => \A g \in EligibleGroups(report) :
         report.senders[g].ready - Len(SelectSeq(offered, LAMBDA t : t.group = g)) \in 0 .. Arrivals
    /\ Arrivals = 0 => \A n \in 1 .. Len(offered) :
         LET taken == AllocateTargets(report, offered, n)
         IN Len(taken) = n /\ Cardinality(ToSet(taken)) = n

\* A stale mark finds a scan under way in the row, but cancelled in the Scan table: a
\* disconnect has cancelled the scans and not yet deleted the row.
MarkedInDisconnect(s) ==
  /\ request.pc = "clear" /\ row.scan = s /\ row.status = "running" /\ row.unlocked
  /\ scans[s] = "cancelled" /\ scans'[s] = "running"

\* A scan that has ended is never written again by a run of it: not after a
\* disconnect that cancelled it under the run's hands, and not by a run whose lease
\* was taken over (PrismaScanStateRepository.replace).  Requests that hold no lock
\* reopen one in two cases only: the count of duplicate starts, and a stale mark
\* between two statements of a disconnect, which takes the status from the row.
EndedScansStayEnded ==
  [][\A s \in Scans : scans[s] \in {"completed", "failed", "cancelled"} /\ scans'[s] # scans[s]
       => worker' = worker /\ (request.pc = "reuse" \/ MarkedInDisconnect(s))]_vars

UnderWay(s) == \E w \in Workers : worker[w].pc # "idle" /\ worker[w].scan = s

\* A scan with a run under way ends, is replaced or expires, if no lease lapses in
\* the hands of a live run: dead runs are taken over, and runs that wait for each
\* other's lock are let in (runDurableProviderScan, providerScanWorkflow).
ScanSettles ==
  \A s \in Scans :
    (UnderWay(s) /\ "slow" \notin around.faults) ~>
      (scans[s] # "running" \/ row.scan # s \/ row.expired)
=============================================================================
