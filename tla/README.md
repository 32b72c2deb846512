# A TLA+ development of Organizinbox

Organizinbox scans a user's mailbox, reports what could be cleaned up, moves the
selected mail to Trash and can put it back. The messages, the provider and the
user's patience are outside the program; what the program owns is a set of
database rows, and its promise is about the two together: **a message is
mutated only when it was found safe, at most once, and whatever was moved can
be named exactly afterwards.** Hardly anything runs in one process from start
to end: a scan or a cleanup is a chain of retried workflow steps that share a
row with other runs, user requests, a purge job and disconnect; a credit
purchase is a race of a browser, webhooks and a lease; and the page that shows
all of it is answered in any order.

This project models the durable cleanups of Gmail and Outlook, permanent
deletion, provider access (credentials, request slots, fences), credits and
billing, live scans with the report they make, the in-memory cleanup of the
development routes and the client's cleanup page; model-checks them with TLC;
and proves with TLAPS, for instances of any size, the safety of the Gmail
cleanup, of the Outlook cleanup, of permanent deletion beside a restore, of provider
access, of billing, of the scan row, of the development cleanup and of the cleanup page.

## 1. Inventory

| Component | State | Operations | Correct when |
|---|---|---|---|
| Gmail durable cleanup workflow (`gmail-scalable-workflow*.ts`, `gmail-scalable-live-workflow.ts`, `workflows/gmail-scalable-cleanup.ts`) | the job: status, per-chunk ledger, markers and checkpoints; the long-lived `CleanupJob` row | accept, advance (nine operations), confirm, redispatch, restore, discard | one mutation per chunk and direction; the ledger is true; work settles and is reported |
| Durable cleanup-state store (`gmail-scalable-cleanup-durable-store.ts`) | a row: payload, version, lease, expiry | create, claim, refreshLock, compareAndSet, releaseLock, delete, deleteExpired | a write names the version it read; a lease has one live owner |
| Gmail cleanup provider (`scalable-cleanup-provider.ts`) | none; the mailbox's labels and history | safety check, checkpoint, batchModify, verification | mutations are not repeated; verification reports only what it has evidence for |
| Provider work fence (`provider-work-fence.ts`) | reads the rows above | a check before each request | no request after cancellation, disconnect, expiry or another version |
| Disconnect (`disconnect.ts`), transient purge | all of a user's rows | statements in a row; sweeps | nothing is mutated afterwards; no live work is deleted |
| Outlook cleanup (`outlook-cleanup*.ts`, `workflows/provider-cleanup.ts`) | targets with a state each, active batches | prepare, start, advance, confirm, undo, discard | intents are saved before moves; nothing uncertain is retried; a lost commit response abandons nothing |
| Outlook state chunks (`outlook-state-chunks.ts`) | manifest and pages | encode, hydrate, write | a reader decodes one version |
| Permanent delete (`permanent-delete.ts`) | target states inside the job | accept, advance | a delete is asked for once; delete and restore exclude each other |
| Credits and billing (`lib/billing`) | balance, reservations, purchases, receipts, a lease | reserve, account, fulfil, reconcile, checkout, link | no overdraft, no double grant, one payable session, at any order of webhooks |
| Live scans (`live-scan-store.ts`, `microsoft-scan.ts`, `gmail-benchmark.ts`, `workflows/provider-scan.ts`) | scan row, version, lease | start, claim, progress, complete, cancel, mark stale, clear | the report counts each message once; a stale step cannot touch a newer scan; a scan ends |
| Classification, safety rules and the report (`lib/domain`, the providers' normalisation) | none | pure functions | the numbers reconcile, and only safe messages are offered |
| Token refresh (`provider-token-refresh.ts`), sign-in callbacks | tokens, version, refresh lease | refresh, connect, approve IMAP | single flight; newer credentials survive |
| Request coordinator (`provider-request-coordinator.ts`), Graph client | slot leases; retry rounds | claim, release, send, retry | bounded requests; a mutation is never repeated; stopped work falls silent |
| Sessions, linked inboxes | session generation, credit owner | switch, link | a switch does not strand running work; a linked inbox owns nothing |
| Development cleanup (`gmail-cleanup*.ts`, the bulk-proof route) | jobs and operations in one process's memory | preview, confirm, Undo, proof, recovery | mail moves as agreed, and again only while unanswered; a running job has an operation |
| Cleanup page (`GmailCleanupClient.tsx`, polling, availability events) | a job, an active operation, polls, a balance | resolve, confirm, undo, start over, poll, refresh | no answer takes the page back; work shown is followed; notices are answered |
| Other I/O, routes, rendering, fixtures, benchmarks | – | – | not core logic |

How they interact: routes call the live-workflow functions; these write the
cleanup-state row and start workflow runs; each run's step claims the row's
lease, plans one operation from the job, executes it through the provider
(credentials from the connection row, a slot, every request behind the fence)
and commits by compare-and-set. The aggregate `CleanupJob` row is written after
the commit and outlives the state. Credits are accounted inside the same
compare-and-set. A cleanup starts from the report of a completed scan, and a
finished one marks that report stale. Disconnect, the purge and a discard
delete the state beneath whatever runs. The page polls the job and refreshes
itself when the job's status changes.

What is hard: two runs of one job (a repeated start, a lapsed lease, a retry by
the runtime); a crash on either side of a mutation; a mutation whose answer is
lost or that is processed late; a commit whose response is lost; pauses that
must resume in the right state; pairs of writes without a transaction; answers
that arrive after what they are about has changed. `PROJECT.json` lists each
such hazard at the line where it bites.

## 2. Modules

| Module | Models |
|---|---|
| `GmailJob` | the stored Gmail job and every function on it: the planner (`Plan`), the dispatch marker, what each of the nine operations makes of the job, quota pauses, confirmation, restore eligibility. No variables. |
| `JobStore` | the cleanup-state row of both providers: each operator is the WHERE or the data of one statement or serializable transaction. No variables. |
| `GmailCleanup` | the Gmail state machine: workflow runs, the row, the aggregate, the mailbox, the user's requests and the environment; its properties. |
| `GmailDispatch`, `GmailLedger` | the inductive invariants of the dispatch protocol and, on top of it, of the ledger. |
| `OutlookJob` | the stored Outlook job: candidates, targets, batches, and what preparation, moves, restore and the catch clause make of them. No variables. |
| `OutlookCleanup` | the Outlook state machine on `JobStore`. |
| `OutlookLedger` | its inductive invariant. |
| `PermanentDelete` | acceptance and deletion units, composed with all of `OutlookCleanup` on the same row. |
| `DeletionLedger` | its inductive invariant. |
| `Credentials` | the connection row, the refresh single flight, consents and approvals. |
| `ProviderAccess` | composes `Credentials` with slots, fences and the retry policies: a whole provider call. |
| `AccessCalls` | its inductive invariant, beside `CredentialsInv`. |
| `CreditLedger` | abstract: what credits promise, without leases, webhooks or sessions. |
| `Billing` | checkout, webhooks, reconciliation, job accounting and linking; implements `CreditLedger`. |
| `BillingLedger` | its inductive invariant. |
| `MailReport` | pure: folder index, normalisation, protection and cleanup rules, the streaming report, what is offered. |
| `LiveScans` | the scan row and the runs that fill it, reading and reporting with `MailReport`. |
| `DevCleanup` | the in-memory cleanup of the development routes. |
| `DevRecord` | its inductive invariant. |
| `CleanupClient` | the cleanup page beside the server's jobs. |
| `PageRecord` | its inductive invariant. |
| `GmailCleanupProofs` | lemmas and theorems on the Gmail cleanup: types and dispatch, then the ledger. |
| `OutlookProofs` | lemmas and theorems on the Outlook cleanup. |
| `DeletionProofs` | lemmas and theorems on permanent deletion. |
| `AccessProofs` | lemmas and theorems on credentials alone, then on whole calls. |
| `BillingProofs` | lemmas and theorems on billing, the refinement included. |
| `ScanProofs` | the inductive invariant of the scan row, and theorems on it. |
| `DevProofs` | lemmas and theorems on the development cleanup. |
| `PageProofs` | lemmas and theorems on the cleanup page. |
| `MC*` | instances for TLC, one module per component. |

`GmailCleanup` EXTENDS `GmailJob` and `JobStore`, `GmailDispatch` EXTENDS it and
`GmailLedger` that; `OutlookCleanup` EXTENDS `OutlookJob` and `JobStore`,
`PermanentDelete` and `OutlookLedger` EXTEND it, `DeletionLedger` both; `ProviderAccess` EXTENDS
`Credentials`, `AccessCalls` EXTENDS it; `LiveScans` EXTENDS `MailReport`;
`Billing` has an instance of `CreditLedger` with a refinement mapping and
`BillingLedger` EXTENDS it; `DevRecord` EXTENDS `DevCleanup`, `PageRecord` EXTENDS `CleanupClient`.

### The state of `GmailCleanup`

| Variable | Code |
|---|---|
| `row` | the `CleanupJobState` row: version, lease owner, whether the lease is `live` and the state `expired`, and the decoded job |
| `aggregate` | `CleanupJob.status` and `terminalState` |
| `worker[w]` | one workflow run: `pc` is the last database or provider call of `advance` that returned, with the step's copies (`job`, `version`, `op`) and how often the step has thrown |
| `trash`, `history` | the mailbox: messages with the label, and label events in order |
| `inflight`, `sent` | batchModify requests not yet processed, and how many each chunk has had (`sent` only counts) |
| `waiting` | `nextEligibleRunAt` is in the future |
| `connected` | the connection has its tokens |
| `user` | where the one user request of several calls (restore, discard, disconnect) is |
| `budget` | what is left of the bounds on the environment |

### The steps of `GmailCleanup`

A step of `advance` is cut at each call: `Claim` or `FindMissing`, then
`StopRun`, `Sleep`, or `MarkDurably` (dispatches only), `RefreshLock`, the
executor (`PassFence`, then `CheckSafety`, `Checkpoint`, `Send` and `Answered`,
or `Verify`; `Advance` needs no request; `PauseForQuota`, `Refuse` and
`LoseAnswer` end it otherwise), `Commit`, `Sync`, `Delete` and `Release`. Between
any two of them every other action may happen. The job is computed from the
step's own copy; nothing is read again.

The user's side is `Accept` (the first or a repeated start), `Confirm`,
`Redispatch`, the restore in three calls (`ClaimRestore`, `CommitRestore`,
`StartRestore`), the discard in three and disconnect in four. The environment's
is `Crash`, `AbandonRestore`, `LeaseLapses` (a live owner stalls),
`OrphanLapses` (a dead owner's lease ends), `WindowElapses`, `StateExpires`,
`Purge` and `RequestLands`, which lets a mutation change any subset of its
messages at any later time.

### Abstractions in the Gmail model

- *Data.* Index arrays are sets of messages and the view's counts follow from
  them. Classification is any subset of a chunk's targets. A history id is a
  position in `history`.
- *Time.* `live`, `expired` and `waiting` stand for comparisons with the clock;
  a refresh of a lease does not revive a lapsed one, as in its WHERE.
- *Verification* (`Outcomes`) reports a message moved when there is an event
  since the checkpoint or the label is there, failed only when the label is
  not, and uncertain otherwise: whatever mix of history, list and get produced it.
- *Single calls.* `Confirm`, `Accept` and `Redispatch` merge a read with the
  write or start that follows. For `Confirm` the write names the version that
  was read; what the merge does not show is an authorization that goes stale
  in between. A restore request that is refused has claimed and released the
  lease without effect and is left out.
- *Gates.* Production flags and infrastructure checks are part of `Authorized`
  (aggregate not cancelled, connection active). A database call that throws is a
  `Crash` followed by `OrphanLapses`: the release in the finally block need not
  succeed either.
- *Absent.* Fixture mode, permanent deletion of Gmail messages (the same units as
  in `PermanentDelete`, on chunk indexes), credit accounting (`Billing` has it;
  inside the compare-and-set it can only make a write fail), the status
  `failed`, and other writers of mailbox labels: the user does not move the
  same messages while the cleanup runs.

### Outlook cleanup and permanent deletion

A worker of `OutlookCleanup` is one workflow run with its current unit: `pc`, the
unit's in-memory `job` and the `version` it believes the row to have. The unit is
cut at every database and provider call: claim, load, checks, save (`Save` is the
compare-and-set under the unit's lease), request fence, batch request, its
answer, verification, the aggregate row, the catch clause with its look at the row,
release. `Fault` lets any of those calls throw, lose its response or its answer,
or kill the unit; a request nobody waits for lands late, in part or never
(`LandLate`). Confirm and undo are compare-and-sets without a lease, discard is one
serializable transaction, disconnect three statements.

A target's state stands for its record; `sent` only counts requests. Candidates
are verified `CheckSize` at a time, moved `BatchSize` at a time; the unit's limit
of batches and seconds is a choice to stop early. A batch is processed message by
message, each with its own status. View metrics and progress counters that no
decision reads are left out.

`PermanentDelete` adds deleters (acceptances and units, each one claim of the
same row) and the delete requests. The Gmail variant of the deletion runs the
same units on chunk indexes; its composition with `GmailCleanup` is not modelled.

### Provider access

`Credentials` has the connection row (tokens of two kinds, version, refresh lease,
session generation) and callers that look, claim the lease or wait, exchange,
commit by compare-and-set, reread and release. A token is the consent it stems
from and the number of the answer that issued it: enough to say which of two is
newer. `MaxAttempts` bounds a waiter's rounds. `ProviderAccess` puts the rest of a
call around it: fence, a round over the slots, fence again, request, and what the kind of the call allows after a failure: reads retry,
batches repeat the items that were throttled, mutations never; one forced refresh
after a 401. `Surroundings` are slot leases that lapse, cleanup leases that lapse,
switches between linked inboxes and disconnects with their second half.

### Credits and billing

A worker of `Billing` is a checkout, a webhook or a reconciliation, cut between its
database statements and Stripe calls, under the account's lease, which may lapse
anywhere. A transaction is one step. Stripe's side is a session and a charge per
purchase and the set of events sent; an event in the set may be delivered any
number of times, in any order, or (fault `lost`) never. A pack costs
`Cents`, of which any part may be refunded. `Ledger` is the refinement mapping to `CreditLedger`
(`Balances`, `Payments`, `Returns`, `Grants`, `Reversals`, `Holdings`): what it
must explain is that the money Stripe has and the balance the rows have differ
only by what is still to be granted or reversed. Jobs ask for as much as a pack
has (`Requests <- Packs`): the amount is an input, and those are enough to fill a
balance, to share it and to exceed it.

### Live scans

`MailReport` translates everything between a provider's message and an offer, as
operators over records whose text is abstracted: ages are bands, a protected
subject is a flag, a header is present or not. `LiveScans` has the row, the `Scan`
table and runs that claim, connect, index conversations, read pages and finish; a
page is read whole, a run keeps its report in memory, and progress is written under
the lease. `Update` is a read and a write of the row by a request; one that read the row
without a lock may write it after a claim, which leaves the version alone (`unlocked`).
The sleep of a run that found the row locked is `Wake`. An oversized
page makes a run begin the listing again with small pages.

### Development cleanup

Jobs and operations live in one process; an operation is cut where it awaits Gmail
or the database, and its locals are in `op`. Requests that join a running
operation change nothing. Group resolution is modelled round by round, since what it
deals out decides what is moved. Each attempt at the batch is a step (`TrashBatch`,
`TrashResend`): an attempt that is not answered may have moved some, all or none of the messages.
Undo's requests have the same retry, but are one step a message with one answer: a repeated untrash does
what the last attempt does. The bulk proof sends its request without a retry
(`bulk-undo-proof.ts` calls fetch itself), and awaits only the connection.

### The cleanup page

`CleanupClient` follows React's order: an answer changes `page` at once, `Commit`
runs the effects (start and stop of polls, availability notices, credit refresh)
later, and other answers may come between. Of the server it has only the statuses
that the other modules explain, and the order of the checks at the production
route. `load` is a refresh or reload under way, `poll` the polling the last commit
left. A refresh with the job in place brings the credits; the access it brings too, which may
start a new availability watch, which asks at once, or put a notice in the place of the component, is left out.
Clicks between an answer and its commit, the last step of the wizard, the
panel after a cleanup (but for Undo), what may be bought, per-phase statuses and
the branches of development are left out; a job is undone once, and a refused
start stands for every refusal.

## 3. Runs

`CHECK_DEADLOCK FALSE` everywhere: work that is over rests for good, and the
bounds on users and faults are spent.

| Run | Instance | Shows |
|---|---|---|
| `gmail_sequential` | 2 chunks, 1 run slot; undo, discard, disconnect, expiry; 1 pause, 1 failure, 2 starts, 1 retry | `TypeOK`, `LedgerIsTrue`, `OutcomeIsTrue` |
| `gmail_concurrent` | 2 chunks, 2 run slots (symmetric); undo; 1 lapse, 1 failure, 1 start, 1 retry | `AtMostOneRequest`, `RequestsInLedger`, `RecordStands`, `ReportStands` |
| `gmail_liveness` | 1 chunk, 2 run slots, `FairSpec`; undo; 1 pause, 1 failure, 2 starts, 2 retries | `WorkSettles`, `OutcomeIsReported` |
| `outlook_cleanup` | 2 messages, one per batch, 2 run slots (symmetric), five scenarios: one run with a failure and a discard or rollback; the same with a disconnect; two runs with a lapse and a discard; two runs with a throw or crash; a preparation that loses two responses and may expire | `AtMostOnce`, `LedgerIsTrue`, `OutcomeIsTrue`, `DiscardExcludesMoves`, `PreparationNotAbandoned`, `ForwardIsGated`, `LedgerNeverRegresses` |
| `outlook_liveness` | 1 run slot, `FairSpec`, with and without a failure | `WorkEnds` |
| `permanent_delete` | 2 moved messages, 2 deleters (symmetric), a restore run, 2 cuts, 3 calls | `AskedOnce`, `DeletionIsTrue` |
| `provider_access` | 2 callers (symmetric), 1 slot, 2 batch items, 1 retry, 2 rounds; ten mixes of call kinds and changes around them | `CredentialsAreCurrent`, `NeverOlder`, `StoppedCallsFallSilent`, `RequestsAreBounded`, `SwitchSparesUnits` |
| `billing` | 2 users, 2 purchases of packs 1 and 2, 2 jobs, 2 workers; eight plans of operations and faults; `LiveSpec` | `OneOpenCheckout`, `LinkedOwnNothing`, `CreditsAreLedger`, `PaymentsArrive` |
| `scans` | some 270 mailboxes of three or four messages, each for Graph, IMAP and Gmail without a fault, and eight mixes of faults with two runs (one of stale marks, a disconnect and another scan); pages of 2 and 1; `LiveSpec` | `ReportIsTrue`, `OffersAreSafe`, `EndedScansStayEnded`, `ScanSettles` |
| `dev_cleanup` | 4 letters of 2 senders and a sender that may not be cleaned up; up to 2 jobs, proof size 2, 3 attempts at a batch, up to 3 faults | `DevOutcomeIsTrue`, `MovesWhatWasAgreed`, `WorkIsInHand`, `PreviewIsExact` |
| `cleanup_client` | 1 or 2 cleanups of either provider, 2 requests at once, five mixes of faults | `BalanceCoversResult`, `NoticesAreAnswered`, `NeverTakenBack`, `WorkIsFollowed` |
| `claim_undo_shown` | one Gmail cleanup, nothing that goes wrong | `UndoneIsNotExpired` is violated, see section 5 |

Conjunctions: `RequestsInLedger` is `EvidenceCoversRequest` (what was sent has its
evidence in the row) and `RequestsMatchLedger` (what may still land has its
targets there); `WorkSettles` is `CleanupSettles` and `RestoreSettles`; `WorkEnds`
is `RunsEnd` and `JobSettles`.

Why the bounds are enough:

- *Chunks and batches.* Two are what the code distinguishes: a first, a last, and a
  next one to advance to; the production sizes (250 and 500 targets) give one and
  two Gmail chunks. One message per chunk is enough to be safe or excluded, moved
  or not; that messages of one chunk fare differently appears as chunks that do.
- *Runs, callers, workers.* Two suffice for a step and its successor under a lapsed
  lease, or a waiter and the one it waits for. Failures and lapses are bounded at
  one or two since they are the size of the state space; the theorems have no such
  bound. Where a module takes scenarios, each is one hazard with room to interleave,
  and their union covers every action.
- *Billing.* Two users are what linking needs; two purchases, an open one and its
  successor; two jobs, two claims on one balance.
- *Scans.* `RecurringMin` and `VeryHighMin` are lowered so that four messages cross
  them; pages of 2 and 1 give a first, a middle and a last page. The mailbox kinds
  are sixteen messages, each with one thing the rules look at.
- *Retries.* 3 retries, 100 attempts and 200 rounds of the code are 1, 2 and 2: one
  that succeeds later and one that runs out. The 4 attempts at a development batch are 3
  (`RetryAttempts`): a first, a middle and a last.

### Fairness

Fairness is what the platform does by itself, and where stated, users who come back.

- Gmail: each run's next step (the workflow runtime drives every run and retries a
  step that throws), a request in flight is processed or dropped, the lease of a
  dead owner and a quota window end with the clock, and a request handler that is not
  killed finishes. Users are never obliged to do anything: hence the leads-to
  properties start where some run is about to look at the job (`RunReady`). Retries
  exceed failures in that run, since a run the runtime has given up stays so.
- Outlook: units run on, dead owners' leases lapse, disconnects are carried through.
  Its workflow does not retry a unit that throws; that a job settles therefore also
  needs its user to repeat the request (`Redispatch`), and `WorkEnds` says so.
- Billing: requests run on, leases end, what was read of an account
  grows stale after five minutes (`Stales`), and its user comes back to the billing page (`Reconcile`):
  with webhooks that may be lost nothing else asks Stripe.
- Scans: runs step, leases of the dead end, a request that has begun finishes.
- Page: the server works on, timers fire, React commits, and whoever hides the tab
  comes back to it (`Show`): in a hidden tab nothing is polled. Clicks are not fair.

A live owner's lease that lapses is fair nowhere, nor is expiry. No safety property
depends on fairness, also where one run checks both.

## 4. Theorems

Checked by tlapm for every value of the constants satisfying the named assumptions.

### Gmail cleanup

`GmailCleanupProofs`, for any chunks, messages, workers and failures:

- `TypeCorrect == Spec => []TypeOK`, one lemma per group of
  actions, over the lemmas of its first part that each function on jobs returns a
  job.
- `DispatchProtocol == Spec => []DispatchInv`.
- `AtMostOnce == Spec => []AtMostOneRequest`, its corollary: any number of chunks and
  runs, any faults.

`AtMostOneRequest` is not inductive: nothing in it prevents a state in which
two steps stand before the same request. `DispatchInv` adds what does:

1. `JobsOK`: in every job record, the row's or a step's, at most one chunk is in
   a sensitive status, none before its check and after its verification. So the
   chunk whose marker the planner's search sets is the chunk the executor
   sends (two different searches in the code).
2. `OpsOK`: the operation under way is one the planner chooses for the copy, so
   that no check, advance or pause undoes 1.
3. `CopiesOK`: a copy whose version is the row's is the row's job, and a result
   keeps its markers. Every write increments the version, so of two copies
   at most one can be written.
4. `RequestsOK`: a `Permit` (a step past its marker) is the only one for its
   chunk, unused, and backed by the marker in the row; so is every request sent.

A permit arises only from `MarkDurably`, whose write needs the current version
and a copy without the marker; by 3 the row has none either, so by 4 there is no
other permit and no request. `Send` uses the permit up. All other writes keep
the markers, except confirmation, which clears them in a job that has none set
(1: a `ready` job is unconfirmed, and an unconfirmed one has no marker). The
lease plays no part in the argument: versions and markers alone make a
mutation at most once.

On it rests `CleanupInv` (`GmailLedger`; `CleanupRecord == Spec => []CleanupInv`), of
which four properties are consequences:

- `RecordKept == Spec => RecordStands`, `RequestsRecorded == Spec => []RequestsInLedger`,
  `LedgerTrue == Spec => []LedgerIsTrue`, `OutcomeTrue == Spec => []OutcomeIsTrue`.

What the row says can be wrong in a later state only if something before it was
recorded that the row does not show, so the invariant is about what is owed:

1. `JobsLedger`: in every job, restored messages were moved and moved ones safe, each
   status has its ledger, and a paused job resumes in the phase it was paused in;
   the operation under way is one of that phase.
2. `ResultsContinue`: the result of a step whose version is the row's loses nothing
   the row has. Confirm, Accept and the restore write without a result; they find
   jobs in which there is nothing to lose (`RestoreEligible` for the restore, which
   looks in one call and writes in the next).
3. `MailInv`: messages in Trash and label events stem from requests sent, each
   processed once; `EvidenceKept`: a checkpoint in a job that may be the row's is
   older than every event of its chunk.
4. `RequestsNamed`: a request on its way, or one whose permit is given, has its
   targets in the row. Hence verification, which believes only events after the
   checkpoint and labels, can call nothing moved that was not (`LedgersTruthful`).

### Outlook cleanup

`OutlookProofs`, for any pool, batch sizes, runs, and scenarios:

- `JobCorrect == Spec => []OutlookInv`, and from it `MovesOnce == Spec => []AtMostOnce`,
  `LedgerTrue == Spec => []LedgerIsTrue`, `OutcomeTrue == Spec => []OutcomeIsTrue`,
  `DiscardSafe == Spec => []DiscardExcludesMoves`, and the action properties
  `MovesGated == Spec => ForwardIsGated` and `LedgerAdvances == Spec => LedgerNeverRegresses`.

None of these is inductive: each speaks of the row, and the row is overwritten by copies
made earlier. `OutlookInv` (`OutlookLedger`) says of the copies what matters of them:

1. `JobFits`: pending targets belong to the active batch, and each final status has
   its targets; a completed restore has nothing that could still come back.
2. `TargetTrue`: what each state of a target says of its message, of the requests sent
   for it and of those on their way. It holds of the row's job and of every copy
   that is `Current`, that is, whose version the row still has (`CopyTrue`); of the
   others nothing need be known, since the compare-and-set refuses them.
3. `NeverBack`: a current copy has no target before the row's state. All operations
   of `OutlookJob` go on, which the lemmas of the first part show one by one.
4. `SenderIsAlone`: a unit that has saved its intent and still holds the lease has the
   row's version, and every other copy is older. So when the fence finds the lease, the
   intent is the one in the row, and its messages were not asked before.
5. `RequestsMatch`: requests on their way are of different messages and belong to the
   unit that waits for them; an abandoned one finds its targets in doubt, and
   nothing asks for a doubtful target again.
6. `EndTrue`: a unit that carries a completed restore to the aggregate row, maybe long
   after, says what is still so, because such a job is `Over`: no copy of it sends.

Unlike Gmail's, this argument needs the lease: another unit may
replace the intent as soon as it is lost, and users write without one, but only jobs in
a status in which nothing is sent.

### Permanent deletion

`DeletionProofs`, for any pool, batch sizes, restore units, deleters and scenarios, from any
finished cleanup:

- `DeletionCorrect == DeletionSpec => []DeletionInv`, and from it
  `AskedForOnce == DeletionSpec => []AskedOnce` and `DeletionTrue == DeletionSpec => []DeletionIsTrue`.

A restore and a deletion are two programs on one row. The code keeps them apart in one place,
`Blocked`: an acceptance takes only messages that are still moved and that no restore has, a
restore passes over those a deletion has. Each of them looks at its own copy, some calls before
it writes. `DeletionInv` (`DeletionLedger`) therefore treats a restore unit and a deleter as one
kind of actor with a copy:

1. `JobSplit`: in every copy, what a deletion has taken stays `moved_verified`, unless the
   restore had it first.
2. `JobKnows`: the row, and every copy that is `Live` (it has the row's version and its actor
   will still write), know of each message whether the provider was asked for it, and call
   it deleted only if it is gone. Nothing need be known of the other copies.
3. `AskerIsAlone`: an actor that has saved its intent and still holds the lease has the only
   copy with the row's version; that copy is the row's job, and the messages of its intent are
   `Unasked`. Every request is sent right after a fence that found the lease, hence for the
   first time, and the row already says that it may have been.
4. `DeleterFits`, `WorkerFits`: a deleter has at most one target in its intent, and an intent that it
   finds made by another is uncertain from then on; a restore unit of a finished cleanup sends
   nothing but restores.
5. `RestoresMatch`: a restore on its way is the only one of the unit that waits for it. A request that
   nobody waits for any more is counted in `asked` and `sent` and may still land.

Users write the row without the lease: an Undo, and a disconnect. While an intent stands an Undo
finds a restore already begun, which it leaves alone, or a deletion that runs, which it must not
join; so neither replaces an intent that is about to be sent. Before it was proved, TLC checked
`DeletionInv` on an instance of three million states.

### Provider access

- `AccessKeepsCredentials == Spec => []CredentialsAreCurrent` and
  `AccessNeverOlder == Spec => NeverOlder` (`AccessProofs`), for `ProviderAccess` with
  any callers, slots, retries and surroundings. They rest on `CredentialsCorrect` and
  `CredentialsNeverOlder`'s step lemmas, both on `Credentials` alone: the calls around a refresh
  and the switch between inboxes leave tokens and versions alone.

`CredentialsAreCurrent` speaks of the row; a refresh acts on what it read. The inductive
`CredentialsInv` says what the two have to do with each other: while the row still has
the version that was read, its token is the one that was read (`Fresh`), and the answer
about to be committed is newer than it; and no token is newer than the provider's
last answer (`NoneAhead`). Every consent, approval, disconnect and commit raises the
version, so the compare-and-set fails whenever `Fresh` says nothing. Again the refresh
lease is not needed for safety; it only keeps refreshes from being wasted.

- `CallsCorrect == Spec => [](CallsInv /\ CredentialsInv)` for whole calls, and from it
  `FallSilent == Spec => []StoppedCallsFallSilent`,
  `WithinBounds == Spec => []RequestsAreBounded`, `UnitsAreSpared == Spec => SwitchSparesUnits`.

`CallsInv` (`AccessCalls`) accounts for each request: every one but the first was paid for
by a repetition or by the one refresh (`Paid`), and a request after the end of its work is
the last, because that work cannot begin again and the call has to pass its fence first
(`LateIsLast`). The latter needs that no call has a session yet to be given out
(`SessionsGiven`); a slot is held or its lease has lapsed (`SlotsAreHeld`).

### Credits and billing

`BillingProofs`, for any users, purchases, packs, jobs, requests at once, and scenarios:

- `BillingFits == Spec => []BillingInv`, and from it
  `OneCheckout == Spec => []OneOpenCheckout`, `LinksHideNothing == Spec => []LinkedOwnNothing`,
  and the refinement `CreditsLedger == Spec => CreditsAreLedger`.

A request acts on what it read some calls ago, under a lease that may have lapsed since.
`BillingInv` (`BillingLedger`) says what it can still rely on:

1. `PurchasesFit`: what a row or a request has seen of a payment is what Stripe's side
   says or said before (`Backed`): the whole pack or nothing, and no more taken back than
   is. Sessions are completed once and refunds only grow, so the maximum that `Fulfill` takes
   of an old answer and the row is never more than the truth, and each credit is given once,
   whoever brings the news. A session that is open belongs to a pending row.
2. `OnePending`, the unique index: with 1, two payable sessions would be two pending rows.
   It is the index that keeps it, not the lease. But `Fulfill` also writes a status, and an answer
   "still pending" written over a settled row would make a second one. What a request read
   as pending is so while it has the lease (`RequestFits`): here the lease is needed.
3. `RequestFits` and `LinksFit`: a checkout that is past the look at its owner is of an
   account that exists and is not linked. Only an account that does not exist may be
   linked, so no link comes between the look and the purchase. With `AccountsFit` and
   `JobsFit` (balances and jobs are of accounts that exist) a linked inbox owns nothing.

The refinement takes the actions one by one (`StepLedger`): `CreatePurchase` orders,
Stripe's changes pay and take back, `Commit` settles or repeats what was settled,
`ReserveCredits` reserves, `AccountProgress` spends or releases, `JobStateDeleted`
releases, and nothing else moves a credit. The largest pack bounds a payment: that there is
one is in `PacksAssumption`, as the list of packs is a constant of `packs.ts`;
`NobodyAssumption` keeps the null of the model apart from ids.

### Live scans

- `RowsAgree == Spec => []ScanInv` and `EndedIsEnded == Spec => EndedScansStayEnded`
  (`ScanProofs`), for any runs, scans, mailboxes and pages.

A run writes only while it `Holds` the row, which includes that the `Scan` table calls its scan
running, so runs never write an ended scan: that part needs no invariant. Requests do: `Cancel`
and `MarkStale` write a row without a lock whatever the table says, and with it the status in
the row to the table (`Update`). They mostly harm nothing because the row says what the table
says (`RowFits`), so an ended scan is written as it was. The one time when they differ is inside a
disconnect, which cancels the entries a statement before it deletes the row: `Cancel` then
writes `cancelled` a second time, but a stale mark writes `running` back
(`MarkedInDisconnect`). The property names that and the count of duplicate starts, which
reopens row and entry together, as all that may reopen a scan. What a report says is not part
of this.

### Development cleanup

`DevProofs`, for any jobs, messages, selections, group offers and scenarios of faults:

- `DevCorrect == DevSpec => []DevInv`, and from it
  `DevOutcomeHolds == DevSpec => []DevOutcomeIsTrue`, `DevWorkInHand == DevSpec => []WorkIsInHand`
  and the action property `DevMovesWhatWasAgreed == DevSpec => MovesWhatWasAgreed`.

There is no row, version or lease here: jobs and operations are maps in the memory of a process,
and `updateGmailCleanupJob` spreads a patch over the job, or over its caller's copy when the job is
gone. So an old copy may come back as the job, and `DevInv` (`DevRecord`) is about copies:

1. `RecordFits` and `AnswersFit` say of any record of a job, before and after the batch, what it may
   contain. They hold of the job, of every operation's copy and of the copy that a proof's request
   has while it waits for its connection.
2. `TrashFits`: a Trash operation is alone with its job, and its copy is the job but for the clock
   (`Alike`). That rests on statuses only: Undo and proof take a `completed` job, Start over and
   another confirmation are refused while the operation is known. Until the batch its messages passed
   the recheck again; at the batch they are all of those agreed upon. A batch that is about to be
   sent again (`resend`) was sent as often as its operation has counted, was never answered, and
   nothing of it has been read.
3. `CopyFits`: Undo and proof can overlap, and each writes over what the other wrote. Their copies are of
   a job whose messages were all read in Trash, which neither can change any more; what both write
   is what they read themselves.
4. `Harmless`: a job that was discarded, or is a benchmark's, was never moved, and nobody has a copy
   from which it could be. The benchmark's own copy belongs to the resolution (`ResolutionFits`).
5. `InHand`: a status that somebody has to end has its operation. The exception is the failure to
   mark the report stale, and `WorkIsInHand` names it.
6. `MailFits`: what was starred at the confirmation is not found in the inbox again, so no recheck
   lets it pass. In the model nobody removes a star: a message that loses it again may be moved.

`DevAssumption` numbers the jobs, lets a batch be tried at least once and gives scenarios their type.
TLC checked `DevInv` on the 215 thousand states of `dev_cleanup` before it was proved.

### The cleanup page

`PageProofs`, for any cleanups, requests at once and scenarios of faults:

- `PageCorrect == ClientSpec => []ClientInv`, and from it
  `PageGoesOn == ClientSpec => NeverTakenBack`, `BalanceShown == ClientSpec => []BalanceCoversResult`,
  `NoticesKept == ClientSpec => []NoticesAreAnswered`.

An answer says what was so when it was given, and nothing in it says when that was. That the page
does not go back rests on who may change it, and `ClientInv` (`PageRecord`) says so:

1. `Past`: what the page, a poll's answer, the answer to an operation or a page being loaded
   have of a job is what the server had of it at some time. The server's changes are counted, and
   each is later than all before (`ServerFits`).
2. `PollFits`: an answer that waits to be taken is of the job that is polled, and no older than
   the one on the page (`Later`). A commit stops the poll of any other job.
3. `ActiveFits`: while an operation is under way nothing is polled, so that only its answer
   changes the page. It holds because no view offers an operation in a status that is polled
   (`OffersFit`), with one exception: a selection under check may be given up. Its polls
   go on, so their answers and its own come in any order.
4. `DroppedFit` settles that exception: what was given up is gone on the server for good, the page
   remembers it, and a poll's answer for it is passed over.
5. `CallsFit`: the component has at most one request of its own, that of its active operation.
   A component that was replaced takes no notice of the answers to its requests (`mine`).
6. `PresentedFits`: a result the page has asked the balance for is `Covered`: the credits have
   it, or a load is under way that has not read them yet, or will be followed by another.
   `CreditsFit`: what is being loaded is never older than what is shown.

`Covered` is why a refresh that is asked for while another is under way may not be dropped:
the other may have read the credits before the result.
A page that the server rendered is outside `NeverTakenBack`, as a refresh that crossed a
request of the page does show the job as it was before (section 5). `CleanupClientAssumption` says
that scenarios name cleanups of the instance and keeps the null of the model apart from views and
operations. TLC checked `ClientInv` on 13 million states before it was proved.

### Model-checked only

- Everything temporal under fairness (`WorkSettles`, `OutcomeIsReported`, `WorkEnds`,
  `PaymentsArrive`, `ScanSettles`, `WorkIsFollowed`): liveness is beyond the prover.
- `ReportStands` of Gmail, which speaks of the aggregate that no proof has as yet, and
  `PreparationNotAbandoned` of Outlook, which is stated for one scenario. `ReportStands` was
  also checked once with a disconnect among two runs, six million states, which takes too long
  for a run of the project.
- `PreviewIsExact` of the development routes, `ReportIsTrue` and `OffersAreSafe` of scans: what the
  round robin deals out, and what `MailReport` computes, is a fold; its value for every
  mailbox needs an induction the prover does not have.

## 5. What the model says about the code

`claim_undo_shown` is a disagreement TLC demonstrates: `organizinbox-specs.md:1280` has
status reads fall back to the terminal snapshot so that the browser reaches
`UNDO_COMPLETE`; the production boundary in front of them
(`production-cleanup.ts:60`) refuses a Gmail job that has no row any more, and the page
shows a completely restored cleanup as expired.

Behaviours met while modelling, which the models contain and the properties are
stated around:

- Gmail: a discard goes by the job's status and accepts a job whose first chunk is
  in Trash. A quota pause in the preflight resumes as `mutating` in a job that no run
  continues and no confirmation accepts. The Gmail fence names no lease owner, so
  a step of uncertain ownership may mutate (still at most once). The aggregate write
  names no version, so a step that stalls between its commit and that write can tell of
  an older outcome: a run commits `complete`, its lease lapses, a restore is claimed and
  committed, and then the first run writes the snapshot `complete`; if the restore's end has
  been written meanwhile and the state is deleted, the snapshot `undo_complete` is lost. `ReportStands`
  admits exactly these writes (`Overtaken`) and forbids the others. A begun restore whose run was not started cannot be started by
  any request.
- Provider access: a sign-in sets `sessionGeneration` to null (`google-oauth.ts:305`,
  `microsoft-oauth.ts:322`) until the session is activated, and the fence compares null with
  null (`provider-work-fence.ts:54`). A unit that loads the connection in between works for no
  session: the activation stops it, and every later sign-in lets it go on until that one is
  activated. The proof of `StoppedCallsFallSilent` for all calls failed on this, and TLC shows two
  late requests with four consents; the property is stated for calls that work for a scan or
  a session (`HasWork`).
- Scans: a stale mark is refused while a completed row still has its lock, and lost if
  that lock was never released; a progress save under way drops the mark as well. A mark
  takes whatever row there is, that of a new scan too, and writes its status to the `Scan`
  table: between disconnect's cancelling of the scans and its delete of the row
  (`disconnect.ts:89` and after) it turns a cancelled scan into a running one, whose row is then
  deleted. The count of duplicate starts writes without a lock and can reopen an ended scan. A
  run that lapsed leaves its row `running` until it expires. Gmail offers messages
  without a readable sender, Outlook does not, and IMAP offers nothing.
- Development: `batchModify` goes through `fetchWithRetry`, which sends it again after a timeout, a
  transport error or a 5xx, up to four times with pauses in between and without looking: a message
  that was moved by an unanswered attempt and that its user took out of Trash again is moved
  a second time. A failure to mark the report stale is outside the try and leaves a
  job running for ever. The proof's request checks before it awaits its connection, so
  an Undo can start beside it. The recovery counts a refused read as restored.
  Disconnect does not stop an operation under way, whose write brings the job back.
  Two ready jobs over the same mail can both ask. A benchmark whose recheck fails
  leaves the job `ready`.
- Page: a confirmation answered with 410 shows nothing in the views of production. A
  refresh that crosses an Undo remounts the page with the older job, whose Undo is
  not polled until a reload. The page's data reads the credits before the job, so a
  job that ends in between comes with an old balance. A lost answer to a
  confirmation leaves the page at `ready` until it is retried.

## 6. Not modelled

- Outlook state chunks: a storage format, written and read inside one transaction.
  The rows of the models are one value each, encryption included.
- `CleanupJobRunner` in `gmail-scalable-cleanup-runner.ts`: only its own test uses
  it; the durable workflow superseded it.
- The OAuth exchange (state cookie, scopes, identity checks): what a sign-in writes to
  the connection is in `Credentials`.
- The Gmail variant of permanent deletion composed with the Gmail workflow; the
  purge's sweep in batches; shadow verifiers, fixtures, benchmarks.
- Billing configuration and HTTP responses; the scan page, the report's views,
  and marketing pages: constant, rendering, or a poll of the kind `CleanupClient` has.

## 7. Plan

Done: the modules above, in the order of section 2, and the theorems of section 4.

1. An abstract specification of what a cleanup promises (each message is untouched,
   moved once, restored once, with an honest report) that `GmailCleanup` and
   `OutlookCleanup` both implement.
2. Permanent deletion within `GmailCleanup`, and credit checks in its compare-and-set.
