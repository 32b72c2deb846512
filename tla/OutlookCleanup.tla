--------------------------- MODULE OutlookCleanup ---------------------------
(***************************************************************************)
(* One Outlook cleanup job under the provider cleanup workflow: the units   *)
(* that any number of workflow runs execute (prepare, cleanup, undo), the   *)
(* user's confirm, undo, discard and disconnect, the mailbox behind         *)
(* Microsoft Graph, and the failures in between: units that die, database   *)
(* calls that throw, commits whose response is lost, leases that lapse      *)
(* under a stalled unit and requests that land late or never.               *)
(*                                                                          *)
(* A worker is one run's current unit: job is the unit's in-memory job,     *)
(* version the version it believes the row to have.  Between any two of its *)
(* database and provider calls every other action may happen.               *)
(***************************************************************************)
EXTENDS OutlookJob, JobStore

CONSTANTS
  Workers,    \* workflow runs that may exist at a time
  Orphan,     \* the lease owner of a unit that is gone
  Scenarios   \* what may happen around the job, see Scenario

\* The environment bounds of a behaviour: runs at a time, runs started, leases
\* that lapse under a live unit, failures and which, and what else may happen.
Faults == {"response", "throw", "answer", "crash"}
Events == {"discard", "disconnect", "rollback", "expiry"}
Scenario ==
  [runs : Nat, starts : Nat, lapses : Nat, failures : Nat,
   faults : SUBSET Faults, events : SUBSET Events]

ASSUME OutlookCleanupAssumption ==
  /\ {NoOwner, Orphan} \cap Workers = {} /\ NoOwner # Orphan
  /\ Scenarios \subseteq Scenario

VARIABLES
  row,        \* the cleanup-state row
  aggregate,  \* the CleanupJob row that outlives it
  worker,     \* what every workflow run is doing
  mailbox,    \* the folder of every candidate's message
  inflight,   \* batch requests sent and not yet processed
  sent,       \* how often a message's move and its restore were requested
  connected,  \* the provider connection is active
  open,       \* forward cleanup is entitled and not rolled back
  leaving,    \* how far a disconnect or a discard has come
  budget      \* what may still happen around the job

vars == <<row, aggregate, worker, mailbox, inflight, sent, connected, open, leaving, budget>>

Operations == {"prepare", "cleanup", "undo"}
Mutations == {"cleanup", "undo"}
Owners == Workers \cup {Orphan}

PCs ==
  {"off", "idle", "claimed", "authorized", "working", "checking", "checked", "batching", "saving",
   "intended", "awaiting", "verifying", "done", "failing", "recording", "noting", "releasing"}

Units ==
  [pc : PCs, op : Operations, access : {"forward", "recovery"}, job : Jobs, version : Nat,
   next : PCs, outcome : {"stop", "continue"}]

NoUnit == [pc |-> "off", op |-> "prepare", access |-> "forward", job |-> AcceptedJob,
           version |-> 0, next |-> "off", outcome |-> "stop"]

Idle(op) == [NoUnit EXCEPT !.pc = "idle", !.op = op]

Terminal == {"complete", "partial", "uncertain", "failed", "undo_complete"}

TypeOK ==
  /\ row \in Rows(Owners, Jobs)
  /\ aggregate \in [status : {"pending", "running", "completed", "partial", "failed", "cancelled"},
                    terminal : Terminal \cup {"none"}]
  /\ worker \in [Workers -> Units]
  /\ mailbox \in [Candidates -> {"original", "deleted", "restored"}]
  /\ inflight \in SUBSET [worker : Owners, op : Mutations, targets : SUBSET Candidates]
  /\ sent \in [Mutations -> [Candidates -> Nat]]
  /\ connected \in BOOLEAN /\ open \in BOOLEAN
  /\ leaving \in {"no", "discarded", "disconnecting", "clearing", "gone"}
  /\ budget \in Scenario

\* startOutlookCleanup's transaction has committed; no run has been started.
Init ==
  /\ row = Created(AcceptedJob)
  /\ aggregate = [status |-> "pending", terminal |-> "none"]
  /\ worker = [w \in Workers |-> NoUnit]
  /\ mailbox = [t \in Candidates |-> "original"]
  /\ inflight = {} /\ sent = [op \in Mutations |-> [t \in Candidates |-> 0]]
  /\ connected = TRUE /\ open = TRUE /\ leaving = "no"
  /\ budget \in Scenarios

environment == <<mailbox, inflight, sent, connected, open, leaving>>

-----------------------------------------------------------------------------
(* What every unit does.                                                    *)

Set(w, unit) == worker' = [worker EXCEPT ![w] = unit]

Goto(w, pc) == Set(w, [worker[w] EXCEPT !.pc = pc])

\* What is left of a unit that has its outcome: the release of its lease.
Leave(w, outcome) ==
  Set(w, [Idle(worker[w].op) EXCEPT !.pc = "releasing", !.outcome = outcome])

\* The unit's in-memory job changes and is about to be saved.
Save(w, job, next) == Set(w, [worker[w] EXCEPT !.job = job, !.pc = "saving", !.next = next])

End(w, job, outcome) ==
  Set(w, [worker[w] EXCEPT !.job = job, !.pc = "saving", !.next = "done", !.outcome = outcome])

Fails(fault) == /\ fault \in budget.faults /\ budget.failures > 0
                /\ budget' = [budget EXCEPT !.failures = @ - 1]

Authorized == connected /\ aggregate.status # "cancelled" /\ Visible(row)

Claim(w) ==
  /\ worker[w].pc = "idle"
  /\ IF Claimable(row)
     THEN /\ row' = Claimed(row, w)
          /\ Set(w, [worker[w] EXCEPT !.pc = "claimed", !.job = row.job,
                                      !.version = row.version, !.outcome = "stop"])
     ELSE row' = row /\ Set(w, NoUnit)
  /\ UNCHANGED <<aggregate, budget, environment>>

\* Mutant: every cleanup unit may end under recovery access.
AccessOfOperation(w) == IF worker[w].op = "prepare" THEN "forward" ELSE "recovery"

\* A unit that may only have to verify a dispatched batch needs no forward access.
Access(w) ==
  IF worker[w].op = "undo" \/ (worker[w].op = "cleanup" /\ worker[w].job.moving # {})
  THEN "recovery" ELSE "forward"

\* requireProductionCleanupAccess
Authorize(w) ==
  /\ worker[w].pc = "claimed"
  /\ Set(w, [worker[w] EXCEPT
       !.access = Access(w),
       !.pc = IF Authorized /\ (Access(w) = "forward" => open) THEN "authorized" ELSE "failing"])
  /\ UNCHANGED <<row, aggregate, budget, environment>>

\* getActiveMicrosoftConnection found one ...
Connect(w) ==
  /\ worker[w].pc = "authorized" /\ connected
  /\ Goto(w, "working")
  /\ UNCHANGED <<row, aggregate, budget, environment>>

Writable(w) == Owns(row, w) /\ CanReplace(row, worker[w].version)

\* ... or none: failJob, whose write may be refused without notice.
FailJob(w) ==
  /\ worker[w].pc = "authorized" /\ ~connected
  /\ LET job == ConnectionFailed(worker[w].job) IN
     /\ row' = IF Writable(w) THEN Replaced(row, job) ELSE row
     /\ Set(w, [worker[w] EXCEPT !.job = job, !.pc = "done", !.outcome = "stop"])
  /\ UNCHANGED <<aggregate, budget, environment>>

\* save(): a compare-and-set by version under the unit's own live lease.
SaveCommits(w) ==
  /\ worker[w].pc = "saving" /\ Writable(w)
  /\ row' = Replaced(row, worker[w].job)
  /\ Set(w, [worker[w] EXCEPT !.pc = worker[w].next, !.version = @ + 1])
  /\ UNCHANGED <<aggregate, budget, environment>>

SaveRefused(w) ==
  /\ worker[w].pc = "saving" /\ ~Writable(w)
  /\ Goto(w, "failing")
  /\ UNCHANGED <<row, aggregate, budget, environment>>

\* The commit's response is lost (the unit still has the old version), or the
\* renewal of the lease throws after it.
SaveResponseLost(w) ==
  /\ worker[w].pc = "saving" /\ Writable(w) /\ Fails("response")
  /\ row' = Replaced(row, worker[w].job)
  /\ \E known \in {0, 1} :
       Set(w, [worker[w] EXCEPT !.pc = "failing", !.version = @ + known])
  /\ UNCHANGED <<aggregate, environment>>

\* Any other call of the unit throws.
Throw(w) ==
  /\ worker[w].pc \in {"claimed", "authorized", "working", "checking", "checked", "saving", "intended", "done"}
  /\ Fails("throw") /\ Goto(w, "failing")
  /\ UNCHANGED <<row, aggregate, environment>>

AggregateStatus(status) ==
  CASE status \in {"complete", "undo_complete"} -> "completed"
    [] status = "failed"                        -> "failed"
    [] status \in {"partial", "uncertain"}      -> "partial"
    [] OTHER                                    -> "running"

\* updateAggregateCleanupRow
Synced(job) ==
  IF aggregate.status = "cancelled" THEN aggregate
  ELSE [status |-> AggregateStatus(job.status),
        terminal |-> IF job.status \in Terminal THEN job.status ELSE "none"]

Report(w) ==
  /\ worker[w].pc \in {"done", "noting"}
  /\ aggregate' = Synced(worker[w].job)
  /\ Leave(w, worker[w].outcome)
  /\ UNCHANGED <<row, budget, environment>>

\* Mutant: only the last save of a preparation is worth the look.
RescuedWhenReady(w) ==
  /\ worker[w].op = "prepare" /\ Visible(row) /\ row.job.status = "ready"
  /\ row.version = worker[w].version + 1

\* The catch clause's evidence that the last save of a preparation committed.
Rescued(w) ==
  /\ worker[w].op = "prepare"
  /\ Visible(row) /\ PreMutation(row.job)
  /\ row.version = worker[w].version + 1
  /\ Cardinality(In(row.job, {"candidate"})) = Cardinality(In(worker[w].job, {"candidate"}))
  /\ Cardinality(Approved(row.job)) = Cardinality(Approved(worker[w].job))

\* The catch clause: go on from a checkpoint whose response was lost, or fail.
Catch(w) ==
  /\ worker[w].pc = "failing"
  /\ IF Rescued(w)
     THEN Leave(w, IF row.job.status = "ready" THEN "stop" ELSE "continue")
     ELSE Set(w, [worker[w] EXCEPT !.pc = "recording", !.job = UnitFailed(@), !.outcome = "stop"])
  /\ UNCHANGED <<row, aggregate, budget, environment>>

\* The catch clause cannot read the row and takes the checkpoint for lost.
RereadFails(w) ==
  /\ worker[w].pc = "failing" /\ worker[w].op = "prepare" /\ Fails("throw")
  /\ Set(w, [worker[w] EXCEPT !.pc = "recording", !.job = UnitFailed(@), !.outcome = "stop"])
  /\ UNCHANGED <<row, aggregate, environment>>

\* Mutant: the failure is written whatever the row has become by now.
RecordedBlindly(w) == Visible(row)

\* The WHERE of the catch clause's write.
Recordable(w) == Writable(w)

RecordFailure(w) ==
  /\ worker[w].pc = "recording"
  /\ IF Recordable(w)
     THEN row' = Replaced(row, worker[w].job) /\ Goto(w, "noting")
     ELSE row' = row /\ Leave(w, "stop")
  /\ UNCHANGED <<aggregate, budget, environment>>

\* Neither this write nor the aggregate's may fail the unit again.
RecordingFails(w) ==
  /\ worker[w].pc \in {"recording", "noting"} /\ Fails("throw")
  /\ Leave(w, "stop")
  /\ UNCHANGED <<row, aggregate, environment>>

\* The finally clause; the run goes on with the next unit or ends.
Release(w) ==
  /\ worker[w].pc = "releasing"
  /\ row' = Released(row, w)
  /\ Set(w, IF worker[w].outcome = "continue" THEN Idle(worker[w].op) ELSE NoUnit)
  /\ UNCHANGED <<aggregate, budget, environment>>

\* Nobody waits for the worker's request any longer.
Abandoned(w) ==
  inflight' = {IF r.worker = w THEN [r EXCEPT !.worker = Orphan] ELSE r : r \in inflight}

\* The process dies inside the unit; the workflow does not retry the step.
Crash(w) ==
  /\ worker[w].pc \notin {"off", "idle"} /\ Fails("crash")
  /\ row' = IF row.present /\ row.owner = w THEN [row EXCEPT !.owner = Orphan] ELSE row
  /\ Set(w, NoUnit) /\ Abandoned(w)
  /\ UNCHANGED <<aggregate, mailbox, sent, connected, open, leaving>>

-----------------------------------------------------------------------------
(* prepareOutlookJob                                                        *)

\* What the unit answers to the workflow after a preparation.
PreparationOutcome(job) == IF job.status = "resolving" THEN "continue" ELSE "stop"

Prepare(w) ==
  /\ worker[w].pc = "working" /\ worker[w].op = "prepare"
  /\ LET job == [worker[w].job EXCEPT !.status = "resolving"] IN
     IF worker[w].job.status \notin {"created", "resolving"} 
     THEN Set(w, [worker[w] EXCEPT !.pc = "done", !.outcome = PreparationOutcome(worker[w].job)])
     ELSE IF job.verifying THEN Set(w, [worker[w] EXCEPT !.job = job, !.pc = "checking"])
     ELSE Save(w, [job EXCEPT !.verifying = TRUE], "checked")
  /\ UNCHANGED <<row, aggregate, budget, environment>>

CheckCandidates(w) ==
  /\ worker[w].pc \in {"checking", "checked"} /\ MoreToCheck(worker[w].job)
  /\ \E eligible \in SUBSET NextChecked(worker[w].job) :
       Save(w, Checked(worker[w].job, eligible), "checked")
  /\ UNCHANGED <<row, aggregate, budget, environment>>

\* Nothing to check, or the step's batches or its 15 seconds are used up: not
\* before the unit has either loaded its context or checked a batch.
EndPreparation(w) ==
  /\ worker[w].pc = "checked" \/ (worker[w].pc = "checking" /\ ~MoreToCheck(worker[w].job))
  /\ LET job == VerificationEnded(worker[w].job) IN
     End(w, job, PreparationOutcome(job))
  /\ UNCHANGED <<row, aggregate, budget, environment>>

-----------------------------------------------------------------------------
(* executeOutlookMoves and executeOutlookUndo, one batch per unit.          *)

Stop(w, job) == End(w, StoppedUncertain(job), "stop")

\* The status and the re-entry checks; a cleanup then needs its safety context.
Enter(w) ==
  /\ worker[w].pc = "working" /\ worker[w].op \in Mutations
  /\ LET op == worker[w].op
         job == worker[w].job
     IN  IF job.status # (IF op = "cleanup" THEN "running" ELSE "undoing") THEN Goto(w, "done")
         ELSE IF \/ op = "cleanup" /\ (job.stopped \/ Uncertain(job) # {})
                 \/ Interrupted(job, op)
         THEN Stop(w, job)
         ELSE IF op = "cleanup" /\ ~job.safe THEN Save(w, [job EXCEPT !.safe = TRUE], "batching")
         ELSE Goto(w, "batching")
  /\ UNCHANGED <<row, aggregate, budget, environment>>

\* An active batch of an earlier unit is verified before anything else.
Resume(w) ==
  /\ worker[w].pc = "batching" /\ Active(worker[w].job, worker[w].op) # {}
  /\ Goto(w, "verifying")
  /\ UNCHANGED <<row, aggregate, budget, environment>>

Fresh(w) == worker[w].pc = "batching" /\ Active(worker[w].job, worker[w].op) = {}

Finish(w) ==
  /\ Fresh(w) /\ NextBatch(worker[w].job, worker[w].op) = {}
  /\ End(w, EndOf(worker[w].job, worker[w].op), "stop")
  /\ UNCHANGED <<row, aggregate, budget, environment>>

\* The final recheck: the messages that are still there, from the selected
\* sender and eligible, are approved.  A restore has no recheck.
Intend(w) ==
  /\ Fresh(w)
  /\ LET batch == NextBatch(worker[w].job, worker[w].op)
         op == worker[w].op
     IN  /\ batch # {}
         /\ \E approved \in IF op = "cleanup" THEN SUBSET batch ELSE {batch} :
              Save(w, Intended(worker[w].job, op, batch, approved),
                   IF approved = {} THEN "verifying" ELSE "intended")
  /\ UNCHANGED <<row, aggregate, budget, environment>>

RecheckFails(w) ==
  /\ Fresh(w) /\ worker[w].op = "cleanup" /\ Fails("answer")
  /\ LET batch == NextBatch(worker[w].job, "cleanup") IN
     batch # {} /\ Stop(w, Mark(worker[w].job, batch, "recheck_uncertain"))
  /\ UNCHANGED <<row, aggregate, environment>>

Batch(w) == In(worker[w].job, {Dispatching[worker[w].op]})

\* The request fence: the unit's lease, the job and the connection.
Fenced(w) == Owns(row, w) /\ Authorized

Send(w) ==
  /\ worker[w].pc = "intended" /\ Fenced(w)
  /\ inflight' = inflight \cup {[worker |-> w, op |-> worker[w].op, targets |-> Batch(w)]}
  /\ sent' = [sent EXCEPT ![worker[w].op] =
                [t \in Candidates |-> IF t \in Batch(w) THEN @[t] + 1 ELSE @[t]]]
  /\ Goto(w, "awaiting")
  /\ UNCHANGED <<row, aggregate, mailbox, connected, open, leaving, budget>>

\* The fence throws, or the request's answer does not come: all in doubt.
GiveUp(w) ==
  /\ \/ worker[w].pc = "intended" /\ ~Fenced(w) /\ UNCHANGED budget
     \/ worker[w].pc = "awaiting" /\ Fails("answer")
  /\ Stop(w, Unanswered(worker[w].job, worker[w].op)) /\ Abandoned(w)
  /\ UNCHANGED <<row, aggregate, mailbox, sent, connected, open, leaving>>

\* A folder after a move: the message's restore is known by its moved id.
Folder(op) == IF op = "cleanup" THEN "deleted" ELSE "restored"

Changed(op, moved) == [t \in Candidates |-> IF t \in moved THEN Folder(op) ELSE mailbox[t]]

\* A batch is processed and answered: every move is independent; a 201 has
\* moved its message, a 4xx has not, and any other answer says nothing.
Answer(w) ==
  /\ worker[w].pc = "awaiting"
  /\ \E r \in inflight : r.worker = w /\
       \E moved \in SUBSET r.targets :
         \E accepted \in SUBSET moved, rejected \in SUBSET (r.targets \ moved) :
           /\ inflight' = inflight \ {r}
           /\ mailbox' = Changed(r.op, moved)
           /\ Save(w, Answered(worker[w].job, r.op, accepted, rejected), "verifying")
           /\ IF accepted \cup rejected = r.targets THEN UNCHANGED budget ELSE Fails("answer")
  /\ UNCHANGED <<row, aggregate, sent, connected, open, leaving>>

\* A batch nobody waits for any longer is processed, in part or not at all.
LandLate(r) ==
  /\ r.worker = Orphan
  /\ inflight' = inflight \ {r}
  /\ \E moved \in SUBSET r.targets : mailbox' = Changed(r.op, moved)
  /\ UNCHANGED <<row, aggregate, worker, sent, connected, open, leaving, budget>>

\* The moved messages are read at their destination; a read that fails, or
\* that says anything else, leaves the message in doubt.
Locate(w) ==
  /\ worker[w].pc = "verifying"
  /\ LET op == worker[w].op
         there == {t \in Verifiable(worker[w].job, op) : mailbox[t] = Folder(op)}
     IN  \E found \in SUBSET there :
           LET job == Located(worker[w].job, op, found)
               next == BatchDone(job, op)
           IN  /\ IF found = there THEN UNCHANGED budget ELSE Fails("answer")
               /\ IF InDoubt(job, op) THEN Stop(w, job)
                  ELSE IF Continues(next, op) THEN End(w, next, "continue")
                  ELSE Save(w, next, "batching")
  /\ UNCHANGED <<row, aggregate, environment>>
-----------------------------------------------------------------------------
(* Users, clocks and retention.                                             *)

\* A run of the workflow is started: the preparation by an acceptance or its
\* repetition, the others by a confirmation or an undo or their repetition.
Startable(op) ==
  /\ Authorized
  /\ CASE op = "prepare" -> open
       [] op = "cleanup" -> open /\ row.job.status = "running"
       [] op = "undo"    -> row.job.status = "undoing"
  /\ Cardinality({w \in Workers : worker[w].pc # "off"}) < budget.runs
  /\ \E w \in Workers : worker[w].pc = "off" /\ Set(w, Idle(op))
  /\ UNCHANGED <<row, aggregate, environment>>

Start(op) ==
  /\ budget.starts > 0 /\ budget' = [budget EXCEPT !.starts = @ - 1]
  /\ Startable(op)

\* The user repeats the request of a job in progress that no run works on.
Redispatch(op) ==
  /\ \A w \in Workers : worker[w].pc = "off"
  /\ row.present /\ (op = "prepare" => row.job.status \in {"created", "resolving"})
  /\ Startable(op) /\ UNCHANGED budget

\* confirmOutlookCleanup: a compare-and-set without a lease.  The run is
\* started after it, or not at all.
Confirm ==
  /\ Authorized /\ open /\ row.job.status = "ready"
  /\ row' = Replaced(row, Confirmed(row.job))
  /\ UNCHANGED <<aggregate, worker, budget, environment>>

\* undoOutlookCleanup, likewise.
Undo ==
  /\ Authorized /\ row.job.status \notin {"undoing", "undo_complete"} /\ MayUndo(row.job)
  /\ row' = Replaced(row, Undoing(row.job))
  /\ UNCHANGED <<aggregate, worker, budget, environment>>

\* discardUnconfirmedOutlookCleanup: one serializable transaction.
Discard ==
  /\ "discard" \in budget.events /\ Authorized /\ leaving = "no"
  /\ PreMutation(row.job)
  /\ row' = Absent
  /\ aggregate' = [status |-> "cancelled", terminal |-> "none"]
  /\ leaving' = "discarded"
  /\ UNCHANGED <<worker, mailbox, inflight, sent, connected, open, budget>>

\* The statements of a disconnect, one after the other.
DisconnectConnection ==
  /\ "disconnect" \in budget.events /\ leaving = "no"
  /\ connected' = FALSE /\ leaving' = "disconnecting"
  /\ UNCHANGED <<row, aggregate, worker, mailbox, inflight, sent, open, budget>>

DisconnectAggregate ==
  /\ leaving = "disconnecting" /\ leaving' = "clearing"
  /\ aggregate' = IF aggregate.status \in {"pending", "running"}
                  THEN [aggregate EXCEPT !.status = "cancelled"] ELSE aggregate
  /\ UNCHANGED <<row, worker, mailbox, inflight, sent, connected, open, budget>>

DisconnectState ==
  /\ leaving = "clearing" /\ leaving' = "gone"
  /\ row' = Absent
  /\ UNCHANGED <<aggregate, worker, mailbox, inflight, sent, connected, open, budget>>

\* Forward cleanup is rolled back, or its entitlement ends.
Rollback ==
  /\ "rollback" \in budget.events /\ open /\ open' = FALSE
  /\ UNCHANGED <<row, aggregate, worker, mailbox, inflight, sent, connected, leaving, budget>>

\* A lease ends under a unit that stalls ...
LeaseLapses ==
  /\ row.present /\ row.owner \in Workers /\ row.live /\ budget.lapses > 0
  /\ row' = [row EXCEPT !.live = FALSE]
  /\ budget' = [budget EXCEPT !.lapses = @ - 1]
  /\ UNCHANGED <<aggregate, worker, environment>>

\* ... or after its owner is gone.
OrphanLapses ==
  /\ row.present /\ row.owner = Orphan /\ row.live
  /\ row' = [row EXCEPT !.live = FALSE]
  /\ UNCHANGED <<aggregate, worker, budget, environment>>

StateExpires ==
  /\ "expiry" \in budget.events /\ Visible(row)
  /\ row' = [row EXCEPT !.expired = TRUE]
  /\ UNCHANGED <<aggregate, worker, budget, environment>>

Unit(w) ==
  \/ Claim(w) \/ Authorize(w) \/ Connect(w) \/ FailJob(w)
  \/ SaveCommits(w) \/ SaveRefused(w)
  \/ Report(w) \/ Catch(w) \/ RecordFailure(w) \/ Release(w)
  \/ Prepare(w) \/ CheckCandidates(w) \/ EndPreparation(w)
  \/ Enter(w) \/ Resume(w) \/ Finish(w) \/ Intend(w) \/ Send(w) \/ Answer(w) \/ GiveUp(w)
  \/ Locate(w)

Fault(w) ==
  SaveResponseLost(w) \/ Throw(w) \/ RereadFails(w) \/ RecordingFails(w) \/ Crash(w) \/ RecheckFails(w)

Next ==
  \/ \E w \in Workers : Unit(w) \/ Fault(w)
  \/ \E r \in inflight : LandLate(r)
  \/ \E op \in Operations : Start(op) \/ Redispatch(op)
  \/ Confirm \/ Undo \/ Discard
  \/ DisconnectConnection \/ DisconnectAggregate \/ DisconnectState
  \/ Rollback \/ LeaseLapses \/ OrphanLapses \/ StateExpires

Spec == Init /\ [][Next]_vars

\* The runtime runs a step's code on, leases of the dead lapse, disconnects
\* are carried through, and users repeat a request that nothing works on.
FairSpec ==
  /\ Spec /\ \A w \in Workers : WF_vars(Unit(w))
  /\ \A op \in Operations : WF_vars(Redispatch(op))
  /\ WF_vars(OrphanLapses) /\ WF_vars(DisconnectAggregate) /\ WF_vars(DisconnectState)

-----------------------------------------------------------------------------
(* What the job promises.                                                   *)

\* Every message is asked to move at most once and to come back at most once,
\* and only what was verified to have moved is asked to come back, whatever
\* dies, lapses or is started again (executeOutlookMoves, executeOutlookUndo).
AtMostOnce ==
  \A t \in Candidates :
    /\ sent["cleanup"][t] <= 1 /\ sent["undo"][t] <= sent["cleanup"][t]
    /\ sent["undo"][t] = 1 /\ row.present => row.job.target[t] \in
         {"restore_dispatching", "restore_dispatched", "restored_verified",
          "restore_failed", "restore_uncertain"}

\* The row never says of a message what the mailbox contradicts: verified
\* and rejected targets are where they are said to be, and a message the row
\* shows as untouched was never asked to move (the intent is saved first and
\* never taken back).
LedgerIsTrue ==
  row.present => \A t \in Candidates :
    LET state == row.job.target[t] IN
    /\ state \in {"moved_verified", "restore_failed"} => mailbox[t] = "deleted"
    /\ state = "restored_verified" => mailbox[t] = "restored"
    /\ state = "move_failed" => mailbox[t] = "original"
    /\ state \in {"candidate", "dropped", "frozen", "excluded", "recheck_uncertain"} =>
         mailbox[t] = "original" /\ sent["cleanup"][t] = 0

\* A job or an aggregate that says a cleanup is complete has every approved
\* message out of its folder, and one that says the restore is complete has
\* none left in Deleted Items, now or by a request still on its way.
OutcomeIsTrue ==
  /\ row.present /\ row.job.status = "complete" =>
       \A t \in Approved(row.job) : mailbox[t] = "deleted" \/ sent["cleanup"][t] = 0
  /\ (row.present /\ row.job.status = "undo_complete") \/ aggregate.terminal = "undo_complete" =>
       \A t \in Candidates : mailbox[t] # "deleted" /\ \A r \in inflight : t \notin r.targets

\* A discarded job never asked for a move, and never will
\* (discardUnconfirmedOutlookCleanup against a running verification).
DiscardExcludesMoves ==
  leaving = "discarded" => \A op \in Mutations, t \in Candidates : sent[op][t] = 0

\* A preparation whose only misfortune is commits that lose their response is
\* not abandoned: its run ends when the job is ready or failed
\* (advanceOutlookCleanupUnit's catch clause tells a committed checkpoint).
PreparationNotAbandoned ==
  budget.faults = {"response"} /\ budget.runs = 1 /\ Visible(row)
    /\ row.job.status \in {"created", "resolving"} =>
      \A w \in Workers :
        worker[w].pc = "releasing" /\ worker[w].op = "prepare" => worker[w].outcome = "continue"

\* Nothing is asked to move once the row says, by whichever unit or request, that forward cleanup
\* stopped, nor ever by a unit that was admitted with recovery access, to verify or to restore,
\* even after forward cleanup is rolled back (forwardCleanupStopped, outlookUnitAccess).
ForwardIsGated ==
  [][sent'["cleanup"] # sent["cleanup"] =>
       /\ ~(row.present /\ row.job.stopped)
       /\ \E w \in Workers : worker[w].pc = "intended" /\ worker[w].access = "forward"]_vars

\* How far a target has come.
Rank(state) ==
  CASE state \in {"candidate", "frozen"} -> 0
    [] state = "move_dispatching" -> 1
    [] state = "move_dispatched" -> 2
    [] state = "moved_verified" -> 3
    [] state = "restore_dispatching" -> 4
    [] state = "restore_dispatched" -> 5
    [] OTHER -> 6

\* No write forgets a target: what was asked of a message is in the row from
\* before the request on, and never goes back to a state before it.
LedgerNeverRegresses ==
  [][row.present /\ row'.present =>
       \A t \in Candidates : Rank(row'.job.target[t]) >= Rank(row.job.target[t])]_vars

\* Every run ends: no unit goes on without having checked, moved or restored
\* something, or left the job to be stopped.
RunsEnd == \A w \in Workers : worker[w].pc # "off" ~> worker[w].pc = "off"

\* A job in progress settles, whatever was lost on the way, if its user keeps
\* asking (the workflow itself never retries a unit).
InProgress == Visible(row) /\ row.job.status \in {"created", "resolving", "running", "undoing"}
JobSettles == InProgress ~> ~InProgress

\* The work on a job ends: each run, and with them the job.
WorkEnds == RunsEnd /\ JobSettles
=============================================================================
