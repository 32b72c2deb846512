---------------------------- MODULE GmailCleanup ----------------------------
(***************************************************************************)
(* One Gmail cleanup job under the durable workflow: the coordinator's      *)
(* steps (advance) run by any number of workflow runs, the user's confirm,  *)
(* restore, discard and disconnect requests, the provider and the mailbox,  *)
(* and the failures in between: crashed or timed-out steps, leases that     *)
(* lapse under a stalled worker, requests that land late or never, quota    *)
(* pauses, expiry of the state and its purge.                               *)
(*                                                                          *)
(* A worker is one workflow run's current step.  Between any two of its     *)
(* database or provider calls every other action may happen; pc names the   *)
(* last call that returned.                                                 *)
(***************************************************************************)
EXTENDS GmailJob, JobStore, Sequences

CONSTANTS
  Workers,       \* workflow runs that may exist at a time
  Restorer,      \* the lease owner of a user's restore request
  Orphan,        \* the lease owner of a step whose process is gone
  UserRequests,  \* which of undo, discard, disconnect users make here
  MayExpire,     \* whether the state's TTL may end here
  MaxPauses, MaxFailures, MaxLapses,   \* environment bounds
  MaxStarts,     \* how often users start a run of the job as it is
  MaxRetries     \* how often the runtime retries a step that throws

ASSUME CleanupAssumption ==
  /\ {NoOwner, Orphan, Restorer} \cap Workers = {}
  /\ NoOwner # Orphan /\ NoOwner # Restorer /\ Orphan # Restorer
  /\ UserRequests \subseteq {"undo", "discard", "disconnect"}
  /\ MayExpire \in BOOLEAN
  /\ {MaxPauses, MaxFailures, MaxLapses, MaxStarts, MaxRetries} \subseteq Nat

VARIABLES
  row,        \* the cleanup-state row
  aggregate,  \* the CleanupJob row that outlives it: status and snapshot
  worker,     \* what every workflow run is doing
  trash,      \* the messages in the mailbox's Trash
  history,    \* the mailbox's label events, oldest first
  inflight,   \* mutation requests sent and not yet processed
  sent,       \* how many mutation requests each chunk has had
  waiting,    \* nextEligibleRunAt is in the future
  connected,  \* the provider connection is active
  user,       \* the multi-call user request under way
  budget      \* what is left of the environment bounds

vars == <<row, aggregate, worker, trash, history, inflight, sent, waiting,
          connected, user, budget>>

Kinds == {"trash", "undo"}
Owners == Workers \cup {Orphan, Restorer}

PCs ==
  {"off", "idle", "claimed", "marked", "executing", "fenced", "awaiting",
   "executed", "committed", "deleting", "continuing", "stopping", "failing"}

Steps ==
  [pc : PCs, mode : Modes, op : Operations \cup {"none"}, job : Jobs,
   version : Nat, thrown : Nat]

Aggregates ==
  [status : {"pending", "running", "completed", "partial", "cancelled"},
   snapshot : {"none", "complete", "partial", "uncertain", "undo_complete"}]

Requests == [kind : Kinds, chunk : Chunks, ids : SUBSET Messages]

UserStates ==
  {"none", "restoring", "starting", "discarding", "cancelling",
   "disconnecting", "clearing", "forgetting"}

\* No run, and a run between two steps.
NoStep == [pc |-> "off", mode |-> "cleanup", op |-> "none", job |-> AcceptedJob,
           version |-> 0, thrown |-> 0]
Idle(mode, thrown) == [NoStep EXCEPT !.pc = "idle", !.mode = mode, !.thrown = thrown]

TypeOK ==
  /\ row \in Rows(Owners, Jobs)
  /\ aggregate \in Aggregates
  /\ worker \in [Workers -> Steps]
  /\ trash \in SUBSET Messages
  /\ history \in Seq([kind : Kinds, ids : SUBSET Messages])
  /\ inflight \in SUBSET Requests
  /\ sent \in [Kinds -> [Chunks -> Nat]]
  /\ waiting \in BOOLEAN /\ connected \in BOOLEAN
  /\ user \in UserStates
  /\ budget \in [pauses : Nat, failures : Nat, lapses : Nat, starts : Nat]

\* A job has just been accepted: both rows exist, no run has been started.
Init ==
  /\ row = Created(AcceptedJob)
  /\ aggregate = [status |-> "pending", snapshot |-> "none"]
  /\ worker = [w \in Workers |-> NoStep]
  /\ trash = {} /\ history = <<>> /\ inflight = {}
  /\ sent = [k \in Kinds |-> [c \in Chunks |-> 0]]
  /\ waiting = FALSE /\ connected = TRUE /\ user = "none"
  /\ budget = [pauses |-> MaxPauses, failures |-> MaxFailures,
               lapses |-> MaxLapses, starts |-> MaxStarts]

-----------------------------------------------------------------------------
(* The aggregate CleanupJob row.                                            *)

AggregateStatus(status) ==
  CASE status \in {"created", "ready"}          -> "pending"
    [] status \in {"complete", "undo_complete"} -> "completed"
    [] status \in {"partial", "uncertain"}      -> "partial"
    [] OTHER                                    -> "running"

SnapshotStatuses == {"complete", "partial", "uncertain", "undo_complete"}

\* Mutant: a finished aggregate is never written again.
SyncedOnce(job) ==
  IF aggregate.status \notin {"pending", "running"} THEN aggregate
  ELSE [status |-> AggregateStatus(job.status),
        snapshot |-> IF job.status \in SnapshotStatuses THEN job.status
                     ELSE aggregate.snapshot]

\* The aggregate writer's sync.
Synced(job) ==
  IF aggregate.status = "cancelled" THEN aggregate
  ELSE [status |-> AggregateStatus(job.status),
        snapshot |-> IF job.status \in SnapshotStatuses THEN job.status
                     ELSE aggregate.snapshot]

\* markMissingState, and the last statement of discard.
Cancelled ==
  IF aggregate.status \in {"pending", "running"}
  THEN [aggregate EXCEPT !.status = "cancelled"]
  ELSE aggregate

Authorized == aggregate.status # "cancelled" /\ connected

-----------------------------------------------------------------------------
(* The coordinator's step: claim, plan, mark, refresh, execute, commit.     *)

Move(w, pc) == worker' = [worker EXCEPT ![w].pc = pc]

Decision(w) == Plan(worker[w].job, worker[w].mode, waiting)

Claim(w) ==
  /\ worker[w].pc = "idle" /\ Claimable(row)
  /\ row' = Claimed(row, w)
  /\ worker' = [worker EXCEPT ![w] =
       [@ EXCEPT !.pc = "claimed", !.job = row.job, !.version = row.version]]
  /\ UNCHANGED <<aggregate, trash, history, inflight, sent, waiting, connected, user, budget>>

\* The claim fails and getByJobId finds nothing: the run ends.
FindMissing(w) ==
  /\ worker[w].pc = "idle" /\ ~Visible(row)
  /\ row' = IF Purgeable(row) THEN Absent ELSE row
  /\ aggregate' = Cancelled
  /\ worker' = [worker EXCEPT ![w] = NoStep]
  /\ UNCHANGED <<trash, history, inflight, sent, waiting, connected, user, budget>>

\* The planner stops the run; a complete job that keeps no Undo goes.
StopRun(w) ==
  /\ worker[w].pc = "claimed" /\ Decision(w) \in Stops
  /\ aggregate' = Synced(worker[w].job)
  /\ Move(w, IF Decision(w) = "stop_complete" /\ ~worker[w].job.undoAvailable
             THEN "deleting" ELSE "stopping")
  /\ UNCHANGED <<row, trash, history, inflight, sent, waiting, connected, user, budget>>

Sleep(w) ==
  /\ worker[w].pc = "claimed" /\ Decision(w) = "sleep"
  /\ Move(w, "continuing")
  /\ UNCHANGED <<row, aggregate, trash, history, inflight, sent, waiting, connected, user, budget>>

\* The marker is durable before the request exists; the write names the
\* version read and the lease held.
MarkDurably(w) ==
  /\ worker[w].pc = "claimed" /\ Decision(w) \in Dispatches
  /\ IF CanReplace(row, worker[w].version) /\ Owns(row, w)
     THEN LET marked == MarkDispatch(worker[w].job, Decision(w)) IN
          /\ row' = Replaced(row, marked)
          /\ worker' = [worker EXCEPT ![w] =
               [@ EXCEPT !.pc = "marked", !.op = Decision(w), !.job = marked,
                         !.version = worker[w].version + 1]]
     ELSE row' = row /\ Move(w, "continuing")
  /\ UNCHANGED <<aggregate, trash, history, inflight, sent, waiting, connected, user, budget>>

Execute(w, op) ==
  IF Owns(row, w)
  THEN worker' = [worker EXCEPT ![w] = [@ EXCEPT !.pc = "executing", !.op = op]]
  ELSE Move(w, "continuing")

\* refreshLock, before the executor runs.
RefreshLock(w) ==
  /\ \/ worker[w].pc = "marked" /\ Execute(w, worker[w].op)
     \/ /\ worker[w].pc = "claimed"
        /\ Decision(w) \in Operations \ Dispatches
        /\ Execute(w, Decision(w))
  /\ UNCHANGED <<row, aggregate, trash, history, inflight, sent, waiting, connected, user, budget>>

-----------------------------------------------------------------------------
(* The executor and the provider.                                           *)

\* The durable check before every provider request.  No owner is passed: it
\* asks for the version the step read and for a live lease of anyone.
FencePasses(w) ==
  /\ Visible(row) /\ row.live
  /\ row.version = worker[w].version
  /\ Authorized

Finish(w, job) ==
  worker' = [worker EXCEPT ![w] = [@ EXCEPT !.pc = "executed", !.job = job]]

\* A quota reservation finds the minute's window used up.
PauseForQuota(w) ==
  /\ worker[w].pc = "executing" /\ worker[w].op # "advance_chunk"
  /\ Authorized /\ CanWork(worker[w].job, worker[w].op) /\ budget.pauses > 0
  /\ Finish(w, Paused(RestorePausedState(worker[w].job), worker[w].op))
  /\ waiting' = TRUE
  /\ budget' = [budget EXCEPT !.pauses = @ - 1]
  /\ UNCHANGED <<row, aggregate, trash, history, inflight, sent, connected, user>>

\* advance_chunk needs the provider object but makes no request.
Advance(w) ==
  /\ worker[w].pc = "executing" /\ worker[w].op = "advance_chunk" /\ Authorized
  /\ Finish(w, AdvanceChunk(Opened(worker[w].job)))
  /\ UNCHANGED <<row, aggregate, trash, history, inflight, sent, waiting, connected, user, budget>>

PassFence(w) ==
  /\ worker[w].pc = "executing" /\ worker[w].op # "advance_chunk"
  /\ CanWork(worker[w].job, worker[w].op) /\ FencePasses(w)
  /\ Move(w, "fenced")
  /\ UNCHANGED <<row, aggregate, trash, history, inflight, sent, waiting, connected, user, budget>>

\* createProvider or the fence refuses, or there is nothing to work on: the
\* step throws.
Refuse(w) ==
  /\ worker[w].pc = "executing"
  /\ IF worker[w].op = "advance_chunk" THEN ~Authorized
     ELSE ~(CanWork(worker[w].job, worker[w].op) /\ FencePasses(w))
  /\ Move(w, "failing")
  /\ UNCHANGED <<row, aggregate, trash, history, inflight, sent, waiting, connected, user, budget>>

\* The IMAP and API safety reads find some of the chunk's targets safe.
CheckSafety(w) ==
  LET job == Opened(worker[w].job) IN
  /\ worker[w].pc = "fenced"
  /\ \/ worker[w].op = "preflight_safety" /\ Finish(w, Preflight(job))
     \/ /\ worker[w].op = "safety_check"
        /\ \E S \in SUBSET Targets[WorkChunk(job, worker[w].op)] :
             Finish(w, SafetyCheck(job, S))
  /\ UNCHANGED <<row, aggregate, trash, history, inflight, sent, waiting, connected, user, budget>>

\* captureHistoryCheckpoint: the mailbox's current history position.
Checkpoint(w) ==
  LET job == Opened(worker[w].job)
      position == Len(history) + 1
  IN
  /\ worker[w].pc = "fenced"
  /\ \/ worker[w].op = "checkpoint_trash" /\ Finish(w, CheckpointTrash(job, position))
     \/ worker[w].op = "checkpoint_undo" /\ Finish(w, CheckpointUndo(job, position))
  /\ UNCHANGED <<row, aggregate, trash, history, inflight, sent, waiting, connected, user, budget>>

\* The mutation a dispatch sends.
Request(w) ==
  LET job == worker[w].job
      c == WorkChunk(job, worker[w].op)
  IN  [kind |-> IF worker[w].op = "dispatch_trash" THEN "trash" ELSE "undo",
       chunk |-> c,
       ids |-> IF worker[w].op = "dispatch_trash" THEN job.chunk[c].safe
               ELSE Restorable(job.chunk[c])]

\* batchModify leaves; it is never repeated by the provider client.
Send(w) ==
  /\ worker[w].pc = "fenced" /\ worker[w].op \in Dispatches
  /\ inflight' = inflight \cup {Request(w)}
  /\ sent' = [sent EXCEPT ![Request(w).kind][Request(w).chunk] = @ + 1]
  /\ Move(w, "awaiting")
  /\ UNCHANGED <<row, aggregate, trash, history, waiting, connected, user, budget>>

\* Its answer arrives: the mailbox has processed it.
Answered(w) ==
  LET job == Opened(worker[w].job) IN
  /\ worker[w].pc = "awaiting" /\ Request(w) \notin inflight
  /\ Finish(w, IF worker[w].op = "dispatch_trash" THEN TrashSent(job) ELSE job)
  /\ UNCHANGED <<row, aggregate, trash, history, inflight, sent, waiting, connected, user, budget>>

\* What verifyLabelChange may report of ids: an event since the checkpoint
\* or the expected label verifies a message, only a message without the
\* label is reported failed, the rest is uncertain.
Outcomes(ids, kind, checkpoint) ==
  LET events == {i \in 1..Len(history) : i >= checkpoint /\ history[i].kind = kind}
      seen == UNION {history[i].ids : i \in events}
      expected == IF kind = "trash" THEN trash ELSE Messages \ trash
  IN  {o \in [verified : SUBSET ids, failed : SUBSET ids, uncertain : SUBSET ids] :
         /\ o.verified \subseteq seen \cup expected
         /\ o.failed \cap expected = {}
         /\ o.verified \cap o.failed = {}
         /\ o.uncertain = ids \ (o.verified \cup o.failed)}

Verify(w) ==
  LET job == Opened(worker[w].job)
      chunk == job.chunk[WorkChunk(job, worker[w].op)]
  IN
  /\ worker[w].pc = "fenced"
  /\ \/ /\ worker[w].op = "verify_trash"
        /\ \E o \in Outcomes(chunk.safe, "trash", chunk.checkpoint) :
             Finish(w, VerifyTrash(job, o.verified, o.failed, o.uncertain))
     \/ /\ worker[w].op = "verify_undo"
        /\ \E o \in Outcomes(Restorable(chunk), "undo", chunk.undoCheckpoint) :
             Finish(w, VerifyUndo(job, o.verified, o.failed, o.uncertain))
  /\ UNCHANGED <<row, aggregate, trash, history, inflight, sent, waiting, connected, user, budget>>

\* A provider call fails or is aborted after its deadline: the step throws
\* and nobody knows what became of the request.
LoseAnswer(w) ==
  /\ worker[w].pc \in {"fenced", "awaiting"} /\ budget.failures > 0
  /\ Move(w, "failing")
  /\ budget' = [budget EXCEPT !.failures = @ - 1]
  /\ UNCHANGED <<row, aggregate, trash, history, inflight, sent, waiting, connected, user>>

-----------------------------------------------------------------------------
(* The end of a step.                                                       *)

\* Mutant: a refused commit is taken for a committed one.
CommitTaken(w) ==
  /\ worker[w].pc = "executed"
  /\ row' = IF CanReplace(row, worker[w].version) /\ Owns(row, w) THEN Replaced(row, worker[w].job) ELSE row
  /\ worker' = [worker EXCEPT ![w] = [@ EXCEPT !.pc = "committed", !.version = worker[w].version + 1]]
  /\ UNCHANGED <<aggregate, trash, history, inflight, sent, waiting, connected, user, budget>>

Commit(w) ==
  /\ worker[w].pc = "executed"
  /\ IF CanReplace(row, worker[w].version) /\ Owns(row, w)
     THEN /\ row' = Replaced(row, worker[w].job)
          /\ worker' = [worker EXCEPT ![w] =
               [@ EXCEPT !.pc = "committed", !.version = worker[w].version + 1]]
     ELSE row' = row /\ Move(w, "continuing")
  /\ UNCHANGED <<aggregate, trash, history, inflight, sent, waiting, connected, user, budget>>

Sync(w) ==
  /\ worker[w].pc = "committed"
  /\ aggregate' = Synced(worker[w].job)
  /\ Move(w, IF worker[w].job.status = "undo_complete" THEN "deleting" ELSE "continuing")
  /\ UNCHANGED <<row, trash, history, inflight, sent, waiting, connected, user, budget>>

\* store.delete asks for neither version nor lease.
Delete(w) ==
  /\ worker[w].pc = "deleting"
  /\ row' = Absent
  /\ Move(w, "stopping")
  /\ UNCHANGED <<aggregate, trash, history, inflight, sent, waiting, connected, user, budget>>

\* A thrown step is retried by the runtime until its retries are used up.
AfterThrow(w) ==
  IF worker[w].thrown < MaxRetries THEN Idle(worker[w].mode, worker[w].thrown + 1) ELSE NoStep

\* The finally block; then the run goes on, retries the step or ends.
Release(w) ==
  /\ worker[w].pc \in {"continuing", "stopping", "failing"}
  /\ row' = Released(row, w)
  /\ worker' = [worker EXCEPT ![w] =
       CASE worker[w].pc = "continuing" -> Idle(worker[w].mode, 0)
         [] worker[w].pc = "stopping"   -> NoStep
         [] OTHER                       -> AfterThrow(w)]
  /\ UNCHANGED <<aggregate, trash, history, inflight, sent, waiting, connected, user, budget>>

\* The process dies inside the step: its lease stays, its owner is gone.
Crash(w) ==
  /\ worker[w].pc \notin {"off", "idle"} /\ budget.failures > 0
  /\ row' = IF row.present /\ row.owner = w THEN [row EXCEPT !.owner = Orphan] ELSE row
  /\ worker' = [worker EXCEPT ![w] = AfterThrow(w)]
  /\ budget' = [budget EXCEPT !.failures = @ - 1]
  /\ UNCHANGED <<aggregate, trash, history, inflight, sent, waiting, connected, user>>

-----------------------------------------------------------------------------
(* Mailbox, clocks and retention.                                           *)

\* A request is processed, wholly, partly or (no message changed) not at all.
RequestLands(r) ==
  /\ inflight' = inflight \ {r}
  /\ \E S \in SUBSET r.ids :
       LET changed == IF r.kind = "trash" THEN S \ trash ELSE S \cap trash IN
       /\ trash' = IF r.kind = "trash" THEN trash \cup S ELSE trash \ S
       /\ history' = IF changed = {} THEN history
                     ELSE Append(history, [kind |-> r.kind, ids |-> changed])
  /\ UNCHANGED <<row, aggregate, worker, sent, waiting, connected, user, budget>>

\* The lease TTL ends while its owner, a step or a restore request, stalls.
LeaseLapses ==
  /\ row.present /\ row.owner \in Workers \cup {Restorer} /\ row.live /\ budget.lapses > 0
  /\ row' = [row EXCEPT !.live = FALSE]
  /\ budget' = [budget EXCEPT !.lapses = @ - 1]
  /\ UNCHANGED <<aggregate, worker, trash, history, inflight, sent, waiting, connected, user>>

\* The lease TTL ends and its owner is dead.
OrphanLapses ==
  /\ row.present /\ row.owner = Orphan /\ row.live
  /\ row' = [row EXCEPT !.live = FALSE]
  /\ UNCHANGED <<aggregate, worker, trash, history, inflight, sent, waiting, connected, user, budget>>

\* nextEligibleRunAt has come.
WindowElapses ==
  /\ waiting /\ waiting' = FALSE
  /\ UNCHANGED <<row, aggregate, worker, trash, history, inflight, sent, connected, user, budget>>

StateExpires ==
  /\ MayExpire /\ Visible(row)
  /\ row' = [row EXCEPT !.expired = TRUE]
  /\ UNCHANGED <<aggregate, worker, trash, history, inflight, sent, waiting, connected, user, budget>>

\* deleteExpired, from the periodic purge or a read of the expired row.
Purge ==
  /\ Purgeable(row) /\ row' = Absent
  /\ UNCHANGED <<aggregate, worker, trash, history, inflight, sent, waiting, connected, user, budget>>

-----------------------------------------------------------------------------
(* The user's requests.                                                     *)

\* start(): a run exists from now on ...
Started(mode) ==
  \E w \in Workers : /\ worker[w].pc = "off"
                     /\ worker' = [worker EXCEPT ![w] = Idle(mode, 0)]

\* ... or it fails, and the request with it, after its write.
Scheduled(mode) ==
  \/ Started(mode) /\ UNCHANGED budget
  \/ /\ budget.failures > 0
     /\ budget' = [budget EXCEPT !.failures = @ - 1]
     /\ UNCHANGED worker

Restarted ==
  /\ budget.starts > 0 /\ Started("cleanup")
  /\ budget' = [budget EXCEPT !.starts = @ - 1]

\* The first start after acceptance, and a repeated acceptance of the same
\* selection: it finds the job and starts a run for it once more.
Accept ==
  /\ connected /\ Visible(row) /\ Restarted
  /\ UNCHANGED <<row, aggregate, trash, history, inflight, sent, waiting, connected, user>>

\* Mutant: a second confirmation of a cleanup whose fresh check is under way
\* prepares the job once more.
ConfirmAgain ==
  /\ Visible(row) /\ Authorized /\ row.job.status \in {"ready", "safety_checking"}
  /\ row' = Replaced(row, PrepareConfirmed(row.job))
  /\ Scheduled("cleanup")
  /\ UNCHANGED <<aggregate, trash, history, inflight, sent, waiting, connected, user>>

\* The write names the version it read and no lease.
Confirm ==
  /\ Visible(row) /\ Authorized /\ row.job.status = "ready"
  /\ row' = Replaced(row, PrepareConfirmed(row.job))
  /\ Scheduled("cleanup")
  /\ UNCHANGED <<aggregate, trash, history, inflight, sent, waiting, connected, user>>

\* Confirming again only starts another run of a confirmed, unfinished job.
Redispatch ==
  /\ Visible(row) /\ Authorized
  /\ row.job.confirmed /\ row.job.restoreMode = "none"
  /\ row.job.status \in {"safety_checking", "mutating", "verifying", "chunk_complete", "paused"}
  /\ Restarted
  /\ UNCHANGED <<row, aggregate, trash, history, inflight, sent, waiting, connected, user>>

\* Undo and recovery restore claim the row and look whether it is eligible
\* (if it is not they release it and have changed nothing), ...
ClaimRestore ==
  /\ "undo" \in UserRequests /\ user = "none"
  /\ Claimable(row) /\ RestoreEligibility(row.job) # "none"
  /\ row' = Claimed(row, Restorer) /\ user' = "restoring"
  /\ UNCHANGED <<aggregate, worker, trash, history, inflight, sent, waiting, connected, budget>>

\* ... compare-and-set under that lease and release it.  Nobody writes an
\* eligible job without the lease, so a row still owned is still at the
\* version that was claimed.
CommitRestore ==
  /\ user = "restoring"
  /\ IF Owns(row, Restorer)
     THEN /\ row' = Released(Replaced(row, BeginUndo(row.job)), Restorer)
          /\ waiting' = FALSE /\ user' = "starting"
     ELSE /\ row' = Released(row, Restorer)
          /\ user' = "none" /\ UNCHANGED waiting
  /\ UNCHANGED <<aggregate, worker, trash, history, inflight, sent, connected, budget>>

\* ... and start the restore's run.
StartRestore ==
  /\ user = "starting" /\ user' = "none" /\ Scheduled("undo")
  /\ UNCHANGED <<row, aggregate, trash, history, inflight, sent, waiting, connected>>

\* The request handler dies in between.
AbandonRestore ==
  /\ user \in {"restoring", "starting"} /\ user' = "none" /\ budget.failures > 0
  /\ row' = IF row.present /\ row.owner = Restorer THEN [row EXCEPT !.owner = Orphan] ELSE row
  /\ budget' = [budget EXCEPT !.failures = @ - 1]
  /\ UNCHANGED <<aggregate, worker, trash, history, inflight, sent, waiting, connected>>

\* Discard reads the status first ...
Discard ==
  /\ "discard" \in UserRequests /\ user = "none"
  /\ Visible(row) /\ row.job.status \in {"created", "safety_checking", "ready"}
  /\ user' = "discarding"
  /\ UNCHANGED <<row, aggregate, worker, trash, history, inflight, sent, waiting, connected, budget>>

\* ... deletes whatever row is there then ...
DiscardState ==
  /\ user = "discarding"
  /\ row' = Absent /\ user' = "cancelling"
  /\ UNCHANGED <<aggregate, worker, trash, history, inflight, sent, waiting, connected, budget>>

\* ... and cancels the aggregate.
DiscardJob ==
  /\ user = "cancelling"
  /\ aggregate' = Cancelled /\ user' = "none"
  /\ UNCHANGED <<row, worker, trash, history, inflight, sent, waiting, connected, budget>>

\* Disconnect: tokens and generation first, ...
Disconnect ==
  /\ "disconnect" \in UserRequests /\ user = "none" /\ connected
  /\ connected' = FALSE /\ user' = "disconnecting"
  /\ UNCHANGED <<row, aggregate, worker, trash, history, inflight, sent, waiting, budget>>

\* ... then unfinished jobs are cancelled, ...
CancelJobs ==
  /\ user = "disconnecting"
  /\ aggregate' = Cancelled /\ user' = "clearing"
  /\ UNCHANGED <<row, worker, trash, history, inflight, sent, waiting, connected, budget>>

\* ... snapshots cleared, ...
ClearSnapshots ==
  /\ user = "clearing"
  /\ aggregate' = [aggregate EXCEPT !.snapshot = "none"] /\ user' = "forgetting"
  /\ UNCHANGED <<row, worker, trash, history, inflight, sent, waiting, connected, budget>>

\* ... and the state rows deleted.
ForgetState ==
  /\ user = "forgetting"
  /\ row' = Absent /\ user' = "none"
  /\ UNCHANGED <<aggregate, worker, trash, history, inflight, sent, waiting, connected, budget>>

-----------------------------------------------------------------------------

\* What a run does by itself: no failure, no pause.
Progress(w) ==
  \/ Claim(w) \/ FindMissing(w) \/ StopRun(w) \/ Sleep(w) \/ MarkDurably(w)
  \/ RefreshLock(w) \/ Advance(w) \/ PassFence(w) \/ Refuse(w) \/ CheckSafety(w)
  \/ Checkpoint(w) \/ Send(w) \/ Answered(w) \/ Verify(w) \/ Commit(w) \/ Sync(w)
  \/ Delete(w) \/ Release(w)

UserCompletes ==
  \/ CommitRestore \/ StartRestore \/ DiscardState \/ DiscardJob
  \/ CancelJobs \/ ClearSnapshots \/ ForgetState

Next ==
  \/ \E w \in Workers : Progress(w) \/ PauseForQuota(w) \/ LoseAnswer(w) \/ Crash(w)
  \/ \E r \in inflight : RequestLands(r)
  \/ LeaseLapses \/ OrphanLapses \/ WindowElapses \/ StateExpires \/ Purge
  \/ Accept \/ Confirm \/ Redispatch \/ ClaimRestore \/ AbandonRestore
  \/ Discard \/ Disconnect \/ UserCompletes

Spec == Init /\ [][Next]_vars

\* The runtime drives every run on and retries it, a request is processed or
\* lost in the end, leases of dead owners and quota windows end, and a
\* request handler runs to its end.  Nothing is asked of users.
Fairness ==
  /\ \A w \in Workers : WF_vars(Progress(w))
  /\ WF_vars(\E r \in inflight : RequestLands(r))
  /\ WF_vars(OrphanLapses) /\ WF_vars(WindowElapses) /\ WF_vars(UserCompletes)

FairSpec == Spec /\ Fairness

-----------------------------------------------------------------------------
(* Safety.                                                                  *)

\* Every chunk is moved to Trash by at most one request and restored by at
\* most one, through every retry, crash, duplicate run and lapsed lease: the
\* dispatch marker of the coordinator and the version check make it so.
AtMostOneRequest == \A k \in Kinds, c \in Chunks : sent[k][c] <= 1

\* The evidence a later verification looks at covers the request: once a
\* chunk's request left, its marker and its checkpoint are in the row, and no
\* event of that request is older than the checkpoint.
EventsAfter(checkpoint, kind, ids) ==
  /\ checkpoint # 0
  /\ \A i \in 1..Len(history) :
       history[i].kind = kind /\ history[i].ids \cap ids # {} => i >= checkpoint

EvidenceCoversRequest ==
  row.present => \A c \in Chunks :
    LET chunk == row.job.chunk[c] IN
    /\ sent["trash"][c] > 0 =>
         chunk.dispatched /\ EventsAfter(chunk.checkpoint, "trash", Targets[c])
    /\ sent["undo"][c] > 0 =>
         chunk.undoDispatched /\ EventsAfter(chunk.undoCheckpoint, "undo", Targets[c])

\* A request that may still take effect names what the durable ledger names:
\* a confirmed job's freshly checked safe targets, or verified-moved ones.
RequestsMatchLedger ==
  row.present => \A r \in inflight :
    IF r.kind = "trash"
    THEN row.job.confirmed /\ r.ids = row.job.chunk[r.chunk].safe
    ELSE row.job.restoreMode # "none" /\ r.ids \subseteq row.job.chunk[r.chunk].moved

\* A request that was sent is in the ledger with its evidence, and one that may still take effect
\* with its targets, whichever runs and writes came in between.
RequestsInLedger == EvidenceCoversRequest /\ RequestsMatchLedger

\* The ledger never claims more than happened: a verified-moved message has
\* been moved, a verified-restored one was moved and restored, and nothing
\* the fresh safety check excluded is among them.
LedgerIsTrue ==
  row.present => \A c \in Chunks :
    LET chunk == row.job.chunk[c]
        happened(kind) == UNION {history[i].ids : i \in {h \in 1..Len(history) : history[h].kind = kind}}
    IN  /\ chunk.restored \subseteq chunk.moved /\ chunk.moved \subseteq chunk.safe
        /\ chunk.moved \subseteq happened("trash")
        /\ chunk.restored \subseteq happened("undo")

\* A job reported complete has every safe message in Trash until a restore
\* begins, and one reported undo_complete after a full Undo has none there.
OutcomeIsTrue ==
  row.present => \A c \in Chunks :
    /\ row.job.status = "complete" => row.job.chunk[c].safe \subseteq trash
    /\ row.job.status = "undo_complete" /\ row.job.restoreMode = "undo" =>
         row.job.chunk[c].safe \cap trash = {}

\* No write loses what an earlier one recorded, whoever writes the row: once a
\* job is confirmed its markers, checkpoints and verified ledgers stay, and once
\* a restore has begun the ledger it restores is closed, so that a cleanup run
\* cannot go on (replaceIfVersion under the runs and requests of a job).
RecordStands ==
  [][row.present /\ row'.present =>
       /\ row.job.confirmed => row'.job.confirmed
       /\ \A c \in Chunks :
            LET old == row.job.chunk[c]
                new == row'.job.chunk[c] IN
            /\ row.job.confirmed /\ old.dispatched =>
                 new.dispatched /\ new.safe = old.safe /\ new.checkpoint = old.checkpoint
            /\ row.job.confirmed /\ old.undoDispatched =>
                 new.undoDispatched /\ new.undoCheckpoint = old.undoCheckpoint
            /\ row.job.confirmed => old.moved \subseteq new.moved /\ old.restored \subseteq new.restored
            /\ row.job.restoreMode # "none" =>
                 new.dispatched = old.dispatched /\ new.moved = old.moved]_vars

\* A step that is about to write the aggregate without its lease: it stalled, and
\* another run or a restore has the row, or the row is gone.
Overtaken(w) == worker[w].pc \in {"claimed", "committed"} /\ ~Owns(row, w)

\* The long-lived record tells of an outcome only when it is the one the row has:
\* never of one whose commit was refused, nor of a finished Undo while the restore
\* goes on.  Only a step that was overtaken after its commit may tell of an older
\* outcome, of the cleanup once a restore has begun, of either once the row is
\* gone: its write names no version.  Forgetting is left to a disconnect (advance,
\* PrismaGmailScalableAggregateJobWriter).
ReportStands ==
  [][LET told == aggregate'.snapshot IN
     told # aggregate.snapshot =>
       \/ row.present /\ row.job.status = told
       \/ /\ \E w \in Workers : Overtaken(w) /\ worker[w].job.status = told
          /\ row.present => row.job.restoreMode # "none" /\ told # "undo_complete"
       \/ told = "none" /\ user = "clearing"]_vars

-----------------------------------------------------------------------------
(* Liveness.                                                                *)

Settled == {"complete", "partial", "uncertain", "undo_complete"}

\* A run between two steps: it will read the row as it is now.
RunReady(mode) == \E w \in Workers : worker[w].pc = "idle" /\ worker[w].mode = mode

\* A confirmed cleanup that a run is about to look at settles, turns into a
\* restore, or its state is gone: quota pauses, crashes, lost answers and
\* competing runs do not hang it.
CleanupSettles ==
  (row.present /\ row.job.confirmed /\ row.job.restoreMode = "none" /\ RunReady("cleanup"))
    ~> (~row.present \/ row.job.status \in Settled \/ row.job.restoreMode # "none")

\* So does a restore that a restore run is about to look at.
RestoreSettles ==
  (row.present /\ row.job.restoreMode # "none" /\ RunReady("undo"))
    ~> (~row.present \/ row.job.status \in Settled)

\* Both kinds of work come to their end.
WorkSettles == CleanupSettles /\ RestoreSettles

\* The long-lived record learns of a settled job when a run looks at it.
OutcomeIsReported ==
  (row.present /\ row.job.status \in Settled /\ (RunReady("cleanup") \/ RunReady("undo")))
    ~> (~row.present \/ row.job.status \notin Settled
        \/ aggregate.snapshot = row.job.status \/ ~Authorized)
=============================================================================
