----------------------------- MODULE OutlookJob -----------------------------
(***************************************************************************)
(* The data of one Outlook cleanup job and the pure operations that the     *)
(* preparation, the moves, the restore and the failure paths apply to it.   *)
(*                                                                          *)
(* A candidate of the frozen pool is its index.  The state of a target      *)
(* stands for the target's record: a target has a movedMessageId from       *)
(* move_dispatched on, a restoredMessageId from restore_dispatched on, and  *)
(* "candidate" and "dropped" are candidates that are no targets (yet, or    *)
(* because the verification excluded them).  verificationCursor is the      *)
(* number of candidates no longer in state "candidate"; the counters of the *)
(* job's view are the sizes of the sets of targets in a state.              *)
(***************************************************************************)
EXTENDS Naturals, FiniteSets

CONSTANTS
  Pool,       \* the size of the frozen candidate pool
  Requested,  \* how many messages the user asked to clean up
  BatchSize,  \* effectiveBatchSize: messages moved by one batch request
  CheckSize   \* candidates read by one verification request (20 in the code)

ASSUME OutlookJobAssumption ==
  /\ {Pool, Requested, BatchSize, CheckSize} \subseteq Nat \ {0}
  /\ Requested <= Pool

Candidates == 1 .. Pool

\* The two mutations of a job, and the states a target passes in each.
Verb == [cleanup |-> "move", undo |-> "restore"]

UncertainStates == {"recheck_uncertain", "move_uncertain", "restore_uncertain"}

TargetStates ==
  UncertainStates \cup
  {"candidate", "dropped", "frozen", "excluded",
   "move_dispatching", "move_dispatched", "moved_verified", "move_failed",
   "restore_dispatching", "restore_dispatched", "restored_verified", "restore_failed"}

Dispatching == [cleanup |-> "move_dispatching", undo |-> "restore_dispatching"]
Dispatched  == [cleanup |-> "move_dispatched",  undo |-> "restore_dispatched"]
Verified    == [cleanup |-> "moved_verified",   undo |-> "restored_verified"]
Rejected    == [cleanup |-> "move_failed",      undo |-> "restore_failed"]
Doubtful    == [cleanup |-> "move_uncertain",   undo |-> "restore_uncertain"]

JobStatuses ==
  {"created", "resolving", "ready", "running", "complete", "partial",
   "uncertain", "failed", "undoing", "undo_complete"}

DeletionStates == {"none", "pending", "dispatching", "verified_deleted", "excluded", "uncertain"}

\* permanentDeletion; status "none" is a job without one.
Deletions ==
  [status : {"none", "running", "complete", "uncertain"}, target : [Candidates -> DeletionStates]]

NoDeletion == [status |-> "none", target |-> [t \in Candidates |-> "none"]]

Jobs ==
  [status : JobStatuses, confirmed : BOOLEAN, stopped : BOOLEAN, verifying : BOOLEAN,
   safe : BOOLEAN, undoAvailable : BOOLEAN, moving : SUBSET Candidates,
   restoring : SUBSET Candidates, target : [Candidates -> TargetStates],
   deletion : Deletions]

\* What startOutlookCleanup creates: verifying stands for verificationContext,
\* safe for cleanupSafetyContext, stopped for forwardCleanupStopped, moving and
\* restoring for the active batch indexes.
AcceptedJob ==
  [status |-> "created", confirmed |-> FALSE, stopped |-> FALSE, verifying |-> FALSE,
   safe |-> FALSE, undoAvailable |-> FALSE, moving |-> {}, restoring |-> {},
   target |-> [t \in Candidates |-> "candidate"], deletion |-> NoDeletion]

In(job, states) == {t \in Candidates : job.target[t] \in states}

Mark(job, targets, state) ==
  [job EXCEPT !.target = [t \in Candidates |-> IF t \in targets THEN state ELSE @[t]]]

\* slice(0, k) of the targets in a set, which keep the pool's order.
First(targets, k) == {t \in targets : Cardinality({u \in targets : u < t}) < k}

Smaller(a, b) == IF a < b THEN a ELSE b

Approved(job) == Candidates \ In(job, {"candidate", "dropped"})

UncertainTargets(job) == In(job, UncertainStates)

FailedTargets(job) == In(job, {"move_failed", "restore_failed"})

-----------------------------------------------------------------------------
(* The ledgers.                                                             *)

\* Mutant: a message that is being deleted may still be restored.
BlockedOnceDeleted(job, t) == job.deletion.target[t] = "verified_deleted"

\* blockedByPermanentDelete
Blocked(job, t) ==
  job.deletion.status = "running" \/ job.deletion.target[t] \notin {"none", "pending"}

\* getOutlookCleanupLedgers(job).verifiedMoved
VerifiedMoved(job) == {t \in In(job, {"moved_verified"}) : ~Blocked(job, t)}

\* view.uncertain as refreshOutlookRecovery recomputes it.
Uncertain(job) ==
  UncertainTargets(job) \cup
  {t \in Candidates : job.deletion.target[t] \in {"uncertain", "dispatching"}}

\* view.movedVerified and view.restoredVerified, likewise.
Moved(job) == In(job, {"moved_verified", "restore_dispatching", "restore_dispatched",
                       "restored_verified", "restore_failed", "restore_uncertain"})
Restored(job) == In(job, {"restored_verified"})

\* refreshOutlookRecovery
Refreshed(job) ==
  [job EXCEPT !.undoAvailable = VerifiedMoved(job) # {}
                /\ job.status \in {"complete", "partial", "uncertain", "failed"}]

\* Mutant: the ledger is not looked at.
PreMutationByStatus(job) == job.status \in {"created", "resolving", "ready", "running"}

\* isOutlookPreMutationJob
PreMutation(job) ==
  /\ job.status \in {"created", "resolving", "ready"}
  /\ ~job.confirmed /\ ~job.undoAvailable
  /\ job.deletion.status = "none"
  /\ job.moving = {} /\ job.restoring = {}
  /\ In(job, TargetStates \ {"candidate", "dropped", "frozen", "excluded"}) = {}

-----------------------------------------------------------------------------
(* Preparation.                                                             *)

\* The candidates of the next verification request.
NextChecked(job) ==
  First(In(job, {"candidate"}),
        Smaller(CheckSize, Requested - Cardinality(Approved(job))))

\* The loop's guard: targets are missing and candidates are left.
MoreToCheck(job) == NextChecked(job) # {}

\* A verification request's candidates, of which some are still eligible.
Checked(job, eligible) ==
  Mark(Mark(job, NextChecked(job), "dropped"), eligible, "frozen")

\* The end of the loop: ready with any target, else failed.
VerificationEnded(job) ==
  IF MoreToCheck(job) THEN job
  ELSE [job EXCEPT !.status = IF Approved(job) # {} THEN "ready" ELSE "failed"]

\* confirmOutlookCleanup's update.
Confirmed(job) == [job EXCEPT !.status = "running", !.confirmed = TRUE]

-----------------------------------------------------------------------------
(* Stopping.                                                                *)

\* Mutant: a restore in doubt may be tried again.
PendingRestored(job) ==
  [job EXCEPT !.target = [t \in Candidates |->
                 CASE @[t] \in {"move_dispatching", "move_dispatched"} -> "move_uncertain"
                   [] @[t] \in {"restore_dispatching", "restore_dispatched"} -> "moved_verified"
                   [] OTHER -> @[t]],
              !.stopped = TRUE, !.moving = {}, !.restoring = {}]

\* markPendingOutlookTargetsUncertain
PendingUncertain(job) ==
  [job EXCEPT !.target = [t \in Candidates |->
                 CASE @[t] \in {"move_dispatching", "move_dispatched"} -> "move_uncertain"
                   [] @[t] \in {"restore_dispatching", "restore_dispatched"} -> "restore_uncertain"
                   [] OTHER -> @[t]],
              !.stopped = TRUE, !.moving = {}, !.restoring = {}]

\* stopOutlookUncertain
StoppedUncertain(job) == Refreshed([PendingUncertain(job) EXCEPT !.status = "uncertain"])

\* The unit's catch clause.
UnitFailed(job) ==
  LET marked == PendingUncertain(job)
  IN  Refreshed([marked EXCEPT !.status =
                   IF UncertainTargets(marked) # {} THEN "uncertain" ELSE "failed"])

\* failJob: the connection is gone.
ConnectionFailed(job) ==
  LET failed == Refreshed([PendingUncertain(job) EXCEPT !.status = "failed"])
  IN  IF Uncertain(failed) # {} THEN [failed EXCEPT !.status = "uncertain"] ELSE failed

-----------------------------------------------------------------------------
(* A batch, forward (op "cleanup") or back (op "undo").                     *)

Active(job, op) == IF op = "cleanup" THEN job.moving ELSE job.restoring

SetActive(job, op, batch) ==
  IF op = "cleanup" THEN [job EXCEPT !.moving = batch] ELSE [job EXCEPT !.restoring = batch]

\* A batch whose dispatch a dead unit recorded and nobody saw answered.
Interrupted(job, op) == In(job, {Dispatching[op]}) # {}

\* The intent that is saved before a batch is sent: the approved targets are
\* dispatching, the others of the batch excluded.
Intended(job, op, batch, approved) ==
  SetActive(Mark(Mark(job, batch \ approved, "excluded"), approved, Dispatching[op]), op, batch)

\* Mutant: whatever was not accepted was rejected.
AnsweredOrRejected(job, op, accepted, rejected) ==
  Mark(Mark(job, In(job, {Dispatching[op]}) \ accepted, Rejected[op]), accepted, Dispatched[op])

\* A batch's answer: 201 with an id, 4xx, or anything else.
Answered(job, op, accepted, rejected) ==
  LET sent == In(job, {Dispatching[op]})
  IN  Mark(Mark(Mark(job, sent \ (accepted \cup rejected), Doubtful[op]),
                accepted, Dispatched[op]),
           rejected, Rejected[op])

\* moveCleanupMessages threw: the whole batch is in doubt.
Unanswered(job, op) == Mark(job, In(job, {Dispatching[op]}), Doubtful[op])

\* The targets of the active batch whose location can be read.
Verifiable(job, op) == Active(job, op) \cap In(job, {Dispatched[op]})

\* What the locations said: verified, or in doubt.
Located(job, op, found) ==
  Mark(Mark(job, Verifiable(job, op), Doubtful[op]), found, Verified[op])

\* Why verifyActiveMoveBatch and verifyActiveUndoBatch stop the job: any
\* uncertainty at all, and one of this batch's restores.
InDoubt(job, op) ==
  \/ op = "cleanup" /\ Uncertain(job) # {}
  \/ op = "undo" /\ Active(job, op) \cap In(job, {"restore_uncertain"}) # {}

BatchDone(job, op) == SetActive(job, op, {})

\* finishOutlookCleanup
Finished(job) ==
  Refreshed([job EXCEPT !.status =
    IF Uncertain(job) # {} THEN "uncertain"
    ELSE IF FailedTargets(job) # {} THEN "partial" ELSE "complete"])

\* Mutant: a restore is complete when nothing is left that may be restored.
UndoFinishedWhenEmpty(job) ==
  Refreshed([job EXCEPT !.status =
    IF VerifiedMoved(job) = {} THEN "undo_complete"
    ELSE IF Uncertain(job) # {} THEN "uncertain" ELSE "partial"])

\* finishOutlookUndo
UndoFinished(job) ==
  Refreshed([job EXCEPT !.status =
    IF Uncertain(job) # {} THEN "uncertain"
    ELSE IF Cardinality(Restored(job)) = Cardinality(Moved(job)) THEN "undo_complete"
    ELSE "partial"])

EndOf(job, op) == IF op = "cleanup" THEN Finished(job) ELSE UndoFinished(job)

\* Whether another unit has work after a batch.
Continues(job, op) ==
  IF op = "cleanup" THEN In(job, {"frozen", "move_dispatched"}) # {}
  ELSE In(job, {"moved_verified", "restore_dispatched"}) # {}

\* The next batch's targets.
NextBatch(job, op) ==
  First(IF op = "cleanup" THEN In(job, {"frozen"}) ELSE VerifiedMoved(job), BatchSize)

\* undoOutlookCleanup on the job it read.
ToUndo(job) ==
  IF job.status \in {"uncertain", "failed", "partial"}
  THEN Refreshed(PendingUncertain(job)) ELSE Refreshed(job)

MayUndo(job) == ToUndo(job).undoAvailable

Undoing(job) == [ToUndo(job) EXCEPT !.status = "undoing", !.undoAvailable = FALSE]
=============================================================================
