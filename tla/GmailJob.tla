------------------------------ MODULE GmailJob ------------------------------
(***************************************************************************)
(* The stored Gmail cleanup job and every function that reads or rewrites  *)
(* it: the workflow planner, the dispatch marker, the executor's twelve     *)
(* outcomes, the preparation of a confirmed job and restore eligibility.    *)
(* All are pure; GmailCleanup puts them between store and provider calls.   *)
(*                                                                          *)
(* Data abstraction.  A chunk's index arrays are sets of messages.  The     *)
(* view's counts follow from them (attempted = safe once verified, and      *)
(* failed or uncertain messages exist exactly when the chunk's status says  *)
(* so), so they are not kept.  A history checkpoint is the position of the  *)
(* next mailbox event, 0 when none was captured.  Optional fields that are  *)
(* undefined are "none".  permanentDeletion is absent in this module.       *)
(***************************************************************************)
EXTENDS Naturals, FiniteSets

CONSTANTS
  NChunks,          \* how many chunks of targets the accepted job has
  Targets           \* [1..NChunks -> the exact messages of that chunk]

Chunks == 1..NChunks
Messages == UNION {Targets[c] : c \in Chunks}

ASSUME ChunksAssumption ==
  /\ NChunks \in Nat \ {0}
  /\ \A c \in Chunks : IsFiniteSet(Targets[c]) /\ Targets[c] # {}
  /\ \A c, d \in Chunks : c # d => Targets[c] \cap Targets[d] = {}

Modes == {"cleanup", "undo"}

JobStatuses ==
  {"created", "safety_checking", "ready", "mutating", "verifying",
   "chunk_complete", "paused", "complete", "partial", "uncertain",
   "undoing", "undo_complete"}

ChunkStatuses ==
  {"pending", "safety_checking", "ready", "mutating", "verifying",
   "complete", "partial", "uncertain", "undoing", "undo_complete"}

ChunkRecords ==
  [status : ChunkStatuses, preflightComplete : BOOLEAN,
   safe : SUBSET Messages, moved : SUBSET Messages,
   restored : SUBSET Messages, checkpoint : Nat, dispatched : BOOLEAN,
   undoCheckpoint : Nat, undoDispatched : BOOLEAN]

Jobs ==
  [status : JobStatuses, confirmed : BOOLEAN,
   restoreMode : {"none", "undo", "recovery"},
   resumeState : {"none", "safety_checking", "mutating", "verifying", "undoing"},
   undoAvailable : BOOLEAN, chunk : [Chunks -> ChunkRecords]]

PendingChunk ==
  [status |-> "pending", preflightComplete |-> FALSE, safe |-> {},
   moved |-> {}, restored |-> {}, checkpoint |-> 0, dispatched |-> FALSE,
   undoCheckpoint |-> 0, undoDispatched |-> FALSE]

AcceptedJob ==
  [status |-> "created", confirmed |-> FALSE, restoreMode |-> "none",
   resumeState |-> "none", undoAvailable |-> FALSE,
   chunk |-> [c \in Chunks |-> PendingChunk]]

-----------------------------------------------------------------------------
(* Which chunk an operation works on.                                       *)

\* Array.find over chunks in index order; 0 when none satisfies.
First(S) == IF S = {} THEN 0 ELSE CHOOSE c \in S : \A d \in S : c <= d

ChunksIn(j, statuses) == {c \in Chunks : j.chunk[c].status \in statuses}

PreflightChunk(j) == First({c \in Chunks : ~j.chunk[c].preflightComplete})

SafetyChunk(j) ==
  LET checking == ChunksIn(j, {"safety_checking"})
  IN  First(IF checking # {} THEN checking ELSE ChunksIn(j, {"pending"}))

MutatingChunk(j) == First(ChunksIn(j, {"mutating"}))

ActiveSensitiveChunk(j) == First(ChunksIn(j, {"mutating", "verifying"}))

Restorable(chunk) == chunk.moved \ chunk.restored

ActiveUndoChunk(j) ==
  First({c \in Chunks : Restorable(j.chunk[c]) # {} /\ j.chunk[c].restored = {}})

-----------------------------------------------------------------------------
(* The planner.                                                             *)

TrashOps == {"checkpoint_trash", "dispatch_trash", "verify_trash"}
UndoOps == {"checkpoint_undo", "dispatch_undo", "verify_undo"}
Dispatches == {"dispatch_trash", "dispatch_undo"}
Operations ==
  {"preflight_safety", "safety_check", "advance_chunk"} \cup TrashOps \cup UndoOps
Stops == {"stop_complete", "stop_waiting_for_confirmation", "stop_terminal"}

\* restorePausedState, and the clone the planner recurses on.
RestorePausedState(j) ==
  IF j.status = "paused" /\ j.resumeState # "none"
  THEN [j EXCEPT !.status = j.resumeState]
  ELSE j

\* Mutant: a dispatch that does not wait for its history checkpoint.
PlanTrashUnchecked(j) ==
  LET c == MutatingChunk(j) IN
  CASE c = 0 -> "stop_terminal"
    [] c # 0 /\ j.chunk[c].dispatched -> "verify_trash"
    [] OTHER -> "dispatch_trash"

PlanTrash(j) ==
  LET c == MutatingChunk(j) IN
  CASE c = 0 -> "stop_terminal"
    [] c # 0 /\ j.chunk[c].checkpoint = 0 ->
         IF j.chunk[c].dispatched THEN "stop_terminal" ELSE "checkpoint_trash"
    [] OTHER ->
         IF j.chunk[c].dispatched THEN "verify_trash" ELSE "dispatch_trash"

PlanCleanup(j) ==
  CASE j.status = "created" -> IF j.confirmed THEN "stop_terminal" ELSE "preflight_safety"
    [] j.status = "safety_checking" -> IF j.confirmed THEN "safety_check" ELSE "preflight_safety"
    [] j.status = "ready" -> "stop_waiting_for_confirmation"
    [] j.status = "mutating" -> PlanTrash(j)
    [] j.status = "verifying" -> "verify_trash"
    [] j.status = "chunk_complete" -> "advance_chunk"
    [] j.status = "complete" -> "stop_complete"
    [] OTHER -> "stop_terminal"

PlanUndo(j) ==
  LET c == ActiveUndoChunk(j) IN
  CASE j.status = "complete" -> "stop_waiting_for_confirmation"
    [] j.status \notin {"complete", "undoing"} -> "stop_terminal"
    [] j.status = "undoing" /\ c = 0 -> "stop_complete"
    [] j.status = "undoing" /\ c # 0 /\ j.chunk[c].undoCheckpoint = 0 ->
         IF j.chunk[c].undoDispatched THEN "stop_terminal" ELSE "checkpoint_undo"
    [] OTHER ->
         IF j.chunk[c].undoDispatched THEN "verify_undo" ELSE "dispatch_undo"

\* planGmailScalableWorkflowStep.  "waiting" says nextEligibleRunAt > now.
Plan(j, mode, waiting) ==
  LET r == RestorePausedState(j) IN
  CASE j.status = "paused" /\ waiting -> "sleep"
    [] r.status \in {"paused", "partial", "uncertain", "undo_complete"}
         /\ ~(j.status = "paused" /\ waiting) -> "stop_terminal"
    [] OTHER -> IF mode = "undo" THEN PlanUndo(r) ELSE PlanCleanup(r)

\* Mutant: the marker goes to a clone, and the job that is committed lacks it.
MarkDispatchLost(j, op) == j

\* markGmailScalableMutationDispatch, committed before anything is sent.
MarkDispatch(j, op) ==
  IF op = "dispatch_trash"
  THEN [j EXCEPT !.chunk[MutatingChunk(j)].dispatched = TRUE]
  ELSE [j EXCEPT !.chunk[ActiveUndoChunk(j)].undoDispatched = TRUE]

-----------------------------------------------------------------------------
(* The executor: what each operation makes of the job.                      *)

\* What execute does first, and what its success leaves of the paused state.
Opened(j) == [RestorePausedState(j) EXCEPT !.resumeState = "none"]

\* The chunk an operation works on, 0 when the search comes back empty.
WorkChunk(j, op) ==
  CASE op = "preflight_safety" -> PreflightChunk(j)
    [] op = "safety_check" -> SafetyChunk(j)
    [] op \in TrashOps -> ActiveSensitiveChunk(j)
    [] op \in UndoOps -> ActiveUndoChunk(j)
    [] OTHER -> 0

\* Without its chunk, and in a verification without the checkpoint and the
\* marker, an operation throws.
CanWork(j, op) ==
  LET c == WorkChunk(j, op) IN
  /\ op # "advance_chunk" => c # 0
  /\ op = "verify_trash" => j.chunk[c].checkpoint # 0 /\ j.chunk[c].dispatched
  /\ op = "verify_undo" => j.chunk[c].undoCheckpoint # 0 /\ j.chunk[c].undoDispatched

\* runPreflightSafetyCheck.  The safe targets it counts are only shown; the
\* ledger is filled by the fresh check after confirmation.
Preflight(j) ==
  LET c == PreflightChunk(j)
      last == \A d \in Chunks \ {c} : j.chunk[d].preflightComplete
  IN  [j EXCEPT !.status = IF last THEN "ready" ELSE "safety_checking",
                !.chunk[c] = [@ EXCEPT !.status = "ready", !.preflightComplete = TRUE]]

\* runSafetyCheck, when the provider finds exactly the targets S safe.
SafetyCheck(j, S) ==
  LET c == SafetyChunk(j)
      mayMutate == j.confirmed \/ \E d \in Chunks : d < c /\ j.chunk[d].status = "complete"
      next == CASE S = {} -> [job |-> "chunk_complete", chunk |-> "complete"]
                [] S # {} /\ mayMutate -> [job |-> "mutating", chunk |-> "mutating"]
                [] OTHER -> [job |-> "ready", chunk |-> "ready"]
  IN  [j EXCEPT !.status = next.job,
                !.chunk[c] = [@ EXCEPT !.status = next.chunk, !.safe = S]]

CheckpointTrash(j, position) ==
  [j EXCEPT !.chunk[ActiveSensitiveChunk(j)].checkpoint = position]

\* dispatch_trash after moveToTrash returned.
TrashSent(j) ==
  [j EXCEPT !.status = "verifying",
            !.chunk[ActiveSensitiveChunk(j)].status = "verifying"]

\* Mutant: failed targets are overlooked when nothing is uncertain.
VerificationStatusLenient(failed, uncertain, done) ==
  IF uncertain # {} THEN "uncertain" ELSE done

\* What a verification says of its targets; the three parts make up all of
\* them (assertVerificationAccounting).
VerificationStatus(failed, uncertain, done) ==
  CASE uncertain # {} -> "uncertain"
    [] uncertain = {} /\ failed # {} -> "partial"
    [] OTHER -> done

\* Mutant: every target that did not fail counts as moved.
VerifyTrashOptimistic(j, verified, failed, uncertain) ==
  LET c == ActiveSensitiveChunk(j) IN
  [j EXCEPT !.status = VerificationStatus(failed, uncertain, "chunk_complete"),
            !.chunk[c] = [@ EXCEPT !.status = VerificationStatus(failed, uncertain, "complete"),
                                   !.moved = verified \cup uncertain]]

VerifyTrash(j, verified, failed, uncertain) ==
  LET c == ActiveSensitiveChunk(j) IN
  [j EXCEPT !.status = VerificationStatus(failed, uncertain, "chunk_complete"),
            !.chunk[c] = [@ EXCEPT !.status = VerificationStatus(failed, uncertain, "complete"),
                                   !.moved = verified]]

\* advanceChunk: the next pending chunk, or the end of the job.
AdvanceChunk(j) ==
  LET next == First(ChunksIn(j, {"pending"}))
      allVerified == \A c \in Chunks : j.chunk[c].status = "complete"
  IN  IF next # 0
      THEN [j EXCEPT !.status = "safety_checking",
                     !.chunk[next].status = "safety_checking"]
      ELSE [j EXCEPT !.status = IF allVerified THEN "complete" ELSE "partial",
                     !.undoAvailable = allVerified /\ \E c \in Chunks : j.chunk[c].moved # {}]

CheckpointUndo(j, position) ==
  [j EXCEPT !.chunk[ActiveUndoChunk(j)].undoCheckpoint = position]

VerifyUndo(j, verified, failed, uncertain) ==
  LET c == ActiveUndoChunk(j)
      after == [j EXCEPT !.chunk[c] =
                  [@ EXCEPT !.restored = verified,
                            !.status = VerificationStatus(failed, uncertain, "undo_complete")]]
      done == IF ActiveUndoChunk(after) # 0 THEN "undoing" ELSE "undo_complete"
  IN  [after EXCEPT !.status = VerificationStatus(failed, uncertain, done)]

\* Mutants: the operation's name for a state, a forgotten safety check and a
\* forgotten restore.
ResumeStateForName(op) == op

ResumeStateForNoSafety(op) ==
  CASE op = "verify_trash" -> "verifying"
    [] op \in UndoOps -> "undoing"
    [] OTHER -> "mutating"

\* resumeStateFor.
ResumeStateFor(op) ==
  CASE op = "safety_check" -> "safety_checking"
    [] op = "verify_trash" -> "verifying"
    [] op \in UndoOps -> "undoing"
    [] OTHER -> "mutating"

\* A quota pause before the operation's requests are done.  What the
\* operation changed in place before its first reservation is kept.
Paused(j, op) ==
  LET open == IF op \in {"preflight_safety", "safety_check"} THEN WorkChunk(j, op) ELSE 0
  IN  [j EXCEPT !.status = "paused",
                !.resumeState = ResumeStateFor(op),
                !.chunk = [c \in Chunks |-> IF c = open
                             THEN [j.chunk[c] EXCEPT !.status = "safety_checking"]
                             ELSE j.chunk[c]]]

-----------------------------------------------------------------------------
(* Confirmation and restore.                                                *)

\* prepareGmailScalableJobForConfirmedCleanup.
PrepareConfirmed(j) ==
  [j EXCEPT !.status = "safety_checking", !.confirmed = TRUE, !.undoAvailable = FALSE,
     !.chunk = [c \in Chunks |->
        [j.chunk[c] EXCEPT !.status = IF c = 1 THEN "safety_checking" ELSE "pending",
           !.safe = {}, !.moved = {}, !.checkpoint = 0, !.dispatched = FALSE]]]

\* hasCompleteExactVerifiedMovedLedger.
HasCompleteLedger(j) ==
  /\ \E c \in Chunks : j.chunk[c].safe # {}
  /\ \A c \in Chunks : /\ j.chunk[c].moved = j.chunk[c].safe
                       /\ j.chunk[c].status \notin {"partial", "uncertain"}

\* exactRecoverableVerifiedMovedLedgerCount is positive.
HasRecoverableLedger(j) ==
  /\ \A c \in Chunks : /\ j.chunk[c].moved \subseteq j.chunk[c].safe
                       /\ j.chunk[c].restored \subseteq j.chunk[c].moved
  /\ \E c \in Chunks : /\ j.chunk[c].moved # {}
                       /\ ~j.chunk[c].undoDispatched
                       /\ j.chunk[c].restored = {}

RecoveryRestoreStatuses == {"chunk_complete", "paused", "partial", "uncertain"}

\* getGmailScalableRestoreEligibility's mode, "none" when unavailable.
RestoreEligibility(j) ==
  CASE j.status = "complete" ->
         IF j.undoAvailable /\ HasCompleteLedger(j) THEN "undo" ELSE "none"
    [] /\ j.status \in RecoveryRestoreStatuses
       /\ j.restoreMode = "none"
       /\ HasRecoverableLedger(j) -> "recovery"
    [] OTHER -> "none"

\* The update of undoDurableGmailScalableCleanup.
BeginUndo(j) ==
  [j EXCEPT !.status = "undoing", !.restoreMode = RestoreEligibility(j),
     !.undoAvailable = FALSE, !.resumeState = "none",
     !.chunk = [c \in Chunks |->
        IF /\ Restorable(j.chunk[c]) # {}
           /\ j.chunk[c].restored = {}
           /\ ~j.chunk[c].undoDispatched
        THEN [j.chunk[c] EXCEPT !.status = "undoing"]
        ELSE j.chunk[c]]]
=============================================================================
