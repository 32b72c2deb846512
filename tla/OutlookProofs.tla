---------------------------- MODULE OutlookProofs ----------------------------
(***************************************************************************)
(* Proofs about OutlookCleanup: for any pool, any workers and any scenario,  *)
(* what its ledgers say of the messages is true, nothing is asked twice, and  *)
(* nothing is asked of a job that was stopped, discarded or completed.        *)
(***************************************************************************)
EXTENDS OutlookLedger, FiniteSetTheorems, TLAPS

-----------------------------------------------------------------------------
(* The operations on a job.                                                 *)

LEMMA JobType ==
  ASSUME NEW job \in Jobs
  PROVE  /\ job.status \in JobStatuses /\ job.stopped \in BOOLEAN /\ job.undoAvailable \in BOOLEAN
         /\ job.moving \in SUBSET Candidates /\ job.restoring \in SUBSET Candidates
         /\ job.target \in [Candidates -> TargetStates] /\ job.deletion \in Deletions
BY DEF Jobs

\* What an operation on the targets leaves alone.
Kept(old, new) ==
  /\ new.status = old.status /\ new.stopped = old.stopped /\ new.deletion = old.deletion
  /\ new.moving = old.moving /\ new.restoring = old.restoring

LEMMA MarkJob ==
  ASSUME NEW job \in Jobs, NEW targets, NEW state \in TargetStates
  PROVE  /\ Mark(job, targets, state) \in Jobs /\ Kept(job, Mark(job, targets, state))
         /\ \A t \in Candidates : Mark(job, targets, state).target[t] =
                                    IF t \in targets THEN state ELSE job.target[t]
<1>1. [t \in Candidates |-> IF t \in targets THEN state ELSE job.target[t]] \in [Candidates -> TargetStates]
  BY JobType
<1>2. Mark(job, targets, state) =
        [job EXCEPT !.target = [t \in Candidates |-> IF t \in targets THEN state ELSE job.target[t]]]
  BY DEF Mark
<1>3. Mark(job, targets, state) \in Jobs
  BY <1>1, <1>2 DEF Jobs
<1> QED BY <1>1, <1>2, <1>3 DEF Jobs, Kept

LEMMA SetStatus ==
  ASSUME NEW job \in Jobs, NEW status \in JobStatuses
  PROVE  LET new == [job EXCEPT !.status = status] IN
         /\ new \in Jobs /\ new.status = status /\ new.stopped = job.stopped /\ new.deletion = job.deletion
         /\ new.moving = job.moving /\ new.restoring = job.restoring /\ new.target = job.target
         /\ new.undoAvailable = job.undoAvailable
BY DEF Jobs

LEMMA SetActiveJob ==
  ASSUME NEW job \in Jobs, NEW op \in Mutations, NEW batch \in SUBSET Candidates
  PROVE  LET new == SetActive(job, op, batch) IN
         /\ new \in Jobs /\ new.status = job.status /\ new.stopped = job.stopped
         /\ new.deletion = job.deletion /\ new.target = job.target
         /\ new.moving = (IF op = "cleanup" THEN batch ELSE job.moving)
         /\ new.restoring = (IF op = "cleanup" THEN job.restoring ELSE batch)
<1>1. CASE op = "cleanup"
  BY <1>1 DEF SetActive, Jobs
<1>2. CASE op # "cleanup"
  BY <1>2 DEF SetActive, Jobs
<1> QED BY <1>1, <1>2

LEMMA NothingDeleted ==
  ASSUME NEW job \in Jobs, job.deletion = NoDeletion
  PROVE  /\ \A t \in Candidates : ~Blocked(job, t)
         /\ VerifiedMoved(job) = In(job, {"moved_verified"}) /\ Uncertain(job) = UncertainTargets(job)
<1>1. job.deletion.status = "none" /\ \A t \in Candidates : job.deletion.target[t] = "none"
  BY DEF NoDeletion
<1>2. \A t \in Candidates : ~Blocked(job, t)
  BY <1>1 DEF Blocked
<1>3. {t \in Candidates : job.deletion.target[t] \in {"uncertain", "dispatching"}} = {}
  BY <1>1
<1> QED BY <1>2, <1>3 DEF VerifiedMoved, Uncertain, In

LEMMA RefreshedJob ==
  ASSUME NEW job \in Jobs
  PROVE  /\ Refreshed(job) \in Jobs /\ Kept(job, Refreshed(job)) /\ Refreshed(job).target = job.target
         /\ Refreshed(job).undoAvailable =
              (VerifiedMoved(job) # {} /\ job.status \in {"complete", "partial", "uncertain", "failed"})
<1>1. PICK available \in BOOLEAN :
        available = (VerifiedMoved(job) # {} /\ job.status \in {"complete", "partial", "uncertain", "failed"})
  OBVIOUS
<1>2. Refreshed(job) = [job EXCEPT !.undoAvailable = available]
  BY <1>1 DEF Refreshed
<1> QED BY <1>1, <1>2 DEF Jobs, Kept

PendingStates == {"move_dispatching", "move_dispatched", "restore_dispatching", "restore_dispatched"}

\* A state that a target in this state may pass to without a word from the mailbox.
Allowed(state) ==
  {state} \cup
  CASE state = "candidate" -> {"dropped", "frozen"}
    [] state = "frozen" -> {"excluded", "recheck_uncertain", "move_dispatching"}
    [] state = "move_dispatching" -> {"move_uncertain"}
    [] state = "move_dispatched" -> {"move_uncertain", "moved_verified"}
    [] state = "moved_verified" -> {"restore_dispatching"}
    [] state = "restore_dispatching" -> {"restore_uncertain"}
    [] state = "restore_dispatched" -> {"restore_uncertain", "restored_verified"}
    [] OTHER -> {}

Follows(old, new) == \A t \in Candidates : new.target[t] \in Allowed(old.target[t])

LEMMA RankType == \A state \in TargetStates : Rank(state) \in 0 .. 6
BY DEF Rank, TargetStates, UncertainStates

LEMMA FollowsSame ==
  ASSUME NEW old, NEW new, new.target = old.target
  PROVE  Follows(old, new)
BY DEF Follows, Allowed

\* Such a step is true and never goes back.
LEMMA FollowsTrue ==
  ASSUME NEW old \in Jobs, NEW new \in Jobs, Follows(old, new)
  PROVE  (JobTrue(old) => JobTrue(new)) /\ NeverBack(old, new)
<1>1. ASSUME NEW t \in Candidates
      PROVE  /\ old.target[t] \in TargetStates /\ new.target[t] \in Allowed(old.target[t])
             /\ Rank(new.target[t]) >= Rank(old.target[t])
             /\ TargetTrue(old, t) => TargetTrue(new, t)
  <2>1. old.target[t] \in TargetStates /\ new.target[t] \in Allowed(old.target[t])
    BY <1>1, JobType DEF Follows
  <2>2. CASE new.target[t] = old.target[t]
    BY <2>1, <2>2, RankType DEF TargetTrue
  <2>3. CASE new.target[t] # old.target[t]
    <3>1. Rank(new.target[t]) >= Rank(old.target[t])
      BY <2>1, <2>3 DEF Allowed, Rank
    <3>2. TargetTrue(old, t) => TargetTrue(new, t)
      BY <2>1, <2>3 DEF Allowed, TargetTrue, Untouched, OpenStates, RestoreStates
    <3> QED BY <2>1, <3>1, <3>2
  <2> QED BY <2>1, <2>2, <2>3
<1> QED BY <1>1 DEF JobTrue, NeverBack

LEMMA NeverBackTransitive ==
  ASSUME NEW a \in Jobs, NEW b \in Jobs, NEW c \in Jobs, NeverBack(a, b), NeverBack(b, c)
  PROVE  NeverBack(a, c)
<1>1. ASSUME NEW t \in Candidates
      PROVE  Rank(c.target[t]) >= Rank(a.target[t])
  <2>1. Rank(a.target[t]) \in Nat /\ Rank(b.target[t]) \in Nat /\ Rank(c.target[t]) \in Nat
    BY <1>1, JobType, RankType
  <2> QED BY <1>1, <2>1 DEF NeverBack
<1> QED BY <1>1 DEF NeverBack

-----------------------------------------------------------------------------
(* Stopping.                                                                *)

LEMMA PendingJob ==
  ASSUME NEW job \in Jobs
  PROVE  LET new == PendingUncertain(job) IN
         /\ new \in Jobs /\ new.status = job.status /\ new.deletion = job.deletion
         /\ new.moving = {} /\ new.restoring = {}
         /\ \A t \in Candidates : new.target[t] =
              IF job.target[t] \in {"move_dispatching", "move_dispatched"} THEN "move_uncertain"
              ELSE IF job.target[t] \in {"restore_dispatching", "restore_dispatched"} THEN "restore_uncertain"
              ELSE job.target[t]
<1> DEFINE target == [t \in Candidates |->
              IF job.target[t] \in {"move_dispatching", "move_dispatched"} THEN "move_uncertain"
              ELSE IF job.target[t] \in {"restore_dispatching", "restore_dispatched"} THEN "restore_uncertain"
              ELSE job.target[t]]
<1>1. target \in [Candidates -> TargetStates]
  BY JobType DEF TargetStates, UncertainStates
<1>2. PendingUncertain(job) =
        [job EXCEPT !.target = target, !.stopped = TRUE, !.moving = {}, !.restoring = {}]
  <2>1. target = [t \in Candidates |->
                 CASE job.target[t] \in {"move_dispatching", "move_dispatched"} -> "move_uncertain"
                   [] job.target[t] \in {"restore_dispatching", "restore_dispatched"} -> "restore_uncertain"
                   [] OTHER -> job.target[t]]
    <3>1. ASSUME NEW t \in Candidates
          PROVE  target[t] = CASE job.target[t] \in {"move_dispatching", "move_dispatched"} -> "move_uncertain"
                   [] job.target[t] \in {"restore_dispatching", "restore_dispatched"} -> "restore_uncertain"
                   [] OTHER -> job.target[t]
      BY <3>1
    <3> QED BY <3>1
  <2> QED BY <2>1 DEF PendingUncertain
<1> HIDE DEF target
<1>3. /\ PendingUncertain(job) \in Jobs /\ PendingUncertain(job).target = target
      /\ PendingUncertain(job).status = job.status /\ PendingUncertain(job).deletion = job.deletion
      /\ PendingUncertain(job).moving = {} /\ PendingUncertain(job).restoring = {}
  BY <1>1, <1>2 DEF Jobs
<1> QED BY <1>3 DEF target

\* What a stop makes of a job, whatever status it gives it.
Stopped(old, new) ==
  /\ new \in Jobs /\ JobFits(new) /\ Follows(old, new)
  /\ new.moving = {} /\ \A t \in Candidates : new.target[t] \notin PendingStates

LEMMA StoppedJob ==
  ASSUME NEW job \in Jobs, JobFits(job), NEW new \in Jobs, new.deletion = job.deletion,
         new.target = PendingUncertain(job).target, new.moving = {}, new.restoring = {},
         new.status \in {"uncertain", "failed", "partial", "undoing"}
  PROVE  Stopped(job, new)
<1>1. ASSUME NEW t \in Candidates
      PROVE  new.target[t] \notin PendingStates /\ new.target[t] \in Allowed(job.target[t])
  <2>1. job.target[t] \in TargetStates
    BY <1>1, JobType
  <2> QED BY <1>1, <2>1, PendingJob DEF PendingStates, Allowed
<1>2. Follows(job, new)
  BY <1>1 DEF Follows
<1>3. JobFits(new)
  BY <1>1 DEF JobFits, In, PendingStates
<1> QED BY <1>1, <1>2, <1>3 DEF Stopped

LEMMA StoppedUncertainJob ==
  ASSUME NEW job \in Jobs, JobFits(job)
  PROVE  Stopped(job, StoppedUncertain(job)) /\ StoppedUncertain(job).status = "uncertain"
<1> DEFINE marked == PendingUncertain(job)
           failed == [marked EXCEPT !.status = "uncertain"]
<1>1. marked \in Jobs /\ "uncertain" \in JobStatuses
  BY PendingJob DEF JobStatuses
<1>2. marked.deletion = job.deletion /\ marked.moving = {} /\ marked.restoring = {}
  BY PendingJob
<1>3. StoppedUncertain(job) = Refreshed(failed) /\ marked.target = PendingUncertain(job).target
  BY DEF StoppedUncertain
<1> HIDE DEF marked
<1>4. /\ failed \in Jobs /\ failed.status = "uncertain" /\ failed.deletion = marked.deletion
      /\ failed.target = marked.target /\ failed.moving = marked.moving /\ failed.restoring = marked.restoring
  BY <1>1, SetStatus
<1> HIDE DEF failed
<1>5. PICK new : new = Refreshed(failed)
  OBVIOUS
<1>6. new \in Jobs /\ Kept(failed, new) /\ new.target = failed.target
  BY <1>4, <1>5, RefreshedJob
<1>7. Stopped(job, new)
  BY <1>2, <1>3, <1>4, <1>6, StoppedJob DEF Kept
<1> QED BY <1>3, <1>4, <1>5, <1>6, <1>7 DEF Kept

\* A job that asks for nothing stays so when its unit fails.
LEMMA NothingPending ==
  ASSUME NEW job \in Jobs, Over(job)
  PROVE  /\ \A t \in Candidates : PendingUncertain(job).target[t] = job.target[t]
         /\ UncertainTargets(PendingUncertain(job)) = {}
<1>1. ASSUME NEW t \in Candidates
      PROVE  PendingUncertain(job).target[t] = job.target[t] /\ PendingUncertain(job).target[t] \in AtRest
  BY <1>1, PendingJob DEF Over, AtRest
<1> QED BY <1>1 DEF UncertainTargets, In, AtRest, UncertainStates

LEMMA UnitFailedJob ==
  ASSUME NEW job \in Jobs, JobFits(job)
  PROVE  /\ Stopped(job, UnitFailed(job)) /\ UnitFailed(job).status \in {"uncertain", "failed"}
         /\ Over(job) => Over(UnitFailed(job))
<1> DEFINE marked == PendingUncertain(job)
           status == IF UncertainTargets(marked) # {} THEN "uncertain" ELSE "failed"
           failed == [marked EXCEPT !.status = status]
<1>1. marked \in Jobs /\ status \in JobStatuses /\ status \in {"uncertain", "failed"}
  BY PendingJob DEF JobStatuses
<1>2. marked.deletion = job.deletion /\ marked.moving = {} /\ marked.restoring = {}
  BY PendingJob
<1>3. UnitFailed(job) = Refreshed(failed) /\ marked.target = PendingUncertain(job).target
  BY DEF UnitFailed
<1>a. Over(job) => status = "failed" /\ \A t \in Candidates : marked.target[t] = job.target[t]
  BY NothingPending
<1> HIDE DEF marked, status
<1>4. /\ failed \in Jobs /\ failed.status = status /\ failed.deletion = marked.deletion
      /\ failed.target = marked.target /\ failed.moving = marked.moving /\ failed.restoring = marked.restoring
  BY <1>1, SetStatus
<1> HIDE DEF failed
<1>5. PICK new : new = Refreshed(failed)
  OBVIOUS
<1>6. new \in Jobs /\ Kept(failed, new) /\ new.target = failed.target
  BY <1>4, <1>5, RefreshedJob
<1>7. Stopped(job, new) /\ new.status \in {"uncertain", "failed"}
  BY <1>1, <1>2, <1>3, <1>4, <1>6, StoppedJob DEF Kept
<1>8. Over(job) => Over(new)
  BY <1>a, <1>4, <1>6 DEF Over, Kept
<1> QED BY <1>3, <1>5, <1>7, <1>8

LEMMA ConnectionFailedJob ==
  ASSUME NEW job \in Jobs, JobFits(job)
  PROVE  /\ Stopped(job, ConnectionFailed(job)) /\ ConnectionFailed(job).status \in {"uncertain", "failed"}
         /\ Over(job) => Over(ConnectionFailed(job))
<1> DEFINE marked == PendingUncertain(job)
           set == [marked EXCEPT !.status = "failed"]
           failed == Refreshed(set)
           doubted == [failed EXCEPT !.status = "uncertain"]
<1>1. marked \in Jobs /\ "failed" \in JobStatuses /\ "uncertain" \in JobStatuses
  BY PendingJob DEF JobStatuses
<1>2. marked.deletion = job.deletion /\ marked.moving = {} /\ marked.restoring = {}
  BY PendingJob
<1>3. /\ ConnectionFailed(job) = IF Uncertain(failed) # {} THEN doubted ELSE failed
      /\ marked.target = PendingUncertain(job).target
  BY DEF ConnectionFailed
<1>a. /\ Over(job) => \A t \in Candidates : marked.target[t] = job.target[t]
      /\ Over(job) => UncertainTargets(marked) = {}
  BY NothingPending
<1> HIDE DEF marked
<1>4. /\ set \in Jobs /\ set.status = "failed" /\ set.deletion = marked.deletion
      /\ set.target = marked.target /\ set.moving = marked.moving /\ set.restoring = marked.restoring
  BY <1>1, SetStatus
<1> HIDE DEF set
<1>5. failed \in Jobs /\ Kept(set, failed) /\ failed.target = set.target
  BY <1>4, RefreshedJob
<1> HIDE DEF failed
<1>6. /\ doubted \in Jobs /\ doubted.status = "uncertain" /\ doubted.deletion = failed.deletion
      /\ doubted.target = failed.target /\ doubted.moving = failed.moving /\ doubted.restoring = failed.restoring
  BY <1>1, <1>5, SetStatus
<1> HIDE DEF doubted
<1>7. Uncertain(failed) = UncertainTargets(failed)
  BY <1>2, <1>4, <1>5, NothingDeleted DEF Kept, JobFits
<1>8. PICK new : new = ConnectionFailed(job)
  OBVIOUS
<1>9. new \in {failed, doubted}
  BY <1>3, <1>8
<1>10. /\ new \in Jobs /\ new.status \in {"uncertain", "failed"} /\ new.deletion = job.deletion
       /\ new.target = PendingUncertain(job).target /\ new.moving = {} /\ new.restoring = {}
  BY <1>2, <1>3, <1>4, <1>5, <1>6, <1>9 DEF Kept
<1>11. Stopped(job, new)
  BY <1>10, StoppedJob
<1>12. Over(job) => Over(new)
  <2>1. UncertainTargets(failed) = UncertainTargets(marked)
    BY <1>4, <1>5 DEF UncertainTargets, In
  <2>2. Over(job) => new = failed
    BY <1>a, <1>3, <1>7, <1>8, <2>1
  <2> QED BY <1>a, <1>4, <1>5, <2>2 DEF Over, Kept
<1> QED BY <1>8, <1>10, <1>11, <1>12

-----------------------------------------------------------------------------
(* Preparation and the user's requests.                                     *)

\* A job that a unit may go on with, or a row may have next.
GoesOn(old, new) == new \in Jobs /\ JobFits(new) /\ Follows(old, new)

Forward == {"created", "resolving", "ready", "running"}

LEMMA SetStatusGoesOn ==
  ASSUME NEW job \in Jobs, JobFits(job), NEW new \in Jobs, new.status \in Forward \cup {"failed"},
         new.target = job.target, new.moving = job.moving, new.restoring = job.restoring,
         new.deletion = job.deletion, job.status \in Forward
  PROVE  GoesOn(job, new)
<1>1. Follows(job, new)
  BY FollowsSame
<1>2. JobFits(new)
  BY DEF JobFits, In, Forward
<1> QED BY <1>1, <1>2 DEF GoesOn

LEMMA CheckedJob ==
  ASSUME NEW job \in Jobs, JobFits(job), job.status = "resolving", NEW eligible \in SUBSET NextChecked(job)
  PROVE  GoesOn(job, Checked(job, eligible)) /\ Checked(job, eligible).status = "resolving"
<1> DEFINE dropped == Mark(job, NextChecked(job), "dropped")
<1>1. /\ dropped \in Jobs /\ Kept(job, dropped)
      /\ \A t \in Candidates : dropped.target[t] = IF t \in NextChecked(job) THEN "dropped" ELSE job.target[t]
  BY MarkJob DEF TargetStates
<1>2. Checked(job, eligible) = Mark(dropped, eligible, "frozen")
  BY DEF Checked
<1> HIDE DEF dropped
<1>3. PICK new : new = Mark(dropped, eligible, "frozen")
  OBVIOUS
<1>4. /\ new \in Jobs /\ Kept(dropped, new)
      /\ \A t \in Candidates : new.target[t] = IF t \in eligible THEN "frozen" ELSE dropped.target[t]
  BY <1>1, <1>3, MarkJob DEF TargetStates
<1>5. \A t \in NextChecked(job) : t \in Candidates /\ job.target[t] = "candidate"
  BY DEF NextChecked, First, In
<1>6. ASSUME NEW t \in Candidates
      PROVE  new.target[t] \in Allowed(job.target[t])
             /\ (new.target[t] = job.target[t] \/ new.target[t] \in {"dropped", "frozen"})
  BY <1>1, <1>4, <1>5, <1>6 DEF Allowed
<1>7. JobFits(new)
  BY <1>1, <1>4, <1>6 DEF JobFits, In, Kept, RestoreStates
<1> QED BY <1>1, <1>2, <1>3, <1>4, <1>6, <1>7 DEF GoesOn, Follows, Kept

LEMMA VerificationEndedJob ==
  ASSUME NEW job \in Jobs, JobFits(job), job.status = "resolving"
  PROVE  GoesOn(job, VerificationEnded(job))
<1>1. CASE MoreToCheck(job)
  BY <1>1, FollowsSame DEF VerificationEnded, GoesOn
<1>2. CASE ~MoreToCheck(job)
  <2>1. PICK status \in {"ready", "failed"} : VerificationEnded(job) = [job EXCEPT !.status = status]
    BY <1>2 DEF VerificationEnded
  <2>2. status \in JobStatuses /\ job.status \in Forward /\ status \in Forward \cup {"failed"}
    BY DEF JobStatuses, Forward
  <2>3. PICK new : new = [job EXCEPT !.status = status]
    OBVIOUS
  <2>4. /\ new \in Jobs /\ new.status = status /\ new.deletion = job.deletion /\ new.target = job.target
        /\ new.moving = job.moving /\ new.restoring = job.restoring
    BY <2>2, <2>3, SetStatus
  <2>5. GoesOn(job, new)
    BY <2>2, <2>4, SetStatusGoesOn
  <2> QED BY <2>1, <2>3, <2>5
<1> QED BY <1>1, <1>2

LEMMA ConfirmedJob ==
  ASSUME NEW job \in Jobs, JobFits(job), job.status = "ready"
  PROVE  GoesOn(job, Confirmed(job))
<1>1. PICK new : new = Confirmed(job)
  OBVIOUS
<1>2. /\ new \in Jobs /\ new.status = "running" /\ new.deletion = job.deletion /\ new.target = job.target
      /\ new.moving = job.moving /\ new.restoring = job.restoring
  BY <1>1 DEF Confirmed, Jobs, JobStatuses
<1>3. GoesOn(job, new)
  BY <1>2, SetStatusGoesOn DEF Forward
<1> QED BY <1>1, <1>3

LEMMA UndoingJob ==
  ASSUME NEW job \in Jobs, JobFits(job), MayUndo(job)
  PROVE  /\ GoesOn(job, Undoing(job)) /\ Undoing(job).status = "undoing" /\ ~Over(job)
         /\ job.status \in {"complete", "partial", "uncertain", "failed"}
<1>1. PICK marked : marked = IF job.status \in {"uncertain", "failed", "partial"} THEN PendingUncertain(job) ELSE job
  OBVIOUS
<1>2. marked \in Jobs /\ marked.status = job.status /\ marked.deletion = job.deletion
  BY <1>1, PendingJob
<1>3. PICK refreshed : refreshed = Refreshed(marked)
  OBVIOUS
<1>4. /\ refreshed \in Jobs /\ Kept(marked, refreshed) /\ refreshed.target = marked.target
      /\ refreshed.undoAvailable =
           (VerifiedMoved(marked) # {} /\ marked.status \in {"complete", "partial", "uncertain", "failed"})
  BY <1>2, <1>3, RefreshedJob
<1>5. ToUndo(job) = refreshed
  BY <1>1, <1>3 DEF ToUndo
<1>6. VerifiedMoved(marked) # {} /\ job.status \in {"complete", "partial", "uncertain", "failed"}
  BY <1>2, <1>4, <1>5 DEF MayUndo
<1>7. PICK new : new = Undoing(job)
  OBVIOUS
<1>8. /\ new \in Jobs /\ new.status = "undoing" /\ new.deletion = refreshed.deletion
      /\ new.target = refreshed.target /\ new.moving = refreshed.moving /\ new.restoring = refreshed.restoring
  BY <1>4, <1>5, <1>7 DEF Undoing, Jobs, JobStatuses
<1>9. GoesOn(job, new)
  <2>1. CASE job.status = "complete"
    <3>1. new.target = job.target /\ new.moving = job.moving /\ new.restoring = job.restoring
      BY <1>1, <1>4, <1>8, <2>1 DEF Kept
    <3>2. Follows(job, new)
      BY <3>1, FollowsSame
    <3>3. JobFits(new)
      BY <1>2, <1>4, <1>8, <2>1, <3>1 DEF JobFits, In, Kept, CleanedUp
    <3> QED BY <1>8, <3>2, <3>3 DEF GoesOn
  <2>2. CASE job.status # "complete"
    <3>1. marked = PendingUncertain(job)
      BY <1>1, <1>6, <2>2
    <3>2. marked.target = PendingUncertain(job).target /\ marked.moving = {} /\ marked.restoring = {}
      BY <3>1, PendingJob
    <3>3. Stopped(job, new)
      BY <1>2, <1>4, <1>8, <3>2, StoppedJob DEF Kept
    <3> QED BY <3>3 DEF Stopped, GoesOn
  <2> QED BY <2>1, <2>2
<1>10. ~Over(job)
  <2>1. PICK t \in Candidates : marked.target[t] = "moved_verified"
    BY <1>6 DEF VerifiedMoved, In
  <2>2. job.target[t] \in {"moved_verified", "restore_dispatching", "restore_dispatched"} \cup TargetStates
        /\ job.target[t] = "moved_verified"
    BY <1>1, <2>1, PendingJob, JobType
  <2> QED BY <2>1, <2>2 DEF Over, AtRest
<1> QED BY <1>6, <1>7, <1>8, <1>9, <1>10

-----------------------------------------------------------------------------
(* A batch.                                                                 *)

LEMMA NextBatchType ==
  ASSUME NEW job \in Jobs, JobFits(job)
  PROVE  /\ \A t \in NextBatch(job, "cleanup") : t \in Candidates /\ job.target[t] = "frozen"
         /\ \A t \in NextBatch(job, "undo") : t \in Candidates /\ job.target[t] = "moved_verified"
BY DEF NextBatch, First, VerifiedMoved, In

LEMMA RecheckedJob ==
  ASSUME NEW job \in Jobs, JobFits(job), job.status = "running", NEW batch, batch = NextBatch(job, "cleanup")
  PROVE  GoesOn(job, Mark(job, batch, "recheck_uncertain"))
<1>1. PICK new : new = Mark(job, batch, "recheck_uncertain")
  OBVIOUS
<1>2. /\ new \in Jobs /\ Kept(job, new)
      /\ \A t \in Candidates : new.target[t] = IF t \in batch THEN "recheck_uncertain" ELSE job.target[t]
  BY <1>1, MarkJob DEF TargetStates, UncertainStates
<1>3. ASSUME NEW t \in Candidates
      PROVE  /\ new.target[t] \in Allowed(job.target[t])
             /\ (new.target[t] = job.target[t] \/ new.target[t] = "recheck_uncertain")
  BY <1>2, <1>3, NextBatchType DEF Allowed
<1>4. JobFits(new)
  BY <1>2, <1>3 DEF JobFits, In, Kept, RestoreStates
<1> QED BY <1>1, <1>2, <1>3, <1>4 DEF GoesOn, Follows

LEMMA IntendedCleanup ==
  ASSUME NEW job \in Jobs, JobFits(job), job.status = "running", job.moving = {},
         NEW approved \in SUBSET NextBatch(job, "cleanup")
  PROVE  LET new == Intended(job, "cleanup", NextBatch(job, "cleanup"), approved) IN
         /\ GoesOn(job, new) /\ new.status = "running" /\ new.stopped = job.stopped
         /\ In(new, {"move_dispatching"}) = approved
<1>1. PICK batch : batch = NextBatch(job, "cleanup")
  OBVIOUS
<1>2. batch \in SUBSET Candidates /\ \A t \in batch : job.target[t] = "frozen"
  BY <1>1, NextBatchType
<1>3. PICK excluded : excluded = Mark(job, batch \ approved, "excluded")
  OBVIOUS
<1>4. /\ excluded \in Jobs /\ Kept(job, excluded)
      /\ \A t \in Candidates : excluded.target[t] = IF t \in batch \ approved THEN "excluded" ELSE job.target[t]
  BY <1>3, MarkJob DEF TargetStates
<1>5. PICK marked : marked = Mark(excluded, approved, "move_dispatching")
  OBVIOUS
<1>6. /\ marked \in Jobs /\ Kept(excluded, marked)
      /\ \A t \in Candidates : marked.target[t] = IF t \in approved THEN "move_dispatching" ELSE excluded.target[t]
  BY <1>4, <1>5, MarkJob DEF TargetStates
<1>7. PICK new : new = SetActive(marked, "cleanup", batch)
  OBVIOUS
<1>8. /\ new \in Jobs /\ new.status = marked.status /\ new.stopped = marked.stopped
      /\ new.deletion = marked.deletion /\ new.target = marked.target
      /\ new.moving = batch /\ new.restoring = marked.restoring
  BY <1>2, <1>6, <1>7, SetActiveJob DEF Mutations
<1>9. Intended(job, "cleanup", batch, approved) = new
  BY <1>3, <1>5, <1>7 DEF Intended, Dispatching
<1>10. \A t \in Candidates : job.target[t] \notin {"move_dispatching", "move_dispatched"}
  BY DEF JobFits, In
<1>11. ASSUME NEW t \in Candidates
       PROVE  /\ new.target[t] \in Allowed(job.target[t])
              /\ t \in approved => new.target[t] = "move_dispatching" /\ t \in batch
              /\ t \notin approved => new.target[t] \in {job.target[t], "excluded"}
  BY <1>1, <1>2, <1>4, <1>6, <1>8, <1>11 DEF Allowed
<1>12. JobFits(new)
  BY <1>4, <1>6, <1>8, <1>10, <1>11 DEF JobFits, In, Kept, RestoreStates
<1>13. In(new, {"move_dispatching"}) = approved
  BY <1>1, <1>2, <1>10, <1>11 DEF In
<1> QED BY <1>1, <1>4, <1>6, <1>8, <1>9, <1>11, <1>12, <1>13 DEF GoesOn, Follows, Kept

LEMMA IntendedUndo ==
  ASSUME NEW job \in Jobs, JobFits(job), job.status = "undoing", job.restoring = {}
  PROVE  LET batch == NextBatch(job, "undo")
             new == Intended(job, "undo", batch, batch) IN
         /\ GoesOn(job, new) /\ new.status = "undoing"
         /\ In(new, {"restore_dispatching"}) = batch
<1>1. PICK batch : batch = NextBatch(job, "undo")
  OBVIOUS
<1>2. batch \in SUBSET Candidates /\ \A t \in batch : job.target[t] = "moved_verified"
  BY <1>1, NextBatchType
<1>3. PICK excluded : excluded = Mark(job, batch \ batch, "excluded")
  OBVIOUS
<1>4. /\ excluded \in Jobs /\ Kept(job, excluded)
      /\ \A t \in Candidates : excluded.target[t] = job.target[t]
  BY <1>3, MarkJob DEF TargetStates
<1>5. PICK marked : marked = Mark(excluded, batch, "restore_dispatching")
  OBVIOUS
<1>6. /\ marked \in Jobs /\ Kept(excluded, marked)
      /\ \A t \in Candidates : marked.target[t] = IF t \in batch THEN "restore_dispatching" ELSE excluded.target[t]
  BY <1>4, <1>5, MarkJob DEF TargetStates
<1>7. PICK new : new = SetActive(marked, "undo", batch)
  OBVIOUS
<1>8. /\ new \in Jobs /\ new.status = marked.status /\ new.stopped = marked.stopped
      /\ new.deletion = marked.deletion /\ new.target = marked.target
      /\ new.moving = marked.moving /\ new.restoring = batch
  BY <1>2, <1>6, <1>7, SetActiveJob DEF Mutations
<1>9. Intended(job, "undo", batch, batch) = new
  BY <1>3, <1>5, <1>7 DEF Intended, Dispatching
<1>10. \A t \in Candidates : job.target[t] \notin {"restore_dispatching", "restore_dispatched"}
  BY DEF JobFits, In
<1>11. ASSUME NEW t \in Candidates
       PROVE  /\ new.target[t] \in Allowed(job.target[t])
              /\ t \in batch => new.target[t] = "restore_dispatching"
              /\ t \notin batch => new.target[t] = job.target[t]
  BY <1>2, <1>4, <1>6, <1>8, <1>11 DEF Allowed
<1>12. JobFits(new)
  BY <1>4, <1>6, <1>8, <1>10, <1>11 DEF JobFits, In, Kept
<1>13. In(new, {"restore_dispatching"}) = batch
  BY <1>2, <1>10, <1>11 DEF In
<1> QED BY <1>1, <1>4, <1>6, <1>8, <1>9, <1>11, <1>12, <1>13 DEF GoesOn, Follows, Kept

Names ==
  /\ Dispatching["cleanup"] = "move_dispatching" /\ Dispatching["undo"] = "restore_dispatching"
  /\ Dispatched["cleanup"] = "move_dispatched" /\ Dispatched["undo"] = "restore_dispatched"
  /\ Verified["cleanup"] = "moved_verified" /\ Verified["undo"] = "restored_verified"
  /\ Rejected["cleanup"] = "move_failed" /\ Rejected["undo"] = "restore_failed"
  /\ Doubtful["cleanup"] = "move_uncertain" /\ Doubtful["undo"] = "restore_uncertain"

LEMMA NamesRight == Names
BY DEF Names, Dispatching, Dispatched, Verified, Rejected, Doubtful

LEMMA NamesType ==
  ASSUME NEW op \in Mutations
  PROVE  /\ Dispatching[op] \in TargetStates /\ Dispatched[op] \in TargetStates /\ Verified[op] \in TargetStates
         /\ Rejected[op] \in TargetStates /\ Doubtful[op] \in TargetStates
BY NamesRight DEF Names, Mutations, TargetStates, UncertainStates

LEMMA UnansweredJob ==
  ASSUME NEW job \in Jobs, NEW op \in Mutations, JobFits(job), job.status = Phase(op)
  PROVE  GoesOn(job, Unanswered(job, op))
<1>1. PICK new : new = Mark(job, In(job, {Dispatching[op]}), Doubtful[op])
  OBVIOUS
<1>2. /\ new \in Jobs /\ Kept(job, new)
      /\ \A t \in Candidates : new.target[t] =
           IF t \in In(job, {Dispatching[op]}) THEN Doubtful[op] ELSE job.target[t]
  BY <1>1, NamesType, MarkJob
<1>3. CASE op = "cleanup"
  <2>1. ASSUME NEW t \in Candidates
        PROVE  new.target[t] \in Allowed(job.target[t]) /\ new.target[t] \in {job.target[t], "move_uncertain"}
    BY <1>2, <1>3, <2>1, NamesRight DEF Names, In, Allowed
  <2>2. JobFits(new)
    BY <1>2, <1>3, <2>1 DEF JobFits, In, Kept, RestoreStates, Phase
  <2> QED BY <1>1, <1>2, <2>1, <2>2 DEF GoesOn, Follows, Unanswered
<1>4. CASE op = "undo"
  <2>1. ASSUME NEW t \in Candidates
        PROVE  new.target[t] \in Allowed(job.target[t]) /\ new.target[t] \in {job.target[t], "restore_uncertain"}
    BY <1>2, <1>4, <2>1, NamesRight DEF Names, In, Allowed
  <2>2. JobFits(new)
    BY <1>2, <1>4, <2>1 DEF JobFits, In, Kept, Phase
  <2> QED BY <1>1, <1>2, <2>1, <2>2 DEF GoesOn, Follows, Unanswered
<1> QED BY <1>3, <1>4 DEF Mutations

\* An answer is the one step of a job that the mailbox has a part in.
LEMMA AnsweredJob ==
  ASSUME NEW job \in Jobs, NEW op \in Mutations, JobFits(job), job.status = Phase(op),
         NEW accepted \in SUBSET In(job, {Dispatching[op]}),
         NEW rejected \in SUBSET In(job, {Dispatching[op]}), accepted \cap rejected = {}
  PROVE  LET new == Answered(job, op, accepted, rejected) IN
         /\ new \in Jobs /\ JobFits(new) /\ Kept(job, new)
         /\ \A t \in Candidates : new.target[t] =
              IF t \in rejected THEN Rejected[op]
              ELSE IF t \in accepted THEN Dispatched[op]
              ELSE IF job.target[t] = Dispatching[op] THEN Doubtful[op] ELSE job.target[t]
<1>a. PICK rest : rest = In(job, {Dispatching[op]}) \ (accepted \cup rejected)
  OBVIOUS
<1>b. PICK doubtful : doubtful = Doubtful[op] /\ doubtful \in TargetStates
  BY NamesType
<1>c. PICK dispatched : dispatched = Dispatched[op] /\ dispatched \in TargetStates
  BY NamesType
<1>d. PICK refused : refused = Rejected[op] /\ refused \in TargetStates
  BY NamesType
<1>1. PICK doubted : doubted = Mark(job, rest, doubtful)
  OBVIOUS
<1>2. /\ doubted \in Jobs /\ Kept(job, doubted)
      /\ \A t \in Candidates : doubted.target[t] =
           IF t \in rest THEN doubtful ELSE job.target[t]
  BY <1>1, <1>b, MarkJob
<1>3. PICK taken : taken = Mark(doubted, accepted, dispatched)
  OBVIOUS
<1>4. /\ taken \in Jobs /\ Kept(doubted, taken)
      /\ \A t \in Candidates : taken.target[t] = IF t \in accepted THEN dispatched ELSE doubted.target[t]
  BY <1>2, <1>3, <1>c, MarkJob
<1>5. PICK new : new = Mark(taken, rejected, refused)
  OBVIOUS
<1>6. /\ new \in Jobs /\ Kept(taken, new)
      /\ \A t \in Candidates : new.target[t] = IF t \in rejected THEN refused ELSE taken.target[t]
  BY <1>4, <1>5, <1>d, MarkJob
<1>7. Answered(job, op, accepted, rejected) = new
  BY <1>a, <1>b, <1>c, <1>d, <1>1, <1>3, <1>5 DEF Answered
<1>8. ASSUME NEW t \in Candidates
      PROVE  /\ new.target[t] =
                  IF t \in rejected THEN Rejected[op]
                  ELSE IF t \in accepted THEN Dispatched[op]
                  ELSE IF job.target[t] = Dispatching[op] THEN Doubtful[op] ELSE job.target[t]
             /\ t \in accepted \cup rejected => job.target[t] = Dispatching[op]
  BY <1>a, <1>b, <1>c, <1>d, <1>2, <1>4, <1>6, <1>8 DEF In
<1>9. Kept(job, new)
  BY <1>2, <1>4, <1>6 DEF Kept
<1>10. JobFits(new)
  <2>1. CASE op = "cleanup"
    <3>1. ASSUME NEW t \in Candidates
          PROVE  /\ new.target[t] \in {job.target[t], "move_failed", "move_dispatched", "move_uncertain"}
                 /\ new.target[t] = "move_dispatched" => job.target[t] \in {"move_dispatched", "move_dispatching"}
      BY <1>8, <2>1, <3>1, NamesRight DEF Names
    <3> QED BY <1>9, <2>1, <3>1 DEF JobFits, In, Kept, RestoreStates, Phase
  <2>2. CASE op = "undo"
    <3>1. ASSUME NEW t \in Candidates
          PROVE  /\ new.target[t] \in {job.target[t], "restore_failed", "restore_dispatched", "restore_uncertain"}
                 /\ new.target[t] = "restore_dispatched" => job.target[t] \in {"restore_dispatched", "restore_dispatching"}
      BY <1>8, <2>2, <3>1, NamesRight DEF Names
    <3> QED BY <1>9, <2>2, <3>1 DEF JobFits, In, Kept, Phase
  <2> QED BY <2>1, <2>2 DEF Mutations
<1> QED BY <1>6, <1>7, <1>8, <1>9, <1>10

LEMMA LocatedJob ==
  ASSUME NEW job \in Jobs, NEW op \in Mutations, JobFits(job), job.status = Phase(op), ~Interrupted(job, op),
         NEW found \in SUBSET Verifiable(job, op)
  PROVE  LET there == Located(job, op, found)
             new == BatchDone(there, op) IN
         /\ GoesOn(job, there) /\ GoesOn(job, new)
         /\ new.status = job.status /\ new.stopped = job.stopped /\ ~Interrupted(new, op)
         /\ op = "cleanup" /\ ~Continues(new, op) => In(new, {"frozen"}) = {}
<1>a. PICK read : read = Verifiable(job, op)
  OBVIOUS
<1>b. PICK doubtful : doubtful = Doubtful[op] /\ doubtful \in TargetStates
  BY NamesType
<1>c. PICK verified : verified = Verified[op] /\ verified \in TargetStates
  BY NamesType
<1>1. PICK doubted : doubted = Mark(job, read, doubtful)
  OBVIOUS
<1>2. /\ doubted \in Jobs /\ Kept(job, doubted)
      /\ \A t \in Candidates : doubted.target[t] = IF t \in read THEN doubtful ELSE job.target[t]
  BY <1>1, <1>b, MarkJob
<1>3. PICK there : there = Mark(doubted, found, verified)
  OBVIOUS
<1>4. /\ there \in Jobs /\ Kept(doubted, there)
      /\ \A t \in Candidates : there.target[t] = IF t \in found THEN verified ELSE doubted.target[t]
  BY <1>2, <1>3, <1>c, MarkJob
<1>5. PICK new : new = SetActive(there, op, {})
  OBVIOUS
<1>6. /\ new \in Jobs /\ new.status = there.status /\ new.stopped = there.stopped
      /\ new.deletion = there.deletion /\ new.target = there.target
      /\ new.moving = (IF op = "cleanup" THEN {} ELSE there.moving)
      /\ new.restoring = (IF op = "cleanup" THEN there.restoring ELSE {})
  BY <1>4, <1>5, SetActiveJob
<1>7. Located(job, op, found) = there /\ BatchDone(there, op) = new
  BY <1>a, <1>b, <1>c, <1>1, <1>3, <1>5 DEF Located, BatchDone
<1>8. CASE op = "cleanup"
  <2>1. ASSUME NEW t \in Candidates
        PROVE  /\ there.target[t] \in Allowed(job.target[t])
               /\ there.target[t] \notin {"move_dispatching", "move_dispatched"}
               /\ there.target[t] \in {job.target[t], "move_uncertain", "moved_verified"}
    <3>1. job.target[t] # "move_dispatching"
      BY <1>8, <2>1, NamesRight DEF Names, Interrupted, In
    <3>2. job.target[t] = "move_dispatched" <=> t \in read
      BY <1>a, <1>8, <2>1, NamesRight DEF Names, Verifiable, Active, In, JobFits
    <3>3. there.target[t] = IF t \in found THEN "moved_verified"
                            ELSE IF t \in read THEN "move_uncertain" ELSE job.target[t]
      BY <1>b, <1>c, <1>2, <1>4, <1>8, <2>1, NamesRight DEF Names
    <3>4. t \in found => t \in read
      BY <1>a
    <3> QED BY <3>1, <3>2, <3>3, <3>4 DEF Allowed
  <2>2. JobFits(there)
    BY <1>2, <1>4, <1>8, <2>1 DEF JobFits, In, Kept, RestoreStates, Phase
  <2>3. JobFits(new)
    BY <1>2, <1>4, <1>6, <1>8, <2>1 DEF JobFits, In, Kept, RestoreStates, Phase
  <2>4. ~Interrupted(new, op)
    BY <1>6, <1>8, <2>1, NamesRight DEF Names, Interrupted, In
  <2>5. ~Continues(new, op) => In(new, {"frozen"}) = {}
    BY <1>8 DEF Continues, In
  <2> QED BY <1>2, <1>4, <1>6, <1>7, <2>1, <2>2, <2>3, <2>4, <2>5 DEF GoesOn, Follows, Kept
<1>9. CASE op = "undo"
  <2>1. ASSUME NEW t \in Candidates
        PROVE  /\ there.target[t] \in Allowed(job.target[t])
               /\ there.target[t] \notin {"restore_dispatching", "restore_dispatched"}
               /\ there.target[t] \in {job.target[t], "restore_uncertain", "restored_verified"}
    <3>1. job.target[t] # "restore_dispatching"
      BY <1>9, <2>1, NamesRight DEF Names, Interrupted, In
    <3>2. job.target[t] = "restore_dispatched" <=> t \in read
      BY <1>a, <1>9, <2>1, NamesRight DEF Names, Verifiable, Active, In, JobFits
    <3>3. there.target[t] = IF t \in found THEN "restored_verified"
                            ELSE IF t \in read THEN "restore_uncertain" ELSE job.target[t]
      BY <1>b, <1>c, <1>2, <1>4, <1>9, <2>1, NamesRight DEF Names
    <3>4. t \in found => t \in read
      BY <1>a
    <3> QED BY <3>1, <3>2, <3>3, <3>4 DEF Allowed
  <2>2. JobFits(there)
    BY <1>2, <1>4, <1>9, <2>1 DEF JobFits, In, Kept, Phase
  <2>3. JobFits(new)
    BY <1>2, <1>4, <1>6, <1>9, <2>1 DEF JobFits, In, Kept, Phase
  <2>4. ~Interrupted(new, op)
    BY <1>6, <1>9, <2>1, NamesRight DEF Names, Interrupted, In
  <2> QED BY <1>2, <1>4, <1>6, <1>7, <1>9, <2>1, <2>2, <2>3, <2>4 DEF GoesOn, Follows, Kept
<1> QED BY <1>8, <1>9 DEF Mutations

LEMMA EndedJob ==
  ASSUME NEW job \in Jobs, NEW status \in JobStatuses
  PROVE  LET new == Refreshed([job EXCEPT !.status = status]) IN
         /\ new \in Jobs /\ new.status = status /\ new.stopped = job.stopped /\ new.deletion = job.deletion
         /\ new.moving = job.moving /\ new.restoring = job.restoring /\ new.target = job.target
<1>1. PICK set : set = [job EXCEPT !.status = status]
  OBVIOUS
<1>2. /\ set \in Jobs /\ set.status = status /\ set.stopped = job.stopped /\ set.deletion = job.deletion
      /\ set.moving = job.moving /\ set.restoring = job.restoring /\ set.target = job.target
  BY <1>1, SetStatus
<1>3. PICK new : new = Refreshed(set)
  OBVIOUS
<1>4. new \in Jobs /\ Kept(set, new) /\ new.target = set.target
  BY <1>2, <1>3, RefreshedJob
<1> QED BY <1>1, <1>2, <1>3, <1>4 DEF Kept

LEMMA CleanedUpJob ==
  ASSUME NEW job \in Jobs, JobFits(job), job.status = "running", job.moving = {}
  PROVE  GoesOn(job, Finished(job)) /\ Finished(job).status # "undo_complete"
<1>1. PICK status : status = IF Uncertain(job) # {} THEN "uncertain"
                             ELSE IF FailedTargets(job) # {} THEN "partial" ELSE "complete"
  OBVIOUS
<1>2. status \in JobStatuses /\ status \in {"uncertain", "partial", "complete"}
  BY <1>1 DEF JobStatuses
<1>3. PICK new : new = Refreshed([job EXCEPT !.status = status])
  OBVIOUS
<1>4. Finished(job) = new
  BY <1>1, <1>3 DEF Finished
<1>5. /\ new \in Jobs /\ new.status = status /\ new.deletion = job.deletion
      /\ new.moving = job.moving /\ new.restoring = job.restoring /\ new.target = job.target
  BY <1>2, <1>3, EndedJob
<1>6. status = "complete" => UncertainTargets(job) = {} /\ FailedTargets(job) = {}
  BY <1>1, NothingDeleted DEF JobFits
<1>7. status = "complete" => \A t \in Candidates : job.target[t] \in CleanedUp
  <2>1. ASSUME NEW t \in Candidates, status = "complete" PROVE job.target[t] \in CleanedUp
    <3>1. job.target[t] \in TargetStates
      BY <2>1, JobType
    <3>2. job.target[t] \notin UncertainStates \cup {"move_failed", "restore_failed"}
      BY <1>6, <2>1 DEF UncertainTargets, FailedTargets, In
    <3>3. job.target[t] \notin {"move_dispatching", "move_dispatched"} \cup RestoreStates
      BY <2>1 DEF JobFits, In
    <3> QED BY <3>1, <3>2, <3>3 DEF TargetStates, UncertainStates, RestoreStates, CleanedUp
  <2> QED BY <2>1
<1>8. JobFits(new)
  BY <1>2, <1>5, <1>7 DEF JobFits, In
<1>9. Follows(job, new)
  BY <1>5, FollowsSame
<1> QED BY <1>2, <1>4, <1>5, <1>8, <1>9 DEF GoesOn

LEMMA UndoFinishedJob ==
  ASSUME NEW job \in Jobs, JobFits(job), job.status = "undoing", job.restoring = {}
  PROVE  GoesOn(job, UndoFinished(job))
<1>1. PICK status : status = IF Uncertain(job) # {} THEN "uncertain"
                             ELSE IF Cardinality(Restored(job)) = Cardinality(Moved(job)) THEN "undo_complete"
                             ELSE "partial"
  OBVIOUS
<1>2. status \in JobStatuses /\ status \in {"uncertain", "partial", "undo_complete"}
  BY <1>1 DEF JobStatuses
<1>3. PICK new : new = Refreshed([job EXCEPT !.status = status])
  OBVIOUS
<1>4. UndoFinished(job) = new
  BY <1>1, <1>3 DEF UndoFinished
<1>5. /\ new \in Jobs /\ new.status = status /\ new.deletion = job.deletion
      /\ new.moving = job.moving /\ new.restoring = job.restoring /\ new.target = job.target
  BY <1>2, <1>3, EndedJob
<1>6. status = "undo_complete" => UncertainTargets(job) = {}
  BY <1>1, NothingDeleted DEF JobFits
<1>7. status = "undo_complete" => Restored(job) = Moved(job)
  <2>1. IsFiniteSet(Candidates)
    BY OutlookJobAssumption, FS_Interval DEF Candidates
  <2>2. Moved(job) \subseteq Candidates /\ Restored(job) \subseteq Moved(job)
    BY DEF Moved, Restored, In
  <2>3. IsFiniteSet(Moved(job))
    BY <2>1, <2>2, FS_Subset
  <2>4. Cardinality(Restored(job)) = Cardinality(Moved(job)) => Restored(job) = Moved(job)
    BY <2>2, <2>3, FS_Subset
  <2> QED BY <1>1, <2>4
<1>8. status = "undo_complete" => \A t \in Candidates : job.target[t] \in AtRest
  <2>1. ASSUME NEW t \in Candidates, status = "undo_complete" PROVE job.target[t] \in AtRest
    <3>1. job.target[t] \in TargetStates
      BY <2>1, JobType
    <3>2. job.target[t] \notin UncertainStates \cup {"moved_verified", "restore_failed"}
      BY <1>6, <1>7, <2>1 DEF UncertainTargets, Moved, Restored, In
    <3>3. job.target[t] \notin PendingStates
      BY <2>1 DEF JobFits, In, PendingStates
    <3> QED BY <3>1, <3>2, <3>3 DEF TargetStates, UncertainStates, PendingStates, AtRest
  <2> QED BY <2>1
<1>9. JobFits(new)
  BY <1>2, <1>5, <1>8 DEF JobFits, In
<1>10. Follows(job, new)
  BY <1>5, FollowsSame
<1> QED BY <1>4, <1>5, <1>9, <1>10 DEF GoesOn

-----------------------------------------------------------------------------
(* Units and requests.                                                      *)

LEMMA UnitType ==
  ASSUME NEW unit \in Units
  PROVE  /\ unit.pc \in PCs /\ unit.next \in PCs /\ unit.op \in Operations /\ unit.job \in Jobs
         /\ unit.version \in Nat /\ unit.access \in {"forward", "recovery"}
         /\ unit.outcome \in {"stop", "continue"}
BY DEF Units

LEMMA RowType ==
  ASSUME TypeOK, row.present
  PROVE  /\ row \in PresentRows(Owners, Jobs) /\ row.version \in Nat /\ row.job \in Jobs
         /\ row.owner \in Owners \cup {NoOwner} /\ row.live \in BOOLEAN /\ row.expired \in BOOLEAN
<1>1. row # Absent
  BY DEF Absent
<1>2. row \in PresentRows(Owners, Jobs)
  BY <1>1 DEF TypeOK, Rows
<1> QED BY <1>2 DEF PresentRows

LEMMA InvUnit ==
  ASSUME OutlookInv, NEW w \in Workers
  PROVE  /\ worker[w] \in Units /\ UnitFits(worker[w]) /\ EndTrue(worker[w]) /\ CopyTrue(worker[w])
         /\ SenderIsAlone(w) /\ (row.present => worker[w].version <= row.version)
BY DEF OutlookInv, TypeOK, UnitsFit, RowFits

Requests == [worker : Owners, op : Mutations, targets : SUBSET Candidates]

\* The mailbox and what was asked of it are as they were; nobody but w stopped waiting.
WorldKept(w) ==
  /\ mailbox' = mailbox /\ sent' = sent /\ inflight' \in SUBSET Requests
  /\ \A t \in Candidates : (InFlight(t)' <=> InFlight(t)) /\ Asked(t)'
  /\ \A r, q \in inflight' : r.targets \cap q.targets # {} => r = q
  /\ \A r \in inflight' : r.worker \in Workers => r \in inflight /\ r.worker # w

LEMMA AbandonedWorld ==
  ASSUME OutlookInv, NEW w \in Workers, Abandoned(w), mailbox' = mailbox, sent' = sent
  PROVE  WorldKept(w)
<1> DEFINE Left(r) == IF r.worker = w THEN [r EXCEPT !.worker = Orphan] ELSE r
<1>1. inflight' = {Left(r) : r \in inflight}
  BY DEF Abandoned
<1>2. inflight \in SUBSET Requests
  BY DEF OutlookInv, TypeOK, Requests
<1>3. \A r \in Requests : /\ Left(r) \in Requests /\ Left(r).targets = r.targets /\ Left(r).op = r.op
                          /\ Left(r).worker # r.worker => Left(r).worker = Orphan
                          /\ Left(r).worker # w /\ (Left(r).worker # Orphan => Left(r) = r)
  <2>1. Orphan \in Owners /\ Orphan # w
    BY OutlookCleanupAssumption DEF Owners
  <2> QED BY <2>1 DEF Requests
<1> HIDE DEF Left
<1>4. inflight' \in SUBSET Requests
  BY <1>1, <1>2, <1>3
<1>5. ASSUME NEW t \in Candidates
      PROVE  InFlight(t)' <=> InFlight(t)
  BY <1>1, <1>2, <1>3 DEF InFlight
<1>6. ASSUME NEW t \in Candidates
      PROVE  Asked(t)'
  <2>1. Asked(t)
    BY <1>6 DEF OutlookInv
  <2>2. ASSUME NEW r \in inflight', t \in r.targets
        PROVE  sent[r.op][t] = 1 /\ mailbox[t] = IF r.op = "cleanup" THEN "original" ELSE "deleted"
    <3>1. PICK q \in inflight : r = Left(q)
      BY <1>1, <2>2
    <3>2. r.targets = q.targets /\ r.op = q.op
      BY <1>2, <1>3, <3>1
    <3> QED BY <2>1, <2>2, <3>2 DEF Asked
  <2> QED BY <2>1, <2>2 DEF Asked
<1>7. ASSUME NEW r \in inflight', NEW q \in inflight', r.targets \cap q.targets # {}
      PROVE  r = q
  <2>1. PICK a \in inflight : r = Left(a)
    BY <1>1, <1>7
  <2>2. PICK b \in inflight : q = Left(b)
    BY <1>1, <1>7
  <2>3. a.targets \cap b.targets # {}
    BY <1>2, <1>3, <1>7, <2>1, <2>2
  <2> QED BY <2>1, <2>2, <2>3 DEF OutlookInv, RequestsMatch
<1>8. ASSUME NEW r \in inflight', r.worker \in Workers
      PROVE  r \in inflight /\ r.worker # w
  <2>1. PICK q \in inflight : r = Left(q)
    BY <1>1, <1>8
  <2>2. r.worker # Orphan
    BY <1>8, OutlookCleanupAssumption
  <2> QED BY <1>2, <1>3, <2>1, <2>2
<1> QED BY <1>4, <1>5, <1>6, <1>7, <1>8 DEF WorldKept

LEMMA QuietWorld ==
  ASSUME OutlookInv, NEW w \in Workers, worker[w].pc # "awaiting", inflight' = inflight,
         mailbox' = mailbox, sent' = sent
  PROVE  WorldKept(w)
<1>1. inflight \in SUBSET Requests
  BY DEF OutlookInv, TypeOK, Requests
<1>2. \A r \in inflight : r.worker \in Workers => r.worker # w
  BY DEF OutlookInv, RequestsMatch
<1>3. \A t \in Candidates : InFlight(t)' <=> InFlight(t)
  BY DEF InFlight
<1>4. ASSUME NEW t \in Candidates PROVE Asked(t)'
  BY <1>4 DEF OutlookInv, Asked
<1> QED BY <1>1, <1>2, <1>3, <1>4 DEF WorldKept, OutlookInv, RequestsMatch

LEMMA KeptTrue ==
  ASSUME mailbox' = mailbox, sent' = sent, \A t \in Candidates : InFlight(t)' <=> InFlight(t), NEW job
  PROVE  JobTrue(job)' <=> JobTrue(job)
<1>1. ASSUME NEW t \in Candidates
      PROVE  TargetTrue(job, t)' <=> TargetTrue(job, t)
  BY <1>1 DEF TargetTrue
<1> QED BY <1>1 DEF JobTrue

\* A row that says a restore is complete says so with nothing left to come back.
LEMMA RestoreSettles ==
  ASSUME \A t \in Candidates : Asked(t), row.present, JobFits(row.job), JobTrue(row.job),
         row.job \in Jobs, row.job.status = "undo_complete"
  PROVE  Settled
<1>1. ASSUME NEW t \in Candidates
      PROVE  mailbox[t] # "deleted" /\ ~InFlight(t) /\ row.job.target[t] \in AtRest
  <2>1. row.job.target[t] \in AtRest /\ TargetTrue(row.job, t) /\ Asked(t)
    BY <1>1 DEF JobFits, JobTrue
  <2>2. ~InFlight(t)
    BY <2>1 DEF TargetTrue, AtRest, OpenStates
  <2>3. mailbox[t] # "deleted"
    BY <2>1 DEF TargetTrue, Asked, AtRest, Untouched
  <2> QED BY <2>1, <2>2, <2>3
<1> QED BY <1>1 DEF Settled, Over

-----------------------------------------------------------------------------
(* Steps that leave the row's job alone.                                    *)

RowKept ==
  /\ row' \in Rows(Owners, Jobs) /\ row'.present = row.present
  /\ row.present => row'.job = row.job /\ row'.version = row.version

Aggregates ==
  [status : {"pending", "running", "completed", "partial", "failed", "cancelled"},
   terminal : Terminal \cup {"none"}]

RestKept ==
  /\ aggregate' \in Aggregates /\ (aggregate'.terminal = "undo_complete" => Settled)
  /\ connected' \in BOOLEAN /\ open' \in BOOLEAN /\ budget' \in Scenario /\ leaving' = leaving

LEMMA SettledStays ==
  ASSUME Settled, mailbox' = mailbox, \A t \in Candidates : InFlight(t)' <=> InFlight(t),
         row'.present => row.present /\ (Over(row.job) => Over(row'.job))
  PROVE  Settled'
BY DEF Settled

LEMMA UnitPrimed ==
  ASSUME NEW v, NEW unit, worker'[v] = unit, CopyTrue(unit)', EndTrue(unit)', UnitFits(unit)
  PROVE  CopyTrue(worker[v])' /\ EndTrue(worker[v])' /\ UnitFits(worker[v])'
BY DEF CopyTrue, EndTrue, Current

LEMMA JobPrimed ==
  ASSUME NEW job, row'.job = job, JobTrue(job)'
  PROVE  JobTrue(row.job)'
BY DEF JobTrue, TargetTrue

LEMMA UnitKept ==
  ASSUME NEW w, WorldKept(w), RowKept, NEW unit, CopyTrue(unit), EndTrue(unit)
  PROVE  CopyTrue(unit)' /\ EndTrue(unit)'
<1>1. JobTrue(unit.job)' <=> JobTrue(unit.job)
  BY KeptTrue DEF WorldKept
<1>2. Settled => Settled'
  BY SettledStays DEF WorldKept, RowKept
<1>3. CopyTrue(unit)'
  BY <1>1 DEF CopyTrue, Current, RowKept, WorldKept
<1> QED BY <1>2, <1>3 DEF EndTrue

LEMMA UnitStep ==
  ASSUME OutlookInv, NEW w \in Workers, NEW unit \in Units, Set(w, unit), WorldKept(w), RowKept, RestKept,
         \A v \in Workers : Owns(row', v) => Owns(row, v) \/ v = w,
         unit.pc \notin {"intended", "awaiting"},
         unit.version <= worker[w].version \/ (row'.present /\ row'.owner = w),
         row.present => unit.version <= row.version,
         UnitFits(unit), EndTrue(unit), CopyTrue(unit)
  PROVE  OutlookInv'
<1>0. worker \in [Workers -> Units] /\ worker' = [worker EXCEPT ![w] = unit]
  BY DEF OutlookInv, TypeOK, Set
<1>1. worker' \in [Workers -> Units] /\ worker'[w] = unit
      /\ \A v \in Workers \ {w} : worker'[v] = worker[v]
  BY <1>0
<1>2. TypeOK'
  <2>1. /\ row' \in Rows(Owners, Jobs) /\ inflight' \in SUBSET Requests /\ aggregate' \in Aggregates
        /\ connected' \in BOOLEAN /\ open' \in BOOLEAN /\ budget' \in Scenario
    BY DEF RowKept, RestKept, WorldKept
  <2>2. mailbox' = mailbox /\ sent' = sent /\ leaving' = leaving
    BY DEF RestKept, WorldKept
  <2> QED BY <1>1, <2>1, <2>2 DEF OutlookInv, TypeOK, Requests, Aggregates
<1>3. \A t \in Candidates : Asked(t)'
  BY DEF WorldKept
<1>4. RequestsMatch'
  <2>1. \A r \in inflight : r.worker \in Workers =>
          /\ worker[r.worker].pc = "awaiting" /\ r.op = worker[r.worker].op
          /\ r.targets = Asking(worker[r.worker])
    BY DEF OutlookInv, RequestsMatch
  <2>2. ASSUME NEW r \in inflight', r.worker \in Workers
        PROVE  /\ worker'[r.worker].pc = "awaiting" /\ r.op = worker'[r.worker].op
               /\ r.targets = Asking(worker'[r.worker])
    <3>1. r \in inflight /\ worker'[r.worker] = worker[r.worker]
      BY <1>1, <2>2 DEF WorldKept
    <3> QED BY <2>1, <2>2, <3>1
  <2>3. \A r, q \in inflight' : r.targets \cap q.targets # {} => r = q
    BY DEF WorldKept
  <2> QED BY <2>2, <2>3 DEF RequestsMatch, Asking
<1>5. RowFits'
  <2>1. ASSUME row'.present
        PROVE  row'.version >= 1 /\ JobFits(row'.job) /\ JobTrue(row.job)'
    <3>1. PICK job : job = row.job
      OBVIOUS
    <3>2. row.present /\ row.version >= 1 /\ JobFits(job) /\ JobTrue(job)
      BY <2>1, <3>1 DEF RowKept, OutlookInv, RowFits
    <3>3. JobTrue(job)'
      BY <3>2, KeptTrue DEF WorldKept
    <3>4. row'.job = job /\ row'.version = row.version
      BY <3>1, <3>2 DEF RowKept
    <3>5. JobTrue(row.job)'
      BY <3>3, <3>4, JobPrimed
    <3> QED BY <3>2, <3>4, <3>5
  <2>2. ASSUME row'.present, NEW v \in Workers
        PROVE  worker'[v].version <= row'.version
    <3>1. row.present /\ row'.version = row.version /\ worker[v].version <= row.version
      BY <2>2, InvUnit DEF RowKept
    <3>2. CASE v = w
      BY <1>1, <3>1, <3>2
    <3>3. CASE v # w
      BY <1>1, <3>1, <3>3
    <3> QED BY <3>2, <3>3
  <2> QED BY <2>1, <2>2 DEF RowFits
<1>6. UnitsFit'
  <2>1. ASSUME NEW v \in Workers
        PROVE  CopyTrue(worker[v])' /\ EndTrue(worker[v])' /\ UnitFits(worker[v])'
    <3>1. PICK u : u = worker'[v]
      OBVIOUS
    <3>2. CopyTrue(u) /\ EndTrue(u) /\ UnitFits(u)
      <4>1. CASE v = w
        BY <1>1, <3>1, <4>1
      <4>2. CASE v # w
        <5>1. u = worker[v]
          BY <1>1, <3>1, <4>2
        <5> QED BY <5>1, InvUnit
      <4> QED BY <4>1, <4>2
    <3>3. CopyTrue(u)' /\ EndTrue(u)'
      BY <3>2, UnitKept
    <3> QED BY <3>1, <3>2, <3>3, UnitPrimed
  <2>2. ASSUME NEW v \in Workers
        PROVE  SenderIsAlone(v)'
    <3>1. CASE v = w
      BY <1>1, <3>1 DEF SenderIsAlone
    <3>2. CASE v # w
      <4> SUFFICES ASSUME worker'[v].pc = "intended", Owns(row', v)
                   PROVE  Current(worker[v])' /\ \A u \in Workers \ {v} : worker'[u].version < row'.version
        BY DEF SenderIsAlone, Owns, Visible
      <4>1. worker[v].pc = "intended" /\ Owns(row, v) /\ worker'[v] = worker[v] /\ row'.owner = v
        BY <1>1, <3>2 DEF Owns
      <4>2. Current(worker[v]) /\ \A u \in Workers \ {v} : worker[u].version < row.version
        BY <4>1, InvUnit DEF SenderIsAlone
      <4>3. row.present /\ row'.present /\ row'.version = row.version
        BY <4>2 DEF Current, RowKept
      <4>4. ASSUME NEW u \in Workers \ {v}
            PROVE  worker'[u].version < row'.version
        <5>1. CASE u = w
          <6>1. unit.version <= worker[w].version
            BY <3>2, <4>1
          <6>2. unit.version \in Nat /\ worker[w].version \in Nat /\ row.version \in Nat
            BY <4>3, InvUnit, UnitType, RowType DEF OutlookInv
          <6> QED BY <1>1, <4>2, <4>3, <4>4, <5>1, <6>1, <6>2
        <5>2. CASE u # w
          BY <1>1, <4>2, <4>3, <4>4, <5>2
        <5> QED BY <5>1, <5>2
      <4>5. Current(worker[v])'
        BY <4>1, <4>2, <4>3 DEF Current
      <4> QED BY <4>4, <4>5
    <3> QED BY <3>1, <3>2
  <2> QED BY <2>1, <2>2 DEF UnitsFit
<1>7. EndsFit'
  <2>1. aggregate'.terminal = "undo_complete" => Settled'
    BY SettledStays DEF RestKept, WorldKept, RowKept
  <2> QED BY <2>1 DEF EndsFit, OutlookInv, RowKept, RestKept, WorldKept
<1> QED BY <1>2, <1>3, <1>4, <1>5, <1>6, <1>7 DEF OutlookInv

\* What a step that no unit takes leaves alone, and what it may change.
StillStep ==
  /\ worker' = worker /\ inflight' = inflight /\ mailbox' = mailbox /\ sent' = sent
  /\ row' \in Rows(Owners, Jobs)
  /\ row'.present => row.present /\ row'.job = row.job /\ row'.version = row.version
  /\ \A v \in Workers : Owns(row', v) => Owns(row, v)
  /\ aggregate' \in Aggregates /\ (aggregate'.terminal = "undo_complete" => Settled)
  /\ connected' \in BOOLEAN /\ open' \in BOOLEAN /\ budget' \in Scenario
  /\ leaving' \in {"no", "discarded", "disconnecting", "clearing", "gone"}
  /\ leaving' = "discarded" => ~row'.present /\ \A op \in Mutations, t \in Candidates : sent[op][t] = 0

LEMMA StillStepKeeps ==
  ASSUME OutlookInv, StillStep
  PROVE  OutlookInv'
<1>1. TypeOK'
  BY DEF StillStep, OutlookInv, TypeOK, Aggregates
<1>2. \A t \in Candidates : InFlight(t)' <=> InFlight(t)
  BY DEF StillStep, InFlight
<1>3. \A t \in Candidates : Asked(t)'
  <2>1. ASSUME NEW t \in Candidates PROVE Asked(t)'
    BY <2>1 DEF OutlookInv, Asked, StillStep
  <2> QED BY <2>1
<1>4. RequestsMatch'
  BY DEF OutlookInv, RequestsMatch, Asking, StillStep
<1>5. RowFits'
  <2>1. ASSUME row'.present
        PROVE  row'.version >= 1 /\ JobFits(row'.job) /\ JobTrue(row.job)'
               /\ \A v \in Workers : worker'[v].version <= row'.version
    <3>1. PICK job : job = row.job
      OBVIOUS
    <3>2. /\ row.present /\ row.version >= 1 /\ JobFits(job) /\ JobTrue(job)
          /\ \A v \in Workers : worker[v].version <= row.version
      BY <2>1, <3>1 DEF StillStep, OutlookInv, RowFits
    <3>3. JobTrue(job)'
      BY <1>2, <3>2, KeptTrue DEF StillStep
    <3>4. row'.job = job /\ row'.version = row.version /\ worker' = worker
      BY <2>1, <3>1 DEF StillStep
    <3>5. JobTrue(row.job)'
      BY <3>3, <3>4, JobPrimed
    <3> QED BY <3>2, <3>4, <3>5
  <2> QED BY <2>1 DEF RowFits
<1>6. Settled => Settled'
  BY <1>2, SettledStays DEF StillStep
<1>7. UnitsFit'
  <2>1. ASSUME NEW v \in Workers
        PROVE  CopyTrue(worker[v])' /\ EndTrue(worker[v])' /\ UnitFits(worker[v])'
    <3>1. PICK u : u = worker[v]
      OBVIOUS
    <3>2. CopyTrue(u) /\ EndTrue(u) /\ UnitFits(u) /\ worker'[v] = u
      BY <2>1, <3>1, InvUnit DEF StillStep
    <3>3. JobTrue(u.job)' <=> JobTrue(u.job)
      BY <1>2, KeptTrue DEF StillStep
    <3>4. CopyTrue(u)'
      BY <3>2, <3>3 DEF CopyTrue, Current, StillStep
    <3>5. EndTrue(u)'
      BY <1>6, <3>2 DEF EndTrue
    <3> QED BY <3>2, <3>4, <3>5, UnitPrimed
  <2>2. ASSUME NEW v \in Workers
        PROVE  SenderIsAlone(v)'
    <3>1. SenderIsAlone(v)
      BY <2>2, InvUnit
    <3>2. Owns(row', v) => row'.present
      BY DEF Owns, Visible
    <3> QED BY <2>2, <3>1, <3>2 DEF SenderIsAlone, StillStep, Current, Owns, Visible
  <2> QED BY <2>1, <2>2 DEF UnitsFit
<1>8. EndsFit'
  BY <1>6 DEF EndsFit, StillStep
<1> QED BY <1>1, <1>3, <1>4, <1>5, <1>7, <1>8 DEF OutlookInv

-----------------------------------------------------------------------------
(* Writes of the row.                                                       *)

\* The row's job is replaced by one that goes on where it is.
Rewritten(job) ==
  /\ row.present /\ row' = Replaced(row, job)
  /\ job \in Jobs /\ JobFits(job) /\ JobTrue(job) /\ NeverBack(row.job, job)
  /\ Over(row.job) => Over(job)

LEMMA RewrittenRow ==
  ASSUME OutlookInv, NEW job, Rewritten(job)
  PROVE  /\ row' \in Rows(Owners, Jobs) /\ row'.present /\ row'.job = job
         /\ row.version \in Nat /\ row'.version = row.version + 1
         /\ \A v : Owns(row', v) <=> Owns(row, v)
<1>1. /\ row \in PresentRows(Owners, Jobs) /\ row.version \in Nat
  BY RowType DEF OutlookInv, Rewritten
<1>2. row.version + 1 \in Nat
  BY <1>1
<1>3. row' = [row EXCEPT !.job = job, !.version = row.version + 1]
  BY DEF Rewritten, Replaced
<1>4. /\ row' \in PresentRows(Owners, Jobs) /\ row'.job = job /\ row'.version = row.version + 1
      /\ row'.present = row.present /\ row'.owner = row.owner /\ row'.live = row.live
      /\ row'.expired = row.expired
  BY <1>1, <1>2, <1>3 DEF PresentRows, Rewritten
<1> QED BY <1>1, <1>4 DEF Rows, Owns, Visible, Rewritten

\* The requests, the mailbox and all but the budget are as they were.
WorldSame == inflight' = inflight /\ mailbox' = mailbox /\ sent' = sent

RestSame ==
  /\ aggregate' = aggregate /\ connected' = connected /\ open' = open /\ leaving' = leaving
  /\ budget' \in Scenario

LEMMA RewrittenWorld ==
  ASSUME OutlookInv, NEW job, Rewritten(job), WorldSame, RestSame
  PROVE  /\ \A t \in Candidates : Asked(t)'
         /\ row'.version >= 1 /\ JobFits(row'.job) /\ JobTrue(row.job)' /\ JobTrue(job)'
         /\ (Settled => Settled') /\ (job.status = "undo_complete" => Settled') /\ EndsFit'
<1>1. \A t \in Candidates : InFlight(t)' <=> InFlight(t)
  BY DEF WorldSame, InFlight
<1>2. ASSUME NEW t \in Candidates PROVE Asked(t)'
  BY <1>2 DEF OutlookInv, Asked, WorldSame
<1>3. row.version >= 1 /\ row'.version = row.version + 1 /\ row.version \in Nat /\ row'.job = job /\ row'.present
  BY RewrittenRow DEF OutlookInv, RowFits, Rewritten
<1>4. JobTrue(job)'
  BY <1>1, KeptTrue DEF WorldSame, Rewritten
<1>5. JobTrue(row.job)'
  BY <1>3, <1>4, JobPrimed
<1>6. Settled => Settled'
  BY <1>1, <1>3, SettledStays DEF WorldSame, Rewritten
<1>7. job.status = "undo_complete" => Settled'
  <2>1. ASSUME job.status = "undo_complete", NEW t \in Candidates
        PROVE  mailbox[t] # "deleted" /\ ~InFlight(t) /\ job.target[t] \in AtRest
    <3>1. job.target[t] \in AtRest /\ TargetTrue(job, t) /\ Asked(t)
      BY <2>1 DEF JobFits, JobTrue, Rewritten, OutlookInv
    <3>2. ~InFlight(t)
      BY <3>1 DEF TargetTrue, AtRest, OpenStates
    <3>3. mailbox[t] # "deleted"
      BY <3>1 DEF TargetTrue, Asked, AtRest, Untouched
    <3> QED BY <3>1, <3>2, <3>3
  <2> QED BY <1>1, <1>3, <2>1 DEF Settled, Over, WorldSame
<1>8. EndsFit'
  BY <1>6 DEF EndsFit, OutlookInv, RestSame, Rewritten
<1> QED BY <1>2, <1>3, <1>4, <1>5, <1>6, <1>7, <1>8 DEF Rewritten

\* A user's write outdates every copy.
LEMMA UserWrites ==
  ASSUME OutlookInv, NEW job, Rewritten(job), WorldSame, RestSame, worker' = worker,
         \A v \in Workers : ~(worker[v].pc = "intended" /\ Owns(row, v))
  PROVE  OutlookInv'
<1>1. TypeOK'
  BY RewrittenRow DEF OutlookInv, TypeOK, WorldSame, RestSame
<1>2. RequestsMatch'
  BY DEF OutlookInv, RequestsMatch, Asking, WorldSame
<1>3. \A v \in Workers : worker[v].version <= row.version /\ worker[v].version \in Nat
  BY InvUnit, UnitType DEF Rewritten
<1>4. row'.version = row.version + 1 /\ row.version \in Nat /\ row'.present
  BY RewrittenRow
<1>5. RowFits'
  BY <1>3, <1>4, RewrittenWorld DEF RowFits
<1>6. ASSUME NEW v \in Workers
      PROVE  CopyTrue(worker[v])' /\ EndTrue(worker[v])' /\ UnitFits(worker[v])' /\ SenderIsAlone(v)'
  <2>1. PICK u : u = worker[v]
    OBVIOUS
  <2>2. u.version # row'.version /\ UnitFits(u) /\ EndTrue(u) /\ worker'[v] = u
    BY <1>3, <1>4, <1>6, <2>1, InvUnit
  <2>3. CopyTrue(u)'
    BY <2>2 DEF CopyTrue, Current
  <2>4. EndTrue(u)'
    BY <2>2, RewrittenWorld DEF EndTrue
  <2>5. SenderIsAlone(v)'
    BY <1>6, RewrittenRow DEF SenderIsAlone
  <2> QED BY <2>2, <2>3, <2>4, <2>5, UnitPrimed
<1> QED BY <1>1, <1>2, <1>5, <1>6, RewrittenWorld DEF OutlookInv, UnitsFit

\* A unit's write outdates every other copy, and its own if it does not learn of it.
LEMMA UnitWrites ==
  ASSUME OutlookInv, NEW w \in Workers, NEW unit \in Units, Set(w, unit), worker[w].pc # "awaiting",
         NEW job, Rewritten(job), unit.job = job, WorldSame, RestSame, Owns(row, w), UnitFits(unit),
         unit.pc \notin {"saving", "awaiting"}, unit.version \in {row.version, row.version + 1},
         unit.pc = "intended" =>
           unit.version = row.version + 1 /\ \A t \in Asking(unit) : sent[unit.op][t] = 0
  PROVE  OutlookInv'
<1>0. worker \in [Workers -> Units] /\ worker' = [worker EXCEPT ![w] = unit]
  BY DEF OutlookInv, TypeOK, Set
<1>1. worker' \in [Workers -> Units] /\ worker'[w] = unit
      /\ \A v \in Workers \ {w} : worker'[v] = worker[v]
  BY <1>0
<1>2. TypeOK'
  BY <1>1, RewrittenRow DEF OutlookInv, TypeOK, WorldSame, RestSame
<1>3. RequestsMatch'
  <2>1. \A r \in inflight : r.worker \in Workers => r.worker # w
    BY DEF OutlookInv, RequestsMatch
  <2> QED BY <1>1, <2>1 DEF OutlookInv, RequestsMatch, Asking, WorldSame
<1>4. \A v \in Workers : worker[v].version <= row.version /\ worker[v].version \in Nat
  BY InvUnit, UnitType DEF Rewritten
<1>5. row'.version = row.version + 1 /\ row.version \in Nat /\ row'.present /\ row'.job = job
  BY RewrittenRow
<1>6. RowFits'
  <2>1. \A v \in Workers : worker'[v].version <= row'.version
    BY <1>1, <1>4, <1>5
  <2> QED BY <2>1, RewrittenWorld DEF RowFits
<1>7. ASSUME NEW v \in Workers
      PROVE  CopyTrue(worker[v])' /\ EndTrue(worker[v])' /\ UnitFits(worker[v])' /\ SenderIsAlone(v)'
  <2>1. CASE v # w
    <3>1. PICK u : u = worker[v]
      OBVIOUS
    <3>2. u.version # row'.version /\ UnitFits(u) /\ EndTrue(u) /\ worker'[v] = u
      BY <1>1, <1>4, <1>5, <1>7, <2>1, <3>1, InvUnit
    <3>3. CopyTrue(u)'
      BY <3>2 DEF CopyTrue, Current
    <3>4. EndTrue(u)'
      BY <3>2, RewrittenWorld DEF EndTrue
    <3>5. ~Owns(row', v)
      BY <2>1, RewrittenRow DEF Owns
    <3>6. SenderIsAlone(v)'
      BY <3>5 DEF SenderIsAlone, Owns, Visible
    <3> QED BY <3>2, <3>3, <3>4, <3>6, UnitPrimed
  <2>2. CASE v = w
    <3>1. JobTrue(job)' /\ (job.status = "undo_complete" => Settled')
      BY RewrittenWorld
    <3>2. NeverBack(job, job)
      <4>1. ASSUME NEW t \in Candidates PROVE Rank(job.target[t]) \in Nat
        BY <4>1, JobType, RankType DEF Rewritten
      <4> QED BY <4>1 DEF NeverBack
    <3>3. CopyTrue(unit)'
      BY <1>5, <3>1, <3>2 DEF CopyTrue, Current, Heading, WorldSame
    <3>4. EndTrue(unit)'
      BY <3>1 DEF EndTrue
    <3>5. SenderIsAlone(w)'
      <4>1. \A u \in Workers \ {w} : worker'[u].version < row'.version
        BY <1>1, <1>4, <1>5
      <4> QED BY <1>1, <1>5, <4>1 DEF SenderIsAlone, Current
    <3> QED BY <1>1, <2>2, <3>3, <3>4, <3>5, UnitPrimed
  <2> QED BY <2>1, <2>2
<1> QED BY <1>2, <1>3, <1>6, <1>7, RewrittenWorld DEF OutlookInv, UnitsFit

-----------------------------------------------------------------------------
(* The requests.                                                            *)

\* A request is processed, in part, as a whole or not at all.
Lands(r, moved) ==
  /\ inflight' = inflight \ {r} /\ mailbox' = Changed(r.op, moved) /\ sent' = sent
  /\ row' = row

LEMMA LandedMessage ==
  ASSUME OutlookInv, NEW r \in inflight, NEW moved \in SUBSET r.targets, Lands(r, moved),
         NEW t \in Candidates
  PROVE  /\ mailbox'[t] = IF t \in moved THEN Folder(r.op) ELSE mailbox[t]
         /\ InFlight(t)' => InFlight(t) /\ t \notin r.targets
         /\ t \notin r.targets => (InFlight(t)' <=> InFlight(t))
         /\ t \in r.targets => /\ InFlight(t) /\ sent[r.op][t] = 1
                               /\ mailbox[t] = (IF r.op = "cleanup" THEN "original" ELSE "deleted")
         /\ r.op \in Mutations
<1>1. r.op \in Mutations /\ r.targets \in SUBSET Candidates
  BY DEF OutlookInv, TypeOK
<1>2. mailbox'[t] = IF t \in moved THEN Folder(r.op) ELSE mailbox[t]
  BY DEF Lands, Changed
<1>3. InFlight(t)' => InFlight(t) /\ t \notin r.targets
  BY DEF InFlight, Lands, OutlookInv, RequestsMatch
<1>4. t \notin r.targets => (InFlight(t)' <=> InFlight(t))
  BY DEF InFlight, Lands
<1>5. t \in r.targets => /\ InFlight(t) /\ sent[r.op][t] = 1
                         /\ mailbox[t] = (IF r.op = "cleanup" THEN "original" ELSE "deleted")
  BY DEF InFlight, OutlookInv, Asked
<1> QED BY <1>1, <1>2, <1>3, <1>4, <1>5

LEMMA LandedWorld ==
  ASSUME OutlookInv, NEW r \in inflight, NEW moved \in SUBSET r.targets, Lands(r, moved)
  PROVE  /\ \A t \in Candidates : Asked(t)'
         /\ mailbox' \in [Candidates -> {"original", "deleted", "restored"}]
         /\ inflight' \in SUBSET Requests
         /\ (Settled => Settled')
<1>1. ASSUME NEW t \in Candidates
      PROVE  Asked(t)' /\ mailbox'[t] \in {"original", "deleted", "restored"}
  <2>1. Asked(t) /\ mailbox[t] \in {"original", "deleted", "restored"}
    BY <1>1 DEF OutlookInv, TypeOK
  <2>a. /\ mailbox'[t] = IF t \in moved THEN Folder(r.op) ELSE mailbox[t]
        /\ t \in r.targets => /\ sent[r.op][t] = 1
                              /\ mailbox[t] = (IF r.op = "cleanup" THEN "original" ELSE "deleted")
        /\ r.op \in Mutations
    BY <1>1, LandedMessage
  <2>2. mailbox'[t] \in {"original", "deleted", "restored"}
    BY <2>1, <2>a DEF Folder
  <2>3. /\ mailbox'[t] = "original" => sent["undo"][t] = 0
        /\ mailbox'[t] # "original" => sent["cleanup"][t] = 1
        /\ mailbox'[t] = "restored" => sent["undo"][t] = 1
    <3>1. CASE t \notin moved
      BY <2>1, <2>a, <3>1 DEF Asked
    <3>2. CASE t \in moved /\ r.op = "cleanup"
      BY <2>a, <3>2 DEF Folder
    <3>3. CASE t \in moved /\ r.op = "undo"
      BY <2>1, <2>a, <3>3 DEF Folder, Asked
    <3> QED BY <2>a, <3>1, <3>2, <3>3 DEF Mutations
  <2>4. ASSUME NEW q \in inflight', t \in q.targets
        PROVE  sent[q.op][t] = 1 /\ mailbox'[t] = IF q.op = "cleanup" THEN "original" ELSE "deleted"
    <3>1. q \in inflight
      BY <2>4 DEF Lands
    <3>2. t \notin r.targets
      BY <1>1, <2>4, LandedMessage DEF InFlight
    <3>3. mailbox'[t] = mailbox[t]
      BY <2>a, <3>2
    <3> QED BY <2>1, <2>4, <3>1, <3>3 DEF Asked
  <2> QED BY <2>1, <2>2, <2>3, <2>4 DEF Asked, Lands
<1>2. mailbox' \in [Candidates -> {"original", "deleted", "restored"}]
  BY <1>1 DEF Lands, Changed
<1>3. inflight' \in SUBSET Requests
  BY DEF Lands, OutlookInv, TypeOK, Requests
<1>4. Settled => Settled'
  <2>1. ASSUME Settled, NEW t \in Candidates
        PROVE  mailbox'[t] # "deleted" /\ ~InFlight(t)'
    BY <2>1, LandedMessage DEF Settled
  <2> QED BY <2>1 DEF Settled, Lands
<1> QED BY <1>1, <1>2, <1>3, <1>4

\* What a ledger says of a message stays true when its request lands.
LEMMA LandedTrue ==
  ASSUME OutlookInv, NEW r \in inflight, NEW moved \in SUBSET r.targets, Lands(r, moved),
         NEW job \in Jobs, JobTrue(job)
  PROVE  JobTrue(job)'
<1>1. ASSUME NEW t \in Candidates
      PROVE  TargetTrue(job, t)'
  <2>1. TargetTrue(job, t) /\ Asked(t) /\ sent' = sent
    BY <1>1 DEF JobTrue, OutlookInv, Lands
  <2>2. CASE t \notin r.targets
    <3>1. mailbox'[t] = mailbox[t] /\ (InFlight(t)' <=> InFlight(t))
      BY <1>1, <2>2, LandedMessage
    <3> QED BY <2>1, <3>1 DEF TargetTrue
  <2>3. CASE t \in r.targets
    <3>1. InFlight(t) /\ ~InFlight(t)' /\ mailbox'[t] \in {mailbox[t], "deleted", "restored"}
          /\ sent[r.op][t] = 1 /\ r.op \in Mutations
      BY <1>1, <2>3, LandedMessage DEF Folder
    <3>2. job.target[t] \in OpenStates
      BY <2>1, <3>1 DEF TargetTrue
    <3>3. job.target[t] \in RestoreStates => mailbox'[t] # "original"
      BY <2>1, <3>1 DEF TargetTrue
    <3>4. job.target[t] \notin RestoreStates => sent["undo"][t] = 0
      BY <2>1 DEF TargetTrue
    <3> QED BY <2>1, <3>1, <3>2, <3>3, <3>4 DEF TargetTrue, OpenStates, Untouched
  <2> QED BY <2>2, <2>3
<1> QED BY <1>1 DEF JobTrue

LEMMA LandedUnit ==
  ASSUME OutlookInv, NEW r \in inflight, NEW moved \in SUBSET r.targets, Lands(r, moved),
         NEW unit \in Units, CopyTrue(unit), EndTrue(unit)
  PROVE  CopyTrue(unit)' /\ EndTrue(unit)'
<1>1. JobTrue(unit.job) => JobTrue(unit.job)'
  BY LandedTrue, UnitType
<1>2. Settled => Settled'
  BY LandedWorld
<1>3. CopyTrue(unit)'
  BY <1>1 DEF CopyTrue, Current, Lands
<1> QED BY <1>2, <1>3 DEF EndTrue

LEMMA LandedRow ==
  ASSUME OutlookInv, NEW r \in inflight, NEW moved \in SUBSET r.targets, Lands(r, moved), row.present
  PROVE  row.version >= 1 /\ JobFits(row.job) /\ JobTrue(row.job)'
<1>1. PICK job : job = row.job
  OBVIOUS
<1>2. job \in Jobs /\ JobTrue(job) /\ row.version >= 1 /\ JobFits(row.job)
  BY <1>1, RowType DEF OutlookInv, RowFits
<1>3. JobTrue(job)'
  BY <1>2, LandedTrue
<1> QED BY <1>1, <1>2, <1>3, JobPrimed DEF Lands

LEMMA LandLateKeeps ==
  ASSUME OutlookInv, NEW r \in inflight, LandLate(r)
  PROVE  OutlookInv'
<1>1. PICK moved \in SUBSET r.targets : Lands(r, moved)
  BY DEF LandLate, Lands
<1>2. TypeOK'
  BY <1>1, LandedWorld DEF OutlookInv, TypeOK, LandLate, Requests
<1>3. RequestsMatch'
  BY <1>1 DEF OutlookInv, RequestsMatch, Asking, LandLate, Lands
<1>4. RowFits'
  <2>1. \A v \in Workers : row.present => worker[v].version <= row.version
    BY InvUnit
  <2> QED BY <1>1, <2>1, LandedRow DEF RowFits, LandLate
<1>5. ASSUME NEW v \in Workers
      PROVE  CopyTrue(worker[v])' /\ EndTrue(worker[v])' /\ UnitFits(worker[v])' /\ SenderIsAlone(v)'
  <2>1. PICK u : u = worker[v]
    OBVIOUS
  <2>2. u \in Units /\ CopyTrue(u) /\ EndTrue(u) /\ UnitFits(u) /\ worker'[v] = u
    BY <1>5, <2>1, InvUnit DEF LandLate
  <2>3. CopyTrue(u)' /\ EndTrue(u)'
    BY <1>1, <2>2, LandedUnit
  <2>4. SenderIsAlone(v)'
    BY <1>5, InvUnit DEF SenderIsAlone, LandLate, Current, Owns, Visible
  <2> QED BY <2>2, <2>3, <2>4, UnitPrimed
<1>6. EndsFit'
  BY <1>1, LandedWorld DEF EndsFit, OutlookInv, LandLate
<1> QED BY <1>1, <1>2, <1>3, <1>4, <1>5, <1>6, LandedWorld DEF OutlookInv, UnitsFit

LEMMA BudgetType ==
  ASSUME OutlookInv, NEW fault, Fails(fault)
  PROVE  budget' \in Scenario
<1>1. budget \in Scenario /\ budget.failures \in Nat /\ budget.failures > 0
  BY DEF OutlookInv, TypeOK, Scenario, Fails
<1>2. budget.failures - 1 \in Nat
  BY <1>1
<1> QED BY <1>1, <1>2 DEF Fails, Scenario

\* A job that is being saved, by a unit that is otherwise as it was.
Saved(unit, job, next) == [unit EXCEPT !.job = job, !.pc = "saving", !.next = next]

LEMMA SavedUnit ==
  ASSUME NEW unit \in Units, NEW job \in Jobs, NEW next \in PCs
  PROVE  LET new == Saved(unit, job, next) IN
         /\ new \in Units /\ new.pc = "saving" /\ new.next = next /\ new.job = job /\ new.op = unit.op
         /\ new.access = unit.access /\ new.version = unit.version /\ Heading(new) = next
<1>1. "saving" \in PCs
  BY DEF PCs
<1> QED BY <1>1 DEF Saved, Units, Heading

LEMMA AnsweredTrue ==
  ASSUME OutlookInv, NEW r \in inflight, NEW moved \in SUBSET r.targets, Lands(r, moved),
         NEW job \in Jobs, JobTrue(job), JobFits(job), job.status = Phase(r.op),
         r.targets = In(job, {Dispatching[r.op]}),
         NEW accepted \in SUBSET moved, NEW rejected \in SUBSET (r.targets \ moved)
  PROVE  LET new == Answered(job, r.op, accepted, rejected) IN
         JobTrue(new)' /\ NeverBack(job, new) /\ ~Interrupted(new, r.op)
<1>0. r.op \in Mutations
  BY DEF OutlookInv, TypeOK
<1>1. PICK new : new = Answered(job, r.op, accepted, rejected)
  OBVIOUS
<1>2. \A t \in Candidates : new.target[t] =
              IF t \in rejected THEN Rejected[r.op]
              ELSE IF t \in accepted THEN Dispatched[r.op]
              ELSE IF job.target[t] = Dispatching[r.op] THEN Doubtful[r.op] ELSE job.target[t]
  <2>1. /\ accepted \in SUBSET In(job, {Dispatching[r.op]}) /\ rejected \in SUBSET In(job, {Dispatching[r.op]})
        /\ accepted \cap rejected = {}
    OBVIOUS
  <2> QED BY <1>0, <1>1, <2>1, AnsweredJob
<1>3. ASSUME NEW t \in Candidates
      PROVE  /\ TargetTrue(new, t)' /\ Rank(new.target[t]) >= Rank(job.target[t])
             /\ new.target[t] # Dispatching[r.op]
  <2>1. /\ TargetTrue(job, t) /\ TargetTrue(job, t)' /\ sent' = sent /\ job.target[t] \in TargetStates
        /\ (t \in r.targets <=> job.target[t] = Dispatching[r.op])
    BY <1>3, LandedTrue, JobType DEF JobTrue, In, Lands
  <2>2. CASE t \notin r.targets
    <3>1. new.target[t] = job.target[t] /\ new.target[t] # Dispatching[r.op]
      BY <1>2, <1>3, <2>1, <2>2
    <3>2. Rank(new.target[t]) >= Rank(job.target[t])
      BY <2>1, <3>1, RankType
    <3> QED BY <2>1, <3>1, <3>2 DEF TargetTrue
  <2>3. CASE t \in r.targets
    <3>1. /\ ~InFlight(t)' /\ sent[r.op][t] = 1
          /\ mailbox'[t] = (IF t \in moved THEN Folder(r.op) ELSE mailbox[t])
          /\ mailbox[t] = (IF r.op = "cleanup" THEN "original" ELSE "deleted")
      BY <1>3, <2>3, LandedMessage
    <3>2. CASE r.op = "cleanup"
      <4>1. job.target[t] = "move_dispatching"
        BY <2>1, <2>3, <3>2, NamesRight DEF Names
      <4>2. new.target[t] = IF t \in rejected THEN "move_failed"
                            ELSE IF t \in accepted THEN "move_dispatched" ELSE "move_uncertain"
        BY <1>2, <1>3, <2>1, <2>3, <3>2, NamesRight DEF Names
      <4>3. (t \in rejected => mailbox'[t] = "original") /\ (t \in accepted => mailbox'[t] = "deleted")
        BY <3>1, <3>2 DEF Folder
      <4>4. sent["undo"][t] = 0
        BY <2>1, <4>1 DEF TargetTrue, RestoreStates
      <4>5. TargetTrue(new, t)'
        BY <2>1, <3>1, <4>2, <4>3, <4>4 DEF TargetTrue, RestoreStates, OpenStates, Untouched
      <4>6. Rank(new.target[t]) >= Rank(job.target[t]) /\ new.target[t] # Dispatching[r.op]
        BY <3>2, <4>1, <4>2, NamesRight DEF Rank, Names
      <4> QED BY <4>5, <4>6
    <3>3. CASE r.op = "undo"
      <4>1. job.target[t] = "restore_dispatching"
        BY <2>1, <2>3, <3>3, NamesRight DEF Names
      <4>2. new.target[t] = IF t \in rejected THEN "restore_failed"
                            ELSE IF t \in accepted THEN "restore_dispatched" ELSE "restore_uncertain"
        BY <1>2, <1>3, <2>1, <2>3, <3>3, NamesRight DEF Names
      <4>3. /\ t \in rejected => mailbox'[t] = "deleted"
            /\ t \in accepted => mailbox'[t] = "restored"
            /\ mailbox'[t] # "original"
        BY <3>1, <3>3 DEF Folder
      <4>5. TargetTrue(new, t)'
        BY <2>1, <3>1, <4>2, <4>3 DEF TargetTrue, RestoreStates, OpenStates, Untouched
      <4>6. Rank(new.target[t]) >= Rank(job.target[t]) /\ new.target[t] # Dispatching[r.op]
        BY <3>3, <4>1, <4>2, NamesRight DEF Rank, Names
      <4> QED BY <4>5, <4>6
    <3> QED BY <1>0, <3>2, <3>3 DEF Mutations
  <2> QED BY <2>2, <2>3
<1> QED BY <1>1, <1>3 DEF JobTrue, NeverBack, Interrupted, In

LEMMA AnswerKeeps ==
  ASSUME OutlookInv, NEW w \in Workers, Answer(w)
  PROVE  OutlookInv'
<1>u. PICK u : u = worker[w]
  OBVIOUS
<1>1. /\ u \in Units /\ u.pc = "awaiting" /\ UnitFits(u) /\ CopyTrue(u)
      /\ u.op \in Operations /\ u.job \in Jobs /\ u.version \in Nat
  BY <1>u, InvUnit, UnitType DEF Answer
<1>2. /\ u.op \in Mutations /\ u.job.status = Phase(u.op) /\ JobFits(u.job)
      /\ u.op = "cleanup" => ~u.job.stopped /\ u.access = "forward"
  BY <1>1 DEF UnitFits, Heading, Mutating
<1>3. PICK r \in inflight : r.worker = w /\
       \E moved \in SUBSET r.targets :
         \E accepted \in SUBSET moved, rejected \in SUBSET (r.targets \ moved) :
           /\ inflight' = inflight \ {r}
           /\ mailbox' = Changed(r.op, moved)
           /\ Save(w, Answered(worker[w].job, r.op, accepted, rejected), "verifying")
           /\ IF accepted \cup rejected = r.targets THEN UNCHANGED budget ELSE Fails("answer")
  BY DEF Answer
<1>4. r.op = u.op /\ r.targets = In(u.job, {Dispatching[u.op]}) /\ r \in Requests
  BY <1>3, <1>u DEF OutlookInv, RequestsMatch, Asking, TypeOK, Requests
<1>5. PICK moved \in SUBSET r.targets :
         \E accepted \in SUBSET moved, rejected \in SUBSET (r.targets \ moved) :
           /\ inflight' = inflight \ {r}
           /\ mailbox' = Changed(r.op, moved)
           /\ Save(w, Answered(worker[w].job, r.op, accepted, rejected), "verifying")
           /\ IF accepted \cup rejected = r.targets THEN UNCHANGED budget ELSE Fails("answer")
  BY <1>3
<1>6. PICK accepted \in SUBSET moved, rejected \in SUBSET (r.targets \ moved) :
           /\ inflight' = inflight \ {r}
           /\ mailbox' = Changed(r.op, moved)
           /\ Save(w, Answered(worker[w].job, r.op, accepted, rejected), "verifying")
           /\ IF accepted \cup rejected = r.targets THEN UNCHANGED budget ELSE Fails("answer")
  BY <1>5
<1>7. Lands(r, moved)
  BY <1>6 DEF Lands, Answer
<1>8. PICK new : new = Answered(u.job, r.op, accepted, rejected)
  OBVIOUS
<1>9. new \in Jobs /\ JobFits(new) /\ Kept(u.job, new)
  <2>1. PICK op : op = r.op
    OBVIOUS
  <2>2. PICK job : job = u.job
    OBVIOUS
  <2>3. op \in Mutations /\ job \in Jobs /\ JobFits(job) /\ job.status = Phase(op)
    BY <1>1, <1>2, <1>4, <2>1, <2>2
  <2>4. /\ accepted \in SUBSET In(job, {Dispatching[op]}) /\ rejected \in SUBSET In(job, {Dispatching[op]})
        /\ accepted \cap rejected = {}
    BY <1>4, <2>1, <2>2
  <2>5. new = Answered(job, op, accepted, rejected)
    BY <1>8, <2>1, <2>2
  <2>6. /\ Answered(job, op, accepted, rejected) \in Jobs /\ JobFits(Answered(job, op, accepted, rejected))
        /\ Kept(job, Answered(job, op, accepted, rejected))
    BY <2>3, <2>4, AnsweredJob, ZenonT(30)
  <2> QED BY <2>2, <2>5, <2>6
<1>10. PICK unit : unit = Saved(u, new, "verifying")
  OBVIOUS
<1>11. /\ unit \in Units /\ unit.pc = "saving" /\ unit.next = "verifying" /\ unit.job = new /\ unit.op = u.op
       /\ unit.access = u.access /\ unit.version = u.version /\ Heading(unit) = "verifying"
  <2>1. "verifying" \in PCs
    BY DEF PCs
  <2> QED BY <1>1, <1>9, <1>10, <2>1, SavedUnit
<1>12. worker' = [worker EXCEPT ![w] = unit]
  BY <1>6, <1>8, <1>10, <1>u DEF Save, Set, Saved
<1>13. worker' \in [Workers -> Units] /\ worker'[w] = unit /\ \A v \in Workers \ {w} : worker'[v] = worker[v]
  BY <1>11, <1>12 DEF OutlookInv, TypeOK
<1>14. budget' \in Scenario
  BY <1>6, BudgetType DEF OutlookInv, TypeOK
<1>15. TypeOK'
  BY <1>7, <1>13, <1>14, LandedWorld DEF OutlookInv, TypeOK, Answer, Requests
<1>16. RequestsMatch'
  <2>1. ASSUME NEW q \in inflight', q.worker \in Workers
        PROVE  q \in inflight /\ q.worker # w
    <3>1. q \in inflight /\ q # r /\ q \in Requests
      BY <1>7, <2>1 DEF Lands, OutlookInv, TypeOK, Requests
    <3>2. q.worker = w => q.op = u.op /\ q.targets = r.targets
      BY <1>4, <1>u, <2>1, <3>1 DEF OutlookInv, RequestsMatch, Asking
    <3> QED BY <1>3, <1>4, <3>1, <3>2 DEF Requests
  <2>2. \A q \in inflight' : q.worker \in Workers =>
          /\ worker'[q.worker].pc = "awaiting" /\ q.op = worker'[q.worker].op
          /\ q.targets = Asking(worker'[q.worker])
    BY <1>13, <2>1 DEF OutlookInv, RequestsMatch
  <2>3. \A q, p \in inflight' : q.targets \cap p.targets # {} => q = p
    BY <1>7 DEF Lands, OutlookInv, RequestsMatch
  <2> QED BY <2>2, <2>3 DEF RequestsMatch, Asking
<1>17. RowFits'
  <2>1. \A v \in Workers : row.present => worker'[v].version <= row.version
    BY <1>11, <1>13, <1>u, InvUnit
  <2> QED BY <1>7, <2>1, LandedRow DEF RowFits, Lands
<1>18. CopyTrue(unit)' /\ EndTrue(unit)' /\ UnitFits(unit)
  <2>1. UnitFits(unit)
    <3>1. new.status = u.job.status /\ new.stopped = u.job.stopped
      BY <1>9 DEF Kept
    <3>2. ~Interrupted(new, u.op)
      <4>1. \A t \in Candidates : new.target[t] =
              IF t \in rejected THEN Rejected[r.op]
              ELSE IF t \in accepted THEN Dispatched[r.op]
              ELSE IF u.job.target[t] = Dispatching[r.op] THEN Doubtful[r.op] ELSE u.job.target[t]
        <5>1. /\ accepted \in SUBSET In(u.job, {Dispatching[r.op]})
              /\ rejected \in SUBSET In(u.job, {Dispatching[r.op]}) /\ accepted \cap rejected = {}
          BY <1>4
        <5> QED BY <1>1, <1>2, <1>4, <1>8, <5>1, AnsweredJob
      <4>2. /\ Rejected[r.op] # Dispatching[r.op] /\ Dispatched[r.op] # Dispatching[r.op]
            /\ Doubtful[r.op] # Dispatching[r.op]
        BY <1>2, <1>4, NamesRight DEF Names, Mutations
      <4> QED BY <1>4, <4>1, <4>2 DEF Interrupted, In
    <3> QED BY <1>2, <1>9, <1>11, <3>1, <3>2 DEF UnitFits, Mutating
  <2>2. CopyTrue(unit)'
    <3> SUFFICES ASSUME Current(unit)
                 PROVE  /\ JobTrue(new)' /\ NeverBack(row.job, new) /\ ~Over(row.job)
      BY <1>7, <1>11 DEF CopyTrue, Current, Lands
    <3>1. JobTrue(u.job) /\ u.job = row.job
      BY <1>1, <1>11 DEF CopyTrue, Current
    <3>2. JobTrue(new)' /\ NeverBack(u.job, new)
      BY <1>1, <1>2, <1>4, <1>7, <1>8, <3>1, AnsweredTrue
    <3>3. ~Over(u.job)
      BY <1>2 DEF Over, Phase
    <3> QED BY <3>1, <3>2, <3>3
  <2>3. EndTrue(unit)'
    BY <1>11 DEF EndTrue
  <2> QED BY <2>1, <2>2, <2>3
<1>19. ASSUME NEW v \in Workers
       PROVE  CopyTrue(worker[v])' /\ EndTrue(worker[v])' /\ UnitFits(worker[v])' /\ SenderIsAlone(v)'
  <2>1. CASE v = w
    <3>1. SenderIsAlone(w)'
      BY <1>11, <1>13 DEF SenderIsAlone
    <3> QED BY <1>13, <1>18, <2>1, <3>1, UnitPrimed
  <2>2. CASE v # w
    <3>1. PICK p : p = worker[v]
      OBVIOUS
    <3>2. p \in Units /\ CopyTrue(p) /\ EndTrue(p) /\ UnitFits(p) /\ worker'[v] = p
      BY <1>13, <1>19, <2>2, <3>1, InvUnit
    <3>3. CopyTrue(p)' /\ EndTrue(p)'
      BY <1>7, <3>2, LandedUnit
    <3>4. \A q \in Workers : worker'[q].version = worker[q].version
      BY <1>11, <1>13, <1>u
    <3>5. SenderIsAlone(v) /\ row' = row
      BY <1>7, <1>19, InvUnit DEF Lands
    <3>6. SenderIsAlone(v)'
      BY <1>19, <3>1, <3>2, <3>4, <3>5 DEF SenderIsAlone, Current, Owns, Visible
    <3> QED BY <3>2, <3>3, <3>6, UnitPrimed
  <2> QED BY <2>1, <2>2
<1>20. EndsFit'
  BY <1>7, LandedWorld DEF EndsFit, OutlookInv, Answer
<1> QED BY <1>7, <1>15, <1>16, <1>17, <1>19, <1>20, LandedWorld DEF OutlookInv, UnitsFit

-----------------------------------------------------------------------------
(* A request is sent.                                                       *)

LEMMA SenderFacts ==
  ASSUME OutlookInv, NEW w \in Workers, Send(w)
  PROVE  /\ worker[w] \in Units /\ worker[w].pc = "intended" /\ Owns(row, w) /\ row.present
         /\ worker[w].version = row.version /\ worker[w].job = row.job
         /\ \A v \in Workers \ {w} : worker[v].version < row.version
         /\ worker[w].op \in Mutations /\ row.job.status = Phase(worker[w].op)
         /\ worker[w].op = "cleanup" => ~row.job.stopped /\ worker[w].access = "forward"
         /\ \A t \in Asking(worker[w]) : sent[worker[w].op][t] = 0
         /\ ~Over(row.job) /\ JobTrue(row.job) /\ row.job \in Jobs
<1>1. worker[w] \in Units /\ worker[w].pc = "intended" /\ Owns(row, w) /\ row.present /\ row.job \in Jobs
  BY InvUnit, RowType DEF Send, Fenced, Owns, Visible, OutlookInv
<1>2. Current(worker[w]) /\ \A v \in Workers \ {w} : worker[v].version < row.version
  BY <1>1, InvUnit DEF SenderIsAlone
<1>3. Heading(worker[w]) = "intended"
  BY <1>1 DEF Heading
<1>4. /\ worker[w].job = row.job /\ JobTrue(worker[w].job)
      /\ \A t \in Asking(worker[w]) : sent[worker[w].op][t] = 0
  BY <1>1, <1>2, <1>3, InvUnit DEF CopyTrue
<1>5. /\ worker[w].op \in Mutations /\ worker[w].job.status = Phase(worker[w].op)
      /\ worker[w].op = "cleanup" => ~worker[w].job.stopped /\ worker[w].access = "forward"
  BY <1>3, InvUnit DEF UnitFits, Mutating
<1>6. ~Over(row.job)
  BY <1>4, <1>5 DEF Over, Phase
<1> QED BY <1>1, <1>2, <1>4, <1>5, <1>6 DEF Current

\* What is sent is neither on its way nor was asked before.
LEMMA SentBatch ==
  ASSUME OutlookInv, NEW w \in Workers, Send(w), NEW batch, batch = Asking(worker[w]),
         NEW op, op = worker[w].op
  PROVE  /\ op \in Mutations /\ batch \in SUBSET Candidates
         /\ \A t \in batch : /\ row.job.target[t] = Dispatching[op] /\ sent[op][t] = 0 /\ ~InFlight(t)
                             /\ mailbox[t] = IF op = "cleanup" THEN "original" ELSE "deleted"
         /\ sent' \in [Mutations -> [Candidates -> Nat]]
         /\ \A t \in Candidates : sent'[op][t] = IF t \in batch THEN 1 ELSE sent[op][t]
         /\ \A o \in Mutations \ {op} : sent'[o] = sent[o]
         /\ inflight' = inflight \cup {[worker |-> w, op |-> op, targets |-> batch]}
<1>1. op \in Mutations /\ batch \in SUBSET Candidates
  BY SenderFacts DEF Asking, In
<1>2. inflight' = inflight \cup {[worker |-> w, op |-> op, targets |-> batch]}
  BY DEF Send, Batch, Asking
<1>3. /\ sent \in [Mutations -> [Candidates -> Nat]]
      /\ sent' = [sent EXCEPT ![op] = [t \in Candidates |-> IF t \in batch THEN sent[op][t] + 1 ELSE sent[op][t]]]
  BY DEF OutlookInv, TypeOK, Send, Batch, Asking
<1>4. [t \in Candidates |-> IF t \in batch THEN sent[op][t] + 1 ELSE sent[op][t]] \in [Candidates -> Nat]
  BY <1>1, <1>3
<1>5. ASSUME NEW t \in batch
      PROVE  /\ row.job.target[t] = Dispatching[op] /\ sent[op][t] = 0 /\ ~InFlight(t)
             /\ mailbox[t] = IF op = "cleanup" THEN "original" ELSE "deleted"
  <2>1. row.job.target[t] = Dispatching[op] /\ sent[op][t] = 0 /\ t \in Candidates
    BY <1>5, SenderFacts DEF Asking, In
  <2>2. TargetTrue(row.job, t) /\ Asked(t)
    BY <2>1, SenderFacts DEF JobTrue, OutlookInv
  <2>3. mailbox[t] \in {"original", "deleted", "restored"}
    BY <2>1 DEF OutlookInv, TypeOK
  <2>4. CASE op = "cleanup"
    <3>1. row.job.target[t] = "move_dispatching"
      BY <2>1, <2>4, NamesRight DEF Names
    <3>2. sent["undo"][t] = 0
      BY <2>2, <3>1 DEF TargetTrue, RestoreStates
    <3>3. mailbox[t] = "original"
      BY <2>1, <2>2, <2>3, <2>4 DEF Asked
    <3>4. ASSUME NEW r \in inflight, t \in r.targets PROVE FALSE
      <4>1. sent[r.op][t] = 1 /\ r.op \in Mutations
        BY <2>2, <3>4 DEF Asked, OutlookInv, TypeOK
      <4> QED BY <2>1, <2>4, <3>2, <4>1 DEF Mutations
    <3> QED BY <2>1, <2>4, <3>3, <3>4 DEF InFlight
  <2>5. CASE op = "undo"
    <3>1. row.job.target[t] = "restore_dispatching"
      BY <2>1, <2>5, NamesRight DEF Names
    <3>2. mailbox[t] = "deleted"
      BY <2>1, <2>2, <2>3, <2>5, <3>1 DEF TargetTrue, RestoreStates, Asked
    <3>3. ASSUME NEW r \in inflight, t \in r.targets PROVE FALSE
      <4>1. sent[r.op][t] = 1 /\ r.op \in Mutations /\ (r.op = "cleanup" => mailbox[t] = "original")
        BY <2>2, <3>3 DEF Asked, OutlookInv, TypeOK
      <4> QED BY <2>1, <2>5, <3>2, <4>1 DEF Mutations
    <3> QED BY <2>1, <2>5, <3>2, <3>3 DEF InFlight
  <2> QED BY <1>1, <2>4, <2>5 DEF Mutations
<1>6. sent' \in [Mutations -> [Candidates -> Nat]] /\ \A o \in Mutations \ {op} : sent'[o] = sent[o]
  BY <1>1, <1>3, <1>4
<1>7. \A t \in Candidates : sent'[op][t] = IF t \in batch THEN 1 ELSE sent[op][t]
  <2>1. ASSUME NEW t \in Candidates
        PROVE  sent'[op][t] = IF t \in batch THEN sent[op][t] + 1 ELSE sent[op][t]
    BY <1>1, <1>3, <2>1
  <2> QED BY <1>5, <2>1
<1> QED BY <1>1, <1>2, <1>5, <1>6, <1>7

LEMMA SentMessage ==
  ASSUME OutlookInv, NEW w \in Workers, Send(w), NEW t \in Candidates
  PROVE  Asked(t)' /\ TargetTrue(row.job, t)'
<1>b. PICK batch : batch = Asking(worker[w])
  OBVIOUS
<1>o. PICK op : op = worker[w].op
  OBVIOUS
<1>1. /\ op \in Mutations
      /\ t \in batch => /\ row.job.target[t] = Dispatching[op] /\ sent[op][t] = 0 /\ ~InFlight(t)
                        /\ mailbox[t] = IF op = "cleanup" THEN "original" ELSE "deleted"
      /\ sent'[op][t] = IF t \in batch THEN 1 ELSE sent[op][t]
      /\ \A o \in Mutations \ {op} : sent'[o] = sent[o]
      /\ inflight' = inflight \cup {[worker |-> w, op |-> op, targets |-> batch]}
  BY <1>b, <1>o, SentBatch
<1>2. Asked(t) /\ TargetTrue(row.job, t) /\ mailbox' = mailbox /\ row' = row
  BY SenderFacts DEF OutlookInv, JobTrue, Send
<1>3. CASE t \notin batch
  <2>1. \A o \in Mutations : sent'[o][t] = sent[o][t]
    BY <1>1, <1>3
  <2>2. sent'["cleanup"][t] = sent["cleanup"][t] /\ sent'["undo"][t] = sent["undo"][t]
    BY <2>1 DEF Mutations
  <2>3. \A r \in inflight' : t \in r.targets => r \in inflight
    BY <1>1, <1>3
  <2>4. InFlight(t)' <=> InFlight(t)
    BY <1>1, <2>3 DEF InFlight
  <2>5. TargetTrue(row.job, t)'
    BY <1>2, <2>2, <2>4 DEF TargetTrue
  <2>6. \A r \in inflight : r.op \in Mutations
    BY DEF OutlookInv, TypeOK
  <2> QED BY <1>2, <2>1, <2>2, <2>3, <2>5, <2>6 DEF Asked
<1>4. CASE t \in batch
  <2>1. \A r \in inflight' : t \in r.targets => r.op = op
    BY <1>1, <1>4 DEF InFlight
  <2>2. CASE op = "cleanup"
    <3>1. /\ row.job.target[t] = "move_dispatching" /\ mailbox[t] = "original"
          /\ sent'["cleanup"][t] = 1 /\ sent'["undo"][t] = sent["undo"][t]
      BY <1>1, <1>4, <2>2, NamesRight DEF Names, Mutations
    <3>2. sent["undo"][t] = 0
      BY <1>2, <3>1 DEF Asked
    <3>3. Asked(t)'
      BY <1>2, <2>1, <2>2, <3>1, <3>2 DEF Asked
    <3>4. TargetTrue(row.job, t)'
      BY <1>2, <3>1, <3>2 DEF TargetTrue, RestoreStates, OpenStates, Untouched
    <3> QED BY <3>3, <3>4
  <2>3. CASE op = "undo"
    <3>1. /\ row.job.target[t] = "restore_dispatching" /\ mailbox[t] = "deleted"
          /\ sent'["undo"][t] = 1 /\ sent'["cleanup"][t] = sent["cleanup"][t]
      BY <1>1, <1>4, <2>3, NamesRight DEF Names, Mutations
    <3>2. sent["cleanup"][t] = 1
      BY <1>2, <3>1 DEF Asked
    <3>3. Asked(t)'
      BY <1>2, <2>1, <2>3, <3>1, <3>2 DEF Asked
    <3>4. TargetTrue(row.job, t)'
      BY <1>2, <3>1 DEF TargetTrue, RestoreStates, OpenStates, Untouched
    <3> QED BY <3>3, <3>4
  <2> QED BY <1>1, <2>2, <2>3 DEF Mutations
<1> QED BY <1>3, <1>4

LEMMA SendKeeps ==
  ASSUME OutlookInv, NEW w \in Workers, Send(w)
  PROVE  OutlookInv'
<1>u. PICK u : u = worker[w]
  OBVIOUS
<1>b. PICK batch : batch = Asking(u)
  OBVIOUS
<1>1. /\ u \in Units /\ u.pc = "intended" /\ UnitFits(u) /\ EndTrue(u) /\ Owns(row, w) /\ row.present
      /\ u.version = row.version /\ u.job = row.job /\ ~Over(row.job)
      /\ \A v \in Workers \ {w} : worker[v].version < row.version
  BY <1>u, SenderFacts, InvUnit
<1>2. PICK unit : unit = [u EXCEPT !.pc = "awaiting"]
  OBVIOUS
<1>3. /\ unit \in Units /\ unit.pc = "awaiting" /\ unit.op = u.op /\ unit.job = u.job
      /\ unit.version = u.version /\ unit.access = u.access /\ unit.next = u.next
  BY <1>1, <1>2 DEF Units, PCs
<1>4. worker' = [worker EXCEPT ![w] = unit] /\ row' = row /\ mailbox' = mailbox
  BY <1>u, <1>2 DEF Send, Goto, Set
<1>5. worker' \in [Workers -> Units] /\ worker'[w] = unit /\ \A v \in Workers \ {w} : worker'[v] = worker[v]
  BY <1>3, <1>4 DEF OutlookInv, TypeOK
<1>6. /\ u.op \in Mutations /\ batch \in SUBSET Candidates
      /\ \A t \in batch : t \in Candidates /\ ~InFlight(t)
      /\ sent' \in [Mutations -> [Candidates -> Nat]]
      /\ inflight' = inflight \cup {[worker |-> w, op |-> u.op, targets |-> batch]}
  BY <1>u, <1>b, SentBatch
<1>7. TypeOK'
  <2>1. [worker |-> w, op |-> u.op, targets |-> batch] \in Requests
    BY <1>6 DEF Requests, Owners
  <2>2. inflight' \in SUBSET Requests
    BY <1>6, <2>1 DEF OutlookInv, TypeOK, Requests
  <2> QED BY <1>4, <1>5, <1>6, <2>2 DEF OutlookInv, TypeOK, Send, Requests
<1>8. RequestsMatch'
  <2>1. \A r \in inflight : r.targets \cap batch = {} /\ r.worker # w
    <3>1. \A r \in inflight : r.worker # w
      BY <1>u, <1>1 DEF OutlookInv, RequestsMatch
    <3>2. \A r \in inflight : r.targets \cap batch = {}
      BY <1>6 DEF InFlight
    <3> QED BY <3>1, <3>2
  <2>2. \A r, q \in inflight : r.targets \cap q.targets # {} => r = q
    BY DEF OutlookInv, RequestsMatch
  <2>3. \A r, q \in inflight' : r.targets \cap q.targets # {} => r = q
    BY <1>6, <2>1, <2>2
  <2>4. ASSUME NEW r \in inflight', r.worker \in Workers
        PROVE  /\ worker'[r.worker].pc = "awaiting" /\ r.op = worker'[r.worker].op
               /\ r.targets = Asking(worker'[r.worker])
    <3>1. CASE r \in inflight
      BY <1>5, <2>1, <2>4, <3>1 DEF OutlookInv, RequestsMatch
    <3>2. CASE r \notin inflight
      <4>1. r = [worker |-> w, op |-> u.op, targets |-> batch]
        BY <1>6, <2>4, <3>2
      <4>2. Asking(unit) = batch
        BY <1>b, <1>3 DEF Asking, In
      <4> QED BY <1>3, <1>5, <4>1, <4>2
    <3> QED BY <3>1, <3>2
  <2> QED BY <2>3, <2>4 DEF RequestsMatch, Asking
<1>9. JobTrue(row.job)' /\ \A t \in Candidates : Asked(t)'
  BY SentMessage DEF JobTrue
<1>10. RowFits'
  <2>1. \A v \in Workers : worker'[v].version <= row.version
    BY <1>u, <1>3, <1>5, InvUnit, <1>1
  <2> QED BY <1>4, <1>9, <2>1 DEF RowFits, OutlookInv
<1>11. ~Settled
  BY <1>1 DEF Settled
<1>12. ASSUME NEW v \in Workers
       PROVE  CopyTrue(worker[v])' /\ EndTrue(worker[v])' /\ UnitFits(worker[v])' /\ SenderIsAlone(v)'
  <2>1. CASE v = w
    <3>1. JobTrue(u.job)'
      <4>1. PICK job : job = row.job
        OBVIOUS
      <4>2. row'.job = job
        BY <1>4, <4>1
      <4>3. JobTrue(job)'
        BY <1>9, <4>1, <4>2 DEF JobTrue, TargetTrue
      <4> QED BY <1>1, <4>1, <4>3
    <3>2. NeverBack(u.job, u.job)
      <4>1. ASSUME NEW t \in Candidates PROVE Rank(u.job.target[t]) \in Nat
        BY <1>1, <4>1, UnitType, JobType, RankType
      <4> QED BY <4>1 DEF NeverBack
    <3>3. CopyTrue(unit)'
      BY <1>1, <1>3, <1>4, <3>1, <3>2 DEF CopyTrue, Current, Heading
    <3>4. EndTrue(unit)'
      BY <1>3 DEF EndTrue
    <3>5. UnitFits(unit)
      BY <1>1, <1>3 DEF UnitFits, Heading, Mutating
    <3>6. SenderIsAlone(w)'
      BY <1>3, <1>5 DEF SenderIsAlone
    <3> QED BY <1>5, <2>1, <3>3, <3>4, <3>5, <3>6, UnitPrimed
  <2>2. CASE v # w
    <3>1. PICK p : p = worker[v]
      OBVIOUS
    <3>2. p \in Units /\ EndTrue(p) /\ UnitFits(p) /\ worker'[v] = p /\ p.version < row.version
      BY <1>1, <1>5, <1>12, <2>2, <3>1, InvUnit
    <3>3. p.version # row'.version
      BY <1>4, <3>2, UnitType, RowType, <1>1 DEF OutlookInv
    <3>4. CopyTrue(p)'
      BY <3>3 DEF CopyTrue, Current
    <3>5. EndTrue(p)'
      BY <1>11, <3>2 DEF EndTrue
    <3>6. SenderIsAlone(v)'
      BY <1>1, <1>4, <2>2 DEF SenderIsAlone, Owns, Visible
    <3> QED BY <3>2, <3>4, <3>5, <3>6, UnitPrimed
  <2> QED BY <2>1, <2>2
<1>13. EndsFit'
  <2>1. aggregate'.terminal # "undo_complete" /\ leaving' # "discarded"
    BY <1>1, <1>11 DEF EndsFit, OutlookInv, Send
  <2> QED BY <2>1 DEF EndsFit
<1> QED BY <1>7, <1>8, <1>9, <1>10, <1>12, <1>13 DEF OutlookInv, UnitsFit

-----------------------------------------------------------------------------
(* The steps of a unit.                                                     *)

LEMMA PlainStep ==
  ASSUME OutlookInv, NEW w \in Workers, NEW unit \in Units, Set(w, unit), worker[w].pc # "awaiting",
         row' = row, aggregate' = aggregate, UNCHANGED environment, budget' \in Scenario,
         unit.pc \notin {"intended", "awaiting"}, unit.version <= worker[w].version,
         UnitFits(unit), EndTrue(unit), CopyTrue(unit)
  PROVE  OutlookInv'
<1>1. WorldKept(w)
  BY QuietWorld DEF environment
<1>2. RowKept
  BY DEF RowKept, OutlookInv, TypeOK
<1>3. RestKept
  BY DEF RestKept, OutlookInv, TypeOK, Aggregates, EndsFit, environment
<1>4. row.present => unit.version <= row.version
  <2>1. row.present => worker[w].version <= row.version /\ row.version \in Nat
    BY InvUnit, RowType DEF OutlookInv
  <2>2. unit.version \in Nat /\ worker[w].version \in Nat
    BY InvUnit, UnitType
  <2> QED BY <2>1, <2>2
<1> QED BY <1>1, <1>2, <1>3, <1>4, UnitStep

LEMMA AcceptedFits == AcceptedJob \in Jobs /\ JobFits(AcceptedJob)
<1>1. [t \in Candidates |-> "candidate"] \in [Candidates -> TargetStates]
  BY DEF TargetStates
<1>2. NoDeletion \in Deletions
  BY DEF NoDeletion, Deletions, DeletionStates
<1>3. AcceptedJob \in Jobs
  BY <1>1, <1>2 DEF AcceptedJob, Jobs, JobStatuses
<1>4. \A t \in Candidates : AcceptedJob.target[t] = "candidate"
  BY DEF AcceptedJob
<1>5. AcceptedJob.status = "created" /\ AcceptedJob.deletion = NoDeletion
  BY DEF AcceptedJob
<1>6. JobFits(AcceptedJob)
  BY <1>4, <1>5 DEF JobFits, In, RestoreStates
<1> QED BY <1>3, <1>6

\* A unit that has no job.
Resting(unit) ==
  unit \in Units /\ unit.pc \in {"off", "idle", "releasing"} /\ unit.version = 0 /\ unit.job = AcceptedJob

LEMMA RestingUnit ==
  ASSUME OutlookInv, NEW unit, Resting(unit)
  PROVE  UnitFits(unit) /\ EndTrue(unit) /\ CopyTrue(unit)
<1>1. UnitFits(unit)
  BY AcceptedFits DEF Resting, UnitFits, Heading, Mutating
<1>2. EndTrue(unit)
  BY DEF Resting, EndTrue
<1>3. ~Current(unit)
  BY DEF Current, Resting, OutlookInv, RowFits
<1> QED BY <1>1, <1>2, <1>3 DEF CopyTrue

LEMMA RestingUnits ==
  /\ Resting(NoUnit) /\ \A op \in Operations : Resting(Idle(op))
  /\ \A op \in Operations, outcome \in {"stop", "continue"} :
       Resting([Idle(op) EXCEPT !.pc = "releasing", !.outcome = outcome])
BY AcceptedFits DEF Resting, NoUnit, Idle, Units, PCs, Operations

\* The unit leaves, and with it its job.
LEMMA LeaveUnit ==
  ASSUME OutlookInv, NEW w \in Workers, NEW outcome \in {"stop", "continue"}, Leave(w, outcome)
  PROVE  \E unit : Resting(unit) /\ Set(w, unit)
<1>1. worker[w].op \in Operations
  BY InvUnit, UnitType
<1> QED BY <1>1, RestingUnits DEF Leave

LEMMA RestingStep ==
  ASSUME OutlookInv, NEW w \in Workers, NEW unit, Resting(unit), Set(w, unit), worker[w].pc # "awaiting",
         row' = row, aggregate' = aggregate, UNCHANGED environment, budget' \in Scenario
  PROVE  OutlookInv'
<1>1. unit.version <= worker[w].version
  BY InvUnit, UnitType DEF Resting
<1>2. unit \in Units /\ unit.pc \notin {"intended", "awaiting"}
  BY DEF Resting
<1>3. UnitFits(unit) /\ EndTrue(unit) /\ CopyTrue(unit)
  BY RestingUnit
<1> QED BY <1>1, <1>2, <1>3, PlainStep

\* One job says no more than another, of messages that have come no less far.
Extends(old, new) == (JobTrue(old) => JobTrue(new)) /\ NeverBack(old, new)

LEMMA GoesOnExtends ==
  ASSUME NEW old \in Jobs, NEW new, GoesOn(old, new)
  PROVE  new \in Jobs /\ JobFits(new) /\ Extends(old, new)
BY FollowsTrue DEF GoesOn, Extends

LEMMA StoppedExtends ==
  ASSUME NEW old \in Jobs, NEW new, Stopped(old, new)
  PROVE  new \in Jobs /\ JobFits(new) /\ Extends(old, new)
BY FollowsTrue DEF Stopped, Extends

LEMMA ExtendsTransitive ==
  ASSUME NEW a \in Jobs, NEW b \in Jobs, NEW c \in Jobs, Extends(a, b), Extends(b, c)
  PROVE  Extends(a, c)
BY NeverBackTransitive DEF Extends

LEMMA ExtendsSame ==
  ASSUME NEW old \in Jobs, NEW new \in Jobs, new.target = old.target
  PROVE  Extends(old, new)
BY FollowsSame, FollowsTrue DEF Extends

\* A copy stays true when its unit goes on with it, and when it is about to save it.
LEMMA CopyGoesOn ==
  ASSUME OutlookInv, NEW u \in Units, CopyTrue(u), NEW unit \in Units, unit.version = u.version,
         Extends(u.job, unit.job), unit.pc \notin {"saving", "intended", "awaiting"},
         Over(u.job) => Over(unit.job)
  PROVE  CopyTrue(unit)
<1> SUFFICES ASSUME Current(unit)
             PROVE  JobTrue(unit.job) /\ NeverBack(row.job, unit.job) /\ (Over(row.job) => Over(unit.job))
  BY DEF CopyTrue, Heading
<1>1. JobTrue(u.job) /\ NeverBack(row.job, u.job) /\ (Over(row.job) => Over(u.job))
  BY DEF CopyTrue, Current
<1>2. row.job \in Jobs /\ u.job \in Jobs /\ unit.job \in Jobs
  BY UnitType, RowType DEF Current, OutlookInv
<1> QED BY <1>1, <1>2, NeverBackTransitive DEF Extends

LEMMA CopySaved ==
  ASSUME OutlookInv, NEW u \in Units, CopyTrue(u), NEW unit \in Units, unit.version = u.version,
         Extends(u.job, unit.job), unit.pc = "saving", ~Over(u.job),
         unit.next = "intended" =>
           (JobTrue(u.job) => \A t \in Asking(unit) : sent[unit.op][t] = 0)
  PROVE  CopyTrue(unit)
<1> SUFFICES ASSUME Current(unit)
             PROVE  /\ JobTrue(unit.job) /\ NeverBack(row.job, unit.job) /\ ~Over(row.job)
                    /\ unit.next = "intended" => \A t \in Asking(unit) : sent[unit.op][t] = 0
  BY DEF CopyTrue, Heading
<1>1. JobTrue(u.job) /\ NeverBack(row.job, u.job) /\ (Over(row.job) => Over(u.job))
  BY DEF CopyTrue, Current
<1>2. row.job \in Jobs /\ u.job \in Jobs /\ unit.job \in Jobs
  BY UnitType, RowType DEF Current, OutlookInv
<1> QED BY <1>1, <1>2, NeverBackTransitive DEF Extends

\* A unit saves a job and may go on with it afterwards.
LEMMA SavingStep ==
  ASSUME OutlookInv, NEW w \in Workers, NEW u, u = worker[w], NEW unit \in Units, Set(w, unit), u.pc # "awaiting",
         row' = row, aggregate' = aggregate, UNCHANGED environment, budget' \in Scenario,
         unit.pc = "saving", unit.version = u.version, UnitFits(unit),
         Extends(u.job, unit.job), ~Over(u.job),
         unit.next = "intended" =>
           (JobTrue(u.job) => \A t \in Asking(unit) : sent[unit.op][t] = 0)
  PROVE  OutlookInv'
<1>1. u \in Units /\ CopyTrue(u) /\ u.version \in Nat
  BY InvUnit, UnitType
<1>2. CopyTrue(unit)
  BY <1>1, CopySaved
<1>3. EndTrue(unit)
  BY DEF EndTrue
<1>4. unit.pc \notin {"intended", "awaiting"} /\ unit.version <= worker[w].version
  BY <1>1
<1> QED BY <1>2, <1>3, <1>4, PlainStep

\* A unit goes on with a job that it does not save.
LEMMA GoingStep ==
  ASSUME OutlookInv, NEW w \in Workers, NEW u, u = worker[w], NEW unit \in Units, Set(w, unit), u.pc # "awaiting",
         row' = row, aggregate' = aggregate, UNCHANGED environment, budget' \in Scenario,
         unit.pc \notin {"saving", "intended", "awaiting"}, unit.version = u.version, UnitFits(unit),
         EndTrue(unit), Extends(u.job, unit.job), Over(u.job) => Over(unit.job)
  PROVE  OutlookInv'
<1>1. u \in Units /\ CopyTrue(u) /\ u.version \in Nat
  BY InvUnit, UnitType
<1>2. CopyTrue(unit)
  BY <1>1, CopyGoesOn
<1>3. unit.pc \notin {"intended", "awaiting"} /\ unit.version <= worker[w].version
  BY <1>1
<1> QED BY <1>2, <1>3, PlainStep

LEMMA EndingStep ==
  ASSUME OutlookInv, NEW w \in Workers, NEW u, u = worker[w], u.pc # "awaiting", NEW outcome \in {"stop", "continue"},
         NEW job \in Jobs, JobFits(job), Extends(u.job, job), ~Over(u.job), End(w, job, outcome),
         row' = row, aggregate' = aggregate, UNCHANGED environment, budget' \in Scenario
  PROVE  OutlookInv'
<1>1. u \in Units
  BY InvUnit
<1>2. PICK unit : unit = [u EXCEPT !.job = job, !.pc = "saving", !.next = "done", !.outcome = outcome]
  OBVIOUS
<1>a. "saving" \in PCs /\ "done" \in PCs
  BY DEF PCs
<1>3. /\ unit \in Units /\ unit.job = job /\ unit.pc = "saving" /\ unit.next = "done"
      /\ unit.version = u.version
  BY <1>1, <1>2, <1>a DEF Units
<1>4. Set(w, unit)
  BY <1>2 DEF End
<1>5. UnitFits(unit)
  BY <1>3 DEF UnitFits, Heading, Mutating
<1> QED BY <1>3, <1>4, <1>5, SavingStep

LEMMA StoppingStep ==
  ASSUME OutlookInv, NEW w \in Workers, NEW u, u = worker[w], u.pc # "awaiting",
         NEW job \in Jobs, JobFits(job), Extends(u.job, job), ~Over(u.job), Stop(w, job),
         row' = row, aggregate' = aggregate, UNCHANGED environment, budget' \in Scenario
  PROVE  OutlookInv'
<1>1. PICK stopped : stopped = StoppedUncertain(job)
  OBVIOUS
<1>2. stopped \in Jobs /\ JobFits(stopped) /\ Extends(job, stopped)
  BY <1>1, StoppedUncertainJob, StoppedExtends
<1>3. u.job \in Jobs
  BY InvUnit, UnitType
<1>4. Extends(u.job, stopped)
  BY <1>2, <1>3, ExtendsTransitive
<1>5. End(w, stopped, "stop")
  BY <1>1 DEF Stop
<1> QED BY <1>2, <1>4, <1>5, EndingStep

LEMMA ClaimKeeps ==
  ASSUME OutlookInv, NEW w \in Workers, Claim(w)
  PROVE  OutlookInv'
<1>1. worker[w].pc = "idle" /\ UNCHANGED <<aggregate, budget, environment>> /\ budget' \in Scenario
  BY DEF Claim, OutlookInv, TypeOK
<1>2. CASE ~Claimable(row)
  BY <1>1, <1>2, RestingStep, RestingUnits DEF Claim
<1>3. CASE Claimable(row)
  <2>1. /\ row.present /\ row \in PresentRows(Owners, Jobs) /\ row.version \in Nat /\ row.job \in Jobs
        /\ row' = Claimed(row, w)
    BY <1>3, RowType DEF Claimable, Visible, OutlookInv, Claim
  <2>2. PICK u : u = worker[w]
    OBVIOUS
  <2>3. PICK job : job = row.job
    OBVIOUS
  <2>4. PICK version : version = row.version
    OBVIOUS
  <2>5. u \in Units /\ job \in Jobs /\ version \in Nat /\ version >= 1
    BY <2>1, <2>2, <2>3, <2>4, InvUnit DEF OutlookInv, RowFits
  <2>6. PICK unit : unit = [u EXCEPT !.pc = "claimed", !.job = job, !.version = version, !.outcome = "stop"]
    OBVIOUS
  <2>7. unit \in Units /\ unit.pc = "claimed" /\ unit.job = job /\ unit.version = version
    BY <2>5, <2>6 DEF Units, PCs
  <2>8. Set(w, unit)
    BY <1>3, <2>2, <2>3, <2>4, <2>6 DEF Claim
  <2>9. /\ row' \in Rows(Owners, Jobs) /\ row'.present /\ row'.owner = w /\ row'.job = row.job
        /\ row'.version = row.version
    BY <2>1 DEF Claimed, PresentRows, Rows, Owners
  <2>10. RowKept
    BY <2>1, <2>9 DEF RowKept
  <2>11. \A v \in Workers : Owns(row', v) => v = w
    BY <2>9 DEF Owns
  <2>12. JobFits(job) /\ JobTrue(job)
    BY <2>1, <2>3 DEF OutlookInv, RowFits
  <2>13. UnitFits(unit)
    BY <2>7, <2>12 DEF UnitFits, Heading, Mutating
  <2>14. EndTrue(unit)
    <3>1. job.status = "undo_complete" => Settled
      BY <2>1, <2>3, <2>12, RestoreSettles DEF OutlookInv
    <3> QED BY <2>7, <3>1 DEF EndTrue
  <2>15. CopyTrue(unit)
    <3>1. NeverBack(job, job)
      BY <2>5, ExtendsSame DEF Extends
    <3> QED BY <2>3, <2>7, <2>12, <3>1 DEF CopyTrue, Heading
  <2>16. WorldKept(w)
    BY <1>1, QuietWorld DEF environment
  <2>17. RestKept
    BY <1>1 DEF RestKept, OutlookInv, TypeOK, Aggregates, EndsFit, environment
  <2>18. row.present => unit.version <= row.version
    BY <2>4, <2>5, <2>7
  <2> QED BY <2>7, <2>8, <2>9, <2>10, <2>11, <2>13, <2>14, <2>15, <2>16, <2>17, <2>18, UnitStep
<1> QED BY <1>2, <1>3

LEMMA AuthorizeKeeps ==
  ASSUME OutlookInv, NEW w \in Workers, Authorize(w)
  PROVE  OutlookInv'
<1>1. PICK u : u = worker[w]
  OBVIOUS
<1>2. u \in Units /\ UnitFits(u) /\ EndTrue(u) /\ u.pc = "claimed" /\ u.job \in Jobs
  BY <1>1, InvUnit, UnitType DEF Authorize
<1>3. PICK access : access = Access(w)
  OBVIOUS
<1>4. PICK pc : pc = IF Authorized /\ (Access(w) = "forward" => open) THEN "authorized" ELSE "failing"
  OBVIOUS
<1>5. /\ access \in {"forward", "recovery"} /\ pc \in {"authorized", "failing"} /\ pc \in PCs
      /\ u.op = "cleanup" /\ access = "recovery" => u.job.moving # {}
  BY <1>1, <1>3, <1>4 DEF Access, PCs
<1>6. PICK unit : unit = [u EXCEPT !.access = access, !.pc = pc]
  OBVIOUS
<1>7. /\ unit \in Units /\ unit.pc = pc /\ unit.access = access /\ unit.job = u.job
      /\ unit.version = u.version /\ unit.op = u.op
  BY <1>2, <1>5, <1>6 DEF Units
<1>8. Set(w, unit)
  BY <1>1, <1>3, <1>4, <1>6 DEF Authorize
<1>9. UnitFits(unit)
  BY <1>2, <1>5, <1>7 DEF UnitFits, Heading, Mutating
<1>10. EndTrue(unit)
  BY <1>2, <1>5, <1>7 DEF EndTrue
<1>11. Extends(u.job, unit.job)
  BY <1>2, <1>7, ExtendsSame
<1>12. /\ row' = row /\ aggregate' = aggregate /\ UNCHANGED environment /\ budget' \in Scenario
       /\ unit.pc \notin {"saving", "intended", "awaiting"} /\ u.pc # "awaiting" /\ (Over(u.job) => Over(unit.job))
  BY <1>2, <1>5, <1>7 DEF Authorize, OutlookInv, TypeOK
<1> QED BY <1>1, <1>7, <1>8, <1>9, <1>10, <1>11, <1>12, GoingStep

\* A unit goes on somewhere else with the same job.
LEMMA GotoKeeps ==
  ASSUME OutlookInv, NEW w \in Workers, NEW u, u = worker[w], u.pc # "awaiting",
         NEW pc \in PCs \ {"off", "idle", "releasing", "saving", "intended", "awaiting", "recording", "noting"},
         Goto(w, pc), row' = row, aggregate' = aggregate, UNCHANGED environment, budget' \in Scenario,
         pc \in {"claimed", "authorized", "working", "done"} =>
           u.pc \in {"claimed", "authorized", "working", "done"},
         UnitFits([u EXCEPT !.pc = pc])
  PROVE  OutlookInv'
<1>1. u \in Units /\ EndTrue(u) /\ u.job \in Jobs
  BY InvUnit, UnitType
<1>2. PICK unit : unit = [u EXCEPT !.pc = pc]
  OBVIOUS
<1>3. unit \in Units /\ unit.pc = pc /\ unit.job = u.job /\ unit.version = u.version
  BY <1>1, <1>2 DEF Units
<1>4. Set(w, unit) /\ UnitFits(unit)
  BY <1>2 DEF Goto
<1>5. EndTrue(unit)
  BY <1>1, <1>3 DEF EndTrue
<1>6. Extends(u.job, unit.job) /\ (Over(u.job) => Over(unit.job))
  BY <1>1, <1>3, ExtendsSame
<1> QED BY <1>3, <1>4, <1>5, <1>6, GoingStep

\* What a unit that has stopped working on a batch has to fit.
LEMMA GotoFits ==
  ASSUME NEW u \in Units, UnitFits(u), NEW pc \in {"failing", "done"}
  PROVE  UnitFits([u EXCEPT !.pc = pc])
<1>1. PICK unit : unit = [u EXCEPT !.pc = pc]
  OBVIOUS
<1>2. unit.pc = pc /\ unit.job = u.job
  BY <1>1 DEF Units
<1>3. UnitFits(unit)
  BY <1>2 DEF UnitFits, Heading, Mutating
<1> QED BY <1>1, <1>3

LEMMA ConnectKeeps ==
  ASSUME OutlookInv, NEW w \in Workers, Connect(w)
  PROVE  OutlookInv'
<1>1. PICK u : u = worker[w]
  OBVIOUS
<1>2. u \in Units /\ UnitFits(u) /\ u.pc = "authorized"
  BY <1>1, InvUnit DEF Connect
<1>3. PICK unit : unit = [u EXCEPT !.pc = "working"]
  OBVIOUS
<1>4. /\ unit.pc = "working" /\ unit.job = u.job /\ unit.access = u.access /\ unit.op = u.op
      /\ Heading(u) = "authorized" /\ Heading(unit) = "working"
  BY <1>2, <1>3 DEF Units, Heading
<1>5. UnitFits(unit)
  BY <1>2, <1>4 DEF UnitFits, Mutating
<1>6. "working" \in PCs /\ row' = row /\ aggregate' = aggregate /\ UNCHANGED environment /\ budget' \in Scenario
  BY DEF PCs, Connect, OutlookInv, TypeOK
<1>7. Goto(w, "working")
  BY DEF Connect
<1> QED BY <1>1, <1>2, <1>3, <1>5, <1>6, <1>7, GotoKeeps

LEMMA SaveRefusedKeeps ==
  ASSUME OutlookInv, NEW w \in Workers, SaveRefused(w)
  PROVE  OutlookInv'
<1>1. worker[w] \in Units /\ UnitFits(worker[w]) /\ worker[w].pc = "saving" /\ Goto(w, "failing")
  BY InvUnit DEF SaveRefused
<1>2. UnitFits([worker[w] EXCEPT !.pc = "failing"])
  BY <1>1, GotoFits
<1>3. "failing" \in PCs /\ row' = row /\ aggregate' = aggregate /\ UNCHANGED environment /\ budget' \in Scenario
  BY DEF PCs, SaveRefused, OutlookInv, TypeOK
<1> QED BY <1>1, <1>2, <1>3, GotoKeeps

LEMMA ThrowKeeps ==
  ASSUME OutlookInv, NEW w \in Workers, Throw(w)
  PROVE  OutlookInv'
<1>1. worker[w] \in Units /\ UnitFits(worker[w]) /\ worker[w].pc # "awaiting" /\ Goto(w, "failing")
  BY InvUnit DEF Throw
<1>2. UnitFits([worker[w] EXCEPT !.pc = "failing"])
  BY <1>1, GotoFits
<1>3. "failing" \in PCs /\ row' = row /\ aggregate' = aggregate /\ UNCHANGED environment /\ budget' \in Scenario
  BY BudgetType DEF PCs, Throw
<1> QED BY <1>1, <1>2, <1>3, GotoKeeps

\* What a unit may write is the row's next job.
LEMMA WritableRow ==
  ASSUME OutlookInv, NEW w \in Workers, Writable(w), NEW u, u = worker[w],
         NEW job \in Jobs, JobFits(job), Extends(u.job, job), Over(u.job) => Over(job),
         row' = Replaced(row, job)
  PROVE  Rewritten(job) /\ Owns(row, w) /\ u.version = row.version /\ Current(u)
<1>1. row.present /\ u.version = row.version /\ Owns(row, w)
  BY DEF Writable, Owns, Visible, CanReplace
<1>2. Current(u) /\ u.job \in Jobs /\ row.job \in Jobs /\ CopyTrue(u)
  BY <1>1, InvUnit, UnitType, RowType DEF Current, OutlookInv
<1>3. JobTrue(u.job) /\ NeverBack(row.job, u.job) /\ (Over(row.job) => Over(u.job))
  BY <1>2 DEF CopyTrue
<1>4. JobTrue(job) /\ NeverBack(row.job, job)
  BY <1>2, <1>3, NeverBackTransitive DEF Extends
<1> QED BY <1>1, <1>2, <1>3, <1>4 DEF Rewritten

LEMMA FailJobKeeps ==
  ASSUME OutlookInv, NEW w \in Workers, FailJob(w)
  PROVE  OutlookInv'
<1>1. PICK u : u = worker[w]
  OBVIOUS
<1>2. u \in Units /\ UnitFits(u) /\ u.pc = "authorized" /\ u.job \in Jobs /\ JobFits(u.job) /\ u.version \in Nat
  BY <1>1, InvUnit, UnitType DEF FailJob, UnitFits
<1>3. PICK job : job = ConnectionFailed(u.job)
  OBVIOUS
<1>4. job \in Jobs /\ JobFits(job) /\ Extends(u.job, job) /\ job.status \in {"uncertain", "failed"}
      /\ (Over(u.job) => Over(job))
  BY <1>2, <1>3, ConnectionFailedJob, StoppedExtends
<1>5. PICK unit : unit = [u EXCEPT !.job = job, !.pc = "done", !.outcome = "stop"]
  OBVIOUS
<1>a. "done" \in PCs
  BY DEF PCs
<1>6. unit \in Units /\ unit.pc = "done" /\ unit.job = job /\ unit.version = u.version
  BY <1>2, <1>4, <1>5, <1>a DEF Units
<1>7. Set(w, unit)
  BY <1>1, <1>3, <1>5 DEF FailJob
<1>8. UnitFits(unit)
  BY <1>4, <1>6 DEF UnitFits, Heading, Mutating
<1>9. EndTrue(unit)
  BY <1>4, <1>6 DEF EndTrue
<1>10. aggregate' = aggregate /\ UNCHANGED environment /\ budget' \in Scenario
  BY DEF FailJob, OutlookInv, TypeOK
<1>11. CASE Writable(w)
  <2>1. row' = Replaced(row, job)
    BY <1>1, <1>3, <1>11 DEF FailJob
  <2>2. Rewritten(job) /\ Owns(row, w) /\ u.version = row.version
    BY <1>1, <1>4, <1>11, <2>1, WritableRow
  <2>3. WorldSame /\ RestSame
    BY <1>10 DEF WorldSame, RestSame, environment
  <2>4. unit.version \in {row.version, row.version + 1} /\ unit.pc \notin {"saving", "awaiting", "intended"}
        /\ worker[w].pc # "awaiting"
    BY <1>1, <1>2, <1>6, <2>2
  <2> QED BY <1>6, <1>7, <1>8, <2>2, <2>3, <2>4, UnitWrites
<1>12. CASE ~Writable(w)
  <2>1. row' = row
    BY <1>12 DEF FailJob
  <2>2. unit.pc \notin {"saving", "intended", "awaiting"} /\ u.pc # "awaiting"
    BY <1>2, <1>6
  <2> QED BY <1>1, <1>4, <1>6, <1>7, <1>8, <1>9, <1>10, <2>1, <2>2, GoingStep
<1> QED BY <1>11, <1>12

LEMMA SavingUnit ==
  ASSUME OutlookInv, NEW w \in Workers, NEW u, u = worker[w], u.pc = "saving", Writable(w),
         row' = Replaced(row, u.job)
  PROVE  Rewritten(u.job) /\ Owns(row, w) /\ u.version = row.version /\ CopyTrue(u) /\ Current(u)
<1>1. u \in Units /\ UnitFits(u) /\ u.job \in Jobs /\ JobFits(u.job) /\ CopyTrue(u)
  BY InvUnit, UnitType DEF UnitFits
<1>2. PICK job : job = u.job
  OBVIOUS
<1>3. Extends(u.job, job) /\ (Over(u.job) => Over(job)) /\ job \in Jobs /\ JobFits(job) /\ row' = Replaced(row, job)
  BY <1>1, <1>2, ExtendsSame
<1> QED BY <1>1, <1>2, <1>3, WritableRow

LEMMA SaveCommitsKeeps ==
  ASSUME OutlookInv, NEW w \in Workers, SaveCommits(w)
  PROVE  OutlookInv'
<1>1. PICK u : u = worker[w]
  OBVIOUS
<1>2. u \in Units /\ UnitFits(u) /\ u.pc = "saving" /\ u.job \in Jobs /\ u.version \in Nat /\ u.next \in PCs
  BY <1>1, InvUnit, UnitType DEF SaveCommits
<1>3. Rewritten(u.job) /\ Owns(row, w) /\ u.version = row.version /\ CopyTrue(u) /\ Current(u)
  BY <1>1, <1>2, SavingUnit DEF SaveCommits
<1>4. PICK version : version = u.version + 1
  OBVIOUS
<1>5. version \in Nat
  BY <1>2, <1>4
<1>6. PICK unit : unit = [u EXCEPT !.pc = u.next, !.version = version]
  OBVIOUS
<1>7. /\ unit \in Units /\ unit.pc = u.next /\ unit.job = u.job /\ unit.version = version
      /\ unit.op = u.op /\ unit.access = u.access
  BY <1>2, <1>5, <1>6 DEF Units
<1>8. Set(w, unit)
  BY <1>1, <1>4, <1>6 DEF SaveCommits
<1>9. unit.pc \in {"checked", "batching", "verifying", "intended", "done"} /\ Heading(unit) = Heading(u)
  BY <1>2, <1>7 DEF UnitFits, Heading
<1>10. UnitFits(unit)
  BY <1>2, <1>7, <1>9 DEF UnitFits
<1>11. unit.pc = "intended" => \A t \in Asking(unit) : sent[unit.op][t] = 0
  BY <1>2, <1>3, <1>7 DEF CopyTrue, Heading, Asking
<1>12. WorldSame /\ RestSame
  BY DEF WorldSame, RestSame, SaveCommits, environment, OutlookInv, TypeOK
<1>13. worker[w].pc # "awaiting" /\ unit.version \in {row.version, row.version + 1}
       /\ unit.pc \notin {"saving", "awaiting"} /\ unit.version = row.version + 1
  BY <1>1, <1>2, <1>3, <1>4, <1>7, <1>9
<1>14. PICK job : job = u.job
  OBVIOUS
<1> QED BY <1>3, <1>7, <1>8, <1>10, <1>11, <1>12, <1>13, <1>14, UnitWrites

LEMMA SaveResponseLostKeeps ==
  ASSUME OutlookInv, NEW w \in Workers, SaveResponseLost(w)
  PROVE  OutlookInv'
<1>1. PICK u : u = worker[w]
  OBVIOUS
<1>2. u \in Units /\ UnitFits(u) /\ u.pc = "saving" /\ u.job \in Jobs /\ u.version \in Nat /\ JobFits(u.job)
  BY <1>1, InvUnit, UnitType DEF SaveResponseLost, UnitFits
<1>3. Rewritten(u.job) /\ Owns(row, w) /\ u.version = row.version
  BY <1>1, <1>2, SavingUnit DEF SaveResponseLost
<1>4. PICK known \in {0, 1} : Set(w, [u EXCEPT !.pc = "failing", !.version = u.version + known])
  BY <1>1 DEF SaveResponseLost
<1>5. PICK version : version = u.version + known
  OBVIOUS
<1>6. version \in Nat /\ version \in {u.version, u.version + 1} /\ "failing" \in PCs
  BY <1>2, <1>5 DEF PCs
<1>7. PICK unit : unit = [u EXCEPT !.pc = "failing", !.version = version]
  OBVIOUS
<1>8. unit \in Units /\ unit.pc = "failing" /\ unit.job = u.job /\ unit.version = version
  BY <1>2, <1>6, <1>7 DEF Units
<1>9. Set(w, unit)
  BY <1>4, <1>5, <1>7
<1>10. UnitFits(unit)
  BY <1>2, <1>8 DEF UnitFits, Heading, Mutating
<1>11. WorldSame /\ RestSame
  BY BudgetType DEF WorldSame, RestSame, SaveResponseLost, environment
<1>12. worker[w].pc # "awaiting" /\ unit.version \in {row.version, row.version + 1}
       /\ unit.pc \notin {"saving", "awaiting", "intended"}
  BY <1>1, <1>2, <1>3, <1>6, <1>8
<1>14. PICK job : job = u.job
  OBVIOUS
<1> QED BY <1>3, <1>8, <1>9, <1>10, <1>11, <1>12, <1>14, UnitWrites

LEMMA ReportKeeps ==
  ASSUME OutlookInv, NEW w \in Workers, Report(w)
  PROVE  OutlookInv'
<1>1. PICK u : u = worker[w]
  OBVIOUS
<1>2. /\ u \in Units /\ UnitFits(u) /\ EndTrue(u) /\ u.pc \in {"done", "noting"}
      /\ u.outcome \in {"stop", "continue"} /\ u.version \in Nat
  BY <1>1, InvUnit, UnitType DEF Report
<1>3. PICK unit : Resting(unit) /\ Set(w, unit)
  BY <1>1, <1>2, LeaveUnit DEF Report
<1>4. u.job.status = "undo_complete" => Settled
  BY <1>2 DEF EndTrue, UnitFits
<1>5. aggregate' \in Aggregates /\ (aggregate'.terminal = "undo_complete" => Settled)
  <2>1. aggregate' = Synced(u.job) /\ aggregate \in Aggregates
        /\ (aggregate.terminal = "undo_complete" => Settled)
    BY <1>1 DEF Report, OutlookInv, TypeOK, Aggregates, EndsFit
  <2>2. PICK status : status = AggregateStatus(u.job.status)
    OBVIOUS
  <2>3. status \in {"running", "completed", "partial", "failed"}
    BY <2>2 DEF AggregateStatus
  <2>4. PICK terminal : terminal = IF u.job.status \in Terminal THEN u.job.status ELSE "none"
    OBVIOUS
  <2>5. terminal \in Terminal \cup {"none"} /\ (terminal = "undo_complete" => Settled)
    BY <1>4, <2>4 DEF Terminal
  <2>6. aggregate' \in {aggregate, [status |-> status, terminal |-> terminal]}
    BY <2>1, <2>2, <2>4 DEF Synced
  <2>7. [status |-> status, terminal |-> terminal] \in Aggregates
    BY <2>3, <2>5 DEF Aggregates
  <2> QED BY <2>1, <2>5, <2>6, <2>7
<1>6. row' = row /\ UNCHANGED environment /\ budget' \in Scenario
  BY DEF Report, OutlookInv, TypeOK
<1>7. WorldKept(w)
  BY <1>1, <1>2, <1>6, QuietWorld DEF environment
<1>8. RowKept /\ \A v \in Workers : Owns(row', v) => Owns(row, v)
  BY <1>6 DEF RowKept, OutlookInv, TypeOK
<1>9. RestKept
  BY <1>5, <1>6 DEF RestKept, OutlookInv, TypeOK, environment
<1>10. UnitFits(unit) /\ EndTrue(unit) /\ CopyTrue(unit)
  BY <1>3, RestingUnit
<1>11. unit \in Units /\ unit.pc \notin {"intended", "awaiting"} /\ unit.version <= worker[w].version
       /\ (row.present => unit.version <= row.version)
  BY <1>1, <1>2, <1>3, RowType DEF Resting, OutlookInv
<1> QED BY <1>3, <1>7, <1>8, <1>9, <1>10, <1>11, UnitStep

\* The unit takes its job for failed and is about to record it.
LEMMA RecordingUnit ==
  ASSUME OutlookInv, NEW w \in Workers, worker[w].pc = "failing",
         Set(w, [worker[w] EXCEPT !.pc = "recording", !.job = UnitFailed(@), !.outcome = "stop"]),
         row' = row, aggregate' = aggregate, UNCHANGED environment, budget' \in Scenario
  PROVE  OutlookInv'
<1>1. PICK u : u = worker[w]
  OBVIOUS
<1>2. u \in Units /\ u.pc = "failing" /\ u.job \in Jobs /\ JobFits(u.job)
  BY <1>1, InvUnit, UnitType DEF UnitFits
<1>3. PICK job : job = UnitFailed(u.job)
  OBVIOUS
<1>4. job \in Jobs /\ JobFits(job) /\ Extends(u.job, job) /\ job.status \in {"uncertain", "failed"}
      /\ (Over(u.job) => Over(job))
  BY <1>2, <1>3, UnitFailedJob, StoppedExtends
<1>5. PICK unit : unit = [u EXCEPT !.pc = "recording", !.job = job, !.outcome = "stop"]
  OBVIOUS
<1>a. "recording" \in PCs
  BY DEF PCs
<1>6. unit \in Units /\ unit.pc = "recording" /\ unit.job = job /\ unit.version = u.version
  BY <1>2, <1>4, <1>5, <1>a DEF Units
<1>7. Set(w, unit)
  BY <1>1, <1>3, <1>5
<1>8. UnitFits(unit) /\ EndTrue(unit)
  BY <1>4, <1>6 DEF UnitFits, Heading, Mutating, EndTrue
<1>9. unit.pc \notin {"saving", "intended", "awaiting"} /\ u.pc # "awaiting"
  BY <1>2, <1>6
<1> QED BY <1>1, <1>4, <1>6, <1>7, <1>8, <1>9, GoingStep

LEMMA CatchKeeps ==
  ASSUME OutlookInv, NEW w \in Workers, Catch(w)
  PROVE  OutlookInv'
<1>1. /\ worker[w].pc = "failing" /\ row' = row /\ aggregate' = aggregate /\ UNCHANGED environment
      /\ budget' \in Scenario
  BY DEF Catch, OutlookInv, TypeOK
<1>2. CASE Rescued(w)
  <2>1. PICK outcome : outcome = IF row.job.status = "ready" THEN "stop" ELSE "continue"
    OBVIOUS
  <2>2. outcome \in {"stop", "continue"} /\ Leave(w, outcome)
    BY <1>2, <2>1 DEF Catch
  <2>3. PICK unit : Resting(unit) /\ Set(w, unit)
    BY <2>2, LeaveUnit
  <2> QED BY <1>1, <2>3, RestingStep
<1>3. CASE ~Rescued(w)
  BY <1>1, <1>3, RecordingUnit DEF Catch
<1> QED BY <1>2, <1>3

LEMMA RereadFailsKeeps ==
  ASSUME OutlookInv, NEW w \in Workers, RereadFails(w)
  PROVE  OutlookInv'
BY BudgetType, RecordingUnit DEF RereadFails

LEMMA RecordFailureKeeps ==
  ASSUME OutlookInv, NEW w \in Workers, RecordFailure(w)
  PROVE  OutlookInv'
<1>1. PICK u : u = worker[w]
  OBVIOUS
<1>2. u \in Units /\ UnitFits(u) /\ u.pc = "recording" /\ u.job \in Jobs /\ JobFits(u.job)
  BY <1>1, InvUnit, UnitType DEF RecordFailure, UnitFits
<1>3. aggregate' = aggregate /\ UNCHANGED environment /\ budget' \in Scenario
  BY DEF RecordFailure, OutlookInv, TypeOK
<1>4. CASE Recordable(w)
  <2>1. row' = Replaced(row, u.job) /\ Goto(w, "noting") /\ Writable(w)
    BY <1>1, <1>4 DEF RecordFailure, Recordable
  <2>2. PICK job : job = u.job
    OBVIOUS
  <2>3. Extends(u.job, job)
    BY <1>2, <2>2, ExtendsSame
  <2>4. Rewritten(job) /\ Owns(row, w) /\ u.version = row.version
    BY <1>1, <1>2, <2>1, <2>2, <2>3, WritableRow
  <2>5. PICK unit : unit = [u EXCEPT !.pc = "noting"]
    OBVIOUS
  <2>a. "noting" \in PCs
    BY DEF PCs
  <2>6. unit \in Units /\ unit.pc = "noting" /\ unit.job = job /\ unit.version = u.version
    BY <1>2, <2>2, <2>5, <2>a DEF Units
  <2>7. Set(w, unit)
    BY <1>1, <2>1, <2>5 DEF Goto
  <2>8. UnitFits(unit)
    BY <1>2, <2>2, <2>6 DEF UnitFits, Heading, Mutating
  <2>9. WorldSame /\ RestSame
    BY <1>3 DEF WorldSame, RestSame, environment
  <2>10. unit.version \in {row.version, row.version + 1} /\ unit.pc \notin {"saving", "awaiting", "intended"}
         /\ worker[w].pc # "awaiting"
    BY <1>1, <1>2, <2>4, <2>6
  <2> QED BY <2>4, <2>6, <2>7, <2>8, <2>9, <2>10, UnitWrites
<1>5. CASE ~Recordable(w)
  <2>1. row' = row /\ Leave(w, "stop")
    BY <1>5 DEF RecordFailure
  <2>2. PICK unit : Resting(unit) /\ Set(w, unit)
    BY <2>1, LeaveUnit
  <2>3. worker[w].pc # "awaiting"
    BY <1>1, <1>2
  <2> QED BY <1>3, <2>1, <2>2, <2>3, RestingStep
<1> QED BY <1>4, <1>5

LEMMA RecordingFailsKeeps ==
  ASSUME OutlookInv, NEW w \in Workers, RecordingFails(w)
  PROVE  OutlookInv'
<1>1. PICK unit : Resting(unit) /\ Set(w, unit)
  BY LeaveUnit DEF RecordingFails
<1>2. /\ worker[w].pc # "awaiting" /\ row' = row /\ aggregate' = aggregate /\ UNCHANGED environment
      /\ budget' \in Scenario
  BY BudgetType DEF RecordingFails
<1> QED BY <1>1, <1>2, RestingStep

LEMMA ReleaseKeeps ==
  ASSUME OutlookInv, NEW w \in Workers, Release(w)
  PROVE  OutlookInv'
<1>1. PICK unit : unit = IF worker[w].outcome = "continue" THEN Idle(worker[w].op) ELSE NoUnit
  OBVIOUS
<1>2. worker[w] \in Units /\ worker[w].op \in Operations /\ worker[w].version \in Nat
  BY InvUnit, UnitType
<1>3. Resting(unit) /\ Set(w, unit) /\ worker[w].pc # "awaiting"
  BY <1>1, <1>2, RestingUnits DEF Release
<1>4. UNCHANGED <<aggregate, budget, environment>>
  BY DEF Release
<1>5. RowKept /\ \A v \in Workers : Owns(row', v) => Owns(row, v)
  <2>1. CASE row.present /\ row.owner = w
    <3>1. row' = [row EXCEPT !.owner = NoOwner, !.live = FALSE] /\ row \in PresentRows(Owners, Jobs)
      BY <2>1, RowType DEF Release, Released, OutlookInv
    <3> QED BY <3>1 DEF RowKept, PresentRows, Rows, Owns
  <2>2. CASE ~(row.present /\ row.owner = w)
    BY <2>2 DEF Release, Released, RowKept, OutlookInv, TypeOK
  <2> QED BY <2>1, <2>2
<1>6. WorldKept(w)
  BY <1>3, <1>4, QuietWorld DEF environment
<1>7. RestKept
  BY <1>4 DEF RestKept, OutlookInv, TypeOK, Aggregates, EndsFit, environment
<1>8. UnitFits(unit) /\ EndTrue(unit) /\ CopyTrue(unit)
  BY <1>3, RestingUnit
<1>9. unit \in Units /\ unit.pc \notin {"intended", "awaiting"} /\ unit.version <= worker[w].version
      /\ (row.present => unit.version <= row.version)
  BY <1>2, <1>3, RowType DEF Resting, OutlookInv
<1> QED BY <1>3, <1>5, <1>6, <1>7, <1>8, <1>9, UnitStep

LEMMA CrashKeeps ==
  ASSUME OutlookInv, NEW w \in Workers, Crash(w)
  PROVE  OutlookInv'
<1>1. Resting(NoUnit) /\ Set(w, NoUnit) /\ Abandoned(w) /\ budget' \in Scenario
  BY RestingUnits, BudgetType DEF Crash
<1>2. UNCHANGED <<aggregate, mailbox, sent, connected, open, leaving>>
  BY DEF Crash
<1>3. WorldKept(w)
  BY <1>1, <1>2, AbandonedWorld
<1>4. RowKept /\ \A v \in Workers : Owns(row', v) => Owns(row, v)
  <2>1. CASE row.present /\ row.owner = w
    <3>1. row' = [row EXCEPT !.owner = Orphan] /\ row \in PresentRows(Owners, Jobs)
      BY <2>1, RowType DEF Crash, OutlookInv
    <3>2. Orphan \in Owners /\ Orphan \notin Workers
      BY OutlookCleanupAssumption DEF Owners
    <3> QED BY <3>1, <3>2 DEF RowKept, PresentRows, Rows, Owns
  <2>2. CASE ~(row.present /\ row.owner = w)
    BY <2>2 DEF Crash, RowKept, OutlookInv, TypeOK
  <2> QED BY <2>1, <2>2
<1>5. RestKept
  BY <1>1, <1>2 DEF RestKept, OutlookInv, TypeOK, Aggregates, EndsFit
<1>6. UnitFits(NoUnit) /\ EndTrue(NoUnit) /\ CopyTrue(NoUnit)
  BY <1>1, RestingUnit
<1>7. worker[w].version \in Nat /\ NoUnit.version = 0 /\ NoUnit.pc = "off" /\ NoUnit \in Units
  BY <1>1, InvUnit, UnitType DEF Resting, NoUnit
<1>8. NoUnit.version <= worker[w].version /\ (row.present => NoUnit.version <= row.version)
  BY <1>7, RowType DEF OutlookInv
<1>9. PICK unit : unit = NoUnit
  OBVIOUS
<1> QED BY <1>1, <1>3, <1>4, <1>5, <1>6, <1>7, <1>8, <1>9, UnitStep

-----------------------------------------------------------------------------
(* Preparation.                                                             *)

LEMMA ResolvingJob ==
  ASSUME NEW job \in Jobs, JobFits(job), job.status \in {"created", "resolving"}
  PROVE  LET resolving == [job EXCEPT !.status = "resolving"]
             looking == [resolving EXCEPT !.verifying = TRUE] IN
         /\ resolving \in Jobs /\ GoesOn(job, resolving) /\ resolving.status = "resolving"
         /\ looking \in Jobs /\ GoesOn(job, looking) /\ looking.status = "resolving"
         /\ ~Over(job)
<1>1. PICK resolving : resolving = [job EXCEPT !.status = "resolving"]
  OBVIOUS
<1>2. /\ resolving \in Jobs /\ resolving.status = "resolving" /\ resolving.deletion = job.deletion
      /\ resolving.moving = job.moving /\ resolving.restoring = job.restoring /\ resolving.target = job.target
  BY <1>1, SetStatus DEF JobStatuses
<1>3. PICK looking : looking = [resolving EXCEPT !.verifying = TRUE]
  OBVIOUS
<1>4. /\ looking \in Jobs /\ looking.status = "resolving" /\ looking.deletion = job.deletion
      /\ looking.moving = job.moving /\ looking.restoring = job.restoring /\ looking.target = job.target
  BY <1>2, <1>3 DEF Jobs
<1>5. job.status \in Forward /\ "resolving" \in Forward \cup {"failed"}
  BY DEF Forward
<1>6. GoesOn(job, resolving)
  BY <1>2, <1>5, SetStatusGoesOn
<1>7. GoesOn(job, looking)
  BY <1>4, <1>5, SetStatusGoesOn
<1>8. ~Over(job)
  BY DEF Over
<1> QED BY <1>1, <1>2, <1>3, <1>4, <1>6, <1>7, <1>8

LEMMA PrepareKeeps ==
  ASSUME OutlookInv, NEW w \in Workers, Prepare(w)
  PROVE  OutlookInv'
<1>1. PICK u : u = worker[w]
  OBVIOUS
<1>2. /\ u \in Units /\ UnitFits(u) /\ EndTrue(u) /\ u.pc = "working" /\ u.op = "prepare" /\ u.job \in Jobs
      /\ JobFits(u.job)
  BY <1>1, InvUnit, UnitType DEF Prepare, UnitFits
<1>3. row' = row /\ aggregate' = aggregate /\ UNCHANGED environment /\ budget' \in Scenario
  BY DEF Prepare, OutlookInv, TypeOK
<1>a. "done" \in PCs /\ "checking" \in PCs /\ "checked" \in PCs
  BY DEF PCs
<1>4. CASE u.job.status \notin {"created", "resolving"}
  <2>1. PICK outcome : outcome = PreparationOutcome(u.job)
    OBVIOUS
  <2>2. outcome \in {"stop", "continue"}
    BY <2>1 DEF PreparationOutcome
  <2>3. PICK unit : unit = [u EXCEPT !.pc = "done", !.outcome = outcome]
    OBVIOUS
  <2>4. unit \in Units /\ unit.pc = "done" /\ unit.job = u.job /\ unit.version = u.version
    BY <1>2, <1>a, <2>2, <2>3 DEF Units
  <2>5. Set(w, unit)
    BY <1>1, <1>4, <2>1, <2>3 DEF Prepare
  <2>6. UnitFits(unit) /\ EndTrue(unit)
    BY <1>2, <2>4 DEF UnitFits, EndTrue, Heading, Mutating
  <2>7. Extends(u.job, unit.job) /\ (Over(u.job) => Over(unit.job))
    BY <1>2, <2>4, ExtendsSame
  <2>8. u.pc # "awaiting" /\ unit.pc \notin {"saving", "intended", "awaiting"}
    BY <1>2, <2>4
  <2> QED BY <1>1, <1>3, <2>4, <2>5, <2>6, <2>7, <2>8, GoingStep
<1>5. CASE u.job.status \in {"created", "resolving"}
  <2>1. PICK resolving : resolving = [u.job EXCEPT !.status = "resolving"]
    OBVIOUS
  <2>2. PICK looking : looking = [resolving EXCEPT !.verifying = TRUE]
    OBVIOUS
  <2>j. PICK job : job = u.job
    OBVIOUS
  <2>3. /\ GoesOn(job, resolving) /\ resolving.status = "resolving"
        /\ GoesOn(job, looking) /\ looking.status = "resolving" /\ ~Over(job)
    BY <1>2, <1>5, <2>1, <2>2, <2>j, ResolvingJob
  <2>4. /\ resolving \in Jobs /\ JobFits(resolving) /\ Extends(u.job, resolving)
        /\ looking \in Jobs /\ JobFits(looking) /\ Extends(u.job, looking)
    BY <1>2, <2>3, <2>j, GoesOnExtends
  <2>5. CASE resolving.verifying
    <3>1. PICK unit : unit = [u EXCEPT !.job = resolving, !.pc = "checking"]
      OBVIOUS
    <3>2. /\ unit \in Units /\ unit.pc = "checking" /\ unit.job = resolving /\ unit.version = u.version
          /\ unit.op = "prepare"
      BY <1>2, <1>a, <2>4, <3>1 DEF Units
    <3>3. Set(w, unit)
      BY <1>1, <1>5, <2>1, <2>5, <3>1 DEF Prepare
    <3>a. unit.job.status = "resolving" /\ JobFits(unit.job) /\ Heading(unit) = "checking"
      BY <2>3, <2>4, <3>2 DEF Heading
    <3>b. UnitFits(unit)
      BY <3>2, <3>a DEF UnitFits, Mutating
    <3>4. UnitFits(unit) /\ EndTrue(unit)
      BY <3>2, <3>b DEF EndTrue
    <3>5. u.pc # "awaiting" /\ unit.pc \notin {"saving", "intended", "awaiting"}
          /\ (Over(u.job) => Over(unit.job))
      BY <1>2, <2>3, <2>j, <3>2
    <3> QED BY <1>1, <1>3, <2>4, <3>2, <3>3, <3>4, <3>5, GoingStep
  <2>6. CASE ~resolving.verifying
    <3>1. PICK unit : unit = Saved(u, looking, "checked")
      OBVIOUS
    <3>2. /\ unit \in Units /\ unit.pc = "saving" /\ unit.next = "checked" /\ unit.job = looking
          /\ unit.version = u.version /\ unit.op = "prepare" /\ Heading(unit) = "checked"
      <4>1. u \in Units /\ looking \in Jobs /\ "checked" \in PCs /\ u.op = "prepare"
        BY <1>2, <1>a, <2>4
      <4> QED BY <3>1, <4>1, SavedUnit
    <3>3. Set(w, unit)
      BY <1>1, <1>5, <2>1, <2>2, <2>6, <3>1 DEF Prepare, Save, Saved
    <3>4. UnitFits(unit)
      BY <2>3, <2>4, <3>2 DEF UnitFits, Mutating
    <3>5. u.pc # "awaiting" /\ ~Over(u.job)
      BY <1>2, <2>3, <2>j
    <3> QED BY <1>1, <1>3, <2>4, <3>2, <3>3, <3>4, <3>5, SavingStep
  <2> QED BY <2>5, <2>6
<1> QED BY <1>4, <1>5

LEMMA CheckCandidatesKeeps ==
  ASSUME OutlookInv, NEW w \in Workers, CheckCandidates(w)
  PROVE  OutlookInv'
<1>1. PICK u : u = worker[w]
  OBVIOUS
<1>2. /\ u \in Units /\ UnitFits(u) /\ u.pc \in {"checking", "checked"} /\ u.job \in Jobs /\ JobFits(u.job)
      /\ u.op = "prepare" /\ u.job.status = "resolving"
  BY <1>1, InvUnit, UnitType DEF CheckCandidates, UnitFits, Heading
<1>3. row' = row /\ aggregate' = aggregate /\ UNCHANGED environment /\ budget' \in Scenario
  BY DEF CheckCandidates, OutlookInv, TypeOK
<1>4. PICK eligible \in SUBSET NextChecked(u.job) : Save(w, Checked(u.job, eligible), "checked")
  BY <1>1 DEF CheckCandidates
<1>5. PICK job : job = Checked(u.job, eligible)
  OBVIOUS
<1>6. GoesOn(u.job, job) /\ job.status = "resolving"
  BY <1>2, <1>5, CheckedJob
<1>7. job \in Jobs /\ JobFits(job) /\ Extends(u.job, job)
  BY <1>2, <1>6, GoesOnExtends
<1>8. PICK unit : unit = Saved(u, job, "checked")
  OBVIOUS
<1>a. "checked" \in PCs
  BY DEF PCs
<1>9. /\ unit \in Units /\ unit.pc = "saving" /\ unit.next = "checked" /\ unit.job = job
      /\ unit.version = u.version /\ unit.op = "prepare" /\ Heading(unit) = "checked"
  BY <1>2, <1>7, <1>8, <1>a, SavedUnit
<1>10. Set(w, unit)
  BY <1>1, <1>4, <1>5, <1>8 DEF Save, Saved
<1>11. UnitFits(unit)
  BY <1>6, <1>7, <1>9 DEF UnitFits, Mutating
<1>12. u.pc # "awaiting" /\ ~Over(u.job)
  BY <1>2 DEF Over
<1> QED BY <1>1, <1>3, <1>7, <1>9, <1>10, <1>11, <1>12, SavingStep

LEMMA EndPreparationKeeps ==
  ASSUME OutlookInv, NEW w \in Workers, EndPreparation(w)
  PROVE  OutlookInv'
<1>1. PICK u : u = worker[w]
  OBVIOUS
<1>2. /\ u \in Units /\ UnitFits(u) /\ u.pc \in {"checking", "checked"} /\ u.job \in Jobs /\ JobFits(u.job)
      /\ u.job.status = "resolving"
  BY <1>1, InvUnit, UnitType DEF EndPreparation, UnitFits, Heading
<1>3. row' = row /\ aggregate' = aggregate /\ UNCHANGED environment /\ budget' \in Scenario
  BY DEF EndPreparation, OutlookInv, TypeOK
<1>4. PICK job : job = VerificationEnded(u.job)
  OBVIOUS
<1>5. PICK outcome : outcome = PreparationOutcome(job)
  OBVIOUS
<1>6. End(w, job, outcome) /\ outcome \in {"stop", "continue"}
  BY <1>1, <1>4, <1>5 DEF EndPreparation, PreparationOutcome
<1>7. GoesOn(u.job, job)
  BY <1>2, <1>4, VerificationEndedJob
<1>8. job \in Jobs /\ JobFits(job) /\ Extends(u.job, job)
  BY <1>2, <1>7, GoesOnExtends
<1>9. u.pc # "awaiting" /\ ~Over(u.job)
  BY <1>2 DEF Over
<1> QED BY <1>1, <1>3, <1>6, <1>8, <1>9, EndingStep

-----------------------------------------------------------------------------
(* The batches of a unit.                                                   *)

LEMMA SafeJob ==
  ASSUME NEW job \in Jobs, JobFits(job), NEW op \in Mutations
  PROVE  LET new == [job EXCEPT !.safe = TRUE] IN
         /\ new \in Jobs /\ JobFits(new) /\ new.target = job.target /\ new.status = job.status
         /\ new.stopped = job.stopped /\ new.moving = job.moving
         /\ (Interrupted(new, op) <=> Interrupted(job, op))
         /\ In(new, {"frozen"}) = In(job, {"frozen"})
<1>1. PICK new : new = [job EXCEPT !.safe = TRUE]
  OBVIOUS
<1>2. /\ new \in Jobs /\ new.target = job.target /\ new.status = job.status /\ new.stopped = job.stopped
      /\ new.moving = job.moving /\ new.restoring = job.restoring /\ new.deletion = job.deletion
  BY <1>1 DEF Jobs
<1>3. JobFits(new)
  BY <1>2 DEF JobFits, In
<1>4. (Interrupted(new, op) <=> Interrupted(job, op)) /\ In(new, {"frozen"}) = In(job, {"frozen"})
  BY <1>2 DEF Interrupted, In
<1> QED BY <1>1, <1>2, <1>3, <1>4

\* A unit whose job has the status of its operation is not over.
LEMMA PhaseNotOver ==
  ASSUME NEW job, NEW op, job.status = Phase(op)
  PROVE  ~Over(job)
BY DEF Over, Phase

\* A unit that may go on to its batches.
LEMMA BatchingFits ==
  ASSUME NEW unit \in Units, Heading(unit) \in {"batching", "verifying"}, JobFits(unit.job),
         unit.pc \in {"saving", "batching", "verifying"}, unit.op \in Mutations,
         unit.job.status = Phase(unit.op), unit.op = "cleanup" => ~unit.job.stopped,
         ~Interrupted(unit.job, unit.op),
         unit.op = "cleanup" /\ unit.access = "recovery" =>
           unit.job.moving # {} \/ In(unit.job, {"frozen"}) = {}
  PROVE  UnitFits(unit)
<1>1. unit.pc = "saving" => unit.next \in {"batching", "verifying"}
  BY DEF Heading
<1> QED BY <1>1 DEF UnitFits, Mutating

LEMMA EnterKeeps ==
  ASSUME OutlookInv, NEW w \in Workers, Enter(w)
  PROVE  OutlookInv'
<1>1. PICK u : u = worker[w]
  OBVIOUS
<1>j. PICK job : job = u.job
  OBVIOUS
<1>2. /\ u \in Units /\ UnitFits(u) /\ u.pc = "working" /\ u.op \in Mutations /\ job \in Jobs /\ JobFits(job)
      /\ u.op = "cleanup" /\ u.access = "recovery" => job.moving # {} \/ In(job, {"frozen"}) = {}
  BY <1>1, <1>j, InvUnit, UnitType DEF Enter, UnitFits, Heading
<1>3. row' = row /\ aggregate' = aggregate /\ UNCHANGED environment /\ budget' \in Scenario
  BY DEF Enter, OutlookInv, TypeOK
<1>4. u.pc # "awaiting" /\ "done" \in PCs /\ "batching" \in PCs
  BY <1>2 DEF PCs
<1>5. CASE job.status # Phase(u.op)
  <2>1. Goto(w, "done")
    BY <1>1, <1>j, <1>5 DEF Enter, Phase
  <2>2. UnitFits([u EXCEPT !.pc = "done"])
    BY <1>2, GotoFits
  <2> QED BY <1>1, <1>2, <1>3, <1>4, <2>1, <2>2, GotoKeeps
<1>6. CASE /\ job.status = Phase(u.op)
           /\ (u.op = "cleanup" /\ (job.stopped \/ Uncertain(job) # {})) \/ Interrupted(job, u.op)
  <2>1. Stop(w, job)
    BY <1>1, <1>j, <1>6 DEF Enter, Phase
  <2>2. Extends(u.job, job) /\ ~Over(u.job)
    BY <1>2, <1>j, <1>6, ExtendsSame, PhaseNotOver
  <2> QED BY <1>1, <1>2, <1>3, <1>4, <2>1, <2>2, StoppingStep
<1>7. CASE /\ job.status = Phase(u.op) /\ ~Interrupted(job, u.op)
           /\ ~(u.op = "cleanup" /\ (job.stopped \/ Uncertain(job) # {}))
  <2>1. CASE u.op = "cleanup" /\ ~job.safe
    <3>1. PICK new : new = [job EXCEPT !.safe = TRUE]
      OBVIOUS
    <3>2. /\ new \in Jobs /\ JobFits(new) /\ new.target = job.target /\ new.status = job.status
          /\ new.stopped = job.stopped /\ new.moving = job.moving /\ ~Interrupted(new, u.op)
          /\ In(new, {"frozen"}) = In(job, {"frozen"})
      BY <1>2, <1>7, <3>1, SafeJob
    <3>3. PICK unit : unit = Saved(u, new, "batching")
      OBVIOUS
    <3>4. /\ unit \in Units /\ unit.pc = "saving" /\ unit.next = "batching" /\ unit.job = new
          /\ unit.version = u.version /\ unit.op = u.op /\ unit.access = u.access /\ Heading(unit) = "batching"
      BY <1>2, <1>4, <3>2, <3>3, SavedUnit
    <3>5. Set(w, unit)
      BY <1>1, <1>j, <1>7, <2>1, <3>1, <3>3 DEF Enter, Save, Saved, Phase
    <3>6. UnitFits(unit)
      BY <1>2, <1>7, <2>1, <3>2, <3>4, BatchingFits
    <3>7. Extends(u.job, unit.job) /\ ~Over(u.job)
      BY <1>2, <1>j, <1>7, <3>2, <3>4, ExtendsSame, PhaseNotOver
    <3> QED BY <1>1, <1>3, <1>4, <3>4, <3>5, <3>6, <3>7, SavingStep
  <2>2. CASE ~(u.op = "cleanup" /\ ~job.safe)
    <3>1. Goto(w, "batching")
      BY <1>1, <1>j, <1>7, <2>2 DEF Enter, Phase
    <3>2. PICK unit : unit = [u EXCEPT !.pc = "batching"]
      OBVIOUS
    <3>3. /\ unit \in Units /\ unit.pc = "batching" /\ unit.job = job /\ unit.op = u.op
          /\ unit.access = u.access /\ Heading(unit) = "batching"
      BY <1>2, <1>4, <1>j, <3>2 DEF Units, Heading
    <3>4. UnitFits(unit)
      BY <1>2, <1>7, <3>3, BatchingFits
    <3> QED BY <1>1, <1>2, <1>3, <1>4, <3>1, <3>2, <3>4, GotoKeeps
  <2> QED BY <2>1, <2>2
<1> QED BY <1>5, <1>6, <1>7

LEMMA ResumeKeeps ==
  ASSUME OutlookInv, NEW w \in Workers, Resume(w)
  PROVE  OutlookInv'
<1>1. PICK u : u = worker[w]
  OBVIOUS
<1>2. u \in Units /\ UnitFits(u) /\ u.pc = "batching" /\ Heading(u) = "batching"
  BY <1>1, InvUnit DEF Resume, Heading
<1>3. "verifying" \in PCs /\ u.pc # "awaiting"
  BY <1>2 DEF PCs
<1>4. PICK unit : unit = [u EXCEPT !.pc = "verifying"]
  OBVIOUS
<1>5. /\ unit \in Units /\ unit.pc = "verifying" /\ unit.job = u.job /\ unit.op = u.op
      /\ unit.access = u.access /\ Heading(unit) = "verifying"
  BY <1>2, <1>3, <1>4 DEF Units, Heading
<1>6. UnitFits(unit)
  BY <1>2, <1>5 DEF UnitFits, Mutating
<1>7. row' = row /\ aggregate' = aggregate /\ UNCHANGED environment /\ budget' \in Scenario /\ Goto(w, "verifying")
  BY DEF Resume, OutlookInv, TypeOK
<1> QED BY <1>1, <1>2, <1>3, <1>4, <1>6, <1>7, GotoKeeps

LEMMA FreshUnit ==
  ASSUME OutlookInv, NEW w \in Workers, Fresh(w), NEW u, u = worker[w]
  PROVE  /\ u \in Units /\ UnitFits(u) /\ u.pc = "batching" /\ u.job \in Jobs /\ JobFits(u.job)
         /\ u.op \in Mutations /\ u.job.status = Phase(u.op) /\ ~Over(u.job)
         /\ u.op = "cleanup" => u.job.moving = {} /\ ~u.job.stopped
         /\ u.op = "undo" => u.job.restoring = {}
         /\ u.op = "cleanup" /\ u.access = "recovery" => In(u.job, {"frozen"}) = {}
<1>1. u \in Units /\ UnitFits(u) /\ u.pc = "batching" /\ u.job \in Jobs /\ JobFits(u.job)
  BY InvUnit, UnitType DEF Fresh, UnitFits
<1>2. Heading(u) = "batching"
  BY <1>1 DEF Heading
<1>3. u.op \in Mutations /\ u.job.status = Phase(u.op) /\ (u.op = "cleanup" => ~u.job.stopped)
  BY <1>1, <1>2 DEF UnitFits, Mutating
<1>4. (u.op = "cleanup" => u.job.moving = {}) /\ (u.op = "undo" => u.job.restoring = {})
  BY DEF Fresh, Active
<1>5. u.op = "cleanup" /\ u.access = "recovery" => In(u.job, {"frozen"}) = {}
  BY <1>1, <1>2, <1>4 DEF UnitFits
<1>6. ~Over(u.job)
  BY <1>3, PhaseNotOver
<1> QED BY <1>1, <1>3, <1>4, <1>5, <1>6

LEMMA FinishKeeps ==
  ASSUME OutlookInv, NEW w \in Workers, Finish(w)
  PROVE  OutlookInv'
<1>1. PICK u : u = worker[w]
  OBVIOUS
<1>j. PICK job : job = u.job
  OBVIOUS
<1>2. /\ u \in Units /\ u.pc = "batching" /\ job \in Jobs /\ JobFits(job)
      /\ u.op \in Mutations /\ job.status = Phase(u.op) /\ ~Over(job)
      /\ u.op = "cleanup" => job.moving = {}
      /\ u.op = "undo" => job.restoring = {}
  BY <1>1, <1>j, FreshUnit DEF Finish
<1>3. PICK ended : ended = EndOf(job, u.op)
  OBVIOUS
<1>4. GoesOn(job, ended)
  <2>1. CASE u.op = "cleanup"
    BY <1>2, <1>3, <2>1, CleanedUpJob DEF EndOf, Phase
  <2>2. CASE u.op = "undo"
    BY <1>2, <1>3, <2>2, UndoFinishedJob DEF EndOf, Phase
  <2> QED BY <1>2, <2>1, <2>2 DEF Mutations
<1>5. ended \in Jobs /\ JobFits(ended) /\ Extends(job, ended)
  BY <1>2, <1>4, GoesOnExtends
<1>6. /\ row' = row /\ aggregate' = aggregate /\ UNCHANGED environment /\ budget' \in Scenario
      /\ End(w, ended, "stop")
  BY <1>1, <1>j, <1>3 DEF Finish, OutlookInv, TypeOK
<1> QED BY <1>1, <1>j, <1>2, <1>5, <1>6, EndingStep

LEMMA IntendKeeps ==
  ASSUME OutlookInv, NEW w \in Workers, Intend(w)
  PROVE  OutlookInv'
<1>1. PICK u : u = worker[w]
  OBVIOUS
<1>2. /\ u \in Units /\ u.pc = "batching" /\ u.job \in Jobs /\ u.op \in Mutations
      /\ u.job.status = Phase(u.op) /\ ~Over(u.job) /\ Fresh(w)
  BY <1>1, FreshUnit DEF Intend
<1>3. PICK batch : batch = NextBatch(u.job, u.op) /\ batch # {}
  BY <1>1 DEF Intend
<1>4. PICK approved :
        /\ approved \subseteq batch /\ (u.op = "undo" => approved = batch)
        /\ Save(w, Intended(u.job, u.op, batch, approved), IF approved = {} THEN "verifying" ELSE "intended")
  BY <1>1, <1>2, <1>3 DEF Intend, Mutations
<1>5. PICK job : job = Intended(u.job, u.op, batch, approved)
  OBVIOUS
<1>6. /\ GoesOn(u.job, job) /\ job.status = u.job.status /\ In(job, {Dispatching[u.op]}) = approved
      /\ u.op = "cleanup" => ~job.stopped /\ u.access = "forward"
      /\ u.op = "undo" => approved # {}
      /\ JobTrue(u.job) => \A t \in approved : sent[u.op][t] = 0
  <2>1. PICK old : old = u.job
    OBVIOUS
  <2>2. /\ u \in Units /\ old \in Jobs /\ JobFits(old) /\ u.op \in Mutations /\ old.status = Phase(u.op)
        /\ u.op = "cleanup" => old.moving = {} /\ ~old.stopped
        /\ u.op = "undo" => old.restoring = {}
        /\ u.op = "cleanup" /\ u.access = "recovery" => In(old, {"frozen"}) = {}
    BY <1>1, <1>2, <2>1, FreshUnit
  <2>3. CASE u.op = "cleanup"
    <3>1. old.status = "running" /\ old.moving = {} /\ approved \in SUBSET NextBatch(old, "cleanup")
      BY <1>3, <1>4, <2>1, <2>2, <2>3 DEF Phase
    <3>2. job = Intended(old, "cleanup", NextBatch(old, "cleanup"), approved)
      BY <1>3, <1>5, <2>1, <2>3
    <3>3. GoesOn(old, job) /\ job.status = "running" /\ job.stopped = old.stopped
          /\ In(job, {"move_dispatching"}) = approved
      BY <2>2, <3>1, <3>2, IntendedCleanup
    <3>4. In(job, {Dispatching[u.op]}) = approved
      BY <2>3, <3>3, NamesRight DEF Names
    <3>5. \A t \in NextBatch(old, "cleanup") : t \in Candidates /\ old.target[t] = "frozen"
      BY <2>2, NextBatchType
    <3>6. u.access = "forward"
      <4>1. NextBatch(old, "cleanup") # {}
        BY <1>3, <2>1, <2>3
      <4>2. In(old, {"frozen"}) # {}
        BY <3>5, <4>1 DEF In
      <4> QED BY <2>2, <2>3, <4>2, UnitType
    <3>7. JobTrue(old) => \A t \in approved : sent["cleanup"][t] = 0
      BY <3>1, <3>5 DEF JobTrue, TargetTrue, Untouched
    <3> QED BY <2>1, <2>2, <2>3, <3>1, <3>3, <3>4, <3>6, <3>7
  <2>4. CASE u.op = "undo"
    <3>1. old.status = "undoing" /\ old.restoring = {} /\ approved = NextBatch(old, "undo") /\ approved # {}
      BY <1>3, <1>4, <2>1, <2>2, <2>4 DEF Phase
    <3>2. job = Intended(old, "undo", NextBatch(old, "undo"), NextBatch(old, "undo"))
      BY <1>3, <1>5, <2>1, <2>4, <3>1
    <3>3. GoesOn(old, job) /\ job.status = "undoing" /\ In(job, {"restore_dispatching"}) = approved
      BY <2>2, <3>1, <3>2, IntendedUndo
    <3>4. In(job, {Dispatching[u.op]}) = approved
      BY <2>4, <3>3, NamesRight DEF Names
    <3>5. \A t \in NextBatch(old, "undo") : t \in Candidates /\ old.target[t] = "moved_verified"
      BY <2>2, NextBatchType
    <3>7. JobTrue(old) => \A t \in approved : sent["undo"][t] = 0
      BY <3>1, <3>5 DEF JobTrue, TargetTrue, RestoreStates
    <3> QED BY <2>1, <2>2, <2>4, <3>1, <3>3, <3>4, <3>7
  <2> QED BY <2>2, <2>3, <2>4 DEF Mutations
<1>7. job \in Jobs /\ JobFits(job) /\ Extends(u.job, job)
  BY <1>2, <1>6, GoesOnExtends
<1>8. PICK next : next = IF approved = {} THEN "verifying" ELSE "intended"
  OBVIOUS
<1>9. next \in {"verifying", "intended"} /\ next \in PCs
  BY <1>8 DEF PCs
<1>10. PICK unit : unit = Saved(u, job, next)
  OBVIOUS
<1>11. /\ unit \in Units /\ unit.pc = "saving" /\ unit.next = next /\ unit.job = job
       /\ unit.version = u.version /\ unit.op = u.op /\ unit.access = u.access /\ Heading(unit) = next
  BY <1>2, <1>7, <1>9, <1>10, SavedUnit
<1>12. Set(w, unit)
  BY <1>1, <1>4, <1>5, <1>8, <1>10 DEF Save, Saved
<1>13. UnitFits(unit)
  <2>1. CASE next = "verifying"
    <3>1. approved = {} /\ ~Interrupted(job, u.op)
      BY <1>6, <1>8, <2>1 DEF Interrupted
    <3> QED BY <1>2, <1>6, <1>7, <1>11, <2>1, <3>1 DEF UnitFits, Mutating
  <2>2. CASE next = "intended"
    BY <1>2, <1>6, <1>7, <1>11, <2>2 DEF UnitFits, Mutating
  <2> QED BY <1>9, <2>1, <2>2
<1>14. Asking(unit) = approved
  BY <1>6, <1>11 DEF Asking
<1>15. row' = row /\ aggregate' = aggregate /\ UNCHANGED environment /\ budget' \in Scenario
  BY DEF Intend, OutlookInv, TypeOK
<1>16. u.pc # "awaiting" /\ (JobTrue(u.job) => \A t \in Asking(unit) : sent[unit.op][t] = 0)
  BY <1>2, <1>6, <1>11, <1>14
<1> QED BY <1>1, <1>2, <1>7, <1>11, <1>12, <1>13, <1>15, <1>16, SavingStep

LEMMA RecheckFailsKeeps ==
  ASSUME OutlookInv, NEW w \in Workers, RecheckFails(w)
  PROVE  OutlookInv'
<1>1. PICK u : u = worker[w]
  OBVIOUS
<1>j. PICK job : job = u.job
  OBVIOUS
<1>2. /\ u \in Units /\ u.pc = "batching" /\ job \in Jobs /\ JobFits(job) /\ u.op = "cleanup"
      /\ job.status = "running" /\ ~Over(job)
  BY <1>1, <1>j, FreshUnit DEF RecheckFails, Phase
<1>3. PICK marked : marked = Mark(job, NextBatch(job, "cleanup"), "recheck_uncertain")
  OBVIOUS
<1>4. GoesOn(job, marked)
  BY <1>2, <1>3, RecheckedJob
<1>5. marked \in Jobs /\ JobFits(marked) /\ Extends(job, marked)
  BY <1>2, <1>4, GoesOnExtends
<1>6. Stop(w, marked)
  BY <1>1, <1>j, <1>3 DEF RecheckFails
<1>7. row' = row /\ aggregate' = aggregate /\ UNCHANGED environment /\ budget' \in Scenario /\ u.pc # "awaiting"
  BY <1>2, BudgetType DEF RecheckFails
<1> QED BY <1>1, <1>j, <1>2, <1>5, <1>6, <1>7, StoppingStep

LEMMA GiveUpKeeps ==
  ASSUME OutlookInv, NEW w \in Workers, GiveUp(w)
  PROVE  OutlookInv'
<1>1. PICK u : u = worker[w]
  OBVIOUS
<1>j. PICK job : job = u.job
  OBVIOUS
<1>2. /\ u \in Units /\ UnitFits(u) /\ CopyTrue(u) /\ u.pc \in {"intended", "awaiting"} /\ job \in Jobs
      /\ JobFits(job) /\ u.version \in Nat
  BY <1>1, <1>j, InvUnit, UnitType DEF GiveUp, UnitFits
<1>3. u.op \in Mutations /\ job.status = Phase(u.op)
  BY <1>2, <1>j DEF UnitFits, Heading, Mutating
<1>4. ~Over(job)
  BY <1>3, PhaseNotOver
<1>5. PICK unanswered : unanswered = Unanswered(job, u.op)
  OBVIOUS
<1>6. unanswered \in Jobs /\ JobFits(unanswered) /\ Extends(job, unanswered)
  <2>1. GoesOn(job, unanswered)
    BY <1>2, <1>3, <1>5, UnansweredJob
  <2> QED BY <1>2, <2>1, GoesOnExtends
<1>7. PICK stopped : stopped = StoppedUncertain(unanswered)
  OBVIOUS
<1>8. stopped \in Jobs /\ JobFits(stopped) /\ Extends(unanswered, stopped)
  BY <1>6, <1>7, StoppedUncertainJob, StoppedExtends
<1>9. Extends(job, stopped)
  BY <1>2, <1>6, <1>8, ExtendsTransitive
<1>10. PICK unit : unit = [u EXCEPT !.job = stopped, !.pc = "saving", !.next = "done", !.outcome = "stop"]
  OBVIOUS
<1>a. "saving" \in PCs /\ "done" \in PCs
  BY DEF PCs
<1>11. /\ unit \in Units /\ unit.job = stopped /\ unit.pc = "saving" /\ unit.next = "done"
       /\ unit.version = u.version
  BY <1>2, <1>8, <1>10, <1>a DEF Units
<1>12. Set(w, unit) /\ Abandoned(w)
  BY <1>1, <1>j, <1>5, <1>7, <1>10 DEF GiveUp, Stop, End
<1>13. UnitFits(unit) /\ EndTrue(unit)
  BY <1>8, <1>11 DEF UnitFits, EndTrue, Heading, Mutating
<1>14. CopyTrue(unit)
  BY <1>j, <1>2, <1>4, <1>9, <1>11, CopySaved
<1>15. UNCHANGED <<row, aggregate, mailbox, sent, connected, open, leaving>> /\ budget' \in Scenario
  BY BudgetType DEF GiveUp, OutlookInv, TypeOK
<1>16. WorldKept(w)
  BY <1>12, <1>15, AbandonedWorld
<1>17. RowKept /\ \A v \in Workers : Owns(row', v) => Owns(row, v)
  BY <1>15 DEF RowKept, OutlookInv, TypeOK
<1>18. RestKept
  BY <1>15 DEF RestKept, OutlookInv, TypeOK, Aggregates, EndsFit
<1>19. unit.pc \notin {"intended", "awaiting"} /\ unit.version <= worker[w].version
       /\ (row.present => unit.version <= row.version)
  BY <1>1, <1>2, <1>11, InvUnit
<1> QED BY <1>11, <1>12, <1>13, <1>14, <1>16, <1>17, <1>18, <1>19, UnitStep

LEMMA LocateKeeps ==
  ASSUME OutlookInv, NEW w \in Workers, Locate(w)
  PROVE  OutlookInv'
<1>1. PICK u : u = worker[w]
  OBVIOUS
<1>j. PICK job : job = u.job
  OBVIOUS
<1>2. /\ u \in Units /\ UnitFits(u) /\ u.pc = "verifying" /\ job \in Jobs /\ JobFits(job)
      /\ Heading(u) = "verifying"
  BY <1>1, <1>j, InvUnit, UnitType DEF Locate, UnitFits, Heading
<1>3. /\ u.op \in Mutations /\ job.status = Phase(u.op) /\ ~Interrupted(job, u.op)
      /\ u.op = "cleanup" => ~job.stopped
  BY <1>2, <1>j DEF UnitFits, Mutating
<1>4. ~Over(job)
  BY <1>3, PhaseNotOver
<1>5. PICK found \in SUBSET Verifiable(job, u.op) :
        LET located == Located(job, u.op, found)
            next == BatchDone(located, u.op)
        IN  /\ UNCHANGED budget \/ Fails("answer")
            /\ IF InDoubt(located, u.op) THEN Stop(w, located)
               ELSE IF Continues(next, u.op) THEN End(w, next, "continue")
               ELSE Save(w, next, "batching")
  BY <1>1, <1>j DEF Locate
<1>6. PICK located : located = Located(job, u.op, found)
  OBVIOUS
<1>7. PICK next : next = BatchDone(located, u.op)
  OBVIOUS
<1>8. /\ GoesOn(job, located) /\ GoesOn(job, next) /\ next.status = job.status
      /\ next.stopped = job.stopped /\ ~Interrupted(next, u.op)
      /\ u.op = "cleanup" /\ ~Continues(next, u.op) => In(next, {"frozen"}) = {}
  BY <1>2, <1>3, <1>6, <1>7, LocatedJob
<1>9. /\ located \in Jobs /\ JobFits(located) /\ Extends(job, located)
      /\ next \in Jobs /\ JobFits(next) /\ Extends(job, next)
  BY <1>2, <1>8, GoesOnExtends
<1>10. /\ row' = row /\ aggregate' = aggregate /\ UNCHANGED environment /\ budget' \in Scenario
       /\ u.pc # "awaiting" /\ ~Over(u.job)
  BY <1>j, <1>2, <1>4, <1>5, BudgetType DEF Locate, OutlookInv, TypeOK
<1>11. CASE InDoubt(located, u.op)
  <2>1. Stop(w, located)
    BY <1>5, <1>6, <1>11
  <2> QED BY <1>1, <1>j, <1>9, <1>10, <2>1, StoppingStep
<1>12. CASE ~InDoubt(located, u.op) /\ Continues(next, u.op)
  <2>1. End(w, next, "continue")
    BY <1>5, <1>6, <1>7, <1>12
  <2> QED BY <1>1, <1>j, <1>9, <1>10, <2>1, EndingStep
<1>13. CASE ~InDoubt(located, u.op) /\ ~Continues(next, u.op)
  <2>1. Save(w, next, "batching")
    BY <1>5, <1>6, <1>7, <1>13
  <2>2. PICK unit : unit = Saved(u, next, "batching")
    OBVIOUS
  <2>a. "batching" \in PCs
    BY DEF PCs
  <2>3. /\ unit \in Units /\ unit.pc = "saving" /\ unit.next = "batching" /\ unit.job = next
        /\ unit.version = u.version /\ unit.op = u.op /\ unit.access = u.access /\ Heading(unit) = "batching"
    BY <1>2, <1>9, <2>2, <2>a, SavedUnit
  <2>4. Set(w, unit)
    BY <1>1, <2>1, <2>2 DEF Save, Saved
  <2>5. UnitFits(unit)
    BY <1>3, <1>8, <1>9, <1>13, <2>3, BatchingFits
  <2>6. Extends(u.job, unit.job)
    BY <1>j, <1>9, <2>3
  <2> QED BY <1>1, <1>10, <2>3, <2>4, <2>5, <2>6, SavingStep
<1> QED BY <1>11, <1>12, <1>13

-----------------------------------------------------------------------------
(* Users, clocks and retention.                                             *)

LEMMA StartableKeeps ==
  ASSUME OutlookInv, NEW op \in Operations, Startable(op), budget' \in Scenario
  PROVE  OutlookInv'
<1>1. PICK w \in Workers : worker[w].pc = "off" /\ Set(w, Idle(op))
  BY DEF Startable
<1>2. Resting(Idle(op))
  BY RestingUnits
<1>3. row' = row /\ aggregate' = aggregate /\ UNCHANGED environment /\ worker[w].pc # "awaiting"
  BY <1>1 DEF Startable
<1> QED BY <1>1, <1>2, <1>3, RestingStep

LEMMA StartKeeps ==
  ASSUME OutlookInv, NEW op \in Operations, Start(op)
  PROVE  OutlookInv'
<1>1. budget \in Scenario /\ budget.starts > 0 /\ budget' = [budget EXCEPT !.starts = budget.starts - 1]
  BY DEF Start, OutlookInv, TypeOK
<1>2. budget.starts - 1 \in Nat
  BY <1>1 DEF Scenario
<1>3. budget' \in Scenario
  BY <1>1, <1>2 DEF Scenario
<1> QED BY <1>3, StartableKeeps DEF Start

LEMMA RedispatchKeeps ==
  ASSUME OutlookInv, NEW op \in Operations, Redispatch(op)
  PROVE  OutlookInv'
<1>1. budget' \in Scenario
  BY DEF Redispatch, OutlookInv, TypeOK
<1> QED BY <1>1, StartableKeeps DEF Redispatch

\* A job that no unit sends for has no sender.
LEMMA NoSender ==
  ASSUME OutlookInv, row.present, row.job.status \notin {"running", "undoing"}
  PROVE  \A v \in Workers : ~(worker[v].pc = "intended" /\ Owns(row, v))
<1> SUFFICES ASSUME NEW v \in Workers, worker[v].pc = "intended", Owns(row, v)
             PROVE  FALSE
  OBVIOUS
<1>1. Current(worker[v]) /\ CopyTrue(worker[v]) /\ UnitFits(worker[v])
  BY InvUnit DEF SenderIsAlone
<1>2. worker[v].job = row.job
  BY <1>1 DEF CopyTrue
<1>3. worker[v].job.status \in {"running", "undoing"}
  BY <1>1 DEF UnitFits, Heading, Mutating, Phase
<1> QED BY <1>2, <1>3

LEMMA UserStep ==
  ASSUME OutlookInv, row.present, row.job.status \notin {"running", "undoing"}, ~Over(row.job),
         NEW job, job \in Jobs, JobFits(job), Extends(row.job, job), row' = Replaced(row, job),
         UNCHANGED <<aggregate, worker, budget, environment>>
  PROVE  OutlookInv'
<1>1. Rewritten(job)
  BY DEF Rewritten, Extends, OutlookInv, RowFits
<1>2. WorldSame /\ RestSame /\ worker' = worker
  BY DEF WorldSame, RestSame, environment, OutlookInv, TypeOK
<1> QED BY <1>1, <1>2, NoSender, UserWrites

LEMMA ConfirmKeeps ==
  ASSUME OutlookInv, Confirm
  PROVE  OutlookInv'
<1>1. PICK old : old = row.job
  OBVIOUS
<1>2. row.present /\ old \in Jobs /\ JobFits(old) /\ old.status = "ready"
  BY <1>1, RowType DEF Confirm, Authorized, Visible, OutlookInv, RowFits
<1>3. PICK job : job = Confirmed(old)
  OBVIOUS
<1>4. GoesOn(old, job)
  BY <1>2, <1>3, ConfirmedJob
<1>5. job \in Jobs /\ JobFits(job) /\ Extends(old, job)
  BY <1>2, <1>4, GoesOnExtends
<1>6. row' = Replaced(row, job) /\ UNCHANGED <<aggregate, worker, budget, environment>>
  BY <1>1, <1>3 DEF Confirm
<1>7. ~Over(old)
  BY <1>2 DEF Over
<1> QED BY <1>1, <1>2, <1>5, <1>6, <1>7, UserStep

LEMMA UndoKeeps ==
  ASSUME OutlookInv, Undo
  PROVE  OutlookInv'
<1>1. PICK old : old = row.job
  OBVIOUS
<1>2. row.present /\ old \in Jobs /\ JobFits(old) /\ MayUndo(old)
  BY <1>1, RowType DEF Undo, Authorized, Visible, OutlookInv, RowFits
<1>3. PICK job : job = Undoing(old)
  OBVIOUS
<1>4. GoesOn(old, job) /\ ~Over(old) /\ old.status \in {"complete", "partial", "uncertain", "failed"}
  BY <1>2, <1>3, UndoingJob
<1>5. job \in Jobs /\ JobFits(job) /\ Extends(old, job)
  BY <1>2, <1>4, GoesOnExtends
<1>6. row' = Replaced(row, job) /\ UNCHANGED <<aggregate, worker, budget, environment>>
  BY <1>1, <1>3 DEF Undo
<1> QED BY <1>1, <1>2, <1>4, <1>5, <1>6, UserStep

\* A job that is discarded has asked for nothing.
LEMMA DiscardKeeps ==
  ASSUME OutlookInv, Discard
  PROVE  OutlookInv'
<1>1. row.present /\ row.job \in Jobs /\ JobTrue(row.job) /\ PreMutation(row.job)
  BY RowType DEF Discard, Authorized, Visible, OutlookInv, RowFits
<1>2. ASSUME NEW t \in Candidates
      PROVE  sent["cleanup"][t] = 0 /\ sent["undo"][t] = 0
  <2>1. row.job.target[t] \in TargetStates
    BY <1>1, <1>2, JobType
  <2>2. row.job.target[t] \in Untouched
    BY <1>1, <1>2, <2>1 DEF PreMutation, In, Untouched
  <2>3. sent["cleanup"][t] = 0
    BY <1>1, <1>2, <2>2 DEF JobTrue, TargetTrue
  <2>4. sent["undo"][t] <= sent["cleanup"][t]
    BY <1>2 DEF OutlookInv, Asked
  <2>5. sent["undo"][t] \in Nat
    BY <1>2 DEF OutlookInv, TypeOK, Mutations
  <2> QED BY <2>3, <2>4, <2>5
<1>3. \A op \in Mutations, t \in Candidates : sent[op][t] = 0
  BY <1>2 DEF Mutations
<1>4. row' = Absent /\ ~row'.present /\ row' \in Rows(Owners, Jobs)
  BY DEF Discard, Absent, Rows
<1>5. /\ aggregate' \in Aggregates /\ aggregate'.terminal # "undo_complete"
      /\ UNCHANGED <<worker, mailbox, inflight, sent, connected, open, budget>>
  BY DEF Discard, Aggregates
<1>6. StillStep
  BY <1>3, <1>4, <1>5 DEF StillStep, Discard, OutlookInv, TypeOK, Owns, Visible
<1> QED BY <1>6, StillStepKeeps

LEMMA DisconnectConnectionKeeps ==
  ASSUME OutlookInv, DisconnectConnection
  PROVE  OutlookInv'
<1>1. StillStep
  BY DEF DisconnectConnection, StillStep, OutlookInv, TypeOK, Aggregates, EndsFit
<1> QED BY <1>1, StillStepKeeps

LEMMA DisconnectAggregateKeeps ==
  ASSUME OutlookInv, DisconnectAggregate
  PROVE  OutlookInv'
<1>1. aggregate \in Aggregates
  BY DEF OutlookInv, TypeOK, Aggregates
<1>2. aggregate' \in Aggregates /\ aggregate'.terminal = aggregate.terminal
  BY <1>1 DEF DisconnectAggregate, Aggregates
<1>3. StillStep
  BY <1>2 DEF DisconnectAggregate, StillStep, OutlookInv, TypeOK, EndsFit
<1> QED BY <1>3, StillStepKeeps

LEMMA DisconnectStateKeeps ==
  ASSUME OutlookInv, DisconnectState
  PROVE  OutlookInv'
<1>1. row' = Absent /\ ~row'.present /\ row' \in Rows(Owners, Jobs)
  BY DEF DisconnectState, Absent, Rows
<1>2. \A v \in Workers : ~Owns(row', v)
  BY <1>1 DEF Owns, Visible
<1>3. /\ UNCHANGED <<aggregate, worker, mailbox, inflight, sent, connected, open, budget>>
      /\ leaving' = "gone"
  BY DEF DisconnectState
<1>4. aggregate \in Aggregates /\ (aggregate.terminal = "undo_complete" => Settled)
  BY DEF OutlookInv, TypeOK, Aggregates, EndsFit
<1>5. StillStep
  BY <1>1, <1>2, <1>3, <1>4 DEF StillStep, OutlookInv, TypeOK
<1> QED BY <1>5, StillStepKeeps

LEMMA RollbackKeeps ==
  ASSUME OutlookInv, Rollback
  PROVE  OutlookInv'
<1>1. StillStep
  BY DEF Rollback, StillStep, OutlookInv, TypeOK, Aggregates, EndsFit
<1> QED BY <1>1, StillStepKeeps

\* The row's lease or its expiry changes, and nobody gains the row by it.
LEMMA RowAges ==
  ASSUME OutlookInv, row.present, row' \in PresentRows(Owners, Jobs), row'.job = row.job,
         row'.version = row.version, \A v \in Workers : Owns(row', v) => Owns(row, v),
         budget' \in Scenario, UNCHANGED <<aggregate, worker, environment>>
  PROVE  OutlookInv'
<1>1. row' \in Rows(Owners, Jobs)
  BY DEF Rows
<1>2. StillStep
  BY <1>1 DEF StillStep, environment, OutlookInv, TypeOK, Aggregates, EndsFit
<1> QED BY <1>2, StillStepKeeps

LEMMA LapsedRow ==
  ASSUME OutlookInv, row.present, row' = [row EXCEPT !.live = FALSE]
  PROVE  /\ row' \in PresentRows(Owners, Jobs) /\ row'.job = row.job /\ row'.version = row.version
         /\ \A v \in Workers : Owns(row', v) => Owns(row, v)
<1>1. row \in PresentRows(Owners, Jobs)
  BY RowType DEF OutlookInv
<1>2. /\ row' \in PresentRows(Owners, Jobs) /\ row'.job = row.job /\ row'.version = row.version
      /\ row'.live = FALSE
  BY <1>1 DEF PresentRows
<1> QED BY <1>2 DEF Owns

LEMMA LeaseLapsesKeeps ==
  ASSUME OutlookInv, LeaseLapses
  PROVE  OutlookInv'
<1>1. budget \in Scenario /\ budget.lapses > 0 /\ budget' = [budget EXCEPT !.lapses = budget.lapses - 1]
  BY DEF LeaseLapses, OutlookInv, TypeOK
<1>2. budget.lapses - 1 \in Nat
  BY <1>1 DEF Scenario
<1>3. budget' \in Scenario
  BY <1>1, <1>2 DEF Scenario
<1>4. row.present /\ row' = [row EXCEPT !.live = FALSE] /\ UNCHANGED <<aggregate, worker, environment>>
  BY DEF LeaseLapses
<1> QED BY <1>3, <1>4, LapsedRow, RowAges

LEMMA OrphanLapsesKeeps ==
  ASSUME OutlookInv, OrphanLapses
  PROVE  OutlookInv'
<1>1. row.present /\ row' = [row EXCEPT !.live = FALSE] /\ UNCHANGED <<aggregate, worker, environment>>
      /\ budget' \in Scenario
  BY DEF OrphanLapses, OutlookInv, TypeOK
<1> QED BY <1>1, LapsedRow, RowAges

LEMMA StateExpiresKeeps ==
  ASSUME OutlookInv, StateExpires
  PROVE  OutlookInv'
<1>1. /\ row.present /\ row' = [row EXCEPT !.expired = TRUE] /\ UNCHANGED <<aggregate, worker, environment>>
      /\ budget' \in Scenario
  BY DEF StateExpires, Visible, OutlookInv, TypeOK
<1>2. row \in PresentRows(Owners, Jobs)
  BY <1>1, RowType DEF OutlookInv
<1>3. /\ row' \in PresentRows(Owners, Jobs) /\ row'.job = row.job /\ row'.version = row.version
      /\ row'.expired = TRUE
  BY <1>1, <1>2 DEF PresentRows
<1>4. \A v \in Workers : Owns(row', v) => Owns(row, v)
  BY <1>3 DEF Owns, Visible
<1> QED BY <1>1, <1>3, <1>4, RowAges

-----------------------------------------------------------------------------
(* The invariant.                                                           *)

LEMMA InitInv ==
  ASSUME Init
  PROVE  OutlookInv
<1>1. /\ row.present /\ row.version = 1 /\ row.owner = NoOwner /\ row.live = FALSE /\ row.job = AcceptedJob
      /\ row \in Rows(Owners, Jobs)
  BY AcceptedFits DEF Init, Created, Rows, PresentRows
<1>2. /\ inflight = {} /\ leaving = "no" /\ aggregate.terminal = "none"
      /\ \A w \in Workers : worker[w] = NoUnit
      /\ \A t \in Candidates : mailbox[t] = "original" /\ sent["cleanup"][t] = 0 /\ sent["undo"][t] = 0
  BY DEF Init, Mutations
<1>3. TypeOK
  <2>1. worker \in [Workers -> Units]
    BY RestingUnits DEF Init, Resting
  <2>2. budget \in Scenario
    BY OutlookCleanupAssumption DEF Init
  <2> QED BY <1>1, <2>1, <2>2 DEF Init, TypeOK, Mutations
<1>4. \A t \in Candidates : Asked(t)
  BY <1>2 DEF Asked
<1>5. RequestsMatch
  BY <1>2 DEF RequestsMatch
<1>6. JobTrue(AcceptedJob)
  <2>1. \A t \in Candidates : AcceptedJob.target[t] = "candidate" /\ ~InFlight(t)
    BY <1>2 DEF AcceptedJob, InFlight
  <2> QED BY <1>2, <2>1 DEF JobTrue, TargetTrue, OpenStates, RestoreStates
<1>7. NoUnit.version = 0 /\ NoUnit.pc = "off"
  BY DEF NoUnit
<1>8. RowFits
  BY <1>1, <1>2, <1>6, <1>7, AcceptedFits DEF RowFits
<1>9. UnitsFit
  <2>1. UnitFits(NoUnit)
    BY RestingUnits, AcceptedFits DEF Resting, UnitFits, Heading, Mutating
  <2>2. EndTrue(NoUnit) /\ CopyTrue(NoUnit)
    BY <1>1, <1>7 DEF EndTrue, CopyTrue, Current
  <2>3. \A w \in Workers : SenderIsAlone(w)
    BY <1>2, <1>7 DEF SenderIsAlone
  <2> QED BY <1>2, <2>1, <2>2, <2>3 DEF UnitsFit
<1>10. EndsFit
  BY <1>2 DEF EndsFit
<1> QED BY <1>3, <1>4, <1>5, <1>8, <1>9, <1>10 DEF OutlookInv

LEMMA UnitKeeps ==
  ASSUME OutlookInv, NEW w \in Workers, Unit(w)
  PROVE  OutlookInv'
<1>1. CASE Claim(w)
  BY <1>1, ClaimKeeps
<1>2. CASE Authorize(w)
  BY <1>2, AuthorizeKeeps
<1>3. CASE Connect(w)
  BY <1>3, ConnectKeeps
<1>4. CASE FailJob(w)
  BY <1>4, FailJobKeeps
<1>5. CASE SaveCommits(w)
  BY <1>5, SaveCommitsKeeps
<1>6. CASE SaveRefused(w)
  BY <1>6, SaveRefusedKeeps
<1>7. CASE Report(w)
  BY <1>7, ReportKeeps
<1>8. CASE Catch(w)
  BY <1>8, CatchKeeps
<1>9. CASE RecordFailure(w)
  BY <1>9, RecordFailureKeeps
<1>10. CASE Release(w)
  BY <1>10, ReleaseKeeps
<1>11. CASE Prepare(w)
  BY <1>11, PrepareKeeps
<1>12. CASE CheckCandidates(w)
  BY <1>12, CheckCandidatesKeeps
<1>13. CASE EndPreparation(w)
  BY <1>13, EndPreparationKeeps
<1>14. CASE Enter(w)
  BY <1>14, EnterKeeps
<1>15. CASE Resume(w)
  BY <1>15, ResumeKeeps
<1>16. CASE Finish(w)
  BY <1>16, FinishKeeps
<1>17. CASE Intend(w)
  BY <1>17, IntendKeeps
<1>18. CASE Send(w)
  BY <1>18, SendKeeps
<1>19. CASE Answer(w)
  BY <1>19, AnswerKeeps
<1>20. CASE GiveUp(w)
  BY <1>20, GiveUpKeeps
<1>21. CASE Locate(w)
  BY <1>21, LocateKeeps
<1> QED BY <1>1, <1>2, <1>3, <1>4, <1>5, <1>6, <1>7, <1>8, <1>9, <1>10, <1>11, <1>12, <1>13, <1>14,
           <1>15, <1>16, <1>17, <1>18, <1>19, <1>20, <1>21 DEF Unit

LEMMA FaultKeeps ==
  ASSUME OutlookInv, NEW w \in Workers, Fault(w)
  PROVE  OutlookInv'
<1>1. CASE SaveResponseLost(w)
  BY <1>1, SaveResponseLostKeeps
<1>2. CASE Throw(w)
  BY <1>2, ThrowKeeps
<1>3. CASE RereadFails(w)
  BY <1>3, RereadFailsKeeps
<1>4. CASE RecordingFails(w)
  BY <1>4, RecordingFailsKeeps
<1>5. CASE Crash(w)
  BY <1>5, CrashKeeps
<1>6. CASE RecheckFails(w)
  BY <1>6, RecheckFailsKeeps
<1> QED BY <1>1, <1>2, <1>3, <1>4, <1>5, <1>6 DEF Fault

LEMMA NextKeeps ==
  ASSUME OutlookInv, Next
  PROVE  OutlookInv'
<1>1. CASE \E w \in Workers : Unit(w) \/ Fault(w)
  BY <1>1, UnitKeeps, FaultKeeps
<1>2. CASE \E r \in inflight : LandLate(r)
  BY <1>2, LandLateKeeps
<1>3. CASE \E op \in Operations : Start(op) \/ Redispatch(op)
  BY <1>3, StartKeeps, RedispatchKeeps
<1>4. CASE Confirm
  BY <1>4, ConfirmKeeps
<1>5. CASE Undo
  BY <1>5, UndoKeeps
<1>6. CASE Discard
  BY <1>6, DiscardKeeps
<1>7. CASE DisconnectConnection
  BY <1>7, DisconnectConnectionKeeps
<1>8. CASE DisconnectAggregate
  BY <1>8, DisconnectAggregateKeeps
<1>9. CASE DisconnectState
  BY <1>9, DisconnectStateKeeps
<1>10. CASE Rollback
  BY <1>10, RollbackKeeps
<1>11. CASE LeaseLapses
  BY <1>11, LeaseLapsesKeeps
<1>12. CASE OrphanLapses
  BY <1>12, OrphanLapsesKeeps
<1>13. CASE StateExpires
  BY <1>13, StateExpiresKeeps
<1> QED BY <1>1, <1>2, <1>3, <1>4, <1>5, <1>6, <1>7, <1>8, <1>9, <1>10, <1>11, <1>12, <1>13 DEF Next

LEMMA StutterKeeps ==
  ASSUME OutlookInv, UNCHANGED vars
  PROVE  OutlookInv'
<1>1. StillStep
  BY DEF vars, StillStep, OutlookInv, TypeOK, Aggregates, EndsFit
<1> QED BY <1>1, StillStepKeeps

LEMMA StepKeeps ==
  ASSUME OutlookInv, [Next]_vars
  PROVE  OutlookInv'
BY NextKeeps, StutterKeeps

-----------------------------------------------------------------------------
(* What the invariant says of the run's properties.                         *)

LEMMA InvOnce ==
  ASSUME OutlookInv
  PROVE  AtMostOnce
<1>1. ASSUME NEW t \in Candidates
      PROVE  sent["cleanup"][t] <= 1 /\ sent["undo"][t] <= sent["cleanup"][t]
  BY <1>1 DEF OutlookInv, Asked
<1>2. ASSUME NEW t \in Candidates, sent["undo"][t] = 1, row.present
      PROVE  row.job.target[t] \in RestoreStates
  <2>1. TargetTrue(row.job, t)
    BY <1>2 DEF OutlookInv, RowFits, JobTrue
  <2> QED BY <1>2, <2>1 DEF TargetTrue
<1> QED BY <1>1, <1>2 DEF AtMostOnce, RestoreStates

LEMMA InvLedger ==
  ASSUME OutlookInv
  PROVE  LedgerIsTrue
<1> SUFFICES ASSUME row.present, NEW t \in Candidates, NEW state, state = row.job.target[t]
             PROVE  /\ state \in {"moved_verified", "restore_failed"} => mailbox[t] = "deleted"
                    /\ state = "restored_verified" => mailbox[t] = "restored"
                    /\ state = "move_failed" => mailbox[t] = "original"
                    /\ state \in Untouched => mailbox[t] = "original" /\ sent["cleanup"][t] = 0
  BY DEF LedgerIsTrue, Untouched
<1>1. TargetTrue(row.job, t) /\ Asked(t)
  BY DEF OutlookInv, RowFits, JobTrue
<1> QED BY <1>1 DEF TargetTrue, Asked

LEMMA InvOutcome ==
  ASSUME OutlookInv
  PROVE  OutcomeIsTrue
<1>1. ASSUME row.present, row.job.status = "complete", NEW t \in Approved(row.job)
      PROVE  mailbox[t] = "deleted" \/ sent["cleanup"][t] = 0
  <2>1. /\ t \in Candidates /\ row.job.target[t] \in CleanedUp
        /\ row.job.target[t] \notin {"candidate", "dropped"} /\ TargetTrue(row.job, t)
    BY <1>1 DEF OutlookInv, RowFits, JobFits, JobTrue, Approved, In
  <2> QED BY <2>1 DEF TargetTrue, CleanedUp, Untouched
<1>2. row.present /\ row.job.status = "undo_complete" => Settled
  BY RestoreSettles, RowType DEF OutlookInv, RowFits
<1>3. aggregate.terminal = "undo_complete" => Settled
  BY DEF OutlookInv, EndsFit
<1>4. Settled => \A t \in Candidates : mailbox[t] # "deleted" /\ \A r \in inflight : t \notin r.targets
  BY DEF Settled, InFlight
<1> QED BY <1>1, <1>2, <1>3, <1>4 DEF OutcomeIsTrue

LEMMA InvDiscard ==
  ASSUME OutlookInv
  PROVE  DiscardExcludesMoves
BY DEF OutlookInv, EndsFit, DiscardExcludesMoves

\* Only a unit whose intent the row has, and which was admitted to go forward, asks for a move.
Gated ==
  sent'["cleanup"] # sent["cleanup"] =>
    /\ ~(row.present /\ row.job.stopped)
    /\ \E w \in Workers : worker[w].pc = "intended" /\ worker[w].access = "forward"

LEMMA OnlySendAsks ==
  ASSUME Next, sent' # sent
  PROVE  \E w \in Workers : Send(w)
<1>1. ASSUME NEW w \in Workers, Unit(w)
      PROVE  Send(w)
  <2>1. ~(Claim(w) \/ Authorize(w) \/ Connect(w) \/ FailJob(w) \/ SaveCommits(w) \/ SaveRefused(w))
    BY DEF Claim, Authorize, Connect, FailJob, SaveCommits, SaveRefused, environment
  <2>2. ~(Report(w) \/ Catch(w) \/ RecordFailure(w) \/ Release(w))
    BY DEF Report, Catch, RecordFailure, Release, environment
  <2>3. ~(Prepare(w) \/ CheckCandidates(w) \/ EndPreparation(w))
    BY DEF Prepare, CheckCandidates, EndPreparation, environment
  <2>4. ~(Enter(w) \/ Resume(w) \/ Finish(w) \/ Intend(w))
    BY DEF Enter, Resume, Finish, Intend, environment
  <2>5. ~(Answer(w) \/ GiveUp(w) \/ Locate(w))
    BY DEF Answer, GiveUp, Locate, environment
  <2> QED BY <1>1, <2>1, <2>2, <2>3, <2>4, <2>5 DEF Unit
<1>2. ASSUME NEW w \in Workers, Fault(w)
      PROVE  FALSE
  BY <1>2 DEF Fault, SaveResponseLost, Throw, RereadFails, RecordingFails, Crash, RecheckFails, environment
<1>3. ASSUME NEW r \in inflight, LandLate(r)
      PROVE  FALSE
  BY <1>3 DEF LandLate
<1>4. ASSUME NEW op \in Operations, Start(op) \/ Redispatch(op)
      PROVE  FALSE
  BY <1>4 DEF Start, Redispatch, Startable, environment
<1>5. ~(Confirm \/ Undo \/ Discard \/ DisconnectConnection \/ DisconnectAggregate \/ DisconnectState)
  BY DEF Confirm, Undo, Discard, DisconnectConnection, DisconnectAggregate, DisconnectState, environment
<1>6. ~(Rollback \/ LeaseLapses \/ OrphanLapses \/ StateExpires)
  BY DEF Rollback, LeaseLapses, OrphanLapses, StateExpires, environment
<1> QED BY <1>1, <1>2, <1>3, <1>4, <1>5, <1>6 DEF Next

LEMMA StepIsGated ==
  ASSUME OutlookInv, [Next]_vars
  PROVE  [Gated]_vars
<1> SUFFICES ASSUME sent'["cleanup"] # sent["cleanup"]
             PROVE  /\ ~(row.present /\ row.job.stopped)
                    /\ \E w \in Workers : worker[w].pc = "intended" /\ worker[w].access = "forward"
  BY DEF Gated
<1>1. Next
  BY DEF vars
<1>2. PICK w \in Workers : Send(w)
  BY <1>1, OnlySendAsks
<1>3. worker[w].op = "cleanup"
  <2>1. PICK op : op = worker[w].op
    OBVIOUS
  <2>2. op \in Mutations /\ \A o \in Mutations \ {op} : sent'[o] = sent[o]
    BY <1>2, <2>1, SentBatch
  <2> QED BY <2>1, <2>2 DEF Mutations
<1> QED BY <1>2, <1>3, SenderFacts

-----------------------------------------------------------------------------
(* What a write of the row may do.                                          *)

LEMMA SameJobStands ==
  ASSUME OutlookInv, row.present, row'.job = row.job
  PROVE  NeverBack(row.job, row'.job)
<1>1. row.job \in Jobs
  BY RowType DEF OutlookInv
<1>2. \A t \in Candidates : Rank(row.job.target[t]) \in Nat
  BY <1>1, JobType, RankType
<1> QED BY <1>2 DEF NeverBack

LEMMA WriteStands ==
  ASSUME OutlookInv, row.present, NEW job, NeverBack(row.job, job), row' = Replaced(row, job)
  PROVE  NeverBack(row.job, row'.job)
<1>1. row'.job = job
  BY RowType DEF Replaced, PresentRows, OutlookInv
<1> QED BY <1>1

LEMMA UnitStands ==
  ASSUME OutlookInv, NEW w \in Workers, Unit(w), row.present, row'.present
  PROVE  NeverBack(row.job, row'.job)
<1>1. row \in PresentRows(Owners, Jobs)
  BY RowType DEF OutlookInv
<1>2. Writable(w) => NeverBack(row.job, worker[w].job)
  BY InvUnit DEF CopyTrue, Current, Writable, CanReplace, Visible
<1>3. CASE Claim(w)
  <2>1. row'.job = row.job
    BY <1>1, <1>3 DEF Claim, Claimed, PresentRows
  <2> QED BY <2>1, SameJobStands
<1>4. CASE FailJob(w)
  <2>1. PICK u : u = worker[w]
    OBVIOUS
  <2>2. PICK job : job = ConnectionFailed(u.job)
    OBVIOUS
  <2>3. u \in Units /\ u.job \in Jobs /\ JobFits(u.job)
    BY <2>1, InvUnit, UnitType DEF UnitFits
  <2>4. job \in Jobs /\ Extends(u.job, job)
    BY <2>2, <2>3, ConnectionFailedJob, StoppedExtends
  <2>5. CASE Writable(w)
    <3>1. NeverBack(row.job, u.job) /\ row.job \in Jobs
      BY <1>1, <1>2, <2>1, <2>5 DEF PresentRows
    <3>2. NeverBack(row.job, job)
      BY <2>3, <2>4, <3>1, NeverBackTransitive DEF Extends
    <3>3. row' = Replaced(row, job)
      BY <1>4, <2>1, <2>2, <2>5 DEF FailJob
    <3> QED BY <3>2, <3>3, WriteStands
  <2>6. CASE ~Writable(w)
    BY <1>4, <2>6, SameJobStands DEF FailJob
  <2> QED BY <2>5, <2>6
<1>5. CASE SaveCommits(w)
  BY <1>2, <1>5, WriteStands DEF SaveCommits
<1>6. CASE RecordFailure(w)
  <2>1. CASE Writable(w)
    BY <1>2, <1>6, <2>1, WriteStands DEF RecordFailure, Recordable
  <2>2. CASE ~Writable(w)
    BY <1>6, <2>2, SameJobStands DEF RecordFailure, Recordable
  <2> QED BY <2>1, <2>2
<1>7. CASE Release(w)
  <2>1. row'.job = row.job
    BY <1>1, <1>7 DEF Release, Released, PresentRows
  <2> QED BY <2>1, SameJobStands
<1>8. CASE Authorize(w) \/ Connect(w) \/ SaveRefused(w) \/ Report(w) \/ Catch(w)
  BY <1>8, SameJobStands DEF Authorize, Connect, SaveRefused, Report, Catch
<1>9. CASE Prepare(w) \/ CheckCandidates(w) \/ EndPreparation(w)
  BY <1>9, SameJobStands DEF Prepare, CheckCandidates, EndPreparation
<1>10. CASE Enter(w) \/ Resume(w) \/ Finish(w) \/ Intend(w)
  BY <1>10, SameJobStands DEF Enter, Resume, Finish, Intend
<1>11. CASE Send(w) \/ Answer(w) \/ GiveUp(w) \/ Locate(w)
  BY <1>11, SameJobStands DEF Send, Answer, GiveUp, Locate
<1> QED BY <1>3, <1>4, <1>5, <1>6, <1>7, <1>8, <1>9, <1>10, <1>11 DEF Unit

LEMMA FaultStands ==
  ASSUME OutlookInv, NEW w \in Workers, Fault(w), row.present, row'.present
  PROVE  NeverBack(row.job, row'.job)
<1>1. CASE SaveResponseLost(w)
  <2>1. Writable(w) /\ row' = Replaced(row, worker[w].job)
    BY <1>1 DEF SaveResponseLost
  <2>2. NeverBack(row.job, worker[w].job)
    BY <2>1, InvUnit DEF CopyTrue, Current, Writable, CanReplace, Visible
  <2> QED BY <2>1, <2>2, WriteStands
<1>2. CASE Crash(w)
  <2>1. row'.job = row.job
    BY <1>2, RowType DEF Crash, PresentRows, OutlookInv
  <2> QED BY <2>1, SameJobStands
<1>3. CASE Throw(w) \/ RereadFails(w) \/ RecordingFails(w) \/ RecheckFails(w)
  BY <1>3, SameJobStands DEF Throw, RereadFails, RecordingFails, RecheckFails
<1> QED BY <1>1, <1>2, <1>3 DEF Fault

LEMMA UserStands ==
  ASSUME OutlookInv, Confirm \/ Undo, row.present
  PROVE  NeverBack(row.job, row'.job)
<1>1. PICK old : old = row.job
  OBVIOUS
<1>2. old \in Jobs /\ JobFits(old)
  BY <1>1, RowType DEF OutlookInv, RowFits
<1>3. CASE Confirm
  <2>1. PICK job : job = Confirmed(old)
    OBVIOUS
  <2>2. GoesOn(old, job) /\ row' = Replaced(row, job)
    BY <1>1, <1>2, <1>3, <2>1, ConfirmedJob DEF Confirm
  <2>3. NeverBack(old, job)
    BY <1>2, <2>2, GoesOnExtends DEF Extends
  <2> QED BY <1>1, <2>2, <2>3, WriteStands
<1>4. CASE Undo
  <2>1. PICK job : job = Undoing(old)
    OBVIOUS
  <2>2. GoesOn(old, job) /\ row' = Replaced(row, job)
    BY <1>1, <1>2, <1>4, <2>1, UndoingJob DEF Undo
  <2>3. NeverBack(old, job)
    BY <1>2, <2>2, GoesOnExtends DEF Extends
  <2> QED BY <1>1, <2>2, <2>3, WriteStands
<1> QED BY <1>3, <1>4

\* Every target stands, or goes on.
LedgerStands == row.present /\ row'.present => NeverBack(row.job, row'.job)

LEMMA StepStands ==
  ASSUME OutlookInv, [Next]_vars
  PROVE  [LedgerStands]_vars
<1> SUFFICES ASSUME Next, row.present, row'.present
             PROVE  NeverBack(row.job, row'.job)
  BY DEF LedgerStands
<1>1. CASE \E w \in Workers : Unit(w) \/ Fault(w)
  BY <1>1, UnitStands, FaultStands
<1>2. CASE Confirm \/ Undo
  BY <1>2, UserStands
<1>3. CASE \/ \E r \in inflight : LandLate(r)
           \/ \E op \in Operations : Start(op) \/ Redispatch(op)
  BY <1>3, SameJobStands DEF LandLate, Start, Redispatch, Startable
<1>4. CASE Discard \/ DisconnectState
  BY <1>4 DEF Discard, DisconnectState, Absent
<1>5. CASE DisconnectConnection \/ DisconnectAggregate \/ Rollback
  BY <1>5, SameJobStands DEF DisconnectConnection, DisconnectAggregate, Rollback
<1>6. CASE LeaseLapses \/ OrphanLapses \/ StateExpires
  <2>1. row'.job = row.job
    BY <1>6, RowType DEF LeaseLapses, OrphanLapses, StateExpires, PresentRows, OutlookInv
  <2> QED BY <2>1, SameJobStands
<1> QED BY <1>1, <1>2, <1>3, <1>4, <1>5, <1>6 DEF Next

-----------------------------------------------------------------------------

\* The record of an Outlook cleanup is sound for any pool, any number of runs
\* and whatever happens around the job: the row and every copy that may still
\* replace it say of the messages what is so, a unit about to send has the
\* only such copy, and each request on its way is one batch's, sent once.
THEOREM JobCorrect == Spec => []OutlookInv
BY InitInv, StepKeeps, PTL DEF Spec

\* Every message is asked to move at most once and to come back at most once,
\* and only what the row records as being restored is asked to come back,
\* whatever dies, lapses or is started again: the intent is saved under the
\* version before the request is sent under the lease.
THEOREM MovesOnce == Spec => []AtMostOnce
BY InvOnce, JobCorrect, PTL

\* The row never says of a message what the mailbox contradicts, although
\* several units may hold copies of it and requests may land after they were
\* given up.
THEOREM LedgerTrue == Spec => []LedgerIsTrue
BY InvLedger, JobCorrect, PTL

\* A job that says its cleanup is complete has every approved message out of
\* its folder, and a job or an aggregate that says the restore is complete has
\* none in Deleted Items, nor one that a late request may still put there.
THEOREM OutcomeTrue == Spec => []OutcomeIsTrue
BY InvOutcome, JobCorrect, PTL

\* A discarded job never asked for a move and never will: the discard looks
\* at the ledger in the transaction that takes the row away.
THEOREM DiscardSafe == Spec => []DiscardExcludesMoves
BY InvDiscard, JobCorrect, PTL

\* No move is asked for once the row says that forward cleanup stopped, nor by
\* a unit that was admitted only to verify or to restore.
THEOREM MovesGated == Spec => ForwardIsGated
<1>1. Spec => [][Gated]_vars
  BY StepIsGated, JobCorrect, PTL DEF Spec
<1> QED BY <1>1 DEF ForwardIsGated, Gated

\* No write of the row, of a unit or of a user, takes a target back to a
\* state before the one that the row has.
THEOREM LedgerAdvances == Spec => LedgerNeverRegresses
<1>1. Spec => [][LedgerStands]_vars
  BY StepStands, JobCorrect, PTL DEF Spec
<1> QED BY <1>1 DEF LedgerNeverRegresses, LedgerStands, NeverBack
=============================================================================
