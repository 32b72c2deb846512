---------------------------- MODULE DeletionProofs ----------------------------
(***************************************************************************)
(* Proofs about PermanentDelete: whatever restores and deletions of one job *)
(* do at the same time, a message is asked for once and never both ways,    *)
(* and the deletion's ledger says of no message what is not so.             *)
(***************************************************************************)
EXTENDS DeletionLedger, OutlookProofs

-----------------------------------------------------------------------------
(* The job under a restore.                                                 *)

LEMMA FinishedStatus == Terminal \cup {"undoing"} \subseteq JobStatuses
BY DEF Terminal, JobStatuses

\* What a restore unit may make of a job: it leaves the deletion alone, takes
\* no message the deletion has, and forgets none it asked for.
Onward(old, new) ==
  /\ new \in Jobs /\ JobSplit(new) /\ new.deletion = old.deletion
  /\ \A t \in Candidates : old.target[t] \in RestoreStates => new.target[t] \in RestoreStates

Taken(old, new, t) ==
  \/ new.target[t] = old.target[t]
  \/ /\ new.target[t] # "moved_verified" /\ (old.target[t] = "moved_verified" => ~Blocked(old, t))
     /\ old.target[t] \in RestoreStates => new.target[t] \in RestoreStates

LEMMA OnwardJob ==
  ASSUME NEW old \in Jobs, NEW new \in Jobs, JobSplit(old), new.deletion = old.deletion,
         new.status \in Terminal \cup {"undoing"},
         \A t \in Candidates : Taken(old, new, t),
         new.status = "undo_complete" => \A t \in Candidates : new.target[t] # "moved_verified"
  PROVE  Onward(old, new)
<1>1. \A t \in Candidates : Blocked(new, t) <=> Blocked(old, t)
  BY DEF Blocked
<1>2. ASSUME NEW t \in Candidates, Blocked(new, t), new.deletion.target[t] # "none"
      PROVE  new.target[t] = "moved_verified"
  BY <1>1, <1>2 DEF Taken, JobSplit
<1>3. ASSUME NEW t \in Candidates, old.target[t] \in RestoreStates
      PROVE  new.target[t] \in RestoreStates
  BY <1>3 DEF Taken
<1>4. JobSplit(new)
  BY <1>2 DEF JobSplit
<1> QED BY <1>3, <1>4 DEF Onward

LEMMA OnwardSame ==
  ASSUME NEW job \in Jobs, JobSplit(job)
  PROVE  Onward(job, job)
BY DEF Onward

LEMMA OnwardTransitive ==
  ASSUME NEW a, NEW b, NEW c, Onward(a, b), Onward(b, c)
  PROVE  Onward(a, c)
BY DEF Onward

\* Onward keeps what a job knows of the requests.
LEMMA OnwardKnows ==
  ASSUME NEW old, NEW new, Onward(old, new), JobKnows(old)
  PROVE  JobKnows(new)
BY DEF Onward, JobKnows, Knows

LEMMA PendingOnward ==
  ASSUME NEW job \in Jobs, JobSplit(job), NEW new \in Jobs, new.deletion = job.deletion,
         new.target = PendingUncertain(job).target, new.status \in {"uncertain", "failed", "partial", "undoing"}
  PROVE  Onward(job, new) /\ ~Interrupted(new, "undo")
<1>1. ASSUME NEW t \in Candidates
      PROVE  Taken(job, new, t) /\ new.target[t] # "restore_dispatching"
  <2>1. job.target[t] \in TargetStates
    BY <1>1, JobType
  <2>2. new.target[t] =
           IF job.target[t] \in {"move_dispatching", "move_dispatched"} THEN "move_uncertain"
           ELSE IF job.target[t] \in {"restore_dispatching", "restore_dispatched"} THEN "restore_uncertain"
           ELSE job.target[t]
    BY <1>1, PendingJob
  <2> QED BY <1>1, <2>1, <2>2 DEF Taken, RestoreStates
<1>2. new.status \in Terminal \cup {"undoing"} /\ new.status # "undo_complete"
  BY DEF Terminal
<1>3. Onward(job, new)
  BY <1>1, <1>2, OnwardJob
<1>4. ~Interrupted(new, "undo")
  BY <1>1, NamesRight DEF Interrupted, In, Names
<1> QED BY <1>3, <1>4

LEMMA StoppedOnward ==
  ASSUME NEW job \in Jobs, JobSplit(job)
  PROVE  Onward(job, StoppedUncertain(job)) /\ StoppedUncertain(job).status = "uncertain"
<1>1. PICK marked : marked = PendingUncertain(job)
  OBVIOUS
<1>2. marked \in Jobs /\ marked.deletion = job.deletion
  BY <1>1, PendingJob
<1>3. PICK new : new = Refreshed([marked EXCEPT !.status = "uncertain"])
  OBVIOUS
<1>4. new \in Jobs /\ new.status = "uncertain" /\ new.deletion = marked.deletion /\ new.target = marked.target
  BY <1>2, <1>3, EndedJob DEF JobStatuses
<1>5. StoppedUncertain(job) = new
  BY <1>1, <1>3 DEF StoppedUncertain
<1> QED BY <1>1, <1>2, <1>4, <1>5, PendingOnward

LEMMA FailedOnward ==
  ASSUME NEW job \in Jobs, JobSplit(job)
  PROVE  Onward(job, UnitFailed(job))
<1>1. PICK marked : marked = PendingUncertain(job)
  OBVIOUS
<1>2. marked \in Jobs /\ marked.deletion = job.deletion
  BY <1>1, PendingJob
<1>3. PICK status : status = IF UncertainTargets(marked) # {} THEN "uncertain" ELSE "failed"
  OBVIOUS
<1>4. status \in {"uncertain", "failed"} /\ status \in JobStatuses
  BY <1>3 DEF JobStatuses
<1>5. PICK new : new = Refreshed([marked EXCEPT !.status = status])
  OBVIOUS
<1>6. new \in Jobs /\ new.status = status /\ new.deletion = marked.deletion /\ new.target = marked.target
  BY <1>2, <1>4, <1>5, EndedJob
<1>7. UnitFailed(job) = new
  BY <1>1, <1>3, <1>5 DEF UnitFailed
<1> QED BY <1>1, <1>2, <1>4, <1>6, <1>7, PendingOnward

LEMMA DisconnectedOnward ==
  ASSUME NEW job \in Jobs, JobSplit(job)
  PROVE  Onward(job, ConnectionFailed(job))
<1>1. PICK marked : marked = PendingUncertain(job)
  OBVIOUS
<1>2. marked \in Jobs /\ marked.deletion = job.deletion
  BY <1>1, PendingJob
<1>3. PICK failed : failed = Refreshed([marked EXCEPT !.status = "failed"])
  OBVIOUS
<1>4. failed \in Jobs /\ failed.status = "failed" /\ failed.deletion = marked.deletion /\ failed.target = marked.target
  BY <1>2, <1>3, EndedJob DEF JobStatuses
<1>5. PICK doubted : doubted = [failed EXCEPT !.status = "uncertain"]
  OBVIOUS
<1>6. /\ doubted \in Jobs /\ doubted.status = "uncertain" /\ doubted.deletion = failed.deletion
      /\ doubted.target = failed.target
  BY <1>4, <1>5, SetStatus DEF JobStatuses
<1>7. ConnectionFailed(job) \in {failed, doubted}
  BY <1>1, <1>3, <1>5 DEF ConnectionFailed
<1>8. Onward(job, failed) /\ Onward(job, doubted)
  BY <1>1, <1>2, <1>4, <1>6, PendingOnward
<1> QED BY <1>7, <1>8

\* An undo is granted only for a message no deletion has: none while one runs.
LEMMA UndoingOnward ==
  ASSUME NEW job \in Jobs, JobSplit(job), MayUndo(job)
  PROVE  Onward(job, Undoing(job)) /\ job.deletion.status # "running"
<1>1. PICK marked : marked = IF job.status \in {"uncertain", "failed", "partial"} THEN PendingUncertain(job) ELSE job
  OBVIOUS
<1>2. marked \in Jobs /\ marked.deletion = job.deletion
  BY <1>1, PendingJob
<1>3. PICK refreshed : refreshed = Refreshed(marked)
  OBVIOUS
<1>4. /\ refreshed \in Jobs /\ Kept(marked, refreshed) /\ refreshed.target = marked.target
      /\ refreshed.undoAvailable =
           (VerifiedMoved(marked) # {} /\ marked.status \in {"complete", "partial", "uncertain", "failed"})
  BY <1>2, <1>3, RefreshedJob
<1>5. ToUndo(job) = refreshed
  BY <1>1, <1>3 DEF ToUndo
<1>6. VerifiedMoved(marked) # {}
  BY <1>4, <1>5 DEF MayUndo
<1>7. job.deletion.status # "running"
  <2>1. PICK t \in Candidates : ~Blocked(marked, t)
    BY <1>6 DEF VerifiedMoved, In
  <2> QED BY <1>2, <2>1 DEF Blocked
<1>8. PICK new : new = Undoing(job)
  OBVIOUS
<1>9. new \in Jobs /\ new.status = "undoing" /\ new.deletion = job.deletion /\ new.target = marked.target
  BY <1>2, <1>4, <1>5, <1>8 DEF Undoing, Jobs, JobStatuses, Kept
<1>10. CASE marked = job
  <2>1. \A t \in Candidates : Taken(job, new, t)
    BY <1>9, <1>10 DEF Taken
  <2> QED BY <1>7, <1>8, <1>9, <2>1, OnwardJob
<1>11. CASE marked = PendingUncertain(job)
  BY <1>7, <1>8, <1>9, <1>11, PendingOnward
<1> QED BY <1>1, <1>10, <1>11

\* The batch that is about to be sent is exactly what is dispatching.
LEMMA IntendedOnward ==
  ASSUME NEW job \in Jobs, JobSplit(job), job.status = "undoing", ~Interrupted(job, "undo")
  PROVE  LET batch == NextBatch(job, "undo")
             new == Intended(job, "undo", batch, batch) IN
         /\ Onward(job, new) /\ new.status = "undoing"
         /\ \A t \in In(new, {"restore_dispatching"}) : job.target[t] = "moved_verified"
<1>1. PICK batch : batch = NextBatch(job, "undo")
  OBVIOUS
<1>2. batch \in SUBSET Candidates /\ \A t \in batch : job.target[t] = "moved_verified" /\ ~Blocked(job, t)
  BY <1>1 DEF NextBatch, First, VerifiedMoved, In
<1>3. PICK excluded : excluded = Mark(job, batch \ batch, "excluded")
  OBVIOUS
<1>4. /\ excluded \in Jobs /\ Kept(job, excluded)
      /\ \A t \in Candidates : excluded.target[t] = job.target[t]
  BY <1>3, MarkJob DEF TargetStates
<1>5. PICK marked : marked = Mark(excluded, batch, "restore_dispatching")
  OBVIOUS
<1>6. /\ marked \in Jobs /\ Kept(excluded, marked)
      /\ \A t \in Candidates : marked.target[t] = IF t \in batch THEN "restore_dispatching" ELSE excluded.target[t]
  BY <1>4, <1>5, MarkJob DEF TargetStates
<1>7. PICK new : new = SetActive(marked, "undo", batch)
  OBVIOUS
<1>8. /\ new \in Jobs /\ new.status = marked.status /\ new.deletion = marked.deletion /\ new.target = marked.target
  BY <1>2, <1>6, <1>7, SetActiveJob DEF Mutations
<1>9. Intended(job, "undo", batch, batch) = new
  BY <1>3, <1>5, <1>7 DEF Intended, Dispatching
<1>10. \A t \in Candidates : job.target[t] # "restore_dispatching"
  BY NamesRight DEF Interrupted, In, Names
<1>11. ASSUME NEW t \in Candidates
       PROVE  /\ Taken(job, new, t)
              /\ new.target[t] = "restore_dispatching" => job.target[t] = "moved_verified"
  BY <1>2, <1>4, <1>6, <1>8, <1>10, <1>11 DEF Taken, RestoreStates
<1>12. new.deletion = job.deletion /\ new.status = "undoing"
  BY <1>4, <1>6, <1>8 DEF Kept
<1>13. Onward(job, new)
  BY <1>8, <1>11, <1>12, OnwardJob
<1> QED BY <1>1, <1>9, <1>11, <1>12, <1>13 DEF In

LEMMA UnansweredOnward ==
  ASSUME NEW job \in Jobs, JobSplit(job), job.status = "undoing"
  PROVE  Onward(job, Unanswered(job, "undo"))
<1>1. PICK new : new = Mark(job, In(job, {"restore_dispatching"}), "restore_uncertain")
  OBVIOUS
<1>2. /\ new \in Jobs /\ Kept(job, new)
      /\ \A t \in Candidates : new.target[t] =
           IF t \in In(job, {"restore_dispatching"}) THEN "restore_uncertain" ELSE job.target[t]
  BY <1>1, MarkJob DEF TargetStates, UncertainStates
<1>3. \A t \in Candidates : Taken(job, new, t)
  BY <1>2 DEF Taken, In, RestoreStates
<1>4. Unanswered(job, "undo") = new
  BY <1>1, NamesRight DEF Unanswered, Names
<1> QED BY <1>2, <1>3, <1>4, OnwardJob DEF Kept

LEMMA AnsweredOnward ==
  ASSUME NEW job \in Jobs, JobSplit(job), job.status = "undoing",
         NEW accepted \in SUBSET In(job, {"restore_dispatching"}),
         NEW rejected \in SUBSET In(job, {"restore_dispatching"})
  PROVE  LET new == Answered(job, "undo", accepted, rejected) IN
         Onward(job, new) /\ new.status = "undoing" /\ ~Interrupted(new, "undo")
<1>a. PICK rest : rest = In(job, {"restore_dispatching"}) \ (accepted \cup rejected)
  OBVIOUS
<1>b. {"restore_uncertain", "restore_dispatched", "restore_failed"} \subseteq TargetStates
  BY DEF TargetStates, UncertainStates
<1>1. PICK doubted : doubted = Mark(job, rest, "restore_uncertain")
  OBVIOUS
<1>2. /\ doubted \in Jobs /\ Kept(job, doubted)
      /\ \A t \in Candidates : doubted.target[t] =
           IF t \in rest THEN "restore_uncertain" ELSE job.target[t]
  BY <1>1, <1>b, MarkJob
<1>3. PICK taken : taken = Mark(doubted, accepted, "restore_dispatched")
  OBVIOUS
<1>4. /\ taken \in Jobs /\ Kept(doubted, taken)
      /\ \A t \in Candidates : taken.target[t] = IF t \in accepted THEN "restore_dispatched" ELSE doubted.target[t]
  BY <1>2, <1>3, <1>b, MarkJob
<1>5. PICK new : new = Mark(taken, rejected, "restore_failed")
  OBVIOUS
<1>6. /\ new \in Jobs /\ Kept(taken, new)
      /\ \A t \in Candidates : new.target[t] = IF t \in rejected THEN "restore_failed" ELSE taken.target[t]
  BY <1>4, <1>5, <1>b, MarkJob
<1>7. Answered(job, "undo", accepted, rejected) = new
  BY <1>a, <1>1, <1>3, <1>5, NamesRight DEF Answered, Names
<1>8. ASSUME NEW t \in Candidates
      PROVE  Taken(job, new, t) /\ new.target[t] # "restore_dispatching"
  <2>1. t \in accepted \cup rejected \cup rest <=> job.target[t] = "restore_dispatching"
    BY <1>a, <1>8 DEF In
  <2>2. new.target[t] = IF t \in rejected THEN "restore_failed"
                        ELSE IF t \in accepted THEN "restore_dispatched"
                        ELSE IF t \in rest THEN "restore_uncertain" ELSE job.target[t]
    BY <1>2, <1>4, <1>6, <1>8
  <2> QED BY <2>1, <2>2 DEF Taken, RestoreStates
<1>9. Kept(job, new)
  BY <1>2, <1>4, <1>6 DEF Kept
<1>10. Onward(job, new)
  BY <1>6, <1>8, <1>9, OnwardJob DEF Kept
<1>11. ~Interrupted(new, "undo")
  BY <1>8, NamesRight DEF Interrupted, In, Names
<1> QED BY <1>7, <1>9, <1>10, <1>11 DEF Kept

LEMMA LocatedOnward ==
  ASSUME NEW job \in Jobs, JobSplit(job), job.status = "undoing", ~Interrupted(job, "undo"),
         NEW found \in SUBSET Verifiable(job, "undo")
  PROVE  LET there == Located(job, "undo", found)
             new == BatchDone(there, "undo") IN
         /\ Onward(job, there) /\ Onward(job, new) /\ new.status = "undoing" /\ ~Interrupted(new, "undo")
<1>a. PICK read : read = Verifiable(job, "undo")
  OBVIOUS
<1>b. {"restore_uncertain", "restored_verified"} \subseteq TargetStates
  BY DEF TargetStates, UncertainStates
<1>1. PICK doubted : doubted = Mark(job, read, "restore_uncertain")
  OBVIOUS
<1>2. /\ doubted \in Jobs /\ Kept(job, doubted)
      /\ \A t \in Candidates : doubted.target[t] = IF t \in read THEN "restore_uncertain" ELSE job.target[t]
  BY <1>1, <1>b, MarkJob
<1>3. PICK there : there = Mark(doubted, found, "restored_verified")
  OBVIOUS
<1>4. /\ there \in Jobs /\ Kept(doubted, there)
      /\ \A t \in Candidates : there.target[t] = IF t \in found THEN "restored_verified" ELSE doubted.target[t]
  BY <1>2, <1>3, <1>b, MarkJob
<1>5. PICK new : new = SetActive(there, "undo", {})
  OBVIOUS
<1>6. /\ new \in Jobs /\ new.status = there.status /\ new.deletion = there.deletion /\ new.target = there.target
  BY <1>4, <1>5, SetActiveJob DEF Mutations
<1>7. Located(job, "undo", found) = there /\ BatchDone(there, "undo") = new
  BY <1>a, <1>1, <1>3, <1>5, NamesRight DEF Located, BatchDone, Names
<1>8. ASSUME NEW t \in Candidates
      PROVE  /\ Taken(job, there, t) /\ Taken(job, new, t)
             /\ new.target[t] # "restore_dispatching"
  <2>1. t \in read => job.target[t] = "restore_dispatched"
    BY <1>a, <1>8, NamesRight DEF Verifiable, In, Names
  <2>2. job.target[t] # "restore_dispatching"
    BY <1>8, NamesRight DEF Interrupted, In, Names
  <2>3. there.target[t] = IF t \in found THEN "restored_verified"
                          ELSE IF t \in read THEN "restore_uncertain" ELSE job.target[t]
    BY <1>2, <1>4, <1>8
  <2>4. t \in found => t \in read
    BY <1>a
  <2> QED BY <1>6, <2>1, <2>2, <2>3, <2>4 DEF Taken, RestoreStates
<1>9. Kept(job, there)
  BY <1>2, <1>4 DEF Kept
<1>10. Onward(job, there) /\ Onward(job, new)
  BY <1>4, <1>6, <1>8, <1>9, OnwardJob DEF Kept
<1>11. ~Interrupted(new, "undo")
  BY <1>8, NamesRight DEF Interrupted, In, Names
<1> QED BY <1>6, <1>7, <1>9, <1>10, <1>11 DEF Kept

\* A restore that ends says it is complete only with nothing left moved.
LEMMA UndoFinishedOnward ==
  ASSUME NEW job \in Jobs, JobSplit(job), job.status = "undoing"
  PROVE  Onward(job, UndoFinished(job))
<1>1. PICK status : status = IF Uncertain(job) # {} THEN "uncertain"
                             ELSE IF Cardinality(Restored(job)) = Cardinality(Moved(job)) THEN "undo_complete"
                             ELSE "partial"
  OBVIOUS
<1>2. status \in JobStatuses /\ status \in {"uncertain", "partial", "undo_complete"}
  BY <1>1 DEF JobStatuses
<1>3. PICK new : new = Refreshed([job EXCEPT !.status = status])
  OBVIOUS
<1>4. UndoFinished(job) = new
  BY <1>1, <1>3 DEF UndoFinished
<1>5. new \in Jobs /\ new.status = status /\ new.deletion = job.deletion /\ new.target = job.target
  BY <1>2, <1>3, EndedJob
<1>6. status = "undo_complete" => Restored(job) = Moved(job)
  <2>1. IsFiniteSet(Candidates)
    <3>1. Pool \in Int
      BY OutlookJobAssumption
    <3> QED BY <3>1, FS_Interval DEF Candidates
  <2>2. Moved(job) \subseteq Candidates /\ Restored(job) \subseteq Moved(job)
    BY DEF Moved, Restored, In
  <2>3. IsFiniteSet(Moved(job))
    BY <2>1, <2>2, FS_Subset
  <2>4. Cardinality(Restored(job)) = Cardinality(Moved(job)) => Restored(job) = Moved(job)
    BY <2>2, <2>3, FS_Subset
  <2> QED BY <1>1, <2>4
<1>7. status = "undo_complete" => \A t \in Candidates : job.target[t] # "moved_verified"
  BY <1>6 DEF Moved, Restored, In
<1>8. \A t \in Candidates : Taken(job, new, t)
  BY <1>5 DEF Taken
<1>9. status \in Terminal
  BY <1>2 DEF Terminal
<1> QED BY <1>4, <1>5, <1>7, <1>8, <1>9, OnwardJob

-----------------------------------------------------------------------------
(* The job under a deletion.                                                *)

\* What a deletion may make of a job: nothing of the restore's, and every
\* message it is done with keeps being known as asked for, if it was.
LEMMA DeletionType ==
  ASSUME NEW job \in Jobs
  PROVE  /\ job.deletion.status \in {"none", "running", "complete", "uncertain"}
         /\ job.deletion.target \in [Candidates -> DeletionStates]
BY DEF Jobs, Deletions

LEMMA MarkDeletionJob ==
  ASSUME NEW job \in Jobs, NEW t \in Candidates, NEW state \in DeletionStates
  PROVE  LET new == MarkDeletion(job, t, state) IN
         /\ new \in Jobs /\ new.status = job.status /\ new.target = job.target
         /\ new.deletion.status = job.deletion.status
         /\ \A u \in Candidates : new.deletion.target[u] = IF u = t THEN state ELSE job.deletion.target[u]
<1>1. PICK deletion0 : deletion0 = job.deletion
  OBVIOUS
<1>2. deletion0 \in Deletions
  BY <1>1, JobType
<1>3. PICK target : target = [deletion0.target EXCEPT ![t] = state]
  OBVIOUS
<1>4. target \in [Candidates -> DeletionStates]
      /\ \A u \in Candidates : target[u] = IF u = t THEN state ELSE deletion0.target[u]
  BY <1>1, <1>3, DeletionType
<1>5. PICK marked : marked = [deletion0 EXCEPT !.target = target]
  OBVIOUS
<1>6. marked \in Deletions /\ marked.target = target /\ marked.status = deletion0.status
  BY <1>2, <1>4, <1>5 DEF Deletions
<1>7. MarkDeletion(job, t, state) = [job EXCEPT !.deletion = marked]
  BY <1>1, <1>3, <1>5 DEF MarkDeletion
<1>8. PICK new : new = [job EXCEPT !.deletion = marked]
  OBVIOUS
<1>9. new \in Jobs /\ new.status = job.status /\ new.target = job.target /\ new.deletion = marked
  BY <1>6, <1>8 DEF Jobs
<1> QED BY <1>1, <1>4, <1>6, <1>7, <1>8, <1>9

LEMMA SetDeletion ==
  ASSUME NEW job \in Jobs, NEW status \in {"none", "running", "complete", "uncertain"}
  PROVE  LET new == [job EXCEPT !.deletion.status = status] IN
         /\ new \in Jobs /\ new.status = job.status /\ new.target = job.target
         /\ new.deletion.status = status /\ new.deletion.target = job.deletion.target
<1>1. PICK deletion0 : deletion0 = job.deletion
  OBVIOUS
<1>2. deletion0 \in Deletions
  BY <1>1, JobType
<1>3. PICK marked : marked = [deletion0 EXCEPT !.status = status]
  OBVIOUS
<1>4. marked \in Deletions /\ marked.target = deletion0.target /\ marked.status = status
  BY <1>2, <1>3 DEF Deletions
<1>5. PICK new : new = [job EXCEPT !.deletion = marked]
  OBVIOUS
<1>6. new \in Jobs /\ new.status = job.status /\ new.target = job.target /\ new.deletion = marked
  BY <1>4, <1>5 DEF Jobs
<1>7. [job EXCEPT !.deletion.status = status] = new
  BY <1>1, <1>3, <1>5
<1> QED BY <1>1, <1>4, <1>6, <1>7

\* The deletion's progress: a message goes on only from "pending" or "dispatching".
Deletes(old, new) ==
  /\ new \in Jobs /\ new.status = old.status /\ new.target = old.target
  /\ old.deletion.status = "running" /\ new.deletion.status # "none"
  /\ \A t \in Candidates :
       new.deletion.target[t] # old.deletion.target[t] =>
         \/ old.deletion.target[t] = "pending" /\ new.deletion.target[t] \in {"dispatching", "excluded", "uncertain"}
         \/ old.deletion.target[t] = "dispatching" /\ new.deletion.target[t] \in {"verified_deleted", "uncertain"}

LEMMA DeletesSplit ==
  ASSUME NEW old \in Jobs, NEW new \in Jobs, JobSplit(old), Deletes(old, new)
  PROVE  JobSplit(new)
<1>1. ASSUME NEW t \in Candidates, Blocked(new, t), new.deletion.target[t] # "none"
      PROVE  new.target[t] = "moved_verified"
  <2>1. Blocked(old, t)
    BY DEF Deletes, Blocked
  <2>2. old.deletion.target[t] # "none"
    BY <1>1 DEF Deletes
  <2> QED BY <1>1, <2>1, <2>2 DEF JobSplit, Deletes
<1> QED BY <1>1 DEF JobSplit, Deletes

LEMMA DeletesKnows ==
  ASSUME NEW old, NEW new, Deletes(old, new), JobKnows(old),
         \A t \in Candidates : new.deletion.target[t] = "verified_deleted" => t \in gone
  PROVE  JobKnows(new)
<1>1. ASSUME NEW t \in Candidates
      PROVE  Knows(new, t)
  BY <1>1 DEF Deletes, JobKnows, Knows, AskedStates
<1> QED BY <1>1 DEF JobKnows

\* An accepted deletion takes what is verified to have moved and no restore has.
LEMMA AcceptedDeletion ==
  ASSUME NEW job \in Jobs, JobSplit(job), job.deletion.status = "none", Exact(job) # {}
  PROVE  /\ Accepted(job) \in Jobs /\ JobSplit(Accepted(job))
         /\ JobKnows(job) => JobKnows(Accepted(job))
<1>1. PICK target : target = [t \in Candidates |-> IF t \in Exact(job) THEN "pending" ELSE "none"]
  OBVIOUS
<1>2. target \in [Candidates -> DeletionStates]
  BY <1>1 DEF DeletionStates
<1>3. PICK marked : marked = [status |-> "running", target |-> target]
  OBVIOUS
<1>4. marked \in Deletions /\ marked.status = "running" /\ marked.target = target
  BY <1>2, <1>3 DEF Deletions
<1>5. PICK new : new = [job EXCEPT !.deletion = marked]
  OBVIOUS
<1>6. new \in Jobs /\ new.status = job.status /\ new.target = job.target /\ new.deletion = marked
  BY <1>4, <1>5 DEF Jobs
<1>7. Accepted(job) = new
  BY <1>1, <1>3, <1>5 DEF Accepted
<1>8. ASSUME NEW t \in Candidates
      PROVE  /\ new.deletion.target[t] = IF t \in Exact(job) THEN "pending" ELSE "none"
             /\ t \in Exact(job) => new.target[t] = "moved_verified"
             /\ job.deletion.target[t] = "none"
  BY <1>1, <1>4, <1>6, <1>8 DEF Exact, In, JobSplit
<1>9. JobSplit(new)
  BY <1>4, <1>6, <1>8 DEF JobSplit
<1>10. ASSUME JobKnows(job), NEW t \in Candidates
       PROVE  Knows(new, t)
  BY <1>6, <1>8, <1>10 DEF JobKnows, Knows, AskedStates
<1> QED BY <1>6, <1>7, <1>9, <1>10 DEF JobKnows

-----------------------------------------------------------------------------
(* The actors and the row.                                                  *)

ActorRows == Rows(Actors \cup {Orphan}, Jobs)

LEMMA ActorType ==
  ASSUME DeletionTypeOK, NEW a \in Actors
  PROVE  /\ Copy(a).version \in Nat /\ Copy(a).job \in Jobs
         /\ a \in Workers => Copy(a) = worker[a] /\ Copy(a) \in Units
         /\ a \in Deleters => a \notin Workers /\ Copy(a) = deleter[a] /\ Copy(a) \in DeleterUnits
<1>1. a \in Workers \/ a \in Deleters
  BY DEF Actors
<1>2. a \in Deleters => a \notin Workers
  BY PermanentDeleteAssumption
<1>3. CASE a \in Workers
  BY <1>2, <1>3 DEF Copy, DeletionTypeOK, Units
<1>4. CASE a \in Deleters
  BY <1>2, <1>4 DEF Copy, DeletionTypeOK, DeleterUnits
<1> QED BY <1>1, <1>3, <1>4

LEMMA DeletionRow ==
  ASSUME DeletionTypeOK, row.present
  PROVE  /\ row \in PresentRows(Actors \cup {Orphan}, Jobs) /\ row.version \in Nat /\ row.job \in Jobs
         /\ row.owner \in Actors \cup {Orphan, NoOwner} /\ row.live \in BOOLEAN /\ row.expired \in BOOLEAN
<1>1. row # Absent
  BY DEF Absent
<1>2. row \in PresentRows(Actors \cup {Orphan}, Jobs)
  BY <1>1 DEF DeletionTypeOK, Rows
<1> QED BY <1>2 DEF PresentRows

LEMMA InvActor ==
  ASSUME DeletionInv, NEW a \in Actors
  PROVE  /\ Fits(a, Copy(a)) /\ Aware(a, Copy(a)) /\ AskerIsAlone(a)
         /\ row.present => Copy(a).version <= row.version
BY DEF DeletionInv, ActorsFit, RowKnows

\* One actor moves.
Moves(a, unit) ==
  /\ worker' \in [Workers -> Units] /\ deleter' \in [Deleters -> DeleterUnits]
  /\ Copy(a)' = unit /\ \A b \in Actors \ {a} : Copy(b)' = Copy(b)

LEMMA WorkerMoves ==
  ASSUME DeletionTypeOK, NEW w \in Workers, NEW unit \in Units, Set(w, unit), deleter' = deleter
  PROVE  Moves(w, unit)
<1>1. worker' = [worker EXCEPT ![w] = unit] /\ worker \in [Workers -> Units]
  BY DEF Set, DeletionTypeOK
<1>2. worker' \in [Workers -> Units] /\ worker'[w] = unit /\ \A v \in Workers \ {w} : worker'[v] = worker[v]
  BY <1>1
<1>3. Copy(w)' = unit
  BY <1>2 DEF Copy
<1>4. ASSUME NEW b \in Actors \ {w}
      PROVE  Copy(b)' = Copy(b)
  BY <1>2, <1>4 DEF Copy
<1> QED BY <1>2, <1>3, <1>4 DEF Moves, DeletionTypeOK

LEMMA DeleterMoves ==
  ASSUME DeletionTypeOK, NEW d \in Deleters, NEW unit \in DeleterUnits, SetDeleter(d, unit), worker' = worker
  PROVE  Moves(d, unit)
<1>1. deleter' = [deleter EXCEPT ![d] = unit] /\ deleter \in [Deleters -> DeleterUnits]
  BY DEF SetDeleter, DeletionTypeOK
<1>2. /\ deleter' \in [Deleters -> DeleterUnits] /\ deleter'[d] = unit
      /\ \A v \in Deleters \ {d} : deleter'[v] = deleter[v]
  BY <1>1
<1>3. d \notin Workers
  BY PermanentDeleteAssumption
<1>4. Copy(d)' = unit
  BY <1>2, <1>3 DEF Copy
<1>5. ASSUME NEW b \in Actors \ {d}
      PROVE  Copy(b)' = Copy(b)
  BY <1>2, <1>5 DEF Copy, Actors
<1> QED BY <1>2, <1>4, <1>5 DEF Moves, DeletionTypeOK

\* Nothing is asked for, and nothing comes back.
NothingAsked == sent' = sent /\ asked' = asked /\ gone \subseteq gone'

\* The row's job is the one it was, if there is a row still.
RowStays ==
  /\ row' \in ActorRows
  /\ row'.present => row.present /\ row'.job = row.job /\ row'.version = row.version

\* Nobody new waits for a request, and a waits for none.
RequestsStay(a) ==
  /\ inflight' \in SUBSET Requests
  /\ \A r \in inflight' : r.worker \in Workers => r \in inflight /\ r.worker # a

LEMMA StaysKnown ==
  ASSUME NothingAsked, NEW job, JobKnows(job)
  PROVE  JobKnows(job)'
<1>1. ASSUME NEW t \in Candidates PROVE Knows(job, t)'
  BY <1>1 DEF JobKnows, Knows, NothingAsked
<1> QED BY <1>1 DEF JobKnows

LEMMA StaysAware ==
  ASSUME NothingAsked, RowStays, NEW a, NEW unit, Aware(a, unit)
  PROVE  Aware(a, unit)'
<1>1. Live(unit)' => Live(unit) /\ row'.job = row.job
  BY DEF Live, Current, RowStays
<1>2. JobKnows(unit.job) => JobKnows(unit.job)'
  BY StaysKnown
<1>3. Unasked(a, unit.job) => Unasked(a, unit.job)'
  BY DEF Unasked, NothingAsked
<1> QED BY <1>1, <1>2, <1>3 DEF Aware

LEMMA AwarePrimed ==
  ASSUME NEW a, NEW unit, Copy(a)' = unit, Aware(a, unit)'
  PROVE  Aware(a, Copy(a))'
BY DEF Aware, Live, Current

LEMMA KnowsPrimed ==
  ASSUME NEW job, row'.job = job, JobKnows(job)'
  PROVE  JobKnows(row.job)'
BY DEF JobKnows, Knows

LEMMA RowStaysKnown ==
  ASSUME DeletionInv, NothingAsked, RowStays, row'.present
  PROVE  /\ row'.version >= 1 /\ JobSplit(row'.job) /\ JobKnows(row.job)'
         /\ row.present /\ row'.version = row.version
<1>1. PICK job : job = row.job
  OBVIOUS
<1>2. row.present /\ row.version >= 1 /\ JobSplit(job) /\ JobKnows(job)
  BY <1>1 DEF RowStays, DeletionInv, RowKnows
<1>3. JobKnows(job)'
  BY <1>2, StaysKnown
<1>4. row'.job = job /\ row'.version = row.version
  BY <1>1 DEF RowStays
<1> QED BY <1>2, <1>3, <1>4, KnowsPrimed

\* A step of one actor that neither writes nor asks.
LEMMA ActorStep ==
  ASSUME DeletionInv, NEW a \in Actors, NEW unit, Moves(a, unit), NothingAsked, RowStays, RequestsStay(a),
         \A b \in Actors : Owns(row', b) => Owns(row, b) \/ b = a,
         unit.pc # "intended", Fits(a, unit), Aware(a, unit), unit.version \in Nat,
         unit.version <= Copy(a).version \/ Owns(row', a),
         row.present => unit.version <= row.version
  PROVE  DeletionInv'
<1>0. DeletionTypeOK /\ AskedOnce
  BY DEF DeletionInv
<1>1. DeletionTypeOK' /\ AskedOnce'
  BY <1>0 DEF DeletionTypeOK, AskedOnce, Moves, NothingAsked, RowStays, ActorRows, RequestsStay, Requests
<1>2. RowKnows'
  <2>1. ASSUME row'.present, NEW b \in Actors
        PROVE  Copy(b)'.version <= row'.version
    <3>1. row.present /\ row'.version = row.version
      BY <2>1 DEF RowStays
    <3>2. Copy(b).version <= row.version
      BY <2>1, <3>1, InvActor
    <3> QED BY <2>1, <3>1, <3>2 DEF Moves
  <2> QED BY <2>1, RowStaysKnown DEF RowKnows
<1>3. ASSUME NEW b \in Actors
      PROVE  Fits(b, Copy(b))' /\ Aware(b, Copy(b))'
  <2>1. PICK u : u = Copy(b)'
    OBVIOUS
  <2>2. Fits(b, u) /\ Aware(b, u)
    <3>1. CASE b = a
      BY <2>1, <3>1 DEF Moves
    <3>2. CASE b # a
      <4>1. u = Copy(b)
        BY <1>3, <2>1, <3>2 DEF Moves
      <4> QED BY <1>3, <4>1, InvActor
    <3> QED BY <3>1, <3>2
  <2>3. Aware(b, u)'
    BY <2>2, StaysAware
  <2> QED BY <2>1, <2>2, <2>3, AwarePrimed
<1>4. ASSUME NEW b \in Actors
      PROVE  AskerIsAlone(b)'
  <2>1. CASE b = a
    BY <2>1 DEF AskerIsAlone, Moves
  <2>2. CASE b # a
    <3> SUFFICES ASSUME Copy(b)'.pc = "intended", Owns(row', b)
                 PROVE  Current(Copy(b))' /\ \A c \in Actors \ {b} : Copy(c)'.version < row'.version
      BY DEF AskerIsAlone, Owns, Visible
    <3>1. Copy(b)' = Copy(b) /\ Owns(row, b) /\ ~Owns(row', a)
      BY <1>4, <2>2 DEF Moves, Owns
    <3>2. Current(Copy(b)) /\ \A c \in Actors \ {b} : Copy(c).version < row.version
      BY <1>4, <3>1, InvActor DEF AskerIsAlone
    <3>3. row'.present /\ row'.version = row.version /\ row.version \in Nat
      BY <1>0, <3>2, DeletionRow DEF RowStays, Current, Owns, Visible
    <3>4. ASSUME NEW c \in Actors \ {b}
          PROVE  Copy(c)'.version < row'.version
      <4>1. Copy(c).version < row.version /\ Copy(c).version \in Nat
        BY <1>0, <3>2, <3>4, ActorType
      <4>2. CASE c = a
        BY <3>1, <3>3, <4>1, <4>2 DEF Moves
      <4>3. CASE c # a
        BY <3>3, <3>4, <4>1, <4>3 DEF Moves
      <4> QED BY <4>2, <4>3
    <3>5. Current(Copy(b))'
      BY <3>1, <3>2, <3>3 DEF Current
    <3> QED BY <3>4, <3>5
  <2> QED BY <2>1, <2>2
<1>5. RestoresMatch'
  <2>1. ASSUME NEW r \in inflight', r.worker \in Workers
        PROVE  /\ worker'[r.worker].pc = "awaiting" /\ r.op = "undo"
               /\ r.targets \subseteq In(worker'[r.worker].job, {"restore_dispatching"})
               /\ \A q \in inflight' : q.worker = r.worker => q = r
    <3>1. r \in inflight /\ r.worker # a
      BY <2>1 DEF RequestsStay
    <3>2. Copy(r.worker)' = Copy(r.worker)
      BY <2>1, <3>1 DEF Moves, Actors
    <3>3. worker'[r.worker] = worker[r.worker]
      BY <2>1, <3>2 DEF Copy
    <3>4. \A q \in inflight' : q.worker = r.worker => q = r
      BY <2>1, <3>1 DEF RequestsStay, DeletionInv, RestoresMatch
    <3> QED BY <2>1, <3>1, <3>3, <3>4 DEF DeletionInv, RestoresMatch
  <2> QED BY <2>1 DEF RestoresMatch, In
<1> QED BY <1>1, <1>2, <1>3, <1>4, <1>5 DEF DeletionInv, ActorsFit

\* A step that no actor takes and that neither writes nor asks.
LEMMA QuietStep ==
  ASSUME DeletionInv, worker' = worker, deleter' = deleter, NothingAsked, RowStays,
         \A a \in Actors : Owns(row', a) => Owns(row, a),
         inflight' \in SUBSET Requests, \A r \in inflight' : r.worker \in Workers => r \in inflight
  PROVE  DeletionInv'
<1>0. DeletionTypeOK /\ AskedOnce /\ \A a : Copy(a)' = Copy(a)
  BY DEF DeletionInv, Copy
<1>1. DeletionTypeOK' /\ AskedOnce'
  BY <1>0 DEF DeletionTypeOK, AskedOnce, NothingAsked, RowStays, ActorRows, Requests
<1>2. RowKnows'
  <2>1. ASSUME row'.present, NEW b \in Actors
        PROVE  Copy(b)'.version <= row'.version
    BY <1>0, <2>1, InvActor DEF RowStays
  <2> QED BY <2>1, RowStaysKnown DEF RowKnows
<1>3. ASSUME NEW b \in Actors
      PROVE  Fits(b, Copy(b))' /\ Aware(b, Copy(b))' /\ AskerIsAlone(b)'
  <2>1. PICK u : u = Copy(b)
    OBVIOUS
  <2>2. Fits(b, u) /\ Aware(b, u) /\ AskerIsAlone(b) /\ Copy(b)' = u
    BY <1>0, <1>3, <2>1, InvActor
  <2>3. Aware(b, u)'
    BY <2>2, StaysAware
  <2>4. AskerIsAlone(b)'
    <3>1. Owns(row', b) => row'.present /\ Owns(row, b)
      BY <1>3 DEF Owns, Visible
    <3> QED BY <1>0, <2>2, <3>1 DEF AskerIsAlone, RowStays, Current
  <2> QED BY <2>2, <2>3, <2>4, AwarePrimed
<1>4. RestoresMatch'
  BY DEF RestoresMatch, DeletionInv, In
<1> QED BY <1>1, <1>2, <1>3, <1>4 DEF DeletionInv, ActorsFit

-----------------------------------------------------------------------------
(* Writes.                                                                  *)

Written(job) ==
  row.present /\ row' = Replaced(row, job) /\ job \in Jobs /\ JobSplit(job) /\ JobKnows(job)

LEMMA WrittenRow ==
  ASSUME DeletionInv, NEW job, Written(job), NothingAsked
  PROVE  /\ row' \in ActorRows /\ row'.present /\ row'.job = job
         /\ row.version \in Nat /\ row'.version = row.version + 1 /\ row'.version >= 1
         /\ \A a : Owns(row', a) <=> Owns(row, a)
         /\ JobKnows(job)' /\ JobKnows(row.job)' /\ JobSplit(row'.job)
<1>1. row \in PresentRows(Actors \cup {Orphan}, Jobs) /\ row.version \in Nat
  BY DeletionRow DEF DeletionInv, Written
<1>2. row.version + 1 \in Nat
  BY <1>1
<1>3. row' = [row EXCEPT !.job = job, !.version = row.version + 1]
  BY DEF Written, Replaced
<1>4. /\ row' \in PresentRows(Actors \cup {Orphan}, Jobs) /\ row'.job = job /\ row'.version = row.version + 1
      /\ row'.present = row.present /\ row'.owner = row.owner /\ row'.live = row.live
      /\ row'.expired = row.expired
  BY <1>1, <1>2, <1>3 DEF PresentRows, Written
<1>5. JobKnows(job)'
  BY StaysKnown DEF Written
<1>6. JobKnows(row.job)'
  BY <1>4, <1>5, KnowsPrimed
<1> QED BY <1>1, <1>4, <1>5, <1>6 DEF Rows, ActorRows, Owns, Visible, Written

\* A write under a lease outdates every other copy, and its own if it does not learn of it.
LEMMA ActorWrites ==
  ASSUME DeletionInv, NEW a \in Actors, NEW unit, Moves(a, unit), NEW job, Written(job), NothingAsked,
         Owns(row, a), RequestsStay(a), Fits(a, unit), unit.pc # "saving",
         unit.pc \notin Asleep => unit.job = job,
         unit.version \in Nat, unit.version <= row.version + 1,
         unit.pc = "intended" => unit.version = row.version + 1 /\ Unasked(a, job)
  PROVE  DeletionInv'
<1>0. DeletionTypeOK /\ AskedOnce
  BY DEF DeletionInv
<1>1. DeletionTypeOK' /\ AskedOnce'
  BY <1>0, WrittenRow DEF DeletionTypeOK, AskedOnce, Moves, NothingAsked, ActorRows, RequestsStay, Requests
<1>2. /\ row'.version = row.version + 1 /\ row.version \in Nat /\ row'.present /\ row'.job = job
      /\ \A b \in Actors : Copy(b).version <= row.version /\ Copy(b).version \in Nat
  BY <1>0, WrittenRow, InvActor, ActorType DEF Written
<1>3. RowKnows'
  <2>1. ASSUME NEW b \in Actors PROVE Copy(b)'.version <= row'.version
    BY <1>2, <2>1 DEF Moves
  <2> QED BY <2>1, WrittenRow DEF RowKnows
<1>4. ASSUME NEW b \in Actors
      PROVE  Fits(b, Copy(b))' /\ Aware(b, Copy(b))' /\ AskerIsAlone(b)'
  <2>1. CASE b # a
    <3>1. PICK u : u = Copy(b)
      OBVIOUS
    <3>2. u.version # row'.version /\ Fits(b, u) /\ Copy(b)' = u
      BY <1>2, <1>4, <2>1, <3>1, InvActor DEF Moves
    <3>3. Aware(b, u)'
      BY <3>2 DEF Aware, Live, Current
    <3>4. ~Owns(row', b)
      BY <2>1, WrittenRow DEF Owns
    <3>5. AskerIsAlone(b)'
      BY <3>4 DEF AskerIsAlone, Owns, Visible
    <3> QED BY <3>2, <3>3, <3>5, AwarePrimed
  <2>2. CASE b = a
    <3>1. Copy(a)' = unit
      BY DEF Moves
    <3>2. Unasked(a, job)' <=> Unasked(a, job)
      BY DEF Unasked, NothingAsked
    <3>3. Aware(a, unit)'
      BY <1>2, <3>2, WrittenRow DEF Aware, Live, Heading
    <3>4. AskerIsAlone(a)'
      <4>1. \A c \in Actors \ {a} : Copy(c)'.version < row'.version
        BY <1>2 DEF Moves
      <4> QED BY <1>2, <3>1, <4>1 DEF AskerIsAlone, Current
    <3> QED BY <2>2, <3>1, <3>3, <3>4, AwarePrimed
  <2> QED BY <2>1, <2>2
<1>5. RestoresMatch'
  <2>1. ASSUME NEW r \in inflight', r.worker \in Workers
        PROVE  /\ worker'[r.worker].pc = "awaiting" /\ r.op = "undo"
               /\ r.targets \subseteq In(worker'[r.worker].job, {"restore_dispatching"})
               /\ \A q \in inflight' : q.worker = r.worker => q = r
    <3>1. r \in inflight /\ r.worker # a
      BY <2>1 DEF RequestsStay
    <3>2. Copy(r.worker)' = Copy(r.worker)
      BY <2>1, <3>1 DEF Moves, Actors
    <3>3. worker'[r.worker] = worker[r.worker]
      BY <2>1, <3>2 DEF Copy
    <3>4. \A q \in inflight' : q.worker = r.worker => q = r
      BY <2>1, <3>1 DEF RequestsStay, DeletionInv, RestoresMatch
    <3> QED BY <2>1, <3>1, <3>3, <3>4 DEF DeletionInv, RestoresMatch
  <2> QED BY <2>1 DEF RestoresMatch, In
<1> QED BY <1>1, <1>3, <1>4, <1>5 DEF DeletionInv, ActorsFit

\* A user's write outdates every copy.
LEMMA UserOutdates ==
  ASSUME DeletionInv, NEW job, Written(job), NothingAsked, worker' = worker, deleter' = deleter,
         inflight' = inflight, \A a \in Actors : ~(Copy(a).pc = "intended" /\ Owns(row, a))
  PROVE  DeletionInv'
<1>0. DeletionTypeOK /\ AskedOnce /\ \A a : Copy(a)' = Copy(a)
  BY DEF DeletionInv, Copy
<1>1. DeletionTypeOK' /\ AskedOnce'
  BY <1>0, WrittenRow DEF DeletionTypeOK, AskedOnce, NothingAsked, ActorRows
<1>2. /\ row'.version = row.version + 1 /\ row.version \in Nat /\ row'.present /\ row'.job = job
      /\ \A b \in Actors : Copy(b).version <= row.version /\ Copy(b).version \in Nat
  BY <1>0, WrittenRow, InvActor, ActorType DEF Written
<1>3. RowKnows'
  <2>1. ASSUME NEW b \in Actors PROVE Copy(b)'.version <= row'.version
    BY <1>0, <1>2, <2>1
  <2> QED BY <2>1, WrittenRow DEF RowKnows
<1>4. ASSUME NEW b \in Actors
      PROVE  Fits(b, Copy(b))' /\ Aware(b, Copy(b))' /\ AskerIsAlone(b)'
  <2>1. PICK u : u = Copy(b)
    OBVIOUS
  <2>2. u.version # row'.version /\ Fits(b, u) /\ Copy(b)' = u
    BY <1>0, <1>2, <1>4, <2>1, InvActor
  <2>3. Aware(b, u)'
    BY <2>2 DEF Aware, Live, Current
  <2>4. ~(u.pc = "intended" /\ Owns(row', b))
    BY <1>4, <2>1, WrittenRow
  <2>5. AskerIsAlone(b)'
    BY <2>2, <2>4 DEF AskerIsAlone, Owns, Visible
  <2> QED BY <2>2, <2>3, <2>5, AwarePrimed
<1>5. RestoresMatch'
  BY DEF RestoresMatch, DeletionInv, In
<1> QED BY <1>1, <1>3, <1>4, <1>5 DEF DeletionInv, ActorsFit

-----------------------------------------------------------------------------
(* Requests to the provider.                                                *)

\* The only actor whose copy is live, with the row's job, asks for messages.
LEMMA ActorAsks ==
  ASSUME DeletionInv, NEW a \in Actors, NEW unit, Moves(a, unit), Copy(a).pc = "intended", Owns(row, a),
         row' \in ActorRows, row'.present, row'.job = row.job, row'.version = row.version,
         \A b \in Actors \ {a} : ~Owns(row', b),
         inflight' \in SUBSET Requests, sent' \in [Mutations -> [Candidates -> Nat]], asked' \in [Candidates -> Nat], AskedOnce', RestoresMatch',
         JobKnows(row.job)', Fits(a, unit), unit.pc # "intended", Aware(a, unit)',
         unit.version \in Nat, unit.version <= row.version
  PROVE  DeletionInv'
<1>0. DeletionTypeOK
  BY DEF DeletionInv
<1>1. DeletionTypeOK'
  BY <1>0 DEF DeletionTypeOK, Moves, ActorRows, Requests
<1>2. /\ row.present /\ row.version \in Nat /\ row.version >= 1 /\ JobSplit(row.job)
      /\ \A b \in Actors : Copy(b).version <= row.version
      /\ \A b \in Actors \ {a} : Copy(b).version < row.version /\ Copy(b).version \in Nat
  BY <1>0, DeletionRow, InvActor, ActorType DEF DeletionInv, RowKnows, AskerIsAlone, Owns, Visible
<1>3. RowKnows'
  <2>1. ASSUME NEW b \in Actors PROVE Copy(b)'.version <= row'.version
    BY <1>2, <2>1 DEF Moves
  <2> QED BY <1>2, <2>1 DEF RowKnows
<1>4. ASSUME NEW b \in Actors
      PROVE  Fits(b, Copy(b))' /\ Aware(b, Copy(b))' /\ AskerIsAlone(b)'
  <2>1. CASE b # a
    <3>1. PICK u : u = Copy(b)
      OBVIOUS
    <3>2. u.version # row'.version /\ Fits(b, u) /\ Copy(b)' = u
      BY <1>2, <1>4, <2>1, <3>1, InvActor DEF Moves
    <3>3. Aware(b, u)'
      BY <3>2 DEF Aware, Live, Current
    <3>4. AskerIsAlone(b)'
      BY <1>4, <2>1 DEF AskerIsAlone, Owns, Visible
    <3> QED BY <3>2, <3>3, <3>4, AwarePrimed
  <2>2. CASE b = a
    <3>1. Copy(a)' = unit
      BY DEF Moves
    <3>2. AskerIsAlone(a)'
      BY <3>1 DEF AskerIsAlone
    <3> QED BY <2>2, <3>1, <3>2, AwarePrimed
  <2> QED BY <2>1, <2>2
<1> QED BY <1>1, <1>3, <1>4 DEF DeletionInv, ActorsFit

-----------------------------------------------------------------------------
(* What every unit does.                                                    *)

LEMMA InvWorker ==
  ASSUME DeletionInv, NEW w \in Workers
  PROVE  /\ w \in Actors /\ Copy(w) = worker[w] /\ worker[w] \in Units /\ WorkerFits(worker[w])
         /\ worker[w].pc \notin Asleep => JobSplit(worker[w].job)
         /\ Live(worker[w]) => JobKnows(worker[w].job)
         /\ row.present => worker[w].version <= row.version
<1>1. w \in Actors /\ w \notin Deleters
  BY PermanentDeleteAssumption DEF Actors
<1>2. Copy(w) = worker[w] /\ worker[w] \in Units
  BY <1>1, ActorType DEF DeletionInv
<1> QED BY <1>1, <1>2, InvActor DEF Fits, Aware

\* Nothing but the unit and the environment around the job changes.
DeletionSame == deleter' = deleter /\ gone' = gone /\ asked' = asked

LEMMA RowSame ==
  ASSUME DeletionInv, row' = row
  PROVE  RowStays
BY DEF RowStays, DeletionInv, DeletionTypeOK, ActorRows

LEMMA RequestsSame ==
  ASSUME DeletionInv, inflight' = inflight, NEW w \in Workers, worker[w].pc # "awaiting"
  PROVE  RequestsStay(w)
BY DEF DeletionInv, DeletionTypeOK, RestoresMatch, RequestsStay, Requests

LEMMA RequestsAbandoned ==
  ASSUME DeletionInv, NEW w \in Workers, Abandoned(w)
  PROVE  RequestsStay(w)
<1> DEFINE Left(r) == IF r.worker = w THEN [r EXCEPT !.worker = Orphan] ELSE r
<1>1. inflight' = {Left(r) : r \in inflight}
  BY DEF Abandoned
<1>2. inflight \in SUBSET Requests
  BY DEF DeletionInv, DeletionTypeOK, Requests
<1>3. \A r \in Requests : /\ Left(r) \in Requests
                          /\ Left(r).worker # w /\ (Left(r).worker # Orphan => Left(r) = r)
  <2>1. Orphan \in Owners /\ Orphan # w
    BY OutlookCleanupAssumption DEF Owners
  <2> QED BY <2>1 DEF Requests
<1> HIDE DEF Left
<1>4. ASSUME NEW r \in inflight', r.worker \in Workers
      PROVE  r \in inflight /\ r.worker # w
  <2>1. PICK q \in inflight : r = Left(q)
    BY <1>1, <1>4
  <2>2. r.worker # Orphan
    BY <1>4, OutlookCleanupAssumption
  <2> QED BY <1>2, <1>3, <2>1, <2>2
<1>5. inflight' \in SUBSET Requests
  BY <1>1, <1>2, <1>3
<1> QED BY <1>4, <1>5 DEF RequestsStay

\* A unit goes on with what it made of its copy.
LEMMA RestoreStep ==
  ASSUME DeletionInv, NEW w \in Workers, NEW unit \in Units, Set(w, unit), row' = row, sent' = sent, DeletionSame,
         RequestsStay(w), worker[w].pc \notin Asleep, Onward(worker[w].job, unit.job),
         unit.version = worker[w].version, unit.pc # "intended", WorkerFits(unit),
         Heading(unit) = "intended" => (Live(worker[w]) => Unasked(w, unit.job))
  PROVE  DeletionInv'
<1>1. /\ w \in Actors /\ Copy(w) = worker[w] /\ worker[w] \in Units /\ w \notin Deleters
      /\ row.present => worker[w].version <= row.version
  BY InvWorker, PermanentDeleteAssumption
<1>2. Live(unit) => Live(worker[w])
  BY DEF Live, Current
<1>3. Live(worker[w]) => JobKnows(unit.job)
  BY InvWorker, OnwardKnows
<1>4. Aware(w, unit)
  BY <1>2, <1>3 DEF Aware
<1>5. Fits(w, unit)
  BY <1>1 DEF Fits, Onward
<1>6. Moves(w, unit)
  BY WorkerMoves DEF DeletionInv, DeletionSame
<1>7. unit.version \in Nat /\ unit.version <= Copy(w).version
  BY <1>1 DEF Units
<1>8. RowStays /\ NothingAsked
  BY RowSame DEF NothingAsked, DeletionSame
<1> QED BY <1>1, <1>4, <1>5, <1>6, <1>7, <1>8, ActorStep

\* A unit has ended, not begun, or only its lease to release.
LEMMA AsleepStep ==
  ASSUME DeletionInv, NEW w \in Workers, NEW unit \in Units, Set(w, unit), RowStays, sent' = sent, DeletionSame,
         RequestsStay(w), unit.pc \in {"off", "idle", "releasing"}, unit.version = 0,
         \A a \in Actors : Owns(row', a) => Owns(row, a)
  PROVE  DeletionInv'
<1>1. w \in Actors /\ Copy(w) = worker[w] /\ worker[w] \in Units /\ w \notin Deleters
  BY InvWorker, PermanentDeleteAssumption
<1>2. Moves(w, unit)
  BY WorkerMoves DEF DeletionInv, DeletionSame
<1>3. Fits(w, unit) /\ Aware(w, unit)
  BY <1>1 DEF Fits, Aware, Live, Asleep, WorkerFits, Heading, Mutating
<1>4. unit.version <= Copy(w).version /\ unit.version \in Nat
  BY <1>1 DEF Units
<1>5. row.present => unit.version <= row.version
  BY DeletionRow DEF DeletionInv
<1>6. NothingAsked /\ unit.pc # "intended"
  BY DEF NothingAsked, DeletionSame
<1> QED BY <1>1, <1>2, <1>3, <1>4, <1>5, <1>6, ActorStep

LEMMA AcceptedType == AcceptedJob \in Jobs
BY DEF AcceptedJob, Jobs, JobStatuses, TargetStates, NoDeletion, Deletions, DeletionStates

LEMMA NoUnitType ==
  /\ NoUnit \in Units /\ NoUnit.pc = "off" /\ NoUnit.version = 0
  /\ \A op \in Operations : Idle(op) \in Units /\ Idle(op).pc = "idle" /\ Idle(op).version = 0
BY AcceptedType DEF Idle, NoUnit, Units, PCs, Operations

LEMMA LeaveStep ==
  ASSUME DeletionInv, NEW w \in Workers, NEW outcome \in {"stop", "continue"}, Leave(w, outcome), row' = row,
         sent' = sent, DeletionSame, RequestsStay(w)
  PROVE  DeletionInv'
<1>a. PICK idle : idle = Idle(worker[w].op)
  OBVIOUS
<1>1. PICK unit : unit = [idle EXCEPT !.pc = "releasing", !.outcome = outcome]
  OBVIOUS
<1>2. worker[w].op \in Operations /\ "releasing" \in PCs
  BY InvWorker DEF Units, PCs
<1>b. idle \in Units /\ idle.version = 0
  BY <1>a, <1>2, NoUnitType
<1>3. unit \in Units /\ unit.pc = "releasing" /\ unit.version = 0
  BY <1>1, <1>2, <1>b DEF Units
<1>4. Set(w, unit)
  BY <1>a, <1>1 DEF Leave
<1> QED BY <1>3, <1>4, AsleepStep, RowSame

LEMMA GotoStep ==
  ASSUME DeletionInv, NEW w \in Workers, NEW pc \in PCs, Goto(w, pc), row' = row, sent' = sent, DeletionSame,
         inflight' = inflight, worker[w].pc \notin Asleep \cup {"awaiting"},
         pc \notin {"saving", "intended", "checking", "checked"},
         pc \in Mutating => worker[w].op = "undo" /\ worker[w].job.status = "undoing"
                            /\ ~Interrupted(worker[w].job, "undo")
  PROVE  DeletionInv'
<1>1. PICK unit : unit = [worker[w] EXCEPT !.pc = pc]
  OBVIOUS
<1>2. worker[w] \in Units /\ JobSplit(worker[w].job)
  BY InvWorker
<1>3. /\ unit \in Units /\ unit.pc = pc /\ unit.job = worker[w].job /\ unit.version = worker[w].version
      /\ unit.op = worker[w].op
  BY <1>1, <1>2 DEF Units
<1>4. WorkerFits(unit)
  BY <1>3 DEF WorkerFits, Heading, Mutating
<1>5. Onward(worker[w].job, unit.job)
  BY <1>2, <1>3, OnwardSame DEF Units
<1>6. Set(w, unit) /\ RequestsStay(w)
  BY <1>1, RequestsSame DEF Goto
<1> QED BY <1>3, <1>4, <1>5, <1>6, RestoreStep DEF Heading

\* A unit saves what it made of its copy.
LEMMA SavesStep ==
  ASSUME DeletionInv, NEW w \in Workers, NEW unit \in Units, Set(w, unit), row' = row, sent' = sent, DeletionSame,
         RequestsStay(w), worker[w].pc \notin Asleep, Onward(worker[w].job, unit.job),
         unit.version = worker[w].version, unit.op = worker[w].op, unit.pc = "saving",
         unit.next \in {"batching", "verifying", "intended", "done"},
         unit.next # "done" => unit.op = "undo" /\ unit.job.status = "undoing",
         unit.next \in {"batching", "verifying"} => ~Interrupted(unit.job, "undo"),
         unit.next = "intended" => (Live(worker[w]) => Unasked(w, unit.job))
  PROVE  DeletionInv'
<1>1. WorkerFits(unit)
  BY DEF WorkerFits, Heading, Mutating
<1> QED BY <1>1, RestoreStep DEF Heading

LEMMA EndStep ==
  ASSUME DeletionInv, NEW w \in Workers, NEW job, NEW outcome \in {"stop", "continue"}, End(w, job, outcome),
         row' = row, sent' = sent, DeletionSame, RequestsStay(w), worker[w].pc \notin Asleep,
         Onward(worker[w].job, job)
  PROVE  DeletionInv'
<1>1. PICK unit : unit = [worker[w] EXCEPT !.job = job, !.pc = "saving", !.next = "done", !.outcome = outcome]
  OBVIOUS
<1>2. worker[w] \in Units /\ job \in Jobs
  BY InvWorker DEF Onward
<1>3. /\ unit \in Units /\ unit.pc = "saving" /\ unit.job = job /\ unit.version = worker[w].version
      /\ unit.op = worker[w].op /\ unit.next = "done"
  BY <1>1, <1>2 DEF Units, PCs
<1>4. Set(w, unit)
  BY <1>1 DEF End
<1> QED BY <1>3, <1>4, SavesStep

LEMMA SaveStep ==
  ASSUME DeletionInv, NEW w \in Workers, NEW job, NEW next \in {"batching", "verifying", "intended"},
         Save(w, job, next), row' = row, sent' = sent, DeletionSame, RequestsStay(w),
         worker[w].pc \notin Asleep, Onward(worker[w].job, job), worker[w].op = "undo", job.status = "undoing",
         next # "intended" => ~Interrupted(job, "undo"),
         next = "intended" => (Live(worker[w]) => Unasked(w, job))
  PROVE  DeletionInv'
<1>1. PICK unit : unit = [worker[w] EXCEPT !.job = job, !.pc = "saving", !.next = next]
  OBVIOUS
<1>2. worker[w] \in Units /\ job \in Jobs
  BY InvWorker DEF Onward
<1>3. /\ unit \in Units /\ unit.pc = "saving" /\ unit.job = job /\ unit.version = worker[w].version
      /\ unit.op = worker[w].op /\ unit.next = next
  BY <1>1, <1>2 DEF Units, PCs
<1>4. Set(w, unit)
  BY <1>1 DEF Save
<1> QED BY <1>3, <1>4, SavesStep

LEMMA StopStep ==
  ASSUME DeletionInv, NEW w \in Workers, NEW job, Stop(w, job), row' = row, sent' = sent, DeletionSame,
         RequestsStay(w), worker[w].pc \notin Asleep, Onward(worker[w].job, job)
  PROVE  DeletionInv'
<1>1. Onward(job, StoppedUncertain(job))
  BY StoppedOnward DEF Onward
<1>2. Onward(worker[w].job, StoppedUncertain(job))
  BY <1>1, OnwardTransitive
<1>3. PICK stopped : stopped = StoppedUncertain(job)
  OBVIOUS
<1>4. End(w, stopped, "stop") /\ Onward(worker[w].job, stopped)
  BY <1>2, <1>3 DEF Stop
<1> QED BY <1>4, EndStep

\* What a unit under its own live lease writes.
LEMMA WorkerWrites ==
  ASSUME DeletionInv, NEW w \in Workers, NEW unit \in Units, Set(w, unit), NEW job, row' = Replaced(row, job),
         Writable(w), worker[w].pc \notin Asleep \cup {"awaiting"}, Onward(worker[w].job, job),
         sent' = sent, inflight' = inflight, DeletionSame, WorkerFits(unit), unit.pc # "saving",
         unit.job = job, unit.version \in {worker[w].version, worker[w].version + 1},
         unit.pc = "intended" => unit.version = worker[w].version + 1 /\ Unasked(w, job)
  PROVE  DeletionInv'
<1>1. /\ w \in Actors /\ Copy(w) = worker[w] /\ worker[w] \in Units /\ w \notin Deleters
      /\ Live(worker[w]) => JobKnows(worker[w].job)
  BY InvWorker, PermanentDeleteAssumption
<1>2. row.present /\ worker[w].version = row.version /\ Owns(row, w) /\ Live(worker[w])
  BY DEF Writable, CanReplace, Visible, Live, Current
<1>3. JobKnows(job) /\ job \in Jobs /\ JobSplit(job)
  BY <1>1, <1>2, OnwardKnows DEF Onward
<1>4. Written(job)
  BY <1>2, <1>3 DEF Written
<1>5. Fits(w, unit)
  BY <1>1, <1>3 DEF Fits
<1>6. Moves(w, unit) /\ NothingAsked /\ RequestsStay(w)
  BY WorkerMoves, RequestsSame DEF DeletionInv, DeletionSame, NothingAsked
<1>7. row.version \in Nat /\ unit.version \in Nat /\ unit.version <= row.version + 1
  BY <1>2, DeletionRow DEF DeletionInv, Units
<1> QED BY <1>1, <1>2, <1>4, <1>5, <1>6, <1>7, ActorWrites

-----------------------------------------------------------------------------
(* The steps of a restore unit.                                             *)

LEMMA OutlookOnlySame ==
  ASSUME UNCHANGED deletion
  PROVE  DeletionSame
BY DEF deletion, DeletionSame

LEMMA ClaimedActorRow ==
  ASSUME DeletionInv, Claimable(row), NEW a \in Actors, row' = Claimed(row, a)
  PROVE  /\ RowStays /\ row.present /\ row.version \in Nat /\ row.version >= 1 /\ row'.present
         /\ Owns(row', a) /\ \A b \in Actors : Owns(row', b) => b = a
         /\ row.job \in Jobs /\ JobSplit(row.job) /\ JobKnows(row.job)
<1>1. row.present /\ ~row.expired
  BY DEF Claimable, Visible
<1>2. row \in PresentRows(Actors \cup {Orphan}, Jobs) /\ row.version \in Nat /\ row.job \in Jobs
  BY <1>1, DeletionRow DEF DeletionInv
<1>3. row' = [row EXCEPT !.owner = a, !.live = TRUE]
  BY DEF Claimed
<1>4. /\ row' \in PresentRows(Actors \cup {Orphan}, Jobs) /\ row'.owner = a /\ row'.live
      /\ row'.job = row.job /\ row'.version = row.version /\ row'.expired = row.expired /\ row'.present = row.present
  BY <1>2, <1>3 DEF PresentRows
<1>5. Owns(row', a) /\ \A b \in Actors : Owns(row', b) => b = a
  BY <1>1, <1>4 DEF Owns, Visible
<1>6. RowStays
  BY <1>1, <1>4 DEF RowStays, ActorRows, Rows
<1> QED BY <1>1, <1>2, <1>4, <1>5, <1>6 DEF DeletionInv, RowKnows

LEMMA ReleasedRow ==
  ASSUME DeletionInv, NEW a \in Actors, row' = Released(row, a)
  PROVE  RowStays /\ \A b \in Actors : Owns(row', b) => Owns(row, b)
<1>1. CASE row.present /\ row.owner = a
  <2>1. row \in PresentRows(Actors \cup {Orphan}, Jobs)
    BY <1>1, DeletionRow DEF DeletionInv
  <2>2. row' = [row EXCEPT !.owner = NoOwner, !.live = FALSE]
    BY <1>1 DEF Released
  <2>3. /\ row' \in PresentRows(Actors \cup {Orphan}, Jobs) /\ ~row'.live
        /\ row'.job = row.job /\ row'.version = row.version /\ row'.present = row.present
    BY <2>1, <2>2 DEF PresentRows
  <2> QED BY <1>1, <2>3 DEF RowStays, ActorRows, Rows, Owns
<1>2. CASE ~(row.present /\ row.owner = a)
  <2>1. row' = row
    BY <1>2 DEF Released
  <2> QED BY <2>1, RowSame
<1> QED BY <1>1, <1>2

LEMMA OrphanedRow ==
  ASSUME DeletionInv, NEW a \in Actors,
         row' = IF row.present /\ row.owner = a THEN [row EXCEPT !.owner = Orphan] ELSE row
  PROVE  /\ RowStays /\ (row.present => row'.present) /\ \A b \in Actors : Owns(row', b) => Owns(row, b) /\ b # a
<1>1. Orphan \notin Actors
  BY OutlookCleanupAssumption, PermanentDeleteAssumption DEF Actors
<1>2. CASE row.present /\ row.owner = a
  <2>1. row \in PresentRows(Actors \cup {Orphan}, Jobs)
    BY <1>2, DeletionRow DEF DeletionInv
  <2>2. row' = [row EXCEPT !.owner = Orphan]
    BY <1>2
  <2>3. /\ row' \in PresentRows(Actors \cup {Orphan}, Jobs) /\ row'.owner = Orphan
        /\ row'.job = row.job /\ row'.version = row.version /\ row'.present = row.present
    BY <2>1, <2>2 DEF PresentRows
  <2> QED BY <1>1, <1>2, <2>3 DEF RowStays, ActorRows, Rows, Owns
<1>3. CASE ~(row.present /\ row.owner = a)
  <2>1. row' = row
    BY <1>3
  <2> QED BY <1>3, <2>1, RowSame DEF Owns, Visible
<1> QED BY <1>2, <1>3

LEMMA RestoreClaims ==
  ASSUME DeletionInv, UNCHANGED deletion, NEW w \in Workers, Claim(w)
  PROVE  DeletionInv'
<1>0. /\ w \in Actors /\ w \notin Deleters /\ worker[w] \in Units /\ worker[w].pc = "idle"
      /\ DeletionSame /\ sent' = sent /\ inflight' = inflight /\ RequestsStay(w)
  BY InvWorker, PermanentDeleteAssumption, OutlookOnlySame, RequestsSame DEF Claim, environment
<1>1. CASE Claimable(row)
  <2>1. PICK unit : unit = [worker[w] EXCEPT !.pc = "claimed", !.job = row.job,
                                             !.version = row.version, !.outcome = "stop"]
    OBVIOUS
  <2>2. row' = Claimed(row, w) /\ Set(w, unit)
    BY <1>1, <2>1 DEF Claim
  <2>3. /\ RowStays /\ row.present /\ row.version \in Nat /\ row.version >= 1 /\ row'.present
        /\ Owns(row', w) /\ \A b \in Actors : Owns(row', b) => b = w
        /\ row.job \in Jobs /\ JobSplit(row.job) /\ JobKnows(row.job)
    BY <1>0, <1>1, <2>2, ClaimedActorRow
  <2>4. unit \in Units /\ unit.pc = "claimed" /\ unit.job = row.job /\ unit.version = row.version
    BY <1>0, <2>1, <2>3 DEF Units, PCs
  <2>5. Fits(w, unit)
    BY <1>0, <2>3, <2>4 DEF Fits, WorkerFits, Heading, Mutating
  <2>6. Aware(w, unit)
    BY <2>3, <2>4 DEF Aware, Heading
  <2>7. Moves(w, unit) /\ NothingAsked
    BY <1>0, <2>2, <2>4, WorkerMoves DEF DeletionInv, DeletionSame, NothingAsked
  <2>8. unit.version <= row.version
    BY <2>3, <2>4
  <2> QED BY <1>0, <2>3, <2>4, <2>5, <2>6, <2>7, <2>8, ActorStep
<1>2. CASE ~Claimable(row)
  <2>1. row' = row /\ Set(w, NoUnit)
    BY <1>2 DEF Claim
  <2> QED BY <1>0, <2>1, AsleepStep, NoUnitType, RowSame
<1> QED BY <1>1, <1>2

LEMMA RestoreAuthorizes ==
  ASSUME DeletionInv, UNCHANGED deletion, NEW w \in Workers, Authorize(w)
  PROVE  DeletionInv'
<1>0. /\ worker[w] \in Units /\ worker[w].pc = "claimed" /\ JobSplit(worker[w].job)
      /\ DeletionSame /\ row' = row /\ sent' = sent /\ inflight' = inflight /\ RequestsStay(w)
  BY InvWorker, OutlookOnlySame, RequestsSame DEF Authorize, environment, Asleep
<1>1. PICK pc \in {"authorized", "failing"}, access \in {"forward", "recovery"} :
        Set(w, [worker[w] EXCEPT !.access = access, !.pc = pc])
  <2>1. Access(w) \in {"forward", "recovery"}
    BY DEF Access
  <2> QED BY <2>1 DEF Authorize
<1>2. PICK unit : unit = [worker[w] EXCEPT !.access = access, !.pc = pc]
  OBVIOUS
<1>3. unit \in Units /\ unit.pc = pc /\ unit.job = worker[w].job /\ unit.version = worker[w].version
  BY <1>0, <1>1, <1>2 DEF Units, PCs
<1>4. WorkerFits(unit) /\ Heading(unit) # "intended"
  BY <1>1, <1>3 DEF WorkerFits, Heading, Mutating
<1>5. Onward(worker[w].job, unit.job)
  BY <1>0, <1>3, OnwardSame DEF Units
<1> QED BY <1>0, <1>1, <1>2, <1>3, <1>4, <1>5, RestoreStep DEF Asleep

LEMMA RestoreConnects ==
  ASSUME DeletionInv, UNCHANGED deletion, NEW w \in Workers, Connect(w)
  PROVE  DeletionInv'
<1>1. /\ worker[w].pc = "authorized" /\ Goto(w, "working") /\ row' = row /\ sent' = sent
      /\ inflight' = inflight /\ DeletionSame
  BY OutlookOnlySame DEF Connect, environment
<1> QED BY <1>1, GotoStep DEF PCs, Asleep, Mutating

LEMMA RestoreDisconnected ==
  ASSUME DeletionInv, UNCHANGED deletion, NEW w \in Workers, FailJob(w)
  PROVE  DeletionInv'
<1>0. /\ worker[w] \in Units /\ worker[w].pc = "authorized" /\ JobSplit(worker[w].job)
      /\ DeletionSame /\ sent' = sent /\ inflight' = inflight /\ RequestsStay(w)
  BY InvWorker, OutlookOnlySame, RequestsSame DEF FailJob, environment, Asleep
<1>1. PICK job : job = ConnectionFailed(worker[w].job)
  OBVIOUS
<1>2. PICK unit : unit = [worker[w] EXCEPT !.job = job, !.pc = "done", !.outcome = "stop"]
  OBVIOUS
<1>3. Set(w, unit) /\ row' = IF Writable(w) THEN Replaced(row, job) ELSE row
  BY <1>1, <1>2 DEF FailJob
<1>4. Onward(worker[w].job, job) /\ job \in Jobs
  BY <1>0, <1>1, DisconnectedOnward DEF Units, Onward
<1>5. unit \in Units /\ unit.pc = "done" /\ unit.job = job /\ unit.version = worker[w].version
  BY <1>0, <1>2, <1>4 DEF Units, PCs
<1>6. WorkerFits(unit) /\ Heading(unit) # "intended"
  BY <1>5 DEF WorkerFits, Heading, Mutating
<1>7. CASE Writable(w)
  BY <1>0, <1>3, <1>4, <1>5, <1>6, <1>7, WorkerWrites DEF Asleep
<1>8. CASE ~Writable(w)
  BY <1>0, <1>3, <1>4, <1>5, <1>6, <1>8, RestoreStep DEF Asleep
<1> QED BY <1>7, <1>8

LEMMA SavedUnitFits ==
  ASSUME DeletionInv, NEW w \in Workers, worker[w].pc = "saving"
  PROVE  /\ worker[w] \in Units /\ JobSplit(worker[w].job) /\ Onward(worker[w].job, worker[w].job)
         /\ worker[w].next \in {"batching", "verifying", "intended", "done"}
         /\ Writable(w) /\ worker[w].next = "intended" => Unasked(w, worker[w].job)
<1>1. worker[w] \in Units /\ WorkerFits(worker[w]) /\ JobSplit(worker[w].job)
  BY InvWorker DEF Asleep
<1>2. Onward(worker[w].job, worker[w].job)
  BY <1>1, OnwardSame DEF Units
<1>3. Writable(w) => Live(worker[w])
  BY DEF Writable, CanReplace, Visible, Live, Current, Asleep
<1>4. Aware(w, worker[w])
  BY InvWorker, InvActor
<1> QED BY <1>1, <1>2, <1>3, <1>4 DEF WorkerFits, Aware, Heading

LEMMA RestoreSaves ==
  ASSUME DeletionInv, UNCHANGED deletion, NEW w \in Workers, SaveCommits(w)
  PROVE  DeletionInv'
<1>0. /\ worker[w].pc = "saving" /\ Writable(w) /\ DeletionSame /\ sent' = sent /\ inflight' = inflight
      /\ row' = Replaced(row, worker[w].job)
  BY OutlookOnlySame DEF SaveCommits, environment
<1>1. /\ worker[w] \in Units /\ Onward(worker[w].job, worker[w].job) /\ WorkerFits(worker[w])
      /\ worker[w].next \in {"batching", "verifying", "intended", "done"}
      /\ worker[w].next = "intended" => Unasked(w, worker[w].job)
  BY <1>0, SavedUnitFits, InvWorker
<1>a. PICK u : u = worker[w]
  OBVIOUS
<1>b. PICK version : version = u.version + 1
  OBVIOUS
<1>c. u \in Units /\ version \in Nat /\ u.next \in PCs
  BY <1>1, <1>a, <1>b DEF Units
<1>2. PICK unit : unit = [u EXCEPT !.pc = u.next, !.version = version]
  OBVIOUS
<1>3. Set(w, unit)
  BY <1>a, <1>b, <1>2 DEF SaveCommits
<1>4. /\ unit \in Units /\ unit.pc = worker[w].next /\ unit.job = worker[w].job /\ unit.op = worker[w].op
      /\ unit.version = worker[w].version + 1
  BY <1>a, <1>b, <1>c, <1>2 DEF Units
<1>5. WorkerFits(unit)
  BY <1>0, <1>1, <1>4 DEF WorkerFits, Heading
<1>6. PICK job : job = worker[w].job
  OBVIOUS
<1> QED BY <1>0, <1>1, <1>3, <1>4, <1>5, <1>6, WorkerWrites DEF Asleep

LEMMA RestoreSaveRefused ==
  ASSUME DeletionInv, UNCHANGED deletion, NEW w \in Workers, SaveRefused(w)
  PROVE  DeletionInv'
<1>1. /\ worker[w].pc = "saving" /\ Goto(w, "failing") /\ row' = row /\ sent' = sent
      /\ inflight' = inflight /\ DeletionSame
  BY OutlookOnlySame DEF SaveRefused, environment
<1> QED BY <1>1, GotoStep DEF PCs, Asleep, Mutating

LEMMA RestoreSaveLost ==
  ASSUME DeletionInv, UNCHANGED deletion, NEW w \in Workers, SaveResponseLost(w)
  PROVE  DeletionInv'
<1>0. /\ worker[w].pc = "saving" /\ Writable(w) /\ DeletionSame /\ sent' = sent /\ inflight' = inflight
      /\ row' = Replaced(row, worker[w].job)
  BY OutlookOnlySame DEF SaveResponseLost, environment
<1>1. worker[w] \in Units /\ Onward(worker[w].job, worker[w].job)
  BY <1>0, SavedUnitFits
<1>a. PICK u : u = worker[w]
  OBVIOUS
<1>2. PICK known \in {0, 1} : Set(w, [u EXCEPT !.pc = "failing", !.version = u.version + known])
  BY <1>a DEF SaveResponseLost
<1>b. PICK version : version = u.version + known
  OBVIOUS
<1>c. u \in Units /\ version \in Nat /\ version \in {u.version, u.version + 1} /\ "failing" \in PCs
  BY <1>1, <1>a, <1>2, <1>b DEF Units, PCs
<1>3. PICK unit : unit = [u EXCEPT !.pc = "failing", !.version = version]
  OBVIOUS
<1>4. /\ unit \in Units /\ unit.pc = "failing" /\ unit.job = worker[w].job
      /\ unit.version \in {worker[w].version, worker[w].version + 1}
  BY <1>a, <1>c, <1>3 DEF Units
<1>5. WorkerFits(unit) /\ Set(w, unit)
  BY <1>2, <1>3, <1>4, <1>b DEF WorkerFits, Heading, Mutating
<1>6. PICK job : job = worker[w].job
  OBVIOUS
<1> QED BY <1>0, <1>1, <1>4, <1>5, <1>6, WorkerWrites DEF Asleep

LEMMA RestoreThrows ==
  ASSUME DeletionInv, UNCHANGED deletion, NEW w \in Workers, Throw(w)
  PROVE  DeletionInv'
<1>1. /\ Goto(w, "failing") /\ row' = row /\ sent' = sent /\ inflight' = inflight /\ DeletionSame
      /\ worker[w].pc \in {"claimed", "authorized", "working", "checking", "checked", "saving", "intended", "done"}
  BY OutlookOnlySame DEF Throw, environment
<1> QED BY <1>1, GotoStep DEF PCs, Asleep, Mutating

LEMMA RestoreReports ==
  ASSUME DeletionInv, UNCHANGED deletion, NEW w \in Workers, Report(w)
  PROVE  DeletionInv'
<1>1. /\ worker[w].pc \in {"done", "noting"} /\ worker[w].outcome \in {"stop", "continue"}
      /\ Leave(w, worker[w].outcome) /\ row' = row /\ sent' = sent /\ inflight' = inflight /\ DeletionSame
  BY InvWorker, OutlookOnlySame DEF Report, environment, Units
<1>2. RequestsStay(w)
  BY <1>1, RequestsSame
<1>3. PICK outcome : outcome = worker[w].outcome
  OBVIOUS
<1> QED BY <1>1, <1>2, <1>3, LeaveStep

\* The catch clause of a unit.
LEMMA RestoreRecords ==
  ASSUME DeletionInv, NEW w \in Workers, worker[w].pc = "failing", row' = row, sent' = sent, inflight' = inflight,
         DeletionSame, Set(w, [worker[w] EXCEPT !.pc = "recording", !.job = UnitFailed(@), !.outcome = "stop"])
  PROVE  DeletionInv'
<1>0. worker[w] \in Units /\ JobSplit(worker[w].job) /\ RequestsStay(w)
  BY InvWorker, RequestsSame DEF Asleep
<1>1. PICK job : job = UnitFailed(worker[w].job)
  OBVIOUS
<1>2. Onward(worker[w].job, job) /\ job \in Jobs
  BY <1>0, <1>1, FailedOnward DEF Units, Onward
<1>3. PICK unit : unit = [worker[w] EXCEPT !.pc = "recording", !.job = job, !.outcome = "stop"]
  OBVIOUS
<1>4. unit \in Units /\ unit.pc = "recording" /\ unit.job = job /\ unit.version = worker[w].version
  BY <1>0, <1>2, <1>3 DEF Units, PCs
<1>5. WorkerFits(unit) /\ Heading(unit) # "intended" /\ Set(w, unit)
  BY <1>1, <1>3, <1>4 DEF WorkerFits, Heading, Mutating
<1> QED BY <1>0, <1>2, <1>4, <1>5, RestoreStep DEF Asleep

LEMMA RestoreCatches ==
  ASSUME DeletionInv, UNCHANGED deletion, NEW w \in Workers, Catch(w)
  PROVE  DeletionInv'
<1>1. /\ worker[w].pc = "failing" /\ row' = row /\ sent' = sent /\ inflight' = inflight /\ DeletionSame
      /\ RequestsStay(w)
  BY OutlookOnlySame, RequestsSame DEF Catch, environment
<1>2. CASE Rescued(w)
  <2>1. PICK outcome \in {"stop", "continue"} : Leave(w, outcome)
    BY <1>2 DEF Catch
  <2> QED BY <1>1, <2>1, LeaveStep
<1>3. CASE ~Rescued(w)
  BY <1>1, <1>3, RestoreRecords DEF Catch
<1> QED BY <1>2, <1>3

LEMMA RestoreRereadFails ==
  ASSUME DeletionInv, UNCHANGED deletion, NEW w \in Workers, RereadFails(w)
  PROVE  DeletionInv'
BY RestoreRecords, OutlookOnlySame DEF RereadFails, environment

LEMMA RestoreRecordsFailure ==
  ASSUME DeletionInv, UNCHANGED deletion, NEW w \in Workers, RecordFailure(w)
  PROVE  DeletionInv'
<1>0. /\ worker[w] \in Units /\ worker[w].pc = "recording" /\ JobSplit(worker[w].job)
      /\ DeletionSame /\ sent' = sent /\ inflight' = inflight /\ RequestsStay(w)
  BY InvWorker, OutlookOnlySame, RequestsSame DEF RecordFailure, environment, Asleep
<1>1. CASE Recordable(w)
  <2>1. PICK job : job = worker[w].job
    OBVIOUS
  <2>2. PICK unit : unit = [worker[w] EXCEPT !.pc = "noting"]
    OBVIOUS
  <2>3. row' = Replaced(row, job) /\ Set(w, unit) /\ Writable(w)
    BY <1>1, <2>1, <2>2 DEF RecordFailure, Goto, Recordable
  <2>4. unit \in Units /\ unit.pc = "noting" /\ unit.job = job /\ unit.version = worker[w].version
    BY <1>0, <2>1, <2>2 DEF Units, PCs
  <2>5. WorkerFits(unit) /\ Onward(worker[w].job, job)
    BY <1>0, <2>1, <2>4, OnwardSame DEF WorkerFits, Heading, Mutating, Units
  <2> QED BY <1>0, <2>3, <2>4, <2>5, WorkerWrites DEF Asleep
<1>2. CASE ~Recordable(w)
  BY <1>0, <1>2, LeaveStep DEF RecordFailure
<1> QED BY <1>1, <1>2

LEMMA RestoreRecordingFails ==
  ASSUME DeletionInv, UNCHANGED deletion, NEW w \in Workers, RecordingFails(w)
  PROVE  DeletionInv'
<1>1. /\ worker[w].pc \in {"recording", "noting"} /\ Leave(w, "stop") /\ row' = row /\ sent' = sent
      /\ inflight' = inflight /\ DeletionSame
  BY OutlookOnlySame DEF RecordingFails, environment
<1>2. RequestsStay(w)
  BY <1>1, RequestsSame
<1> QED BY <1>1, <1>2, LeaveStep

LEMMA RestoreReleases ==
  ASSUME DeletionInv, UNCHANGED deletion, NEW w \in Workers, Release(w)
  PROVE  DeletionInv'
<1>1. /\ worker[w].pc = "releasing" /\ row' = Released(row, w) /\ sent' = sent /\ inflight' = inflight
      /\ DeletionSame /\ RequestsStay(w) /\ w \in Actors /\ worker[w].op \in Operations
  BY InvWorker, OutlookOnlySame, RequestsSame DEF Release, environment, Units
<1>2. PICK unit : unit = IF worker[w].outcome = "continue" THEN Idle(worker[w].op) ELSE NoUnit
  OBVIOUS
<1>3. unit \in Units /\ unit.pc \in {"off", "idle"} /\ unit.version = 0
  BY <1>1, <1>2, NoUnitType
<1>4. Set(w, unit)
  BY <1>2 DEF Release
<1>5. RowStays /\ \A b \in Actors : Owns(row', b) => Owns(row, b)
  BY <1>1, ReleasedRow
<1> QED BY <1>1, <1>3, <1>4, <1>5, AsleepStep

LEMMA RestoreCrashes ==
  ASSUME DeletionInv, UNCHANGED deletion, NEW w \in Workers, Crash(w)
  PROVE  DeletionInv'
<1>1. /\ row' = IF row.present /\ row.owner = w THEN [row EXCEPT !.owner = Orphan] ELSE row
      /\ Set(w, NoUnit) /\ Abandoned(w) /\ sent' = sent /\ DeletionSame /\ w \in Actors
  BY InvWorker, OutlookOnlySame DEF Crash
<1>2. RowStays /\ \A b \in Actors : Owns(row', b) => Owns(row, b)
  BY <1>1, OrphanedRow
<1>3. RequestsStay(w)
  BY <1>1, RequestsAbandoned
<1> QED BY <1>1, <1>2, <1>3, AsleepStep, NoUnitType

-----------------------------------------------------------------------------
(* The steps of a restore: nothing is prepared or moved any more.           *)

LEMMA NoPreparation ==
  ASSUME DeletionInv, NEW w \in Workers
  PROVE  ~CheckCandidates(w) /\ ~EndPreparation(w) /\ ~RecheckFails(w)
<1>1. WorkerFits(worker[w])
  BY InvWorker
<1>2. worker[w].pc \notin {"checking", "checked"} /\ (worker[w].pc = "batching" => worker[w].op = "undo")
  BY <1>1 DEF WorkerFits, Heading, Mutating
<1> QED BY <1>2 DEF CheckCandidates, EndPreparation, RecheckFails, Fresh

LEMMA RestorePrepares ==
  ASSUME DeletionInv, UNCHANGED deletion, NEW w \in Workers, Prepare(w)
  PROVE  DeletionInv'
<1>0. /\ worker[w] \in Units /\ worker[w].pc = "working" /\ JobSplit(worker[w].job)
      /\ DeletionSame /\ row' = row /\ sent' = sent /\ inflight' = inflight /\ RequestsStay(w)
  BY InvWorker, OutlookOnlySame, RequestsSame DEF Prepare, environment, Asleep
<1>1. worker[w].job.status \notin {"created", "resolving"}
  BY <1>0 DEF JobSplit, Terminal
<1>2. PICK outcome : outcome = PreparationOutcome(worker[w].job)
  OBVIOUS
<1>3. PICK unit : unit = [worker[w] EXCEPT !.pc = "done", !.outcome = outcome]
  OBVIOUS
<1>4. Set(w, unit)
  BY <1>1, <1>2, <1>3 DEF Prepare
<1>5. outcome \in {"stop", "continue"}
  BY <1>2 DEF PreparationOutcome
<1>6. unit \in Units /\ unit.pc = "done" /\ unit.job = worker[w].job /\ unit.version = worker[w].version
  BY <1>0, <1>3, <1>5 DEF Units, PCs
<1>7. WorkerFits(unit) /\ Heading(unit) # "intended" /\ Onward(worker[w].job, unit.job)
  BY <1>0, <1>6, OnwardSame DEF WorkerFits, Heading, Mutating, Units
<1> QED BY <1>0, <1>4, <1>6, <1>7, RestoreStep DEF Asleep

LEMMA RestoreEnters ==
  ASSUME DeletionInv, UNCHANGED deletion, NEW w \in Workers, Enter(w)
  PROVE  DeletionInv'
<1>0. /\ worker[w] \in Units /\ worker[w].pc = "working" /\ JobSplit(worker[w].job)
      /\ DeletionSame /\ row' = row /\ sent' = sent /\ inflight' = inflight /\ RequestsStay(w)
      /\ worker[w].op \in Mutations
  BY InvWorker, OutlookOnlySame, RequestsSame DEF Enter, environment, Asleep
<1>1. worker[w].job.status # "running"
  BY <1>0 DEF JobSplit, Terminal
<1>2. CASE worker[w].op = "cleanup" \/ worker[w].job.status # "undoing"
  <2>1. Goto(w, "done")
    BY <1>0, <1>1, <1>2 DEF Enter, Mutations
  <2> QED BY <1>0, <2>1, GotoStep DEF PCs, Asleep, Mutating
<1>3. CASE worker[w].op = "undo" /\ worker[w].job.status = "undoing"
  <2>1. CASE Interrupted(worker[w].job, "undo")
    <3>1. PICK job : job = worker[w].job
      OBVIOUS
    <3>2. Stop(w, job) /\ Onward(worker[w].job, job)
      BY <1>0, <1>3, <2>1, <3>1, OnwardSame DEF Enter, Units
    <3> QED BY <1>0, <3>2, StopStep DEF Asleep
  <2>2. CASE ~Interrupted(worker[w].job, "undo")
    <3>1. Goto(w, "batching")
      BY <1>3, <2>2 DEF Enter
    <3> QED BY <1>0, <1>3, <2>2, <3>1, GotoStep DEF PCs, Asleep, Mutating
  <2> QED BY <2>1, <2>2
<1> QED BY <1>0, <1>2, <1>3 DEF Mutations

\* A unit in a batch is one of a restore.
LEMMA RestoringUnit ==
  ASSUME DeletionInv, NEW w \in Workers, worker[w].pc \in Mutating
  PROVE  /\ worker[w] \in Units /\ worker[w].job \in Jobs /\ JobSplit(worker[w].job)
         /\ worker[w].op = "undo" /\ worker[w].job.status = "undoing"
         /\ worker[w].pc \in {"batching", "verifying"} => ~Interrupted(worker[w].job, "undo")
<1>1. worker[w].pc \notin Asleep /\ Heading(worker[w]) = worker[w].pc
  BY DEF Asleep, Heading, Mutating
<1> QED BY <1>1, InvWorker DEF WorkerFits, Units

LEMMA RestoreResumes ==
  ASSUME DeletionInv, UNCHANGED deletion, NEW w \in Workers, Resume(w)
  PROVE  DeletionInv'
<1>0. /\ worker[w].pc = "batching" /\ Goto(w, "verifying") /\ DeletionSame /\ row' = row /\ sent' = sent
      /\ inflight' = inflight
  BY OutlookOnlySame DEF Resume, environment
<1> QED BY <1>0, RestoringUnit, GotoStep DEF PCs, Asleep, Mutating

LEMMA RestoreFinishes ==
  ASSUME DeletionInv, UNCHANGED deletion, NEW w \in Workers, Finish(w)
  PROVE  DeletionInv'
<1>0. /\ worker[w].pc = "batching" /\ DeletionSame /\ row' = row /\ sent' = sent /\ RequestsStay(w)
  BY OutlookOnlySame, RequestsSame DEF Finish, Fresh, environment
<1>1. PICK job : job = UndoFinished(worker[w].job)
  OBVIOUS
<1>2. worker[w].op = "undo" /\ Onward(worker[w].job, job)
  BY <1>0, <1>1, RestoringUnit, UndoFinishedOnward DEF Mutating
<1>3. End(w, job, "stop")
  BY <1>1, <1>2 DEF Finish, EndOf
<1> QED BY <1>0, <1>2, <1>3, EndStep DEF Asleep

\* A restore asks for no message that it, or a deletion, has asked for before.
LEMMA RestoreIntends ==
  ASSUME DeletionInv, UNCHANGED deletion, NEW w \in Workers, Intend(w)
  PROVE  DeletionInv'
<1>0. /\ worker[w].pc = "batching" /\ DeletionSame /\ row' = row /\ sent' = sent /\ RequestsStay(w)
  BY OutlookOnlySame, RequestsSame DEF Intend, Fresh, environment
<1>1. /\ worker[w].op = "undo" /\ worker[w].job \in Jobs /\ JobSplit(worker[w].job)
      /\ worker[w].job.status = "undoing" /\ ~Interrupted(worker[w].job, "undo")
  BY <1>0, RestoringUnit DEF Mutating
<1>2. PICK batch : batch = NextBatch(worker[w].job, "undo")
  OBVIOUS
<1>3. PICK job : job = Intended(worker[w].job, "undo", batch, batch)
  OBVIOUS
<1>4. batch # {} /\ Save(w, job, "intended")
  BY <1>1, <1>2, <1>3 DEF Intend
<1>5. /\ Onward(worker[w].job, job) /\ job.status = "undoing"
      /\ \A t \in In(job, {"restore_dispatching"}) : worker[w].job.target[t] = "moved_verified"
  BY <1>1, <1>2, <1>3, IntendedOnward
<1>6. Live(worker[w]) => Unasked(w, job)
  <2>1. Live(worker[w]) => JobKnows(worker[w].job)
    BY InvWorker
  <2>2. sent["undo"] \in [Candidates -> Nat] /\ w \notin Deleters
    BY PermanentDeleteAssumption DEF DeletionInv, DeletionTypeOK, Mutations
  <2>3. ASSUME JobKnows(worker[w].job), NEW t \in In(job, {"restore_dispatching"})
        PROVE  sent["undo"][t] = 0
    <3>1. t \in Candidates /\ worker[w].job.target[t] \notin RestoreStates
      BY <1>5, <2>3 DEF In, RestoreStates
    <3>2. ~(sent["undo"][t] > 0)
      BY <2>3, <3>1 DEF JobKnows, Knows
    <3> QED BY <2>2, <3>1, <3>2
  <2> QED BY <2>1, <2>2, <2>3 DEF Unasked
<1> QED BY <1>0, <1>1, <1>4, <1>5, <1>6, SaveStep DEF Asleep

LEMMA RestoreGivesUp ==
  ASSUME DeletionInv, UNCHANGED deletion, NEW w \in Workers, GiveUp(w)
  PROVE  DeletionInv'
<1>0. /\ worker[w].pc \in {"intended", "awaiting"} /\ DeletionSame /\ row' = row /\ sent' = sent /\ RequestsStay(w)
  BY OutlookOnlySame, RequestsAbandoned DEF GiveUp
<1>1. worker[w].op = "undo" /\ worker[w].job \in Jobs /\ JobSplit(worker[w].job) /\ worker[w].job.status = "undoing"
  BY <1>0, RestoringUnit DEF Mutating
<1>2. PICK job : job = Unanswered(worker[w].job, "undo")
  OBVIOUS
<1>3. Onward(worker[w].job, job) /\ Stop(w, job)
  BY <1>1, <1>2, UnansweredOnward DEF GiveUp
<1> QED BY <1>0, <1>3, StopStep DEF Asleep

LEMMA RestoreAnswered ==
  ASSUME DeletionInv, UNCHANGED deletion, NEW w \in Workers, Answer(w)
  PROVE  DeletionInv'
<1>0. /\ worker[w].pc = "awaiting" /\ DeletionSame /\ row' = row /\ sent' = sent
  BY OutlookOnlySame DEF Answer
<1>1. worker[w].op = "undo" /\ worker[w].job \in Jobs /\ JobSplit(worker[w].job) /\ worker[w].job.status = "undoing"
  BY <1>0, RestoringUnit DEF Mutating
<1>a. PICK r \in inflight : r.worker = w /\
        \E moved \in SUBSET r.targets :
          \E accepted \in SUBSET moved, rejected \in SUBSET (r.targets \ moved) :
            /\ inflight' = inflight \ {r}
            /\ Save(w, Answered(worker[w].job, r.op, accepted, rejected), "verifying")
  BY DEF Answer
<1>2. PICK moved \in SUBSET r.targets :
        \E accepted \in SUBSET moved, rejected \in SUBSET (r.targets \ moved) :
          /\ inflight' = inflight \ {r}
          /\ Save(w, Answered(worker[w].job, r.op, accepted, rejected), "verifying")
  BY <1>a
<1>3. PICK accepted \in SUBSET moved, rejected \in SUBSET (r.targets \ moved) :
        /\ inflight' = inflight \ {r}
        /\ Save(w, Answered(worker[w].job, r.op, accepted, rejected), "verifying")
  BY <1>2
<1>4. /\ r.op = "undo" /\ r.targets \subseteq In(worker[w].job, {"restore_dispatching"})
      /\ \A q \in inflight : q.worker = w => q = r
  BY <1>a DEF DeletionInv, RestoresMatch
<1>5. PICK job : job = Answered(worker[w].job, "undo", accepted, rejected)
  OBVIOUS
<1>6. Onward(worker[w].job, job) /\ job.status = "undoing" /\ ~Interrupted(job, "undo")
  BY <1>1, <1>4, <1>5, AnsweredOnward
<1>7. RequestsStay(w)
  BY <1>3, <1>4 DEF RequestsStay, DeletionInv, DeletionTypeOK, Requests
<1>8. Save(w, job, "verifying")
  BY <1>3, <1>4, <1>5
<1> QED BY <1>0, <1>1, <1>6, <1>7, <1>8, SaveStep DEF Asleep

LEMMA RestoreLocates ==
  ASSUME DeletionInv, UNCHANGED deletion, NEW w \in Workers, Locate(w)
  PROVE  DeletionInv'
<1>0. /\ worker[w].pc = "verifying" /\ DeletionSame /\ row' = row /\ sent' = sent /\ RequestsStay(w)
  BY OutlookOnlySame, RequestsSame DEF Locate, environment
<1>1. /\ worker[w].op = "undo" /\ worker[w].job \in Jobs /\ JobSplit(worker[w].job)
      /\ worker[w].job.status = "undoing" /\ ~Interrupted(worker[w].job, "undo")
  BY <1>0, RestoringUnit DEF Mutating
<1>2. PICK found \in SUBSET Verifiable(worker[w].job, "undo") :
        LET job == Located(worker[w].job, "undo", found)
            next == BatchDone(job, "undo") IN
        IF InDoubt(job, "undo") THEN Stop(w, job)
        ELSE IF Continues(next, "undo") THEN End(w, next, "continue")
        ELSE Save(w, next, "batching")
  BY <1>1 DEF Locate
<1>3. PICK job : job = Located(worker[w].job, "undo", found)
  OBVIOUS
<1>4. PICK next : next = BatchDone(job, "undo")
  OBVIOUS
<1>5. Onward(worker[w].job, job) /\ Onward(worker[w].job, next) /\ next.status = "undoing" /\ ~Interrupted(next, "undo")
  BY <1>1, <1>3, <1>4, LocatedOnward
<1>6. Stop(w, job) \/ End(w, next, "continue") \/ Save(w, next, "batching")
  BY <1>2, <1>3, <1>4
<1>7. CASE Stop(w, job)
  BY <1>0, <1>5, <1>7, StopStep DEF Asleep
<1>8. CASE End(w, next, "continue")
  BY <1>0, <1>5, <1>8, EndStep DEF Asleep
<1>9. CASE Save(w, next, "batching")
  BY <1>0, <1>1, <1>5, <1>9, SaveStep DEF Asleep
<1> QED BY <1>6, <1>7, <1>8, <1>9

\* The request of the unit that alone has a live copy: nobody asked before.
LEMMA RestoreSends ==
  ASSUME DeletionInv, UNCHANGED deletion, NEW w \in Workers, Send(w)
  PROVE  DeletionInv'
<1>a. PICK job : job = worker[w].job
  OBVIOUS
<1>b. PICK batch : batch = In(job, {"restore_dispatching"})
  OBVIOUS
<1>c. PICK unit : unit = [worker[w] EXCEPT !.pc = "awaiting"]
  OBVIOUS
<1>d. PICK request : request = [worker |-> w, op |-> "undo", targets |-> batch]
  OBVIOUS
<1>0. /\ worker[w].pc = "intended" /\ Owns(row, w) /\ row' = row /\ DeletionSame
      /\ w \in Actors /\ w \notin Deleters /\ Copy(w) = worker[w] /\ worker[w] \in Units
      /\ job \in Jobs /\ JobSplit(job) /\ worker[w].op = "undo" /\ job.status = "undoing"
      /\ DeletionTypeOK /\ AskedOnce /\ RestoresMatch
  BY <1>a, InvWorker, RestoringUnit, OutlookOnlySame, PermanentDeleteAssumption
     DEF Send, Fenced, Mutating, DeletionInv
<1>1. Set(w, unit)
  BY <1>0, <1>c DEF Send, Goto
<1>2. unit \in Units /\ unit.pc = "awaiting" /\ unit.job = job /\ unit.op = "undo" /\ unit.version = worker[w].version
  BY <1>0, <1>a, <1>c DEF Units, PCs
<1>3. Batch(w) = batch /\ batch \in SUBSET Candidates
  BY <1>0, <1>a, <1>b, NamesRight DEF Batch, Names, In
<1>4. inflight' = inflight \cup {request}
  BY <1>0, <1>3, <1>d DEF Send
<1>5. request \in Requests
  BY <1>3, <1>d DEF Requests, Owners, Mutations
<1>6. inflight \in SUBSET Requests /\ sent \in [Mutations -> [Candidates -> Nat]] /\ asked \in [Candidates -> Nat]
  BY <1>0 DEF DeletionTypeOK, Requests
<1>7. PICK restored : restored = [t \in Candidates |-> IF t \in batch THEN sent["undo"][t] + 1 ELSE sent["undo"][t]]
  OBVIOUS
<1>8. restored \in [Candidates -> Nat]
  BY <1>6, <1>7 DEF Mutations
<1>9. sent' = [sent EXCEPT !["undo"] = restored]
  BY <1>0, <1>3, <1>7 DEF Send
<1>10. sent' \in [Mutations -> [Candidates -> Nat]] /\ sent'["undo"] = restored
  BY <1>6, <1>8, <1>9 DEF Mutations
<1>11. /\ Current(worker[w]) /\ row.job = job /\ JobKnows(job)
       /\ \A t \in batch : sent["undo"][t] = 0
  <2>1. Current(worker[w]) /\ Live(worker[w]) /\ Heading(worker[w]) = "intended"
    BY <1>0, InvActor DEF AskerIsAlone, Live, Asleep, Heading
  <2>2. Aware(w, worker[w])
    BY <1>0, InvActor
  <2> QED BY <1>0, <1>a, <1>b, <2>1, <2>2 DEF Aware, Unasked
<1>12. ASSUME NEW t \in batch
       PROVE  asked[t] = 0
  <2>1. t \in Candidates /\ job.target[t] = "restore_dispatching"
    BY <1>b DEF In
  <2>2. job.deletion.target[t] \in {"none", "pending"}
    BY <1>0, <2>1 DEF JobSplit, Blocked
  <2>3. ~(asked[t] > 0)
    BY <1>11, <2>1, <2>2 DEF JobKnows, Knows, AskedStates
  <2> QED BY <1>6, <2>1, <2>3
<1>13. AskedOnce'
  <2>1. ASSUME NEW t \in Candidates PROVE asked'[t] + sent'["undo"][t] <= 1
    <3>1. asked'[t] = asked[t] /\ restored[t] = IF t \in batch THEN sent["undo"][t] + 1 ELSE sent["undo"][t]
      BY <1>0, <1>7 DEF DeletionSame
    <3> QED BY <1>0, <1>6, <1>10, <1>11, <1>12, <3>1 DEF AskedOnce
  <2> QED BY <2>1 DEF AskedOnce
<1>14. JobKnows(job)'
  <2>1. ASSUME NEW t \in Candidates PROVE Knows(job, t)'
    <3>1. /\ restored[t] = IF t \in batch THEN sent["undo"][t] + 1 ELSE sent["undo"][t]
          /\ t \in batch => job.target[t] \in RestoreStates
      BY <1>7, <1>b DEF In, RestoreStates
    <3>2. Knows(job, t)
      BY <1>11 DEF JobKnows
    <3>3. restored[t] > 0 => job.target[t] \in RestoreStates
      BY <3>1, <3>2 DEF Knows
    <3> QED BY <1>0, <1>10, <3>2, <3>3 DEF Knows, DeletionSame
  <2> QED BY <2>1 DEF JobKnows
<1>15. JobKnows(row.job)' /\ Aware(w, unit)'
  <2>1. JobKnows(row.job)'
    BY <1>0, <1>11, <1>14, KnowsPrimed
  <2> QED BY <1>2, <1>14, <2>1 DEF Aware, Heading
<1>16. Moves(w, unit)
  BY <1>0, <1>1, <1>2, WorkerMoves DEF DeletionSame
<1>17. RestoresMatch'
  <2>1. worker'[w] = unit /\ \A v \in Workers \ {w} : worker'[v] = worker[v]
    BY <1>0, <1>1 DEF Set, DeletionTypeOK
  <2>2. \A r \in inflight : r.worker # w
    BY <1>0 DEF RestoresMatch
  <2>3. request.worker = w /\ request.op = "undo" /\ request.targets = batch
    BY <1>d
  <2>4. ASSUME NEW r \in inflight', r.worker \in Workers
        PROVE  /\ worker'[r.worker].pc = "awaiting" /\ r.op = "undo"
               /\ r.targets \subseteq In(worker'[r.worker].job, {"restore_dispatching"})
               /\ \A q \in inflight' : q.worker = r.worker => q = r
    <3>1. CASE r = request
      BY <1>2, <1>4, <1>b, <2>1, <2>2, <2>3, <3>1
    <3>2. CASE r # request
      <4>1. r \in inflight /\ r.worker # w
        BY <1>4, <2>2, <2>4, <3>2
      <4> QED BY <1>0, <1>4, <2>1, <2>3, <2>4, <4>1 DEF RestoresMatch
    <3> QED BY <3>1, <3>2
  <2> QED BY <2>4 DEF RestoresMatch, In
<1>18. Fits(w, unit)
  BY <1>0, <1>2 DEF Fits, WorkerFits, Heading, Mutating
<1>19. row.present /\ worker[w].version = row.version /\ row.version \in Nat /\ unit.version \in Nat /\ unit.version <= row.version
  BY <1>0, <1>2, <1>11, DeletionRow DEF Current
<1>20. inflight' \in SUBSET Requests /\ asked' \in [Candidates -> Nat]
  BY <1>0, <1>4, <1>5, <1>6 DEF DeletionSame
<1>21. row' \in ActorRows /\ \A b \in Actors \ {w} : ~Owns(row', b)
  BY <1>0 DEF Owns, DeletionTypeOK, ActorRows
<1>22. Copy(w).pc = "intended" /\ row'.present /\ row'.job = row.job /\ row'.version = row.version
  BY <1>0, <1>19
<1>23. unit.pc # "intended"
  BY <1>2
<1> HIDE <1>1
<1> QED BY <1>0, <1>10, <1>13, <1>15, <1>16, <1>17, <1>18, <1>19, <1>20, <1>21, <1>22, <1>23, ActorAsks

LEMMA RestoreUnitKeeps ==
  ASSUME DeletionInv, UNCHANGED deletion, NEW w \in Workers, Unit(w) \/ Fault(w)
  PROVE  DeletionInv'
<1> QED BY NoPreparation, RestoreClaims, RestoreAuthorizes, RestoreConnects, RestoreDisconnected, RestoreSaves,
   RestoreSaveRefused, RestoreSaveLost, RestoreThrows, RestoreReports, RestoreCatches, RestoreRereadFails,
   RestoreRecordsFailure, RestoreRecordingFails, RestoreReleases, RestoreCrashes, RestorePrepares, RestoreEnters,
   RestoreResumes, RestoreFinishes, RestoreIntends, RestoreSends, RestoreGivesUp, RestoreAnswered, RestoreLocates
   DEF Unit, Fault

-----------------------------------------------------------------------------
(* Users, clocks and retention.                                             *)

LEMMA RestoreStarts ==
  ASSUME DeletionInv, UNCHANGED deletion, NEW op \in Operations, Startable(op)
  PROVE  DeletionInv'
<1>1. PICK w \in Workers : worker[w].pc = "off" /\ Set(w, Idle(op))
  BY DEF Startable
<1>2. row' = row /\ sent' = sent /\ inflight' = inflight /\ DeletionSame
  BY OutlookOnlySame DEF Startable, environment
<1>3. PICK unit : unit = Idle(op)
  OBVIOUS
<1>4. unit \in Units /\ unit.pc = "idle" /\ unit.version = 0 /\ Set(w, unit)
  BY <1>1, <1>3, NoUnitType
<1>5. RequestsStay(w) /\ RowStays
  BY <1>1, <1>2, RequestsSame, RowSame
<1> QED BY <1>2, <1>4, <1>5, AsleepStep

\* The row's job has been over, or in its restore, since the deletion began.
LEMMA NeitherConfirmedNorDiscarded ==
  ASSUME DeletionInv
  PROVE  ~Confirm /\ ~Discard
<1>1. row.present => row.job.status \in Terminal \cup {"undoing"}
  BY DEF DeletionInv, RowKnows, JobSplit
<1> QED BY <1>1 DEF Confirm, Discard, Authorized, Visible, PreMutation, Terminal

LEMMA RestoreAskedFor ==
  ASSUME DeletionInv, UNCHANGED deletion, Undo
  PROVE  DeletionInv'
<1>1. PICK old : old = row.job
  OBVIOUS
<1>2. PICK job : job = Undoing(old)
  OBVIOUS
<1>3. /\ row.present /\ old.status # "undoing" /\ MayUndo(old) /\ row' = Replaced(row, job) /\ DeletionSame
      /\ worker' = worker /\ sent' = sent /\ inflight' = inflight
  BY <1>1, <1>2, OutlookOnlySame DEF Undo, Authorized, Visible, environment
<1>4. old \in Jobs /\ JobSplit(old) /\ JobKnows(old)
  BY <1>1, <1>3, DeletionRow DEF DeletionInv, RowKnows
<1>5. Onward(old, job) /\ old.deletion.status # "running"
  BY <1>2, <1>3, <1>4, UndoingOnward
<1>6. JobKnows(job) /\ job \in Jobs /\ JobSplit(job)
  BY <1>4, <1>5, OnwardKnows DEF Onward
<1>7. ASSUME NEW a \in Actors, Copy(a).pc = "intended", Owns(row, a)
      PROVE  FALSE
  <2>1. Current(Copy(a)) /\ Aware(a, Copy(a)) /\ Fits(a, Copy(a))
    BY <1>7, InvActor DEF AskerIsAlone
  <2>2. Copy(a).job = old /\ Heading(Copy(a)) = "intended"
    BY <1>1, <1>7, <2>1 DEF Aware, Live, Asleep, Heading
  <2>3. a \in Workers => old.status = "undoing"
    BY <2>1, <2>2 DEF Fits, WorkerFits, Mutating
  <2>4. a \in Deleters => old.deletion.status = "running"
    BY <2>1, <2>2 DEF Fits, DeleterFits
  <2> QED BY <1>3, <1>5, <2>3, <2>4 DEF Actors
<1>8. Written(job) /\ NothingAsked
  BY <1>3, <1>6 DEF Written, NothingAsked, DeletionSame
<1> QED BY <1>3, <1>7, <1>8, UserOutdates DEF DeletionSame

\* Nothing of the job, its units or its requests changes but by age or loss.
LEMMA QuietKeeps ==
  ASSUME DeletionInv, worker' = worker, sent' = sent, DeletionSame, RowStays,
         \A a \in Actors : Owns(row', a) => Owns(row, a), inflight' \subseteq inflight
  PROVE  DeletionInv'
<1>1. NothingAsked /\ inflight' \in SUBSET Requests /\ \A r \in inflight' : r.worker \in Workers => r \in inflight
  BY DEF NothingAsked, DeletionSame, DeletionInv, DeletionTypeOK, Requests
<1> QED BY <1>1, QuietStep DEF DeletionSame

LEMMA LandLateQuiet ==
  ASSUME DeletionInv, UNCHANGED deletion, NEW r \in inflight, LandLate(r)
  PROVE  DeletionInv'
<1>1. worker' = worker /\ sent' = sent /\ row' = row /\ inflight' \subseteq inflight /\ DeletionSame
  BY OutlookOnlySame DEF LandLate
<1> QED BY <1>1, RowSame, QuietKeeps

LEMMA LeavingQuiet ==
  ASSUME DeletionInv, UNCHANGED deletion, DisconnectConnection \/ DisconnectAggregate \/ DisconnectState \/ Rollback
  PROVE  DeletionInv'
<1>1. worker' = worker /\ sent' = sent /\ inflight' \subseteq inflight /\ DeletionSame /\ row' \in {row, Absent}
  BY OutlookOnlySame DEF DisconnectConnection, DisconnectAggregate, DisconnectState, Rollback
<1>2. CASE row' = row
  BY <1>1, <1>2, RowSame, QuietKeeps
<1>3. CASE row' = Absent
  <2>1. RowStays /\ \A a \in Actors : ~Owns(row', a)
    BY <1>3 DEF Absent, RowStays, ActorRows, Rows, Owns, Visible
  <2> QED BY <1>1, <2>1, QuietKeeps
<1> QED BY <1>1, <1>2, <1>3

LEMMA AgingRow ==
  ASSUME DeletionInv, row.present, row' \in {[row EXCEPT !.live = FALSE], [row EXCEPT !.expired = TRUE]}
  PROVE  RowStays /\ \A a \in Actors : Owns(row', a) => Owns(row, a)
<1>1. row \in PresentRows(Actors \cup {Orphan}, Jobs)
  BY DeletionRow DEF DeletionInv
<1>2. /\ row' \in PresentRows(Actors \cup {Orphan}, Jobs) /\ row'.job = row.job /\ row'.version = row.version
      /\ row'.owner = row.owner /\ (row'.live => row.live) /\ (row.expired => row'.expired)
  BY <1>1 DEF PresentRows
<1> QED BY <1>1, <1>2 DEF RowStays, ActorRows, Rows, Owns, Visible

LEMMA AgingQuiet ==
  ASSUME DeletionInv, UNCHANGED deletion, LeaseLapses \/ OrphanLapses \/ StateExpires
  PROVE  DeletionInv'
<1>1. /\ worker' = worker /\ sent' = sent /\ inflight' \subseteq inflight /\ DeletionSame /\ row.present
      /\ row' \in {[row EXCEPT !.live = FALSE], [row EXCEPT !.expired = TRUE]}
  BY OutlookOnlySame DEF LeaseLapses, OrphanLapses, StateExpires, environment, Visible
<1> QED BY <1>1, AgingRow, QuietKeeps

LEMMA OutlookNextKeeps ==
  ASSUME DeletionInv, UNCHANGED deletion, Next
  PROVE  DeletionInv'
<1>1. CASE \E w \in Workers : Unit(w) \/ Fault(w)
  BY <1>1, RestoreUnitKeeps
<1>2. CASE \E r \in inflight : LandLate(r)
  BY <1>2, LandLateQuiet
<1>3. CASE \E op \in Operations : Start(op) \/ Redispatch(op)
  BY <1>3, RestoreStarts DEF Start, Redispatch
<1>4. CASE Confirm \/ Undo \/ Discard
  BY <1>4, NeitherConfirmedNorDiscarded, RestoreAskedFor
<1>5. CASE DisconnectConnection \/ DisconnectAggregate \/ DisconnectState \/ Rollback
  BY <1>5, LeavingQuiet
<1>6. CASE LeaseLapses \/ OrphanLapses \/ StateExpires
  BY <1>6, AgingQuiet
<1> QED BY <1>1, <1>2, <1>3, <1>4, <1>5, <1>6 DEF Next

-----------------------------------------------------------------------------
(* The deletion's changes of the job.                                       *)

LEMMA DeletesMarked ==
  ASSUME NEW job \in Jobs, job.deletion.status = "running", NEW t \in Candidates, NEW state \in DeletionStates,
         \/ job.deletion.target[t] = "pending" /\ state \in {"dispatching", "excluded", "uncertain"}
         \/ job.deletion.target[t] = "dispatching" /\ state \in {"verified_deleted", "uncertain"}
  PROVE  LET marked == MarkDeletion(job, t, state)
             doubted == InDoubtDeletion(MarkDeletion(job, t, state)) IN
         /\ Deletes(job, marked) /\ Deletes(job, doubted) /\ marked.deletion.status = "running"
         /\ \A u \in Candidates :
              /\ marked.deletion.target[u] = IF u = t THEN state ELSE job.deletion.target[u]
              /\ doubted.deletion.target[u] = IF u = t THEN state ELSE job.deletion.target[u]
<1>1. PICK marked : marked = MarkDeletion(job, t, state)
  OBVIOUS
<1>2. /\ marked \in Jobs /\ marked.status = job.status /\ marked.target = job.target
      /\ marked.deletion.status = "running"
      /\ \A u \in Candidates : marked.deletion.target[u] = IF u = t THEN state ELSE job.deletion.target[u]
  BY <1>1, MarkDeletionJob
<1>3. PICK doubted : doubted = [marked EXCEPT !.deletion.status = "uncertain"]
  OBVIOUS
<1>4. /\ doubted \in Jobs /\ doubted.status = marked.status /\ doubted.target = marked.target
      /\ doubted.deletion.status = "uncertain" /\ doubted.deletion.target = marked.deletion.target
  BY <1>2, <1>3, SetDeletion
<1>5. InDoubtDeletion(marked) = doubted
  BY <1>3 DEF InDoubtDeletion
<1>6. Deletes(job, marked) /\ Deletes(job, doubted)
  BY <1>2, <1>4 DEF Deletes
<1> QED BY <1>1, <1>2, <1>4, <1>5, <1>6

LEMMA DeletesEnded ==
  ASSUME NEW job \in Jobs, job.deletion.status = "running"
  PROVE  LET new == [job EXCEPT !.deletion.status = "complete"] IN
         Deletes(job, new) /\ new.deletion.target = job.deletion.target
<1>1. PICK new : new = [job EXCEPT !.deletion.status = "complete"]
  OBVIOUS
<1>2. /\ new \in Jobs /\ new.status = job.status /\ new.target = job.target
      /\ new.deletion.status = "complete" /\ new.deletion.target = job.deletion.target
  BY <1>1, SetDeletion
<1> QED BY <1>1, <1>2 DEF Deletes

LEMMA DeletesInterrupted ==
  ASSUME NEW job \in Jobs, job.deletion.status = "running"
  PROVE  LET new == InterruptedDeletion(job) IN
         /\ Deletes(job, new)
         /\ \A t \in Candidates :
              new.deletion.target[t] = "verified_deleted" => job.deletion.target[t] = "verified_deleted"
<1>1. PICK deletion0 : deletion0 = job.deletion
  OBVIOUS
<1>2. deletion0 \in Deletions /\ deletion0.target \in [Candidates -> DeletionStates]
  BY <1>1, JobType, DeletionType
<1>3. PICK target : target = [t \in Candidates |->
                               IF deletion0.target[t] = "dispatching" THEN "uncertain" ELSE deletion0.target[t]]
  OBVIOUS
<1>4. target \in [Candidates -> DeletionStates]
  BY <1>2, <1>3 DEF DeletionStates
<1>5. PICK left : left = [deletion0 EXCEPT !.target = target]
  OBVIOUS
<1>6. left \in Deletions /\ left.target = target
  BY <1>2, <1>4, <1>5 DEF Deletions
<1>7. PICK marked : marked = [job EXCEPT !.deletion = left]
  OBVIOUS
<1>8. marked \in Jobs /\ marked.status = job.status /\ marked.target = job.target /\ marked.deletion = left
  BY <1>6, <1>7 DEF Jobs
<1>9. PICK new : new = [marked EXCEPT !.deletion.status = "uncertain"]
  OBVIOUS
<1>10. /\ new \in Jobs /\ new.status = marked.status /\ new.target = marked.target
       /\ new.deletion.status = "uncertain" /\ new.deletion.target = marked.deletion.target
  BY <1>8, <1>9, SetDeletion
<1>11. InterruptedDeletion(job) = new
  BY <1>1, <1>3, <1>5, <1>7, <1>9 DEF InterruptedDeletion, InDoubtDeletion
<1>12. \A t \in Candidates :
         new.deletion.target[t] = IF job.deletion.target[t] = "dispatching" THEN "uncertain"
                                  ELSE job.deletion.target[t]
  BY <1>1, <1>3, <1>6, <1>8, <1>10
<1> QED BY <1>8, <1>10, <1>11, <1>12 DEF Deletes

-----------------------------------------------------------------------------
(* What every deleter does.                                                 *)

LEMMA InvDeleter ==
  ASSUME DeletionInv, NEW d \in Deleters
  PROVE  /\ d \in Actors /\ d \notin Workers /\ Copy(d) = deleter[d] /\ deleter[d] \in DeleterUnits
         /\ DeleterFits(deleter[d]) /\ deleter[d].job \in Jobs /\ deleter[d].version \in Nat
         /\ deleter[d].pc \notin Asleep => JobSplit(deleter[d].job)
         /\ Live(deleter[d]) => JobKnows(deleter[d].job)
         /\ row.present => deleter[d].version <= row.version
<1>1. d \in Actors /\ d \notin Workers
  BY PermanentDeleteAssumption DEF Actors
<1>2. Copy(d) = deleter[d] /\ deleter[d] \in DeleterUnits
  BY <1>1, ActorType DEF DeletionInv
<1> QED BY <1>1, <1>2, InvActor DEF Fits, Aware, DeleterUnits

\* Nothing but the deleter, and what it did to the mailbox, changes.
OutlookSame == worker' = worker /\ sent' = sent /\ inflight' = inflight

LEMMA OutlookKept ==
  ASSUME UNCHANGED outlook
  PROVE  OutlookSame /\ mailbox' = mailbox
BY DEF outlook, environment, OutlookSame

LEMMA RequestsNotDeleters ==
  ASSUME DeletionInv, OutlookSame, NEW d \in Deleters
  PROVE  RequestsStay(d)
BY PermanentDeleteAssumption DEF DeletionInv, DeletionTypeOK, RequestsStay, Requests, OutlookSame

\* A deleter goes on with what it made of its copy.
LEMMA DeletionStep ==
  ASSUME DeletionInv, NEW d \in Deleters, NEW unit \in DeleterUnits, SetDeleter(d, unit), row' = row, OutlookSame,
         asked' = asked, gone' = gone, deleter[d].pc \notin Asleep, unit.version = deleter[d].version,
         unit.pc # "intended", JobSplit(unit.job), Live(deleter[d]) => JobKnows(unit.job), DeleterFits(unit),
         Heading(unit) = "intended" => (Live(deleter[d]) => Unasked(d, unit.job))
  PROVE  DeletionInv'
<1>1. /\ d \in Actors /\ d \notin Workers /\ Copy(d) = deleter[d] /\ deleter[d].version \in Nat
      /\ row.present => deleter[d].version <= row.version
  BY InvDeleter
<1>2. Live(unit) => Live(deleter[d])
  BY DEF Live, Current
<1>3. Aware(d, unit) /\ Fits(d, unit)
  BY <1>1, <1>2 DEF Aware, Fits
<1>4. Moves(d, unit) /\ RequestsStay(d)
  BY DeleterMoves, RequestsNotDeleters DEF DeletionInv, OutlookSame
<1>5. RowStays /\ NothingAsked
  BY RowSame DEF NothingAsked, OutlookSame
<1>6. unit.version \in Nat /\ unit.version <= Copy(d).version
  BY <1>1
<1>7. \A b \in Actors : Owns(row', b) => Owns(row, b)
  OBVIOUS
<1> QED BY <1>1, <1>3, <1>4, <1>5, <1>6, <1>7, ActorStep

\* A deleter ends, has not begun, or has only its lease to release.
LEMMA DeleterRests ==
  ASSUME DeletionInv, NEW d \in Deleters, NEW unit \in DeleterUnits, SetDeleter(d, unit), RowStays, OutlookSame,
         asked' = asked, gone' = gone, unit.pc \in {"off", "idle", "leaving", "continuing"}, unit.version = 0,
         \A a \in Actors : Owns(row', a) => Owns(row, a) \/ a = d
  PROVE  DeletionInv'
<1>1. d \in Actors /\ d \notin Workers /\ Copy(d) = deleter[d] /\ deleter[d].version \in Nat
  BY InvDeleter
<1>2. Aware(d, unit) /\ Fits(d, unit) /\ unit.pc # "intended"
  BY <1>1 DEF Aware, Fits, Live, Asleep, DeleterFits, Heading
<1>3. Moves(d, unit) /\ RequestsStay(d)
  BY DeleterMoves, RequestsNotDeleters DEF DeletionInv, OutlookSame
<1>4. NothingAsked /\ unit.version \in Nat /\ unit.version <= Copy(d).version
  BY <1>1 DEF NothingAsked, OutlookSame
<1>5. row.present => unit.version <= row.version
  BY DeletionRow DEF DeletionInv
<1> QED BY <1>1, <1>2, <1>3, <1>4, <1>5, ActorStep

LEMMA NoDeleterType ==
  ASSUME NEW pc \in {"off", "idle", "leaving", "continuing"}, NEW op \in {"accept", "delete"}
  PROVE  LET unit == [NoDeleter EXCEPT !.pc = pc, !.op = op] IN
         unit \in DeleterUnits /\ unit.pc = pc /\ unit.version = 0
<1>1. PICK none : none = NoDeleter
  OBVIOUS
<1>2. none \in DeleterUnits /\ none.version = 0
  BY <1>1, AcceptedType DEF NoDeleter, DeleterUnits, DeleterPCs
<1>3. PICK unit : unit = [none EXCEPT !.pc = pc, !.op = op]
  OBVIOUS
<1>4. pc \in DeleterPCs
  BY DEF DeleterPCs
<1>5. unit \in DeleterUnits /\ unit.pc = pc /\ unit.version = 0
  BY <1>2, <1>3, <1>4 DEF DeleterUnits
<1> QED BY <1>1, <1>3, <1>5

LEMMA ResetDeleterType ==
  /\ NoDeleter \in DeleterUnits /\ NoDeleter.pc = "off" /\ NoDeleter.version = 0
  /\ [NoDeleter EXCEPT !.pc = "idle"] \in DeleterUnits /\ [NoDeleter EXCEPT !.pc = "idle"].pc = "idle"
  /\ [NoDeleter EXCEPT !.pc = "idle"].version = 0
BY AcceptedType DEF NoDeleter, DeleterUnits, DeleterPCs

LEMMA DeleterLeaves ==
  ASSUME DeletionInv, NEW d \in Deleters, LeaveDeletion(d, "leaving"), RowStays, OutlookSame,
         asked' = asked, gone' = gone, \A a \in Actors : Owns(row', a) => Owns(row, a) \/ a = d
  PROVE  DeletionInv'
<1>1. PICK op : op = deleter[d].op
  OBVIOUS
<1>2. op \in {"accept", "delete"}
  BY <1>1, InvDeleter DEF DeleterUnits
<1>3. PICK unit : unit = [NoDeleter EXCEPT !.pc = "leaving", !.op = op]
  OBVIOUS
<1>4. unit \in DeleterUnits /\ unit.pc = "leaving" /\ unit.version = 0
  BY <1>2, <1>3, NoDeleterType
<1>5. SetDeleter(d, unit)
  BY <1>1, <1>3 DEF LeaveDeletion
<1> QED BY <1>4, <1>5, DeleterRests

\* A deleter saves what it made of the job.
LEMMA DeleterSaves ==
  ASSUME DeletionInv, NEW d \in Deleters, NEW job, NEW next \in {"ready", "intended", "leaving"},
         SaveDeletion(d, job, next), row' = row, OutlookSame, asked' = asked, gone' = gone,
         deleter[d].pc \notin Asleep, Deletes(deleter[d].job, job),
         \A t \in Candidates : job.deletion.target[t] = "verified_deleted"
                                 => deleter[d].job.deletion.target[t] = "verified_deleted",
         next \in {"ready", "intended"} => job.deletion.status = "running",
         next = "ready" => Deleting(job, {"dispatching"}) = {},
         next = "intended" => \A t, u \in Deleting(job, {"dispatching"}) : t = u,
         next = "intended" => (Live(deleter[d]) => Unasked(d, job))
  PROVE  DeletionInv'
<1>1. PICK unit : unit = [deleter[d] EXCEPT !.job = job, !.pc = "saving", !.next = next]
  OBVIOUS
<1>2. SetDeleter(d, unit)
  BY <1>1 DEF SaveDeletion
<1>3. deleter[d] \in DeleterUnits /\ job \in Jobs /\ JobSplit(deleter[d].job) /\ deleter[d].job \in Jobs
  BY InvDeleter DEF Deletes
<1>4. unit \in DeleterUnits /\ unit.pc = "saving" /\ unit.next = next /\ unit.job = job /\ unit.version = deleter[d].version
  BY <1>1, <1>3 DEF DeleterUnits, DeleterPCs
<1>5. JobSplit(job)
  BY <1>3, DeletesSplit
<1>6. Live(deleter[d]) => JobKnows(job)
  <2>1. ASSUME JobKnows(deleter[d].job) PROVE \A t \in Candidates : job.deletion.target[t] = "verified_deleted" => t \in gone
    BY <2>1 DEF JobKnows, Knows
  <2> QED BY <2>1, InvDeleter, DeletesKnows
<1>7. DeleterFits(unit)
  BY <1>4 DEF DeleterFits, Heading
<1> QED BY <1>2, <1>4, <1>5, <1>6, <1>7, DeletionStep DEF Heading

-----------------------------------------------------------------------------
(* The steps of a deletion.                                                 *)

LEMMA DeletionCalled ==
  ASSUME DeletionInv, NEW op \in {"accept", "delete"}, CallDelete(op)
  PROVE  DeletionInv'
<1>1. PICK d \in Deleters : SetDeleter(d, [NoDeleter EXCEPT !.pc = "idle", !.op = op])
  BY DEF CallDelete
<1>2. PICK unit : unit = [NoDeleter EXCEPT !.pc = "idle", !.op = op]
  OBVIOUS
<1>3. unit \in DeleterUnits /\ unit.pc = "idle" /\ unit.version = 0
  BY <1>2, NoDeleterType
<1>4. OutlookSame /\ RowStays /\ asked' = asked /\ gone' = gone /\ row' = row
  BY OutlookKept, RowSame DEF CallDelete
<1> QED BY <1>1, <1>2, <1>3, <1>4, DeleterRests

\* A claim from which the deleter goes on, with a copy of the row or what it makes of it.
LEMMA DeletionClaimed ==
  ASSUME DeletionInv, NEW d \in Deleters, Claimable(row), row' = Claimed(row, d), OutlookSame,
         asked' = asked, gone' = gone, NEW unit \in DeleterUnits, SetDeleter(d, unit),
         unit.version = row.version, unit.pc # "intended", Heading(unit) # "intended",
         JobSplit(unit.job), JobKnows(unit.job), DeleterFits(unit)
  PROVE  DeletionInv'
<1>1. d \in Actors /\ d \notin Workers
  BY InvDeleter
<1>2. /\ RowStays /\ row.present /\ row.version \in Nat /\ row'.present
      /\ Owns(row', d) /\ \A b \in Actors : Owns(row', b) => b = d
  BY <1>1, ClaimedActorRow
<1>3. Fits(d, unit) /\ Aware(d, unit)
  BY <1>1 DEF Fits, Aware
<1>4. Moves(d, unit) /\ RequestsStay(d) /\ NothingAsked
  BY DeleterMoves, RequestsNotDeleters DEF DeletionInv, OutlookSame, NothingAsked
<1>5. unit.version <= row.version
  BY <1>2
<1> QED BY <1>1, <1>2, <1>3, <1>4, <1>5, ActorStep

LEMMA DeletionClaims ==
  ASSUME DeletionInv, NEW d \in Deleters, ClaimDeletion(d)
  PROVE  DeletionInv'
<1>a. PICK job : job = row.job
  OBVIOUS
<1>b. PICK mine : mine = [deleter[d] EXCEPT !.job = job, !.version = row.version]
  OBVIOUS
<1>0. OutlookSame /\ asked' = asked /\ gone' = gone /\ deleter[d] \in DeleterUnits /\ d \in Actors
  BY OutlookKept, InvDeleter DEF ClaimDeletion
<1>1. CASE ~Claimable(row)
  <2>1. row' = row /\ SetDeleter(d, NoDeleter)
    BY <1>1 DEF ClaimDeletion
  <2> QED BY <1>0, <2>1, RowSame, ResetDeleterType, DeleterRests
<1>2. CASE Claimable(row)
  <2>1. row' = Claimed(row, d)
    BY <1>2 DEF ClaimDeletion
  <2>2. /\ RowStays /\ row.version \in Nat /\ \A b \in Actors : Owns(row', b) => b = d
        /\ job \in Jobs /\ JobSplit(job) /\ JobKnows(job)
    BY <1>0, <1>2, <1>a, <2>1, ClaimedActorRow
  <2>3. mine \in DeleterUnits /\ mine.version = row.version /\ mine.job = job
    BY <1>0, <1>b, <2>2 DEF DeleterUnits
  <2>4. CASE LeaveDeletion(d, "leaving")
    BY <1>0, <2>2, <2>4, DeleterLeaves
  <2>5. CASE job.deletion.status = "none" /\ Exact(job) # {}
             /\ SetDeleter(d, [mine EXCEPT !.job = Accepted(job), !.pc = "saving", !.next = "leaving"])
    <3>1. PICK accepted : accepted = Accepted(job)
      OBVIOUS
    <3>2. accepted \in Jobs /\ JobSplit(accepted) /\ JobKnows(accepted)
      BY <2>2, <2>5, <3>1, AcceptedDeletion
    <3>3. PICK unit : unit = [mine EXCEPT !.job = accepted, !.pc = "saving", !.next = "leaving"]
      OBVIOUS
    <3>4. /\ unit \in DeleterUnits /\ unit.pc = "saving" /\ unit.next = "leaving" /\ unit.job = accepted
          /\ unit.version = row.version
      BY <2>3, <3>2, <3>3 DEF DeleterUnits, DeleterPCs
    <3>5. DeleterFits(unit) /\ Heading(unit) # "intended" /\ SetDeleter(d, unit)
      BY <2>5, <3>1, <3>3, <3>4 DEF DeleterFits, Heading
    <3> QED BY <1>0, <1>2, <2>1, <3>2, <3>4, <3>5, DeletionClaimed
  <2>6. CASE job.deletion.status = "running"
             /\ SetDeleter(d, [mine EXCEPT !.job = InterruptedDeletion(job), !.pc = "saving", !.next = "leaving"])
    <3>1. PICK left : left = InterruptedDeletion(job)
      OBVIOUS
    <3>2. /\ Deletes(job, left)
          /\ \A t \in Candidates : left.deletion.target[t] = "verified_deleted"
                                     => job.deletion.target[t] = "verified_deleted"
      BY <2>2, <2>6, <3>1, DeletesInterrupted
    <3>3. left \in Jobs /\ JobSplit(left)
      BY <2>2, <3>2, DeletesSplit DEF Deletes
    <3>4. JobKnows(left)
      <4>1. \A t \in Candidates : left.deletion.target[t] = "verified_deleted" => t \in gone
        BY <2>2, <3>2 DEF JobKnows, Knows
      <4> QED BY <2>2, <3>2, <4>1, DeletesKnows
    <3>5. PICK unit : unit = [mine EXCEPT !.job = left, !.pc = "saving", !.next = "leaving"]
      OBVIOUS
    <3>6. /\ unit \in DeleterUnits /\ unit.pc = "saving" /\ unit.next = "leaving" /\ unit.job = left
          /\ unit.version = row.version
      BY <2>3, <3>3, <3>5 DEF DeleterUnits, DeleterPCs
    <3>7. DeleterFits(unit) /\ Heading(unit) # "intended" /\ SetDeleter(d, unit)
      BY <2>6, <3>1, <3>5, <3>6 DEF DeleterFits, Heading
    <3> QED BY <1>0, <1>2, <2>1, <3>3, <3>4, <3>6, <3>7, DeletionClaimed
  <2>7. CASE job.deletion.status = "running" /\ Deleting(job, {"dispatching"}) = {}
             /\ SetDeleter(d, [mine EXCEPT !.pc = "claimed"])
    <3>1. PICK unit : unit = [mine EXCEPT !.pc = "claimed"]
      OBVIOUS
    <3>2. unit \in DeleterUnits /\ unit.pc = "claimed" /\ unit.job = job /\ unit.version = row.version
      BY <2>3, <3>1 DEF DeleterUnits, DeleterPCs
    <3>3. DeleterFits(unit) /\ Heading(unit) # "intended" /\ SetDeleter(d, unit)
      BY <2>7, <3>1, <3>2 DEF DeleterFits, Heading
    <3> QED BY <1>0, <1>2, <2>1, <2>2, <3>2, <3>3, DeletionClaimed
  <2> QED BY <1>2, <1>a, <1>b, <2>4, <2>5, <2>6, <2>7 DEF ClaimDeletion
<1> QED BY <1>1, <1>2

LEMMA DeletionOpens ==
  ASSUME DeletionInv, NEW d \in Deleters, OpenTransport(d)
  PROVE  DeletionInv'
<1>0. /\ OutlookSame /\ asked' = asked /\ gone' = gone /\ row' = row /\ deleter[d].pc = "claimed"
      /\ deleter[d] \in DeleterUnits /\ DeleterFits(deleter[d]) /\ JobSplit(deleter[d].job)
  BY OutlookKept, InvDeleter DEF OpenTransport, Asleep
<1>1. CASE SetDeleter(d, [deleter[d] EXCEPT !.pc = "ready"])
  <2>1. PICK unit : unit = [deleter[d] EXCEPT !.pc = "ready"]
    OBVIOUS
  <2>2. /\ unit \in DeleterUnits /\ unit.pc = "ready" /\ unit.job = deleter[d].job
        /\ unit.version = deleter[d].version
    BY <1>0, <2>1 DEF DeleterUnits, DeleterPCs
  <2>3. DeleterFits(unit) /\ Heading(unit) # "intended"
    BY <1>0, <2>2 DEF DeleterFits, Heading
  <2>4. Live(deleter[d]) => JobKnows(unit.job)
    BY <2>2, InvDeleter
  <2> QED BY <1>0, <1>1, <2>1, <2>2, <2>3, <2>4, DeletionStep DEF Asleep
<1>2. CASE LeaveDeletion(d, "leaving")
  BY <1>0, <1>2, RowSame, DeleterLeaves
<1> QED BY <1>1, <1>2 DEF OpenTransport

\* A deleter's write, under its own live lease, of what it saves.
LEMMA DeleterWrites ==
  ASSUME DeletionInv, NEW d \in Deleters, deleter[d].pc = "saving", Owns(row, d),
         CanReplace(row, deleter[d].version), row' = Replaced(row, deleter[d].job), OutlookSame,
         asked' = asked, gone' = gone, NEW unit \in DeleterUnits, SetDeleter(d, unit), DeleterFits(unit),
         unit.pc # "saving", unit.pc \notin Asleep => unit.job = deleter[d].job,
         unit.version \in {0, deleter[d].version + 1},
         unit.pc = "intended" => unit.version = deleter[d].version + 1 /\ deleter[d].next = "intended"
  PROVE  DeletionInv'
<1>a. PICK job : job = deleter[d].job
  OBVIOUS
<1>1. /\ d \in Actors /\ d \notin Workers /\ Copy(d) = deleter[d] /\ deleter[d].version \in Nat
      /\ job \in Jobs /\ JobSplit(job) /\ (Live(deleter[d]) => JobKnows(job))
  BY <1>a, InvDeleter DEF Asleep
<1>2. row.present /\ deleter[d].version = row.version /\ Live(deleter[d])
  BY DEF CanReplace, Visible, Live, Current, Asleep
<1>3. Written(job) /\ NothingAsked
  BY <1>1, <1>2, <1>a DEF Written, NothingAsked, OutlookSame
<1>4. Fits(d, unit)
  BY <1>1, <1>a DEF Fits
<1>5. Moves(d, unit) /\ RequestsStay(d)
  BY DeleterMoves, RequestsNotDeleters DEF DeletionInv, OutlookSame
<1>6. deleter[d].next = "intended" => Unasked(d, job)
  <2>1. Aware(d, deleter[d])
    BY <1>1, InvActor
  <2> QED BY <1>2, <1>a, <2>1 DEF Aware, Heading
<1>7. unit.version \in Nat /\ unit.version <= row.version + 1
  BY <1>1, <1>2
<1> QED BY <1>1, <1>2, <1>3, <1>4, <1>5, <1>6, <1>7, <1>a, ActorWrites

LEMMA DeletionSaves ==
  ASSUME DeletionInv, NEW d \in Deleters, SaveDeletionCommits(d)
  PROVE  DeletionInv'
<1>0. /\ OutlookSame /\ asked' = asked /\ gone' = gone /\ deleter[d].pc = "saving"
      /\ deleter[d] \in DeleterUnits /\ DeleterFits(deleter[d])
  BY OutlookKept, InvDeleter DEF SaveDeletionCommits
<1>1. CASE Owns(row, d) /\ CanReplace(row, deleter[d].version)
  <2>1. PICK u : u = deleter[d]
    OBVIOUS
  <2>2. PICK version : version = u.version + 1
    OBVIOUS
  <2>3. u \in DeleterUnits /\ version \in Nat /\ u.next \in {"ready", "intended", "leaving", "continuing"}
    BY <1>0, <2>1, <2>2 DEF DeleterUnits, DeleterFits
  <2>4. PICK unit : unit = [u EXCEPT !.pc = u.next, !.version = version]
    OBVIOUS
  <2>5. row' = Replaced(row, deleter[d].job) /\ SetDeleter(d, unit)
    BY <1>1, <2>1, <2>2, <2>4 DEF SaveDeletionCommits
  <2>6. /\ unit \in DeleterUnits /\ unit.pc = deleter[d].next /\ unit.job = deleter[d].job
        /\ unit.version = deleter[d].version + 1
    BY <2>1, <2>2, <2>3, <2>4 DEF DeleterUnits, DeleterPCs
  <2>7. DeleterFits(unit) /\ unit.pc # "saving"
    BY <1>0, <2>1, <2>3, <2>6 DEF DeleterFits, Heading
  <2> QED BY <1>0, <1>1, <2>5, <2>6, <2>7, DeleterWrites
<1>2. CASE ~(Owns(row, d) /\ CanReplace(row, deleter[d].version))
  <2>1. row' = row /\ LeaveDeletion(d, "leaving")
    BY <1>2 DEF SaveDeletionCommits
  <2> QED BY <1>0, <2>1, RowSame, DeleterLeaves
<1> QED BY <1>1, <1>2

LEMMA DeletionSaveLost ==
  ASSUME DeletionInv, NEW d \in Deleters, DeletionResponseLost(d)
  PROVE  DeletionInv'
<1>0. /\ OutlookSame /\ asked' = asked /\ gone' = gone /\ deleter[d].pc = "saving"
      /\ Owns(row, d) /\ CanReplace(row, deleter[d].version) /\ row' = Replaced(row, deleter[d].job)
  BY OutlookKept DEF DeletionResponseLost
<1>1. PICK op : op = deleter[d].op
  OBVIOUS
<1>2. op \in {"accept", "delete"}
  BY <1>1, InvDeleter DEF DeleterUnits
<1>3. PICK unit : unit = [NoDeleter EXCEPT !.pc = "leaving", !.op = op]
  OBVIOUS
<1>4. unit \in DeleterUnits /\ unit.pc = "leaving" /\ unit.version = 0
  BY <1>2, <1>3, NoDeleterType
<1>5. SetDeleter(d, unit) /\ DeleterFits(unit)
  BY <1>1, <1>3, <1>4 DEF DeletionResponseLost, LeaveDeletion, DeleterFits, Heading
<1> QED BY <1>0, <1>4, <1>5, DeleterWrites DEF Asleep

LEMMA DeletionFinishes ==
  ASSUME DeletionInv, NEW d \in Deleters, FinishDeletion(d)
  PROVE  DeletionInv'
<1>0. /\ OutlookSame /\ asked' = asked /\ gone' = gone /\ row' = row /\ deleter[d].pc = "ready"
      /\ DeleterFits(deleter[d]) /\ deleter[d].job \in Jobs
  BY OutlookKept, InvDeleter DEF FinishDeletion
<1>1. deleter[d].job.deletion.status = "running"
  BY <1>0 DEF DeleterFits, Heading
<1>2. PICK job : job = [deleter[d].job EXCEPT !.deletion.status = "complete"]
  OBVIOUS
<1>3. SaveDeletion(d, job, "leaving")
  BY <1>2 DEF FinishDeletion
<1>4. Deletes(deleter[d].job, job) /\ job.deletion.target = deleter[d].job.deletion.target
  BY <1>0, <1>1, <1>2, DeletesEnded
<1> QED BY <1>0, <1>3, <1>4, DeleterSaves DEF Asleep

LEMMA DeletionRechecks ==
  ASSUME DeletionInv, NEW d \in Deleters, Recheck(d)
  PROVE  DeletionInv'
<1>a. PICK job : job = deleter[d].job
  OBVIOUS
<1>0. /\ OutlookSame /\ asked' = asked /\ gone' = gone /\ row' = row /\ deleter[d].pc = "ready"
      /\ DeleterFits(deleter[d]) /\ job \in Jobs /\ d \notin Workers
  BY <1>a, OutlookKept, InvDeleter DEF Recheck
<1>1. job.deletion.status = "running" /\ Deleting(job, {"dispatching"}) = {}
  BY <1>0, <1>a DEF DeleterFits, Heading
<1>2. PICK t \in Pending(d) :
        \/ SaveDeletion(d, MarkDeletion(job, t, "dispatching"), "intended")
        \/ SaveDeletion(d, MarkDeletion(job, t, "excluded"), "ready")
        \/ SaveDeletion(d, InDoubtDeletion(MarkDeletion(job, t, "uncertain")), "leaving")
  BY <1>a DEF Recheck
<1>3. t \in Candidates /\ job.deletion.target[t] = "pending"
  BY <1>2, <1>a DEF Pending, First, Deleting
<1>4. CASE SaveDeletion(d, MarkDeletion(job, t, "dispatching"), "intended")
  <2>1. PICK new : new = MarkDeletion(job, t, "dispatching")
    OBVIOUS
  <2>2. /\ Deletes(job, new) /\ new.deletion.status = "running"
        /\ \A u \in Candidates : new.deletion.target[u] = IF u = t THEN "dispatching" ELSE job.deletion.target[u]
    BY <1>0, <1>1, <1>3, <2>1, DeletesMarked DEF DeletionStates
  <2>3. \A u \in Deleting(new, {"dispatching"}) : u = t
    BY <1>1, <2>2 DEF Deleting
  <2>4. Live(deleter[d]) => Unasked(d, new)
    <3>1. ASSUME Live(deleter[d]) PROVE asked[t] = 0
      <4>1. Knows(job, t)
        BY <1>a, <1>3, <3>1, InvDeleter DEF JobKnows
      <4>2. ~(asked[t] > 0)
        BY <1>3, <4>1 DEF Knows, AskedStates
      <4>3. asked \in [Candidates -> Nat]
        BY DEF DeletionInv, DeletionTypeOK
      <4> QED BY <1>3, <4>2, <4>3
    <3> QED BY <1>0, <2>3, <3>1 DEF Unasked
  <2>5. \A u \in Candidates : new.deletion.target[u] = "verified_deleted" => job.deletion.target[u] = "verified_deleted"
    BY <2>2
  <2> QED BY <1>0, <1>4, <1>a, <2>1, <2>2, <2>3, <2>4, <2>5, DeleterSaves DEF Asleep
<1>5. CASE SaveDeletion(d, MarkDeletion(job, t, "excluded"), "ready")
  <2>1. PICK new : new = MarkDeletion(job, t, "excluded")
    OBVIOUS
  <2>2. /\ Deletes(job, new) /\ new.deletion.status = "running"
        /\ \A u \in Candidates : new.deletion.target[u] = IF u = t THEN "excluded" ELSE job.deletion.target[u]
    BY <1>0, <1>1, <1>3, <2>1, DeletesMarked DEF DeletionStates
  <2>3. Deleting(new, {"dispatching"}) = {}
    BY <1>1, <2>2 DEF Deleting
  <2>4. \A u \in Candidates : new.deletion.target[u] = "verified_deleted" => job.deletion.target[u] = "verified_deleted"
    BY <2>2
  <2> QED BY <1>0, <1>5, <1>a, <2>1, <2>2, <2>3, <2>4, DeleterSaves DEF Asleep
<1>6. CASE SaveDeletion(d, InDoubtDeletion(MarkDeletion(job, t, "uncertain")), "leaving")
  <2>1. PICK new : new = InDoubtDeletion(MarkDeletion(job, t, "uncertain"))
    OBVIOUS
  <2>2. /\ Deletes(job, new)
        /\ \A u \in Candidates : new.deletion.target[u] = IF u = t THEN "uncertain" ELSE job.deletion.target[u]
    BY <1>0, <1>1, <1>3, <2>1, DeletesMarked DEF DeletionStates
  <2>3. \A u \in Candidates : new.deletion.target[u] = "verified_deleted" => job.deletion.target[u] = "verified_deleted"
    BY <2>2
  <2> QED BY <1>0, <1>6, <1>a, <2>1, <2>2, <2>3, DeleterSaves DEF Asleep
<1> QED BY <1>2, <1>4, <1>5, <1>6

\* The request of the deleter that alone has a live copy: nobody asked before.
LEMMA DeleterAsks ==
  ASSUME DeletionInv, NEW d \in Deleters, deleter[d].pc = "intended", Owns(row, d),
         NEW t \in Deleting(deleter[d].job, {"dispatching"}),
         asked' = [asked EXCEPT ![t] = @ + 1], OutlookSame, gone \subseteq gone',
         NEW job, job = deleter[d].job
  PROVE  /\ AskedOnce' /\ asked' \in [Candidates -> Nat] /\ sent' \in [Mutations -> [Candidates -> Nat]]
         /\ JobKnows(job)' /\ Current(deleter[d]) /\ row.job = job
<1>0. /\ d \in Actors /\ d \notin Workers /\ Copy(d) = deleter[d] /\ job \in Jobs /\ JobSplit(job)
      /\ AskedOnce /\ asked \in [Candidates -> Nat] /\ sent \in [Mutations -> [Candidates -> Nat]]
      /\ DeleterFits(deleter[d])
  BY InvDeleter DEF DeletionInv, DeletionTypeOK, Asleep
<1>1. Current(deleter[d]) /\ Live(deleter[d]) /\ Heading(deleter[d]) = "intended"
  BY <1>0, InvActor DEF AskerIsAlone, Live, Asleep, Heading
<1>2. row.job = job /\ JobKnows(job) /\ asked[t] = 0
  <2>1. Aware(d, deleter[d])
    BY <1>0, InvActor
  <2> QED BY <1>0, <1>1, <2>1 DEF Aware, Unasked
<1>3. t \in Candidates /\ job.deletion.target[t] = "dispatching" /\ job.deletion.status = "running"
  BY <1>0, <1>1 DEF Deleting, DeleterFits
<1>4. sent["undo"][t] = 0
  <2>1. job.target[t] = "moved_verified"
    BY <1>0, <1>3 DEF JobSplit, Blocked
  <2>2. ~(sent["undo"][t] > 0)
    BY <1>2, <1>3, <2>1 DEF JobKnows, Knows, RestoreStates
  <2>3. sent["undo"] \in [Candidates -> Nat]
    BY <1>0 DEF Mutations
  <2> QED BY <1>3, <2>2, <2>3
<1>5. /\ asked' \in [Candidates -> Nat] /\ asked'[t] = 1
      /\ \A u \in Candidates \ {t} : asked'[u] = asked[u]
  <2>1. PICK n : n = asked[t] + 1
    OBVIOUS
  <2>2. n = 1 /\ n \in Nat
    BY <1>2, <2>1
  <2>3. asked' = [asked EXCEPT ![t] = n]
    BY <2>1
  <2> QED BY <1>0, <1>3, <2>2, <2>3
<1>6. AskedOnce'
  <2>1. ASSUME NEW u \in Candidates PROVE asked'[u] + sent'["undo"][u] <= 1
    <3>1. sent'["undo"][u] = sent["undo"][u]
      BY DEF OutlookSame
    <3>2. CASE u = t
      BY <1>4, <1>5, <3>1, <3>2
    <3>3. CASE u # t
      BY <1>0, <1>5, <2>1, <3>1, <3>3 DEF AskedOnce
    <3> QED BY <3>2, <3>3
  <2> QED BY <2>1 DEF AskedOnce
<1>7. JobKnows(job)'
  <2>1. ASSUME NEW u \in Candidates PROVE Knows(job, u)'
    <3>1. Knows(job, u)
      BY <1>2, <2>1 DEF JobKnows
    <3>2. asked'[u] > 0 => job.deletion.target[u] \in AskedStates
      BY <1>3, <1>5, <2>1, <3>1 DEF Knows, AskedStates
    <3> QED BY <3>1, <3>2 DEF Knows, OutlookSame
  <2> QED BY <2>1 DEF JobKnows
<1> QED BY <1>0, <1>1, <1>2, <1>5, <1>6, <1>7 DEF OutlookSame

LEMMA DeletesKnowsNext ==
  ASSUME NEW old, NEW new, Deletes(old, new), JobKnows(old)',
         \A t \in Candidates : new.deletion.target[t] = "verified_deleted" => t \in gone'
  PROVE  JobKnows(new)'
<1>1. ASSUME NEW t \in Candidates
      PROVE  Knows(new, t)'
  BY <1>1 DEF Deletes, JobKnows, Knows, AskedStates
<1> QED BY <1>1 DEF JobKnows

\* What the deleter does after its request: it saves the answer, or is gone.
LEMMA DeleterAsked ==
  ASSUME DeletionInv, NEW d \in Deleters, deleter[d].pc = "intended", Owns(row, d),
         NEW t \in Deleting(deleter[d].job, {"dispatching"}),
         asked' = [asked EXCEPT ![t] = @ + 1], OutlookSame, gone \subseteq gone',
         RowStays, row'.present, \A b \in Actors : Owns(row', b) => Owns(row, b),
         NEW unit \in DeleterUnits, SetDeleter(d, unit), unit.version <= deleter[d].version,
         DeleterFits(unit), Heading(unit) # "intended", unit.pc # "intended",
         \/ unit.pc \in Asleep
         \/ /\ Deletes(deleter[d].job, unit.job)
            /\ \A u \in Candidates : unit.job.deletion.target[u] = "verified_deleted" =>
                 deleter[d].job.deletion.target[u] = "verified_deleted" \/ u \in gone'
  PROVE  DeletionInv'
<1>a. PICK job : job = deleter[d].job
  OBVIOUS
<1>0. /\ d \in Actors /\ d \notin Workers /\ Copy(d) = deleter[d] /\ job \in Jobs /\ JobSplit(job)
      /\ deleter[d].version \in Nat /\ DeletionTypeOK /\ RestoresMatch
  BY <1>a, InvDeleter DEF DeletionInv, Asleep
<1>1. /\ AskedOnce' /\ asked' \in [Candidates -> Nat] /\ sent' \in [Mutations -> [Candidates -> Nat]]
      /\ JobKnows(job)' /\ Current(deleter[d]) /\ row.job = job
  BY <1>a, DeleterAsks
<1>2. JobKnows(row.job)'
  <2>1. row'.job = job
    BY <1>1 DEF RowStays
  <2> QED BY <1>1, <2>1, KnowsPrimed
<1>3. unit.pc \notin Asleep => JobKnows(unit.job)' /\ JobSplit(unit.job)
  <2> SUFFICES ASSUME unit.pc \notin Asleep
               PROVE  JobKnows(unit.job)' /\ JobSplit(unit.job)
    OBVIOUS
  <2>1. Deletes(job, unit.job) /\ unit.job \in Jobs
    BY <1>a DEF DeleterUnits
  <2>2. \A u \in Candidates : unit.job.deletion.target[u] = "verified_deleted" => u \in gone'
    BY <1>1, <1>a DEF JobKnows, Knows
  <2> QED BY <1>0, <1>1, <2>1, <2>2, DeletesSplit, DeletesKnowsNext
<1>4. Fits(d, unit)
  BY <1>0, <1>3 DEF Fits
<1>5. Aware(d, unit)'
  BY <1>3 DEF Aware, Live, Heading
<1>6. Moves(d, unit)
  BY <1>0, DeleterMoves DEF OutlookSame
<1>7. RestoresMatch'
  BY <1>0 DEF RestoresMatch, OutlookSame, In
<1>8. row.version \in Nat /\ unit.version \in Nat /\ unit.version <= row.version
  <2>1. row.version = deleter[d].version
    BY <1>1 DEF Current
  <2> QED BY <1>0, <2>1 DEF DeleterUnits
<1>9. row' \in ActorRows /\ row'.job = row.job /\ row'.version = row.version
  BY DEF RowStays
<1>10. \A b \in Actors \ {d} : ~Owns(row', b)
  BY DEF Owns
<1>11. inflight' \in SUBSET Requests
  BY <1>0 DEF OutlookSame, DeletionTypeOK, Requests
<1> QED BY <1>0, <1>1, <1>2, <1>4, <1>5, <1>6, <1>7, <1>8, <1>9, <1>10, <1>11, ActorAsks

LEMMA DeletionAsks ==
  ASSUME DeletionInv, NEW d \in Deleters, Remove(d)
  PROVE  DeletionInv'
<1>a. PICK job : job = deleter[d].job
  OBVIOUS
<1>0. /\ OutlookSame /\ row' = row /\ deleter[d].pc = "intended" /\ Owns(row, d)
      /\ DeleterFits(deleter[d]) /\ job \in Jobs /\ deleter[d] \in DeleterUnits
  BY <1>a, OutlookKept, InvDeleter DEF Remove
<1>1. PICK t \in Deleting(job, {"dispatching"}) :
        /\ asked' = [asked EXCEPT ![t] = @ + 1]
        /\ \/ /\ gone' = gone \cup {t}
              /\ \E next \in {"ready", "continuing"} :
                   SaveDeletion(d, MarkDeletion(job, t, "verified_deleted"), next)
           \/ /\ gone' = gone
              /\ SaveDeletion(d, InDoubtDeletion(MarkDeletion(job, t, "uncertain")), "leaving")
  BY <1>a DEF Remove
<1>2. /\ job.deletion.status = "running" /\ t \in Candidates /\ job.deletion.target[t] = "dispatching"
      /\ \A u \in Deleting(job, {"dispatching"}) : u = t
  BY <1>0, <1>1, <1>a DEF DeleterFits, Heading, Deleting
<1>3. RowStays /\ row'.present
  BY <1>0, RowSame DEF Owns, Visible
<1>4. ASSUME NEW new, NEW next \in {"ready", "continuing", "leaving"}, SaveDeletion(d, new, next), Deletes(job, new),
             next = "ready" => new.deletion.status = "running" /\ Deleting(new, {"dispatching"}) = {},
             gone \subseteq gone', \A u \in Candidates : new.deletion.target[u] = "verified_deleted" =>
                job.deletion.target[u] = "verified_deleted" \/ u \in gone'
      PROVE  DeletionInv'
  <2>1. PICK unit : unit = [deleter[d] EXCEPT !.job = new, !.pc = "saving", !.next = next]
    OBVIOUS
  <2>2. /\ unit \in DeleterUnits /\ unit.pc = "saving" /\ unit.next = next /\ unit.job = new
        /\ unit.version = deleter[d].version
    BY <1>0, <1>4, <2>1 DEF DeleterUnits, DeleterPCs, Deletes
  <2>3. DeleterFits(unit) /\ Heading(unit) # "intended" /\ SetDeleter(d, unit)
    BY <1>4, <2>1, <2>2 DEF DeleterFits, Heading, SaveDeletion
  <2>4. unit.version <= deleter[d].version
    BY <1>0, <2>2 DEF DeleterUnits
  <2> QED BY <1>0, <1>1, <1>3, <1>4, <1>a, <2>2, <2>3, <2>4, DeleterAsked
<1>5. CASE gone' = gone \cup {t} /\ \E next \in {"ready", "continuing"} :
              SaveDeletion(d, MarkDeletion(job, t, "verified_deleted"), next)
  <2>1. PICK next \in {"ready", "continuing"} : SaveDeletion(d, MarkDeletion(job, t, "verified_deleted"), next)
    BY <1>5
  <2>2. PICK new : new = MarkDeletion(job, t, "verified_deleted")
    OBVIOUS
  <2>3. /\ Deletes(job, new) /\ new.deletion.status = "running"
        /\ \A u \in Candidates : new.deletion.target[u] =
             IF u = t THEN "verified_deleted" ELSE job.deletion.target[u]
    BY <1>0, <1>2, <2>2, DeletesMarked DEF DeletionStates
  <2>4. Deleting(new, {"dispatching"}) = {}
    BY <1>2, <2>3 DEF Deleting
  <2>5. \A u \in Candidates : new.deletion.target[u] = "verified_deleted" =>
           job.deletion.target[u] = "verified_deleted" \/ u \in gone'
    BY <1>5, <2>3
  <2> QED BY <1>4, <1>5, <2>1, <2>2, <2>3, <2>4, <2>5
<1>6. CASE gone' = gone /\ SaveDeletion(d, InDoubtDeletion(MarkDeletion(job, t, "uncertain")), "leaving")
  <2>1. PICK new : new = InDoubtDeletion(MarkDeletion(job, t, "uncertain"))
    OBVIOUS
  <2>2. /\ Deletes(job, new)
        /\ \A u \in Candidates : new.deletion.target[u] = IF u = t THEN "uncertain" ELSE job.deletion.target[u]
    BY <1>0, <1>2, <2>1, DeletesMarked DEF DeletionStates
  <2>3. \A u \in Candidates : new.deletion.target[u] = "verified_deleted" =>
           job.deletion.target[u] = "verified_deleted" \/ u \in gone'
    BY <2>2
  <2> QED BY <1>4, <1>6, <2>1, <2>2, <2>3
<1> QED BY <1>1, <1>5, <1>6

LEMMA DeletionFenced ==
  ASSUME DeletionInv, NEW d \in Deleters, RemoveFenced(d)
  PROVE  DeletionInv'
<1>a. PICK job : job = deleter[d].job
  OBVIOUS
<1>0. /\ OutlookSame /\ asked' = asked /\ gone' = gone /\ row' = row /\ deleter[d].pc = "intended"
      /\ DeleterFits(deleter[d]) /\ job \in Jobs
  BY <1>a, OutlookKept, InvDeleter DEF RemoveFenced
<1>1. PICK t \in Deleting(job, {"dispatching"}) :
        SaveDeletion(d, InDoubtDeletion(MarkDeletion(job, t, "uncertain")), "leaving")
  BY <1>a DEF RemoveFenced
<1>2. job.deletion.status = "running" /\ t \in Candidates /\ job.deletion.target[t] = "dispatching"
  BY <1>0, <1>1, <1>a DEF DeleterFits, Heading, Deleting
<1>3. PICK new : new = InDoubtDeletion(MarkDeletion(job, t, "uncertain"))
  OBVIOUS
<1>4. /\ Deletes(job, new)
      /\ \A u \in Candidates : new.deletion.target[u] = IF u = t THEN "uncertain" ELSE job.deletion.target[u]
  BY <1>0, <1>2, <1>3, DeletesMarked DEF DeletionStates
<1>5. \A u \in Candidates : new.deletion.target[u] = "verified_deleted" => job.deletion.target[u] = "verified_deleted"
  BY <1>4
<1> QED BY <1>0, <1>1, <1>3, <1>4, <1>5, <1>a, DeleterSaves DEF Asleep

LEMMA DeletionReleases ==
  ASSUME DeletionInv, NEW d \in Deleters, ReleaseDeletion(d)
  PROVE  DeletionInv'
<1>0. OutlookSame /\ asked' = asked /\ gone' = gone /\ row' = Released(row, d) /\ d \in Actors
  BY OutlookKept, InvDeleter DEF ReleaseDeletion
<1>1. PICK unit : unit = IF deleter[d].pc = "continuing" THEN [NoDeleter EXCEPT !.pc = "idle"] ELSE NoDeleter
  OBVIOUS
<1>2. SetDeleter(d, unit)
  BY <1>1 DEF ReleaseDeletion
<1>3. unit \in DeleterUnits /\ unit.pc \in {"off", "idle"} /\ unit.version = 0
  BY <1>1, ResetDeleterType
<1>4. RowStays /\ \A b \in Actors : Owns(row', b) => Owns(row, b)
  BY <1>0, ReleasedRow
<1> QED BY <1>0, <1>2, <1>3, <1>4, DeleterRests

LEMMA DeletionCrashes ==
  ASSUME DeletionInv, NEW d \in Deleters, CrashDeletion(d)
  PROVE  DeletionInv'
<1>0. /\ OutlookSame /\ gone' = gone /\ d \in Actors /\ SetDeleter(d, NoDeleter)
      /\ row' = IF row.present /\ row.owner = d THEN [row EXCEPT !.owner = Orphan] ELSE row
  BY OutlookKept, InvDeleter DEF CrashDeletion
<1>1. RowStays /\ (row.present => row'.present) /\ \A b \in Actors : Owns(row', b) => Owns(row, b)
  BY <1>0, OrphanedRow
<1>2. CASE asked' = asked
  BY <1>0, <1>1, <1>2, ResetDeleterType, DeleterRests
<1>3. CASE deleter[d].pc = "intended" /\ Owns(row, d)
           /\ \E t \in Deleting(deleter[d].job, {"dispatching"}) : asked' = [asked EXCEPT ![t] = @ + 1]
  <2>1. PICK t \in Deleting(deleter[d].job, {"dispatching"}) : asked' = [asked EXCEPT ![t] = @ + 1]
    BY <1>3
  <2>2. PICK unit : unit = NoDeleter
    OBVIOUS
  <2>3. /\ unit \in DeleterUnits /\ unit.pc = "off" /\ unit.version = 0 /\ deleter[d].version \in Nat
        /\ SetDeleter(d, unit)
    BY <1>0, <2>2, ResetDeleterType, InvDeleter
  <2>4. DeleterFits(unit) /\ Heading(unit) # "intended" /\ unit.pc \in Asleep
    BY <2>3 DEF DeleterFits, Heading, Asleep
  <2>5. row'.present /\ unit.version <= deleter[d].version
    BY <1>1, <1>3, <2>3 DEF Owns, Visible
  <2> QED BY <1>0, <1>1, <1>3, <2>1, <2>3, <2>4, <2>5, DeleterAsked
<1> QED BY <1>2, <1>3 DEF CrashDeletion

-----------------------------------------------------------------------------
(* The deletion's requests and leases, and the whole.                       *)

LEMMA RemovalLandsQuiet ==
  ASSUME DeletionInv, NEW t \in removing, RemovalLands(t)
  PROVE  DeletionInv'
<1>1. OutlookSame /\ row' = row /\ asked' = asked /\ deleter' = deleter /\ gone \subseteq gone'
  BY OutlookKept DEF RemovalLands
<1>2. NothingAsked /\ RowStays /\ inflight' \in SUBSET Requests
  BY <1>1, RowSame DEF NothingAsked, OutlookSame, DeletionInv, DeletionTypeOK, Requests
<1> QED BY <1>1, <1>2, QuietStep DEF OutlookSame

LEMMA DeletionLeaseLapsesQuiet ==
  ASSUME DeletionInv, DeletionLeaseLapses
  PROVE  DeletionInv'
<1>1. /\ OutlookSame /\ asked' = asked /\ deleter' = deleter /\ gone' = gone /\ row.present
      /\ row' = [row EXCEPT !.live = FALSE]
  BY OutlookKept DEF DeletionLeaseLapses
<1>2. RowStays /\ \A a \in Actors : Owns(row', a) => Owns(row, a)
  BY <1>1, AgingRow
<1>3. NothingAsked /\ inflight' \in SUBSET Requests
  BY <1>1 DEF NothingAsked, OutlookSame, DeletionInv, DeletionTypeOK, Requests
<1> QED BY <1>1, <1>2, <1>3, QuietStep DEF OutlookSame

LEMMA DeletionStutter ==
  ASSUME DeletionInv, UNCHANGED <<vars, deletion>>
  PROVE  DeletionInv'
<1>1. worker' = worker /\ sent' = sent /\ inflight' = inflight /\ row' = row /\ DeletionSame
  BY OutlookOnlySame DEF vars
<1> QED BY <1>1, RowSame, QuietKeeps

LEMMA DeletionNextKeeps ==
  ASSUME DeletionInv, [DeletionNext]_<<vars, deletion>>
  PROVE  DeletionInv'
<1>1. CASE Next /\ UNCHANGED deletion
  BY <1>1, OutlookNextKeeps
<1>2. CASE \E op \in {"accept", "delete"} : CallDelete(op)
  BY <1>2, DeletionCalled
<1>3. CASE \E d \in Deleters : Deletion(d)
  BY <1>3, DeletionClaims, DeletionOpens, DeletionSaves, DeletionFinishes, DeletionRechecks, DeletionAsks,
     DeletionFenced, DeletionReleases, DeletionCrashes, DeletionSaveLost DEF Deletion
<1>4. CASE \E t \in removing : RemovalLands(t)
  BY <1>4, RemovalLandsQuiet
<1>5. CASE DeletionLeaseLapses
  BY <1>5, DeletionLeaseLapsesQuiet
<1>6. CASE UNCHANGED <<vars, deletion>>
  BY <1>6, DeletionStutter
<1> QED BY <1>1, <1>2, <1>3, <1>4, <1>5, <1>6 DEF DeletionNext

LEMMA FinishedJobType ==
  ASSUME NEW target \in [Candidates -> TargetStates]
  PROVE  LET job == FinishedJob(target) IN
         /\ job \in Jobs /\ job.status \in {"uncertain", "partial", "complete"}
         /\ job.deletion = NoDeletion /\ job.target = target
<1>1. PICK accepted : accepted = AcceptedJob
  OBVIOUS
<1>2. accepted \in Jobs /\ accepted.deletion = NoDeletion
  BY <1>1, AcceptedType DEF AcceptedJob
<1>3. PICK base : base = [accepted EXCEPT !.status = "running", !.confirmed = TRUE, !.verifying = TRUE,
                                          !.safe = TRUE, !.target = target]
  OBVIOUS
<1>4. base \in Jobs /\ base.deletion = NoDeletion /\ base.target = target
  BY <1>2, <1>3 DEF Jobs, JobStatuses
<1>5. PICK status : status = IF Uncertain(base) # {} THEN "uncertain"
                             ELSE IF FailedTargets(base) # {} THEN "partial" ELSE "complete"
  OBVIOUS
<1>6. status \in {"uncertain", "partial", "complete"} /\ status \in JobStatuses
  BY <1>5 DEF JobStatuses
<1>7. PICK job : job = Refreshed([base EXCEPT !.status = status])
  OBVIOUS
<1>8. job \in Jobs /\ job.status = status /\ job.deletion = base.deletion /\ job.target = base.target
  BY <1>4, <1>6, <1>7, EndedJob
<1>9. FinishedJob(target) = job
  BY <1>1, <1>3, <1>5, <1>7 DEF FinishedJob, Finished
<1> QED BY <1>4, <1>6, <1>8, <1>9

LEMMA DeletionStarts ==
  ASSUME FinishedInit
  PROVE  DeletionInv
<1>1. PICK target \in [Candidates -> {"moved_verified", "move_uncertain"}] : row = Created(FinishedJob(target))
  BY DEF FinishedInit
<1>2. target \in [Candidates -> TargetStates]
  BY <1>1 DEF TargetStates, UncertainStates
<1>3. PICK job : job = FinishedJob(target)
  OBVIOUS
<1>4. job \in Jobs /\ job.status \in Terminal \ {"undo_complete"} /\ job.deletion = NoDeletion
  BY <1>2, <1>3, FinishedJobType DEF Terminal
<1>5. /\ row \in Rows(Actors \cup {Orphan}, Jobs) /\ row.present /\ row.version = 1 /\ row.job = job
      /\ ~row.live
  BY <1>1, <1>3, <1>4 DEF Created, Rows, PresentRows
<1>6. /\ worker = [w \in Workers |-> NoUnit] /\ deleter = [d \in Deleters |-> NoDeleter] /\ inflight = {}
      /\ sent = [op \in Mutations |-> [t \in Candidates |-> IF op = "cleanup" THEN 1 ELSE 0]]
      /\ asked = [t \in Candidates |-> 0]
  BY DEF FinishedInit
<1>7. /\ sent \in [Mutations -> [Candidates -> Nat]] /\ asked \in [Candidates -> Nat]
      /\ \A t \in Candidates : sent["undo"][t] = 0 /\ asked[t] = 0
  BY <1>6 DEF Mutations
<1>8. DeletionTypeOK
  <2>1. worker \in [Workers -> Units] /\ deleter \in [Deleters -> DeleterUnits]
    BY <1>6, NoUnitType, ResetDeleterType
  <2>2. inflight \in SUBSET [worker : Owners, op : Mutations, targets : SUBSET Candidates]
    BY <1>6
  <2> QED BY <1>5, <1>7, <2>1, <2>2 DEF DeletionTypeOK
<1>9. JobSplit(job) /\ JobKnows(job)
  <2>1. \A t \in Candidates : job.deletion.target[t] = "none"
    BY <1>4 DEF NoDeletion
  <2> QED BY <1>4, <1>7, <2>1 DEF JobSplit, JobKnows, Knows
<1>10. ASSUME NEW a \in Actors
       PROVE  /\ Fits(a, Copy(a)) /\ Aware(a, Copy(a)) /\ AskerIsAlone(a) /\ Copy(a).version = 0
  <2>1. CASE a \in Workers
    <3>1. Copy(a) = NoUnit /\ a \notin Deleters
      BY <1>6, <2>1, PermanentDeleteAssumption DEF Copy
    <3> QED BY <3>1, NoUnitType DEF Fits, Aware, AskerIsAlone, Live, Asleep, WorkerFits, Heading, Mutating
  <2>2. CASE a \in Deleters
    <3>1. Copy(a) = NoDeleter /\ a \notin Workers
      BY <1>6, <2>2, PermanentDeleteAssumption DEF Copy
    <3> QED BY <3>1, ResetDeleterType DEF Fits, Aware, AskerIsAlone, Live, Asleep, DeleterFits, Heading
  <2> QED BY <1>10, <2>1, <2>2 DEF Actors
<1>11. AskedOnce
  BY <1>7 DEF AskedOnce
<1>12. RowKnows
  BY <1>5, <1>9, <1>10 DEF RowKnows
<1>13. RestoresMatch
  BY <1>6 DEF RestoresMatch
<1> QED BY <1>8, <1>10, <1>11, <1>12, <1>13 DEF DeletionInv, ActorsFit

-----------------------------------------------------------------------------

\* The row, whoever wrote it last, and every copy that may still replace it
\* know of every message what was asked of it.
THEOREM DeletionCorrect == DeletionSpec => []DeletionInv
BY DeletionStarts, DeletionNextKeeps, PTL DEF DeletionSpec

\* A message is asked once, to be restored or to be deleted: however many
\* restores and deletions start, stall, lose their lease or die.
THEOREM AskedForOnce == DeletionSpec => []AskedOnce
<1>1. DeletionInv => AskedOnce
  BY DEF DeletionInv
<1> QED BY <1>1, DeletionCorrect, PTL

LEMMA DeletionInvTrue ==
  ASSUME DeletionInv
  PROVE  DeletionIsTrue
<1> SUFFICES ASSUME row.present
             PROVE  /\ \A t \in Candidates :
                         /\ row.job.deletion.target[t] = "verified_deleted" => t \in gone
                         /\ row.job.deletion.target[t] \in {"none", "pending", "excluded"} => asked[t] = 0
                    /\ row.job.status = "undo_complete" => \A t \in Candidates : asked[t] = 0
  BY DEF DeletionIsTrue
<1>1. JobSplit(row.job) /\ JobKnows(row.job) /\ asked \in [Candidates -> Nat] /\ row.job \in Jobs
  BY DeletionRow DEF DeletionInv, RowKnows, DeletionTypeOK
<1>2. ASSUME NEW t \in Candidates, row.job.deletion.target[t] \notin AskedStates
      PROVE  asked[t] = 0
  <2>1. ~(asked[t] > 0)
    BY <1>1, <1>2 DEF JobKnows, Knows
  <2> QED BY <1>1, <1>2, <2>1
<1>3. ASSUME NEW t \in Candidates, row.job.status = "undo_complete"
      PROVE  row.job.deletion.target[t] \notin AskedStates
  <2>1. row.job.target[t] # "moved_verified"
    BY <1>1, <1>3 DEF JobSplit
  <2> QED BY <1>1, <1>3, <2>1 DEF JobSplit, Blocked, AskedStates
<1>4. ASSUME NEW t \in Candidates, row.job.deletion.target[t] = "verified_deleted"
      PROVE  t \in gone
  BY <1>1, <1>4 DEF JobKnows, Knows
<1> QED BY <1>2, <1>3, <1>4 DEF AskedStates

\* What the row says of a deletion is so: what is verified deleted is gone, what
\* waits was not asked for, and a complete restore lost no message to a deletion.
THEOREM DeletionTrue == DeletionSpec => []DeletionIsTrue
BY DeletionInvTrue, DeletionCorrect, PTL
=============================================================================
