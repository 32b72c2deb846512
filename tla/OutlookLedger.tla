--------------------------- MODULE OutlookLedger ---------------------------
(***************************************************************************)
(* The inductive invariant of OutlookCleanup.                               *)
(*                                                                          *)
(* It speaks of three kinds of ledger: the row's, the copies that are current *)
(* (their unit believes the row to have the version it has, so a write may  *)
(* replace it by them), and the copies that are not, which no longer matter.  *)
(* A ledger never says more of a message than its requests allow.             *)
(***************************************************************************)
EXTENDS OutlookCleanup

Untouched == {"candidate", "dropped", "frozen", "excluded", "recheck_uncertain"}
RestoreStates ==
  {"restore_dispatching", "restore_dispatched", "restored_verified", "restore_failed", "restore_uncertain"}
OpenStates == {"move_dispatching", "move_uncertain", "restore_dispatching", "restore_uncertain"}

\* The states of a job whose cleanup is complete, and of one whose restore is.
CleanedUp == {"candidate", "dropped", "frozen", "excluded", "moved_verified"}
AtRest == {"candidate", "dropped", "frozen", "excluded", "move_failed", "restored_verified"}

InFlight(t) == \E r \in inflight : t \in r.targets

-----------------------------------------------------------------------------
(* The job by itself.                                                       *)

\* Between the batches nothing is pending, and each status has its targets.
JobFits(job) ==
  /\ job.deletion = NoDeletion
  /\ In(job, {"move_dispatching", "move_dispatched"}) \subseteq job.moving
  /\ In(job, {"restore_dispatching", "restore_dispatched"}) \subseteq job.restoring
  /\ job.status \in {"created", "resolving", "ready", "running", "complete"} => In(job, RestoreStates) = {}
  /\ job.status \in {"complete", "undoing", "undo_complete"} => job.moving = {}
  /\ job.status = "complete" => \A t \in Candidates : job.target[t] \in CleanedUp
  /\ job.status = "undo_complete" => \A t \in Candidates : job.target[t] \in AtRest

\* Nothing is asked of the messages of this job any more.
Over(job) ==
  job.status \in {"undo_complete", "failed"} /\ \A t \in Candidates : job.target[t] \in AtRest

-----------------------------------------------------------------------------
(* The job and the mailbox.                                                 *)

\* What was asked of a message, and what may still come of it.
Asked(t) ==
  /\ sent["cleanup"][t] <= 1 /\ sent["undo"][t] <= sent["cleanup"][t]
  /\ mailbox[t] = "original" => sent["undo"][t] = 0
  /\ mailbox[t] # "original" => sent["cleanup"][t] = 1
  /\ mailbox[t] = "restored" => sent["undo"][t] = 1
  /\ \A r \in inflight : t \in r.targets =>
       /\ sent[r.op][t] = 1
       /\ mailbox[t] = IF r.op = "cleanup" THEN "original" ELSE "deleted"

\* What the state of a target says of its message.
TargetTrue(job, t) ==
  LET state == job.target[t] IN
  /\ state \in Untouched => sent["cleanup"][t] = 0
  /\ state \notin OpenStates => ~InFlight(t)
  /\ state \in RestoreStates => mailbox[t] # "original"
  /\ state \notin RestoreStates => sent["undo"][t] = 0
  /\ state \in {"move_dispatched", "moved_verified", "restore_failed"} => mailbox[t] = "deleted"
  /\ state \in {"restore_dispatched", "restored_verified"} => mailbox[t] = "restored"
  /\ state = "move_failed" => mailbox[t] = "original"

JobTrue(job) == \A t \in Candidates : TargetTrue(job, t)

\* What a unit asks for, or has asked for, with its next request.
Asking(unit) == In(unit.job, {Dispatching[unit.op]})

\* The requests on their way are each of one batch, and a unit waits for its own.
RequestsMatch ==
  /\ \A r, q \in inflight : r.targets \cap q.targets # {} => r = q
  /\ \A r \in inflight : r.worker \in Workers =>
       /\ worker[r.worker].pc = "awaiting" /\ r.op = worker[r.worker].op
       /\ r.targets = Asking(worker[r.worker])

\* No message is in Deleted Items, nor on its way, and the row asks for none.
Settled ==
  /\ \A t \in Candidates : mailbox[t] # "deleted" /\ ~InFlight(t)
  /\ row.present => Over(row.job)

-----------------------------------------------------------------------------
(* The units.                                                               *)

\* Where a unit is, or is about to be once its job is saved.
Heading(unit) == IF unit.pc = "saving" THEN unit.next ELSE unit.pc

\* The status under which a job's batches are sent.
Phase(op) == IF op = "cleanup" THEN "running" ELSE "undoing"

Mutating == {"batching", "verifying", "intended", "awaiting"}

UnitFits(unit) ==
  /\ JobFits(unit.job)
  /\ unit.pc = "saving" => unit.next \in {"checked", "batching", "verifying", "intended", "done"}
  /\ unit.pc \in {"off", "idle", "releasing"} => unit.version = 0
  /\ Heading(unit) \in {"checking", "checked"} => unit.op = "prepare" /\ unit.job.status = "resolving"
  /\ Heading(unit) \in Mutating =>
       /\ unit.op \in Mutations /\ unit.job.status = Phase(unit.op)
       /\ unit.op = "cleanup" => ~unit.job.stopped
  /\ Heading(unit) \in {"batching", "verifying"} => ~Interrupted(unit.job, unit.op)
  /\ Heading(unit) \in {"intended", "awaiting"} /\ unit.op = "cleanup" => unit.access = "forward"
  /\ Heading(unit) \in {"authorized", "working", "batching", "verifying"} /\ unit.op = "cleanup"
       /\ unit.access = "recovery" => unit.job.moving # {} \/ In(unit.job, {"frozen"}) = {}
  /\ unit.pc \in {"recording", "noting"} => unit.job.status # "undo_complete"

\* A unit that sees the restore complete, or has completed it, sees what is so.
EndTrue(unit) ==
  unit.pc \in {"claimed", "authorized", "working", "done"} /\ unit.job.status = "undo_complete" => Settled

\* The unit's version is the row's.
Current(unit) == row.present /\ unit.version = row.version

NeverBack(old, new) == \A t \in Candidates : Rank(new.target[t]) >= Rank(old.target[t])

CopyTrue(unit) ==
  Current(unit) =>
    /\ JobTrue(unit.job) /\ NeverBack(row.job, unit.job)
    /\ Over(row.job) => Over(unit.job) /\ unit.pc # "saving"
    /\ unit.pc \in {"intended", "awaiting"} => unit.job = row.job
    /\ Heading(unit) = "intended" => \A t \in Asking(unit) : sent[unit.op][t] = 0

\* A unit that may send has the only current copy.
SenderIsAlone(w) ==
  worker[w].pc = "intended" /\ Owns(row, w) =>
    Current(worker[w]) /\ \A v \in Workers \ {w} : worker[v].version < row.version

RowFits ==
  row.present =>
    /\ row.version >= 1 /\ JobFits(row.job) /\ JobTrue(row.job)
    /\ \A w \in Workers : worker[w].version <= row.version

UnitsFit ==
  \A w \in Workers :
    UnitFits(worker[w]) /\ EndTrue(worker[w]) /\ CopyTrue(worker[w]) /\ SenderIsAlone(w)

\* What is true of the job's end and of a discard.
EndsFit ==
  /\ aggregate.terminal = "undo_complete" => Settled
  /\ leaving = "discarded" => ~row.present /\ \A op \in Mutations, t \in Candidates : sent[op][t] = 0

OutlookInv ==
  TypeOK /\ (\A t \in Candidates : Asked(t)) /\ RequestsMatch /\ RowFits /\ UnitsFit /\ EndsFit
=============================================================================
