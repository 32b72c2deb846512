--------------------------- MODULE DeletionLedger ---------------------------
(***************************************************************************)
(* The inductive invariant of PermanentDelete.                              *)
(*                                                                          *)
(* Restores and deletions share the row, its lease and its version, so one  *)
(* actor stands for either: a workflow unit or a deleter, with its copy of  *)
(* the job.  A copy is live while the row has the version it was read with: *)
(* only then may it replace the row, and only then must it know of every    *)
(* message whether the provider was asked for it.                           *)
(***************************************************************************)
EXTENDS PermanentDelete, OutlookLedger

Actors == Workers \cup Deleters

Copy(a) == IF a \in Workers THEN worker[a] ELSE deleter[a]

DeleterPCs == {"off", "idle", "claimed", "ready", "saving", "intended", "leaving", "continuing"}

DeleterUnits ==
  [pc : DeleterPCs, op : {"accept", "delete"}, job : Jobs, version : Nat, next : DeleterPCs]

DeletionTypeOK ==
  /\ row \in Rows(Actors \cup {Orphan}, Jobs)
  /\ worker \in [Workers -> Units]
  /\ deleter \in [Deleters -> DeleterUnits]
  /\ inflight \in SUBSET [worker : Owners, op : Mutations, targets : SUBSET Candidates]
  /\ sent \in [Mutations -> [Candidates -> Nat]]
  /\ asked \in [Candidates -> Nat]

-----------------------------------------------------------------------------
(* The job.                                                                 *)

\* What a deletion has taken, or may take next, stays moved: no restore has it.
JobSplit(job) ==
  /\ job.status \in Terminal \cup {"undoing"}
  /\ job.deletion.status = "none" => \A t \in Candidates : job.deletion.target[t] = "none"
  /\ \A t \in Candidates :
       Blocked(job, t) /\ job.deletion.target[t] # "none" => job.target[t] = "moved_verified"
  /\ job.status = "undo_complete" => \A t \in Candidates : job.target[t] # "moved_verified"

AskedStates == {"dispatching", "verified_deleted", "uncertain"}

\* The job knows what was asked of the message, and claims no more than is so.
Knows(job, t) ==
  /\ sent["undo"][t] > 0 => job.target[t] \in RestoreStates
  /\ asked[t] > 0 => job.deletion.target[t] \in AskedStates
  /\ job.deletion.target[t] = "verified_deleted" => t \in gone

JobKnows(job) == \A t \in Candidates : Knows(job, t)

-----------------------------------------------------------------------------
(* The actors.                                                              *)

\* An actor that will neither write nor send from the copy it has.
Asleep == {"off", "idle", "releasing", "leaving", "continuing"}

Live(unit) == Current(unit) /\ unit.pc \notin Asleep

\* A restore unit: the cleanup is over, so nothing is verified or moved forward.
WorkerFits(unit) ==
  /\ unit.pc = "saving" => unit.next \in {"batching", "verifying", "intended", "done"}
  /\ Heading(unit) \notin {"checking", "checked"}
  /\ Heading(unit) \in Mutating => unit.op = "undo" /\ unit.job.status = "undoing"
  /\ Heading(unit) \in {"batching", "verifying"} => ~Interrupted(unit.job, "undo")

\* A deleter asks for one target at a time, and leaves none behind.
DeleterFits(unit) ==
  /\ unit.pc = "saving" => unit.next \in {"ready", "intended", "leaving", "continuing"}
  /\ Heading(unit) \in {"claimed", "ready", "intended"} => unit.job.deletion.status = "running"
  /\ Heading(unit) \in {"claimed", "ready"} => Deleting(unit.job, {"dispatching"}) = {}
  /\ Heading(unit) = "intended" => \A t, u \in Deleting(unit.job, {"dispatching"}) : t = u

\* The actor's copy by itself, whether it is live or not.
Fits(a, unit) ==
  /\ unit.pc \notin Asleep => JobSplit(unit.job)
  /\ a \in Workers => WorkerFits(unit)
  /\ a \in Deleters => DeleterFits(unit)

\* None of the messages that the actor's next request is for was asked for yet.
Unasked(a, job) ==
  /\ a \in Workers => \A t \in In(job, {"restore_dispatching"}) : sent["undo"][t] = 0
  /\ a \in Deleters => \A t \in Deleting(job, {"dispatching"}) : asked[t] = 0

\* What a copy that may still be written must know.
Aware(a, unit) ==
  Live(unit) =>
    /\ JobKnows(unit.job)
    /\ unit.pc = "intended" => unit.job = row.job
    /\ Heading(unit) = "intended" => Unasked(a, unit.job)

\* Whoever may send has the only live copy.
AskerIsAlone(a) ==
  Copy(a).pc = "intended" /\ Owns(row, a) =>
    Current(Copy(a)) /\ \A b \in Actors \ {a} : Copy(b).version < row.version

RowKnows ==
  row.present =>
    /\ row.version >= 1 /\ JobSplit(row.job) /\ JobKnows(row.job)
    /\ \A a \in Actors : Copy(a).version <= row.version

ActorsFit == \A a \in Actors : Fits(a, Copy(a)) /\ Aware(a, Copy(a)) /\ AskerIsAlone(a)

\* A request on its way is the one of the batch its unit waits for.
RestoresMatch ==
  \A r \in inflight : r.worker \in Workers =>
    /\ worker[r.worker].pc = "awaiting" /\ r.op = "undo"
    /\ r.targets \subseteq In(worker[r.worker].job, {"restore_dispatching"})
    /\ \A q \in inflight : q.worker = r.worker => q = r

DeletionInv == DeletionTypeOK /\ AskedOnce /\ RowKnows /\ ActorsFit /\ RestoresMatch
=============================================================================
