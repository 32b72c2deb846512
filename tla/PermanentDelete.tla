-------------------------- MODULE PermanentDelete --------------------------
(***************************************************************************)
(* Permanent deletion of the messages a finished Outlook cleanup moved,     *)
(* composed with everything OutlookCleanup does to the same row: a restore  *)
(* may be asked for, started and resumed at any point of a deletion.        *)
(*                                                                          *)
(* A deleter is one claim of the job's lease: the acceptance of a deletion  *)
(* (op "accept") or a unit of the deletion workflow (op "delete").          *)
(***************************************************************************)
EXTENDS OutlookCleanup

CONSTANTS
  Deleters,   \* acceptances and deletion units that may exist at a time
  MaxCuts,    \* how many of their calls fail, stall or die
  MaxCalls    \* how many acceptances and units are started

ASSUME PermanentDeleteAssumption ==
  /\ Deleters \cap (Workers \cup {NoOwner, Orphan}) = {}
  /\ {MaxCuts, MaxCalls} \subseteq Nat

VARIABLES
  deleter,   \* what every deleter is doing
  gone,      \* messages that no longer exist
  removing,  \* delete requests nobody waits for, still to be processed
  asked,     \* how often the provider was asked to delete a message
  spare      \* what is left of MaxCuts and MaxCalls

deletion == <<deleter, gone, removing, asked, spare>>
outlook == <<aggregate, worker, environment, budget>>

NoDeleter == [pc |-> "off", op |-> "delete", job |-> AcceptedJob, version |-> 0, next |-> "off"]

\* A finished cleanup: what it verified to have moved, and what it did not.
FinishedJob(target) ==
  Finished([AcceptedJob EXCEPT !.status = "running", !.confirmed = TRUE, !.verifying = TRUE,
                               !.safe = TRUE, !.target = target])

\* The cleanup before is OutlookCleanup's subject: here it is over.
FinishedInit ==
  \E target \in [Candidates -> {"moved_verified", "move_uncertain"}] :
    /\ row = Created(FinishedJob(target))
    /\ aggregate = [status |-> AggregateStatus(row.job.status), terminal |-> row.job.status]
    /\ worker = [w \in Workers |-> NoUnit]
    /\ mailbox = [t \in Candidates |-> "deleted"] /\ inflight = {}
    /\ sent = [op \in Mutations |-> [t \in Candidates |-> IF op = "cleanup" THEN 1 ELSE 0]]
    /\ connected = TRUE /\ open = TRUE /\ leaving = "no" /\ budget \in Scenarios
    /\ deleter = [d \in Deleters |-> NoDeleter]
    /\ gone = {} /\ removing = {} /\ asked = [t \in Candidates |-> 0]
    /\ spare = [cuts |-> MaxCuts, calls |-> MaxCalls]

-----------------------------------------------------------------------------

Deleting(job, states) == {t \in Candidates : job.deletion.target[t] \in states}

MarkDeletion(job, t, state) == [job EXCEPT !.deletion.target[t] = state]

InDoubtDeletion(job) == [job EXCEPT !.deletion.status = "uncertain"]

\* exactPermanentDeleteTargets: of a finished job, what is verified to have
\* moved, whatever has become of it since.
Exact(job) == IF job.status \in Terminal THEN In(job, {"moved_verified"}) ELSE {}

Accepted(job) ==
  [job EXCEPT !.deletion =
    [status |-> "running",
     target |-> [t \in Candidates |-> IF t \in Exact(job) THEN "pending" ELSE "none"]]]

SetDeleter(d, unit) == deleter' = [deleter EXCEPT ![d] = unit]

SaveDeletion(d, job, next) ==
  SetDeleter(d, [deleter[d] EXCEPT !.job = job, !.pc = "saving", !.next = next])

\* The finally clause is still to come.
LeaveDeletion(d, pc) == SetDeleter(d, [NoDeleter EXCEPT !.pc = pc, !.op = deleter[d].op])

Cut == spare.cuts > 0 /\ spare' = [spare EXCEPT !.cuts = @ - 1]

\* The route: accept, or start the run of an accepted deletion (again).
CallDelete(op) ==
  /\ spare.calls > 0 /\ spare' = [spare EXCEPT !.calls = @ - 1]
  /\ Authorized
  /\ IF op = "accept" THEN row.job.deletion.status = "none" ELSE row.job.deletion.status = "running"
  /\ \E d \in Deleters :
       deleter[d].pc = "off" /\ SetDeleter(d, [NoDeleter EXCEPT !.pc = "idle", !.op = op])
  /\ UNCHANGED <<row, outlook, gone, removing, asked>>

\* Intent without a recorded success: the deletion stops in doubt.
InterruptedDeletion(job) ==
  InDoubtDeletion([job EXCEPT !.deletion.target =
    [t \in Candidates |-> IF @[t] = "dispatching" THEN "uncertain" ELSE @[t]]])

ClaimDeletion(d) ==
  /\ deleter[d].pc = "idle"
  /\ LET job == row.job
         mine == [deleter[d] EXCEPT !.job = job, !.version = row.version]
     IN  IF ~Claimable(row) THEN row' = row /\ SetDeleter(d, NoDeleter)
         ELSE /\ row' = Claimed(row, d)
              /\ IF deleter[d].op = "accept"
                 THEN IF job.deletion.status # "none" \/ Exact(job) = {}
                      THEN LeaveDeletion(d, "leaving")
                      ELSE SetDeleter(d, [mine EXCEPT !.job = Accepted(job), !.pc = "saving", !.next = "leaving"])
                 ELSE IF job.deletion.status # "running" THEN LeaveDeletion(d, "leaving")
                 ELSE IF Deleting(job, {"dispatching"}) # {}
                 THEN SetDeleter(d, [mine EXCEPT !.job = InterruptedDeletion(job), !.pc = "saving", !.next = "leaving"])
                 ELSE SetDeleter(d, [mine EXCEPT !.pc = "claimed"])
  /\ UNCHANGED <<outlook, gone, removing, asked, spare>>

\* The transport's access checks throw, or it is there.
OpenTransport(d) ==
  /\ deleter[d].pc = "claimed"
  /\ IF Authorized /\ open THEN SetDeleter(d, [deleter[d] EXCEPT !.pc = "ready"])
     ELSE LeaveDeletion(d, "leaving")
  /\ UNCHANGED <<row, outlook, gone, removing, asked, spare>>

SaveDeletionCommits(d) ==
  /\ deleter[d].pc = "saving"
  /\ IF Owns(row, d) /\ CanReplace(row, deleter[d].version)
     THEN /\ row' = Replaced(row, deleter[d].job)
          /\ SetDeleter(d, [deleter[d] EXCEPT !.pc = deleter[d].next, !.version = @ + 1])
     ELSE row' = row /\ LeaveDeletion(d, "leaving")
  /\ UNCHANGED <<outlook, gone, removing, asked, spare>>

Pending(d) == First(Deleting(deleter[d].job, {"pending"}), 1)

FinishDeletion(d) ==
  /\ deleter[d].pc = "ready" /\ Pending(d) = {}
  /\ SaveDeletion(d, [deleter[d].job EXCEPT !.deletion.status = "complete"], "leaving")
  /\ UNCHANGED <<row, outlook, gone, removing, asked, spare>>

Recheck(d) ==
  /\ deleter[d].pc = "ready"
  /\ \E t \in Pending(d) :
       LET job == deleter[d].job
           there == mailbox[t] = "deleted" /\ t \notin gone
       IN  \/ /\ there /\ UNCHANGED spare
              /\ SaveDeletion(d, MarkDeletion(job, t, "dispatching"), "intended")
           \/ /\ ~there /\ UNCHANGED spare
              /\ SaveDeletion(d, MarkDeletion(job, t, "excluded"), "ready")
           \/ Cut /\ SaveDeletion(d, InDoubtDeletion(MarkDeletion(job, t, "uncertain")), "leaving")
  /\ UNCHANGED <<row, outlook, gone, removing, asked>>

\* The request passes its fence and is answered: 204, or something else.
Remove(d) ==
  /\ deleter[d].pc = "intended" /\ Owns(row, d) /\ Authorized /\ open
  /\ \E t \in Deleting(deleter[d].job, {"dispatching"}) :
       LET job == deleter[d].job IN
       /\ asked' = [asked EXCEPT ![t] = @ + 1]
       /\ \/ /\ gone' = gone \cup {t} /\ UNCHANGED <<removing, spare>>
             /\ \E next \in {"ready", "continuing"} :
                  SaveDeletion(d, MarkDeletion(job, t, "verified_deleted"), next)
          \/ /\ Cut /\ removing' = removing \cup {t} /\ UNCHANGED gone
             /\ SaveDeletion(d, InDoubtDeletion(MarkDeletion(job, t, "uncertain")), "leaving")
  /\ UNCHANGED <<row, outlook>>

\* The fence refuses the request: to the deleter no different from a lost one.
RemoveFenced(d) ==
  /\ deleter[d].pc = "intended" /\ ~(Owns(row, d) /\ Authorized /\ open)
  /\ \E t \in Deleting(deleter[d].job, {"dispatching"}) :
       SaveDeletion(d, InDoubtDeletion(MarkDeletion(deleter[d].job, t, "uncertain")), "leaving")
  /\ UNCHANGED <<row, outlook, gone, removing, asked, spare>>

\* The finally clause; the run goes on after five targets, here after any.
ReleaseDeletion(d) ==
  /\ deleter[d].pc \in {"leaving", "continuing"}
  /\ row' = Released(row, d)
  /\ SetDeleter(d, IF deleter[d].pc = "continuing" THEN [NoDeleter EXCEPT !.pc = "idle"] ELSE NoDeleter)
  /\ UNCHANGED <<outlook, gone, removing, asked, spare>>

\* A deleter dies, before or after its request was sent.
CrashDeletion(d) ==
  /\ deleter[d].pc \notin {"off", "idle"} /\ Cut
  /\ row' = IF row.present /\ row.owner = d THEN [row EXCEPT !.owner = Orphan] ELSE row
  /\ SetDeleter(d, NoDeleter)
  /\ \/ /\ deleter[d].pc = "intended" /\ Owns(row, d)
        /\ \E t \in Deleting(deleter[d].job, {"dispatching"}) :
             removing' = removing \cup {t} /\ asked' = [asked EXCEPT ![t] = @ + 1]
     \/ UNCHANGED <<removing, asked>>
  /\ UNCHANGED <<outlook, gone>>

\* A save commits and its response is lost: the step throws.
DeletionResponseLost(d) ==
  /\ deleter[d].pc = "saving" /\ Owns(row, d) /\ CanReplace(row, deleter[d].version) /\ Cut
  /\ row' = Replaced(row, deleter[d].job)
  /\ LeaveDeletion(d, "leaving")
  /\ UNCHANGED <<outlook, gone, removing, asked>>

RemovalLands(t) ==
  /\ removing' = removing \ {t}
  /\ gone' \in {gone, gone \cup {t}}
  /\ UNCHANGED <<row, outlook, deleter, asked, spare>>

DeletionLeaseLapses ==
  /\ row.present /\ row.owner \in Deleters /\ row.live /\ Cut
  /\ row' = [row EXCEPT !.live = FALSE]
  /\ UNCHANGED <<outlook, deleter, gone, removing, asked>>

Deletion(d) ==
  \/ ClaimDeletion(d) \/ OpenTransport(d) \/ SaveDeletionCommits(d) \/ FinishDeletion(d)
  \/ Recheck(d) \/ Remove(d) \/ RemoveFenced(d) \/ ReleaseDeletion(d)
  \/ CrashDeletion(d) \/ DeletionResponseLost(d)

DeletionNext ==
  \/ Next /\ UNCHANGED deletion
  \/ \E op \in {"accept", "delete"} : CallDelete(op)
  \/ \E d \in Deleters : Deletion(d)
  \/ \E t \in removing : RemovalLands(t)
  \/ DeletionLeaseLapses

DeletionSpec == FinishedInit /\ [][DeletionNext]_<<vars, deletion>>

-----------------------------------------------------------------------------

\* A message is asked once, for all time, to be restored or to be deleted:
\* never both, never twice, whoever loses its lease, its answer or its process.
AskedOnce == \A t \in Candidates : asked[t] + sent["undo"][t] <= 1

\* The deletion's ledger is true: what is verified deleted is gone, what is
\* pending was never asked to go, and a restore that is complete has had no
\* message of the job deleted, nor one that may still be.
DeletionIsTrue ==
  row.present =>
    /\ \A t \in Candidates :
         /\ row.job.deletion.target[t] = "verified_deleted" => t \in gone
         /\ row.job.deletion.target[t] \in {"none", "pending", "excluded"} => asked[t] = 0
    /\ row.job.status = "undo_complete" => \A t \in Candidates : asked[t] = 0
=============================================================================
