------------------------------ MODULE JobStore ------------------------------
(***************************************************************************)
(* The durable cleanup-state row, as the Prisma cleanup-state repository    *)
(* and PrismaCleanupJobStore treat it.  Every operator is one database      *)
(* statement or one serializable transaction, so a user of this module may  *)
(* take it as one atomic step.                                              *)
(*                                                                          *)
(* Wall-clock time is abstracted to two facts of a row: "live" says that    *)
(* lockExpiresAt is in the future and "expired" that expiresAt is in the    *)
(* past.  The encrypted payload is the job it decodes to.                   *)
(***************************************************************************)
EXTENDS Naturals

CONSTANT NoOwner    \* lockOwner is null

Absent == [present |-> FALSE]

PresentRows(Owners, Jobs) ==
  [present : {TRUE}, version : Nat, owner : Owners \cup {NoOwner},
   live : BOOLEAN, expired : BOOLEAN, job : Jobs]

Rows(Owners, Jobs) == {Absent} \cup PresentRows(Owners, Jobs)

\* create: normalizeJob(job, 1), no lock.
Created(job) ==
  [present |-> TRUE, version |-> 1, owner |-> NoOwner, live |-> FALSE,
   expired |-> FALSE, job |-> job]

\* getByJobId returns the row's job.
Visible(row) == row.present /\ ~row.expired

\* Some owner holds a lease whose lockExpiresAt is in the future.
Locked(row) == row.owner # NoOwner /\ row.live

\* Mutant: a lease has to be released before the next claim.
ClaimableOnceReleased(row) == Visible(row) /\ row.owner = NoOwner

\* The WHERE of claim: unexpired, and nobody holds a live lease.
Claimable(row) == Visible(row) /\ ~Locked(row)

\* claim sets the lease and leaves the version alone.
Claimed(row, owner) == [row EXCEPT !.owner = owner, !.live = TRUE]

\* The WHERE of refreshLock, and of replaceIfVersion when an owner is given.
Owns(row, owner) == Visible(row) /\ row.owner = owner /\ row.live

\* The WHERE of replaceIfVersion when no owner is given.
CanReplace(row, version) == Visible(row) /\ row.version = version

\* replaceIfVersion's data: the new payload, the version incremented and a
\* fresh expiresAt (the row was unexpired, so it stays so).
Replaced(row, job) == [row EXCEPT !.job = job, !.version = @ + 1]

\* releaseLock: only the owner's own lease is cleared.
Released(row, owner) ==
  IF row.present /\ row.owner = owner
  THEN [row EXCEPT !.owner = NoOwner, !.live = FALSE]
  ELSE row

\* deleteExpired's WHERE: expired, and not locked by a live lease.
Purgeable(row) == row.present /\ row.expired /\ ~Locked(row)
=============================================================================
