----------------------------- MODULE ScanProofs -----------------------------
(***************************************************************************)
(* Theorems about LiveScans, for any runs, scans, mailboxes and pages: the  *)
(* row and the Scan table agree, and who may write a scan that has ended.   *)
(***************************************************************************)
EXTENDS LiveScans, TLAPS

Statuses == {"running", "completed", "failed", "cancelled"}

\* The row and its entry in the Scan table say the same, but for a disconnect, which cancels the
\* entries before it deletes the row.
RowFits ==
  /\ {"scan", "status"} \subseteq DOMAIN row
  /\ row.scan \in Scans /\ row.status \in Statuses
  /\ \/ scans[row.scan] = row.status
     \/ row.status = "running" /\ scans[row.scan] = "cancelled" /\ request.pc = "clear"

ScanInv ==
  /\ scans \in [Scans -> Statuses \cup {"none"}]
  /\ HasRow => RowFits

-----------------------------------------------------------------------------
(* Writes.                                                                  *)

Ended == {"completed", "failed", "cancelled"}

\* A disconnect goes on to delete the row.
ClearsOn == request.pc = "clear" => request' = request

\* The row keeps its scan and its status.
LEMMA RowKept ==
  ASSUME ScanInv, ClearsOn, scans' = scans, HasRow' => HasRow /\ row'.scan = row.scan /\ row'.status = row.status /\ DOMAIN row' = DOMAIN row
  PROVE  ScanInv'
BY DEF ScanInv, RowFits, ClearsOn

\* A run writes the row and the entry of a scan that is running, while it holds the lock.
LEMMA SaveFits ==
  ASSUME ScanInv, NEW w, NEW status \in Statuses, NEW session, Holds(w), Save(w, status, session)
  PROVE  ScanInv' /\ \A s \in Scans : scans[s] # "running" => scans'[s] = scans[s]
<1>1. RowFits /\ scans[row.scan] = "running" /\ scans' = [scans EXCEPT ![row.scan] = status]
  BY DEF ScanInv, Holds, Running, Save
<1>2. PICK saved : row' = [row EXCEPT !.status = status, !.live = TRUE, !.unlocked = FALSE, !.session = saved]
  BY DEF Save, Saved
<1>3. DOMAIN row' = DOMAIN row /\ row'.scan = row.scan /\ row'.status = status
  BY <1>1, <1>2 DEF RowFits
<1>4. RowFits'
  BY <1>1, <1>3 DEF RowFits, ScanInv
<1>5. scans' \in [Scans -> Statuses \cup {"none"}]
  BY <1>1 DEF ScanInv
<1> QED BY <1>1, <1>4, <1>5 DEF ScanInv

\* What a step keeps: the invariant, and every ended scan as it is.
Keeps == ScanInv' /\ \A s \in Scans : scans[s] \in Ended => scans'[s] = scans[s]

LEMMA SaveKeeps ==
  ASSUME ScanInv, NEW w, NEW status \in Statuses, NEW session, Holds(w), Save(w, status, session)
  PROVE  Keeps
BY SaveFits DEF Keeps, Ended

LEMMA NothingWritten == ASSUME ScanInv, ClearsOn, UNCHANGED <<row, scans>> PROVE Keeps
BY RowKept DEF Keeps, HasRow

\* A lease that is claimed, renewed, released or lapses; the clock.
LEMMA LeaseKeeps ==
  ASSUME ScanInv, HasRow, UNCHANGED <<scans, request>>,
         \/ \E owner, live : row' = [row EXCEPT !.lock = owner, !.live = live]
         \/ \E owner, live, free : row' = [row EXCEPT !.lock = owner, !.live = live, !.unlocked = free]
         \/ \E live : row' = [row EXCEPT !.live = live]
         \/ \E owner : row' = [row EXCEPT !.lock = owner]
         \/ \E expired, live : row' = [row EXCEPT !.expired = expired, !.live = live]
  PROVE  Keeps
<1>1. {"scan", "status"} \subseteq DOMAIN row
  BY DEF ScanInv, RowFits
<1>2. row'.scan = row.scan /\ row'.status = row.status /\ DOMAIN row' = DOMAIN row
  BY <1>1
<1> QED BY <1>2, RowKept DEF Keeps, ClearsOn

LEMMA ProgressKeeps ==
  ASSUME ScanInv, UNCHANGED request, NEW w, NEW next, Progress(w, next)
  PROVE  Keeps
<1>1. CASE Holds(w)
  BY <1>1, SaveKeeps DEF Progress, Statuses
<1>2. CASE ~Holds(w)
  BY <1>2, NothingWritten DEF Progress, ClearsOn
<1> QED BY <1>1, <1>2

-----------------------------------------------------------------------------
(* The actions.                                                             *)

LEMMA StepsKeep ==
  ASSUME ScanInv, NEW w \in Workers,
         Claim(w) \/ Wake(w) \/ Begin(w) \/ Connect(w) \/ IndexConversations(w) \/ Crash(w)
  PROVE  Keeps
<1> request' = request
  BY DEF Claim, Wake, Begin, Connect, IndexConversations, Crash
<1>1. CASE UNCHANGED <<row, scans>>
  BY <1>1, NothingWritten DEF ClearsOn
<1>2. CASE Claim(w) /\ ~UNCHANGED row
  BY <1>2, LeaseKeeps DEF Claim, MayClaim, Running
<1>3. CASE Begin(w)
  BY <1>3, ProgressKeeps, NothingWritten DEF Begin, ClearsOn
<1>4. CASE IndexConversations(w)
  BY <1>4, ProgressKeeps, NothingWritten, LeaseKeeps DEF IndexConversations, Stopped, Fenced, Holds, Running, ClearsOn
<1>5. CASE Crash(w)
  BY <1>5, NothingWritten, LeaseKeeps DEF Crash, ClearsOn
<1> QED BY <1>1, <1>2, <1>3, <1>4, <1>5 DEF Claim, Wake, Connect

LEMMA PagesKeep ==
  ASSUME ScanInv, NEW w \in Workers, ReadPage(w) \/ Oversized(w) \/ Finish(w) \/ Fail(w) \/ Release(w)
  PROVE  Keeps
<1> request' = request
  BY DEF ReadPage, Oversized, Finish, Fail, Release
<1>1. CASE ReadPage(w)
  <2>1. PICK next :
          \/ UNCHANGED <<row, scans>>
          \/ Holds(w) /\ (Progress(w, next) \/ (Fenced(w) /\ UNCHANGED scans))
    BY <1>1 DEF ReadPage, Stopped
  <2> QED BY <2>1, ProgressKeeps, NothingWritten, LeaseKeeps DEF Fenced, Holds, Running, ClearsOn
<1>2. CASE Oversized(w)
  BY <1>2, ProgressKeeps, LeaseKeeps DEF Oversized, Fenced, Holds, Running
<1>3. CASE Finish(w)
  <2>1. PICK session : UNCHANGED <<row, scans>> \/ (Holds(w) /\ Save(w, "completed", session))
    BY <1>3 DEF Finish
  <2> QED BY <2>1, SaveKeeps, NothingWritten DEF Statuses, ClearsOn
<1>4. CASE Fail(w)
  BY <1>4, SaveKeeps, NothingWritten DEF Fail, Statuses, ClearsOn
<1>5. CASE Release(w)
  BY <1>5, NothingWritten, LeaseKeeps DEF Release, ClearsOn
<1> QED BY <1>1, <1>2, <1>3, <1>4, <1>5

LEMMA TimeKeeps ==
  ASSUME ScanInv, LeaseEnds \/ LeaseLapses \/ Expire \/ Arrive
  PROVE  Keeps
BY NothingWritten, LeaseKeeps DEF LeaseEnds, LeaseLapses, Expire, Arrive, ClearsOn

\* A new scan has a new entry.
LEMMA AcceptKeeps == ASSUME ScanInv, Accept PROVE Keeps
<1>1. CASE UNCHANGED <<row, scans>>
  BY <1>1, NothingWritten DEF Accept, NoRequest, ClearsOn
<1>2. ASSUME NEW s \in Scans, scans[s] = "none", scans' = [scans EXCEPT ![s] = "running"],
             row' = [scan |-> s, status |-> "running", lock |-> Nobody, live |-> FALSE,
                     unlocked |-> TRUE, expired |-> FALSE, session |-> NoSession]
      PROVE  Keeps
  <2>1. {"scan", "status"} \subseteq DOMAIN row' /\ row'.scan = s /\ row'.status = "running"
    BY <1>2
  <2> QED BY <1>2, <2>1 DEF Keeps, ScanInv, RowFits, Statuses, Ended
<1> QED BY <1>1, <1>2 DEF Accept

\* A write that is no run's leaves the row and its entry with one status; the entry of an ended scan
\* changes only where a disconnect has cancelled it before it deletes the row.
LEMMA UpdateFits ==
  ASSUME ScanInv, MayUpdate, NEW session,
         NEW status \in Statuses, status = row.status \/ (row.status = "running" /\ status = "cancelled"),
         Update(status, session)
  PROVE  /\ ScanInv'
         /\ \A s \in Scans : scans[s] \in Ended /\ scans'[s] # scans[s] =>
              /\ request.pc = "clear" /\ row.scan = s /\ row.status = "running" /\ row.unlocked
              /\ scans[s] = "cancelled" /\ scans'[s] = status /\ status = "running"
<1>1. HasRow /\ RowFits /\ (row.unlocked \/ scans[row.scan] = "running")
  BY DEF MayUpdate, Updatable, ScanInv
<1>2. PICK unlocked : row' = [row EXCEPT !.status = status, !.session = session, !.unlocked = unlocked]
  BY DEF Update
<1>3. scans' = [scans EXCEPT ![row.scan] = status]
  BY DEF Update
<1>4. DOMAIN row' = DOMAIN row /\ row'.scan = row.scan /\ row'.status = status
  BY <1>1, <1>2 DEF RowFits
<1>5. scans' \in [Scans -> Statuses \cup {"none"}] /\ RowFits'
  BY <1>1, <1>3, <1>4 DEF RowFits, ScanInv
<1>6. ASSUME NEW s \in Scans, scans[s] \in Ended, scans'[s] # scans[s]
      PROVE  /\ request.pc = "clear" /\ row.scan = s /\ row.status = "running" /\ row.unlocked
             /\ scans[s] = "cancelled" /\ scans'[s] = status /\ status = "running"
  <2>1. s = row.scan /\ scans'[s] = status
    BY <1>1, <1>3, <1>6 DEF ScanInv, RowFits
  <2> QED BY <1>1, <1>6, <2>1 DEF RowFits, Ended
<1> QED BY <1>5, <1>6 DEF ScanInv

LEMMA CancelKeeps == ASSUME ScanInv, Cancel PROVE Keeps
<1>1. PICK status : status = IF row.status = "running" THEN "cancelled" ELSE row.status
  OBVIOUS
<1>2. PICK session : session = row.session
  OBVIOUS
<1>3. MayUpdate /\ HasRow /\ Update(status, session)
  BY <1>1, <1>2 DEF Cancel, MayUpdate
<1>4. status \in Statuses /\ status # "running" /\ (status = row.status \/ (row.status = "running" /\ status = "cancelled"))
  BY <1>1, <1>3 DEF ScanInv, RowFits, Statuses
<1> QED BY <1>3, <1>4, UpdateFits DEF Keeps

\* A stale mark: the one request that may reopen a scan which a disconnect has cancelled.
LEMMA MarkFits ==
  ASSUME ScanInv, MarkStale
  PROVE  ScanInv' /\ \A s \in Scans : scans[s] \in Ended /\ scans'[s] # scans[s] => MarkedInDisconnect(s)
<1>1. CASE UNCHANGED <<row, scans>>
  BY <1>1, NothingWritten DEF Keeps, MarkStale, ClearsOn
<1>2. CASE MayUpdate /\ Update(row.status, [row.session EXCEPT !.stale = TRUE])
  <2>1. PICK session : session = [row.session EXCEPT !.stale = TRUE]
    OBVIOUS
  <2>2. PICK status : status = row.status
    OBVIOUS
  <2>3. HasRow /\ MayUpdate /\ Update(status, session)
    BY <1>2, <2>1, <2>2 DEF MayUpdate
  <2>4. status \in Statuses
    BY <2>2, <2>3 DEF ScanInv, RowFits
  <2> QED BY <2>2, <2>3, <2>4, UpdateFits DEF MarkedInDisconnect
<1> QED BY <1>1, <1>2 DEF MarkStale

LEMMA CancelScansKeeps == ASSUME ScanInv, CancelScans PROVE Keeps
BY DEF CancelScans, Keeps, ScanInv, HasRow, RowFits, Statuses, Ended

LEMMA ClearRowKeeps == ASSUME ScanInv, ClearRow PROVE Keeps
BY DEF ClearRow, Keeps, ScanInv, HasRow

\* The count of duplicate starts reopens the entry together with the row.
LEMMA CountFits == ASSUME ScanInv, CountDuplicate PROVE ScanInv'
<1>1. CASE UNCHANGED <<row, scans>>
  BY <1>1, NothingWritten DEF Keeps, CountDuplicate, ClearsOn
<1>2. CASE /\ HasRow /\ scans' = [scans EXCEPT ![row.scan] = "running"]
           /\ row' = [row EXCEPT !.status = "running", !.session = request.session,
                                 !.expired = FALSE, !.unlocked = (row.lock = Nobody)]
  <2>1. RowFits
    BY <1>2 DEF ScanInv
  <2>2. DOMAIN row' = DOMAIN row /\ row'.scan = row.scan /\ row'.status = "running"
    BY <1>2, <2>1 DEF RowFits
  <2> QED BY <1>2, <2>1, <2>2 DEF ScanInv, RowFits, Statuses
<1> QED BY <1>1, <1>2 DEF CountDuplicate

LEMMA UserKeeps == ASSUME ScanInv, StartRun \/ Disconnect \/ Reconnect PROVE Keeps
BY NothingWritten DEF StartRun, Disconnect, Reconnect, NoRequest, ClearsOn

\* What a step may do to a scan that has ended.
Stays ==
  \A s \in Scans : scans[s] \in {"completed", "failed", "cancelled"} /\ scans'[s] # scans[s]
     => worker' = worker /\ (request.pc = "reuse" \/ MarkedInDisconnect(s))

LEMMA KeepsStays == ASSUME Keeps PROVE ScanInv' /\ Stays
BY DEF Keeps, Stays, Ended

LEMMA NextKeeps ==
  ASSUME ScanInv, [Next]_vars
  PROVE  ScanInv' /\ Stays
<1>1. CASE UNCHANGED vars
  BY <1>1, NothingWritten, KeepsStays DEF vars, ClearsOn
<1>2. CASE CountDuplicate
  BY <1>2, CountFits DEF CountDuplicate, Stays
<1>3. CASE MarkStale
  BY <1>3, MarkFits DEF MarkStale, Stays, Ended
<1>4. CASE User /\ ~CountDuplicate /\ ~MarkStale
  BY <1>4, AcceptKeeps, CancelKeeps, CancelScansKeeps, ClearRowKeeps, UserKeeps, KeepsStays DEF User
<1>5. CASE Next /\ ~User
  BY <1>5, StepsKeep, PagesKeep, TimeKeeps, KeepsStays DEF Next, Work
<1> QED BY <1>1, <1>2, <1>3, <1>4, <1>5 DEF Next

-----------------------------------------------------------------------------

\* The row of the scan in progress and its entry in the Scan table agree, whatever runs, users and
\* leases do, but between the two statements of a disconnect (live-scan-store.ts, disconnect.ts).
THEOREM RowsAgree == Spec => []ScanInv
<1>1. Init => ScanInv
  BY DEF Init, ScanInv, HasRow
<1>2. ScanInv /\ [Next]_vars => ScanInv'
  BY NextKeeps
<1> QED BY <1>1, <1>2, PTL DEF Spec

\* A scan that has ended is not written again by a run, and by a request only as a count of duplicate
\* starts, or as a stale mark while a disconnect has cancelled the scan and not yet deleted its row
\* (PrismaScanStateRepository.replace).
THEOREM EndedIsEnded == Spec => EndedScansStayEnded
<1>1. ASSUME ScanInv, [Next]_vars PROVE Stays
  BY <1>1, NextKeeps
<1>2. Spec => [][Stays]_vars
  BY <1>1, RowsAgree, PTL DEF Spec
<1> QED BY <1>2 DEF EndedScansStayEnded, Stays
=============================================================================
