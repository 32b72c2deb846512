------------------------- MODULE GmailCleanupProofs -------------------------
(***************************************************************************)
(* Lemmas about the stored Gmail job: what the planner's and the executor's  *)
(* operators return, keep and preserve; on them, theorems about             *)
(* GmailCleanup, for any number of chunks, messages, workers and failures;  *)
(* the proof that DispatchInv is inductive: at most one request moves a     *)
(* chunk, and at most one restores it; and the proofs that RecordInv and    *)
(* LedgerInv are: the durable record of a cleanup stands, covers its        *)
(* requests and is true.                                                    *)
(***************************************************************************)
EXTENDS GmailLedger, WellFoundedInduction, TLAPS

-----------------------------------------------------------------------------
(* Array.find.                                                              *)

\* A non-empty set of naturals has a least element.
LEMMA LeastElement ==
  ASSUME NEW S, S \subseteq Nat, S # {}
  PROVE  \E x \in S : \A y \in S : x <= y
<1>1. \E x \in S : \A y \in S : ~(<<y, x>> \in OpToRel(<, Nat))
  BY NatLessThanWellFounded, WFMin
<1>2. PICK x \in S : \A y \in S : ~(<<y, x>> \in OpToRel(<, Nat))
  BY <1>1
<1>3. \A y \in S : ~(y < x)
  BY <1>2 DEF OpToRel
<1>4. \A y \in S : x <= y
  BY <1>3
<1> QED BY <1>4

\* find returns a member of what it searches, or 0 when there is none.
LEMMA FirstFound ==
  ASSUME NEW S, S \subseteq Chunks
  PROVE  /\ S # {} => First(S) \in S
         /\ First(S) # 0 => First(S) \in S
         /\ First(S) \in Nat
<1>1. Chunks \subseteq Nat
  BY ChunksAssumption DEF Chunks
<1>2. S # {} => First(S) \in S
  BY <1>1, LeastElement DEF First
<1> QED BY <1>1, <1>2 DEF First

\* The executor's search returns a chunk or nothing.
LEMMA WorkChunkFound ==
  ASSUME NEW j \in Jobs, NEW op, WorkChunk(j, op) # 0
  PROVE  WorkChunk(j, op) \in Chunks
<1>1. ChunksIn(j, {"safety_checking"}) \subseteq Chunks
      /\ ChunksIn(j, {"pending"}) \subseteq Chunks
      /\ ChunksIn(j, {"mutating", "verifying"}) \subseteq Chunks
  BY DEF ChunksIn
<1> QED BY <1>1, FirstFound
        DEF WorkChunk, PreflightChunk, SafetyChunk, ActiveSensitiveChunk, ActiveUndoChunk

-----------------------------------------------------------------------------
(* Every operator returns a job.                                            *)

LEMMA JobFields ==
  ASSUME NEW j \in Jobs
  PROVE  /\ j.status \in JobStatuses /\ j.chunk \in [Chunks -> ChunkRecords]
         /\ \A c \in Chunks : j.chunk[c] \in ChunkRecords
BY DEF Jobs

\* The writes the operators make to one chunk's record keep its type.
LEMMA RecordWritten ==
  ASSUME NEW o \in ChunkRecords
  PROVE  /\ [o EXCEPT !.dispatched = TRUE] \in ChunkRecords
         /\ [o EXCEPT !.undoDispatched = TRUE] \in ChunkRecords
         /\ \A n \in Nat : /\ [o EXCEPT !.checkpoint = n] \in ChunkRecords
                          /\ [o EXCEPT !.undoCheckpoint = n] \in ChunkRecords
         /\ \A t \in ChunkStatuses :
              /\ [o EXCEPT !.status = t] \in ChunkRecords
              /\ [o EXCEPT !.status = t, !.preflightComplete = TRUE] \in ChunkRecords
              /\ \A S \in SUBSET Messages :
                   /\ [o EXCEPT !.status = t, !.safe = S] \in ChunkRecords
                   /\ [o EXCEPT !.status = t, !.moved = S] \in ChunkRecords
                   /\ [o EXCEPT !.restored = S, !.status = t] \in ChunkRecords
BY DEF ChunkRecords

\* A write to one chunk keeps the chunks' type; a write to no chunk (index 0)
\* changes nothing.
LEMMA ChunkWritten ==
  ASSUME NEW g \in [Chunks -> ChunkRecords], NEW c, NEW r,
         c \in Chunks => r \in ChunkRecords
  PROVE  [g EXCEPT ![c] = r] \in [Chunks -> ChunkRecords]
OBVIOUS

LEMMA JobChunkWritten ==
  ASSUME NEW j \in Jobs, NEW g \in [Chunks -> ChunkRecords]
  PROVE  [j EXCEPT !.chunk = g] \in Jobs
BY DEF Jobs

LEMMA JobStatusWritten ==
  ASSUME NEW j \in Jobs, NEW s \in JobStatuses
  PROVE  [j EXCEPT !.status = s] \in Jobs
BY DEF Jobs

LEMMA JobWritten ==
  ASSUME NEW j \in Jobs, NEW s \in JobStatuses, NEW g \in [Chunks -> ChunkRecords]
  PROVE  [j EXCEPT !.status = s, !.chunk = g] \in Jobs
BY DEF Jobs

LEMMA RestorePausedStateType ==
  ASSUME NEW j \in Jobs
  PROVE  RestorePausedState(j) \in Jobs
BY DEF RestorePausedState, Jobs, JobStatuses

LEMMA OpenedType ==
  ASSUME NEW j \in Jobs
  PROVE  Opened(j) \in Jobs
BY RestorePausedStateType DEF Opened, Jobs

\* Opening a paused job leaves its chunks, and so the chunk worked on, alone.
LEMMA OpenedKeepsChunks ==
  ASSUME NEW j \in Jobs, NEW op
  PROVE  /\ RestorePausedState(j).chunk = j.chunk /\ Opened(j).chunk = j.chunk
         /\ WorkChunk(RestorePausedState(j), op) = WorkChunk(j, op)
         /\ WorkChunk(Opened(j), op) = WorkChunk(j, op)
<1>1. RestorePausedState(j).chunk = j.chunk
  BY DEF RestorePausedState, Jobs
<1>2. Opened(j).chunk = j.chunk
  BY <1>1, RestorePausedStateType DEF Opened, Jobs
<1> QED BY <1>1, <1>2 DEF WorkChunk, PreflightChunk, SafetyChunk, ActiveSensitiveChunk,
                          ActiveUndoChunk, ChunksIn

LEMMA MarkDispatchType ==
  ASSUME NEW j \in Jobs, NEW op
  PROVE  MarkDispatch(j, op) \in Jobs
<1> DEFINE c == MutatingChunk(j)
           d == ActiveUndoChunk(j)
           r == [j.chunk[c] EXCEPT !.dispatched = TRUE]
           s == [j.chunk[d] EXCEPT !.undoDispatched = TRUE]
<1>1. (c \in Chunks => r \in ChunkRecords) /\ (d \in Chunks => s \in ChunkRecords)
  BY JobFields, RecordWritten
<1>2. /\ [j.chunk EXCEPT ![c] = r] \in [Chunks -> ChunkRecords]
      /\ [j.chunk EXCEPT ![d] = s] \in [Chunks -> ChunkRecords]
  BY <1>1, JobFields, ChunkWritten
<1>3. /\ [j EXCEPT !.chunk = [j.chunk EXCEPT ![c] = r]] \in Jobs
      /\ [j EXCEPT !.chunk = [j.chunk EXCEPT ![d] = s]] \in Jobs
  BY <1>2, JobChunkWritten
<1> QED BY <1>3 DEF MarkDispatch

LEMMA PreflightType ==
  ASSUME NEW j \in Jobs
  PROVE  Preflight(j) \in Jobs
<1> DEFINE c == PreflightChunk(j)
           r == [j.chunk[c] EXCEPT !.status = "ready", !.preflightComplete = TRUE]
           last == \A d \in Chunks \ {c} : j.chunk[d].preflightComplete
           s == IF last THEN "ready" ELSE "safety_checking"
           g == [j.chunk EXCEPT ![c] = r]
<1>1. c \in Chunks => r \in ChunkRecords
  BY JobFields, RecordWritten DEF ChunkStatuses
<1>2. g \in [Chunks -> ChunkRecords]
  BY <1>1, JobFields, ChunkWritten
<1>3. s \in JobStatuses
  BY DEF JobStatuses
<1>4. [j EXCEPT !.status = s, !.chunk = g] \in Jobs
  BY <1>2, <1>3, JobWritten
<1> QED BY <1>4 DEF Preflight

LEMMA SafetyCheckType ==
  ASSUME NEW j \in Jobs, NEW S \in SUBSET Messages
  PROVE  SafetyCheck(j, S) \in Jobs
<1> DEFINE c == SafetyChunk(j)
           mayMutate == j.confirmed \/ \E d \in Chunks : d < c /\ j.chunk[d].status = "complete"
           next == CASE S = {} -> [job |-> "chunk_complete", chunk |-> "complete"]
                     [] S # {} /\ mayMutate -> [job |-> "mutating", chunk |-> "mutating"]
                     [] OTHER -> [job |-> "ready", chunk |-> "ready"]
           r == [j.chunk[c] EXCEPT !.status = next.chunk, !.safe = S]
           g == [j.chunk EXCEPT ![c] = r]
<1>1. next.job \in JobStatuses /\ next.chunk \in ChunkStatuses
  <2> HIDE DEF mayMutate
  <2> QED BY DEF JobStatuses, ChunkStatuses
<1> HIDE DEF next
<1>2. c \in Chunks => r \in ChunkRecords
  BY <1>1, JobFields, RecordWritten
<1>3. g \in [Chunks -> ChunkRecords]
  BY <1>2, JobFields, ChunkWritten
<1>4. [j EXCEPT !.status = next.job, !.chunk = g] \in Jobs
  BY <1>1, <1>3, JobWritten
<1> QED BY <1>4 DEF SafetyCheck, next

LEMMA CheckpointType ==
  ASSUME NEW j \in Jobs, NEW n \in Nat
  PROVE  CheckpointTrash(j, n) \in Jobs /\ CheckpointUndo(j, n) \in Jobs
<1> DEFINE c == ActiveSensitiveChunk(j)
           d == ActiveUndoChunk(j)
           r == [j.chunk[c] EXCEPT !.checkpoint = n]
           s == [j.chunk[d] EXCEPT !.undoCheckpoint = n]
<1>1. (c \in Chunks => r \in ChunkRecords) /\ (d \in Chunks => s \in ChunkRecords)
  BY JobFields, RecordWritten
<1>2. /\ [j.chunk EXCEPT ![c] = r] \in [Chunks -> ChunkRecords]
      /\ [j.chunk EXCEPT ![d] = s] \in [Chunks -> ChunkRecords]
  BY <1>1, JobFields, ChunkWritten
<1>3. /\ [j EXCEPT !.chunk = [j.chunk EXCEPT ![c] = r]] \in Jobs
      /\ [j EXCEPT !.chunk = [j.chunk EXCEPT ![d] = s]] \in Jobs
  BY <1>2, JobChunkWritten
<1> QED BY <1>3 DEF CheckpointTrash, CheckpointUndo

LEMMA TrashSentType ==
  ASSUME NEW j \in Jobs
  PROVE  TrashSent(j) \in Jobs
<1> DEFINE c == ActiveSensitiveChunk(j)
           r == [j.chunk[c] EXCEPT !.status = "verifying"]
           g == [j.chunk EXCEPT ![c] = r]
<1>1. c \in Chunks => r \in ChunkRecords
  BY JobFields, RecordWritten DEF ChunkStatuses
<1>2. g \in [Chunks -> ChunkRecords]
  BY <1>1, JobFields, ChunkWritten
<1>3. "verifying" \in JobStatuses
  BY DEF JobStatuses
<1>4. [j EXCEPT !.status = "verifying", !.chunk = g] \in Jobs
  BY <1>2, <1>3, JobWritten
<1> QED BY <1>4 DEF TrashSent

LEMMA VerifyTrashType ==
  ASSUME NEW j \in Jobs, NEW v \in SUBSET Messages, NEW f, NEW u
  PROVE  VerifyTrash(j, v, f, u) \in Jobs
<1> DEFINE c == ActiveSensitiveChunk(j)
           cs == VerificationStatus(f, u, "complete")
           js == VerificationStatus(f, u, "chunk_complete")
           r == [j.chunk[c] EXCEPT !.status = cs, !.moved = v]
           g == [j.chunk EXCEPT ![c] = r]
<1>1. cs \in ChunkStatuses /\ js \in JobStatuses
  BY DEF VerificationStatus, JobStatuses, ChunkStatuses
<1>2. c \in Chunks => r \in ChunkRecords
  BY <1>1, JobFields, RecordWritten
<1>3. g \in [Chunks -> ChunkRecords]
  BY <1>2, JobFields, ChunkWritten
<1>4. [j EXCEPT !.status = js, !.chunk = g] \in Jobs
  BY <1>1, <1>3, JobWritten
<1> QED BY <1>4 DEF VerifyTrash

LEMMA VerifyUndoType ==
  ASSUME NEW j \in Jobs, NEW v \in SUBSET Messages, NEW f, NEW u
  PROVE  VerifyUndo(j, v, f, u) \in Jobs
<1> DEFINE c == ActiveUndoChunk(j)
           cs == VerificationStatus(f, u, "undo_complete")
           r == [j.chunk[c] EXCEPT !.restored = v, !.status = cs]
           g == [j.chunk EXCEPT ![c] = r]
           after == [j EXCEPT !.chunk = g]
           done == IF ActiveUndoChunk(after) # 0 THEN "undoing" ELSE "undo_complete"
           js == VerificationStatus(f, u, done)
<1>1. cs \in ChunkStatuses /\ js \in JobStatuses
  BY DEF VerificationStatus, JobStatuses, ChunkStatuses
<1>2. c \in Chunks => r \in ChunkRecords
  BY <1>1, JobFields, RecordWritten
<1>3. g \in [Chunks -> ChunkRecords]
  BY <1>2, JobFields, ChunkWritten
<1>4. after \in Jobs
  BY <1>3, JobChunkWritten
<1>5. [after EXCEPT !.status = js] \in Jobs
  BY <1>1, <1>4, JobStatusWritten
<1> QED BY <1>5 DEF VerifyUndo

LEMMA AdvanceChunkType ==
  ASSUME NEW j \in Jobs
  PROVE  AdvanceChunk(j) \in Jobs
<1> DEFINE n == First(ChunksIn(j, {"pending"}))
           r == [j.chunk[n] EXCEPT !.status = "safety_checking"]
           all == \A c \in Chunks : j.chunk[c].status = "complete"
           undo == all /\ \E c \in Chunks : j.chunk[c].moved # {}
           s == IF all THEN "complete" ELSE "partial"
           g == [j.chunk EXCEPT ![n] = r]
<1>1. n \in Chunks => r \in ChunkRecords
  BY JobFields, RecordWritten DEF ChunkStatuses
<1>2. g \in [Chunks -> ChunkRecords]
  BY <1>1, JobFields, ChunkWritten
<1>3. "safety_checking" \in JobStatuses /\ s \in JobStatuses
  BY DEF JobStatuses
<1>4. [j EXCEPT !.status = "safety_checking", !.chunk = g] \in Jobs
  BY <1>2, <1>3, JobWritten
<1>5. undo \in BOOLEAN
  OBVIOUS
<1>6. [j EXCEPT !.status = s, !.undoAvailable = undo] \in Jobs
  <2> HIDE DEF undo, s
  <2> QED BY <1>3, <1>5 DEF Jobs
<1> QED BY <1>4, <1>6 DEF AdvanceChunk

LEMMA PausedType ==
  ASSUME NEW j \in Jobs, NEW op
  PROVE  Paused(j, op) \in Jobs
<1> DEFINE open == IF op \in {"preflight_safety", "safety_check"} THEN WorkChunk(j, op) ELSE 0
           g == [c \in Chunks |-> IF c = open
                   THEN [j.chunk[c] EXCEPT !.status = "safety_checking"]
                   ELSE j.chunk[c]]
<1>1. \A c \in Chunks : [j.chunk[c] EXCEPT !.status = "safety_checking"] \in ChunkRecords
  BY JobFields, RecordWritten DEF ChunkStatuses
<1>2. g \in [Chunks -> ChunkRecords]
  BY <1>1, JobFields
<1>3. ResumeStateFor(op) \in {"safety_checking", "mutating", "verifying", "undoing"}
  BY DEF ResumeStateFor
<1>4. [j EXCEPT !.status = "paused", !.resumeState = ResumeStateFor(op), !.chunk = g] \in Jobs
  <2> HIDE DEF g
  <2> QED BY <1>2, <1>3 DEF Jobs, JobStatuses
<1> QED BY <1>4 DEF Paused

LEMMA PrepareConfirmedType ==
  ASSUME NEW j \in Jobs
  PROVE  PrepareConfirmed(j) \in Jobs
<1> DEFINE r(c) == [j.chunk[c] EXCEPT
                      !.status = IF c = 1 THEN "safety_checking" ELSE "pending",
                      !.safe = {}, !.moved = {}, !.checkpoint = 0, !.dispatched = FALSE]
           g == [c \in Chunks |-> r(c)]
<1>1. \A o \in ChunkRecords, t \in ChunkStatuses :
        [o EXCEPT !.status = t, !.safe = {}, !.moved = {}, !.checkpoint = 0,
                  !.dispatched = FALSE] \in ChunkRecords
  BY DEF ChunkRecords
<1>2. \A c \in Chunks : r(c) \in ChunkRecords
  <2> SUFFICES ASSUME NEW c \in Chunks PROVE r(c) \in ChunkRecords
    OBVIOUS
  <2> DEFINE t == IF c = 1 THEN "safety_checking" ELSE "pending"
  <2>1. t \in ChunkStatuses
    BY DEF ChunkStatuses
  <2>2. j.chunk[c] \in ChunkRecords
    BY JobFields
  <2> QED BY <1>1, <2>1, <2>2
<1>3. g \in [Chunks -> ChunkRecords]
  BY <1>2
<1>4. [j EXCEPT !.status = "safety_checking", !.confirmed = TRUE,
                !.undoAvailable = FALSE, !.chunk = g] \in Jobs
  <2> HIDE DEF g
  <2> QED BY <1>3 DEF Jobs, JobStatuses
<1> QED BY <1>4 DEF PrepareConfirmed

LEMMA BeginUndoType ==
  ASSUME NEW j \in Jobs
  PROVE  BeginUndo(j) \in Jobs
<1> DEFINE begins(c) == /\ Restorable(j.chunk[c]) # {}
                        /\ j.chunk[c].restored = {}
                        /\ ~j.chunk[c].undoDispatched
           g == [c \in Chunks |-> IF begins(c)
                                  THEN [j.chunk[c] EXCEPT !.status = "undoing"]
                                  ELSE j.chunk[c]]
<1>1. \A c \in Chunks : [j.chunk[c] EXCEPT !.status = "undoing"] \in ChunkRecords
  BY JobFields, RecordWritten DEF ChunkStatuses
<1>2. g \in [Chunks -> ChunkRecords]
  <2> HIDE DEF begins
  <2> QED BY <1>1, JobFields
<1>3. RestoreEligibility(j) \in {"none", "undo", "recovery"}
  BY DEF RestoreEligibility
<1>4. [j EXCEPT !.status = "undoing", !.restoreMode = RestoreEligibility(j),
                !.undoAvailable = FALSE, !.resumeState = "none", !.chunk = g] \in Jobs
  <2> HIDE DEF g
  <2> QED BY <1>2, <1>3 DEF Jobs, JobStatuses
<1> QED BY <1>4 DEF BeginUndo

-----------------------------------------------------------------------------
(* Rows and steps.                                                          *)

\* A row that is there has every field.
LEMMA RowPresent ==
  ASSUME NEW r \in Rows(Owners, Jobs)
  PROVE  /\ r.present \in BOOLEAN
         /\ r.present => r \in PresentRows(Owners, Jobs)
<1>1. Absent.present = FALSE
  BY DEF Absent
<1>2. r \in PresentRows(Owners, Jobs) => r.present = TRUE
  BY DEF PresentRows
<1> QED BY <1>1, <1>2 DEF Rows

LEMMA RowFields ==
  ASSUME NEW r \in PresentRows(Owners, Jobs)
  PROVE  /\ r.present /\ r.job \in Jobs /\ r.version \in Nat
         /\ r.owner \in Owners \cup {NoOwner}
         /\ r.live \in BOOLEAN /\ r.expired \in BOOLEAN
BY DEF PresentRows

LEMMA AbsentType == Absent \in Rows(Owners, Jobs)
BY DEF Rows

LEMMA CreatedType ==
  ASSUME NEW j \in Jobs
  PROVE  Created(j) \in PresentRows(Owners, Jobs)
BY DEF PresentRows, Created

\* Every write of a row that is there leaves a row that is there.
LEMMA OwnerWritten ==
  ASSUME NEW r \in PresentRows(Owners, Jobs), NEW o \in Owners \cup {NoOwner},
         NEW b \in BOOLEAN
  PROVE  /\ [r EXCEPT !.owner = o] \in PresentRows(Owners, Jobs)
         /\ [r EXCEPT !.owner = o, !.live = b] \in PresentRows(Owners, Jobs)
BY DEF PresentRows

LEMMA FlagWritten ==
  ASSUME NEW r \in PresentRows(Owners, Jobs), NEW b \in BOOLEAN
  PROVE  /\ [r EXCEPT !.live = b] \in PresentRows(Owners, Jobs)
         /\ [r EXCEPT !.expired = b] \in PresentRows(Owners, Jobs)
BY DEF PresentRows

LEMMA ReplacedType ==
  ASSUME NEW r \in PresentRows(Owners, Jobs), NEW j \in Jobs
  PROVE  Replaced(r, j) \in PresentRows(Owners, Jobs)
<1>1. \A n \in Nat : [r EXCEPT !.job = j, !.version = n] \in PresentRows(Owners, Jobs)
  BY DEF PresentRows
<1>2. r.version + 1 \in Nat
  BY RowFields
<1>3. [r EXCEPT !.job = j, !.version = r.version + 1] \in PresentRows(Owners, Jobs)
  BY <1>1, <1>2
<1> QED BY <1>3 DEF Replaced

LEMMA ReleasedType ==
  ASSUME NEW r \in Rows(Owners, Jobs), NEW o
  PROVE  Released(r, o) \in Rows(Owners, Jobs)
<1>1. CASE r.present /\ r.owner = o
  <2>1. r \in PresentRows(Owners, Jobs)
    BY <1>1, RowPresent
  <2>2. [r EXCEPT !.owner = NoOwner, !.live = FALSE] \in PresentRows(Owners, Jobs)
    BY <2>1, OwnerWritten
  <2> QED BY <1>1, <2>2 DEF Released, Rows
<1>2. CASE ~(r.present /\ r.owner = o)
  BY <1>2 DEF Released
<1> QED BY <1>1, <1>2

LEMMA StepWritten ==
  ASSUME NEW f \in [Workers -> Steps], NEW w \in Workers, NEW s \in Steps
  PROVE  [f EXCEPT ![w] = s] \in [Workers -> Steps]
OBVIOUS

LEMMA StepFields ==
  ASSUME NEW s \in Steps
  PROVE  /\ s.job \in Jobs /\ s.mode \in Modes /\ s.op \in Operations \cup {"none"}
         /\ s.version \in Nat /\ s.version + 1 \in Nat
         /\ s.thrown \in Nat /\ s.thrown + 1 \in Nat
<1>1. s.version \in Nat /\ s.thrown \in Nat
  BY DEF Steps
<1> QED BY <1>1 DEF Steps

LEMMA StepMoved ==
  ASSUME NEW s \in Steps, NEW pc \in PCs, NEW n \in Nat
  PROVE  /\ [s EXCEPT !.pc = pc] \in Steps
         /\ [s EXCEPT !.pc = pc, !.version = n] \in Steps
BY DEF Steps

LEMMA StepFilled ==
  ASSUME NEW s \in Steps, NEW pc \in PCs, NEW j \in Jobs, NEW n \in Nat
  PROVE  /\ [s EXCEPT !.pc = pc, !.job = j] \in Steps
         /\ [s EXCEPT !.pc = pc, !.job = j, !.version = n] \in Steps
BY DEF Steps

LEMMA StepPlanned ==
  ASSUME NEW s \in Steps, NEW pc \in PCs, NEW op \in Operations \cup {"none"},
         NEW j \in Jobs, NEW n \in Nat
  PROVE  /\ [s EXCEPT !.pc = pc, !.op = op] \in Steps
         /\ [s EXCEPT !.pc = pc, !.op = op, !.job = j, !.version = n] \in Steps
BY DEF Steps

LEMMA AcceptedJobType == AcceptedJob \in Jobs
BY DEF AcceptedJob, PendingChunk, Jobs, ChunkRecords, ChunkStatuses, JobStatuses

LEMMA NoStepType ==
  /\ NoStep \in Steps
  /\ \A mode \in Modes, n \in Nat : Idle(mode, n) \in Steps
BY AcceptedJobType DEF NoStep, Idle, Steps, PCs, Modes

-----------------------------------------------------------------------------
(* Type correctness.                                                        *)

\* A step that passed the fence has a chunk to work on: what it asks the
\* provider, and what it writes, is about that chunk.
WorkOK ==
  \A w \in Workers : worker[w].pc \in {"fenced", "awaiting"} =>
    WorkChunk(worker[w].job, worker[w].op) \in Chunks

\* A step's own write leaves the others' alone.
LEMMA WorkerWritten ==
  ASSUME TypeOK, WorkOK, NEW w \in Workers, NEW s \in Steps,
         s.pc \in {"fenced", "awaiting"} => WorkChunk(s.job, s.op) \in Chunks,
         worker' = [worker EXCEPT ![w] = s]
  PROVE  worker' \in [Workers -> Steps] /\ WorkOK'
<1>1. worker \in [Workers -> Steps]
  BY DEF TypeOK
<1>2. worker' \in [Workers -> Steps]
  BY <1>1
<1>3. worker'[w] = s /\ \A v \in Workers \ {w} : worker'[v] = worker[v]
  BY <1>1
<1>4. WorkOK'
  BY <1>3 DEF WorkOK
<1> QED BY <1>2, <1>4

\* The budgets of the environment are naturals that are spent one by one.
Budgets == [pauses : Nat, failures : Nat, lapses : Nat, starts : Nat]

LEMMA BudgetSpent ==
  ASSUME NEW b \in Budgets
  PROVE  /\ b.pauses > 0 => [b EXCEPT !.pauses = @ - 1] \in Budgets
         /\ b.failures > 0 => [b EXCEPT !.failures = @ - 1] \in Budgets
         /\ b.lapses > 0 => [b EXCEPT !.lapses = @ - 1] \in Budgets
         /\ b.starts > 0 => [b EXCEPT !.starts = @ - 1] \in Budgets
<1>1. \A n \in Nat : n > 0 => n - 1 \in Nat
  OBVIOUS
<1>2. b.pauses \in Nat /\ b.failures \in Nat /\ b.lapses \in Nat /\ b.starts \in Nat
  BY DEF Budgets
<1>3. \A n \in Nat : /\ [b EXCEPT !.pauses = n] \in Budgets
                     /\ [b EXCEPT !.failures = n] \in Budgets
                     /\ [b EXCEPT !.lapses = n] \in Budgets
                     /\ [b EXCEPT !.starts = n] \in Budgets
  BY DEF Budgets
<1> QED BY <1>1, <1>2, <1>3

\* In particular a move to a program counter that is not past the fence, ...
LEMMA Moved ==
  ASSUME TypeOK, WorkOK, NEW w \in Workers, NEW pc \in PCs \ {"fenced", "awaiting"},
         Move(w, pc)
  PROVE  worker' \in [Workers -> Steps] /\ WorkOK'
<1>1. worker[w] \in Steps
  BY DEF TypeOK
<1> DEFINE s == [worker[w] EXCEPT !.pc = pc]
<1>2. s \in Steps
  BY <1>1, StepMoved
<1>3. s.pc = pc
  BY <1>1 DEF Steps
<1>4. worker' = [worker EXCEPT ![w] = s]
  BY DEF Move
<1> HIDE DEF s
<1> QED BY <1>2, <1>3, <1>4, WorkerWritten

\* ... the executor's result ...
LEMMA Finished ==
  ASSUME TypeOK, WorkOK, NEW w \in Workers, NEW j \in Jobs, Finish(w, j)
  PROVE  worker' \in [Workers -> Steps] /\ WorkOK'
<1>1. worker[w] \in Steps
  BY DEF TypeOK
<1> DEFINE s == [worker[w] EXCEPT !.pc = "executed", !.job = j]
<1>2. s \in Steps
  BY <1>1, StepFilled DEF PCs
<1>3. s.pc = "executed"
  BY <1>1 DEF Steps
<1>4. worker' = [worker EXCEPT ![w] = s]
  BY DEF Finish
<1> HIDE DEF s
<1> QED BY <1>2, <1>3, <1>4, WorkerWritten

\* ... and a step's end, whatever becomes of its run.
LEMMA Ended ==
  ASSUME TypeOK, WorkOK, NEW w \in Workers, NEW m \in Modes, NEW n \in Nat,
         \/ worker' = [worker EXCEPT ![w] = NoStep]
         \/ worker' = [worker EXCEPT ![w] = Idle(m, n)]
  PROVE  worker' \in [Workers -> Steps] /\ WorkOK'
<1>1. NoStep.pc = "off" /\ Idle(m, n).pc = "idle"
  BY DEF NoStep, Idle
<1>2. NoStep \in Steps /\ Idle(m, n) \in Steps
  BY NoStepType
<1> QED BY <1>1, <1>2, WorkerWritten

\* What the aggregate's writers leave is an aggregate.
LEMMA AggregateWritten ==
  ASSUME TypeOK, NEW j \in Jobs
  PROVE  /\ Synced(j) \in Aggregates
         /\ Cancelled \in Aggregates
         /\ [aggregate EXCEPT !.snapshot = "none"] \in Aggregates
BY DEF Synced, Cancelled, AggregateStatus, SnapshotStatuses, Aggregates, TypeOK

\* The coordinator's part of a step.
LEMMA CoordinatorTyped ==
  ASSUME TypeOK, WorkOK, NEW w \in Workers,
         \/ Claim(w) \/ StopRun(w) \/ Sleep(w) \/ MarkDurably(w) \/ RefreshLock(w)
  PROVE  (TypeOK /\ WorkOK)'
<1> DEFINE st == worker[w]
<1>1. st \in Steps /\ row \in Rows(Owners, Jobs)
  BY DEF TypeOK
<1>2. CASE Claim(w)
  <2> DEFINE s == [st EXCEPT !.pc = "claimed", !.job = row.job, !.version = row.version]
  <2>1. row \in PresentRows(Owners, Jobs)
    BY <1>1, <1>2, RowPresent DEF Claim, Claimable, Visible
  <2>2. s \in Steps
    BY <1>1, <2>1, RowFields, StepFilled DEF PCs
  <2>3. s.pc = "claimed"
    BY <1>1 DEF Steps
  <2>4. worker' = [worker EXCEPT ![w] = s]
    BY <1>2 DEF Claim
  <2>5. worker' \in [Workers -> Steps] /\ WorkOK'
    <3> HIDE DEF s
    <3> QED BY <2>2, <2>3, <2>4, WorkerWritten
  <2>6. row' \in Rows(Owners, Jobs)
    BY <1>2, <2>1, OwnerWritten DEF Claim, Claimed, Owners, Rows
  <2> QED BY <1>2, <2>5, <2>6 DEF TypeOK, Claim
<1>3. CASE StopRun(w)
  <2>1. worker' \in [Workers -> Steps] /\ WorkOK'
    BY <1>3, Moved DEF StopRun, PCs
  <2>2. aggregate' \in Aggregates
    BY <1>1, <1>3, StepFields, AggregateWritten DEF StopRun
  <2> QED BY <1>3, <2>1, <2>2 DEF TypeOK, StopRun
<1>4. CASE Sleep(w)
  <2>1. worker' \in [Workers -> Steps] /\ WorkOK'
    BY <1>4, Moved DEF Sleep, PCs
  <2> QED BY <1>4, <2>1 DEF TypeOK, Sleep
<1>5. CASE MarkDurably(w)
  <2>1. CASE CanReplace(row, st.version) /\ Owns(row, w)
    <3> DEFINE op == Decision(w)
               marked == MarkDispatch(st.job, op)
               s == [st EXCEPT !.pc = "marked", !.op = op, !.job = marked,
                               !.version = st.version + 1]
    <3>1. row \in PresentRows(Owners, Jobs)
      BY <1>1, <2>1, RowPresent DEF CanReplace, Visible
    <3>2. marked \in Jobs
      BY <1>1, StepFields, MarkDispatchType
    <3>3. row' = Replaced(row, marked)
      BY <1>5, <2>1 DEF MarkDurably
    <3>9. worker' = [worker EXCEPT ![w] = s]
      BY <1>5, <2>1 DEF MarkDurably
    <3>4. op \in Operations
      BY <1>5 DEF MarkDurably, Dispatches, Operations, TrashOps, UndoOps
    <3> HIDE DEF marked, op
    <3>5. row' \in Rows(Owners, Jobs)
      BY <3>1, <3>2, <3>3, ReplacedType DEF Rows
    <3>6. s \in Steps
      BY <1>1, <3>2, <3>4, StepFields, StepPlanned DEF PCs
    <3>7. s.pc = "marked"
      BY <1>1 DEF Steps
    <3>8. worker' \in [Workers -> Steps] /\ WorkOK'
      <4> HIDE DEF s
      <4> QED BY <3>9, <3>6, <3>7, WorkerWritten
    <3> QED BY <1>5, <3>5, <3>8 DEF TypeOK, MarkDurably
  <2>2. CASE ~(CanReplace(row, st.version) /\ Owns(row, w))
    <3>1. worker' \in [Workers -> Steps] /\ WorkOK'
      BY <1>5, <2>2, Moved DEF MarkDurably, PCs
    <3> QED BY <1>5, <2>2, <3>1 DEF TypeOK, MarkDurably
  <2> QED BY <2>1, <2>2
<1>6. CASE RefreshLock(w)
  <2>1. PICK op \in Operations \cup {"none"} : Execute(w, op)
    BY <1>1, <1>6, StepFields DEF RefreshLock
  <2>2. worker' \in [Workers -> Steps] /\ WorkOK'
    <3>1. CASE Owns(row, w)
      <4> DEFINE s == [st EXCEPT !.pc = "executing", !.op = op]
      <4>1. worker' = [worker EXCEPT ![w] = s]
        BY <2>1, <3>1 DEF Execute
      <4>2. s \in Steps
        BY <1>1, AcceptedJobType, StepPlanned DEF PCs
      <4>3. s.pc = "executing"
        BY <1>1 DEF Steps
      <4> HIDE DEF s
      <4> QED BY <4>1, <4>2, <4>3, WorkerWritten
    <3>2. CASE ~Owns(row, w)
      BY <2>1, <3>2, Moved DEF Execute, PCs
    <3> QED BY <3>1, <3>2
  <2> QED BY <1>6, <2>2 DEF TypeOK, RefreshLock
<1> QED BY <1>2, <1>3, <1>4, <1>5, <1>6

\* The executor's and the provider's part.
LEMMA ExecutorTyped ==
  ASSUME TypeOK, WorkOK, NEW w \in Workers,
         \/ PauseForQuota(w) \/ Advance(w) \/ PassFence(w) \/ Refuse(w) \/ LoseAnswer(w)
  PROVE  (TypeOK /\ WorkOK)'
<1> DEFINE st == worker[w]
<1>1. st \in Steps /\ st.job \in Jobs /\ Opened(st.job) \in Jobs
      /\ RestorePausedState(st.job) \in Jobs
  <2>1. st \in Steps /\ st.job \in Jobs
    BY StepFields DEF TypeOK
  <2> QED BY <2>1, OpenedType, RestorePausedStateType
<1>2. CASE PauseForQuota(w)
  <2>1. Paused(RestorePausedState(st.job), st.op) \in Jobs
    BY <1>1, PausedType
  <2>2. worker' \in [Workers -> Steps] /\ WorkOK'
    BY <1>2, <2>1, Finished DEF PauseForQuota
  <2>3. budget' \in Budgets
    BY <1>2, BudgetSpent DEF PauseForQuota, TypeOK, Budgets
  <2> QED BY <1>2, <2>2, <2>3 DEF TypeOK, PauseForQuota, Budgets
<1>3. CASE Advance(w)
  <2>1. AdvanceChunk(Opened(st.job)) \in Jobs
    BY <1>1, AdvanceChunkType
  <2>2. worker' \in [Workers -> Steps] /\ WorkOK'
    BY <1>3, <2>1, Finished DEF Advance
  <2> QED BY <1>3, <2>2 DEF TypeOK, Advance
<1>4. CASE PassFence(w)
  <2> DEFINE s == [st EXCEPT !.pc = "fenced"]
  <2>1. WorkChunk(st.job, st.op) \in Chunks
    BY <1>1, <1>4, WorkChunkFound DEF PassFence, CanWork
  <2>2. s \in Steps
    BY <1>1, StepMoved DEF PCs
  <2>3. s.job = st.job /\ s.op = st.op
    BY <1>1 DEF Steps
  <2>4. worker' = [worker EXCEPT ![w] = s]
    BY <1>4 DEF PassFence, Move
  <2>5. worker' \in [Workers -> Steps] /\ WorkOK'
    <3> HIDE DEF s
    <3> QED BY <2>1, <2>2, <2>3, <2>4, WorkerWritten
  <2> QED BY <1>4, <2>5 DEF TypeOK, PassFence
<1>5. CASE Refuse(w)
  <2>1. worker' \in [Workers -> Steps] /\ WorkOK'
    BY <1>5, Moved DEF Refuse, PCs
  <2> QED BY <1>5, <2>1 DEF TypeOK, Refuse
<1>6. CASE LoseAnswer(w)
  <2>1. worker' \in [Workers -> Steps] /\ WorkOK'
    BY <1>6, Moved DEF LoseAnswer, PCs
  <2>2. budget' \in Budgets
    BY <1>6, BudgetSpent DEF LoseAnswer, TypeOK, Budgets
  <2> QED BY <1>6, <2>1, <2>2 DEF TypeOK, LoseAnswer, Budgets
<1> QED BY <1>2, <1>3, <1>4, <1>5, <1>6

\* What the mailbox may answer is about the asked messages.
LEMMA OutcomesType ==
  ASSUME NEW ids \in SUBSET Messages, NEW kind, NEW checkpoint,
         NEW o \in Outcomes(ids, kind, checkpoint)
  PROVE  o.verified \in SUBSET Messages
BY DEF Outcomes

LEMMA ProviderTyped ==
  ASSUME TypeOK, WorkOK, NEW w \in Workers,
         \/ CheckSafety(w) \/ Checkpoint(w) \/ Send(w) \/ Answered(w) \/ Verify(w)
  PROVE  (TypeOK /\ WorkOK)'
<1> DEFINE st == worker[w]
           job == Opened(st.job)
           c == WorkChunk(st.job, st.op)
<1>1. st \in Steps /\ st.job \in Jobs /\ job \in Jobs
  <2>1. st \in Steps /\ st.job \in Jobs
    BY StepFields DEF TypeOK
  <2> QED BY <2>1, OpenedType
<1>2. /\ st.pc \in {"fenced", "awaiting"} => c \in Chunks
      /\ WorkChunk(job, st.op) = c /\ job.chunk = st.job.chunk
  BY <1>1, OpenedKeepsChunks DEF WorkOK
<1>3. c \in Chunks => /\ Targets[c] \subseteq Messages
                      /\ job.chunk[c].safe \in SUBSET Messages
                      /\ job.chunk[c].moved \in SUBSET Messages
  BY <1>1, <1>2, JobFields DEF Messages, ChunkRecords
<1>4. CASE CheckSafety(w)
  <2>1. Preflight(job) \in Jobs
    BY <1>1, PreflightType
  <2>2. \A S \in SUBSET Targets[c] : SafetyCheck(job, S) \in Jobs
    BY <1>1, <1>2, <1>3, <1>4, SafetyCheckType DEF CheckSafety
  <2>3. \/ Finish(w, Preflight(job))
        \/ \E S \in SUBSET Targets[c] : Finish(w, SafetyCheck(job, S))
    BY <1>2, <1>4 DEF CheckSafety
  <2>4. worker' \in [Workers -> Steps] /\ WorkOK'
    BY <2>1, <2>2, <2>3, Finished
  <2> QED BY <1>4, <2>4 DEF TypeOK, CheckSafety
<1>5. CASE Checkpoint(w)
  <2> DEFINE position == Len(history) + 1
  <2>1. position \in Nat
    BY DEF TypeOK
  <2>2. CheckpointTrash(job, position) \in Jobs /\ CheckpointUndo(job, position) \in Jobs
    <3> HIDE DEF position
    <3> QED BY <1>1, <2>1, CheckpointType
  <2>3. \/ Finish(w, CheckpointTrash(job, position))
        \/ Finish(w, CheckpointUndo(job, position))
    BY <1>5 DEF Checkpoint
  <2>4. worker' \in [Workers -> Steps] /\ WorkOK'
    BY <2>2, <2>3, Finished
  <2> QED BY <1>5, <2>4 DEF TypeOK, Checkpoint
<1>6. CASE Send(w)
  <2>1. Request(w) \in Requests
    BY <1>1, <1>2, <1>3, <1>6 DEF Send, Request, Requests, Kinds, Restorable
  <2>2. inflight' \in SUBSET Requests
    BY <1>6, <2>1 DEF Send, TypeOK
  <2>3. sent' \in [Kinds -> [Chunks -> Nat]]
    <3>1. Request(w).kind \in Kinds /\ Request(w).chunk \in Chunks
      BY <2>1 DEF Requests
    <3> QED BY <1>6, <3>1 DEF Send, TypeOK
  <2>4. worker' \in [Workers -> Steps] /\ WorkOK'
    <3> DEFINE s == [st EXCEPT !.pc = "awaiting"]
    <3>1. s \in Steps
      BY <1>1, StepMoved DEF PCs
    <3>2. s.job = st.job /\ s.op = st.op
      BY <1>1 DEF Steps
    <3>3. worker' = [worker EXCEPT ![w] = s]
      BY <1>6 DEF Send, Move
    <3>4. c \in Chunks
      BY <1>2, <1>6 DEF Send
    <3> HIDE DEF s
    <3> QED BY <3>1, <3>2, <3>3, <3>4, WorkerWritten
  <2> QED BY <1>6, <2>2, <2>3, <2>4 DEF TypeOK, Send
<1>7. CASE Answered(w)
  <2>1. TrashSent(job) \in Jobs
    BY <1>1, TrashSentType
  <2>2. worker' \in [Workers -> Steps] /\ WorkOK'
    BY <1>1, <1>7, <2>1, Finished DEF Answered
  <2> QED BY <1>7, <2>2 DEF TypeOK, Answered
<1>8. CASE Verify(w)
  <2> DEFINE chunk == job.chunk[c]
  <2>1. chunk.safe \in SUBSET Messages /\ Restorable(chunk) \in SUBSET Messages
    BY <1>2, <1>3, <1>8 DEF Verify, Restorable
  <2>2. \/ \E o \in Outcomes(chunk.safe, "trash", chunk.checkpoint) :
             Finish(w, VerifyTrash(job, o.verified, o.failed, o.uncertain))
        \/ \E o \in Outcomes(Restorable(chunk), "undo", chunk.undoCheckpoint) :
             Finish(w, VerifyUndo(job, o.verified, o.failed, o.uncertain))
    BY <1>2, <1>8 DEF Verify
  <2>3. \E j \in Jobs : Finish(w, j)
    <3> HIDE DEF job, chunk
    <3>1. ASSUME NEW o \in Outcomes(chunk.safe, "trash", chunk.checkpoint)
          PROVE  VerifyTrash(job, o.verified, o.failed, o.uncertain) \in Jobs
      BY <1>1, <2>1, OutcomesType, VerifyTrashType
    <3>2. ASSUME NEW o \in Outcomes(Restorable(chunk), "undo", chunk.undoCheckpoint)
          PROVE  VerifyUndo(job, o.verified, o.failed, o.uncertain) \in Jobs
      BY <1>1, <2>1, OutcomesType, VerifyUndoType
    <3> QED BY <2>2, <3>1, <3>2
  <2>4. worker' \in [Workers -> Steps] /\ WorkOK'
    BY <2>3, Finished
  <2> QED BY <1>8, <2>4 DEF TypeOK, Verify
<1> QED BY <1>4, <1>5, <1>6, <1>7, <1>8

\* The end of a step.
LEMMA EndTyped ==
  ASSUME TypeOK, WorkOK, NEW w \in Workers,
         \/ Commit(w) \/ Sync(w) \/ Delete(w) \/ Release(w) \/ Crash(w) \/ FindMissing(w)
  PROVE  (TypeOK /\ WorkOK)'
<1> DEFINE st == worker[w]
<1>1. st \in Steps /\ st.job \in Jobs /\ row \in Rows(Owners, Jobs) /\ budget \in Budgets
  BY StepFields DEF TypeOK, Budgets
<1>2. /\ AfterThrow(w) = NoStep \/ AfterThrow(w) = Idle(st.mode, st.thrown + 1)
      /\ st.mode \in Modes /\ st.thrown + 1 \in Nat
  BY <1>1, StepFields DEF AfterThrow
<1>3. CASE Commit(w)
  <2>1. CASE CanReplace(row, st.version) /\ Owns(row, w)
    <3> DEFINE s == [st EXCEPT !.pc = "committed", !.version = st.version + 1]
    <3>1. row \in PresentRows(Owners, Jobs)
      BY <1>1, <2>1, RowPresent DEF CanReplace, Visible
    <3>2. row' = Replaced(row, st.job) /\ worker' = [worker EXCEPT ![w] = s]
      BY <1>3, <2>1 DEF Commit
    <3>3. row' \in Rows(Owners, Jobs)
      BY <1>1, <3>1, <3>2, ReplacedType DEF Rows
    <3>4. s \in Steps
      BY <1>1, StepFields, StepMoved DEF PCs
    <3>5. s.pc = "committed"
      BY <1>1 DEF Steps
    <3>6. worker' \in [Workers -> Steps] /\ WorkOK'
      <4> HIDE DEF s
      <4> QED BY <3>2, <3>4, <3>5, WorkerWritten
    <3> QED BY <1>3, <3>3, <3>6 DEF TypeOK, Commit
  <2>2. CASE ~(CanReplace(row, st.version) /\ Owns(row, w))
    <3>1. worker' \in [Workers -> Steps] /\ WorkOK'
      BY <1>3, <2>2, Moved DEF Commit, PCs
    <3> QED BY <1>3, <2>2, <3>1 DEF TypeOK, Commit
  <2> QED BY <2>1, <2>2
<1>4. CASE Sync(w)
  <2>1. worker' \in [Workers -> Steps] /\ WorkOK'
    BY <1>4, Moved DEF Sync, PCs
  <2>2. aggregate' \in Aggregates
    BY <1>1, <1>4, AggregateWritten DEF Sync
  <2> QED BY <1>4, <2>1, <2>2 DEF TypeOK, Sync, Aggregates
<1>5. CASE Delete(w)
  <2>1. worker' \in [Workers -> Steps] /\ WorkOK'
    BY <1>5, Moved DEF Delete, PCs
  <2> QED BY <1>5, <2>1, AbsentType DEF TypeOK, Delete
<1>6. CASE Release(w)
  <2>1. row' \in Rows(Owners, Jobs)
    BY <1>1, <1>6, ReleasedType DEF Release
  <2>2. \/ worker' = [worker EXCEPT ![w] = Idle(st.mode, 0)]
        \/ worker' = [worker EXCEPT ![w] = NoStep]
        \/ worker' = [worker EXCEPT ![w] = AfterThrow(w)]
    BY <1>6 DEF Release
  <2>3. worker' \in [Workers -> Steps] /\ WorkOK'
    BY <1>2, <2>2, Ended
  <2> QED BY <1>6, <2>1, <2>3 DEF TypeOK, Release
<1>7. CASE Crash(w)
  <2>1. row' \in Rows(Owners, Jobs)
    BY <1>1, <1>7, RowPresent, OwnerWritten DEF Crash, Owners, Rows
  <2>2. worker' \in [Workers -> Steps] /\ WorkOK'
    BY <1>2, <1>7, Ended DEF Crash
  <2>3. budget' \in Budgets
    BY <1>1, <1>7, BudgetSpent DEF Crash
  <2> QED BY <1>7, <2>1, <2>2, <2>3 DEF TypeOK, Crash, Budgets
<1>8. CASE FindMissing(w)
  <2>1. row' \in Rows(Owners, Jobs)
    BY <1>1, <1>8, AbsentType DEF FindMissing
  <2>2. aggregate' \in Aggregates
    BY <1>1, <1>8, AggregateWritten DEF FindMissing
  <2>3. worker' \in [Workers -> Steps] /\ WorkOK'
    BY <1>2, <1>8, Ended DEF FindMissing
  <2> QED BY <1>8, <2>1, <2>2, <2>3 DEF TypeOK, FindMissing, Aggregates
<1> QED BY <1>3, <1>4, <1>5, <1>6, <1>7, <1>8

\* Mailbox, clocks and retention.
LEMMA EnvironmentTyped ==
  ASSUME TypeOK, WorkOK,
         \/ \E r \in inflight : RequestLands(r)
         \/ LeaseLapses \/ OrphanLapses \/ WindowElapses \/ StateExpires \/ Purge
  PROVE  (TypeOK /\ WorkOK)'
<1>1. row \in Rows(Owners, Jobs) /\ budget \in Budgets
      /\ (row.present => row \in PresentRows(Owners, Jobs))
  BY RowPresent DEF TypeOK, Budgets
<1>2. ASSUME NEW r \in inflight, RequestLands(r)
      PROVE  (TypeOK /\ WorkOK)'
  <2>1. r.ids \in SUBSET Messages
    BY DEF TypeOK, Requests
  <2>2. PICK S \in SUBSET r.ids :
          LET changed == IF r.kind = "trash" THEN S \ trash ELSE S \cap trash IN
          /\ trash' = IF r.kind = "trash" THEN trash \cup S ELSE trash \ S
          /\ history' = IF changed = {} THEN history
                        ELSE Append(history, [kind |-> r.kind, ids |-> changed])
    BY <1>2 DEF RequestLands
  <2>3. trash' \in SUBSET Messages
    BY <2>1, <2>2 DEF TypeOK
  <2>4. history' \in Seq([kind : Kinds, ids : SUBSET Messages])
    <3> DEFINE changed == IF r.kind = "trash" THEN S \ trash ELSE S \cap trash
    <3>1. changed \in SUBSET Messages /\ r.kind \in Kinds
      BY <2>1 DEF TypeOK, Requests
    <3>2. history' = history \/ history' = Append(history, [kind |-> r.kind, ids |-> changed])
      BY <2>2
    <3> HIDE DEF changed
    <3>3. [kind |-> r.kind, ids |-> changed] \in [kind : Kinds, ids : SUBSET Messages]
      BY <3>1
    <3> DEFINE E == [kind : Kinds, ids : SUBSET Messages]
               e == [kind |-> r.kind, ids |-> changed]
    <3>4. history \in Seq(E)
      BY DEF TypeOK
    <3> HIDE DEF E, e
    <3>5. Append(history, e) \in Seq(E)
      BY <3>3, <3>4 DEF E, e
    <3> QED BY <3>2, <3>4, <3>5 DEF E, e
  <2>5. inflight' \in SUBSET Requests
    BY <1>2 DEF RequestLands, TypeOK
  <2> QED BY <1>2, <2>3, <2>4, <2>5 DEF RequestLands, TypeOK, WorkOK
<1>3. CASE LeaseLapses
  <2>1. row' \in Rows(Owners, Jobs) /\ budget' \in Budgets
    BY <1>1, <1>3, FlagWritten, BudgetSpent DEF LeaseLapses, Rows
  <2> QED BY <1>3, <2>1 DEF LeaseLapses, TypeOK, WorkOK, Budgets
<1>4. CASE OrphanLapses
  <2>1. row' \in Rows(Owners, Jobs)
    BY <1>1, <1>4, FlagWritten DEF OrphanLapses, Rows
  <2> QED BY <1>4, <2>1 DEF OrphanLapses, TypeOK, WorkOK
<1>5. CASE WindowElapses
  BY <1>5 DEF WindowElapses, TypeOK, WorkOK
<1>6. CASE StateExpires
  <2>1. row' \in Rows(Owners, Jobs)
    BY <1>1, <1>6, FlagWritten DEF StateExpires, Visible, Rows
  <2> QED BY <1>6, <2>1 DEF StateExpires, TypeOK, WorkOK
<1>7. CASE Purge
  BY <1>7, AbsentType DEF Purge, TypeOK, WorkOK
<1> QED BY <1>2, <1>3, <1>4, <1>5, <1>6, <1>7

\* The user's requests.
LEMMA StartTyped ==
  ASSUME TypeOK, WorkOK, NEW mode \in Modes
  PROVE  /\ Started(mode) => worker' \in [Workers -> Steps] /\ WorkOK'
         /\ Scheduled(mode) => worker' \in [Workers -> Steps] /\ WorkOK' /\ budget' \in Budgets
         /\ Restarted => worker' \in [Workers -> Steps] /\ WorkOK' /\ budget' \in Budgets
<1>1. \A m \in Modes : Started(m) => worker' \in [Workers -> Steps] /\ WorkOK'
  BY Ended DEF Started
<1>2. worker \in [Workers -> Steps] /\ budget \in Budgets
  BY DEF TypeOK, Budgets
<1>3. Scheduled(mode) => worker' \in [Workers -> Steps] /\ WorkOK' /\ budget' \in Budgets
  BY <1>1, <1>2, BudgetSpent DEF Scheduled, WorkOK
<1>4. Restarted => worker' \in [Workers -> Steps] /\ WorkOK' /\ budget' \in Budgets
  BY <1>1, <1>2, BudgetSpent DEF Restarted, Modes
<1> QED BY <1>1, <1>3, <1>4

LEMMA UserTyped ==
  ASSUME TypeOK, WorkOK,
         \/ Accept \/ Confirm \/ Redispatch \/ ClaimRestore \/ AbandonRestore
         \/ Discard \/ Disconnect \/ UserCompletes
  PROVE  (TypeOK /\ WorkOK)'
<1>1. row.present => row \in PresentRows(Owners, Jobs) /\ row.job \in Jobs
  BY RowPresent, RowFields DEF TypeOK
<1>2. "cleanup" \in Modes /\ "undo" \in Modes
  BY DEF Modes
<1>3. CASE Accept
  BY <1>2, <1>3, StartTyped DEF Accept, TypeOK, Budgets
<1>4. CASE Confirm
  <2>1. row' \in Rows(Owners, Jobs)
    BY <1>1, <1>4, PrepareConfirmedType, ReplacedType DEF Confirm, Visible, Rows
  <2> QED BY <1>2, <1>4, <2>1, StartTyped DEF Confirm, TypeOK, Budgets
<1>5. CASE Redispatch
  BY <1>2, <1>5, StartTyped DEF Redispatch, TypeOK, Budgets
<1>6. CASE ClaimRestore \/ AbandonRestore
  <2>1. row' \in Rows(Owners, Jobs)
    <3>1. row \in Rows(Owners, Jobs) /\ Restorer \in Owners /\ Orphan \in Owners
      BY DEF TypeOK, Owners
    <3>2. CASE ClaimRestore
      BY <1>1, <3>1, <3>2, OwnerWritten DEF ClaimRestore, Claimed, Claimable, Visible, Rows
    <3>3. CASE AbandonRestore
      BY <1>1, <3>1, <3>3, OwnerWritten DEF AbandonRestore, Rows
    <3> QED BY <1>6, <3>2, <3>3
  <2>2. budget' \in Budgets /\ user' \in UserStates
    BY <1>6, BudgetSpent DEF ClaimRestore, AbandonRestore, TypeOK, Budgets, UserStates
  <2> QED BY <1>6, <2>1, <2>2 DEF ClaimRestore, AbandonRestore, TypeOK, WorkOK, Budgets
<1>7. CASE Discard
  BY <1>7 DEF Discard, TypeOK, WorkOK, UserStates
<1>8. CASE Disconnect
  BY <1>8 DEF Disconnect, TypeOK, WorkOK, UserStates
<1>9. CASE UserCompletes
  <2>1. CASE DiscardState \/ ForgetState
    BY <2>1, AbsentType DEF DiscardState, ForgetState, TypeOK, WorkOK, UserStates
  <2>2. CASE DiscardJob \/ CancelJobs \/ ClearSnapshots
    <3>1. aggregate' \in Aggregates
      BY <2>2, AcceptedJobType, AggregateWritten DEF DiscardJob, CancelJobs, ClearSnapshots
    <3> QED BY <2>2, <3>1
            DEF DiscardJob, CancelJobs, ClearSnapshots, TypeOK, WorkOK, Aggregates, UserStates
  <2>3. CASE CommitRestore
    <3>1. CASE Owns(row, Restorer)
      <4>1. Replaced(row, BeginUndo(row.job)) \in Rows(Owners, Jobs)
        BY <1>1, <3>1, BeginUndoType, ReplacedType DEF Owns, Visible, Rows
      <4>2. row' \in Rows(Owners, Jobs)
        BY <2>3, <3>1, <4>1, ReleasedType DEF CommitRestore
      <4> QED BY <2>3, <3>1, <4>2 DEF CommitRestore, TypeOK, WorkOK, UserStates
    <3>2. CASE ~Owns(row, Restorer)
      <4>1. row' \in Rows(Owners, Jobs)
        BY <2>3, <3>2, ReleasedType DEF CommitRestore, TypeOK
      <4> QED BY <2>3, <3>2, <4>1 DEF CommitRestore, TypeOK, WorkOK, UserStates
    <3> QED BY <3>1, <3>2
  <2>4. CASE StartRestore
    BY <1>2, <2>4, StartTyped DEF StartRestore, TypeOK, Budgets, UserStates
  <2> QED BY <1>9, <2>1, <2>2, <2>3, <2>4 DEF UserCompletes
<1> QED BY <1>3, <1>4, <1>5, <1>6, <1>7, <1>8, <1>9

LEMMA InitTyped ==
  ASSUME Init
  PROVE  TypeOK /\ WorkOK
<1>1. row \in Rows(Owners, Jobs)
  BY AcceptedJobType, CreatedType DEF Init, Rows
<1>2. worker \in [Workers -> Steps] /\ WorkOK
  BY NoStepType DEF Init, WorkOK, NoStep
<1>3. budget \in [pauses : Nat, failures : Nat, lapses : Nat, starts : Nat]
  BY CleanupAssumption DEF Init
<1>4. aggregate \in Aggregates
  BY DEF Init, Aggregates
<1>5. sent \in [Kinds -> [Chunks -> Nat]]
  BY DEF Init
<1>6. trash \in SUBSET Messages /\ inflight \in SUBSET Requests
      /\ history \in Seq([kind : Kinds, ids : SUBSET Messages])
  BY DEF Init
<1>7. waiting \in BOOLEAN /\ connected \in BOOLEAN
      /\ user \in UserStates
  BY DEF Init, UserStates
<1> QED BY <1>1, <1>2, <1>3, <1>4, <1>5, <1>6, <1>7 DEF TypeOK

LEMMA StepTyped ==
  ASSUME TypeOK, WorkOK, [Next]_vars
  PROVE  (TypeOK /\ WorkOK)'
<1>1. CASE \E w \in Workers : Progress(w) \/ PauseForQuota(w) \/ LoseAnswer(w) \/ Crash(w)
  BY <1>1, CoordinatorTyped, ExecutorTyped, ProviderTyped, EndTyped DEF Progress
<1>2. CASE \/ \E r \in inflight : RequestLands(r)
           \/ LeaseLapses \/ OrphanLapses \/ WindowElapses \/ StateExpires \/ Purge
  BY <1>2, EnvironmentTyped
<1>3. CASE \/ Accept \/ Confirm \/ Redispatch \/ ClaimRestore \/ AbandonRestore
           \/ Discard \/ Disconnect \/ UserCompletes
  BY <1>3, UserTyped
<1>4. CASE UNCHANGED vars
  BY <1>4 DEF vars, TypeOK, WorkOK
<1> QED BY <1>1, <1>2, <1>3, <1>4 DEF Next

\* Every variable keeps its type: whatever runs, requests and failures meet,
\* the row the repository stores is one its decoder accepts, and no operation
\* names a chunk the job does not have.
THEOREM TypeCorrect == Spec => []TypeOK
<1>1. Init => TypeOK /\ WorkOK
  BY InitTyped
<1>2. TypeOK /\ WorkOK /\ [Next]_vars => (TypeOK /\ WorkOK)'
  BY StepTyped
<1> QED BY <1>1, <1>2, PTL DEF Spec
-----------------------------------------------------------------------------
(* What the executor's operations do to the chunks' statuses and markers.   *)

\* Nothing is confirmed, marked or unmarked.
SameMarks(g, j) ==
  /\ g.confirmed = j.confirmed
  /\ \A d \in Chunks : /\ g.chunk[d].dispatched = j.chunk[d].dispatched
                       /\ g.chunk[d].undoDispatched = j.chunk[d].undoDispatched

\* Statuses in which no chunk is being moved.
Calm == {"created", "safety_checking", "ready", "chunk_complete"}

LEMMA OpenedEffect ==
  ASSUME NEW j \in Jobs
  PROVE  /\ SameMarks(Opened(j), j) /\ Sensitive(Opened(j)) = Sensitive(j)
         /\ Opened(j).status = RestorePausedState(j).status
         /\ Opened(j).resumeState = "none"
<1>1. Opened(j).chunk = j.chunk
  BY OpenedKeepsChunks
<1>2. RestorePausedState(j) \in Jobs /\ RestorePausedState(j).confirmed = j.confirmed
  BY RestorePausedStateType DEF RestorePausedState, Jobs
<1>3. /\ Opened(j).confirmed = j.confirmed /\ Opened(j).resumeState = "none"
      /\ Opened(j).status = RestorePausedState(j).status
  BY <1>2 DEF Opened, Jobs
<1> QED BY <1>1, <1>3 DEF SameMarks, Sensitive, ChunksIn

LEMMA PreflightEffect ==
  ASSUME NEW j \in Jobs
  PROVE  LET g == Preflight(j) IN
         /\ SameMarks(g, j) /\ Sensitive(g) \subseteq Sensitive(j)
         /\ g.status \in {"ready", "safety_checking"}
<1> DEFINE c == PreflightChunk(j)
           r == [j.chunk[c] EXCEPT !.status = "ready", !.preflightComplete = TRUE]
           last == \A d \in Chunks \ {c} : j.chunk[d].preflightComplete
           s == IF last THEN "ready" ELSE "safety_checking"
           g == [j EXCEPT !.status = s, !.chunk = [j.chunk EXCEPT ![c] = r]]
<1>1. Preflight(j) = g
  BY DEF Preflight
<1>2. c \in Chunks => /\ r.status = "ready"
                      /\ r.dispatched = j.chunk[c].dispatched
                      /\ r.undoDispatched = j.chunk[c].undoDispatched
  BY JobFields DEF ChunkRecords
<1>3. s \in {"ready", "safety_checking"}
  OBVIOUS
<1> HIDE DEF c, r, s
<1>4. /\ g.status = s /\ g.confirmed = j.confirmed
      /\ \A d \in Chunks : g.chunk[d] = IF d = c THEN r ELSE j.chunk[d]
  BY DEF Jobs
<1> HIDE DEF g
<1>5. SameMarks(g, j)
  BY <1>2, <1>4 DEF SameMarks
<1>6. Sensitive(g) \subseteq Sensitive(j)
  BY <1>2, <1>4 DEF Sensitive, ChunksIn
<1> QED BY <1>1, <1>3, <1>4, <1>5, <1>6

LEMMA SafetyCheckEffect ==
  ASSUME NEW j \in Jobs, NEW S, j.confirmed
  PROVE  LET g == SafetyCheck(j, S) IN
         /\ SameMarks(g, j)
         /\ Sensitive(g) \subseteq Sensitive(j) \cup {SafetyChunk(j)}
         /\ \/ g.status = "mutating"
            \/ g.status = "chunk_complete" /\ Sensitive(g) \subseteq Sensitive(j)
<1> DEFINE c == SafetyChunk(j)
           done == S = {}
           r == [j.chunk[c] EXCEPT !.status = IF done THEN "complete" ELSE "mutating", !.safe = S]
           s == IF done THEN "chunk_complete" ELSE "mutating"
           g == [j EXCEPT !.status = s, !.chunk = [j.chunk EXCEPT ![c] = r]]
<1>1. SafetyCheck(j, S) = g
  BY DEF SafetyCheck
<1>2. c \in Chunks => /\ r.status = IF done THEN "complete" ELSE "mutating"
                      /\ r.dispatched = j.chunk[c].dispatched
                      /\ r.undoDispatched = j.chunk[c].undoDispatched
  BY JobFields DEF ChunkRecords
<1>3. s = IF done THEN "chunk_complete" ELSE "mutating"
  OBVIOUS
<1> HIDE DEF c, r, s, done
<1>4. /\ g.status = s /\ g.confirmed = j.confirmed
      /\ \A d \in Chunks : g.chunk[d] = IF d = c THEN r ELSE j.chunk[d]
  BY DEF Jobs
<1> HIDE DEF g
<1>5. SameMarks(g, j)
  BY <1>2, <1>4 DEF SameMarks
<1>6. /\ Sensitive(g) \subseteq Sensitive(j) \cup {c}
      /\ done => Sensitive(g) \subseteq Sensitive(j)
  BY <1>2, <1>4 DEF Sensitive, ChunksIn
<1> QED BY <1>1, <1>3, <1>4, <1>5, <1>6 DEF c

LEMMA CheckpointEffect ==
  ASSUME NEW j \in Jobs, NEW n \in Nat,
         NEW g \in {CheckpointTrash(j, n), CheckpointUndo(j, n)}
  PROVE  SameMarks(g, j) /\ Sensitive(g) = Sensitive(j)
         /\ g.status = j.status /\ g.resumeState = j.resumeState
<1> DEFINE c == ActiveSensitiveChunk(j)
           d == ActiveUndoChunk(j)
           r == [j.chunk[c] EXCEPT !.checkpoint = n]
           s == [j.chunk[d] EXCEPT !.undoCheckpoint = n]
           moving == [j EXCEPT !.chunk = [j.chunk EXCEPT ![c] = r]]
           restoring == [j EXCEPT !.chunk = [j.chunk EXCEPT ![d] = s]]
<1>1. g = moving \/ g = restoring
  BY DEF CheckpointTrash, CheckpointUndo
<1>2. /\ c \in Chunks => /\ r.status = j.chunk[c].status
                         /\ r.dispatched = j.chunk[c].dispatched
                         /\ r.undoDispatched = j.chunk[c].undoDispatched
      /\ d \in Chunks => /\ s.status = j.chunk[d].status
                         /\ s.dispatched = j.chunk[d].dispatched
                         /\ s.undoDispatched = j.chunk[d].undoDispatched
  BY JobFields DEF ChunkRecords
<1> HIDE DEF c, d, r, s
<1>3. /\ g.status = j.status /\ g.confirmed = j.confirmed /\ g.resumeState = j.resumeState
      /\ \/ \A e \in Chunks : g.chunk[e] = IF e = c THEN r ELSE j.chunk[e]
         \/ \A e \in Chunks : g.chunk[e] = IF e = d THEN s ELSE j.chunk[e]
  BY <1>1 DEF Jobs
<1> HIDE DEF moving, restoring
<1>4. SameMarks(g, j)
  BY <1>2, <1>3 DEF SameMarks
<1>5. Sensitive(g) = Sensitive(j)
  BY <1>2, <1>3 DEF Sensitive, ChunksIn
<1> QED BY <1>3, <1>4, <1>5

LEMMA TrashSentEffect ==
  ASSUME NEW j \in Jobs
  PROVE  LET g == TrashSent(j) IN
         /\ SameMarks(g, j) /\ g.status = "verifying"
         /\ Sensitive(g) \subseteq Sensitive(j) \cup {ActiveSensitiveChunk(j)}
<1> DEFINE c == ActiveSensitiveChunk(j)
           r == [j.chunk[c] EXCEPT !.status = "verifying"]
           g == [j EXCEPT !.status = "verifying", !.chunk = [j.chunk EXCEPT ![c] = r]]
<1>1. TrashSent(j) = g
  BY DEF TrashSent
<1>2. c \in Chunks => /\ r.dispatched = j.chunk[c].dispatched
                      /\ r.undoDispatched = j.chunk[c].undoDispatched
  BY JobFields DEF ChunkRecords
<1> HIDE DEF c, r
<1>3. /\ g.status = "verifying" /\ g.confirmed = j.confirmed
      /\ \A d \in Chunks : g.chunk[d] = IF d = c THEN r ELSE j.chunk[d]
  BY DEF Jobs
<1> HIDE DEF g
<1>4. SameMarks(g, j)
  BY <1>2, <1>3 DEF SameMarks
<1>5. Sensitive(g) \subseteq Sensitive(j) \cup {c}
  BY <1>3 DEF Sensitive, ChunksIn
<1> QED BY <1>1, <1>3, <1>4, <1>5 DEF c

LEMMA VerifyTrashEffect ==
  ASSUME NEW j \in Jobs, NEW v, NEW f, NEW u
  PROVE  LET g == VerifyTrash(j, v, f, u) IN
         /\ SameMarks(g, j) /\ g.status \in {"chunk_complete", "partial", "uncertain"}
         /\ Sensitive(g) \subseteq Sensitive(j) \ {ActiveSensitiveChunk(j)}
<1> DEFINE c == ActiveSensitiveChunk(j)
           t == VerificationStatus(f, u, "complete")
           s == VerificationStatus(f, u, "chunk_complete")
           r == [j.chunk[c] EXCEPT !.status = t, !.moved = v]
           g == [j EXCEPT !.status = s, !.chunk = [j.chunk EXCEPT ![c] = r]]
<1>1. VerifyTrash(j, v, f, u) = g
  BY DEF VerifyTrash
<1>2. /\ t \in {"complete", "partial", "uncertain"}
      /\ s \in {"chunk_complete", "partial", "uncertain"}
  BY DEF VerificationStatus
<1> HIDE DEF t, s
<1>3. c \in Chunks => /\ r.status = t
                      /\ r.dispatched = j.chunk[c].dispatched
                      /\ r.undoDispatched = j.chunk[c].undoDispatched
  BY JobFields DEF ChunkRecords
<1> HIDE DEF c, r
<1>4. /\ g.status = s /\ g.confirmed = j.confirmed
      /\ \A d \in Chunks : g.chunk[d] = IF d = c THEN r ELSE j.chunk[d]
  BY DEF Jobs
<1> HIDE DEF g
<1>5. SameMarks(g, j)
  BY <1>3, <1>4 DEF SameMarks
<1>6. Sensitive(g) \subseteq Sensitive(j) \ {c}
  BY <1>2, <1>3, <1>4 DEF Sensitive, ChunksIn
<1> QED BY <1>1, <1>2, <1>4, <1>5, <1>6 DEF c, s

LEMMA VerifyUndoEffect ==
  ASSUME NEW j \in Jobs, NEW v, NEW f, NEW u
  PROVE  LET g == VerifyUndo(j, v, f, u) IN
         /\ SameMarks(g, j) /\ Sensitive(g) \subseteq Sensitive(j)
         /\ g.status \in {"partial", "uncertain", "undoing", "undo_complete"}
<1> DEFINE c == ActiveUndoChunk(j)
           t == VerificationStatus(f, u, "undo_complete")
           r == [j.chunk[c] EXCEPT !.restored = v, !.status = t]
           after == [j EXCEPT !.chunk = [j.chunk EXCEPT ![c] = r]]
           s == VerificationStatus(f, u, IF ActiveUndoChunk(after) # 0 THEN "undoing"
                                         ELSE "undo_complete")
           g == [after EXCEPT !.status = s]
<1>1. VerifyUndo(j, v, f, u) = g
  BY DEF VerifyUndo
<1>2. /\ t \in {"undo_complete", "partial", "uncertain"}
      /\ s \in {"partial", "uncertain", "undoing", "undo_complete"}
  BY DEF VerificationStatus
<1> HIDE DEF t, s
<1>3. c \in Chunks => /\ r.status = t
                      /\ r.dispatched = j.chunk[c].dispatched
                      /\ r.undoDispatched = j.chunk[c].undoDispatched
  BY JobFields DEF ChunkRecords
<1> HIDE DEF c, r
<1>4. /\ g.status = s /\ g.confirmed = j.confirmed
      /\ \A d \in Chunks : g.chunk[d] = IF d = c THEN r ELSE j.chunk[d]
  BY DEF Jobs
<1> HIDE DEF g, after
<1>5. SameMarks(g, j)
  BY <1>3, <1>4 DEF SameMarks
<1>6. Sensitive(g) \subseteq Sensitive(j)
  BY <1>2, <1>3, <1>4 DEF Sensitive, ChunksIn
<1> QED BY <1>1, <1>2, <1>4, <1>5, <1>6

LEMMA AdvanceChunkEffect ==
  ASSUME NEW j \in Jobs
  PROVE  LET g == AdvanceChunk(j) IN
         /\ SameMarks(g, j) /\ Sensitive(g) \subseteq Sensitive(j)
         /\ g.status \in {"safety_checking", "complete", "partial"}
<1> DEFINE n == First(ChunksIn(j, {"pending"}))
           r == [j.chunk[n] EXCEPT !.status = "safety_checking"]
           all == \A c \in Chunks : j.chunk[c].status = "complete"
           undo == all /\ \E c \in Chunks : j.chunk[c].moved # {}
           s == IF all THEN "complete" ELSE "partial"
           g == [j EXCEPT !.status = "safety_checking", !.chunk = [j.chunk EXCEPT ![n] = r]]
           h == [j EXCEPT !.status = s, !.undoAvailable = undo]
<1>1. AdvanceChunk(j) = g \/ AdvanceChunk(j) = h
  BY DEF AdvanceChunk
<1>2. n \in Chunks => /\ r.status = "safety_checking"
                      /\ r.dispatched = j.chunk[n].dispatched
                      /\ r.undoDispatched = j.chunk[n].undoDispatched
  BY JobFields DEF ChunkRecords
<1>3. s \in {"complete", "partial"}
  OBVIOUS
<1> HIDE DEF n, r, s, undo
<1>4. /\ g.status = "safety_checking" /\ g.confirmed = j.confirmed
      /\ \A d \in Chunks : g.chunk[d] = IF d = n THEN r ELSE j.chunk[d]
  BY DEF Jobs
<1>5. h.status = s /\ h.confirmed = j.confirmed /\ h.chunk = j.chunk
  BY DEF Jobs
<1> HIDE DEF g, h
<1>6. SameMarks(g, j) /\ SameMarks(h, j)
  BY <1>2, <1>4, <1>5 DEF SameMarks
<1>7. Sensitive(g) \subseteq Sensitive(j) /\ Sensitive(h) \subseteq Sensitive(j)
  BY <1>2, <1>4, <1>5 DEF Sensitive, ChunksIn
<1> QED BY <1>1, <1>3, <1>4, <1>5, <1>6, <1>7

LEMMA PausedEffect ==
  ASSUME NEW j \in Jobs, NEW op
  PROVE  LET g == Paused(j, op) IN
         /\ SameMarks(g, j) /\ Sensitive(g) \subseteq Sensitive(j)
         /\ g.status = "paused" /\ g.resumeState = ResumeStateFor(op)
<1> DEFINE open == IF op \in {"preflight_safety", "safety_check"} THEN WorkChunk(j, op) ELSE 0
           r(c) == IF c = open THEN [j.chunk[c] EXCEPT !.status = "safety_checking"]
                   ELSE j.chunk[c]
           f == [c \in Chunks |-> r(c)]
           g == [j EXCEPT !.status = "paused", !.resumeState = ResumeStateFor(op), !.chunk = f]
<1>1. Paused(j, op) = g
  BY DEF Paused
<1>2. \A c \in Chunks : /\ r(c).status = "safety_checking" \/ r(c).status = j.chunk[c].status
                        /\ r(c).dispatched = j.chunk[c].dispatched
                        /\ r(c).undoDispatched = j.chunk[c].undoDispatched
  BY JobFields DEF ChunkRecords
<1>3. \A c \in Chunks : f[c] = r(c)
  OBVIOUS
<1> HIDE DEF r, f
<1>4. /\ g.status = "paused" /\ g.confirmed = j.confirmed
      /\ g.resumeState = ResumeStateFor(op) /\ g.chunk = f
  BY DEF Jobs
<1> HIDE DEF g
<1>5. SameMarks(g, j)
  BY <1>2, <1>3, <1>4 DEF SameMarks
<1>6. Sensitive(g) \subseteq Sensitive(j)
  BY <1>2, <1>3, <1>4 DEF Sensitive, ChunksIn
<1> QED BY <1>1, <1>4, <1>5, <1>6

LEMMA BeginUndoEffect ==
  ASSUME NEW j \in Jobs
  PROVE  LET g == BeginUndo(j) IN
         /\ SameMarks(g, j) /\ Sensitive(g) \subseteq Sensitive(j)
         /\ g.status = "undoing" /\ g.resumeState = "none"
<1> DEFINE begins(c) == /\ Restorable(j.chunk[c]) # {}
                        /\ j.chunk[c].restored = {}
                        /\ ~j.chunk[c].undoDispatched
           r(c) == IF begins(c) THEN [j.chunk[c] EXCEPT !.status = "undoing"] ELSE j.chunk[c]
           f == [c \in Chunks |-> r(c)]
           g == [j EXCEPT !.status = "undoing", !.restoreMode = RestoreEligibility(j),
                          !.undoAvailable = FALSE, !.resumeState = "none", !.chunk = f]
<1>1. BeginUndo(j) = g
  BY DEF BeginUndo
<1>2. \A c \in Chunks : /\ r(c).status = "undoing" \/ r(c).status = j.chunk[c].status
                        /\ r(c).dispatched = j.chunk[c].dispatched
                        /\ r(c).undoDispatched = j.chunk[c].undoDispatched
  <2> HIDE DEF begins
  <2> QED BY JobFields DEF ChunkRecords
<1>3. \A c \in Chunks : f[c] = r(c)
  OBVIOUS
<1> HIDE DEF r, f
<1>4. /\ g.status = "undoing" /\ g.confirmed = j.confirmed
      /\ g.resumeState = "none" /\ g.chunk = f
  BY DEF Jobs
<1> HIDE DEF g
<1>5. SameMarks(g, j)
  BY <1>2, <1>3, <1>4 DEF SameMarks
<1>6. Sensitive(g) \subseteq Sensitive(j)
  BY <1>2, <1>3, <1>4 DEF Sensitive, ChunksIn
<1> QED BY <1>1, <1>4, <1>5, <1>6

\* Confirmation closes every chunk and takes the Trash markers, not Undo's.
LEMMA PrepareConfirmedEffect ==
  ASSUME NEW j \in Jobs
  PROVE  LET g == PrepareConfirmed(j) IN
         /\ g.confirmed /\ Sensitive(g) = {} /\ g.status = "safety_checking"
         /\ \A c \in Chunks : /\ ~g.chunk[c].dispatched
                              /\ g.chunk[c].undoDispatched = j.chunk[c].undoDispatched
<1> DEFINE r(c) == [j.chunk[c] EXCEPT
                      !.status = IF c = 1 THEN "safety_checking" ELSE "pending",
                      !.safe = {}, !.moved = {}, !.checkpoint = 0, !.dispatched = FALSE]
           f == [c \in Chunks |-> r(c)]
           g == [j EXCEPT !.status = "safety_checking", !.confirmed = TRUE,
                          !.undoAvailable = FALSE, !.chunk = f]
<1>1. PrepareConfirmed(j) = g
  BY DEF PrepareConfirmed
<1>2. \A c \in Chunks : /\ r(c).status \in {"safety_checking", "pending"}
                        /\ ~r(c).dispatched
                        /\ r(c).undoDispatched = j.chunk[c].undoDispatched
  BY JobFields DEF ChunkRecords
<1>3. \A c \in Chunks : f[c] = r(c)
  OBVIOUS
<1> HIDE DEF r, f
<1>4. g.status = "safety_checking" /\ g.confirmed /\ g.chunk = f
  BY DEF Jobs
<1> HIDE DEF g
<1>5. Sensitive(g) = {}
  BY <1>2, <1>3, <1>4 DEF Sensitive, ChunksIn
<1> QED BY <1>1, <1>2, <1>3, <1>4, <1>5

\* The dispatch marker is all a dispatch's plan writes, and it goes to the
\* chunk the planner found.
LEMMA MarkDispatchEffect ==
  ASSUME NEW j \in Jobs, NEW op \in Dispatches
  PROVE  LET g == MarkDispatch(j, op)
             c == IF op = "dispatch_trash" THEN MutatingChunk(j) ELSE ActiveUndoChunk(j)
         IN
         /\ Sensitive(g) = Sensitive(j) /\ g.confirmed = j.confirmed
         /\ g.status = j.status /\ g.resumeState = j.resumeState
         /\ WorkChunk(g, op) = WorkChunk(j, op)
         /\ c \in Chunks =>
              Dispatched(g, IF op = "dispatch_trash" THEN "trash" ELSE "undo", c)
         /\ \A kind \in Kinds, d \in Chunks : Dispatched(j, kind, d) => Dispatched(g, kind, d)
         /\ \A d \in Chunks : /\ g.chunk[d].dispatched => j.chunk[d].dispatched \/ op = "dispatch_trash"
<1> DEFINE c == MutatingChunk(j)
           d == ActiveUndoChunk(j)
           r == [j.chunk[c] EXCEPT !.dispatched = TRUE]
           s == [j.chunk[d] EXCEPT !.undoDispatched = TRUE]
           moving == [j EXCEPT !.chunk = [j.chunk EXCEPT ![c] = r]]
           restoring == [j EXCEPT !.chunk = [j.chunk EXCEPT ![d] = s]]
           g == MarkDispatch(j, op)
           k == IF op = "dispatch_trash" THEN c ELSE d
           v == IF op = "dispatch_trash" THEN r ELSE s
<1>1. g = IF op = "dispatch_trash" THEN moving ELSE restoring
  BY DEF MarkDispatch
<1>2. k \in Chunks =>
        /\ v.status = j.chunk[k].status /\ v.moved = j.chunk[k].moved
        /\ v.restored = j.chunk[k].restored
        /\ IF op = "dispatch_trash"
           THEN v.dispatched /\ v.undoDispatched = j.chunk[k].undoDispatched
           ELSE v.undoDispatched /\ v.dispatched = j.chunk[k].dispatched
  BY JobFields DEF ChunkRecords
<1>3. /\ g.status = j.status /\ g.confirmed = j.confirmed /\ g.resumeState = j.resumeState
      /\ \A e \in Chunks : g.chunk[e] = IF e = k THEN v ELSE j.chunk[e]
  <2> HIDE DEF c, d, r, s
  <2> QED BY <1>1 DEF Jobs
<1> HIDE DEF g, k, v
<1>4. Sensitive(g) = Sensitive(j)
  BY <1>2, <1>3 DEF Sensitive, ChunksIn
<1>5. ActiveUndoChunk(g) = ActiveUndoChunk(j)
  <2>1. \A e \in Chunks : Restorable(g.chunk[e]) = Restorable(j.chunk[e])
                          /\ g.chunk[e].restored = j.chunk[e].restored
    BY <1>2, <1>3 DEF Restorable
  <2> QED BY <2>1 DEF ActiveUndoChunk
<1>6. WorkChunk(g, op) = WorkChunk(j, op)
  BY <1>4, <1>5 DEF WorkChunk, ActiveSensitiveChunk, Sensitive, Dispatches
<1>7. k \in Chunks => Dispatched(g, IF op = "dispatch_trash" THEN "trash" ELSE "undo", k)
  BY <1>2, <1>3 DEF Dispatched
<1>8. \A kind \in Kinds, e \in Chunks : Dispatched(j, kind, e) => Dispatched(g, kind, e)
  BY <1>2, <1>3 DEF Dispatched
<1>9. \A e \in Chunks : g.chunk[e].dispatched => j.chunk[e].dispatched \/ op = "dispatch_trash"
  BY <1>2, <1>3
<1> QED BY <1>3, <1>4, <1>6, <1>7, <1>8, <1>9 DEF g, k

-----------------------------------------------------------------------------
(* Every job record keeps JobInv.                                           *)

LEMMA RestoredStatus ==
  ASSUME NEW j \in Jobs
  PROVE  RestorePausedState(j).status =
           IF j.status = "paused" /\ j.resumeState # "none" THEN j.resumeState ELSE j.status
BY DEF RestorePausedState, Jobs

\* An operation that marks nothing and opens no chunk for moving.
LEMMA JobInvKept ==
  ASSUME NEW j \in Jobs, NEW g \in Jobs, JobInv(j),
         SameMarks(g, j), Sensitive(g) \subseteq Sensitive(j),
         g.status \in Calm => Sensitive(g) = {},
         g.status = "paused" /\ g.resumeState \in Calm => Sensitive(g) = {},
         g.status = "ready" => ~g.confirmed
  PROVE  JobInv(g)
<1>1. RestorePausedState(g).status \in Calm => Sensitive(g) = {}
  BY RestoredStatus
<1>2. \A c, d \in Sensitive(g) : c = d
  BY DEF JobInv
<1>3. Sensitive(g) # {} => g.confirmed
  BY DEF JobInv, SameMarks
<1>4. (\E c \in Chunks : g.chunk[c].dispatched) => g.confirmed
  BY DEF JobInv, SameMarks
<1> QED BY <1>1, <1>2, <1>3, <1>4 DEF JobInv, Calm

\* The chunk a Trash operation works on is the one being moved.
LEMMA ActiveIsSensitive ==
  ASSUME NEW j \in Jobs, ActiveSensitiveChunk(j) # 0
  PROVE  ActiveSensitiveChunk(j) \in Sensitive(j)
BY FirstFound DEF ActiveSensitiveChunk, Sensitive, ChunksIn

LEMMA OpenedInv ==
  ASSUME NEW j \in Jobs, JobInv(j)
  PROVE  JobInv(Opened(j))
<1>1. Opened(j).status \in Calm => Sensitive(Opened(j)) = {}
  BY OpenedEffect DEF JobInv, Calm
<1>2. Opened(j).status = "ready" => ~Opened(j).confirmed
  <2>1. j.status = "ready" => ~j.confirmed
    BY DEF JobInv
  <2>2. Opened(j).status = "ready" => j.status = "ready"
    BY OpenedEffect, RestoredStatus DEF Jobs
  <2> QED BY <2>1, <2>2, OpenedEffect DEF SameMarks
<1>3. Opened(j).resumeState \notin Calm
  BY OpenedEffect DEF Calm
<1>4. SameMarks(Opened(j), j) /\ Sensitive(Opened(j)) \subseteq Sensitive(j)
  BY OpenedEffect
<1> QED BY <1>1, <1>2, <1>3, <1>4, OpenedType, JobInvKept

LEMMA PausedInv ==
  ASSUME NEW j \in Jobs, NEW op, JobInv(j),
         op = "safety_check" => RestorePausedState(j).status = "safety_checking"
  PROVE  LET g == Paused(RestorePausedState(j), op) IN JobInv(g) /\ SameMarks(g, j)
<1> DEFINE h == RestorePausedState(j)
           g == Paused(h, op)
<1>1. h \in Jobs /\ g \in Jobs
  BY RestorePausedStateType, PausedType
<1>2. Sensitive(h) = Sensitive(j) /\ SameMarks(h, j)
  <2>1. h.chunk = j.chunk
    BY OpenedKeepsChunks
  <2>2. h.confirmed = j.confirmed
    BY DEF RestorePausedState, Jobs
  <2> QED BY <2>1, <2>2 DEF Sensitive, ChunksIn, SameMarks
<1>3. /\ SameMarks(g, h) /\ Sensitive(g) \subseteq Sensitive(h)
      /\ g.status = "paused" /\ g.resumeState = ResumeStateFor(op)
  BY <1>1, PausedEffect
<1> HIDE DEF g
<1>4. SameMarks(g, j) /\ Sensitive(g) \subseteq Sensitive(j)
  BY <1>2, <1>3 DEF SameMarks
<1>5. g.resumeState \in Calm => op = "safety_check"
  BY <1>3 DEF ResumeStateFor, Calm
<1>6. op = "safety_check" => Sensitive(j) = {}
  BY DEF JobInv
<1>7. JobInv(g)
  BY <1>1, <1>3, <1>4, <1>5, <1>6, JobInvKept DEF Calm
<1> QED BY <1>4, <1>7 DEF g

LEMMA AdvanceInv ==
  ASSUME NEW j \in Jobs, JobInv(j), RestorePausedState(j).status = "chunk_complete"
  PROVE  LET g == AdvanceChunk(Opened(j)) IN JobInv(g) /\ SameMarks(g, j)
<1> DEFINE h == Opened(j)
           g == AdvanceChunk(h)
<1>1. h \in Jobs /\ g \in Jobs /\ JobInv(h)
  BY OpenedType, AdvanceChunkType, OpenedInv
<1>2. Sensitive(h) = {} /\ SameMarks(h, j)
  BY OpenedEffect DEF JobInv
<1>3. /\ SameMarks(g, h) /\ Sensitive(g) \subseteq Sensitive(h)
      /\ g.status \in {"safety_checking", "complete", "partial"}
  BY <1>1, AdvanceChunkEffect
<1> HIDE DEF g, h
<1>4. JobInv(g)
  BY <1>1, <1>2, <1>3, JobInvKept
<1> QED BY <1>2, <1>3, <1>4 DEF g, h, SameMarks

LEMMA SafetyInv ==
  ASSUME NEW j \in Jobs, JobInv(j), NEW op
  PROVE  /\ ~j.confirmed /\ RestorePausedState(j).status \in {"created", "safety_checking"} =>
              LET g == Preflight(Opened(j)) IN JobInv(g) /\ SameMarks(g, j)
         /\ j.confirmed /\ RestorePausedState(j).status = "safety_checking" =>
              \A S \in SUBSET Messages :
                LET g == SafetyCheck(Opened(j), S) IN JobInv(g) /\ SameMarks(g, j)
<1> DEFINE h == Opened(j)
<1>1. h \in Jobs /\ JobInv(h) /\ SameMarks(h, j) /\ Sensitive(h) = Sensitive(j)
  BY OpenedType, OpenedInv, OpenedEffect
<1>2. ASSUME ~j.confirmed, RestorePausedState(j).status \in {"created", "safety_checking"}
      PROVE  JobInv(Preflight(h)) /\ SameMarks(Preflight(h), j)
  <2> DEFINE g == Preflight(h)
  <2>1. Sensitive(h) = {}
    BY <1>1, <1>2 DEF JobInv
  <2>2. /\ SameMarks(g, h) /\ Sensitive(g) \subseteq Sensitive(h) /\ g \in Jobs
        /\ g.status \in {"ready", "safety_checking"}
    BY <1>1, PreflightEffect, PreflightType
  <2>3. ~g.confirmed /\ SameMarks(g, j)
    BY <1>1, <1>2, <2>2 DEF SameMarks
  <2> HIDE DEF g, h
  <2>4. JobInv(g)
    BY <1>1, <2>1, <2>2, <2>3, JobInvKept
  <2> QED BY <2>3, <2>4 DEF g, h
<1>3. ASSUME j.confirmed, RestorePausedState(j).status = "safety_checking",
             NEW S \in SUBSET Messages
      PROVE  JobInv(SafetyCheck(h, S)) /\ SameMarks(SafetyCheck(h, S), j)
  <2> DEFINE g == SafetyCheck(h, S)
  <2>1. Sensitive(h) = {} /\ h.confirmed
    BY <1>1, <1>3 DEF JobInv, SameMarks
  <2>2. /\ SameMarks(g, h) /\ g \in Jobs
        /\ Sensitive(g) \subseteq Sensitive(h) \cup {SafetyChunk(h)}
        /\ \/ g.status = "mutating"
           \/ g.status = "chunk_complete" /\ Sensitive(g) \subseteq Sensitive(h)
    BY <1>1, <2>1, SafetyCheckEffect, SafetyCheckType
  <2>3. g.confirmed /\ SameMarks(g, j)
    BY <1>1, <2>1, <2>2 DEF SameMarks
  <2> HIDE DEF g, h
  <2>4. RestorePausedState(g).status = g.status
    BY <2>2, RestoredStatus
  <2>5. JobInv(g)
    BY <2>1, <2>2, <2>3, <2>4 DEF JobInv
  <2> QED BY <2>3, <2>5 DEF g, h
<1> QED BY <1>2, <1>3

LEMMA ProviderInv ==
  ASSUME NEW j \in Jobs, JobInv(j)
  PROVE  LET h == Opened(j) IN
         /\ SameMarks(h, j) /\ JobInv(h)
         /\ \A n \in Nat : /\ JobInv(CheckpointTrash(h, n)) /\ SameMarks(CheckpointTrash(h, n), j)
                           /\ JobInv(CheckpointUndo(h, n)) /\ SameMarks(CheckpointUndo(h, n), j)
         /\ ActiveSensitiveChunk(h) # 0 =>
              /\ JobInv(TrashSent(h)) /\ SameMarks(TrashSent(h), j)
              /\ \A v \in SUBSET Messages, f \in SUBSET Messages, u \in SUBSET Messages :
                   LET g == VerifyTrash(h, v, f, u) IN JobInv(g) /\ SameMarks(g, j)
         /\ \A v \in SUBSET Messages, f \in SUBSET Messages, u \in SUBSET Messages :
              LET g == VerifyUndo(h, v, f, u) IN JobInv(g) /\ SameMarks(g, j)
<1> DEFINE h == Opened(j)
<1>1. h \in Jobs /\ JobInv(h) /\ SameMarks(h, j)
  BY OpenedType, OpenedInv, OpenedEffect
<1> HIDE DEF h
<1>2. ASSUME NEW n \in Nat, NEW g \in {CheckpointTrash(h, n), CheckpointUndo(h, n)}
      PROVE  JobInv(g) /\ SameMarks(g, j)
  <2>1. /\ g \in Jobs /\ SameMarks(g, h) /\ Sensitive(g) = Sensitive(h)
        /\ g.status = h.status /\ g.resumeState = h.resumeState
    BY <1>1, CheckpointEffect, CheckpointType
  <2>2. /\ g.status \in Calm => Sensitive(g) = {}
        /\ g.status = "paused" /\ g.resumeState \in Calm => Sensitive(g) = {}
        /\ g.status = "ready" => ~g.confirmed
    BY <1>1, <2>1, RestoredStatus DEF JobInv, Calm, SameMarks
  <2>3. JobInv(g)
    BY <1>1, <2>1, <2>2, JobInvKept
  <2> QED BY <1>1, <2>1, <2>3 DEF SameMarks
<1>3. ASSUME ActiveSensitiveChunk(h) # 0
      PROVE  JobInv(TrashSent(h)) /\ SameMarks(TrashSent(h), j)
  <2> DEFINE g == TrashSent(h)
  <2>1. /\ g \in Jobs /\ SameMarks(g, h) /\ g.status = "verifying"
        /\ Sensitive(g) \subseteq Sensitive(h)
    BY <1>1, <1>3, TrashSentEffect, TrashSentType, ActiveIsSensitive
  <2> HIDE DEF g
  <2>2. JobInv(g)
    BY <1>1, <2>1, JobInvKept DEF Calm
  <2> QED BY <1>1, <2>1, <2>2 DEF SameMarks, g
<1>4. ASSUME ActiveSensitiveChunk(h) # 0,
             NEW v \in SUBSET Messages, NEW f \in SUBSET Messages, NEW u \in SUBSET Messages
      PROVE  JobInv(VerifyTrash(h, v, f, u)) /\ SameMarks(VerifyTrash(h, v, f, u), j)
  <2> DEFINE g == VerifyTrash(h, v, f, u)
  <2>1. /\ g \in Jobs /\ SameMarks(g, h)
        /\ g.status \in {"chunk_complete", "partial", "uncertain"}
        /\ Sensitive(g) \subseteq Sensitive(h) \ {ActiveSensitiveChunk(h)}
    BY <1>1, VerifyTrashEffect, VerifyTrashType
  <2>2. Sensitive(g) = {}
    BY <1>1, <1>4, <2>1, ActiveIsSensitive DEF JobInv
  <2> HIDE DEF g
  <2>3. JobInv(g)
    BY <1>1, <2>1, <2>2, JobInvKept
  <2> QED BY <1>1, <2>1, <2>3 DEF SameMarks, g
<1>5. ASSUME NEW v \in SUBSET Messages, NEW f \in SUBSET Messages, NEW u \in SUBSET Messages
      PROVE  JobInv(VerifyUndo(h, v, f, u)) /\ SameMarks(VerifyUndo(h, v, f, u), j)
  <2> DEFINE g == VerifyUndo(h, v, f, u)
  <2>1. /\ g \in Jobs /\ SameMarks(g, h) /\ Sensitive(g) \subseteq Sensitive(h)
        /\ g.status \in {"partial", "uncertain", "undoing", "undo_complete"}
    BY <1>1, VerifyUndoEffect, VerifyUndoType
  <2> HIDE DEF g
  <2>2. JobInv(g)
    BY <1>1, <2>1, JobInvKept DEF Calm
  <2> QED BY <1>1, <2>1, <2>2 DEF SameMarks, g
<1> QED BY <1>1, <1>2, <1>3, <1>4, <1>5 DEF h

LEMMA RequestInv ==
  ASSUME NEW j \in Jobs, JobInv(j)
  PROVE  /\ JobInv(BeginUndo(j)) /\ SameMarks(BeginUndo(j), j)
         /\ JobInv(PrepareConfirmed(j))
<1>1. JobInv(BeginUndo(j)) /\ SameMarks(BeginUndo(j), j)
  BY BeginUndoEffect, BeginUndoType, JobInvKept DEF Calm
<1>2. RestorePausedState(PrepareConfirmed(j)).status = "safety_checking"
  BY PrepareConfirmedEffect, PrepareConfirmedType, RestoredStatus
<1>3. JobInv(PrepareConfirmed(j))
  BY <1>2, PrepareConfirmedEffect DEF JobInv
<1> QED BY <1>1, <1>3

LEMMA AcceptedInv == JobInv(AcceptedJob)
<1>1. Sensitive(AcceptedJob) = {}
  BY DEF Sensitive, ChunksIn, AcceptedJob, PendingChunk
<1>2. \A c \in Chunks : ~AcceptedJob.chunk[c].dispatched
  BY DEF AcceptedJob, PendingChunk
<1>3. AcceptedJob.status = "created"
  BY DEF AcceptedJob
<1> QED BY <1>1, <1>2, <1>3 DEF JobInv

-----------------------------------------------------------------------------
(* The kinds of step, by what they do to the row and to the permits.        *)

Passive == {"off", "idle", "committed", "deleting", "continuing", "stopping", "failing"}

\* Every step either stays as it is or leaves the part in which it has a copy.
QuietWorkers ==
  \A w \in Workers : \/ worker'[w] = worker[w]
                     \/ worker'[w].pc \in Passive /\ JobInv(worker'[w].job)

\* A step that stays as it is keeps its permits, one that has left has none.
LEMMA QuietPermits ==
  ASSUME QuietWorkers, NEW w \in Workers, NEW kind, NEW c, Permit(w, kind, c)'
  PROVE  Permit(w, kind, c) /\ worker'[w] = worker[w]
<1>1. worker'[w].pc \notin Passive
  BY DEF Permit, Passive
<1>2. worker'[w] = worker[w]
  BY <1>1 DEF QuietWorkers
<1> QED BY <1>2 DEF Permit

LEMMA QuietOps ==
  ASSUME DispatchInv, QuietWorkers
  PROVE  OpsOK' /\ \A w \in Workers : JobInv(worker'[w].job)
<1>1. ASSUME NEW w \in Workers
      PROVE  /\ JobInv(worker'[w].job)
             /\ worker'[w].pc \in {"marked", "executing", "fenced"} => worker'[w] = worker[w]
  BY DEF DispatchInv, JobsOK, QuietWorkers, Passive
<1>2. OpsOK'
  BY <1>1 DEF DispatchInv, OpsOK
<1> QED BY <1>1, <1>2

\* The row keeps its job, or goes.
LEMMA QuietStep ==
  ASSUME DispatchInv, QuietWorkers, UNCHANGED sent,
         row'.present => row.present /\ row'.job = row.job /\ row'.version = row.version
  PROVE  DispatchInv'
<1>1. OpsOK' /\ \A w \in Workers : JobInv(worker'[w].job)
  BY QuietOps
<1>2. JobsOK'
  BY <1>1 DEF DispatchInv, JobsOK
<1>3. CopiesOK'
  <2> SUFFICES ASSUME row'.present, NEW w \in Workers,
                      worker'[w].pc \in Copying \cup {"executed"}
               PROVE  worker'[w] = worker[w]
    BY DEF DispatchInv, CopiesOK
  <2> QED BY DEF QuietWorkers, Passive, Copying
<1>4. RequestsOK'
  BY QuietPermits DEF DispatchInv, RequestsOK
<1> QED BY <1>1, <1>2, <1>3, <1>4 DEF DispatchInv

\* The row is replaced by a job that keeps its markers.
LEMMA ReplaceStep ==
  ASSUME TypeOK, DispatchInv, QuietWorkers, UNCHANGED sent, row.present, row'.present,
         row'.version = row.version + 1, JobInv(row'.job),
         \A kind \in Kinds, c \in Chunks :
           Dispatched(row.job, kind, c) => Dispatched(row'.job, kind, c)
  PROVE  DispatchInv'
<1>1. OpsOK' /\ \A w \in Workers : JobInv(worker'[w].job)
  BY QuietOps
<1>2. JobsOK'
  BY <1>1 DEF JobsOK
<1>3. CopiesOK'
  <2>1. ASSUME NEW w \in Workers, worker'[w].pc \in Copying \cup {"executed"}
        PROVE  worker'[w] = worker[w] /\ worker'[w].version < row'.version
    <3>1. worker'[w] = worker[w]
      BY <2>1 DEF QuietWorkers, Passive, Copying
    <3>2. worker[w].version <= row.version
      BY <2>1, <3>1 DEF DispatchInv, CopiesOK
    <3>3. worker[w].version \in Nat /\ row.version \in Nat
      BY RowPresent, RowFields, StepFields DEF TypeOK
    <3> QED BY <3>1, <3>2, <3>3
  <2>2. ASSUME NEW w \in Workers, worker'[w].pc \in Copying \cup {"executed"}
        PROVE  worker'[w].version <= row'.version /\ worker'[w].version # row'.version
    <3>1. worker[w].version \in Nat /\ row.version \in Nat
      BY RowPresent, RowFields, StepFields DEF TypeOK
    <3> QED BY <2>1, <2>2, <3>1
  <2> QED BY <2>2 DEF CopiesOK
<1>4. RequestsOK'
  BY QuietPermits DEF DispatchInv, RequestsOK
<1> QED BY <1>1, <1>2, <1>3, <1>4 DEF DispatchInv

\* One step goes on with the same copy; it gains no permit.
LEMMA CopyStep ==
  ASSUME TypeOK, DispatchInv, NEW w \in Workers, NEW s \in Steps,
         worker' = [worker EXCEPT ![w] = s], UNCHANGED <<row, sent>>,
         JobInv(s.job),
         s.pc \in Copying => worker[w].pc \in Copying /\ s.job = worker[w].job
                             /\ s.version = worker[w].version,
         s.pc = "executed" => /\ worker[w].pc \in Copying
                              /\ s.version = worker[w].version
                              /\ SameMarks(s.job, worker[w].job),
         s.pc \in {"executing", "fenced"} =>
           /\ s.op = "preflight_safety" =>
                ~s.job.confirmed /\ RestorePausedState(s.job).status \in {"created", "safety_checking"}
           /\ s.op = "safety_check" =>
                s.job.confirmed /\ RestorePausedState(s.job).status = "safety_checking"
           /\ s.op = "advance_chunk" => RestorePausedState(s.job).status = "chunk_complete",
         s.pc # "marked",
         s.pc \in {"executing", "fenced"} /\ s.op \in Dispatches =>
           worker[w].pc \in {"marked", "executing", "fenced"} /\ s.op = worker[w].op
  PROVE  DispatchInv'
<1>1. worker'[w] = s /\ \A v \in Workers \ {w} : worker'[v] = worker[v]
  BY DEF TypeOK
<1>2. JobsOK'
  BY <1>1 DEF DispatchInv, JobsOK
<1>3. OpsOK'
  BY <1>1 DEF DispatchInv, OpsOK
<1>4. CopiesOK'
  <2> SUFFICES ASSUME row.present, NEW v \in Workers
               PROVE  LET st == worker'[v] IN
                      /\ st.pc \in Copying \cup {"executed"} => st.version <= row.version
                      /\ st.pc \in Copying /\ st.version = row.version => st.job = row.job
                      /\ st.pc = "executed" /\ st.version = row.version =>
                           \A kind \in Kinds, c \in Chunks :
                             Dispatched(row.job, kind, c) => Dispatched(st.job, kind, c)
    BY DEF CopiesOK
  <2>1. CASE v # w
    BY <1>1, <2>1 DEF DispatchInv, CopiesOK
  <2>2. CASE v = w
    BY <1>1, <2>2 DEF DispatchInv, CopiesOK, Copying, SameMarks, Dispatched
  <2> QED BY <2>1, <2>2
<1>5. ASSUME NEW v \in Workers, NEW kind \in Kinds, NEW c \in Chunks, Permit(v, kind, c)'
      PROVE  Permit(v, kind, c)
  <2>1. CASE v # w
    BY <1>1, <1>5, <2>1 DEF Permit
  <2>2. CASE v = w
    <3>1. s.pc \in {"executing", "fenced"} /\ s.op \in Dispatches
      BY <1>1, <1>5, <2>2 DEF Permit, Dispatches
    <3>2. s.job = worker[w].job
      BY <3>1 DEF Copying
    <3> QED BY <1>1, <1>5, <2>2, <3>1, <3>2 DEF Permit
  <2> QED BY <2>1, <2>2
<1>6. RequestsOK'
  BY <1>5 DEF DispatchInv, RequestsOK
<1> QED BY <1>2, <1>3, <1>4, <1>6 DEF DispatchInv

-----------------------------------------------------------------------------
(* Every action keeps the invariant.                                        *)

\* A step that only moves to a passive program counter.
LEMMA MovedQuietly ==
  ASSUME TypeOK, DispatchInv, NEW w \in Workers, NEW pc \in Passive, Move(w, pc)
  PROVE  QuietWorkers
<1>1. worker[w] \in Steps /\ worker \in [Workers -> Steps]
  BY DEF TypeOK
<1>2. worker'[w].pc = pc /\ worker'[w].job = worker[w].job
      /\ \A v \in Workers \ {w} : worker'[v] = worker[v]
  BY <1>1 DEF Move, Steps
<1> QED BY <1>2 DEF QuietWorkers, DispatchInv, JobsOK

\* A step that ends, whatever becomes of its run, and a run that starts.
LEMMA EndedQuietly ==
  ASSUME TypeOK, NEW w \in Workers, NEW m, NEW n,
         \/ worker' = [worker EXCEPT ![w] = NoStep]
         \/ worker' = [worker EXCEPT ![w] = Idle(m, n)]
         \/ worker' = [worker EXCEPT ![w] = AfterThrow(w)]
  PROVE  QuietWorkers
<1>1. worker \in [Workers -> Steps]
  BY DEF TypeOK
<1>2. /\ NoStep.pc = "off" /\ NoStep.job = AcceptedJob
      /\ \A a, b : Idle(a, b).pc = "idle" /\ Idle(a, b).job = AcceptedJob
  BY DEF NoStep, Idle
<1>3. AfterThrow(w).pc \in Passive /\ AfterThrow(w).job = AcceptedJob
  BY <1>2 DEF AfterThrow, Passive
<1>4. worker'[w].pc \in Passive /\ worker'[w].job = AcceptedJob
  BY <1>1, <1>2, <1>3 DEF Passive
<1>5. \A v \in Workers \ {w} : worker'[v] = worker[v]
  BY <1>1
<1> QED BY <1>4, <1>5, AcceptedInv DEF QuietWorkers

LEMMA StartedQuietly ==
  ASSUME TypeOK, NEW mode
  PROVE  (Started(mode) \/ Scheduled(mode) \/ Restarted) => QuietWorkers
<1>1. \A m : Started(m) => QuietWorkers
  BY EndedQuietly DEF Started
<1>2. UNCHANGED worker => QuietWorkers
  BY DEF QuietWorkers
<1> QED BY <1>1, <1>2 DEF Scheduled, Restarted

LEMMA SameWorkersQuiet == UNCHANGED worker => QuietWorkers
BY DEF QuietWorkers

\* Claim takes the copy: the row's job and its version.
LEMMA ClaimDispatch ==
  ASSUME TypeOK, DispatchInv, NEW w \in Workers, Claim(w)
  PROVE  DispatchInv'
<1> DEFINE s == [worker[w] EXCEPT !.pc = "claimed", !.job = row.job, !.version = row.version]
<1>1. row \in PresentRows(Owners, Jobs) /\ row.job \in Jobs /\ row.version \in Nat
  BY RowPresent, RowFields DEF TypeOK, Claim, Claimable, Visible
<1>2. /\ row'.present /\ row.present /\ row'.job = row.job /\ row'.version = row.version
      /\ UNCHANGED sent
  BY <1>1 DEF Claim, Claimed, PresentRows
<1>3. s.pc = "claimed" /\ s.job = row.job /\ s.version = row.version
  BY <1>1 DEF TypeOK, Steps
<1>4. worker'[w] = s /\ \A v \in Workers \ {w} : worker'[v] = worker[v]
  BY DEF Claim, TypeOK
<1> HIDE DEF s
<1>5. JobsOK'
  BY <1>2, <1>3, <1>4 DEF DispatchInv, JobsOK
<1>6. OpsOK'
  BY <1>3, <1>4 DEF DispatchInv, OpsOK
<1>7. CopiesOK'
  <2> SUFFICES ASSUME NEW v \in Workers
               PROVE  LET st == worker'[v] IN
                      /\ st.pc \in Copying \cup {"executed"} => st.version <= row.version
                      /\ st.pc \in Copying /\ st.version = row.version => st.job = row.job
                      /\ st.pc = "executed" /\ st.version = row.version =>
                           \A kind \in Kinds, c \in Chunks :
                             Dispatched(row.job, kind, c) => Dispatched(st.job, kind, c)
    BY <1>2 DEF CopiesOK
  <2>1. CASE v # w
    BY <1>2, <1>4, <2>1 DEF DispatchInv, CopiesOK
  <2>2. CASE v = w
    BY <1>1, <1>3, <1>4, <2>2
  <2> QED BY <2>1, <2>2
<1>8. \A v \in Workers, kind \in Kinds, c \in Chunks : Permit(v, kind, c)' => Permit(v, kind, c)
  BY <1>3, <1>4 DEF Permit
<1>9. RequestsOK'
  BY <1>2, <1>8 DEF DispatchInv, RequestsOK
<1> QED BY <1>5, <1>6, <1>7, <1>9 DEF DispatchInv

\* The planner sends a chunk only as long as it is not marked, and what it
\* finds is what the executor will find.
LEMMA PlannedDispatch ==
  ASSUME NEW j \in Jobs, JobInv(j), NEW mode, NEW wait, Plan(j, mode, wait) \in Dispatches
  PROVE  LET op == Plan(j, mode, wait)
             c == IF op = "dispatch_trash" THEN MutatingChunk(j) ELSE ActiveUndoChunk(j)
         IN  /\ c \in Chunks /\ WorkChunk(j, op) = c
             /\ ~Dispatched(j, IF op = "dispatch_trash" THEN "trash" ELSE "undo", c)
             /\ op = "dispatch_trash" => j.confirmed
             /\ ~(j.status = "ready")
<1> DEFINE r == RestorePausedState(j)
           op == Plan(j, mode, wait)
<1>1. r.chunk = j.chunk
  BY OpenedKeepsChunks
<1>2. MutatingChunk(r) = MutatingChunk(j) /\ ActiveUndoChunk(r) = ActiveUndoChunk(j)
  BY <1>1 DEF MutatingChunk, ActiveUndoChunk, ChunksIn
<1>3. MutatingChunk(j) # 0 => /\ MutatingChunk(j) \in Chunks
                              /\ MutatingChunk(j) \in Sensitive(j)
  BY FirstFound DEF MutatingChunk, ChunksIn, Sensitive
<1>4. ActiveUndoChunk(j) # 0 => ActiveUndoChunk(j) \in Chunks
  BY FirstFound DEF ActiveUndoChunk
<1>5. ~(j.status = "paused" /\ wait) /\ op \in {PlanUndo(r), PlanCleanup(r)}
  BY DEF Plan, Dispatches
<1>6. CASE op = "dispatch_trash"
  <2>1. op = PlanTrash(r) /\ r.status = "mutating"
    BY <1>5, <1>6 DEF PlanUndo, PlanCleanup
  <2>2. MutatingChunk(j) # 0 /\ ~j.chunk[MutatingChunk(j)].dispatched
    BY <1>1, <1>2, <1>6, <2>1 DEF PlanTrash
  <2>3. ActiveSensitiveChunk(j) = MutatingChunk(j)
    <3>1. ActiveSensitiveChunk(j) \in Sensitive(j)
      BY <1>3, <2>2, FirstFound DEF ActiveSensitiveChunk, Sensitive, ChunksIn
    <3> QED BY <1>3, <2>2, <3>1 DEF JobInv
  <2>4. j.confirmed
    BY <1>3, <2>2 DEF JobInv
  <2>5. WorkChunk(j, op) = MutatingChunk(j)
    <3>1. WorkChunk(j, "dispatch_trash") = ActiveSensitiveChunk(j)
      BY DEF WorkChunk, TrashOps, UndoOps
    <3> QED BY <1>6, <2>3, <3>1
  <2>6. j.status # "ready"
    BY <2>1, RestoredStatus
  <2> QED BY <1>3, <1>6, <2>2, <2>4, <2>5, <2>6 DEF Dispatched
<1>7. CASE op = "dispatch_undo"
  <2>1. op = PlanUndo(r) /\ r.status = "undoing"
    BY <1>5, <1>7 DEF PlanUndo, PlanCleanup, PlanTrash
  <2>2. ActiveUndoChunk(j) # 0 /\ ~j.chunk[ActiveUndoChunk(j)].undoDispatched
    BY <1>1, <1>2, <1>7, <2>1 DEF PlanUndo
  <2>3. WorkChunk(j, op) = ActiveUndoChunk(j)
    <3>1. WorkChunk(j, "dispatch_undo") = ActiveUndoChunk(j)
      BY DEF WorkChunk, TrashOps, UndoOps
    <3> QED BY <1>7, <3>1
  <2>4. j.status # "ready"
    BY <2>1, RestoredStatus
  <2> QED BY <1>4, <1>7, <2>2, <2>3, <2>4 DEF Dispatched
<1> QED BY <1>6, <1>7 DEF Dispatches

LEMMA MarkedInv ==
  ASSUME NEW j \in Jobs, JobInv(j), NEW op \in Dispatches,
         op = "dispatch_trash" => j.confirmed
  PROVE  JobInv(MarkDispatch(j, op))
<1> DEFINE g == MarkDispatch(j, op)
<1>1. g \in Jobs
  BY MarkDispatchType
<1>2. /\ Sensitive(g) = Sensitive(j) /\ g.confirmed = j.confirmed
      /\ g.status = j.status /\ g.resumeState = j.resumeState
      /\ \A d \in Chunks : g.chunk[d].dispatched => j.chunk[d].dispatched \/ op = "dispatch_trash"
  BY MarkDispatchEffect
<1> HIDE DEF g
<1>3. RestorePausedState(g).status = RestorePausedState(j).status
  BY <1>1, <1>2, RestoredStatus
<1> QED BY <1>2, <1>3 DEF JobInv, g

\* The marker's write gives the one permit for its chunk.
LEMMA MarkDispatchStep ==
  ASSUME TypeOK, DispatchInv, NEW w \in Workers, MarkDurably(w),
         CanReplace(row, worker[w].version), Owns(row, w)
  PROVE  DispatchInv'
<1> DEFINE st == worker[w]
           op == Decision(w)
           g == MarkDispatch(st.job, op)
           s == [st EXCEPT !.pc = "marked", !.op = op, !.job = g, !.version = st.version + 1]
           c == IF op = "dispatch_trash" THEN MutatingChunk(st.job) ELSE ActiveUndoChunk(st.job)
           k == IF op = "dispatch_trash" THEN "trash" ELSE "undo"
<1>1. /\ st \in Steps /\ st.job \in Jobs /\ JobInv(st.job)
      /\ row \in PresentRows(Owners, Jobs) /\ row.present /\ row.version = st.version
      /\ st.version \in Nat /\ st.version + 1 \in Nat /\ op \in Dispatches /\ st.pc = "claimed"
  BY StepFields, RowPresent
     DEF TypeOK, DispatchInv, JobsOK, MarkDurably, CanReplace, Visible
<1>2. row.job = st.job
  BY <1>1 DEF DispatchInv, CopiesOK, Copying
<1>3. row' = Replaced(row, g) /\ UNCHANGED sent
  BY DEF MarkDurably
<1>4. worker' = [worker EXCEPT ![w] = s]
  BY DEF MarkDurably
<1>5. /\ c \in Chunks /\ WorkChunk(st.job, op) = c /\ ~Dispatched(st.job, k, c)
      /\ op = "dispatch_trash" => st.job.confirmed
  BY <1>1, PlannedDispatch DEF Decision
<1> HIDE DEF op
<1>6. /\ JobInv(g) /\ WorkChunk(g, op) = c /\ Dispatched(g, k, c)
      /\ \A kind \in Kinds, d \in Chunks : Dispatched(st.job, kind, d) => Dispatched(g, kind, d)
  BY <1>1, <1>5, MarkedInv, MarkDispatchEffect
<1> HIDE DEF g, c
<1>7. row'.present /\ row'.job = g /\ row'.version = row.version + 1
  BY <1>1, <1>3 DEF Replaced, PresentRows
<1>8. /\ s.pc = "marked" /\ s.op = op /\ s.job = g /\ s.version = st.version + 1
  BY <1>1 DEF Steps
<1>9. worker'[w] = s /\ \A v \in Workers \ {w} : worker'[v] = worker[v]
  BY <1>4 DEF TypeOK
<1> HIDE DEF s
<1>10. JobsOK'
  BY <1>6, <1>7, <1>8, <1>9 DEF DispatchInv, JobsOK
<1>11. OpsOK'
  BY <1>1, <1>8, <1>9 DEF DispatchInv, OpsOK
<1>12. CopiesOK'
  <2>1. ASSUME NEW v \in Workers \ {w}, worker[v].pc \in Copying \cup {"executed"}
        PROVE  worker[v].version <= row'.version /\ worker[v].version # row'.version
    <3>1. worker[v].version <= row.version
      BY <1>1, <2>1 DEF DispatchInv, CopiesOK
    <3>2. worker[v].version \in Nat /\ row.version \in Nat
      BY <1>1, StepFields DEF TypeOK
    <3> QED BY <1>7, <3>1, <3>2
  <2>2. worker'[w].version = row'.version /\ worker'[w].job = row'.job
        /\ row'.version <= row'.version /\ worker'[w].pc # "executed"
    BY <1>1, <1>7, <1>8, <1>9
  <2> QED BY <1>9, <2>1, <2>2 DEF CopiesOK
<1>13. RequestsOK'
  <2>1. k \in Kinds /\ \A kind \in Kinds : kind # k => op # IF kind = "trash" THEN "dispatch_trash" ELSE "dispatch_undo"
    BY <1>1 DEF Kinds, Dispatches
  <2>2. sent[k][c] <= 0 /\ \A v \in Workers : ~Permit(v, k, c)
    <3>1. \A v \in Workers : ~Permit(v, k, c)
      BY <1>1, <1>2, <1>5, <2>1 DEF DispatchInv, RequestsOK
    <3>2. ~(sent[k][c] > 0)
      BY <1>1, <1>2, <1>5, <2>1 DEF DispatchInv, RequestsOK
    <3>3. sent[k][c] \in Nat
      BY <1>5, <2>1 DEF TypeOK
    <3> QED BY <3>1, <3>2, <3>3
  <2>3. sent[k][c] = 0
    BY <1>5, <2>1, <2>2 DEF TypeOK
  <2>4. ASSUME NEW kind \in Kinds, NEW d \in Chunks, Permit(w, kind, d)'
        PROVE  kind = k /\ d = c
    BY <1>6, <1>8, <1>9, <2>1, <2>4 DEF Permit
  <2>5. \A v \in Workers \ {w}, kind \in Kinds, d \in Chunks :
          Permit(v, kind, d)' => Permit(v, kind, d)
    BY <1>9 DEF Permit
  <2>6. \A kind \in Kinds, d \in Chunks : Dispatched(row.job, kind, d) => Dispatched(row'.job, kind, d)
    BY <1>2, <1>6, <1>7
  <2>7. Dispatched(row'.job, k, c)
    BY <1>6, <1>7
  <2> SUFFICES ASSUME NEW kind \in Kinds, NEW d \in Chunks
               PROVE  /\ sent[kind][d] <= 1
                      /\ sent[kind][d] > 0 => Dispatched(row'.job, kind, d)
                      /\ \A v \in Workers : Permit(v, kind, d)' =>
                           /\ sent[kind][d] = 0
                           /\ Dispatched(row'.job, kind, d)
                           /\ \A u \in Workers : Permit(u, kind, d)' => u = v
    BY <1>3 DEF RequestsOK
  <2>8. /\ sent[kind][d] <= 1
        /\ sent[kind][d] > 0 => Dispatched(row'.job, kind, d)
    BY <1>1, <2>6 DEF DispatchInv, RequestsOK
  <2>9. ASSUME NEW v \in Workers, Permit(v, kind, d)'
        PROVE  /\ sent[kind][d] = 0
               /\ Dispatched(row'.job, kind, d)
               /\ \A u \in Workers : Permit(u, kind, d)' => u = v
    <3>1. CASE v = w
      BY <2>2, <2>3, <2>4, <2>5, <2>7, <2>9, <3>1
    <3>2. CASE v # w
      BY <1>1, <2>2, <2>4, <2>5, <2>6, <2>9, <3>2 DEF DispatchInv, RequestsOK
    <3> QED BY <3>1, <3>2
  <2> QED BY <2>8, <2>9
<1> QED BY <1>10, <1>11, <1>12, <1>13 DEF DispatchInv

\* Sending uses the permit up.
LEMMA SendDispatch ==
  ASSUME TypeOK, WorkOK, DispatchInv, NEW w \in Workers, Send(w)
  PROVE  DispatchInv'
<1> DEFINE st == worker[w]
           c == WorkChunk(st.job, st.op)
           k == IF st.op = "dispatch_trash" THEN "trash" ELSE "undo"
           s == [st EXCEPT !.pc = "awaiting"]
<1>1. /\ st \in Steps /\ st.pc = "fenced" /\ st.op \in Dispatches /\ c \in Chunks /\ k \in Kinds
      /\ UNCHANGED row
  BY DEF TypeOK, WorkOK, Send, Kinds
<1>2. sent' = [sent EXCEPT ![k][c] = @ + 1]
  BY DEF Send, Request
<1>3. worker' = [worker EXCEPT ![w] = s]
  BY DEF Send, Move
<1>4. s.pc = "awaiting" /\ s.op = st.op /\ s.job = st.job /\ s.version = st.version
  BY <1>1 DEF Steps
<1>5. worker'[w] = s /\ \A v \in Workers \ {w} : worker'[v] = worker[v]
  BY <1>3 DEF TypeOK
<1>6. Permit(w, k, c)
  BY <1>1 DEF Permit, Dispatches
<1> HIDE DEF s
<1>7. JobsOK' /\ OpsOK'
  BY <1>1, <1>4, <1>5 DEF DispatchInv, JobsOK, OpsOK
<1>8. CopiesOK'
  <2> SUFFICES ASSUME row.present, NEW v \in Workers
               PROVE  LET x == worker'[v] IN
                      /\ x.pc \in Copying \cup {"executed"} => x.version <= row.version
                      /\ x.pc \in Copying /\ x.version = row.version => x.job = row.job
                      /\ x.pc = "executed" /\ x.version = row.version =>
                           \A kind \in Kinds, d \in Chunks :
                             Dispatched(row.job, kind, d) => Dispatched(x.job, kind, d)
    BY <1>1 DEF CopiesOK
  <2>1. CASE v # w
    BY <1>5, <2>1 DEF DispatchInv, CopiesOK
  <2>2. CASE v = w
    BY <1>1, <1>4, <1>5, <2>2 DEF DispatchInv, CopiesOK, Copying
  <2> QED BY <2>1, <2>2
<1>9. RequestsOK'
  <2>1. \A v \in Workers, kind \in Kinds, d \in Chunks :
          Permit(v, kind, d)' => v # w /\ Permit(v, kind, d)
    BY <1>4, <1>5 DEF Permit
  <2>2. \A v \in Workers, kind \in Kinds, d \in Chunks :
          kind = k /\ d = c => ~Permit(v, kind, d)'
    BY <1>1, <1>6, <2>1 DEF DispatchInv, RequestsOK
  <2>3. sent'[k][c] = 1 /\ (row.present => Dispatched(row.job, k, c))
    BY <1>1, <1>2, <1>6 DEF DispatchInv, RequestsOK, TypeOK
  <2>4. \A kind \in Kinds, d \in Chunks : kind # k \/ d # c => sent'[kind][d] = sent[kind][d]
    BY <1>1, <1>2 DEF TypeOK
  <2> SUFFICES ASSUME NEW kind \in Kinds, NEW d \in Chunks
               PROVE  /\ sent'[kind][d] <= 1
                      /\ sent'[kind][d] > 0 /\ row.present => Dispatched(row.job, kind, d)
                      /\ \A v \in Workers : Permit(v, kind, d)' =>
                           /\ sent'[kind][d] = 0
                           /\ row.present => Dispatched(row.job, kind, d)
                           /\ \A u \in Workers : Permit(u, kind, d)' => u = v
    BY <1>1 DEF RequestsOK
  <2>5. CASE kind = k /\ d = c
    BY <2>2, <2>3, <2>5
  <2>6. CASE kind # k \/ d # c
    BY <2>1, <2>4, <2>6 DEF DispatchInv, RequestsOK
  <2> QED BY <2>5, <2>6
<1> QED BY <1>7, <1>8, <1>9 DEF DispatchInv

\* The executor's result: the same version and markers, no permit.
LEMMA FinishDispatch ==
  ASSUME TypeOK, DispatchInv, NEW w \in Workers, NEW j \in Jobs, Finish(w, j),
         worker[w].pc \in {"executing", "fenced", "awaiting"},
         JobInv(j), SameMarks(j, worker[w].job), UNCHANGED <<row, sent>>
  PROVE  DispatchInv'
<1> DEFINE s == [worker[w] EXCEPT !.pc = "executed", !.job = j]
<1>1. worker[w] \in Steps
  BY DEF TypeOK
<1>2. s \in Steps
  BY <1>1, StepFilled DEF PCs
<1>3. s.pc = "executed" /\ s.job = j /\ s.version = worker[w].version
  BY <1>1 DEF Steps
<1>4. worker' = [worker EXCEPT ![w] = s]
  BY DEF Finish
<1> HIDE DEF s
<1> QED BY <1>2, <1>3, <1>4, CopyStep DEF Copying

\* The planner's choice and the job it was chosen for.
LEMMA PlannedOperation ==
  ASSUME NEW j \in Jobs, NEW mode, NEW wait
  PROVE  LET op == Plan(j, mode, wait)
             status == RestorePausedState(j).status
         IN  /\ op = "preflight_safety" => ~j.confirmed /\ status \in {"created", "safety_checking"}
             /\ op = "safety_check" => j.confirmed /\ status = "safety_checking"
             /\ op = "advance_chunk" => status = "chunk_complete"
<1> DEFINE r == RestorePausedState(j)
           op == Plan(j, mode, wait)
<1>1. r.confirmed = j.confirmed
  BY DEF RestorePausedState, Jobs
<1>2. /\ PlanUndo(r) \notin {"preflight_safety", "safety_check", "advance_chunk"}
      /\ PlanTrash(r) \notin {"preflight_safety", "safety_check", "advance_chunk"}
  BY DEF PlanUndo, PlanTrash
<1>3. op \in {"preflight_safety", "safety_check", "advance_chunk"} => op = PlanCleanup(r)
  BY <1>2 DEF Plan
<1>4. /\ PlanCleanup(r) = "preflight_safety" =>
           ~r.confirmed /\ r.status \in {"created", "safety_checking"}
      /\ PlanCleanup(r) = "safety_check" => r.confirmed /\ r.status = "safety_checking"
      /\ PlanCleanup(r) = "advance_chunk" => r.status = "chunk_complete"
  BY <1>2 DEF PlanCleanup
<1> QED BY <1>1, <1>3, <1>4

LEMMA CoordinatorDispatch ==
  ASSUME TypeOK, DispatchInv, NEW w \in Workers,
         \/ Claim(w) \/ StopRun(w) \/ Sleep(w) \/ MarkDurably(w) \/ RefreshLock(w)
  PROVE  DispatchInv'
<1> DEFINE st == worker[w]
<1>1. st \in Steps /\ st.job \in Jobs /\ JobInv(st.job) /\ st.op \in Operations \cup {"none"}
  BY StepFields DEF TypeOK, DispatchInv, JobsOK
<1>2. CASE Claim(w)
  BY <1>2, ClaimDispatch
<1>3. CASE StopRun(w)
  <2>1. QuietWorkers
    BY <1>3, MovedQuietly DEF StopRun, Passive
  <2> QED BY <1>3, <2>1, QuietStep DEF StopRun
<1>4. CASE Sleep(w)
  <2>1. QuietWorkers
    BY <1>4, MovedQuietly DEF Sleep, Passive
  <2> QED BY <1>4, <2>1, QuietStep DEF Sleep
<1>5. CASE MarkDurably(w)
  <2>1. CASE CanReplace(row, st.version) /\ Owns(row, w)
    BY <1>5, <2>1, MarkDispatchStep
  <2>2. CASE ~(CanReplace(row, st.version) /\ Owns(row, w))
    <3>1. QuietWorkers
      BY <1>5, <2>2, MovedQuietly DEF MarkDurably, Passive
    <3> QED BY <1>5, <2>2, <3>1, QuietStep DEF MarkDurably
  <2> QED BY <2>1, <2>2
<1>6. CASE RefreshLock(w)
  <2>1. PICK op \in Operations \cup {"none"} :
          /\ Execute(w, op)
          /\ \/ st.pc = "marked" /\ op = st.op
             \/ st.pc = "claimed" /\ op = Decision(w) /\ op \notin Dispatches
    BY <1>1, <1>6 DEF RefreshLock
  <2>2. CASE ~Owns(row, w)
    <3>1. QuietWorkers
      BY <2>1, <2>2, MovedQuietly DEF Execute, Passive
    <3> QED BY <1>6, <3>1, QuietStep DEF RefreshLock
  <2>3. CASE Owns(row, w)
    <3> DEFINE s == [st EXCEPT !.pc = "executing", !.op = op]
    <3>1. worker' = [worker EXCEPT ![w] = s] /\ UNCHANGED <<row, sent>>
      BY <1>6, <2>1, <2>3 DEF Execute, RefreshLock
    <3>2. s \in Steps
      BY <1>1, AcceptedJobType, StepPlanned DEF PCs
    <3>3. /\ s.pc = "executing" /\ s.op = op /\ s.job = st.job /\ s.version = st.version
      BY <1>1 DEF Steps
    <3>4. st.pc = "marked" => op \in Dispatches
      BY <2>1 DEF DispatchInv, OpsOK
    <3>5. /\ op = "preflight_safety" =>
               ~st.job.confirmed /\ RestorePausedState(st.job).status \in {"created", "safety_checking"}
          /\ op = "safety_check" =>
               st.job.confirmed /\ RestorePausedState(st.job).status = "safety_checking"
          /\ op = "advance_chunk" => RestorePausedState(st.job).status = "chunk_complete"
      <4>1. CASE st.pc = "marked"
        BY <3>4, <4>1 DEF Dispatches
      <4>2. CASE st.pc = "claimed"
        BY <1>1, <2>1, <4>2, PlannedOperation DEF Decision
      <4> QED BY <2>1, <4>1, <4>2
    <3>6. st.pc \in Copying
      BY <2>1 DEF Copying
    <3> HIDE DEF s
    <3> QED BY <1>1, <2>1, <3>1, <3>2, <3>3, <3>5, <3>6, CopyStep DEF Copying
  <2> QED BY <2>2, <2>3
<1> QED BY <1>2, <1>3, <1>4, <1>5, <1>6

LEMMA ExecutorDispatch ==
  ASSUME TypeOK, DispatchInv, NEW w \in Workers,
         \/ PauseForQuota(w) \/ Advance(w) \/ PassFence(w) \/ Refuse(w) \/ LoseAnswer(w)
  PROVE  DispatchInv'
<1> DEFINE st == worker[w]
<1>1. st \in Steps /\ st.job \in Jobs /\ JobInv(st.job)
  BY StepFields DEF TypeOK, DispatchInv, JobsOK
<1>2. CASE PauseForQuota(w)
  <2> DEFINE g == Paused(RestorePausedState(st.job), st.op)
  <2>1. st.op = "safety_check" => RestorePausedState(st.job).status = "safety_checking"
    BY <1>2 DEF PauseForQuota, DispatchInv, OpsOK
  <2>2. g \in Jobs /\ JobInv(g) /\ SameMarks(g, st.job)
    BY <1>1, <2>1, PausedInv, RestorePausedStateType, PausedType
  <2> HIDE DEF g
  <2>3. Finish(w, g) /\ st.pc = "executing" /\ UNCHANGED <<row, sent>>
    BY <1>2 DEF PauseForQuota, g
  <2> QED BY <2>2, <2>3, FinishDispatch
<1>3. CASE Advance(w)
  <2> DEFINE g == AdvanceChunk(Opened(st.job))
  <2>1. RestorePausedState(st.job).status = "chunk_complete"
    BY <1>3 DEF Advance, DispatchInv, OpsOK
  <2>2. g \in Jobs /\ JobInv(g) /\ SameMarks(g, st.job)
    BY <1>1, <2>1, AdvanceInv, OpenedType, AdvanceChunkType
  <2> HIDE DEF g
  <2>3. Finish(w, g) /\ st.pc = "executing" /\ UNCHANGED <<row, sent>>
    BY <1>3 DEF Advance, g
  <2> QED BY <2>2, <2>3, FinishDispatch
<1>4. CASE PassFence(w)
  <2> DEFINE s == [st EXCEPT !.pc = "fenced"]
  <2>1. s \in Steps
    BY <1>1, StepMoved DEF PCs
  <2>2. s.pc = "fenced" /\ s.op = st.op /\ s.job = st.job /\ s.version = st.version
    BY <1>1 DEF Steps
  <2>3. worker' = [worker EXCEPT ![w] = s] /\ UNCHANGED <<row, sent>> /\ st.pc = "executing"
    BY <1>4 DEF PassFence, Move
  <2>4. /\ st.op = "preflight_safety" =>
             ~st.job.confirmed /\ RestorePausedState(st.job).status \in {"created", "safety_checking"}
        /\ st.op = "safety_check" =>
             st.job.confirmed /\ RestorePausedState(st.job).status = "safety_checking"
        /\ st.op = "advance_chunk" => RestorePausedState(st.job).status = "chunk_complete"
    BY <2>3 DEF DispatchInv, OpsOK
  <2> HIDE DEF s
  <2> QED BY <1>1, <2>1, <2>2, <2>3, <2>4, CopyStep DEF Copying
<1>5. CASE Refuse(w)
  <2>1. QuietWorkers
    BY <1>5, MovedQuietly DEF Refuse, Passive
  <2> QED BY <1>5, <2>1, QuietStep DEF Refuse
<1>6. CASE LoseAnswer(w)
  <2>1. QuietWorkers
    BY <1>6, MovedQuietly DEF LoseAnswer, Passive
  <2> QED BY <1>6, <2>1, QuietStep DEF LoseAnswer
<1> QED BY <1>2, <1>3, <1>4, <1>5, <1>6

LEMMA ProviderDispatch ==
  ASSUME TypeOK, WorkOK, DispatchInv, NEW w \in Workers,
         \/ CheckSafety(w) \/ Checkpoint(w) \/ Send(w) \/ Answered(w) \/ Verify(w)
  PROVE  DispatchInv'
<1> DEFINE st == worker[w]
           job == Opened(st.job)
           c == WorkChunk(st.job, st.op)
<1>1. st \in Steps /\ st.job \in Jobs /\ JobInv(st.job) /\ job \in Jobs
  <2>1. st \in Steps /\ st.job \in Jobs /\ JobInv(st.job)
    BY StepFields DEF TypeOK, DispatchInv, JobsOK
  <2> QED BY <2>1, OpenedType
<1>2. /\ st.pc \in {"fenced", "awaiting"} => c \in Chunks
      /\ WorkChunk(job, st.op) = c /\ job.chunk = st.job.chunk
  BY <1>1, OpenedKeepsChunks DEF WorkOK
<1>3. c \in Chunks => /\ c # 0 /\ Targets[c] \subseteq Messages
                      /\ job.chunk[c].safe \in SUBSET Messages
                      /\ job.chunk[c].moved \in SUBSET Messages
  <2>1. SUFFICES ASSUME c \in Chunks
                 PROVE  /\ c # 0 /\ Targets[c] \subseteq Messages
                        /\ job.chunk[c].safe \in SUBSET Messages
                        /\ job.chunk[c].moved \in SUBSET Messages
    OBVIOUS
  <2>2. PICK d \in Chunks, J \in Jobs : d = c /\ J = job
    BY <1>1, <2>1
  <2>3. J.chunk[d] \in ChunkRecords
    BY JobFields
  <2>4. J.chunk[d].safe \in SUBSET Messages /\ J.chunk[d].moved \in SUBSET Messages
    BY <2>3 DEF ChunkRecords
  <2>5. d # 0 /\ Targets[d] \subseteq Messages
    BY ChunksAssumption DEF Messages, Chunks
  <2> QED BY <2>2, <2>4, <2>5
<1>4. ASSUME NEW j \in Jobs, Finish(w, j), st.pc \in {"fenced", "awaiting"},
             JobInv(j), SameMarks(j, st.job), UNCHANGED <<row, sent>>
      PROVE  DispatchInv'
  BY <1>4, FinishDispatch
<1>5. CASE CheckSafety(w)
  <2>1. /\ st.op = "preflight_safety" =>
             ~st.job.confirmed /\ RestorePausedState(st.job).status \in {"created", "safety_checking"}
        /\ st.op = "safety_check" =>
             st.job.confirmed /\ RestorePausedState(st.job).status = "safety_checking"
    BY <1>5 DEF CheckSafety, DispatchInv, OpsOK
  <2>2. CASE st.op = "preflight_safety" /\ Finish(w, Preflight(job))
    <3>1. Preflight(job) \in Jobs /\ JobInv(Preflight(job)) /\ SameMarks(Preflight(job), st.job)
      BY <1>1, <2>1, <2>2, SafetyInv, PreflightType
    <3> QED BY <1>4, <1>5, <2>2, <3>1 DEF CheckSafety
  <2>3. ASSUME st.op = "safety_check", NEW S \in SUBSET Targets[c], Finish(w, SafetyCheck(job, S))
        PROVE  DispatchInv'
    <3>1. S \in SUBSET Messages
      BY <1>2, <1>3, <1>5 DEF CheckSafety
    <3>2. /\ SafetyCheck(job, S) \in Jobs /\ JobInv(SafetyCheck(job, S))
          /\ SameMarks(SafetyCheck(job, S), st.job)
      BY <1>1, <2>1, <2>3, <3>1, SafetyInv, SafetyCheckType
    <3> QED BY <1>4, <1>5, <2>3, <3>2 DEF CheckSafety
  <2> QED BY <1>2, <1>5, <2>2, <2>3 DEF CheckSafety
<1>6. CASE Checkpoint(w)
  <2> DEFINE position == Len(history) + 1
  <2>1. position \in Nat
    BY DEF TypeOK
  <2>2. \/ Finish(w, CheckpointTrash(job, position))
        \/ Finish(w, CheckpointUndo(job, position))
    BY <1>6 DEF Checkpoint
  <2> HIDE DEF position
  <2>3. /\ CheckpointTrash(job, position) \in Jobs /\ CheckpointUndo(job, position) \in Jobs
        /\ JobInv(CheckpointTrash(job, position)) /\ JobInv(CheckpointUndo(job, position))
        /\ SameMarks(CheckpointTrash(job, position), st.job)
        /\ SameMarks(CheckpointUndo(job, position), st.job)
    BY <1>1, <2>1, CheckpointType, ProviderInv
  <2> QED BY <1>4, <1>6, <2>2, <2>3 DEF Checkpoint
<1>7. CASE Send(w)
  BY <1>7, SendDispatch
<1>8. CASE Answered(w)
  <2>1. CASE st.op = "dispatch_trash"
    <3>1. WorkChunk(job, "dispatch_trash") = ActiveSensitiveChunk(job)
      BY DEF WorkChunk, TrashOps, UndoOps
    <3>2. ActiveSensitiveChunk(job) # 0
      BY <1>2, <1>3, <1>8, <2>1, <3>1 DEF Answered
    <3>3. TrashSent(job) \in Jobs /\ JobInv(TrashSent(job)) /\ SameMarks(TrashSent(job), st.job)
      BY <1>1, <3>2, ProviderInv, TrashSentType
    <3>4. Finish(w, TrashSent(job))
      BY <1>8, <2>1 DEF Answered
    <3> QED BY <1>4, <1>8, <3>3, <3>4 DEF Answered
  <2>2. CASE st.op # "dispatch_trash"
    <3>1. JobInv(job) /\ SameMarks(job, st.job)
      BY <1>1, ProviderInv
    <3>2. Finish(w, job)
      BY <1>8, <2>2 DEF Answered
    <3> QED BY <1>1, <1>4, <1>8, <3>1, <3>2 DEF Answered
  <2> QED BY <2>1, <2>2
<1>9. CASE Verify(w)
  <2> DEFINE chunk == job.chunk[c]
             shape == [verified : SUBSET Messages, failed : SUBSET Messages,
                       uncertain : SUBSET Messages]
  <2>1. chunk.safe \in SUBSET Messages /\ Restorable(chunk) \in SUBSET Messages /\ c # 0
    BY <1>2, <1>3, <1>9 DEF Verify, Restorable
  <2>2. \/ /\ st.op = "verify_trash"
           /\ \E o \in Outcomes(chunk.safe, "trash", chunk.checkpoint) :
                Finish(w, VerifyTrash(job, o.verified, o.failed, o.uncertain))
        \/ \E o \in Outcomes(Restorable(chunk), "undo", chunk.undoCheckpoint) :
             Finish(w, VerifyUndo(job, o.verified, o.failed, o.uncertain))
    BY <1>2, <1>9 DEF Verify
  <2> HIDE DEF job, chunk, c
  <2>3. \A ids \in SUBSET Messages : \A kind, n : \A o \in Outcomes(ids, kind, n) :
          /\ o.verified \in SUBSET Messages /\ o.failed \in SUBSET Messages
          /\ o.uncertain \in SUBSET Messages
    BY DEF Outcomes
  <2>4. ASSUME st.op = "verify_trash",
               NEW v \in SUBSET Messages, NEW f \in SUBSET Messages, NEW u \in SUBSET Messages,
               Finish(w, VerifyTrash(job, v, f, u))
        PROVE  DispatchInv'
    <3>1. WorkChunk(job, "verify_trash") = ActiveSensitiveChunk(job)
      BY DEF WorkChunk, TrashOps, UndoOps
    <3>2. ActiveSensitiveChunk(job) # 0
      BY <1>2, <2>1, <2>4, <3>1
    <3>3. /\ VerifyTrash(job, v, f, u) \in Jobs /\ JobInv(VerifyTrash(job, v, f, u))
          /\ SameMarks(VerifyTrash(job, v, f, u), st.job)
      BY <1>1, <3>2, ProviderInv, VerifyTrashType DEF job
    <3> QED BY <1>4, <1>9, <2>4, <3>3 DEF Verify
  <2>5. ASSUME NEW v \in SUBSET Messages, NEW f \in SUBSET Messages, NEW u \in SUBSET Messages,
               Finish(w, VerifyUndo(job, v, f, u))
        PROVE  DispatchInv'
    <3>1. /\ VerifyUndo(job, v, f, u) \in Jobs /\ JobInv(VerifyUndo(job, v, f, u))
          /\ SameMarks(VerifyUndo(job, v, f, u), st.job)
      BY <1>1, ProviderInv, VerifyUndoType DEF job
    <3> QED BY <1>4, <1>9, <2>5, <3>1 DEF Verify
  <2> QED BY <2>1, <2>2, <2>3, <2>4, <2>5
<1> QED BY <1>5, <1>6, <1>7, <1>8, <1>9

\* What the end of a step and the environment may do to the row: its job and
\* its version stay, or it goes.
SameJobOrGone ==
  row'.present => row.present /\ row'.job = row.job /\ row'.version = row.version

LEMMA RowKept ==
  ASSUME TypeOK,
         \/ UNCHANGED row
         \/ row' = Absent
         \/ row.present /\ \E o \in Owners \cup {NoOwner} : row' = [row EXCEPT !.owner = o]
         \/ row.present /\ row' = [row EXCEPT !.owner = NoOwner, !.live = FALSE]
         \/ row.present /\ row' = [row EXCEPT !.live = FALSE]
         \/ row.present /\ row' = [row EXCEPT !.expired = TRUE]
  PROVE  SameJobOrGone
<1>1. row.present => row \in PresentRows(Owners, Jobs)
  BY RowPresent DEF TypeOK
<1>2. Absent.present = FALSE
  BY DEF Absent
<1> QED BY <1>1, <1>2 DEF SameJobOrGone, PresentRows

\* The end of a step: a copy that is still the row's is written back with its
\* markers, every other one is dropped.
LEMMA CommitDispatch ==
  ASSUME TypeOK, DispatchInv, NEW w \in Workers, Commit(w)
  PROVE  DispatchInv'
<1> DEFINE st == worker[w]
<1>1. st \in Steps /\ st.job \in Jobs /\ JobInv(st.job) /\ st.version \in Nat
  BY StepFields DEF TypeOK, DispatchInv, JobsOK
<1>2. CASE CanReplace(row, st.version) /\ Owns(row, w)
  <2> DEFINE s == [st EXCEPT !.pc = "committed", !.version = st.version + 1]
  <2>1. row \in PresentRows(Owners, Jobs) /\ row.present /\ row.version = st.version
    BY <1>2, RowPresent DEF CanReplace, Visible, TypeOK
  <2>2. /\ row' = Replaced(row, st.job) /\ worker' = [worker EXCEPT ![w] = s]
        /\ UNCHANGED sent /\ st.pc = "executed"
    BY <1>2 DEF Commit
  <2>3. row'.present /\ row'.job = st.job /\ row'.version = row.version + 1
    BY <2>1, <2>2 DEF Replaced, PresentRows
  <2>4. s.pc = "committed" /\ s.job = st.job
    BY <1>1 DEF Steps
  <2>5. QuietWorkers
    <3> HIDE DEF s
    <3>1. worker'[w] = s /\ \A v \in Workers \ {w} : worker'[v] = worker[v]
      BY <2>2 DEF TypeOK
    <3> QED BY <1>1, <2>4, <3>1 DEF QuietWorkers, Passive
  <2>6. \A kind \in Kinds, c \in Chunks :
          Dispatched(row.job, kind, c) => Dispatched(row'.job, kind, c)
    BY <2>1, <2>2, <2>3 DEF DispatchInv, CopiesOK
  <2>7. JobInv(row'.job)
    BY <1>1, <2>3
  <2> QED BY <2>1, <2>2, <2>3, <2>5, <2>6, <2>7, ReplaceStep
<1>3. CASE ~(CanReplace(row, st.version) /\ Owns(row, w))
  <2>1. QuietWorkers
    BY <1>3, MovedQuietly DEF Commit, Passive
  <2> QED BY <1>3, <2>1, QuietStep DEF Commit
<1> QED BY <1>2, <1>3

LEMMA EndDispatch ==
  ASSUME TypeOK, DispatchInv, NEW w \in Workers,
         \/ Commit(w) \/ Sync(w) \/ Delete(w) \/ Release(w) \/ Crash(w) \/ FindMissing(w)
  PROVE  DispatchInv'
<1>1. CASE Commit(w)
  BY <1>1, CommitDispatch
<1>2. CASE Sync(w)
  <2>1. QuietWorkers
    BY <1>2, MovedQuietly DEF Sync, Passive
  <2>2. UNCHANGED <<row, sent>>
    BY <1>2 DEF Sync
  <2> QED BY <2>1, <2>2, QuietStep
<1>3. CASE Delete(w)
  <2>1. QuietWorkers
    BY <1>3, MovedQuietly DEF Delete, Passive
  <2>2. SameJobOrGone /\ UNCHANGED sent
    BY <1>3, RowKept DEF Delete
  <2> QED BY <2>1, <2>2, QuietStep DEF SameJobOrGone
<1>4. CASE Release(w)
  <2>1. \/ worker' = [worker EXCEPT ![w] = Idle(worker[w].mode, 0)]
        \/ worker' = [worker EXCEPT ![w] = NoStep]
        \/ worker' = [worker EXCEPT ![w] = AfterThrow(w)]
    BY <1>4 DEF Release
  <2>2. QuietWorkers
    BY <2>1, EndedQuietly
  <2>3. SameJobOrGone /\ UNCHANGED sent
    BY <1>4, RowKept DEF Release, Released
  <2> QED BY <2>2, <2>3, QuietStep DEF SameJobOrGone
<1>5. CASE Crash(w)
  <2>1. worker' = [worker EXCEPT ![w] = AfterThrow(w)]
    BY <1>5 DEF Crash
  <2>2. QuietWorkers
    BY <2>1, EndedQuietly
  <2>3. SameJobOrGone /\ UNCHANGED sent
    BY <1>5, RowKept DEF Crash, Owners
  <2> QED BY <2>2, <2>3, QuietStep DEF SameJobOrGone
<1>6. CASE FindMissing(w)
  <2>1. worker' = [worker EXCEPT ![w] = NoStep]
    BY <1>6 DEF FindMissing
  <2>2. QuietWorkers
    BY <2>1, EndedQuietly
  <2>3. SameJobOrGone /\ UNCHANGED sent
    BY <1>6, RowKept DEF FindMissing
  <2> QED BY <2>2, <2>3, QuietStep DEF SameJobOrGone
<1> QED BY <1>1, <1>2, <1>3, <1>4, <1>5, <1>6

\* Mailbox, clocks and retention touch neither jobs nor steps.
LEMMA EnvironmentDispatch ==
  ASSUME TypeOK, DispatchInv,
         \/ \E r \in inflight : RequestLands(r)
         \/ LeaseLapses \/ OrphanLapses \/ WindowElapses \/ StateExpires \/ Purge
  PROVE  DispatchInv'
<1>1. UNCHANGED <<worker, sent>>
  BY DEF RequestLands, LeaseLapses, OrphanLapses, WindowElapses, StateExpires, Purge
<1>2. SameJobOrGone
  BY RowKept DEF RequestLands, LeaseLapses, OrphanLapses, WindowElapses, StateExpires, Purge, Visible
<1> QED BY <1>1, <1>2, SameWorkersQuiet, QuietStep DEF SameJobOrGone

\* A ready job has no Trash marker to lose, and confirmation keeps Undo's.
LEMMA ConfirmDispatch ==
  ASSUME TypeOK, DispatchInv, Confirm
  PROVE  DispatchInv'
<1>1. row \in PresentRows(Owners, Jobs) /\ row.present /\ row.job \in Jobs
      /\ row.job.status = "ready"
  BY RowPresent, RowFields DEF TypeOK, Confirm, Visible
<1>2. JobInv(row.job)
  BY <1>1 DEF DispatchInv, JobsOK
<1>3. row'.present /\ row'.version = row.version + 1 /\ row'.job = PrepareConfirmed(row.job)
  BY <1>1 DEF Confirm, Replaced, PresentRows
<1>4. \A kind \in Kinds, c \in Chunks :
        Dispatched(row.job, kind, c) => Dispatched(row'.job, kind, c)
  <2>1. \A c \in Chunks : ~row.job.chunk[c].dispatched
    BY <1>1, <1>2 DEF JobInv
  <2>2. \A c \in Chunks : row'.job.chunk[c].undoDispatched = row.job.chunk[c].undoDispatched
    BY <1>1, <1>3, PrepareConfirmedEffect
  <2> QED BY <2>1, <2>2 DEF Dispatched
<1>5. QuietWorkers /\ UNCHANGED sent
  BY StartedQuietly DEF Confirm
<1>6. JobInv(row'.job)
  BY <1>1, <1>2, <1>3, RequestInv
<1> QED BY <1>1, <1>3, <1>4, <1>5, <1>6, ReplaceStep

\* A restore begins with every marker in its place.
LEMMA RestoreDispatch ==
  ASSUME TypeOK, DispatchInv,
         ClaimRestore \/ AbandonRestore \/ CommitRestore \/ StartRestore
  PROVE  DispatchInv'
<1>1. CASE ClaimRestore \/ AbandonRestore
  <2>1. SameJobOrGone
    <3>1. row.present => row \in PresentRows(Owners, Jobs)
      BY RowPresent DEF TypeOK
    <3> QED BY <1>1, <3>1 DEF ClaimRestore, AbandonRestore, Claimed, Claimable, Visible,
                              SameJobOrGone, PresentRows
  <2>2. UNCHANGED <<worker, sent>>
    BY <1>1 DEF ClaimRestore, AbandonRestore
  <2> QED BY <2>1, <2>2, SameWorkersQuiet, QuietStep DEF SameJobOrGone
<1>2. CASE CommitRestore /\ Owns(row, Restorer)
  <2>1. row \in PresentRows(Owners, Jobs) /\ row.present /\ row.job \in Jobs
    BY <1>2, RowPresent, RowFields DEF TypeOK, Owns, Visible
  <2>2. JobInv(row.job)
    BY <2>1 DEF DispatchInv, JobsOK
  <2>3. row'.present /\ row'.version = row.version + 1 /\ row'.job = BeginUndo(row.job)
    BY <1>2, <2>1 DEF CommitRestore, Replaced, Released, PresentRows
  <2>4. JobInv(row'.job) /\ SameMarks(row'.job, row.job)
    BY <2>1, <2>2, <2>3, RequestInv
  <2>5. \A kind \in Kinds, c \in Chunks :
          Dispatched(row.job, kind, c) => Dispatched(row'.job, kind, c)
    BY <2>4 DEF Dispatched, SameMarks
  <2>6. QuietWorkers /\ UNCHANGED sent
    BY <1>2, SameWorkersQuiet DEF CommitRestore
  <2> QED BY <2>1, <2>3, <2>4, <2>5, <2>6, ReplaceStep
<1>3. CASE CommitRestore /\ ~Owns(row, Restorer)
  <2>1. SameJobOrGone /\ UNCHANGED <<worker, sent>>
    BY <1>3, RowKept DEF CommitRestore, Released
  <2> QED BY <2>1, SameWorkersQuiet, QuietStep DEF SameJobOrGone
<1>4. CASE StartRestore
  <2>1. QuietWorkers /\ UNCHANGED <<row, sent>>
    BY <1>4, StartedQuietly DEF StartRestore
  <2> QED BY <2>1, QuietStep
<1> QED BY <1>1, <1>2, <1>3, <1>4

LEMMA UserDispatch ==
  ASSUME TypeOK, DispatchInv,
         \/ Accept \/ Confirm \/ Redispatch \/ ClaimRestore \/ AbandonRestore
         \/ Discard \/ Disconnect \/ UserCompletes
  PROVE  DispatchInv'
<1>1. CASE Accept \/ Redispatch
  <2>1. QuietWorkers /\ UNCHANGED <<row, sent>>
    BY <1>1, StartedQuietly DEF Accept, Redispatch
  <2> QED BY <2>1, QuietStep
<1>2. CASE Confirm
  BY <1>2, ConfirmDispatch
<1>3. CASE ClaimRestore \/ AbandonRestore \/ CommitRestore \/ StartRestore
  BY <1>3, RestoreDispatch
<1>4. CASE \/ Discard \/ Disconnect \/ DiscardState \/ DiscardJob
           \/ CancelJobs \/ ClearSnapshots \/ ForgetState
  <2>1. UNCHANGED <<worker, sent>>
    BY <1>4 DEF Discard, Disconnect, DiscardState, DiscardJob, CancelJobs, ClearSnapshots,
                ForgetState
  <2>2. SameJobOrGone
    BY <1>4, RowKept DEF Discard, Disconnect, DiscardState, DiscardJob, CancelJobs,
                         ClearSnapshots, ForgetState
  <2> QED BY <2>1, <2>2, SameWorkersQuiet, QuietStep DEF SameJobOrGone
<1> QED BY <1>1, <1>2, <1>3, <1>4 DEF UserCompletes

LEMMA InitDispatch ==
  ASSUME Init
  PROVE  DispatchInv
<1>1. row.present /\ row.job = AcceptedJob
  BY DEF Init, Created
<1>2. \A w \in Workers : worker[w].pc = "off" /\ worker[w].job = AcceptedJob
  BY DEF Init, NoStep
<1>3. \A kind \in Kinds, c \in Chunks : sent[kind][c] = 0
  BY DEF Init
<1>4. JobsOK
  BY <1>1, <1>2, AcceptedInv DEF JobsOK
<1>5. OpsOK
  BY <1>2 DEF OpsOK
<1>6. CopiesOK
  BY <1>2 DEF CopiesOK, Copying
<1>7. RequestsOK
  BY <1>2, <1>3 DEF RequestsOK, Permit
<1> QED BY <1>4, <1>5, <1>6, <1>7 DEF DispatchInv

LEMMA StepDispatch ==
  ASSUME TypeOK, WorkOK, DispatchInv, [Next]_vars
  PROVE  DispatchInv'
<1>1. CASE \E w \in Workers : Progress(w) \/ PauseForQuota(w) \/ LoseAnswer(w) \/ Crash(w)
  BY <1>1, CoordinatorDispatch, ExecutorDispatch, ProviderDispatch, EndDispatch DEF Progress
<1>2. CASE \/ \E r \in inflight : RequestLands(r)
           \/ LeaseLapses \/ OrphanLapses \/ WindowElapses \/ StateExpires \/ Purge
  BY <1>2, EnvironmentDispatch
<1>3. CASE \/ Accept \/ Confirm \/ Redispatch \/ ClaimRestore \/ AbandonRestore
           \/ Discard \/ Disconnect \/ UserCompletes
  BY <1>3, UserDispatch
<1>4. CASE UNCHANGED vars
  <2>1. UNCHANGED <<row, worker, sent>>
    BY <1>4 DEF vars
  <2> QED BY <2>1, SameWorkersQuiet, QuietStep
<1> QED BY <1>1, <1>2, <1>3, <1>4 DEF Next

-----------------------------------------------------------------------------

\* The durable dispatch protocol holds for any number of chunks and of
\* workflow runs, whatever crashes, lapses, retries and user requests meet:
\* a step may send a chunk's request only behind that chunk's durable marker
\* and is the only one that may.
THEOREM DispatchProtocol == Spec => []DispatchInv
<1>1. Init => TypeOK /\ WorkOK /\ DispatchInv
  BY InitTyped, InitDispatch
<1>2. TypeOK /\ WorkOK /\ DispatchInv /\ [Next]_vars => (TypeOK /\ WorkOK /\ DispatchInv)'
  BY StepTyped, StepDispatch
<1> QED BY <1>1, <1>2, PTL DEF Spec

\* No chunk is moved to Trash by two requests, and none is restored by two:
\* the marker the coordinator commits before the request exists makes a
\* repeated step, a duplicate run or a late one verify instead of send.
THEOREM AtMostOnce == Spec => []AtMostOneRequest
<1>1. DispatchInv => AtMostOneRequest
  BY DEF DispatchInv, RequestsOK, AtMostOneRequest
<1> QED BY <1>1, DispatchProtocol, PTL


-----------------------------------------------------------------------------
(* What the operators write into a job, field by field.                     *)

\* Of a chunk's record at most its status and its preflight flag differ.
SameLedger(n, o) ==
  /\ n.safe = o.safe /\ n.moved = o.moved /\ n.restored = o.restored
  /\ n.checkpoint = o.checkpoint /\ n.dispatched = o.dispatched
  /\ n.undoCheckpoint = o.undoCheckpoint /\ n.undoDispatched = o.undoDispatched

\* Of a job at most its status, its chunks and its Undo offer differ.
SameConsent(g, j) == g.confirmed = j.confirmed /\ g.restoreMode = j.restoreMode

\* A ledger gains only what the mailbox shows, a chunk a checkpoint only when
\* it is not marked.
Grown(j, g) ==
  \A c \in Chunks :
    LET o == j.chunk[c]
        n == g.chunk[c] IN
    /\ n.moved \subseteq o.moved \cup Happened("trash") \cup trash
    /\ n.restored \subseteq o.restored \cup Happened("undo") \cup (o.moved \ trash)
    /\ n.checkpoint # o.checkpoint => ~o.dispatched /\ n.checkpoint \in {0, Len(history) + 1}
    /\ n.undoCheckpoint # o.undoCheckpoint =>
         ~o.undoDispatched /\ n.undoCheckpoint \in {0, Len(history) + 1}

Follows(j, g) == Continues(j, g) /\ Grown(j, g)

LEMMA RecordStatusWritten ==
  ASSUME NEW o \in ChunkRecords, NEW t
  PROVE  /\ LET n == [o EXCEPT !.status = t] IN SameLedger(n, o) /\ n.status = t
         /\ LET n == [o EXCEPT !.status = t, !.preflightComplete = TRUE] IN
            SameLedger(n, o) /\ n.status = t
BY DEF ChunkRecords, SameLedger

LEMMA RecordSafeWritten ==
  ASSUME NEW o \in ChunkRecords, NEW t, NEW S
  PROVE  LET n == [o EXCEPT !.status = t, !.safe = S] IN
         /\ n.status = t /\ n.safe = S /\ n.moved = o.moved /\ n.restored = o.restored
         /\ n.checkpoint = o.checkpoint /\ n.dispatched = o.dispatched
         /\ n.undoCheckpoint = o.undoCheckpoint /\ n.undoDispatched = o.undoDispatched
BY DEF ChunkRecords

LEMMA RecordMovedWritten ==
  ASSUME NEW o \in ChunkRecords, NEW t, NEW S
  PROVE  LET n == [o EXCEPT !.status = t, !.moved = S] IN
         /\ n.status = t /\ n.safe = o.safe /\ n.moved = S /\ n.restored = o.restored
         /\ n.checkpoint = o.checkpoint /\ n.dispatched = o.dispatched
         /\ n.undoCheckpoint = o.undoCheckpoint /\ n.undoDispatched = o.undoDispatched
BY DEF ChunkRecords

LEMMA RecordRestoredWritten ==
  ASSUME NEW o \in ChunkRecords, NEW t, NEW S
  PROVE  LET n == [o EXCEPT !.restored = S, !.status = t] IN
         /\ n.status = t /\ n.safe = o.safe /\ n.moved = o.moved /\ n.restored = S
         /\ n.checkpoint = o.checkpoint /\ n.dispatched = o.dispatched
         /\ n.undoCheckpoint = o.undoCheckpoint /\ n.undoDispatched = o.undoDispatched
BY DEF ChunkRecords

LEMMA RecordCheckpointWritten ==
  ASSUME NEW o \in ChunkRecords, NEW i
  PROVE  /\ LET n == [o EXCEPT !.checkpoint = i] IN
            /\ n.status = o.status /\ n.safe = o.safe /\ n.moved = o.moved
            /\ n.restored = o.restored /\ n.checkpoint = i /\ n.dispatched = o.dispatched
            /\ n.undoCheckpoint = o.undoCheckpoint /\ n.undoDispatched = o.undoDispatched
         /\ LET n == [o EXCEPT !.undoCheckpoint = i] IN
            /\ n.status = o.status /\ n.safe = o.safe /\ n.moved = o.moved
            /\ n.restored = o.restored /\ n.checkpoint = o.checkpoint
            /\ n.dispatched = o.dispatched /\ n.undoCheckpoint = i
            /\ n.undoDispatched = o.undoDispatched
BY DEF ChunkRecords

LEMMA RecordMarkWritten ==
  ASSUME NEW o \in ChunkRecords
  PROVE  /\ LET n == [o EXCEPT !.dispatched = TRUE] IN
            /\ n.status = o.status /\ n.safe = o.safe /\ n.moved = o.moved
            /\ n.restored = o.restored /\ n.checkpoint = o.checkpoint /\ n.dispatched
            /\ n.undoCheckpoint = o.undoCheckpoint /\ n.undoDispatched = o.undoDispatched
         /\ LET n == [o EXCEPT !.undoDispatched = TRUE] IN
            /\ n.status = o.status /\ n.safe = o.safe /\ n.moved = o.moved
            /\ n.restored = o.restored /\ n.checkpoint = o.checkpoint
            /\ n.dispatched = o.dispatched /\ n.undoCheckpoint = o.undoCheckpoint
            /\ n.undoDispatched
BY DEF ChunkRecords

-----------------------------------------------------------------------------
(* Operators that leave every ledger as it is.                              *)

\* What a chunk's new status asks of its ledger.
StatusFits(k) ==
  /\ k.status \in NotBegun => ~k.dispatched
  /\ k.status \in NotBegun \cup {"mutating", "verifying"} => k.moved = {}
  /\ k.status = "complete" => k.moved = k.safe

LEMMA LedgersKept ==
  ASSUME NEW j, NEW g, SameConsent(g, j), \A c \in Chunks : ChunkLedger(j, c),
         \A c \in Chunks : SameLedger(g.chunk[c], j.chunk[c]),
         \A c \in Chunks : g.chunk[c].status = j.chunk[c].status \/ StatusFits(g.chunk[c])
  PROVE  Follows(j, g) /\ \A c \in Chunks : ChunkLedger(g, c)
<1>1. Continues(j, g) /\ Grown(j, g)
  BY DEF Continues, Grown, SameConsent, SameLedger
<1>2. ASSUME NEW c \in Chunks PROVE ChunkLedger(g, c)
  <2>1. ChunkLedger(j, c) /\ SameLedger(g.chunk[c], j.chunk[c])
        /\ (g.chunk[c].status = j.chunk[c].status \/ StatusFits(g.chunk[c]))
    OBVIOUS
  <2> QED BY <2>1 DEF ChunkLedger, SameLedger, SameConsent, StatusFits
<1> QED BY <1>1, <1>2 DEF Follows

\* A job's phase by its own status, once it is not paused.
LEMMA UnpausedPhase ==
  ASSUME NEW g \in Jobs, g.status # "paused" \/ g.resumeState = "none"
  PROVE  RestorePausedState(g).status = g.status
BY RestoredStatus

LEMMA OpenedLedger ==
  ASSUME NEW j \in Jobs, JobLedger(j)
  PROVE  /\ Opened(j) \in Jobs /\ RestorePausedState(j) \in Jobs
         /\ JobLedger(Opened(j)) /\ Follows(j, Opened(j)) /\ JobLedger(RestorePausedState(j))
         /\ Opened(j).chunk = j.chunk /\ SameConsent(Opened(j), j)
         /\ Opened(j).status = RestorePausedState(j).status /\ Opened(j).resumeState = "none"
         /\ RestorePausedState(j).chunk = j.chunk /\ SameConsent(RestorePausedState(j), j)
         /\ RestorePausedState(Opened(j)).status = RestorePausedState(j).status
         /\ RestorePausedState(RestorePausedState(j)).status = RestorePausedState(j).status
<1>1. /\ Opened(j) \in Jobs /\ RestorePausedState(j) \in Jobs
      /\ Opened(j).chunk = j.chunk /\ RestorePausedState(j).chunk = j.chunk
  BY OpenedType, RestorePausedStateType, OpenedKeepsChunks
<1>2. SameConsent(RestorePausedState(j), j)
  BY DEF RestorePausedState, Jobs, SameConsent
<1>3. /\ SameConsent(Opened(j), RestorePausedState(j))
      /\ Opened(j).status = RestorePausedState(j).status /\ Opened(j).resumeState = "none"
  BY <1>1 DEF Opened, Jobs, SameConsent
<1>4. SameConsent(Opened(j), j)
  BY <1>2, <1>3 DEF SameConsent
<1>5. Follows(j, Opened(j)) /\ \A c \in Chunks : ChunkLedger(Opened(j), c)
  BY <1>1, <1>4, LedgersKept DEF JobLedger, SameLedger
<1>6. \A c \in Chunks : ChunkLedger(RestorePausedState(j), c)
  BY <1>1, <1>2, LedgersKept DEF JobLedger, SameLedger
<1>7. /\ RestorePausedState(Opened(j)).status = RestorePausedState(j).status
      /\ RestorePausedState(RestorePausedState(j)).status = RestorePausedState(j).status
  BY <1>1, <1>3, UnpausedPhase DEF RestorePausedState, Jobs
<1>8. JobPhase(Opened(j)) /\ JobPhase(RestorePausedState(j))
  BY <1>1, <1>2, <1>4, <1>7 DEF JobLedger, JobPhase, SameConsent
<1> QED BY <1>1, <1>2, <1>3, <1>4, <1>5, <1>6, <1>7, <1>8 DEF JobLedger

\* A job that is not being restored and whose phase is none of a restore's
\* or of a completed cleanup.
LEMMA WorkingPhase ==
  ASSUME NEW g \in Jobs, g.restoreMode = "none",
         RestorePausedState(g).status \notin {"undoing", "undo_complete", "complete"}
  PROVE  JobPhase(g)
BY DEF JobPhase

LEMMA CleanupPhase ==
  ASSUME NEW j \in Jobs, JobLedger(j),
         RestorePausedState(j).status \notin {"undoing", "undo_complete", "partial", "uncertain"}
  PROVE  j.restoreMode = "none"
BY DEF JobLedger, JobPhase

LEMMA PreflightLedger ==
  ASSUME NEW j \in Jobs, JobInv(j), JobLedger(j), ~j.confirmed, j.restoreMode = "none"
  PROVE  JobLedger(Preflight(j)) /\ Follows(j, Preflight(j))
<1> DEFINE c == PreflightChunk(j)
           r == [j.chunk[c] EXCEPT !.status = "ready", !.preflightComplete = TRUE]
           last == \A d \in Chunks \ {c} : j.chunk[d].preflightComplete
           s == IF last THEN "ready" ELSE "safety_checking"
           g == [j EXCEPT !.status = s, !.chunk = [j.chunk EXCEPT ![c] = r]]
<1>1. Preflight(j) = g /\ g \in Jobs
  BY PreflightType DEF Preflight
<1>2. c \in Chunks => SameLedger(r, j.chunk[c])
  BY JobFields, RecordStatusWritten
<1>3. s \in {"ready", "safety_checking"}
  OBVIOUS
<1> HIDE DEF c, r, s
<1>4. /\ g.status = s /\ SameConsent(g, j)
      /\ \A d \in Chunks : g.chunk[d] = IF d = c THEN r ELSE j.chunk[d]
  BY DEF Jobs, SameConsent
<1> HIDE DEF g
<1>5. \A d \in Chunks : SameLedger(g.chunk[d], j.chunk[d])
  BY <1>2, <1>4 DEF SameLedger
<1>6. \A d \in Chunks : StatusFits(g.chunk[d])
  <2>1. \A d \in Chunks : j.chunk[d].safe = {} /\ j.chunk[d].moved = {} /\ ~j.chunk[d].dispatched
    BY DEF JobInv, JobLedger, ChunkLedger
  <2> QED BY <1>5, <2>1 DEF StatusFits, SameLedger
<1>7. JobPhase(g)
  BY <1>1, <1>3, <1>4, UnpausedPhase, WorkingPhase DEF SameConsent
<1> QED BY <1>1, <1>4, <1>5, <1>6, <1>7, LedgersKept DEF JobLedger

LEMMA SafetyChunkOpen ==
  ASSUME NEW j \in Jobs, SafetyChunk(j) \in Chunks
  PROVE  j.chunk[SafetyChunk(j)].status \in {"pending", "safety_checking"}
<1> DEFINE S == IF ChunksIn(j, {"safety_checking"}) # {} THEN ChunksIn(j, {"safety_checking"})
                ELSE ChunksIn(j, {"pending"})
<1>1. SafetyChunk(j) = First(S) /\ S \subseteq Chunks
  BY DEF SafetyChunk, ChunksIn
<1>2. SafetyChunk(j) # 0
  BY ChunksAssumption DEF Chunks
<1>3. SafetyChunk(j) \in S
  BY <1>1, <1>2, FirstFound
<1> QED BY <1>3 DEF ChunksIn

LEMMA SafetyCheckLedger ==
  ASSUME NEW j \in Jobs, JobLedger(j), j.confirmed, j.restoreMode = "none",
         SafetyChunk(j) \in Chunks, NEW S \in SUBSET Targets[SafetyChunk(j)]
  PROVE  JobLedger(SafetyCheck(j, S)) /\ Follows(j, SafetyCheck(j, S))
<1> DEFINE c == SafetyChunk(j)
           done == S = {}
           t == IF done THEN "complete" ELSE "mutating"
           s == IF done THEN "chunk_complete" ELSE "mutating"
           r == [j.chunk[c] EXCEPT !.status = t, !.safe = S]
           g == [j EXCEPT !.status = s, !.chunk = [j.chunk EXCEPT ![c] = r]]
<1>1. SafetyCheck(j, S) = g
  BY DEF SafetyCheck
<1>2. /\ r.status = t /\ r.safe = S /\ r.moved = j.chunk[c].moved
      /\ r.restored = j.chunk[c].restored /\ r.checkpoint = j.chunk[c].checkpoint
      /\ r.dispatched = j.chunk[c].dispatched /\ r.undoCheckpoint = j.chunk[c].undoCheckpoint
      /\ r.undoDispatched = j.chunk[c].undoDispatched
  BY JobFields, RecordSafeWritten
<1>3. g \in Jobs
  <2>1. S \in SUBSET Messages
    BY DEF Messages
  <2> QED BY <1>1, <2>1, SafetyCheckType
<1>4. s \in {"chunk_complete", "mutating"} /\ t = IF S = {} THEN "complete" ELSE "mutating"
  OBVIOUS
<1>5. j.chunk[c].status \in NotBegun /\ S \subseteq Targets[c] /\ c \in Chunks
  BY SafetyChunkOpen DEF NotBegun
<1> HIDE DEF c, r, s, t
<1>6. /\ g.status = s /\ SameConsent(g, j)
      /\ \A d \in Chunks : g.chunk[d] = IF d = c THEN r ELSE j.chunk[d]
  BY DEF Jobs, SameConsent
<1> HIDE DEF g
<1>7. ~j.chunk[c].dispatched /\ j.chunk[c].moved = {} /\ j.chunk[c].restored = {}
  BY <1>5 DEF JobLedger, ChunkLedger
<1>8. Follows(j, g)
  BY <1>2, <1>6, <1>7 DEF Follows, Continues, Grown, SameConsent
<1>9. ASSUME NEW d \in Chunks PROVE ChunkLedger(g, d)
  <2>1. CASE d = c
    <3>1. ChunkLedger(j, c)
      BY <1>5 DEF JobLedger
    <3> QED BY <1>2, <1>4, <1>5, <1>6, <1>7, <2>1, <3>1 DEF ChunkLedger, SameConsent, NotBegun
  <2>2. CASE d # c
    BY <1>6, <2>2 DEF JobLedger, ChunkLedger, SameConsent
  <2> QED BY <2>1, <2>2
<1>10. JobPhase(g)
  BY <1>3, <1>4, <1>6, UnpausedPhase, WorkingPhase DEF SameConsent
<1> QED BY <1>1, <1>8, <1>9, <1>10 DEF JobLedger

\* The chunk being moved is at the start of its ledger.
LEMMA ActiveChunkEmpty ==
  ASSUME NEW j \in Jobs, JobLedger(j), ActiveSensitiveChunk(j) \in Chunks
  PROVE  LET k == j.chunk[ActiveSensitiveChunk(j)] IN
         k.status \in {"mutating", "verifying"} /\ k.moved = {} /\ k.restored = {}
<1>1. ActiveSensitiveChunk(j) \in Sensitive(j)
  BY ActiveIsSensitive, ChunksAssumption DEF Chunks
<1> QED BY <1>1 DEF Sensitive, ChunksIn, JobLedger, ChunkLedger

LEMMA CheckpointTrashLedger ==
  ASSUME NEW j \in Jobs, JobLedger(j),
         NEW i \in Nat \ {0}, i = Len(history) + 1,
         LET c == ActiveSensitiveChunk(j) IN c \in Chunks => ~j.chunk[c].dispatched
  PROVE  JobLedger(CheckpointTrash(j, i)) /\ Follows(j, CheckpointTrash(j, i))
<1> DEFINE c == ActiveSensitiveChunk(j)
           r == [j.chunk[c] EXCEPT !.checkpoint = i]
           g == [j EXCEPT !.chunk = [j.chunk EXCEPT ![c] = r]]
<1>1. CheckpointTrash(j, i) = g /\ g \in Jobs
  BY CheckpointType DEF CheckpointTrash
<1>2. c \in Chunks =>
        /\ r.status = j.chunk[c].status /\ r.safe = j.chunk[c].safe /\ r.moved = j.chunk[c].moved
        /\ r.restored = j.chunk[c].restored /\ r.checkpoint = i
        /\ r.dispatched = j.chunk[c].dispatched /\ r.undoCheckpoint = j.chunk[c].undoCheckpoint
        /\ r.undoDispatched = j.chunk[c].undoDispatched /\ ~j.chunk[c].dispatched
  BY JobFields, RecordCheckpointWritten
<1> HIDE DEF r
<1>3. /\ g.status = j.status /\ g.resumeState = j.resumeState /\ SameConsent(g, j)
      /\ \A d \in Chunks : g.chunk[d] = IF d = c THEN r ELSE j.chunk[d]
  BY DEF Jobs, SameConsent
<1> HIDE DEF g, c
<1>4. Follows(j, g)
  BY <1>2, <1>3 DEF Follows, Continues, Grown, SameConsent
<1>5. ASSUME NEW d \in Chunks PROVE ChunkLedger(g, d)
  <2>1. ChunkLedger(j, d)
    BY DEF JobLedger
  <2> QED BY <1>2, <1>3, <2>1 DEF ChunkLedger, SameConsent
<1>6. RestorePausedState(g).status = RestorePausedState(j).status
  BY <1>1, <1>3, RestoredStatus
<1>7. \A d \in Chunks : /\ g.chunk[d].status = j.chunk[d].status /\ g.chunk[d].safe = j.chunk[d].safe
                        /\ g.chunk[d].moved = j.chunk[d].moved
                        /\ g.chunk[d].restored = j.chunk[d].restored
  BY <1>2, <1>3
<1>8. JobPhase(g)
  BY <1>3, <1>6, <1>7 DEF JobLedger, JobPhase, SameConsent
<1> QED BY <1>1, <1>4, <1>5, <1>8 DEF JobLedger

LEMMA CheckpointUndoLedger ==
  ASSUME NEW j \in Jobs, JobLedger(j),
         NEW i \in Nat \ {0}, i = Len(history) + 1,
         LET c == ActiveUndoChunk(j) IN c \in Chunks => ~j.chunk[c].undoDispatched
  PROVE  JobLedger(CheckpointUndo(j, i)) /\ Follows(j, CheckpointUndo(j, i))
<1> DEFINE c == ActiveUndoChunk(j)
           r == [j.chunk[c] EXCEPT !.undoCheckpoint = i]
           g == [j EXCEPT !.chunk = [j.chunk EXCEPT ![c] = r]]
<1>1. CheckpointUndo(j, i) = g /\ g \in Jobs
  BY CheckpointType DEF CheckpointUndo
<1>2. c \in Chunks =>
        /\ r.status = j.chunk[c].status /\ r.safe = j.chunk[c].safe /\ r.moved = j.chunk[c].moved
        /\ r.restored = j.chunk[c].restored /\ r.checkpoint = j.chunk[c].checkpoint
        /\ r.dispatched = j.chunk[c].dispatched /\ r.undoCheckpoint = i
        /\ r.undoDispatched = j.chunk[c].undoDispatched /\ ~j.chunk[c].undoDispatched
  BY JobFields, RecordCheckpointWritten
<1> HIDE DEF r
<1>3. /\ g.status = j.status /\ g.resumeState = j.resumeState /\ SameConsent(g, j)
      /\ \A d \in Chunks : g.chunk[d] = IF d = c THEN r ELSE j.chunk[d]
  BY DEF Jobs, SameConsent
<1> HIDE DEF g, c
<1>4. Follows(j, g)
  BY <1>2, <1>3 DEF Follows, Continues, Grown, SameConsent
<1>5. ASSUME NEW d \in Chunks PROVE ChunkLedger(g, d)
  <2>1. ChunkLedger(j, d)
    BY DEF JobLedger
  <2> QED BY <1>2, <1>3, <2>1 DEF ChunkLedger, SameConsent
<1>6. RestorePausedState(g).status = RestorePausedState(j).status
  BY <1>1, <1>3, RestoredStatus
<1>7. \A d \in Chunks : /\ g.chunk[d].status = j.chunk[d].status /\ g.chunk[d].safe = j.chunk[d].safe
                        /\ g.chunk[d].moved = j.chunk[d].moved
                        /\ g.chunk[d].restored = j.chunk[d].restored
  BY <1>2, <1>3
<1>8. JobPhase(g)
  BY <1>3, <1>6, <1>7 DEF JobLedger, JobPhase, SameConsent
<1> QED BY <1>1, <1>4, <1>5, <1>8 DEF JobLedger

LEMMA TrashSentLedger ==
  ASSUME NEW j \in Jobs, JobLedger(j), j.restoreMode = "none"
  PROVE  JobLedger(TrashSent(j)) /\ Follows(j, TrashSent(j))
<1> DEFINE c == ActiveSensitiveChunk(j)
           r == [j.chunk[c] EXCEPT !.status = "verifying"]
           g == [j EXCEPT !.status = "verifying", !.chunk = [j.chunk EXCEPT ![c] = r]]
<1>1. TrashSent(j) = g /\ g \in Jobs
  BY TrashSentType DEF TrashSent
<1>2. c \in Chunks => SameLedger(r, j.chunk[c]) /\ r.status = "verifying" /\ r.moved = {}
  BY JobFields, RecordStatusWritten, ActiveChunkEmpty DEF SameLedger
<1> HIDE DEF c, r
<1>3. /\ g.status = "verifying" /\ SameConsent(g, j)
      /\ \A d \in Chunks : g.chunk[d] = IF d = c THEN r ELSE j.chunk[d]
  BY DEF Jobs, SameConsent
<1> HIDE DEF g
<1>4. \A d \in Chunks : SameLedger(g.chunk[d], j.chunk[d])
  BY <1>2, <1>3 DEF SameLedger
<1>5. \A d \in Chunks : g.chunk[d].status = j.chunk[d].status \/ StatusFits(g.chunk[d])
  BY <1>2, <1>3 DEF StatusFits, NotBegun
<1>6. JobPhase(g)
  BY <1>1, <1>3, UnpausedPhase, WorkingPhase DEF SameConsent
<1> QED BY <1>1, <1>3, <1>4, <1>5, <1>6, LedgersKept DEF JobLedger

LEMMA VerifyTrashLedger ==
  ASSUME NEW j \in Jobs, JobLedger(j), j.restoreMode = "none",
         ActiveSensitiveChunk(j) \in Chunks,
         NEW v \in SUBSET Messages, NEW f, NEW u,
         v \subseteq j.chunk[ActiveSensitiveChunk(j)].safe, v \subseteq Happened("trash") \cup trash,
         u = {} /\ f = {} => v = j.chunk[ActiveSensitiveChunk(j)].safe
  PROVE  JobLedger(VerifyTrash(j, v, f, u)) /\ Follows(j, VerifyTrash(j, v, f, u))
<1> DEFINE c == ActiveSensitiveChunk(j)
           t == VerificationStatus(f, u, "complete")
           s == VerificationStatus(f, u, "chunk_complete")
           r == [j.chunk[c] EXCEPT !.status = t, !.moved = v]
           g == [j EXCEPT !.status = s, !.chunk = [j.chunk EXCEPT ![c] = r]]
<1>1. VerifyTrash(j, v, f, u) = g /\ g \in Jobs
  <2>1. VerifyTrash(j, v, f, u) \in Jobs
    BY VerifyTrashType
  <2> QED BY <2>1 DEF VerifyTrash
<1>2. /\ t \in {"complete", "partial", "uncertain"} /\ (t = "complete" => u = {} /\ f = {})
      /\ s \in {"chunk_complete", "partial", "uncertain"}
  BY DEF VerificationStatus
<1> HIDE DEF t, s
<1>3. /\ r.status = t /\ r.safe = j.chunk[c].safe /\ r.moved = v
      /\ r.restored = j.chunk[c].restored /\ r.checkpoint = j.chunk[c].checkpoint
      /\ r.dispatched = j.chunk[c].dispatched /\ r.undoCheckpoint = j.chunk[c].undoCheckpoint
      /\ r.undoDispatched = j.chunk[c].undoDispatched
  BY JobFields, RecordMovedWritten
<1>4. j.chunk[c].moved = {} /\ j.chunk[c].restored = {} /\ c \in Chunks
      /\ v \subseteq j.chunk[c].safe /\ (t = "complete" => v = j.chunk[c].safe)
  BY <1>2, ActiveChunkEmpty
<1> HIDE DEF r
<1>5. /\ g.status = s /\ SameConsent(g, j)
      /\ \A d \in Chunks : g.chunk[d] = IF d = c THEN r ELSE j.chunk[d]
  BY DEF Jobs, SameConsent
<1> HIDE DEF g, c
<1>6. Follows(j, g)
  BY <1>3, <1>4, <1>5 DEF Follows, Continues, Grown, SameConsent
<1>7. ASSUME NEW d \in Chunks PROVE ChunkLedger(g, d)
  <2>1. ChunkLedger(j, d)
    BY DEF JobLedger
  <2> QED BY <1>2, <1>3, <1>4, <1>5, <2>1 DEF ChunkLedger, SameConsent, NotBegun
<1>8. JobPhase(g)
  BY <1>1, <1>2, <1>5, UnpausedPhase, WorkingPhase DEF SameConsent
<1> QED BY <1>1, <1>6, <1>7, <1>8 DEF JobLedger

LEMMA AdvanceChunkLedger ==
  ASSUME NEW j \in Jobs, JobLedger(j), j.restoreMode = "none"
  PROVE  JobLedger(AdvanceChunk(j)) /\ Follows(j, AdvanceChunk(j))
<1> DEFINE n == First(ChunksIn(j, {"pending"}))
           r == [j.chunk[n] EXCEPT !.status = "safety_checking"]
           all == \A c \in Chunks : j.chunk[c].status = "complete"
           undo == all /\ \E c \in Chunks : j.chunk[c].moved # {}
           s == IF all THEN "complete" ELSE "partial"
           g == [j EXCEPT !.status = "safety_checking", !.chunk = [j.chunk EXCEPT ![n] = r]]
           h == [j EXCEPT !.status = s, !.undoAvailable = undo]
<1>1. \/ n # 0 /\ AdvanceChunk(j) = g
      \/ AdvanceChunk(j) = h
  BY DEF AdvanceChunk
<1>2. AdvanceChunk(j) \in Jobs
  BY AdvanceChunkType
<1>3. CASE n # 0 /\ AdvanceChunk(j) = g
  <2>1. n \in Chunks /\ j.chunk[n].status = "pending"
    BY <1>3, FirstFound DEF ChunksIn
  <2>2. SameLedger(r, j.chunk[n]) /\ r.status = "safety_checking"
    BY <2>1, JobFields, RecordStatusWritten
  <2>3. ~j.chunk[n].dispatched /\ j.chunk[n].moved = {}
    BY <2>1 DEF JobLedger, ChunkLedger, NotBegun
  <2> HIDE DEF n, r
  <2>4. /\ g.status = "safety_checking" /\ SameConsent(g, j)
        /\ \A d \in Chunks : g.chunk[d] = IF d = n THEN r ELSE j.chunk[d]
    BY DEF Jobs, SameConsent
  <2> HIDE DEF g
  <2>5. \A d \in Chunks : SameLedger(g.chunk[d], j.chunk[d])
    BY <2>2, <2>4 DEF SameLedger
  <2>6. StatusFits(r)
    BY <2>2, <2>3 DEF StatusFits, SameLedger
  <2>7. JobPhase(g)
    BY <1>2, <1>3, <2>4, UnpausedPhase, WorkingPhase DEF SameConsent
  <2> QED BY <1>3, <2>4, <2>5, <2>6, <2>7, LedgersKept DEF JobLedger
<1>4. CASE AdvanceChunk(j) = h
  <2>1. s \in {"complete", "partial"} /\ (s = "complete" => all)
    OBVIOUS
  <2> HIDE DEF s, undo
  <2>2. h.status = s /\ SameConsent(h, j) /\ h.chunk = j.chunk
    BY DEF Jobs, SameConsent
  <2> HIDE DEF h
  <2>3. Follows(j, h) /\ \A c \in Chunks : ChunkLedger(h, c)
    BY <2>2, LedgersKept DEF JobLedger, SameLedger
  <2>4. RestorePausedState(h).status = s
    BY <1>2, <1>4, <2>1, <2>2, UnpausedPhase
  <2>5. JobPhase(h)
    BY <2>1, <2>2, <2>4 DEF JobPhase, SameConsent
  <2> QED BY <1>4, <2>3, <2>5 DEF JobLedger
<1> QED BY <1>1, <1>3, <1>4

\* A restore's verification closes the chunk's ledger one way or the other.
LEMMA VerifyUndoLedger ==
  ASSUME NEW j \in Jobs, JobLedger(j), j.restoreMode # "none",
         RestorePausedState(j).status = "undoing", ActiveUndoChunk(j) \in Chunks,
         NEW v \in SUBSET Messages, NEW f, NEW u,
         v \subseteq Restorable(j.chunk[ActiveUndoChunk(j)]),
         v \cap trash \subseteq Happened("undo"),
         u = {} /\ f = {} => v = Restorable(j.chunk[ActiveUndoChunk(j)])
  PROVE  JobLedger(VerifyUndo(j, v, f, u)) /\ Follows(j, VerifyUndo(j, v, f, u))
<1> DEFINE c == ActiveUndoChunk(j)
           t == VerificationStatus(f, u, "undo_complete")
           r == [j.chunk[c] EXCEPT !.restored = v, !.status = t]
           after == [j EXCEPT !.chunk = [j.chunk EXCEPT ![c] = r]]
           s == VerificationStatus(f, u, IF ActiveUndoChunk(after) # 0 THEN "undoing"
                                         ELSE "undo_complete")
           g == [after EXCEPT !.status = s]
<1>1. VerifyUndo(j, v, f, u) = g /\ g \in Jobs
  <2>1. VerifyUndo(j, v, f, u) \in Jobs
    BY VerifyUndoType
  <2> QED BY <2>1 DEF VerifyUndo
<1>2. /\ t \in {"undo_complete", "partial", "uncertain"}
      /\ s \in {"partial", "uncertain", "undoing", "undo_complete"}
      /\ s \in {"undoing", "undo_complete"} => u = {} /\ f = {}
      /\ s = "undo_complete" => ActiveUndoChunk(after) = 0
  BY DEF VerificationStatus
<1> HIDE DEF t, s
<1>3. /\ r.status = t /\ r.safe = j.chunk[c].safe /\ r.moved = j.chunk[c].moved
      /\ r.restored = v /\ r.checkpoint = j.chunk[c].checkpoint
      /\ r.dispatched = j.chunk[c].dispatched /\ r.undoCheckpoint = j.chunk[c].undoCheckpoint
      /\ r.undoDispatched = j.chunk[c].undoDispatched
  BY JobFields, RecordRestoredWritten
<1>4. c \in Chunks /\ j.chunk[c].restored = {}
  <2>1. c # 0
    BY ChunksAssumption DEF Chunks
  <2>2. c \in {d \in Chunks : Restorable(j.chunk[d]) # {} /\ j.chunk[d].restored = {}}
    BY <2>1, FirstFound DEF ActiveUndoChunk
  <2> QED BY <2>2
<1>5. v \subseteq j.chunk[c].moved /\ (u = {} /\ f = {} => v = j.chunk[c].moved)
  BY <1>4 DEF Restorable
<1> HIDE DEF r
<1>6. /\ after.chunk \in [Chunks -> ChunkRecords] /\ g.chunk = after.chunk
      /\ g.status = s /\ SameConsent(g, j)
      /\ \A d \in Chunks : g.chunk[d] = IF d = c THEN r ELSE j.chunk[d]
  <2>1. /\ g.chunk = after.chunk /\ g.status = s /\ SameConsent(g, j)
        /\ \A d \in Chunks : g.chunk[d] = IF d = c THEN r ELSE j.chunk[d]
    BY DEF Jobs, SameConsent
  <2> QED BY <1>1, <2>1, JobFields
<1>7. s = "undo_complete" => \A d \in Chunks : Restorable(g.chunk[d]) = {} \/ g.chunk[d].restored # {}
  <2> DEFINE S == {d \in Chunks : Restorable(after.chunk[d]) # {} /\ after.chunk[d].restored = {}}
  <2>1. ActiveUndoChunk(after) = First(S) /\ S \subseteq Chunks
    BY DEF ActiveUndoChunk
  <2> HIDE DEF S
  <2>2. First(S) = 0 => S = {}
    BY <2>1, FirstFound, ChunksAssumption DEF Chunks
  <2>3. s = "undo_complete" => S = {}
    BY <1>2, <2>1, <2>2
  <2> QED BY <1>6, <2>3 DEF S
<1> HIDE DEF g, c, after
<1>8. /\ Follows(j, g)
      /\ \A d \in Chunks : /\ g.chunk[d].restored = IF d = c THEN v ELSE j.chunk[d].restored
                           /\ g.chunk[d].moved = j.chunk[d].moved
  BY <1>3, <1>4, <1>5, <1>6 DEF Follows, Continues, Grown, SameConsent
<1>9. ASSUME NEW d \in Chunks PROVE ChunkLedger(g, d)
  <2>1. ChunkLedger(j, d)
    BY DEF JobLedger
  <2> QED BY <1>2, <1>3, <1>4, <1>5, <1>6, <2>1 DEF ChunkLedger, SameConsent, NotBegun
<1>10. JobPhase(g)
  <2>1. RestorePausedState(g).status = s
    BY <1>1, <1>2, <1>6, UnpausedPhase
  <2>2. \A d \in Chunks : j.chunk[d].restored \in {{}, j.chunk[d].moved}
    BY DEF JobLedger, JobPhase
  <2>3. s \in {"undoing", "undo_complete"} =>
          \A d \in Chunks : g.chunk[d].restored \in {{}, g.chunk[d].moved}
    BY <1>2, <1>5, <1>8, <2>2
  <2>4. s = "undo_complete" => \A d \in Chunks : g.chunk[d].restored = g.chunk[d].moved
    BY <1>7, <2>3 DEF Restorable
  <2>5. j.restoreMode = "undo" => \A d \in Chunks : j.chunk[d].moved = j.chunk[d].safe
    BY DEF JobLedger, JobPhase
  <2>6. g.restoreMode = "undo" => \A d \in Chunks : g.chunk[d].moved = g.chunk[d].safe
    BY <1>3, <1>6, <2>5 DEF SameConsent
  <2>7. g.restoreMode # "none"
    BY <1>6 DEF SameConsent
  <2> QED BY <1>2, <2>1, <2>3, <2>4, <2>6, <2>7 DEF JobPhase
<1> QED BY <1>1, <1>8, <1>9, <1>10 DEF JobLedger

\* A quota pause keeps the ledgers and resumes in the phase it came from.
LEMMA PausedLedger ==
  ASSUME NEW j \in Jobs, JobLedger(j), NEW op,
         j.restoreMode = "none" <=> op \notin UndoOps,
         RestorePausedState(j).status = "undoing" <=> op \in UndoOps,
         op = "preflight_safety" => ~j.confirmed /\ \A c \in Chunks : ~j.chunk[c].dispatched,
         op = "safety_check" => WorkChunk(j, op) \in Chunks
  PROVE  JobLedger(Paused(j, op)) /\ Follows(j, Paused(j, op))
<1> DEFINE open == IF op \in {"preflight_safety", "safety_check"} THEN WorkChunk(j, op) ELSE 0
           r(c) == IF c = open THEN [j.chunk[c] EXCEPT !.status = "safety_checking"]
                   ELSE j.chunk[c]
           f == [c \in Chunks |-> r(c)]
           g == [j EXCEPT !.status = "paused", !.resumeState = ResumeStateFor(op), !.chunk = f]
<1>1. Paused(j, op) = g /\ g \in Jobs
  BY PausedType DEF Paused
<1>2. open \in Chunks => ~j.chunk[open].dispatched /\ j.chunk[open].moved = {}
  <2>1. CASE op = "preflight_safety"
    BY <2>1 DEF JobLedger, ChunkLedger
  <2>2. CASE op = "safety_check"
    <3>1. open = SafetyChunk(j)
      BY <2>2 DEF WorkChunk, TrashOps, UndoOps
    <3> QED BY <2>2, <3>1, SafetyChunkOpen DEF JobLedger, ChunkLedger, NotBegun
  <2>3. CASE op \notin {"preflight_safety", "safety_check"}
    BY <2>3, ChunksAssumption DEF Chunks
  <2> QED BY <2>1, <2>2, <2>3
<1>3. \A c \in Chunks : /\ SameLedger(r(c), j.chunk[c])
                        /\ r(c).status = IF c = open THEN "safety_checking" ELSE j.chunk[c].status
  BY JobFields, RecordStatusWritten DEF SameLedger
<1>4. \A c \in Chunks : f[c] = r(c)
  OBVIOUS
<1> HIDE DEF r, f, open
<1>5. /\ g.status = "paused" /\ g.resumeState = ResumeStateFor(op)
      /\ SameConsent(g, j) /\ g.chunk = f
  BY DEF Jobs, SameConsent
<1> HIDE DEF g
<1>6. \A c \in Chunks : SameLedger(g.chunk[c], j.chunk[c])
  BY <1>3, <1>4, <1>5
<1>7. \A c \in Chunks : g.chunk[c].status = j.chunk[c].status \/ StatusFits(g.chunk[c])
  BY <1>2, <1>3, <1>4, <1>5 DEF StatusFits, SameLedger
<1>8. /\ ResumeStateFor(op) \in {"safety_checking", "mutating", "verifying", "undoing"}
      /\ ResumeStateFor(op) = "undoing" <=> op \in UndoOps
  BY DEF ResumeStateFor, UndoOps
<1>9. RestorePausedState(g).status = ResumeStateFor(op)
  BY <1>1, <1>5, <1>8, RestoredStatus
<1>10. JobPhase(g)
  <2>1. CASE op \in UndoOps
    <3>1. /\ \A c \in Chunks : j.chunk[c].restored \in {{}, j.chunk[c].moved}
          /\ j.restoreMode = "undo" => \A c \in Chunks : j.chunk[c].moved = j.chunk[c].safe
      BY <2>1 DEF JobLedger, JobPhase
    <3> QED BY <1>5, <1>6, <1>8, <1>9, <2>1, <3>1 DEF JobPhase, SameConsent, SameLedger
  <2>2. CASE op \notin UndoOps
    BY <1>1, <1>5, <1>8, <1>9, <2>2, WorkingPhase DEF SameConsent
  <2> QED BY <2>1, <2>2
<1> QED BY <1>1, <1>5, <1>6, <1>7, <1>10, LedgersKept DEF JobLedger

\* The marker is written where its checkpoint is.
LEMMA MarkDispatchLedger ==
  ASSUME NEW j \in Jobs, JobLedger(j), NEW op \in Dispatches,
         op = "dispatch_trash" =>
           LET c == MutatingChunk(j) IN
           /\ j.restoreMode = "none" /\ c \in Chunks
           /\ j.chunk[c].status = "mutating" /\ j.chunk[c].checkpoint # 0,
         op = "dispatch_undo" =>
           LET c == ActiveUndoChunk(j) IN
           j.restoreMode # "none" /\ c \in Chunks /\ j.chunk[c].undoCheckpoint # 0
  PROVE  LET g == MarkDispatch(j, op) IN
         /\ JobLedger(g) /\ Follows(j, g)
         /\ RestorePausedState(g).status = RestorePausedState(j).status
         /\ SameConsent(g, j)
         /\ \A d \in Chunks :
              /\ g.chunk[d].safe = j.chunk[d].safe
              /\ g.chunk[d].moved = j.chunk[d].moved
              /\ g.chunk[d].restored = j.chunk[d].restored
              /\ g.chunk[d].checkpoint = j.chunk[d].checkpoint
              /\ g.chunk[d].undoCheckpoint = j.chunk[d].undoCheckpoint
<1> DEFINE g == MarkDispatch(j, op)
           c == IF op = "dispatch_trash" THEN MutatingChunk(j) ELSE ActiveUndoChunk(j)
           r == IF op = "dispatch_trash" THEN [j.chunk[c] EXCEPT !.dispatched = TRUE]
                ELSE [j.chunk[c] EXCEPT !.undoDispatched = TRUE]
           h == [j EXCEPT !.chunk = [j.chunk EXCEPT ![c] = r]]
<1>1. g = h /\ g \in Jobs
  <2>1. g = h
    BY DEF MarkDispatch
  <2> QED BY <2>1, MarkDispatchType
<1>2. /\ r.status = j.chunk[c].status /\ r.safe = j.chunk[c].safe /\ r.moved = j.chunk[c].moved
      /\ r.restored = j.chunk[c].restored /\ r.checkpoint = j.chunk[c].checkpoint
      /\ r.undoCheckpoint = j.chunk[c].undoCheckpoint
      /\ IF op = "dispatch_trash" THEN r.undoDispatched = j.chunk[c].undoDispatched /\ r.dispatched
         ELSE r.dispatched = j.chunk[c].dispatched /\ r.undoDispatched
  <2>1. j.chunk[c] \in ChunkRecords
    BY JobFields DEF Dispatches
  <2> QED BY <2>1, RecordMarkWritten
<1>3. /\ c \in Chunks
      /\ op = "dispatch_trash" => /\ j.restoreMode = "none" /\ j.chunk[c].status = "mutating"
                                  /\ j.chunk[c].checkpoint # 0
      /\ op # "dispatch_trash" => j.restoreMode # "none" /\ j.chunk[c].undoCheckpoint # 0
  BY DEF Dispatches
<1> HIDE DEF r
<1>4. /\ h.status = j.status /\ h.resumeState = j.resumeState /\ SameConsent(h, j)
      /\ \A d \in Chunks : h.chunk[d] = IF d = c THEN r ELSE j.chunk[d]
  BY DEF Jobs, SameConsent
<1> HIDE DEF g, h, c
<1>5. RestorePausedState(g).status = RestorePausedState(j).status
  BY <1>1, <1>4, RestoredStatus
<1>6. \A d \in Chunks :
              /\ g.chunk[d].status = j.chunk[d].status
              /\ g.chunk[d].safe = j.chunk[d].safe
              /\ g.chunk[d].moved = j.chunk[d].moved
              /\ g.chunk[d].restored = j.chunk[d].restored
              /\ g.chunk[d].checkpoint = j.chunk[d].checkpoint
              /\ g.chunk[d].undoCheckpoint = j.chunk[d].undoCheckpoint
  BY <1>1, <1>2, <1>4
<1>7. Follows(j, g)
  BY <1>1, <1>2, <1>3, <1>4, <1>6 DEF Follows, Continues, Grown, SameConsent
<1>8. ASSUME NEW d \in Chunks PROVE ChunkLedger(g, d)
  <2>1. ChunkLedger(j, d)
    BY DEF JobLedger
  <2> QED BY <1>1, <1>2, <1>3, <1>4, <2>1 DEF ChunkLedger, SameConsent, NotBegun
<1>9. JobPhase(g)
  BY <1>1, <1>4, <1>5, <1>6 DEF JobLedger, JobPhase, SameConsent
<1> QED BY <1>1, <1>4, <1>5, <1>6, <1>7, <1>8, <1>9 DEF JobLedger, g

\* Confirmation finds every ledger empty and leaves it so.
LEMMA PrepareConfirmedLedger ==
  ASSUME NEW j \in Jobs, JobInv(j), JobLedger(j), ~j.confirmed, j.restoreMode = "none"
  PROVE  JobLedger(PrepareConfirmed(j)) /\ Follows(j, PrepareConfirmed(j))
<1> DEFINE r(c) == [j.chunk[c] EXCEPT
                      !.status = IF c = 1 THEN "safety_checking" ELSE "pending",
                      !.safe = {}, !.moved = {}, !.checkpoint = 0, !.dispatched = FALSE]
           f == [c \in Chunks |-> r(c)]
           g == [j EXCEPT !.status = "safety_checking", !.confirmed = TRUE,
                          !.undoAvailable = FALSE, !.chunk = f]
<1>1. PrepareConfirmed(j) = g /\ g \in Jobs
  BY PrepareConfirmedType DEF PrepareConfirmed
<1>2. \A c \in Chunks : /\ r(c).status \in {"safety_checking", "pending"}
                        /\ r(c).safe = {} /\ r(c).moved = {} /\ r(c).checkpoint = 0
                        /\ ~r(c).dispatched /\ r(c).restored = j.chunk[c].restored
                        /\ r(c).undoCheckpoint = j.chunk[c].undoCheckpoint
                        /\ r(c).undoDispatched = j.chunk[c].undoDispatched
  BY JobFields DEF ChunkRecords
<1>3. \A c \in Chunks : f[c] = r(c)
  OBVIOUS
<1>4. \A c \in Chunks : j.chunk[c].restored = {} /\ ~j.chunk[c].undoDispatched
  BY DEF JobLedger, ChunkLedger
<1> HIDE DEF r, f
<1>5. g.status = "safety_checking" /\ g.restoreMode = "none" /\ g.confirmed /\ g.chunk = f
  BY DEF Jobs
<1> HIDE DEF g
<1>6. Follows(j, g)
  <2>1. \A c \in Chunks : ~j.chunk[c].dispatched
    BY DEF JobInv
  <2> QED BY <1>2, <1>3, <1>4, <1>5, <2>1 DEF Follows, Continues, Grown
<1>7. ASSUME NEW c \in Chunks PROVE ChunkLedger(g, c)
  BY <1>2, <1>3, <1>4, <1>5 DEF ChunkLedger, NotBegun
<1>8. JobPhase(g)
  BY <1>1, <1>5, UnpausedPhase, WorkingPhase
<1> QED BY <1>1, <1>6, <1>7, <1>8 DEF JobLedger

\* A restore begins with every ledger as it is and nothing restored.
LEMMA BeginUndoLedger ==
  ASSUME NEW j \in Jobs, JobLedger(j), RestoreEligibility(j) # "none"
  PROVE  JobLedger(BeginUndo(j)) /\ Follows(j, BeginUndo(j))
<1> DEFINE begins(c) == /\ Restorable(j.chunk[c]) # {}
                        /\ j.chunk[c].restored = {}
                        /\ ~j.chunk[c].undoDispatched
           r(c) == IF begins(c) THEN [j.chunk[c] EXCEPT !.status = "undoing"] ELSE j.chunk[c]
           f == [c \in Chunks |-> r(c)]
           mode == RestoreEligibility(j)
           g == [j EXCEPT !.status = "undoing", !.restoreMode = mode,
                          !.undoAvailable = FALSE, !.resumeState = "none", !.chunk = f]
<1>1. BeginUndo(j) = g /\ g \in Jobs
  BY BeginUndoType DEF BeginUndo
<1>2. \A c \in Chunks : /\ SameLedger(r(c), j.chunk[c])
                        /\ r(c).status = "undoing" \/ r(c).status = j.chunk[c].status
  <2> HIDE DEF begins
  <2> QED BY JobFields, RecordStatusWritten DEF SameLedger
<1>3. \A c \in Chunks : f[c] = r(c)
  OBVIOUS
<1>4. /\ mode = "undo" => \A c \in Chunks : j.chunk[c].moved = j.chunk[c].safe
      /\ j.restoreMode = "none"
  <2>1. j.status = "complete" => j.restoreMode = "none"
    <3>1. j.status = "complete" => RestorePausedState(j).status = "complete"
      BY RestoredStatus
    <3> QED BY <3>1, CleanupPhase
  <2>2. mode = "undo" => HasCompleteLedger(j)
    BY DEF RestoreEligibility
  <2> QED BY <2>1, <2>2 DEF RestoreEligibility, HasCompleteLedger
<1> HIDE DEF r, f, mode
<1>5. /\ g.status = "undoing" /\ g.restoreMode = mode /\ g.resumeState = "none"
      /\ g.confirmed = j.confirmed /\ g.chunk = f
  BY DEF Jobs
<1> HIDE DEF g
<1>6. \A c \in Chunks : SameLedger(g.chunk[c], j.chunk[c])
  BY <1>2, <1>3, <1>5
<1>7. mode # "none"
  BY DEF mode
<1>8. Follows(j, g)
  BY <1>4, <1>5, <1>6, <1>7 DEF Follows, Continues, Grown, SameLedger
<1>9. ASSUME NEW c \in Chunks PROVE ChunkLedger(g, c)
  <2>1. ChunkLedger(j, c) /\ SameLedger(g.chunk[c], j.chunk[c])
    BY <1>6 DEF JobLedger
  <2>2. g.chunk[c].status = "undoing" \/ g.chunk[c].status = j.chunk[c].status
    BY <1>2, <1>3, <1>5
  <2> QED BY <1>5, <1>7, <2>1, <2>2 DEF ChunkLedger, SameLedger, NotBegun
<1>10. JobPhase(g)
  <2>1. RestorePausedState(g).status = "undoing"
    BY <1>1, <1>5, UnpausedPhase
  <2>2. \A c \in Chunks : j.chunk[c].restored = {}
    BY <1>4 DEF JobLedger, ChunkLedger
  <2> QED BY <1>4, <1>5, <1>6, <1>7, <2>1, <2>2 DEF JobPhase, SameLedger
<1> QED BY <1>1, <1>8, <1>9, <1>10 DEF JobLedger

LEMMA AcceptedLedger == JobLedger(AcceptedJob)
<1>1. \A c \in Chunks : AcceptedJob.chunk[c] = PendingChunk
  BY DEF AcceptedJob
<1>2. /\ AcceptedJob.restoreMode = "none" /\ AcceptedJob.status = "created"
  BY DEF AcceptedJob
<1>3. /\ PendingChunk.safe = {} /\ PendingChunk.moved = {} /\ PendingChunk.restored = {}
      /\ ~PendingChunk.dispatched /\ ~PendingChunk.undoDispatched
      /\ PendingChunk.checkpoint = 0 /\ PendingChunk.undoCheckpoint = 0
      /\ PendingChunk.status = "pending"
  BY DEF PendingChunk
<1>4. JobPhase(AcceptedJob)
  BY <1>2, AcceptedJobType, UnpausedPhase, WorkingPhase
<1>5. \A c \in Chunks : ChunkLedger(AcceptedJob, c)
  BY <1>1, <1>3 DEF ChunkLedger
<1> QED BY <1>4, <1>5 DEF JobLedger

-----------------------------------------------------------------------------
(* What the planner's and the executor's steps make of the ledgers.         *)

\* The planner sends a cleanup's operations to a job being cleaned up and a
\* restore's to one being restored, checkpoints before it marks and marks
\* after the checkpoint.
LEMMA PlannedPhase ==
  ASSUME NEW j \in Jobs, JobInv(j), NEW mode, NEW wait
  PROVE  LET op == Plan(j, mode, wait)
             status == RestorePausedState(j).status
             c == WorkChunk(j, op)
         IN  /\ op \in TrashOps => status \in {"mutating", "verifying"}
             /\ op \in UndoOps => status = "undoing"
             /\ op = "checkpoint_trash" /\ c \in Chunks => ~j.chunk[c].dispatched
             /\ op = "checkpoint_undo" /\ c \in Chunks => ~j.chunk[c].undoDispatched
             /\ op = "dispatch_trash" => /\ j.chunk[MutatingChunk(j)].status = "mutating"
                                         /\ j.chunk[MutatingChunk(j)].checkpoint # 0
             /\ op = "dispatch_undo" => j.chunk[ActiveUndoChunk(j)].undoCheckpoint # 0
<1> DEFINE r == RestorePausedState(j)
           op == Plan(j, mode, wait)
<1>1. r.chunk = j.chunk
  BY OpenedKeepsChunks
<1>2. MutatingChunk(r) = MutatingChunk(j) /\ ActiveUndoChunk(r) = ActiveUndoChunk(j)
  BY <1>1 DEF MutatingChunk, ActiveUndoChunk, ChunksIn
<1>3. op \in TrashOps \cup UndoOps => op \in {PlanUndo(r), PlanCleanup(r)}
  BY DEF Plan, TrashOps, UndoOps
<1>4. /\ PlanUndo(r) \notin TrashOps
      /\ PlanUndo(r) \in UndoOps => r.status = "undoing"
      /\ PlanUndo(r) = "checkpoint_undo" => ~r.chunk[ActiveUndoChunk(r)].undoDispatched
      /\ PlanUndo(r) = "dispatch_undo" => r.chunk[ActiveUndoChunk(r)].undoCheckpoint # 0
  BY DEF PlanUndo, TrashOps, UndoOps
<1>5. /\ PlanTrash(r) \notin UndoOps
      /\ PlanTrash(r) = "checkpoint_trash" =>
           MutatingChunk(r) # 0 /\ ~r.chunk[MutatingChunk(r)].dispatched
      /\ PlanTrash(r) = "dispatch_trash" =>
           MutatingChunk(r) # 0 /\ r.chunk[MutatingChunk(r)].checkpoint # 0
  BY DEF PlanTrash, UndoOps
<1>6. /\ PlanCleanup(r) \notin UndoOps
      /\ PlanCleanup(r) \in TrashOps => r.status \in {"mutating", "verifying"}
      /\ PlanCleanup(r) \in {"checkpoint_trash", "dispatch_trash"} => PlanCleanup(r) = PlanTrash(r)
  BY <1>5 DEF PlanCleanup, TrashOps, UndoOps
<1>7. MutatingChunk(j) # 0 => /\ j.chunk[MutatingChunk(j)].status = "mutating"
                              /\ ActiveSensitiveChunk(j) = MutatingChunk(j)
  <2>1. MutatingChunk(j) # 0 => MutatingChunk(j) \in ChunksIn(j, {"mutating"})
    BY FirstFound DEF MutatingChunk, ChunksIn
  <2>2. MutatingChunk(j) # 0 => MutatingChunk(j) \in Sensitive(j)
    BY <2>1 DEF Sensitive, ChunksIn
  <2>3. MutatingChunk(j) # 0 => ActiveSensitiveChunk(j) \in Sensitive(j)
    BY <2>2, FirstFound DEF ActiveSensitiveChunk, Sensitive, ChunksIn
  <2> QED BY <2>1, <2>2, <2>3 DEF JobInv, ChunksIn
<1>8. /\ WorkChunk(j, "checkpoint_trash") = ActiveSensitiveChunk(j)
      /\ WorkChunk(j, "checkpoint_undo") = ActiveUndoChunk(j)
  BY DEF WorkChunk, TrashOps, UndoOps
<1>9. op \in TrashOps => r.status \in {"mutating", "verifying"}
  BY <1>3, <1>4, <1>6
<1>10. op \in UndoOps => r.status = "undoing" /\ op = PlanUndo(r)
  BY <1>3, <1>4, <1>6
<1>11. op \in {"checkpoint_trash", "dispatch_trash"} => op = PlanTrash(r)
  BY <1>3, <1>4, <1>6 DEF TrashOps
<1>12. op = "checkpoint_trash" => ~j.chunk[WorkChunk(j, op)].dispatched
  BY <1>1, <1>2, <1>5, <1>7, <1>8, <1>11
<1>13. op = "checkpoint_undo" => ~j.chunk[WorkChunk(j, op)].undoDispatched
  BY <1>1, <1>2, <1>4, <1>8, <1>10 DEF UndoOps
<1>14. op = "dispatch_trash" => /\ j.chunk[MutatingChunk(j)].status = "mutating"
                                /\ j.chunk[MutatingChunk(j)].checkpoint # 0
  BY <1>1, <1>2, <1>5, <1>7, <1>11
<1>15. op = "dispatch_undo" => j.chunk[ActiveUndoChunk(j)].undoCheckpoint # 0
  BY <1>1, <1>2, <1>4, <1>10 DEF UndoOps
<1> QED BY <1>9, <1>10, <1>12, <1>13, <1>14, <1>15

\* What a step knows of the job its operation works on.
LEMMA WorkingFacts ==
  ASSUME TypeOK, DispatchInv, JobsLedger, NEW w \in Workers,
         worker[w].pc \in {"executing", "fenced", "awaiting"}
  PROVE  LET st == worker[w]
             h == Opened(st.job)
             status == RestorePausedState(st.job).status
         IN
         /\ st.job \in Jobs /\ JobInv(st.job) /\ JobLedger(st.job)
         /\ h \in Jobs /\ JobInv(h) /\ JobLedger(h) /\ h.chunk = st.job.chunk
         /\ h.confirmed = st.job.confirmed /\ h.restoreMode = st.job.restoreMode
         /\ RestorePausedState(h).status = status
         /\ st.op \in TrashOps => status \in {"mutating", "verifying"} /\ st.job.restoreMode = "none"
         /\ st.op \in UndoOps => status = "undoing" /\ st.job.restoreMode # "none"
         /\ st.pc \in {"executing", "fenced"} =>
              /\ st.op = "preflight_safety" => ~st.job.confirmed
              /\ st.op = "safety_check" => st.job.confirmed
              /\ st.op \in {"preflight_safety", "safety_check", "advance_chunk"} =>
                   /\ status \in {"created", "safety_checking", "chunk_complete"}
                   /\ st.job.restoreMode = "none"
<1> DEFINE st == worker[w]
           h == Opened(st.job)
           status == RestorePausedState(st.job).status
<1>1. st.job \in Jobs /\ JobInv(st.job) /\ JobLedger(st.job) /\ OperationPhase(st)
  BY StepFields DEF TypeOK, DispatchInv, JobsOK, JobsLedger
<1>2. /\ h \in Jobs /\ JobInv(h) /\ JobLedger(h) /\ h.chunk = st.job.chunk
      /\ h.confirmed = st.job.confirmed /\ h.restoreMode = st.job.restoreMode
      /\ RestorePausedState(h).status = status
  BY <1>1, OpenedLedger, OpenedInv DEF SameConsent
<1>3. /\ st.op \in TrashOps => status \in {"mutating", "verifying"}
      /\ st.op \in UndoOps => status = "undoing"
  BY <1>1 DEF OperationPhase
<1>4. st.pc \in {"executing", "fenced"} =>
        /\ st.op = "preflight_safety" => ~st.job.confirmed /\ status \in {"created", "safety_checking"}
        /\ st.op = "safety_check" => st.job.confirmed /\ status = "safety_checking"
        /\ st.op = "advance_chunk" => status = "chunk_complete"
  BY DEF DispatchInv, OpsOK
<1>5. status \in {"mutating", "verifying", "created", "safety_checking", "chunk_complete"}
        => st.job.restoreMode = "none"
  BY <1>1, CleanupPhase
<1>6. status = "undoing" => st.job.restoreMode # "none"
  BY <1>1 DEF JobLedger, JobPhase
<1> QED BY <1>1, <1>2, <1>3, <1>4, <1>5, <1>6

LEMMA FollowsOpened ==
  ASSUME NEW j \in Jobs, JobLedger(j), NEW g, NEW h \in {Opened(j), RestorePausedState(j)},
         Follows(h, g)
  PROVE  Follows(j, g)
<1>1. h.chunk = j.chunk /\ SameConsent(h, j)
  BY OpenedLedger
<1> QED BY <1>1 DEF Follows, Continues, Grown, SameConsent

\* A pause of the operation under way.
LEMMA PausedFollows ==
  ASSUME TypeOK, DispatchInv, JobsLedger, NEW w \in Workers,
         worker[w].pc = "executing", worker[w].op # "advance_chunk",
         CanWork(worker[w].job, worker[w].op)
  PROVE  LET g == Paused(RestorePausedState(worker[w].job), worker[w].op) IN
         g \in Jobs /\ JobLedger(g) /\ Follows(worker[w].job, g)
<1> DEFINE st == worker[w]
           r == RestorePausedState(st.job)
           g == Paused(r, st.op)
           status == RestorePausedState(st.job).status
<1>1. /\ st.job \in Jobs /\ JobInv(st.job) /\ JobLedger(st.job)
      /\ st.op \in TrashOps => status \in {"mutating", "verifying"} /\ st.job.restoreMode = "none"
      /\ st.op \in UndoOps => status = "undoing" /\ st.job.restoreMode # "none"
      /\ st.op = "preflight_safety" => ~st.job.confirmed
      /\ st.op \in {"preflight_safety", "safety_check", "advance_chunk"} =>
           /\ status \in {"created", "safety_checking", "chunk_complete"}
           /\ st.job.restoreMode = "none"
  BY WorkingFacts
<1>2. /\ r \in Jobs /\ JobLedger(r) /\ r.chunk = st.job.chunk /\ SameConsent(r, st.job)
      /\ RestorePausedState(r).status = status
  BY <1>1, OpenedLedger
<1>3. WorkChunk(st.job, st.op) # 0
  BY DEF CanWork
<1>4. st.op \in TrashOps \cup UndoOps \cup {"preflight_safety", "safety_check"}
  BY <1>3 DEF WorkChunk
<1>5. st.op = "safety_check" => WorkChunk(r, st.op) \in Chunks
  BY <1>1, <1>3, WorkChunkFound, OpenedKeepsChunks
<1>6. ~st.job.confirmed => \A c \in Chunks : ~st.job.chunk[c].dispatched
  BY <1>1 DEF JobInv
<1>7. /\ r.restoreMode = "none" <=> st.op \notin UndoOps
      /\ status = "undoing" <=> st.op \in UndoOps
  BY <1>1, <1>2, <1>4 DEF SameConsent, UndoOps, TrashOps
<1>8. st.op = "preflight_safety" => ~r.confirmed /\ \A c \in Chunks : ~r.chunk[c].dispatched
  BY <1>1, <1>2, <1>6 DEF SameConsent
<1> HIDE DEF r
<1>9. g \in Jobs /\ JobLedger(g) /\ Follows(r, g)
  BY <1>2, <1>5, <1>7, <1>8, PausedLedger, PausedType
<1> HIDE DEF g
<1> QED BY <1>1, <1>9, FollowsOpened DEF r, g

\* What a verification reports as verified has happened or is as expected.
LEMMA OutcomesKnown ==
  ASSUME NEW ids \in SUBSET Messages, NEW n
  PROVE  /\ \A o \in Outcomes(ids, "trash", n) :
              /\ o.verified \in SUBSET Messages /\ o.verified \subseteq ids
              /\ o.verified \subseteq Happened("trash") \cup trash
              /\ o.uncertain = {} /\ o.failed = {} => o.verified = ids
         /\ \A o \in Outcomes(ids, "undo", n) :
              /\ o.verified \in SUBSET Messages /\ o.verified \subseteq ids
              /\ o.verified \cap trash \subseteq Happened("undo")
              /\ o.uncertain = {} /\ o.failed = {} => o.verified = ids
<1> DEFINE events(kind) == {i \in 1..Len(history) : i >= n /\ history[i].kind = kind}
           seen(kind) == UNION {history[i].ids : i \in events(kind)}
<1>1. \A kind : seen(kind) \subseteq Happened(kind)
  <2>1. \A kind : events(kind) \subseteq Events(kind)
    BY DEF Events
  <2> HIDE DEF events
  <2> QED BY <2>1 DEF Happened
<1>2. ASSUME NEW o \in Outcomes(ids, "trash", n)
      PROVE  /\ o.verified \in SUBSET Messages /\ o.verified \subseteq ids
             /\ o.verified \subseteq Happened("trash") \cup trash
             /\ o.uncertain = {} /\ o.failed = {} => o.verified = ids
  <2>1. /\ o.verified \in SUBSET ids /\ o.verified \subseteq seen("trash") \cup trash
        /\ o.uncertain = ids \ (o.verified \cup o.failed)
    BY DEF Outcomes
  <2> HIDE DEF seen
  <2> QED BY <1>1, <2>1
<1>3. ASSUME NEW o \in Outcomes(ids, "undo", n)
      PROVE  /\ o.verified \in SUBSET Messages /\ o.verified \subseteq ids
             /\ o.verified \cap trash \subseteq Happened("undo")
             /\ o.uncertain = {} /\ o.failed = {} => o.verified = ids
  <2>1. /\ o.verified \in SUBSET ids /\ o.verified \subseteq seen("undo") \cup (Messages \ trash)
        /\ o.uncertain = ids \ (o.verified \cup o.failed)
    BY DEF Outcomes
  <2> HIDE DEF seen
  <2> QED BY <1>1, <2>1
<1> QED BY <1>2, <1>3

\* The executor finishes with a job that follows the one it had, whichever
\* operation and whatever the provider answered.
FinishedWell(w) ==
  \E g \in Jobs : Finish(w, g) /\ JobLedger(g) /\ Follows(worker[w].job, g)

LEMMA SafetyFollows ==
  ASSUME TypeOK, WorkOK, DispatchInv, JobsLedger, NEW w \in Workers, CheckSafety(w)
  PROVE  FinishedWell(w)
<1> DEFINE st == worker[w]
           h == Opened(st.job)
<1>1. /\ st.job \in Jobs /\ JobLedger(st.job)
      /\ h \in Jobs /\ JobInv(h) /\ JobLedger(h)
      /\ h.confirmed = st.job.confirmed /\ h.restoreMode = st.job.restoreMode
      /\ st.op = "preflight_safety" => ~h.confirmed
      /\ st.op = "safety_check" => h.confirmed
      /\ st.op \in {"preflight_safety", "safety_check"} => h.restoreMode = "none"
  BY WorkingFacts DEF CheckSafety
<1>2. ASSUME NEW g \in Jobs, Finish(w, g), JobLedger(g), Follows(h, g)
      PROVE  FinishedWell(w)
  BY <1>1, <1>2, FollowsOpened DEF FinishedWell
<1>3. CASE st.op = "preflight_safety" /\ Finish(w, Preflight(h))
  <2>1. Preflight(h) \in Jobs /\ JobLedger(Preflight(h)) /\ Follows(h, Preflight(h))
    <3> HIDE DEF h
    <3> QED BY <1>1, <1>3, PreflightLedger, PreflightType
  <2> QED BY <1>2, <1>3, <2>1
<1>4. ASSUME st.op = "safety_check", NEW S \in SUBSET Targets[WorkChunk(h, st.op)],
             Finish(w, SafetyCheck(h, S))
      PROVE  FinishedWell(w)
  <2>1. WorkChunk(h, st.op) \in Chunks
    BY <1>1, OpenedKeepsChunks DEF WorkOK, CheckSafety
  <2>2. WorkChunk(h, st.op) = SafetyChunk(h)
    BY <1>4 DEF WorkChunk, TrashOps, UndoOps
  <2>3. S \in SUBSET Messages /\ S \in SUBSET Targets[SafetyChunk(h)] /\ SafetyChunk(h) \in Chunks
    BY <1>4, <2>1, <2>2 DEF Messages
  <2> HIDE DEF h
  <2>4. SafetyCheck(h, S) \in Jobs
    BY <1>1, <2>3, SafetyCheckType
  <2>5. JobLedger(SafetyCheck(h, S)) /\ Follows(h, SafetyCheck(h, S))
    BY <1>1, <1>4, <2>3, SafetyCheckLedger
  <2> QED BY <1>2, <1>4, <2>4, <2>5
<1> QED BY <1>3, <1>4 DEF CheckSafety

LEMMA ProviderFollows ==
  ASSUME TypeOK, WorkOK, DispatchInv, JobsLedger, NEW w \in Workers,
         Checkpoint(w) \/ Answered(w)
  PROVE  FinishedWell(w)
<1> DEFINE st == worker[w]
           h == Opened(st.job)
           c == WorkChunk(h, st.op)
           i == Len(history) + 1
<1>1. /\ st.job \in Jobs /\ JobLedger(st.job)
      /\ h \in Jobs /\ JobInv(h) /\ JobLedger(h) /\ h.chunk = st.job.chunk
      /\ h.restoreMode = st.job.restoreMode
      /\ st.op \in TrashOps => h.restoreMode = "none"
  BY WorkingFacts DEF Checkpoint, Answered
<1>2. c = WorkChunk(st.job, st.op)
  BY <1>1, OpenedKeepsChunks
<1>3. /\ st.op \in TrashOps => c = ActiveSensitiveChunk(h)
      /\ st.op \in UndoOps => c = ActiveUndoChunk(h)
  BY DEF WorkChunk, TrashOps, UndoOps
<1>4. ASSUME NEW g \in Jobs, Finish(w, g), JobLedger(g), Follows(h, g)
      PROVE  FinishedWell(w)
  BY <1>1, <1>4, FollowsOpened DEF FinishedWell
<1>5. i \in Nat \ {0}
  BY DEF TypeOK
<1>6. CASE Checkpoint(w)
  <2>1. OperationPhase(st) /\ st.pc = "fenced"
    BY <1>6 DEF JobsLedger, Checkpoint
  <2>2. /\ st.op = "checkpoint_trash" /\ c \in Chunks => ~h.chunk[c].dispatched
        /\ st.op = "checkpoint_undo" /\ c \in Chunks => ~h.chunk[c].undoDispatched
    BY <1>1, <1>2, <2>1 DEF OperationPhase
  <2>3. \/ st.op = "checkpoint_trash" /\ Finish(w, CheckpointTrash(h, i))
        \/ st.op = "checkpoint_undo" /\ Finish(w, CheckpointUndo(h, i))
    BY <1>6 DEF Checkpoint
  <2> HIDE DEF h
  <2>4. CheckpointTrash(h, i) \in Jobs /\ CheckpointUndo(h, i) \in Jobs
    <3> HIDE DEF i
    <3> QED BY <1>1, <1>5, CheckpointType
  <2>5. CASE st.op = "checkpoint_trash"
    <3>1. ActiveSensitiveChunk(h) \in Chunks => ~h.chunk[ActiveSensitiveChunk(h)].dispatched
      BY <1>3, <2>2, <2>5 DEF TrashOps
    <3>2. JobLedger(CheckpointTrash(h, i)) /\ Follows(h, CheckpointTrash(h, i))
      BY <1>1, <1>5, <3>1, CheckpointTrashLedger
    <3> QED BY <1>4, <2>3, <2>4, <2>5, <3>2
  <2>6. CASE st.op = "checkpoint_undo"
    <3>1. ActiveUndoChunk(h) \in Chunks => ~h.chunk[ActiveUndoChunk(h)].undoDispatched
      BY <1>3, <2>2, <2>6 DEF UndoOps
    <3>2. JobLedger(CheckpointUndo(h, i)) /\ Follows(h, CheckpointUndo(h, i))
      BY <1>1, <1>5, <3>1, CheckpointUndoLedger
    <3> QED BY <1>4, <2>3, <2>4, <2>6, <3>2
  <2> QED BY <2>3, <2>5, <2>6
<1>7. CASE Answered(w)
  <2>1. CASE st.op = "dispatch_trash"
    <3>1. Finish(w, TrashSent(h)) /\ h.restoreMode = "none"
      BY <1>1, <1>7, <2>1 DEF Answered, TrashOps
    <3> HIDE DEF h
    <3>2. TrashSent(h) \in Jobs /\ JobLedger(TrashSent(h)) /\ Follows(h, TrashSent(h))
      BY <1>1, <3>1, TrashSentLedger, TrashSentType
    <3> QED BY <1>4, <3>1, <3>2
  <2>2. CASE st.op # "dispatch_trash"
    <3>1. Finish(w, h)
      BY <1>7, <2>2 DEF Answered
    <3>2. Follows(st.job, h)
      BY <1>1, OpenedLedger
    <3> QED BY <1>1, <3>1, <3>2 DEF FinishedWell
  <2> QED BY <2>1, <2>2
<1> QED BY <1>6, <1>7

LEMMA VerifyFollows ==
  ASSUME TypeOK, WorkOK, DispatchInv, JobsLedger, NEW w \in Workers, Verify(w)
  PROVE  FinishedWell(w)
<1> DEFINE st == worker[w]
           h == Opened(st.job)
           c == WorkChunk(h, st.op)
           k == h.chunk[c]
           ids == Restorable(k)
<1>1. /\ st.job \in Jobs /\ JobLedger(st.job) /\ st.pc = "fenced"
      /\ h \in Jobs /\ JobLedger(h)
      /\ h.restoreMode = st.job.restoreMode
      /\ st.op \in TrashOps => h.restoreMode = "none"
      /\ st.op \in UndoOps => RestorePausedState(h).status = "undoing" /\ h.restoreMode # "none"
  BY WorkingFacts DEF Verify
<1>2. c \in Chunks
  BY <1>1, OpenedKeepsChunks DEF WorkOK
<1>3. /\ st.op = "verify_trash" => c = ActiveSensitiveChunk(h)
      /\ st.op = "verify_undo" => c = ActiveUndoChunk(h)
  BY DEF WorkChunk, TrashOps, UndoOps
<1>4. ASSUME NEW g \in Jobs, Finish(w, g), JobLedger(g), Follows(h, g)
      PROVE  FinishedWell(w)
  BY <1>1, <1>4, FollowsOpened DEF FinishedWell
<1>5. \/ st.op = "verify_trash" /\ \E o \in Outcomes(k.safe, "trash", k.checkpoint) :
           Finish(w, VerifyTrash(h, o.verified, o.failed, o.uncertain))
      \/ st.op = "verify_undo" /\ \E o \in Outcomes(ids, "undo", k.undoCheckpoint) :
           Finish(w, VerifyUndo(h, o.verified, o.failed, o.uncertain))
  BY DEF Verify
<1>6. k.safe \in SUBSET Messages /\ ids \in SUBSET Messages
  <2>1. k \in ChunkRecords
    BY <1>1, <1>2, JobFields
  <2> QED BY <2>1 DEF ChunkRecords, Restorable
<1> HIDE DEF h, c, k, ids
<1>7. ASSUME st.op = "verify_trash", NEW o \in Outcomes(k.safe, "trash", k.checkpoint),
             Finish(w, VerifyTrash(h, o.verified, o.failed, o.uncertain))
      PROVE  FinishedWell(w)
  <2> DEFINE g == VerifyTrash(h, o.verified, o.failed, o.uncertain)
  <2>1. /\ o.verified \in SUBSET Messages /\ o.verified \subseteq k.safe
        /\ o.verified \subseteq Happened("trash") \cup trash
        /\ o.uncertain = {} /\ o.failed = {} => o.verified = k.safe
    <3>1. \A x \in Outcomes(k.safe, "trash", k.checkpoint) :
            /\ x.verified \in SUBSET Messages /\ x.verified \subseteq k.safe
            /\ x.verified \subseteq Happened("trash") \cup trash
            /\ x.uncertain = {} /\ x.failed = {} => x.verified = k.safe
      BY <1>6, OutcomesKnown
    <3> QED BY <3>1
  <2>2. /\ k = h.chunk[ActiveSensitiveChunk(h)] /\ ActiveSensitiveChunk(h) \in Chunks
        /\ h.restoreMode = "none"
    BY <1>1, <1>2, <1>3, <1>7 DEF TrashOps, k
  <2>3. g \in Jobs
    BY <1>1, <2>1, VerifyTrashType
  <2>4. JobLedger(g) /\ Follows(h, g)
    BY <1>1, <2>1, <2>2, VerifyTrashLedger
  <2> HIDE DEF g
  <2> QED BY <1>4, <1>7, <2>3, <2>4 DEF g
<1>8. ASSUME st.op = "verify_undo", NEW o \in Outcomes(ids, "undo", k.undoCheckpoint),
             Finish(w, VerifyUndo(h, o.verified, o.failed, o.uncertain))
      PROVE  FinishedWell(w)
  <2> DEFINE g == VerifyUndo(h, o.verified, o.failed, o.uncertain)
  <2>1. /\ o.verified \in SUBSET Messages /\ o.verified \subseteq ids
        /\ o.verified \cap trash \subseteq Happened("undo")
        /\ o.uncertain = {} /\ o.failed = {} => o.verified = ids
    <3>1. \A x \in Outcomes(ids, "undo", k.undoCheckpoint) :
            /\ x.verified \in SUBSET Messages /\ x.verified \subseteq ids
            /\ x.verified \cap trash \subseteq Happened("undo")
            /\ x.uncertain = {} /\ x.failed = {} => x.verified = ids
      BY <1>6, OutcomesKnown
    <3> QED BY <3>1
  <2>2. /\ k = h.chunk[ActiveUndoChunk(h)] /\ ActiveUndoChunk(h) \in Chunks
        /\ h.restoreMode # "none" /\ RestorePausedState(h).status = "undoing"
    BY <1>1, <1>2, <1>3, <1>8 DEF UndoOps, k
  <2>3. g \in Jobs
    BY <1>1, <2>1, VerifyUndoType
  <2>4. JobLedger(g) /\ Follows(h, g)
    BY <1>1, <2>1, <2>2, VerifyUndoLedger DEF ids
  <2> HIDE DEF g
  <2> QED BY <1>4, <1>8, <2>3, <2>4 DEF g
<1> QED BY <1>5, <1>7, <1>8

LEMMA ExecutorFollows ==
  ASSUME TypeOK, WorkOK, DispatchInv, JobsLedger, NEW w \in Workers,
         \/ PauseForQuota(w) \/ Advance(w) \/ CheckSafety(w)
         \/ Checkpoint(w) \/ Answered(w) \/ Verify(w)
  PROVE  FinishedWell(w)
<1>1. CASE PauseForQuota(w)
  BY <1>1, PausedFollows DEF PauseForQuota, FinishedWell
<1>2. CASE Advance(w)
  <2> DEFINE st == worker[w]
             h == Opened(st.job)
             g == AdvanceChunk(h)
  <2>1. /\ st.job \in Jobs /\ JobLedger(st.job) /\ h \in Jobs /\ JobLedger(h)
        /\ h.restoreMode = "none" /\ Finish(w, g)
    BY <1>2, WorkingFacts DEF Advance
  <2> HIDE DEF h
  <2>2. g \in Jobs /\ JobLedger(g) /\ Follows(h, g)
    BY <2>1, AdvanceChunkLedger, AdvanceChunkType
  <2> HIDE DEF g
  <2>3. Follows(st.job, g)
    BY <2>1, <2>2, FollowsOpened DEF h
  <2> QED BY <2>1, <2>2, <2>3 DEF FinishedWell
<1> QED BY <1>1, <1>2, SafetyFollows, ProviderFollows, VerifyFollows

-----------------------------------------------------------------------------
(* The mailbox.                                                             *)

SameMail == UNCHANGED <<trash, history, inflight, sent>>

LEMMA HappenedIff ==
  \A kind, m : m \in Happened(kind) <=>
    \E i \in 1..Len(history) : history[i].kind = kind /\ m \in history[i].ids
BY DEF Happened, Events

LEMMA EventFields ==
  ASSUME TypeOK
  PROVE  \A i \in 1..Len(history) : history[i].kind \in Kinds /\ history[i].ids \subseteq Messages
<1> DEFINE E == [kind : Kinds, ids : SUBSET Messages]
<1>1. \A e \in E : e.kind \in Kinds /\ e.ids \subseteq Messages
  OBVIOUS
<1>2. history \in Seq(E)
  BY DEF TypeOK
<1> HIDE DEF E
<1>3. \A i \in 1..Len(history) : history[i] \in E
  BY <1>2
<1> QED BY <1>1, <1>3

\* Requests for two chunks, or none for a chunk, leave its events alone.
LEMMA NoEvents ==
  ASSUME MailInv, NEW kind \in Kinds, NEW c \in Chunks, ~(sent[kind][c] > 0)
  PROVE  \A i \in 1..Len(history) :
           history[i].kind = kind => history[i].ids \cap Targets[c] = {}
<1> SUFFICES ASSUME NEW i \in 1..Len(history), history[i].kind = kind
             PROVE  history[i].ids \cap Targets[c] = {}
  OBVIOUS
<1>1. PICK d \in Chunks : sent[history[i].kind][d] > 0 /\ history[i].ids \subseteq Targets[d]
  BY DEF MailInv, RequestsAccounted
<1>2. d # c
  BY <1>1
<1>3. Targets[d] \cap Targets[c] = {}
  BY <1>2, ChunksAssumption
<1> QED BY <1>1, <1>3

LEMMA GrownTruth ==
  ASSUME MailInv, NEW j, NEW g, Truthful(j), Grown(j, g)
  PROVE  Truthful(g)
<1> SUFFICES ASSUME NEW c \in Chunks
             PROVE  /\ g.chunk[c].moved \subseteq Happened("trash")
                    /\ g.chunk[c].restored \subseteq Happened("undo")
  BY DEF Truthful
<1>1. /\ g.chunk[c].moved \subseteq j.chunk[c].moved \cup Happened("trash") \cup trash
      /\ g.chunk[c].restored \subseteq
           j.chunk[c].restored \cup Happened("undo") \cup (j.chunk[c].moved \ trash)
  BY DEF Grown
<1>2. j.chunk[c].moved \subseteq Happened("trash") /\ j.chunk[c].restored \subseteq Happened("undo")
  BY DEF Truthful
<1>3. trash \subseteq Happened("trash") /\ Happened("undo") = Happened("trash") \ trash
  BY DEF MailInv, TrashAccounted
<1> QED BY <1>1, <1>2, <1>3

\* A new checkpoint is of a chunk of which no request was sent.
LEMMA GrownEvidence ==
  ASSUME TypeOK, DispatchInv, MailInv, row.present, Evidenced(row.job), NEW g, Grown(row.job, g)
  PROVE  Evidenced(g)
<1> SUFFICES ASSUME NEW c \in Chunks
             PROVE  /\ Covers(g.chunk[c].checkpoint, "trash", c)
                    /\ Covers(g.chunk[c].undoCheckpoint, "undo", c)
  BY DEF Evidenced
<1> DEFINE o == row.job.chunk[c]
           n == g.chunk[c]
<1>1. /\ Covers(o.checkpoint, "trash", c) /\ Covers(o.undoCheckpoint, "undo", c)
      /\ n.checkpoint # o.checkpoint => ~o.dispatched /\ n.checkpoint \in {0, Len(history) + 1}
      /\ n.undoCheckpoint # o.undoCheckpoint =>
           ~o.undoDispatched /\ n.undoCheckpoint \in {0, Len(history) + 1}
  BY DEF Evidenced, Grown
<1>2. /\ ~o.dispatched => ~(sent["trash"][c] > 0)
      /\ ~o.undoDispatched => ~(sent["undo"][c] > 0)
  BY DEF DispatchInv, RequestsOK, Dispatched, Kinds
<1> HIDE DEF o, n
<1>3. Len(history) + 1 # 0 /\ Len(history) + 1 <= Len(history) + 1 /\ Len(history) \in Nat
  BY DEF TypeOK
<1>4. ASSUME NEW kind \in Kinds, ~(sent[kind][c] > 0)
      PROVE  Covers(Len(history) + 1, kind, c) /\ Covers(0, kind, c)
  <2>1. \A i \in 1..Len(history) :
          history[i].kind = kind => history[i].ids \cap Targets[c] = {}
    BY <1>4, NoEvents
  <2> QED BY <1>3, <2>1 DEF Covers, EventsAfter
<1>5. Covers(n.checkpoint, "trash", c)
  BY <1>1, <1>2, <1>4 DEF Kinds
<1>6. Covers(n.undoCheckpoint, "undo", c)
  BY <1>1, <1>2, <1>4 DEF Kinds
<1> QED BY <1>5, <1>6 DEF n

LEMMA SameMailKept ==
  ASSUME MailInv, SameMail
  PROVE  MailInv' /\ \A kind : Happened(kind)' = Happened(kind)
<1>1. \A kind : Happened(kind)' = Happened(kind)
  BY DEF SameMail, Happened, Events
<1> QED BY <1>1 DEF MailInv, RequestsAccounted, TrashAccounted, SameMail

\* Truth and evidence are about the mailbox's events alone.
LEMMA HistoryTruth ==
  ASSUME UNCHANGED history
  PROVE  \A j : (Truthful(j)' <=> Truthful(j)) /\ (Evidenced(j)' <=> Evidenced(j))
<1>1. Happened("trash")' = Happened("trash") /\ Happened("undo")' = Happened("undo")
  BY DEF Happened, Events
<1>2. \A n, kind, c : Covers(n, kind, c)' <=> Covers(n, kind, c)
  BY DEF Covers, EventsAfter
<1> QED BY <1>1, <1>2 DEF Truthful, Evidenced

LEMMA SameMailTruth ==
  ASSUME SameMail
  PROVE  \A j : (Truthful(j)' <=> Truthful(j)) /\ (Evidenced(j)' <=> Evidenced(j))
BY HistoryTruth DEF SameMail

-----------------------------------------------------------------------------
(* The kinds of step, by what they do to the row, the copies and the mail.  *)

\* Every step either stays as it is or leaves the part in which its copy and
\* its operation count.
Left ==
  \A w \in Workers :
    \/ worker'[w] = worker[w]
    \/ worker'[w].pc \in Passive /\ worker'[w].job \in {worker[w].job, AcceptedJob}

\* The row keeps its job or continues it.
RowStands ==
  row.present /\ row'.present => row'.job = row.job \/ Continues(row.job, row'.job)

StepStands == JobsLedger' /\ ResultsContinue' /\ LedgerInv' /\ RowStands

LEMMA MovedLeft ==
  ASSUME TypeOK, NEW w \in Workers, NEW pc \in Passive, Move(w, pc)
  PROVE  Left
<1>1. worker[w] \in Steps /\ worker \in [Workers -> Steps]
  BY DEF TypeOK
<1>2. worker'[w].pc = pc /\ worker'[w].job = worker[w].job
      /\ \A v \in Workers \ {w} : worker'[v] = worker[v]
  BY <1>1 DEF Move, Steps
<1> QED BY <1>2 DEF Left

LEMMA EndedLeft ==
  ASSUME TypeOK, NEW w \in Workers, NEW m, NEW n,
         \/ worker' = [worker EXCEPT ![w] = NoStep]
         \/ worker' = [worker EXCEPT ![w] = Idle(m, n)]
         \/ worker' = [worker EXCEPT ![w] = AfterThrow(w)]
  PROVE  Left
<1>1. worker \in [Workers -> Steps]
  BY DEF TypeOK
<1>2. /\ NoStep.pc = "off" /\ NoStep.job = AcceptedJob
      /\ \A a, b : Idle(a, b).pc = "idle" /\ Idle(a, b).job = AcceptedJob
  BY DEF NoStep, Idle
<1>3. AfterThrow(w).pc \in Passive /\ AfterThrow(w).job = AcceptedJob
  BY <1>2 DEF AfterThrow, Passive
<1>4. worker'[w].pc \in Passive /\ worker'[w].job = AcceptedJob
  BY <1>1, <1>2, <1>3 DEF Passive
<1>5. \A v \in Workers \ {w} : worker'[v] = worker[v]
  BY <1>1
<1> QED BY <1>4, <1>5 DEF Left

LEMMA SameWorkersLeft == UNCHANGED worker => Left
BY DEF Left

LEMMA StartedLeft ==
  ASSUME TypeOK, NEW mode
  PROVE  (Started(mode) \/ Scheduled(mode) \/ Restarted) => Left
<1>1. \A m : Started(m) => Left
  BY EndedLeft DEF Started
<1> QED BY <1>1, SameWorkersLeft DEF Scheduled, Restarted

\* A step that has left holds nothing; one that stays holds what it held.
LEMMA LeftHolds ==
  ASSUME JobsLedger, Left, NEW w \in Workers
  PROVE  /\ JobLedger(worker'[w].job) /\ OperationPhase(worker'[w])
         /\ worker'[w].pc \in Copying \cup {"executed"} => worker'[w] = worker[w]
         /\ worker'[w].job \in {worker[w].job, AcceptedJob}
<1>1. CASE worker'[w] = worker[w]
  BY <1>1 DEF JobsLedger
<1>2. CASE worker'[w].pc \in Passive /\ worker'[w].job \in {worker[w].job, AcceptedJob}
  <2>1. worker'[w].pc \notin Copying \cup {"executed"}
    BY <1>2 DEF Passive, Copying
  <2>2. JobLedger(worker'[w].job)
    BY <1>2, AcceptedLedger DEF JobsLedger
  <2> QED BY <1>2, <2>1, <2>2 DEF OperationPhase, Copying
<1> QED BY <1>1, <1>2 DEF Left

LEMMA AcceptedTruth == Truthful(AcceptedJob)
<1>1. \A c \in Chunks : AcceptedJob.chunk[c] = PendingChunk
  BY DEF AcceptedJob
<1> QED BY <1>1 DEF Truthful, PendingChunk

LEMMA SameStep ==
  ASSUME NEW w \in Workers, worker'[w] = worker[w]
  PROVE  /\ Request(w)' = Request(w)
         /\ \A kind, c : Permit(w, kind, c)' <=> Permit(w, kind, c)
BY DEF Request, Permit

LEMMA LeftPermits ==
  ASSUME JobsLedger, Left, NEW w \in Workers, NEW kind, NEW c, Permit(w, kind, c)'
  PROVE  Permit(w, kind, c) /\ Request(w)' = Request(w)
<1>1. worker'[w].pc \in Copying
  BY DEF Permit, Copying
<1>2. worker'[w] = worker[w]
  BY <1>1, LeftHolds
<1> QED BY <1>2, SameStep

LEMMA LeftTruth ==
  ASSUME JobsLedger, LedgersTruthful, Left, SameMail
  PROVE  \A w \in Workers : Truthful(worker'[w].job)
<1>1. \A w \in Workers : worker'[w].job \in {worker[w].job, AcceptedJob}
  BY LeftHolds
<1> QED BY <1>1, AcceptedTruth DEF LedgersTruthful

\* The row keeps its job, or goes.
LEMMA QuietLedger ==
  ASSUME JobsLedger, ResultsContinue, LedgerInv, Left, SameJobOrGone, SameMail
  PROVE  StepStands
<1>1. JobsLedger'
  BY LeftHolds DEF JobsLedger, SameJobOrGone
<1>2. ASSUME NEW w \in Workers, Current(w)'
      PROVE  Current(w) /\ worker'[w] = worker[w] /\ row'.job = row.job
  <2>1. worker'[w] = worker[w]
    BY <1>2, LeftHolds DEF Current
  <2> QED BY <1>2, <2>1 DEF Current, SameJobOrGone
<1>3. ResultsContinue'
  BY <1>2 DEF ResultsContinue
<1>4. MailInv'
  BY SameMailKept DEF LedgerInv
<1>5. EvidenceKept'
  <2>1. ASSUME row'.present PROVE Evidenced(row'.job)
    BY <2>1 DEF SameJobOrGone, LedgerInv, EvidenceKept
  <2>2. ASSUME NEW w \in Workers, Current(w)' PROVE Evidenced(worker'[w].job)
    BY <1>2, <2>2 DEF LedgerInv, EvidenceKept
  <2> QED BY <2>1, <2>2, SameMailTruth DEF EvidenceKept
<1>6. RequestsNamed'
  <2>1. ASSUME row'.present PROVE RequestsNamed /\ row.present /\ row'.job = row.job
    BY <2>1 DEF SameJobOrGone, LedgerInv
  <2> QED BY <2>1, LeftPermits DEF RequestsNamed, SameMail
<1>7. LedgersTruthful'
  <2>1. row'.present => Truthful(row'.job)
    BY DEF SameJobOrGone, LedgerInv, LedgersTruthful
  <2>2. \A w \in Workers : Truthful(worker'[w].job)
    BY LeftTruth DEF LedgerInv
  <2> QED BY <2>1, <2>2, SameMailTruth DEF LedgersTruthful
<1> QED BY <1>1, <1>3, <1>4, <1>5, <1>6, <1>7 DEF StepStands, LedgerInv, RowStands, SameJobOrGone

\* A continued row still owes a marked chunk's request what it owed it.
LEMMA ContinuedNames ==
  ASSUME NEW j, NEW g, Continues(j, g), NEW r, r.kind \in Kinds, r.chunk \in Chunks,
         Dispatched(j, r.kind, r.chunk), Named(j, r)
  PROVE  Named(g, r)
<1>1. CASE r.kind = "trash"
  BY <1>1 DEF Named, Continues, Dispatched
<1>2. CASE r.kind # "trash"
  BY <1>2 DEF Named, Continues
<1> QED BY <1>1, <1>2

LEMMA PermitRequest ==
  ASSUME NEW w \in Workers, NEW kind \in Kinds, NEW c \in Chunks, Permit(w, kind, c)
  PROVE  /\ Request(w).kind = kind /\ Request(w).chunk = c
         /\ worker[w].op \in Dispatches /\ worker[w].pc \in Copying
<1>1. kind = "trash" \/ kind = "undo"
  BY DEF Kinds
<1>2. worker[w].op = "dispatch_trash" <=> kind = "trash"
  BY <1>1 DEF Permit
<1> QED BY <1>1, <1>2 DEF Permit, Request, Dispatches, Copying

\* A step with the marker it has just written.
FreshlyMarked(w) ==
  /\ worker'[w].pc = "marked" /\ worker'[w].job = row'.job /\ OperationPhase(worker'[w])
  /\ \A kind \in Kinds, c \in Chunks : Permit(w, kind, c)' => Named(row'.job, Request(w)')

\* The row is replaced by a job that continues it.
LEMMA RewriteLedger ==
  ASSUME TypeOK, DispatchInv, JobsLedger, LedgerInv, SameMail,
         row.present, row'.present, row'.version = row.version + 1,
         JobLedger(row'.job), Continues(row.job, row'.job),
         Evidenced(row'.job), Truthful(row'.job),
         \A w \in Workers :
           \/ FreshlyMarked(w)
           \/ worker'[w] = worker[w]
           \/ worker'[w].pc \in Passive /\ worker'[w].job \in {worker[w].job, AcceptedJob}
  PROVE  StepStands
<1>1. ASSUME NEW w \in Workers, worker'[w].pc \in Copying \cup {"executed"}
      PROVE  FreshlyMarked(w) \/ worker'[w] = worker[w]
  BY <1>1 DEF Passive, Copying
<1>2. ASSUME NEW w \in Workers
      PROVE  /\ JobLedger(worker'[w].job) /\ OperationPhase(worker'[w])
             /\ worker'[w].job \in {worker[w].job, AcceptedJob, row'.job}
  <2>1. CASE FreshlyMarked(w)
    BY <2>1 DEF FreshlyMarked
  <2>2. CASE worker'[w] = worker[w]
    BY <2>2 DEF JobsLedger
  <2>3. CASE worker'[w].pc \in Passive /\ worker'[w].job \in {worker[w].job, AcceptedJob}
    <3>1. worker'[w].pc \notin Copying
      BY <2>3 DEF Passive, Copying
    <3>2. JobLedger(worker'[w].job)
      BY <2>3, AcceptedLedger DEF JobsLedger
    <3> QED BY <2>3, <3>1, <3>2 DEF OperationPhase, Copying
  <2> QED BY <2>1, <2>2, <2>3
<1>3. JobsLedger'
  BY <1>2 DEF JobsLedger
<1>4. \A w \in Workers : ~Current(w)'
  <2> SUFFICES ASSUME NEW w \in Workers, Current(w)' PROVE FALSE
    OBVIOUS
  <2>1. worker'[w] = worker[w] /\ worker[w].pc = "executed"
    BY <1>1 DEF Current, FreshlyMarked
  <2>2. worker[w].version <= row.version
    BY <2>1 DEF DispatchInv, CopiesOK
  <2>3. worker[w].version = row.version + 1
    BY <2>1 DEF Current
  <2>4. worker[w].version \in Nat /\ row.version \in Nat
    BY RowPresent, RowFields, StepFields DEF TypeOK
  <2> QED BY <2>2, <2>3, <2>4
<1>5. ResultsContinue'
  BY <1>4 DEF ResultsContinue
<1>6. MailInv'
  BY SameMailKept DEF LedgerInv
<1>7. EvidenceKept'
  BY <1>4, SameMailTruth DEF EvidenceKept
<1>8. ASSUME NEW r, r.kind \in Kinds, r.chunk \in Chunks,
             Dispatched(row.job, r.kind, r.chunk), Named(row.job, r)
      PROVE  Named(row'.job, r)
  BY <1>8, ContinuedNames
<1>9. ASSUME NEW r \in inflight PROVE Named(row'.job, r)
  <2>1. r.kind \in Kinds /\ r.chunk \in Chunks
    BY DEF TypeOK, Requests
  <2>2. sent[r.kind][r.chunk] > 0
    BY DEF LedgerInv, MailInv, RequestsAccounted
  <2>3. Dispatched(row.job, r.kind, r.chunk)
    BY <2>1, <2>2 DEF DispatchInv, RequestsOK
  <2>4. Named(row.job, r)
    BY DEF LedgerInv, RequestsNamed
  <2> QED BY <1>8, <2>1, <2>3, <2>4
<1>10. ASSUME NEW w \in Workers, NEW kind \in Kinds, NEW c \in Chunks, Permit(w, kind, c)'
       PROVE  Named(row'.job, Request(w)')
  <2>1. CASE FreshlyMarked(w)
    BY <1>10, <2>1 DEF FreshlyMarked
  <2>2. CASE worker'[w] = worker[w]
    <3>1. Permit(w, kind, c) /\ Request(w)' = Request(w)
      BY <1>10, <2>2, SameStep
    <3>2. Request(w).kind = kind /\ Request(w).chunk = c
      BY <3>1, PermitRequest
    <3>3. Dispatched(row.job, kind, c)
      BY <3>1 DEF DispatchInv, RequestsOK
    <3>4. Named(row.job, Request(w))
      BY <3>1 DEF LedgerInv, RequestsNamed
    <3> QED BY <1>8, <3>1, <3>2, <3>3, <3>4
  <2>3. worker'[w].pc \in Copying
    BY <1>10 DEF Permit, Copying
  <2> QED BY <1>1, <2>1, <2>2, <2>3
<1>11. RequestsNamed'
  BY <1>9, <1>10 DEF RequestsNamed, SameMail
<1>12. LedgersTruthful'
  <2>1. \A w \in Workers : Truthful(worker'[w].job)
    BY <1>2, AcceptedTruth DEF LedgerInv, LedgersTruthful
  <2> QED BY <2>1, SameMailTruth DEF LedgersTruthful
<1> QED BY <1>3, <1>5, <1>6, <1>7, <1>11, <1>12 DEF StepStands, LedgerInv, RowStands

\* One step goes on with its copy, or with what follows it; it gains no permit.
LEMMA CopyRecord ==
  ASSUME TypeOK, DispatchInv, JobsLedger, ResultsContinue, LedgerInv,
         NEW w \in Workers, NEW s, worker' = [worker EXCEPT ![w] = s],
         SameJobOrGone, UNCHANGED history,
         JobLedger(s.job), OperationPhase(s), Truthful(s.job),
         s.pc = "executed" => /\ worker[w].pc \in Copying
                              /\ s.version = worker[w].version
                              /\ Follows(worker[w].job, s.job),
         s.pc \in {"marked", "executing", "fenced"} /\ s.op \in Dispatches =>
           /\ worker[w].pc \in {"marked", "executing", "fenced"}
           /\ s.op = worker[w].op /\ s.job = worker[w].job
  PROVE  /\ JobsLedger' /\ ResultsContinue' /\ EvidenceKept' /\ LedgersTruthful' /\ RowStands
         /\ \A v \in Workers, kind \in Kinds, c \in Chunks :
              Permit(v, kind, c)' => Permit(v, kind, c) /\ Request(v)' = Request(v)
<1>1. worker'[w] = s /\ \A v \in Workers \ {w} : worker'[v] = worker[v]
  BY DEF TypeOK
<1>2. JobsLedger'
  BY <1>1 DEF JobsLedger, SameJobOrGone
<1>3. ASSUME NEW v \in Workers, Current(v)'
      PROVE  /\ row.present /\ row'.job = row.job
             /\ Continues(row.job, worker'[v].job) /\ Evidenced(worker'[v].job)
  <2>1. row.present /\ row'.job = row.job /\ row'.version = row.version
    BY <1>3 DEF Current, SameJobOrGone
  <2>2. CASE v # w
    <3>1. Current(v) /\ worker'[v] = worker[v]
      BY <1>1, <1>3, <2>1, <2>2 DEF Current
    <3> QED BY <2>1, <3>1 DEF ResultsContinue, LedgerInv, EvidenceKept
  <2>3. CASE v = w
    <3>1. /\ s.pc = "executed" /\ worker[w].pc \in Copying /\ worker[w].version = row.version
          /\ Follows(worker[w].job, s.job)
      BY <1>1, <1>3, <2>1, <2>3 DEF Current
    <3>2. worker[w].job = row.job
      BY <2>1, <3>1 DEF DispatchInv, CopiesOK
    <3>3. Continues(row.job, s.job) /\ Grown(row.job, s.job)
      BY <3>1, <3>2 DEF Follows
    <3>4. Evidenced(row.job) /\ MailInv
      BY <2>1 DEF LedgerInv, EvidenceKept
    <3>5. Evidenced(s.job)
      BY <2>1, <3>3, <3>4, GrownEvidence
    <3> QED BY <1>1, <2>1, <2>3, <3>3, <3>5
  <2> QED BY <2>2, <2>3
<1>4. ResultsContinue'
  BY <1>3 DEF ResultsContinue
<1>5. EvidenceKept'
  <2>1. row'.present => Evidenced(row'.job)
    BY DEF SameJobOrGone, LedgerInv, EvidenceKept
  <2> QED BY <1>3, <2>1, HistoryTruth DEF EvidenceKept
<1>6. LedgersTruthful'
  <2>1. row'.present => Truthful(row'.job)
    BY DEF SameJobOrGone, LedgerInv, LedgersTruthful
  <2>2. \A v \in Workers : Truthful(worker'[v].job)
    BY <1>1 DEF LedgerInv, LedgersTruthful
  <2> QED BY <2>1, <2>2, HistoryTruth DEF LedgersTruthful
<1>7. ASSUME NEW v \in Workers, NEW kind \in Kinds, NEW c \in Chunks, Permit(v, kind, c)'
      PROVE  Permit(v, kind, c) /\ Request(v)' = Request(v)
  <2>1. CASE v # w
    BY <1>1, <1>7, <2>1, SameStep
  <2>2. CASE v = w
    <3>1. s.pc \in {"marked", "executing", "fenced"} /\ s.op \in Dispatches
      BY <1>1, <1>7, <2>2 DEF Permit, Dispatches
    <3>2. /\ worker[w].pc \in {"marked", "executing", "fenced"}
          /\ worker'[w].op = worker[w].op /\ worker'[w].job = worker[w].job
      BY <1>1, <3>1
    <3>3. Request(w)' = Request(w)
      BY <3>2 DEF Request
    <3> QED BY <1>7, <2>2, <3>2, <3>3 DEF Permit
  <2> QED BY <2>1, <2>2
<1> QED BY <1>2, <1>4, <1>5, <1>6, <1>7 DEF RowStands, SameJobOrGone

LEMMA CopyLedger ==
  ASSUME TypeOK, DispatchInv, JobsLedger, ResultsContinue, LedgerInv,
         NEW w \in Workers, NEW s, worker' = [worker EXCEPT ![w] = s],
         SameJobOrGone, SameMail,
         JobLedger(s.job), OperationPhase(s), Truthful(s.job),
         s.pc = "executed" => /\ worker[w].pc \in Copying
                              /\ s.version = worker[w].version
                              /\ Follows(worker[w].job, s.job),
         s.pc \in {"marked", "executing", "fenced"} /\ s.op \in Dispatches =>
           /\ worker[w].pc \in {"marked", "executing", "fenced"}
           /\ s.op = worker[w].op /\ s.job = worker[w].job
  PROVE  StepStands
<1>1. UNCHANGED history
  BY DEF SameMail
<1>2. /\ JobsLedger' /\ ResultsContinue' /\ EvidenceKept' /\ LedgersTruthful' /\ RowStands
      /\ \A v \in Workers, kind \in Kinds, c \in Chunks :
           Permit(v, kind, c)' => Permit(v, kind, c) /\ Request(v)' = Request(v)
  BY <1>1, CopyRecord
<1>3. MailInv'
  BY SameMailKept DEF LedgerInv
<1>4. RequestsNamed'
  BY <1>2 DEF LedgerInv, RequestsNamed, SameJobOrGone, SameMail
<1> QED BY <1>2, <1>3, <1>4 DEF StepStands, LedgerInv

-----------------------------------------------------------------------------
(* The coordinator's actions.                                               *)

LEMMA ClaimLedger ==
  ASSUME TypeOK, DispatchInv, RecordInv, LedgerInv, NEW w \in Workers, Claim(w)
  PROVE  StepStands
<1> DEFINE s == [worker[w] EXCEPT !.pc = "claimed", !.job = row.job, !.version = row.version]
<1>1. row \in PresentRows(Owners, Jobs) /\ row.present
  BY RowPresent DEF TypeOK, Claim, Claimable, Visible
<1>2. SameJobOrGone /\ SameMail
  BY <1>1 DEF Claim, Claimed, PresentRows, SameJobOrGone, SameMail
<1>3. s.pc = "claimed" /\ s.job = row.job
  BY DEF TypeOK, Steps
<1>4. worker' = [worker EXCEPT ![w] = s]
  BY DEF Claim
<1>5. JobLedger(row.job) /\ Truthful(row.job)
  BY <1>1 DEF RecordInv, JobsLedger, LedgerInv, LedgersTruthful
<1> HIDE DEF s
<1>6. JobLedger(s.job) /\ OperationPhase(s) /\ Truthful(s.job)
  BY <1>3, <1>5 DEF OperationPhase
<1> QED BY <1>2, <1>3, <1>4, <1>6, CopyLedger DEF RecordInv

\* The marker: what the planner chose has its checkpoint, and the request it
\* permits is the one the marked row names.
LEMMA MarkLedger ==
  ASSUME TypeOK, DispatchInv, RecordInv, LedgerInv, NEW w \in Workers, MarkDurably(w),
         CanReplace(row, worker[w].version), Owns(row, w)
  PROVE  StepStands
<1> DEFINE st == worker[w]
           op == Decision(w)
           g == MarkDispatch(st.job, op)
           s == [st EXCEPT !.pc = "marked", !.op = op, !.job = g, !.version = st.version + 1]
           c == IF op = "dispatch_trash" THEN MutatingChunk(st.job) ELSE ActiveUndoChunk(st.job)
           status == RestorePausedState(st.job).status
<1>1. /\ st \in Steps /\ st.job \in Jobs /\ JobInv(st.job) /\ JobLedger(st.job)
      /\ row \in PresentRows(Owners, Jobs) /\ row.present /\ row.version = st.version
      /\ op \in Dispatches /\ st.pc = "claimed"
  BY StepFields, RowPresent
     DEF TypeOK, DispatchInv, JobsOK, RecordInv, JobsLedger, MarkDurably, CanReplace, Visible
<1>2. row.job = st.job
  BY <1>1 DEF DispatchInv, CopiesOK, Copying
<1>3. row' = Replaced(row, g) /\ worker' = [worker EXCEPT ![w] = s] /\ SameMail
  BY DEF MarkDurably, SameMail
<1>4. /\ c \in Chunks /\ WorkChunk(st.job, op) = c
      /\ op = "dispatch_trash" => st.job.confirmed
  BY <1>1, PlannedDispatch DEF Decision
<1>5. /\ op = "dispatch_trash" => /\ status \in {"mutating", "verifying"}
                                  /\ st.job.chunk[c].status = "mutating"
                                  /\ st.job.chunk[c].checkpoint # 0
      /\ op = "dispatch_undo" => status = "undoing" /\ st.job.chunk[c].undoCheckpoint # 0
  BY <1>1, PlannedPhase DEF Decision, TrashOps, UndoOps
<1>6. /\ op = "dispatch_trash" => st.job.restoreMode = "none"
      /\ op = "dispatch_undo" => st.job.restoreMode # "none"
  BY <1>1, <1>5, CleanupPhase DEF JobLedger, JobPhase
<1> HIDE DEF op
<1>7. /\ JobLedger(g) /\ Follows(st.job, g) /\ RestorePausedState(g).status = status
      /\ SameConsent(g, st.job) /\ WorkChunk(g, op) = c
  BY <1>1, <1>4, <1>5, <1>6, MarkDispatchLedger, MarkDispatchEffect
<1> HIDE DEF g, c, status
<1>8. row'.present /\ row'.job = g /\ row'.version = row.version + 1
  BY <1>1, <1>3 DEF Replaced, PresentRows
<1>9. s.pc = "marked" /\ s.op = op /\ s.job = g
  BY <1>1 DEF Steps
<1>10. worker'[w] = s /\ \A v \in Workers \ {w} : worker'[v] = worker[v]
  BY <1>3 DEF TypeOK
<1> HIDE DEF s
<1>11. OperationPhase(worker'[w])
  BY <1>1, <1>5, <1>7, <1>9, <1>10
     DEF OperationPhase, Dispatches, TrashOps, UndoOps, status
<1>12. ASSUME NEW kind \in Kinds, NEW d \in Chunks, Permit(w, kind, d)'
       PROVE  Named(g, Request(w)')
  <2>1. Request(w)' = [kind |-> IF op = "dispatch_trash" THEN "trash" ELSE "undo",
                       chunk |-> c,
                       ids |-> IF op = "dispatch_trash" THEN g.chunk[c].safe
                               ELSE Restorable(g.chunk[c])]
    BY <1>7, <1>9, <1>10 DEF Request
  <2> QED BY <1>1, <1>4, <1>6, <1>7, <2>1 DEF Named, Restorable, SameConsent, Dispatches
<1>13. FreshlyMarked(w)
  BY <1>8, <1>9, <1>10, <1>11, <1>12 DEF FreshlyMarked
<1>14. Evidenced(row.job) /\ Truthful(row.job) /\ MailInv
  BY <1>1 DEF LedgerInv, EvidenceKept, LedgersTruthful
<1>15. Continues(row.job, g) /\ Grown(row.job, g)
  BY <1>2, <1>7 DEF Follows
<1>16. Evidenced(g) /\ Truthful(g)
  BY <1>1, <1>14, <1>15, GrownEvidence, GrownTruth
<1> QED BY <1>1, <1>3, <1>7, <1>8, <1>10, <1>13, <1>15, <1>16, RewriteLedger DEF RecordInv

LEMMA CoordinatorLedger ==
  ASSUME TypeOK, DispatchInv, RecordInv, LedgerInv, NEW w \in Workers,
         \/ Claim(w) \/ StopRun(w) \/ Sleep(w) \/ MarkDurably(w) \/ RefreshLock(w)
  PROVE  StepStands
<1> DEFINE st == worker[w]
<1>1. /\ st \in Steps /\ st.job \in Jobs /\ JobInv(st.job) /\ JobLedger(st.job)
      /\ OperationPhase(st) /\ Truthful(st.job)
  BY StepFields DEF TypeOK, DispatchInv, JobsOK, RecordInv, JobsLedger, LedgerInv, LedgersTruthful
<1>2. ASSUME Left, UNCHANGED row, SameMail PROVE StepStands
  BY <1>2, QuietLedger DEF SameJobOrGone, RecordInv
<1>3. CASE StopRun(w) \/ Sleep(w)
  BY <1>2, <1>3, MovedLeft DEF StopRun, Sleep, Passive, SameMail
<1>4. CASE MarkDurably(w)
  <2>1. CASE CanReplace(row, st.version) /\ Owns(row, w)
    BY <1>4, <2>1, MarkLedger
  <2>2. CASE ~(CanReplace(row, st.version) /\ Owns(row, w))
    BY <1>2, <1>4, <2>2, MovedLeft DEF MarkDurably, Passive, SameMail
  <2> QED BY <2>1, <2>2
<1>5. CASE RefreshLock(w)
  <2>1. PICK op \in Operations \cup {"none"} :
          /\ Execute(w, op)
          /\ \/ st.pc = "marked" /\ op = st.op
             \/ st.pc = "claimed" /\ op = Decision(w) /\ op \notin Dispatches
    BY <1>1, <1>5 DEF RefreshLock, TypeOK, Steps
  <2>2. UNCHANGED row /\ SameMail
    BY <1>5 DEF RefreshLock, SameMail
  <2>3. CASE ~Owns(row, w)
    BY <1>2, <2>1, <2>2, <2>3, MovedLeft DEF Execute, Passive
  <2>4. CASE Owns(row, w)
    <3> DEFINE s == [st EXCEPT !.pc = "executing", !.op = op]
    <3>1. worker' = [worker EXCEPT ![w] = s] /\ SameJobOrGone
      BY <2>1, <2>2, <2>4 DEF Execute, SameJobOrGone
    <3>2. s.pc = "executing" /\ s.op = op /\ s.job = st.job
      BY <1>1 DEF Steps
    <3> HIDE DEF s
    <3>3. OperationPhase(s)
      <4>1. CASE st.pc = "marked" /\ op = st.op
        BY <1>1, <3>2, <4>1 DEF OperationPhase
      <4>2. CASE st.pc = "claimed" /\ op = Decision(w)
        BY <1>1, <3>2, <4>2, PlannedPhase DEF OperationPhase, Decision
      <4> QED BY <2>1, <4>1, <4>2
    <3>4. op \in Dispatches => st.pc = "marked" /\ op = st.op
      BY <2>1
    <3> QED BY <1>1, <2>2, <3>1, <3>2, <3>3, <3>4, CopyLedger DEF RecordInv
  <2> QED BY <2>3, <2>4
<1> QED BY <1>3, <1>4, <1>5, ClaimLedger

-----------------------------------------------------------------------------
(* The executor's and the provider's actions.                               *)

LEMMA FinishLedger ==
  ASSUME TypeOK, DispatchInv, RecordInv, LedgerInv, NEW w \in Workers, FinishedWell(w),
         worker[w].pc \in {"executing", "fenced", "awaiting"}, UNCHANGED row, SameMail
  PROVE  StepStands
<1>1. PICK g \in Jobs : Finish(w, g) /\ JobLedger(g) /\ Follows(worker[w].job, g)
  BY DEF FinishedWell
<1> DEFINE s == [worker[w] EXCEPT !.pc = "executed", !.job = g]
<1>2. s.pc = "executed" /\ s.job = g /\ s.version = worker[w].version
  BY DEF TypeOK, Steps
<1>3. worker' = [worker EXCEPT ![w] = s] /\ SameJobOrGone /\ worker[w].pc \in Copying
  BY <1>1 DEF Finish, SameJobOrGone, Copying
<1>4. Truthful(worker[w].job) /\ Grown(worker[w].job, g) /\ MailInv
  BY <1>1 DEF LedgerInv, LedgersTruthful, Follows
<1>5. Truthful(g)
  BY <1>4, GrownTruth
<1> HIDE DEF s
<1>6. JobLedger(s.job) /\ OperationPhase(s) /\ Truthful(s.job)
  BY <1>1, <1>2, <1>5 DEF OperationPhase
<1> QED BY <1>1, <1>2, <1>3, <1>6, CopyLedger DEF RecordInv

\* What a request asks for is of its chunk.
LEMMA RequestTargets ==
  ASSUME NEW w \in Workers, JobLedger(worker[w].job),
         WorkChunk(worker[w].job, worker[w].op) \in Chunks
  PROVE  Request(w).ids \subseteq Targets[Request(w).chunk]
<1> DEFINE c == WorkChunk(worker[w].job, worker[w].op)
<1>1. ChunkLedger(worker[w].job, c)
  BY DEF JobLedger
<1>2. Request(w).chunk = c /\ Request(w).ids \in {worker[w].job.chunk[c].safe,
                                                  Restorable(worker[w].job.chunk[c])}
  BY DEF Request
<1> HIDE DEF c
<1> QED BY <1>1, <1>2 DEF ChunkLedger, Restorable

\* The one request of its kind and chunk: nothing of it has happened yet.
LEMMA SendLedger ==
  ASSUME TypeOK, WorkOK, DispatchInv, RecordInv, LedgerInv, NEW w \in Workers, Send(w)
  PROVE  StepStands
<1> DEFINE st == worker[w]
           q == Request(w)
           k == IF st.op = "dispatch_trash" THEN "trash" ELSE "undo"
           c == WorkChunk(st.job, st.op)
           s == [st EXCEPT !.pc = "awaiting"]
<1>1. /\ st \in Steps /\ st.pc = "fenced" /\ st.op \in Dispatches /\ c \in Chunks /\ k \in Kinds
      /\ JobLedger(st.job) /\ OperationPhase(st) /\ Truthful(st.job)
  BY DEF TypeOK, WorkOK, Send, Kinds, RecordInv, JobsLedger, LedgerInv, LedgersTruthful
<1>2. q.kind = k /\ q.chunk = c /\ q.ids \subseteq Targets[c]
  BY <1>1, RequestTargets DEF Request
<1>3. /\ inflight' = inflight \cup {q} /\ sent' = [sent EXCEPT ![k][c] = @ + 1]
      /\ worker' = [worker EXCEPT ![w] = s] /\ UNCHANGED <<row, trash, history>>
  BY <1>2 DEF Send, Move
<1>4. Permit(w, k, c)
  BY <1>1 DEF Permit, Dispatches
<1>5. sent[k][c] = 0 /\ sent'[k][c] = 1
  BY <1>1, <1>3, <1>4 DEF DispatchInv, RequestsOK, TypeOK
<1>6. \A kind \in Kinds, d \in Chunks : sent[kind][d] > 0 => sent'[kind][d] > 0
  <2>1. \A kind \in Kinds, d \in Chunks :
          sent'[kind][d] = IF kind = k /\ d = c THEN 1 ELSE sent[kind][d]
    BY <1>1, <1>3, <1>5 DEF TypeOK
  <2> QED BY <1>5, <2>1
<1>7. s.pc = "awaiting" /\ s.op = st.op /\ s.job = st.job
  BY <1>1 DEF Steps
<1> HIDE DEF q, k, c, s
<1>8. OperationPhase(s)
  BY <1>1, <1>7 DEF OperationPhase
<1>9. SameJobOrGone
  BY <1>3 DEF SameJobOrGone
<1>10. /\ JobsLedger' /\ ResultsContinue' /\ EvidenceKept' /\ LedgersTruthful' /\ RowStands
       /\ \A v \in Workers, kind \in Kinds, d \in Chunks :
            Permit(v, kind, d)' => Permit(v, kind, d) /\ Request(v)' = Request(v)
  BY <1>1, <1>3, <1>7, <1>8, <1>9, CopyRecord DEF RecordInv
<1>11. Happened("trash")' = Happened("trash") /\ Happened("undo")' = Happened("undo")
  BY <1>3 DEF Happened, Events
<1>12. RequestsAccounted'
  <2>1. \A r \in inflight : /\ r.kind \in Kinds /\ r.chunk \in Chunks
                            /\ sent[r.kind][r.chunk] > 0 /\ r.ids \subseteq Targets[r.chunk]
    BY DEF TypeOK, Requests, LedgerInv, MailInv, RequestsAccounted
  <2>2. \A r \in inflight' : sent'[r.kind][r.chunk] > 0 /\ r.ids \subseteq Targets[r.chunk]
    BY <1>2, <1>3, <1>5, <1>6, <2>1
  <2>3. \A r \in inflight : ~(r.kind = k /\ r.chunk = c)
    BY <1>5, <2>1
  <2>4. \A r, u \in inflight' : r.kind = u.kind /\ r.chunk = u.chunk => r = u
    BY <1>2, <1>3, <2>3 DEF LedgerInv, MailInv, RequestsAccounted
  <2>5. \A i \in 1..Len(history) : \E d \in Chunks :
          sent'[history[i].kind][d] > 0 /\ history[i].ids \subseteq Targets[d]
    <3>1. \A i \in 1..Len(history) : history[i].kind \in Kinds
      BY EventFields
    <3> QED BY <1>6, <3>1 DEF LedgerInv, MailInv, RequestsAccounted
  <2>6. k = "trash" => Targets[c] \cap Happened("trash") = {}
    <3>1. ASSUME k = "trash"
          PROVE  \A i \in 1..Len(history) :
                   history[i].kind = "trash" => history[i].ids \cap Targets[c] = {}
      BY <1>1, <1>5, <3>1, NoEvents DEF LedgerInv
    <3> QED BY <3>1, HappenedIff
  <2>7. \A r \in inflight' : r.kind = "trash" => Targets[r.chunk] \cap Happened("trash") = {}
    BY <1>2, <1>3, <2>6 DEF LedgerInv, MailInv, RequestsAccounted
  <2> QED BY <1>3, <1>11, <2>2, <2>4, <2>5, <2>7 DEF RequestsAccounted
<1>13. TrashAccounted'
  BY <1>3, <1>11 DEF TrashAccounted, LedgerInv, MailInv
<1>14. RequestsNamed'
  <2>1. row.present => Named(row.job, q)
    BY <1>1, <1>4 DEF LedgerInv, RequestsNamed, q
  <2>2. row.present => \A r \in inflight' : Named(row.job, r)
    BY <1>3, <2>1 DEF LedgerInv, RequestsNamed
  <2> QED BY <1>3, <1>10, <2>2 DEF LedgerInv, RequestsNamed
<1> QED BY <1>10, <1>12, <1>13, <1>14 DEF StepStands, LedgerInv, MailInv

LEMMA ExecutorLedger ==
  ASSUME TypeOK, WorkOK, DispatchInv, RecordInv, LedgerInv, NEW w \in Workers,
         \/ PauseForQuota(w) \/ Advance(w) \/ PassFence(w) \/ Refuse(w) \/ CheckSafety(w)
         \/ Checkpoint(w) \/ Send(w) \/ Answered(w) \/ Verify(w) \/ LoseAnswer(w)
  PROVE  StepStands
<1> DEFINE st == worker[w]
<1>1. /\ st \in Steps /\ JobLedger(st.job) /\ OperationPhase(st) /\ Truthful(st.job)
  BY DEF TypeOK, RecordInv, JobsLedger, LedgerInv, LedgersTruthful
<1>2. CASE \/ PauseForQuota(w) \/ Advance(w) \/ CheckSafety(w)
           \/ Checkpoint(w) \/ Answered(w) \/ Verify(w)
  <2>1. FinishedWell(w)
    BY <1>2, ExecutorFollows DEF RecordInv
  <2>2. UNCHANGED row /\ SameMail /\ st.pc \in {"executing", "fenced", "awaiting"}
    BY <1>2 DEF PauseForQuota, Advance, CheckSafety, Checkpoint, Answered, Verify, SameMail
  <2> QED BY <2>1, <2>2, FinishLedger
<1>3. CASE PassFence(w)
  <2> DEFINE s == [st EXCEPT !.pc = "fenced"]
  <2>1. worker' = [worker EXCEPT ![w] = s] /\ SameJobOrGone /\ SameMail /\ st.pc = "executing"
    BY <1>3 DEF PassFence, Move, SameJobOrGone, SameMail
  <2>2. s.pc = "fenced" /\ s.op = st.op /\ s.job = st.job
    BY <1>1 DEF Steps
  <2> HIDE DEF s
  <2>3. OperationPhase(s)
    BY <1>1, <2>1, <2>2 DEF OperationPhase
  <2> QED BY <1>1, <2>1, <2>2, <2>3, CopyLedger DEF RecordInv
<1>4. CASE Refuse(w) \/ LoseAnswer(w)
  <2>1. Left
    BY <1>4, MovedLeft DEF Refuse, LoseAnswer, Passive
  <2>2. SameJobOrGone /\ SameMail
    BY <1>4 DEF Refuse, LoseAnswer, SameJobOrGone, SameMail
  <2> QED BY <2>1, <2>2, QuietLedger DEF RecordInv
<1> QED BY <1>2, <1>3, <1>4, SendLedger

\* What an event adds.
LEMMA EventAdded ==
  ASSUME TypeOK, NEW kind \in Kinds, NEW ids, history' = Append(history, [kind |-> kind, ids |-> ids])
  PROVE  /\ \A k : Happened(k)' = Happened(k) \cup (IF k = kind THEN ids ELSE {})
         /\ Len(history') = Len(history) + 1 /\ Len(history) \in Nat
         /\ \A i \in 1..Len(history) : history'[i] = history[i]
         /\ history'[Len(history) + 1] = [kind |-> kind, ids |-> ids]
<1> DEFINE e == [kind |-> kind, ids |-> ids]
<1>1. history \in Seq([kind : Kinds, ids : SUBSET Messages]) /\ history' = Append(history, e)
  BY DEF TypeOK
<1> HIDE DEF e
<1>2. /\ Len(history') = Len(history) + 1 /\ Len(history) \in Nat
      /\ \A i \in 1..Len(history) : history'[i] = history[i]
      /\ history'[Len(history) + 1] = e
  BY <1>1
<1>3. ASSUME NEW k, NEW m
      PROVE  m \in Happened(k)' <=> m \in Happened(k) \/ (k = kind /\ m \in ids)
  <2>1. m \in Happened(k)' <=>
          \E i \in 1..Len(history') : history'[i].kind = k /\ m \in history'[i].ids
    BY DEF Happened, Events
  <2>2. m \in Happened(k) <=> \E i \in 1..Len(history) : history[i].kind = k /\ m \in history[i].ids
    BY HappenedIff
  <2>3. 1..Len(history') = (1..Len(history)) \cup {Len(history) + 1}
    BY <1>2
  <2>4. e.kind = kind /\ e.ids = ids
    BY DEF e
  <2> QED BY <1>2, <2>1, <2>2, <2>3, <2>4
<1> QED BY <1>2, <1>3 DEF e

-----------------------------------------------------------------------------
(* The mailbox processes a request.                                         *)

\* What one request changes: a Trash request's messages have no event yet, a
\* restore's were in Trash.
LandedIds(r, S) == IF r.kind = "trash" THEN S \ trash ELSE S \cap trash

LEMMA LandsMail ==
  ASSUME TypeOK, MailInv, NEW r \in inflight, NEW S \in SUBSET r.ids,
         inflight' = inflight \ {r}, UNCHANGED sent,
         trash' = IF r.kind = "trash" THEN trash \cup S ELSE trash \ S,
         history' = IF LandedIds(r, S) = {} THEN history
                    ELSE Append(history, [kind |-> r.kind, ids |-> LandedIds(r, S)])
  PROVE  /\ MailInv'
         /\ \A kind : Happened(kind) \subseteq Happened(kind)'
         /\ \A n \in Nat : \A kind, c : Covers(n, kind, c) => Covers(n, kind, c)'
<1> DEFINE D == LandedIds(r, S)
<1>1. /\ r.kind \in Kinds /\ r.chunk \in Chunks /\ sent[r.kind][r.chunk] > 0
      /\ r.ids \subseteq Targets[r.chunk]
      /\ r.kind = "trash" => Targets[r.chunk] \cap Happened("trash") = {}
  BY DEF TypeOK, Requests, MailInv, RequestsAccounted
<1>2. D \subseteq S /\ D \subseteq Targets[r.chunk]
  BY <1>1 DEF LandedIds
<1>3. D = IF r.kind = "trash" THEN S \ trash ELSE S \cap trash
  BY DEF LandedIds
<1> HIDE DEF D
<1>4. CASE D = {}
  <2>1. UNCHANGED history
    BY <1>4 DEF D
  <2>2. \A kind : Happened(kind)' = Happened(kind)
    BY <2>1 DEF Happened, Events
  <2>3. \A n, kind, c : Covers(n, kind, c) => Covers(n, kind, c)'
    BY <2>1 DEF Covers, EventsAfter
  <2>4. UNCHANGED trash
    BY <1>3, <1>4
  <2>5. TrashAccounted'
    <3>1. Happened("trash")' = Happened("trash") /\ Happened("undo")' = Happened("undo")
      BY <2>2
    <3> QED BY <2>4, <3>1 DEF TrashAccounted, MailInv
  <2>6. RequestsAccounted'
    <3>1. Happened("trash")' = Happened("trash")
      BY <2>2
    <3> QED BY <2>1, <3>1 DEF RequestsAccounted, MailInv
  <2> QED BY <2>2, <2>3, <2>5, <2>6 DEF MailInv
<1>5. CASE D # {}
  <2>1. history' = Append(history, [kind |-> r.kind, ids |-> D])
    BY <1>5 DEF D
  <2>2. /\ \A k : Happened(k)' = Happened(k) \cup (IF k = r.kind THEN D ELSE {})
        /\ Len(history') = Len(history) + 1 /\ Len(history) \in Nat
        /\ \A i \in 1..Len(history) : history'[i] = history[i]
        /\ history'[Len(history) + 1] = [kind |-> r.kind, ids |-> D]
    BY <1>1, <2>1, EventAdded
  <2>3. 1..Len(history') = (1..Len(history)) \cup {Len(history) + 1}
    BY <2>2
  <2>4. ASSUME NEW n \in Nat, NEW kind, NEW c, Covers(n, kind, c)
        PROVE  Covers(n, kind, c)'
    <3>1. ASSUME n # 0 PROVE n <= Len(history) + 1
      BY <2>4, <3>1 DEF Covers
    <3>2. ASSUME n # 0, NEW i \in 1..Len(history'), history'[i].kind = kind,
                 history'[i].ids \cap Targets[c] # {}
          PROVE  i >= n
      <4>1. CASE i \in 1..Len(history)
        BY <2>2, <2>4, <3>2, <4>1 DEF Covers, EventsAfter
      <4>2. CASE i = Len(history) + 1
        BY <2>2, <3>1, <3>2, <4>2
      <4> QED BY <2>3, <4>1, <4>2
    <3>3. n # 0 => n <= Len(history') + 1
      BY <2>2, <3>1
    <3> QED BY <3>2, <3>3 DEF Covers, EventsAfter
  <2>5. /\ Happened("trash")' = Happened("trash") \cup (IF r.kind = "trash" THEN D ELSE {})
        /\ Happened("undo")' = Happened("undo") \cup (IF r.kind = "undo" THEN D ELSE {})
    BY <2>2
  <2>6. TrashAccounted'
    <3>1. /\ trash \subseteq Happened("trash")
          /\ Happened("undo") = Happened("trash") \ trash
      BY DEF MailInv, TrashAccounted
    <3>2. CASE r.kind = "trash"
      <4>1. S \cap Happened("trash") = {}
        BY <1>1, <3>2
      <4>2. /\ trash' = trash \cup S /\ D = S \ trash
            /\ Happened("trash")' = Happened("trash") \cup D
            /\ Happened("undo")' = Happened("undo")
        BY <1>3, <2>5, <3>2
      <4> QED BY <3>1, <4>1, <4>2 DEF TrashAccounted
    <3>3. CASE r.kind = "undo"
      <4>1. /\ trash' = trash \ S /\ D = S \cap trash
            /\ Happened("trash")' = Happened("trash")
            /\ Happened("undo")' = Happened("undo") \cup D
        BY <1>3, <2>5, <3>3
      <4> QED BY <3>1, <4>1 DEF TrashAccounted
    <3> QED BY <1>1, <3>2, <3>3 DEF Kinds
  <2>7. RequestsAccounted'
    <3>1. \A i \in 1..Len(history') : \E c \in Chunks :
            sent[history'[i].kind][c] > 0 /\ history'[i].ids \subseteq Targets[c]
      <4> SUFFICES ASSUME NEW i \in 1..Len(history')
                   PROVE  \E c \in Chunks :
                            sent[history'[i].kind][c] > 0 /\ history'[i].ids \subseteq Targets[c]
        OBVIOUS
      <4>1. CASE i \in 1..Len(history)
        BY <2>2, <4>1 DEF MailInv, RequestsAccounted
      <4>2. CASE i = Len(history) + 1
        <5>1. history'[i].kind = r.kind /\ history'[i].ids = D
          BY <2>2, <4>2
        <5> QED BY <1>1, <1>2, <5>1
      <4> QED BY <2>3, <4>1, <4>2
    <3>2. ASSUME NEW u \in inflight', u.kind = "trash"
          PROVE  Targets[u.chunk] \cap (Happened("trash")') = {}
      <4>1. u \in inflight /\ u # r /\ u.chunk \in Chunks
        BY DEF TypeOK, Requests
      <4>2. Targets[u.chunk] \cap Happened("trash") = {}
        BY <3>2, <4>1 DEF MailInv, RequestsAccounted
      <4>3. r.kind = "trash" => Targets[u.chunk] \cap Targets[r.chunk] = {}
        <5>1. r.kind = "trash" => u.chunk # r.chunk
          BY <3>2, <4>1 DEF MailInv, RequestsAccounted
        <5> QED BY <1>1, <4>1, <5>1, ChunksAssumption
      <4> QED BY <1>2, <2>5, <4>2, <4>3
    <3> QED BY <3>1, <3>2 DEF RequestsAccounted, MailInv
  <2> QED BY <2>2, <2>4, <2>6, <2>7 DEF MailInv
<1> QED BY <1>4, <1>5

LEMMA LandsLedger ==
  ASSUME TypeOK, DispatchInv, RecordInv, LedgerInv, NEW r \in inflight, RequestLands(r)
  PROVE  StepStands
<1>1. MailInv /\ inflight' = inflight \ {r} /\ UNCHANGED <<row, worker, sent>>
  BY DEF RequestLands, LedgerInv
<1>2. /\ MailInv'
      /\ \A kind : Happened(kind) \subseteq Happened(kind)'
      /\ \A n \in Nat : \A kind, c : Covers(n, kind, c) => Covers(n, kind, c)'
  BY <1>1, LandsMail DEF RequestLands, LandedIds
<1>3. ASSUME NEW j \in Jobs
      PROVE  (Truthful(j) => Truthful(j)') /\ (Evidenced(j) => Evidenced(j)')
  <2>1. /\ Happened("trash") \subseteq Happened("trash")'
        /\ Happened("undo") \subseteq Happened("undo")'
    BY <1>2
  <2>2. \A c \in Chunks : j.chunk[c].checkpoint \in Nat /\ j.chunk[c].undoCheckpoint \in Nat
    BY JobFields DEF ChunkRecords
  <2> QED BY <1>2, <2>1, <2>2 DEF Truthful, Evidenced
<1>4. row.present => row.job \in Jobs
  BY RowPresent, RowFields DEF TypeOK
<1>5. \A w \in Workers : worker[w].job \in Jobs
  BY StepFields DEF TypeOK
<1>6. EvidenceKept'
  BY <1>1, <1>3, <1>4, <1>5 DEF LedgerInv, EvidenceKept, Current
<1>7. LedgersTruthful'
  BY <1>1, <1>3, <1>4, <1>5 DEF LedgerInv, LedgersTruthful
<1>8. \A w \in Workers, kind \in Kinds, c \in Chunks :
        Permit(w, kind, c)' => Permit(w, kind, c) /\ Request(w)' = Request(w)
  BY <1>1, SameStep
<1>9. RequestsNamed'
  BY <1>1, <1>8 DEF LedgerInv, RequestsNamed
<1>10. JobsLedger' /\ ResultsContinue' /\ RowStands
  BY <1>1 DEF RecordInv, JobsLedger, ResultsContinue, Current, RowStands
<1> QED BY <1>2, <1>6, <1>7, <1>9, <1>10 DEF StepStands, LedgerInv

-----------------------------------------------------------------------------
(* The end of a step, the environment and the users.                        *)

\* What a step commits continues the row it has replaced.
LEMMA CommitLedger ==
  ASSUME TypeOK, DispatchInv, RecordInv, LedgerInv, NEW w \in Workers, Commit(w)
  PROVE  StepStands
<1> DEFINE st == worker[w]
<1>1. st \in Steps /\ JobLedger(st.job) /\ Truthful(st.job) /\ SameMail
  BY DEF TypeOK, RecordInv, JobsLedger, LedgerInv, LedgersTruthful, Commit, SameMail
<1>2. CASE CanReplace(row, st.version) /\ Owns(row, w)
  <2> DEFINE s == [st EXCEPT !.pc = "committed", !.version = st.version + 1]
  <2>1. row \in PresentRows(Owners, Jobs) /\ row.present /\ row.version = st.version
    BY <1>2, RowPresent DEF CanReplace, Visible, TypeOK
  <2>2. row' = Replaced(row, st.job) /\ worker' = [worker EXCEPT ![w] = s] /\ st.pc = "executed"
    BY <1>2 DEF Commit
  <2>3. row'.present /\ row'.job = st.job /\ row'.version = row.version + 1
    BY <2>1, <2>2 DEF Replaced, PresentRows
  <2>4. s.pc = "committed" /\ s.job = st.job
    BY <1>1 DEF Steps
  <2> HIDE DEF s
  <2>5. worker'[w] = s /\ \A v \in Workers \ {w} : worker'[v] = worker[v]
    BY <2>2 DEF TypeOK
  <2>6. Current(w)
    BY <2>1, <2>2 DEF Current
  <2>7. Continues(row.job, st.job) /\ Evidenced(st.job)
    BY <2>6 DEF RecordInv, ResultsContinue, LedgerInv, EvidenceKept
  <2>8. \A v \in Workers :
           \/ worker'[v] = worker[v]
           \/ worker'[v].pc \in Passive /\ worker'[v].job \in {worker[v].job, AcceptedJob}
    BY <2>4, <2>5 DEF Passive
  <2> QED BY <1>1, <2>1, <2>3, <2>7, <2>8, RewriteLedger DEF RecordInv
<1>3. CASE ~(CanReplace(row, st.version) /\ Owns(row, w))
  <2>1. Left
    BY <1>3, MovedLeft DEF Commit, Passive
  <2>2. SameJobOrGone
    BY <1>3 DEF Commit, SameJobOrGone
  <2> QED BY <1>1, <2>1, <2>2, QuietLedger DEF RecordInv
<1> QED BY <1>2, <1>3

LEMMA EndLedger ==
  ASSUME TypeOK, DispatchInv, RecordInv, LedgerInv, NEW w \in Workers,
         \/ Commit(w) \/ Sync(w) \/ Delete(w) \/ Release(w) \/ Crash(w) \/ FindMissing(w)
  PROVE  StepStands
<1>1. ASSUME Left, SameJobOrGone, SameMail PROVE StepStands
  BY <1>1, QuietLedger DEF RecordInv
<1>2. CASE Sync(w) \/ Delete(w)
  <2>1. Left
    BY <1>2, MovedLeft DEF Sync, Delete, Passive
  <2>2. SameJobOrGone /\ SameMail
    BY <1>2, RowKept DEF Sync, Delete, SameMail
  <2> QED BY <1>1, <2>1, <2>2
<1>3. CASE Release(w) \/ Crash(w) \/ FindMissing(w)
  <2>1. \/ worker' = [worker EXCEPT ![w] = Idle(worker[w].mode, 0)]
        \/ worker' = [worker EXCEPT ![w] = NoStep]
        \/ worker' = [worker EXCEPT ![w] = AfterThrow(w)]
    BY <1>3 DEF Release, Crash, FindMissing
  <2>2. Left
    BY <2>1, EndedLeft
  <2>3. SameJobOrGone
    BY <1>3, RowKept DEF Release, Released, Crash, Owners, FindMissing
  <2>4. SameMail
    BY <1>3 DEF Release, Crash, FindMissing, SameMail
  <2> QED BY <1>1, <2>2, <2>3, <2>4
<1> QED BY <1>2, <1>3, CommitLedger

LEMMA EnvironmentLedger ==
  ASSUME TypeOK, DispatchInv, RecordInv, LedgerInv,
         \/ \E r \in inflight : RequestLands(r)
         \/ LeaseLapses \/ OrphanLapses \/ WindowElapses \/ StateExpires \/ Purge
  PROVE  StepStands
<1>1. CASE LeaseLapses \/ OrphanLapses \/ WindowElapses \/ StateExpires \/ Purge
  <2>1. Left /\ SameMail
    BY <1>1, SameWorkersLeft
       DEF LeaseLapses, OrphanLapses, WindowElapses, StateExpires, Purge, SameMail
  <2>2. SameJobOrGone
    BY <1>1, RowKept DEF LeaseLapses, OrphanLapses, WindowElapses, StateExpires, Purge, Visible
  <2> QED BY <2>1, <2>2, QuietLedger DEF RecordInv
<1> QED BY <1>1, LandsLedger

\* A ready job has nothing a confirmation could lose.
LEMMA ConfirmLedger ==
  ASSUME TypeOK, DispatchInv, RecordInv, LedgerInv, Confirm
  PROVE  StepStands
<1> DEFINE g == PrepareConfirmed(row.job)
<1>1. row \in PresentRows(Owners, Jobs) /\ row.present /\ row.job \in Jobs
      /\ row.job.status = "ready"
  BY RowPresent, RowFields DEF TypeOK, Confirm, Visible
<1>2. /\ JobInv(row.job) /\ JobLedger(row.job) /\ Truthful(row.job) /\ Evidenced(row.job)
      /\ MailInv
  BY <1>1 DEF DispatchInv, JobsOK, RecordInv, JobsLedger, LedgerInv, LedgersTruthful, EvidenceKept
<1>3. row'.present /\ row'.version = row.version + 1 /\ row'.job = g
  BY <1>1 DEF Confirm, Replaced, PresentRows
<1>4. ~row.job.confirmed
  BY <1>1, <1>2 DEF JobInv
<1>5. row.job.restoreMode = "none"
  <2>1. RestorePausedState(row.job).status = "ready"
    BY <1>1, RestoredStatus
  <2> QED BY <1>2, <2>1 DEF JobLedger, JobPhase
<1> HIDE DEF g
<1>6. JobLedger(g) /\ Continues(row.job, g) /\ Grown(row.job, g)
  BY <1>1, <1>2, <1>4, <1>5, PrepareConfirmedLedger DEF Follows, g
<1>7. Evidenced(g) /\ Truthful(g)
  BY <1>1, <1>2, <1>6, GrownEvidence, GrownTruth
<1>8. Left /\ SameMail
  BY StartedLeft DEF Confirm, SameMail
<1> QED BY <1>1, <1>3, <1>6, <1>7, <1>8, RewriteLedger DEF RecordInv, Left

\* A restore begins on the job it was found eligible for.
LEMMA RestoreLedger ==
  ASSUME TypeOK, DispatchInv, RecordInv, LedgerInv,
         ClaimRestore \/ AbandonRestore \/ CommitRestore \/ StartRestore
  PROVE  StepStands
<1>1. ASSUME Left, SameJobOrGone, SameMail PROVE StepStands
  BY <1>1, QuietLedger DEF RecordInv
<1>2. CASE ClaimRestore \/ AbandonRestore
  <2>1. SameJobOrGone
    <3>1. row.present => row \in PresentRows(Owners, Jobs)
      BY RowPresent DEF TypeOK
    <3> QED BY <1>2, <3>1 DEF ClaimRestore, AbandonRestore, Claimed, Claimable, Visible,
                              SameJobOrGone, PresentRows
  <2>2. Left /\ SameMail
    BY <1>2, SameWorkersLeft DEF ClaimRestore, AbandonRestore, SameMail
  <2> QED BY <1>1, <2>1, <2>2
<1>3. CASE CommitRestore /\ Owns(row, Restorer)
  <2> DEFINE g == BeginUndo(row.job)
  <2>1. row \in PresentRows(Owners, Jobs) /\ row.present /\ row.job \in Jobs
    BY <1>3, RowPresent, RowFields DEF TypeOK, Owns, Visible
  <2>2. JobLedger(row.job) /\ Truthful(row.job) /\ Evidenced(row.job) /\ MailInv
    BY <2>1 DEF RecordInv, JobsLedger, LedgerInv, LedgersTruthful, EvidenceKept
  <2>3. row'.present /\ row'.version = row.version + 1 /\ row'.job = g
    BY <1>3, <2>1 DEF CommitRestore, Replaced, Released, PresentRows
  <2>4. RestoreEligibility(row.job) # "none"
    BY <1>3 DEF CommitRestore, Owns, Visible, RecordInv, RestoreEligible
  <2> HIDE DEF g
  <2>5. JobLedger(g) /\ Continues(row.job, g) /\ Grown(row.job, g)
    BY <2>1, <2>2, <2>4, BeginUndoLedger DEF Follows, g
  <2>6. Evidenced(g) /\ Truthful(g)
    BY <2>1, <2>2, <2>5, GrownEvidence, GrownTruth
  <2>7. Left /\ SameMail
    BY <1>3, SameWorkersLeft DEF CommitRestore, SameMail
  <2> QED BY <2>1, <2>3, <2>5, <2>6, <2>7, RewriteLedger DEF RecordInv, Left
<1>4. CASE CommitRestore /\ ~Owns(row, Restorer)
  <2>1. SameJobOrGone
    BY <1>4, RowKept DEF CommitRestore, Released
  <2>2. Left /\ SameMail
    BY <1>4, SameWorkersLeft DEF CommitRestore, SameMail
  <2> QED BY <1>1, <2>1, <2>2
<1>5. CASE StartRestore
  <2>1. Left
    BY <1>5, StartedLeft DEF StartRestore
  <2>2. SameJobOrGone /\ SameMail
    BY <1>5 DEF StartRestore, SameJobOrGone, SameMail
  <2> QED BY <1>1, <2>1, <2>2
<1> QED BY <1>2, <1>3, <1>4, <1>5

LEMMA UserLedger ==
  ASSUME TypeOK, DispatchInv, RecordInv, LedgerInv,
         \/ Accept \/ Confirm \/ Redispatch \/ ClaimRestore \/ AbandonRestore
         \/ Discard \/ Disconnect \/ UserCompletes
  PROVE  StepStands
<1>1. ASSUME Left, SameJobOrGone, SameMail PROVE StepStands
  BY <1>1, QuietLedger DEF RecordInv
<1>2. CASE Accept \/ Redispatch
  <2>1. Left
    BY <1>2, StartedLeft DEF Accept, Redispatch
  <2>2. SameJobOrGone /\ SameMail
    BY <1>2 DEF Accept, Redispatch, SameJobOrGone, SameMail
  <2> QED BY <1>1, <2>1, <2>2
<1>3. CASE \/ Discard \/ Disconnect \/ DiscardState \/ DiscardJob
           \/ CancelJobs \/ ClearSnapshots \/ ForgetState
  <2>1. Left /\ SameMail
    BY <1>3, SameWorkersLeft DEF Discard, Disconnect, DiscardState, DiscardJob, CancelJobs,
                                 ClearSnapshots, ForgetState, SameMail
  <2>2. SameJobOrGone
    BY <1>3, RowKept DEF Discard, Disconnect, DiscardState, DiscardJob, CancelJobs,
                         ClearSnapshots, ForgetState
  <2> QED BY <1>1, <2>1, <2>2
<1> QED BY <1>2, <1>3, ConfirmLedger, RestoreLedger DEF UserCompletes

-----------------------------------------------------------------------------
(* The restore request's lease.                                             *)

\* A write that keeps the job gives the restore request no lease.
LEMMA EligibleKept ==
  ASSUME TypeOK, RestoreEligible, user' = user,
         \/ UNCHANGED row
         \/ row' = Absent
         \/ row.present /\ \E o \in Owners \cup {NoOwner}, b \in BOOLEAN :
              o # Restorer /\ row' = [row EXCEPT !.owner = o, !.live = b]
         \/ row.present /\ \E o \in Owners \cup {NoOwner} :
              o # Restorer /\ row' = [row EXCEPT !.owner = o]
         \/ row.present /\ row' = [row EXCEPT !.live = FALSE]
         \/ row.present /\ row' = [row EXCEPT !.expired = TRUE]
         \/ row.present /\ row.owner # Restorer /\ \E j : row' = Replaced(row, j)
  PROVE  RestoreEligible'
<1> SUFFICES ASSUME user' = "restoring", row'.present, row'.owner = Restorer, row'.live
             PROVE  RestoreEligibility(row'.job) # "none"
  BY DEF RestoreEligible
<1>1. row.present => row \in PresentRows(Owners, Jobs)
  BY RowPresent DEF TypeOK
<1>2. Absent.present = FALSE
  BY DEF Absent
<1>3. row.present /\ row.owner = Restorer /\ row.live /\ row'.job = row.job
  BY <1>1, <1>2 DEF PresentRows, Replaced
<1> QED BY <1>3 DEF RestoreEligible

LEMMA OwnersApart ==
  /\ \A w \in Workers : w \in Owners /\ w # Restorer
  /\ NoOwner # Restorer /\ Orphan # Restorer /\ Orphan \in Owners
BY CleanupAssumption DEF Owners

LEMMA WorkerEligible ==
  ASSUME TypeOK, RestoreEligible, NEW w \in Workers,
         Progress(w) \/ PauseForQuota(w) \/ LoseAnswer(w) \/ Crash(w)
  PROVE  RestoreEligible'
<1>1. user' = user
  BY DEF Progress, Claim, FindMissing, StopRun, Sleep, MarkDurably, RefreshLock, Advance,
         PassFence, Refuse, CheckSafety, Checkpoint, Send, Answered, Verify, Commit, Sync,
         Delete, Release, PauseForQuota, LoseAnswer, Crash
<1>2. w \in Owners /\ w # Restorer /\ NoOwner # Restorer /\ Orphan # Restorer /\ Orphan \in Owners
  BY OwnersApart
<1>3. CASE Claim(w)
  <2>1. row.present /\ row' = [row EXCEPT !.owner = w, !.live = TRUE]
    BY <1>3 DEF Claim, Claimable, Visible, Claimed
  <2> QED BY <1>1, <1>2, <2>1, EligibleKept
<1>4. CASE MarkDurably(w) \/ Commit(w)
  <2>1. \/ UNCHANGED row
        \/ row.present /\ row.owner = w /\ \E j : row' = Replaced(row, j)
    BY <1>4 DEF MarkDurably, Commit, Owns, Visible
  <2> QED BY <1>1, <1>2, <2>1, EligibleKept
<1>5. CASE FindMissing(w) \/ Delete(w)
  <2>1. UNCHANGED row \/ row' = Absent
    BY <1>5 DEF FindMissing, Delete
  <2> QED BY <1>1, <2>1, EligibleKept
<1>6. CASE Release(w)
  <2>1. UNCHANGED row \/ (row.present /\ row' = [row EXCEPT !.owner = NoOwner, !.live = FALSE])
    BY <1>6 DEF Release, Released
  <2> QED BY <1>1, <1>2, <2>1, EligibleKept
<1>7. CASE Crash(w)
  <2>1. UNCHANGED row \/ (row.present /\ row' = [row EXCEPT !.owner = Orphan])
    BY <1>7 DEF Crash
  <2> QED BY <1>1, <1>2, <2>1, EligibleKept
<1>8. CASE \/ StopRun(w) \/ Sleep(w) \/ RefreshLock(w) \/ Advance(w) \/ PassFence(w)
           \/ Refuse(w) \/ CheckSafety(w) \/ Checkpoint(w) \/ Send(w) \/ Answered(w)
           \/ Verify(w) \/ Sync(w) \/ PauseForQuota(w) \/ LoseAnswer(w)
  <2>1. UNCHANGED row
    BY <1>8 DEF StopRun, Sleep, RefreshLock, Advance, PassFence, Refuse, CheckSafety,
         Checkpoint, Send, Answered, Verify, Sync, PauseForQuota, LoseAnswer
  <2> QED BY <1>1, <2>1, EligibleKept
<1> QED BY <1>3, <1>4, <1>5, <1>6, <1>7, <1>8 DEF Progress

LEMMA RequestEligible ==
  ASSUME TypeOK, RestoreEligible,
         \/ \E r \in inflight : RequestLands(r)
         \/ LeaseLapses \/ OrphanLapses \/ WindowElapses \/ StateExpires \/ Purge
         \/ Accept \/ Confirm \/ Redispatch \/ ClaimRestore \/ AbandonRestore
         \/ Discard \/ Disconnect \/ UserCompletes
  PROVE  RestoreEligible'
<1>1. CASE \/ \E r \in inflight : RequestLands(r)
           \/ LeaseLapses \/ OrphanLapses \/ WindowElapses \/ StateExpires \/ Purge
           \/ Accept \/ Redispatch
  <2>1. \/ UNCHANGED row
        \/ row' = Absent
        \/ row.present /\ row' = [row EXCEPT !.live = FALSE]
        \/ row.present /\ row' = [row EXCEPT !.expired = TRUE]
    BY <1>1 DEF RequestLands, LeaseLapses, OrphanLapses, WindowElapses, StateExpires, Purge,
                Accept, Redispatch, Visible
  <2>2. user' = user
    BY <1>1 DEF RequestLands, LeaseLapses, OrphanLapses, WindowElapses, StateExpires, Purge,
                Accept, Redispatch
  <2> QED BY <2>1, <2>2, EligibleKept
<1>2. CASE Confirm
  <2>1. row.job.status = "ready" /\ row' = Replaced(row, PrepareConfirmed(row.job)) /\ user' = user
        /\ row.present
    BY <1>2 DEF Confirm, Visible
  <2>2. RestoreEligibility(row.job) = "none"
    BY <2>1 DEF RestoreEligibility, RecoveryRestoreStatuses
  <2>3. row \in PresentRows(Owners, Jobs)
    BY <2>1, RowPresent DEF TypeOK
  <2>4. row'.owner = row.owner /\ row'.live = row.live
    BY <2>1, <2>3 DEF Replaced, PresentRows
  <2> QED BY <2>1, <2>2, <2>4 DEF RestoreEligible
<1>3. CASE ClaimRestore
  <2>1. row.present /\ row' = Claimed(row, Restorer) /\ RestoreEligibility(row.job) # "none"
    BY <1>3 DEF ClaimRestore, Claimable, Visible
  <2>2. row \in PresentRows(Owners, Jobs)
    BY <2>1, RowPresent DEF TypeOK
  <2>3. row'.job = row.job
    BY <2>1, <2>2 DEF Claimed, PresentRows
  <2> QED BY <2>1, <2>3 DEF RestoreEligible
<1>4. CASE \/ AbandonRestore \/ CommitRestore \/ StartRestore \/ Discard \/ DiscardState
           \/ DiscardJob \/ Disconnect \/ CancelJobs \/ ClearSnapshots \/ ForgetState
  <2>1. user' # "restoring"
    BY <1>4 DEF AbandonRestore, CommitRestore, StartRestore, Discard, DiscardState,
                DiscardJob, Disconnect, CancelJobs, ClearSnapshots, ForgetState
  <2> QED BY <2>1 DEF RestoreEligible
<1> QED BY <1>1, <1>2, <1>3, <1>4 DEF UserCompletes

-----------------------------------------------------------------------------
(* The invariant.                                                           *)

LEMMA InitLedger ==
  ASSUME Init
  PROVE  RecordInv /\ LedgerInv
<1>1. row.present /\ row.job = AcceptedJob
  BY DEF Init, Created
<1>2. \A w \in Workers : worker[w].pc = "off" /\ worker[w].job = AcceptedJob
  BY DEF Init, NoStep
<1>3. trash = {} /\ history = <<>> /\ inflight = {} /\ user = "none"
  BY DEF Init
<1>4. \A w \in Workers : ~Current(w) /\ OperationPhase(worker[w])
  BY <1>2 DEF Current, OperationPhase
<1>5. RecordInv
  BY <1>1, <1>2, <1>3, <1>4, AcceptedLedger
     DEF RecordInv, JobsLedger, ResultsContinue, RestoreEligible
<1>6. 1..Len(history) = {} /\ \A kind : Happened(kind) = {}
  BY <1>3 DEF Happened, Events
<1>7. MailInv
  <2>1. RequestsAccounted
    BY <1>3, <1>6 DEF RequestsAccounted
  <2>2. Happened("trash") = {} /\ Happened("undo") = {}
    BY <1>6
  <2>3. TrashAccounted
    BY <1>3, <2>2 DEF TrashAccounted
  <2> QED BY <2>1, <2>3 DEF MailInv
<1>8. Evidenced(AcceptedJob)
  <2>1. \A c \in Chunks : AcceptedJob.chunk[c].checkpoint = 0 /\ AcceptedJob.chunk[c].undoCheckpoint = 0
    BY DEF AcceptedJob, PendingChunk
  <2> QED BY <2>1 DEF Evidenced, Covers
<1>9. RequestsNamed
  BY <1>2, <1>3 DEF RequestsNamed, Permit
<1> QED BY <1>1, <1>2, <1>4, <1>5, <1>7, <1>8, <1>9, AcceptedTruth
        DEF LedgerInv, EvidenceKept, LedgersTruthful

LEMMA StepLedger ==
  ASSUME TypeOK, WorkOK, DispatchInv, RecordInv, LedgerInv, [Next]_vars
  PROVE  RecordInv' /\ LedgerInv' /\ RowStands
<1>1. CASE \E w \in Workers : Progress(w) \/ PauseForQuota(w) \/ LoseAnswer(w) \/ Crash(w)
  <2>1. PICK w \in Workers : Progress(w) \/ PauseForQuota(w) \/ LoseAnswer(w) \/ Crash(w)
    BY <1>1
  <2>2. StepStands
    BY <2>1, CoordinatorLedger, ExecutorLedger, EndLedger DEF Progress
  <2>3. RestoreEligible'
    BY <2>1, WorkerEligible DEF RecordInv
  <2> QED BY <2>2, <2>3 DEF StepStands, RecordInv
<1>2. CASE \/ \E r \in inflight : RequestLands(r)
           \/ LeaseLapses \/ OrphanLapses \/ WindowElapses \/ StateExpires \/ Purge
           \/ Accept \/ Confirm \/ Redispatch \/ ClaimRestore \/ AbandonRestore
           \/ Discard \/ Disconnect \/ UserCompletes
  <2>1. StepStands
    BY <1>2, EnvironmentLedger, UserLedger
  <2>2. RestoreEligible'
    BY <1>2, RequestEligible DEF RecordInv
  <2> QED BY <2>1, <2>2 DEF StepStands, RecordInv
<1>3. CASE UNCHANGED vars
  <2>1. Left /\ SameJobOrGone /\ SameMail /\ UNCHANGED <<row, user>>
    BY <1>3, SameWorkersLeft DEF vars, SameJobOrGone, SameMail
  <2>2. StepStands
    BY <2>1, QuietLedger DEF RecordInv
  <2>3. RestoreEligible'
    BY <2>1 DEF RecordInv, RestoreEligible
  <2> QED BY <2>2, <2>3 DEF StepStands, RecordInv
<1> QED BY <1>1, <1>2, <1>3 DEF Next

\* The whole invariant, from which every property of the record follows.
CleanupInv == TypeOK /\ WorkOK /\ DispatchInv /\ RecordInv /\ LedgerInv

LEMMA InitCleanup == Init => CleanupInv
BY InitTyped, InitDispatch, InitLedger DEF CleanupInv

LEMMA StepCleanup == CleanupInv /\ [Next]_vars => CleanupInv' /\ RowStands
<1> SUFFICES ASSUME CleanupInv, [Next]_vars PROVE CleanupInv' /\ RowStands
  OBVIOUS
<1>1. TypeOK /\ WorkOK /\ DispatchInv /\ RecordInv /\ LedgerInv
  BY DEF CleanupInv
<1>2. TypeOK' /\ WorkOK' /\ DispatchInv'
  BY <1>1, StepTyped, StepDispatch
<1>3. RecordInv' /\ LedgerInv' /\ RowStands
  BY <1>1, StepLedger
<1> QED BY <1>2, <1>3 DEF CleanupInv

LEMMA InvRequests == CleanupInv => RequestsInLedger
<1> SUFFICES ASSUME CleanupInv, row.present PROVE EvidenceCoversRequest /\ RequestsMatchLedger
  BY DEF RequestsInLedger, EvidenceCoversRequest, RequestsMatchLedger
<1>1. ASSUME NEW c \in Chunks
      PROVE  /\ sent["trash"][c] > 0 =>
                  /\ row.job.chunk[c].dispatched
                  /\ EventsAfter(row.job.chunk[c].checkpoint, "trash", Targets[c])
             /\ sent["undo"][c] > 0 =>
                  /\ row.job.chunk[c].undoDispatched
                  /\ EventsAfter(row.job.chunk[c].undoCheckpoint, "undo", Targets[c])
  <2>1. /\ sent["trash"][c] > 0 => row.job.chunk[c].dispatched
        /\ sent["undo"][c] > 0 => row.job.chunk[c].undoDispatched
    BY DEF CleanupInv, DispatchInv, RequestsOK, Dispatched, Kinds
  <2>2. ChunkLedger(row.job, c)
    BY DEF CleanupInv, RecordInv, JobsLedger, JobLedger
  <2>3. Covers(row.job.chunk[c].checkpoint, "trash", c) /\ Covers(row.job.chunk[c].undoCheckpoint, "undo", c)
    BY DEF CleanupInv, LedgerInv, EvidenceKept, Evidenced
  <2> QED BY <2>1, <2>2, <2>3 DEF ChunkLedger, Covers
<1>2. EvidenceCoversRequest
  BY <1>1 DEF EvidenceCoversRequest
<1>3. RequestsMatchLedger
  BY DEF CleanupInv, LedgerInv, RequestsNamed, Named, RequestsMatchLedger
<1> QED BY <1>2, <1>3

LEMMA InvLedger == CleanupInv => LedgerIsTrue
<1> SUFFICES ASSUME CleanupInv, row.present, NEW c \in Chunks
             PROVE  LET chunk == row.job.chunk[c] IN
                    /\ chunk.restored \subseteq chunk.moved /\ chunk.moved \subseteq chunk.safe
                    /\ chunk.moved \subseteq Happened("trash")
                    /\ chunk.restored \subseteq Happened("undo")
  BY DEF LedgerIsTrue, Happened, Events
<1>1. ChunkLedger(row.job, c) /\ Truthful(row.job)
  BY DEF CleanupInv, RecordInv, JobsLedger, JobLedger, LedgerInv, LedgersTruthful
<1> QED BY <1>1 DEF ChunkLedger, Truthful

LEMMA InvOutcome == CleanupInv => OutcomeIsTrue
<1> SUFFICES ASSUME CleanupInv, row.present, NEW c \in Chunks
             PROVE  /\ row.job.status = "complete" => row.job.chunk[c].safe \subseteq trash
                    /\ row.job.status = "undo_complete" /\ row.job.restoreMode = "undo" =>
                         row.job.chunk[c].safe \cap trash = {}
  BY DEF OutcomeIsTrue
<1>1. row.job \in Jobs /\ JobPhase(row.job) /\ Truthful(row.job)
      /\ \A d \in Chunks : ChunkLedger(row.job, d)
  BY RowPresent, RowFields
     DEF CleanupInv, TypeOK, RecordInv, JobsLedger, JobLedger, LedgerInv, LedgersTruthful
<1>2. Happened("undo") = Happened("trash") \ trash
  BY DEF CleanupInv, LedgerInv, MailInv, TrashAccounted
<1>3. CASE row.job.status = "complete"
  <2>1. RestorePausedState(row.job).status = "complete"
    BY <1>1, <1>3, RestoredStatus
  <2>2. row.job.restoreMode = "none" /\ row.job.chunk[c].status = "complete"
    BY <1>1, <2>1 DEF JobPhase
  <2>3. \A d \in Chunks : ~(sent["undo"][d] > 0)
    <3>1. \A d \in Chunks : ~row.job.chunk[d].undoDispatched
      BY <1>1, <2>2 DEF ChunkLedger
    <3> QED BY <3>1 DEF CleanupInv, DispatchInv, RequestsOK, Dispatched, Kinds
  <2>4. \A i \in 1..Len(history) : history[i].kind # "undo"
    BY <2>3 DEF CleanupInv, LedgerInv, MailInv, RequestsAccounted
  <2>5. Happened("undo") = {}
    BY <2>4, HappenedIff
  <2>6. row.job.chunk[c].safe \subseteq Happened("trash")
    BY <1>1, <2>2 DEF ChunkLedger, Truthful
  <2> QED BY <1>2, <1>3, <2>5, <2>6
<1>4. CASE row.job.status = "undo_complete" /\ row.job.restoreMode = "undo"
  <2>1. RestorePausedState(row.job).status = "undo_complete"
    BY <1>1, <1>4, RestoredStatus
  <2>2. row.job.chunk[c].restored = row.job.chunk[c].safe
    BY <1>1, <1>4, <2>1 DEF JobPhase
  <2> QED BY <1>1, <1>2, <1>4, <2>2 DEF Truthful
<1> QED BY <1>3, <1>4

-----------------------------------------------------------------------------

\* The record of a cleanup is sound for any number of chunks, messages,
\* workflow runs and failures: what the coordinator, the executor and the
\* users' requests write continues the row, is owed to the requests sent and
\* is what the mailbox has seen.
THEOREM CleanupRecord == Spec => []CleanupInv
BY InitCleanup, StepCleanup, PTL DEF Spec

\* No write of the row loses what an earlier one recorded: replaceIfVersion
\* lets through only what continues the version it names, and Confirm and
\* Undo, which write without a step's result, find nothing to lose.
THEOREM RecordKept == Spec => RecordStands
<1>1. RowStands =>
        (row.present /\ row'.present =>
           /\ row.job.confirmed => row'.job.confirmed
           /\ \A c \in Chunks :
                LET old == row.job.chunk[c]
                    new == row'.job.chunk[c] IN
                /\ row.job.confirmed /\ old.dispatched =>
                     new.dispatched /\ new.safe = old.safe /\ new.checkpoint = old.checkpoint
                /\ row.job.confirmed /\ old.undoDispatched =>
                     new.undoDispatched /\ new.undoCheckpoint = old.undoCheckpoint
                /\ row.job.confirmed => old.moved \subseteq new.moved /\ old.restored \subseteq new.restored
                /\ row.job.restoreMode # "none" =>
                     new.dispatched = old.dispatched /\ new.moved = old.moved)
  BY DEF RowStands, Continues
<1> QED BY <1>1, InitCleanup, StepCleanup, PTL DEF Spec, RecordStands

\* Once a chunk's request was sent the row has its marker and a checkpoint
\* older than its events, and a request still on its way names what the row
\* names, whichever writes came in between.
THEOREM RequestsRecorded == Spec => []RequestsInLedger
BY InvRequests, CleanupRecord, PTL

\* The ledger claims no more than the mailbox has seen: verified-moved
\* messages were moved, verified-restored ones were moved and restored, and
\* all were found safe by the fresh check.
THEOREM LedgerTrue == Spec => []LedgerIsTrue
BY InvLedger, CleanupRecord, PTL

\* A job reported complete has its safe messages in Trash, and one reported
\* undo_complete after a full Undo has none there, although the provider may
\* process a request long after it was given up.
THEOREM OutcomeTrue == Spec => []OutcomeIsTrue
BY InvOutcome, CleanupRecord, PTL
=============================================================================
