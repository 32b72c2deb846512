----------------------------- MODULE GmailLedger -----------------------------
(***************************************************************************)
(* Why the ledger of a Gmail cleanup can be believed: the inductive         *)
(* strengthening of RecordStands, RequestsInLedger, LedgerIsTrue and        *)
(* OutcomeIsTrue on top of DispatchInv.  It says what every stored or copied *)
(* job records, how a step's result continues the row, what the mailbox has  *)
(* seen of the requests sent, and what the row owes a request on its way.    *)
(***************************************************************************)
EXTENDS GmailDispatch

-----------------------------------------------------------------------------
(* What every job records, the row's and the steps' copies.                 *)

NotBegun == {"pending", "safety_checking", "ready"}

\* A chunk's ledger only grows along safe, moved and restored; it is empty
\* before its work begins, and a marker has its checkpoint.
ChunkLedger(j, c) ==
  LET k == j.chunk[c] IN
  /\ k.restored \subseteq k.moved /\ k.moved \subseteq k.safe /\ k.safe \subseteq Targets[c]
  /\ k.safe # {} => j.confirmed
  /\ k.status \in NotBegun => ~k.dispatched
  /\ k.status \in NotBegun \cup {"mutating", "verifying"} => k.moved = {}
  /\ k.status = "complete" => k.moved = k.safe
  /\ k.dispatched => k.checkpoint # 0
  /\ k.undoDispatched => k.undoCheckpoint # 0 /\ j.restoreMode # "none"
  /\ k.restored # {} => j.restoreMode # "none"

\* The status a paused job resumes in tells cleanup from restore.
JobPhase(j) ==
  LET status == RestorePausedState(j).status IN
  /\ j.restoreMode # "none" => status \in {"undoing", "undo_complete", "partial", "uncertain"}
  /\ status \in {"undoing", "undo_complete"} => j.restoreMode # "none"
  /\ status = "complete" => \A c \in Chunks : j.chunk[c].status = "complete"
  /\ j.restoreMode = "undo" => \A c \in Chunks : j.chunk[c].moved = j.chunk[c].safe
  /\ status = "undoing" => \A c \in Chunks : j.chunk[c].restored \in {{}, j.chunk[c].moved}
  /\ status = "undo_complete" => \A c \in Chunks : j.chunk[c].restored = j.chunk[c].moved

JobLedger(j) == JobPhase(j) /\ \A c \in Chunks : ChunkLedger(j, c)

\* A cleanup's operation works on a job being cleaned up, a restore's on one
\* being restored, and a checkpoint is taken of a chunk not yet marked.
OperationPhase(st) ==
  LET status == RestorePausedState(st.job).status
      c == WorkChunk(st.job, st.op)
  IN  st.pc \in {"marked", "executing", "fenced", "awaiting"} =>
        /\ st.op \in TrashOps => status \in {"mutating", "verifying"}
        /\ st.op \in UndoOps => status = "undoing"
        /\ st.op = "checkpoint_trash" /\ c \in Chunks => ~st.job.chunk[c].dispatched
        /\ st.op = "checkpoint_undo" /\ c \in Chunks => ~st.job.chunk[c].undoDispatched

JobsLedger ==
  /\ row.present => JobLedger(row.job)
  /\ \A w \in Workers : JobLedger(worker[w].job) /\ OperationPhase(worker[w])

-----------------------------------------------------------------------------
(* How a step's result continues the row.                                   *)

\* What RecordStands asks of a write, and that a restore stays a restore.
Continues(old, new) ==
  /\ old.confirmed => new.confirmed
  /\ old.restoreMode # "none" => new.restoreMode # "none"
  /\ \A c \in Chunks :
       LET o == old.chunk[c]
           n == new.chunk[c] IN
       /\ old.confirmed /\ o.dispatched =>
            n.dispatched /\ n.safe = o.safe /\ n.checkpoint = o.checkpoint
       /\ old.confirmed /\ o.undoDispatched =>
            n.undoDispatched /\ n.undoCheckpoint = o.undoCheckpoint
       /\ old.confirmed => o.moved \subseteq n.moved /\ o.restored \subseteq n.restored
       /\ old.restoreMode # "none" => n.dispatched = o.dispatched /\ n.moved = o.moved

Current(w) ==
  row.present /\ worker[w].pc = "executed" /\ worker[w].version = row.version

ResultsContinue == \A w \in Workers : Current(w) => Continues(row.job, worker[w].job)

\* A restore request that still holds its lease finds the job as it claimed it.
RestoreEligible ==
  user = "restoring" /\ row.present /\ row.owner = Restorer /\ row.live =>
    RestoreEligibility(row.job) # "none"

RecordInv == JobsLedger /\ ResultsContinue /\ RestoreEligible

-----------------------------------------------------------------------------
(* What the mailbox has seen of the requests.                               *)

Events(kind) == {i \in 1..Len(history) : history[i].kind = kind}
Happened(kind) == UNION {history[i].ids : i \in Events(kind)}

\* Events and requests on their way stem from requests sent, each for
\* targets of its chunk and each processed once.
RequestsAccounted ==
  /\ \A r \in inflight : sent[r.kind][r.chunk] > 0 /\ r.ids \subseteq Targets[r.chunk]
  /\ \A r, s \in inflight : r.kind = s.kind /\ r.chunk = s.chunk => r = s
  /\ \A i \in 1..Len(history) : \E c \in Chunks :
       sent[history[i].kind][c] > 0 /\ history[i].ids \subseteq Targets[c]
  /\ \A r \in inflight : r.kind = "trash" => Targets[r.chunk] \cap Happened("trash") = {}

\* Trash holds what was moved and not restored.
TrashAccounted ==
  /\ trash \subseteq Happened("trash")
  /\ Happened("undo") = Happened("trash") \ trash

MailInv == RequestsAccounted /\ TrashAccounted

-----------------------------------------------------------------------------
(* What the row owes a request, and the mailbox the ledger.                 *)

\* A checkpoint is no later than the mailbox and older than the events of
\* its chunk.
Covers(checkpoint, kind, c) ==
  checkpoint # 0 => checkpoint <= Len(history) + 1 /\ EventsAfter(checkpoint, kind, Targets[c])

Evidenced(j) ==
  \A c \in Chunks : /\ Covers(j.chunk[c].checkpoint, "trash", c)
                    /\ Covers(j.chunk[c].undoCheckpoint, "undo", c)

EvidenceKept ==
  /\ row.present => Evidenced(row.job)
  /\ \A w \in Workers : Current(w) => Evidenced(worker[w].job)

\* The ledger names a request's targets.
Named(j, r) ==
  IF r.kind = "trash" THEN j.confirmed /\ r.ids = j.chunk[r.chunk].safe
  ELSE j.restoreMode # "none" /\ r.ids \subseteq j.chunk[r.chunk].moved

\* A request on its way and one that may still be sent are named by the row.
RequestsNamed ==
  row.present =>
    /\ \A r \in inflight : Named(row.job, r)
    /\ \A w \in Workers, kind \in Kinds, c \in Chunks :
         Permit(w, kind, c) => Named(row.job, Request(w))

\* What a ledger calls moved or restored has happened.
Truthful(j) ==
  \A c \in Chunks : /\ j.chunk[c].moved \subseteq Happened("trash")
                    /\ j.chunk[c].restored \subseteq Happened("undo")

LedgersTruthful ==
  /\ row.present => Truthful(row.job)
  /\ \A w \in Workers : Truthful(worker[w].job)

LedgerInv == MailInv /\ EvidenceKept /\ RequestsNamed /\ LedgersTruthful
=============================================================================
