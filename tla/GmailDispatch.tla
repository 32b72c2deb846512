---------------------------- MODULE GmailDispatch ----------------------------
(***************************************************************************)
(* Why no chunk is moved or restored by two requests: the inductive         *)
(* strengthening of AtMostOneRequest.  A request needs a permit, which only *)
(* the durable marker gives; the marker is written once because every write *)
(* names the version it read, and no write takes it away.                   *)
(***************************************************************************)
EXTENDS GmailCleanup

-----------------------------------------------------------------------------
(* What holds of every job record, the row's and the steps' copies.         *)

Sensitive(j) == ChunksIn(j, {"mutating", "verifying"})

Dispatched(j, kind, c) ==
  IF kind = "trash" THEN j.chunk[c].dispatched ELSE j.chunk[c].undoDispatched

\* The chunk the planner looks at is the chunk the executor works on: at most
\* one is being moved, none before its safety check or after its
\* verification, and only in a confirmed job, which is never "ready" again.
JobInv(j) ==
  /\ \A c, d \in Sensitive(j) : c = d
  /\ RestorePausedState(j).status \in {"created", "safety_checking", "ready", "chunk_complete"}
       => Sensitive(j) = {}
  /\ Sensitive(j) # {} => j.confirmed
  /\ (\E c \in Chunks : j.chunk[c].dispatched) => j.confirmed
  /\ j.status = "ready" => ~j.confirmed

JobsOK ==
  /\ row.present => JobInv(row.job)
  /\ \A w \in Workers : JobInv(worker[w].job)

-----------------------------------------------------------------------------
(* What holds of a step.                                                    *)

\* The operation under way is one the planner chooses for the step's job.
OpsOK ==
  \A w \in Workers :
    LET st == worker[w]
        status == RestorePausedState(st.job).status
    IN
    /\ st.pc = "marked" => st.op \in Dispatches
    /\ st.pc \in {"executing", "fenced"} =>
         /\ st.op = "preflight_safety" =>
              ~st.job.confirmed /\ status \in {"created", "safety_checking"}
         /\ st.op = "safety_check" => st.job.confirmed /\ status = "safety_checking"
         /\ st.op = "advance_chunk" => status = "chunk_complete"

Copying == {"claimed", "marked", "executing", "fenced", "awaiting"}

\* A step's copy is the row's job as long as the version is; the executor's
\* result still has its markers.
CopiesOK ==
  row.present => \A w \in Workers :
    LET st == worker[w] IN
    /\ st.pc \in Copying \cup {"executed"} => st.version <= row.version
    /\ st.pc \in Copying /\ st.version = row.version => st.job = row.job
    /\ st.pc = "executed" /\ st.version = row.version =>
         \A kind \in Kinds, c \in Chunks :
           Dispatched(row.job, kind, c) => Dispatched(st.job, kind, c)

\* A step that may still send a chunk's request.
Permit(w, kind, c) ==
  /\ worker[w].pc \in {"marked", "executing", "fenced"}
  /\ worker[w].op = IF kind = "trash" THEN "dispatch_trash" ELSE "dispatch_undo"
  /\ WorkChunk(worker[w].job, worker[w].op) = c

\* A permit is the only one for its chunk and unused; behind every permit and
\* every request there is the marker.
RequestsOK ==
  \A kind \in Kinds, c \in Chunks :
    /\ sent[kind][c] <= 1
    /\ sent[kind][c] > 0 /\ row.present => Dispatched(row.job, kind, c)
    /\ \A w \in Workers : Permit(w, kind, c) =>
         /\ sent[kind][c] = 0
         /\ row.present => Dispatched(row.job, kind, c)
         /\ \A v \in Workers : Permit(v, kind, c) => v = w

\* The durable dispatch protocol, of which at-most-once is a consequence.
DispatchInv == JobsOK /\ OpsOK /\ CopiesOK /\ RequestsOK
=============================================================================
