----------------------------- MODULE DevRecord -----------------------------
(***************************************************************************)
(* What a development job, the operations under way on it, the copies they  *)
(* hold and what Gmail was asked have to do with each other: the inductive  *)
(* invariant of DevCleanup.                                                 *)
(***************************************************************************)
EXTENDS DevCleanup

Tallies == [verified : Nat, failed : Nat, uncertain : Nat]
Unmoved == {"ready", "insufficient", "failed", "benchmark_complete", "running"}
Statuses == Unmoved \cup {"completed", "partial", "undoing", "undone", "undo_failed", "undo_partial"}
Jobs ==
  [status : Statuses, scan : Nat, picks : SUBSET Letters, resolved : Nat, fresh : BOOLEAN, expired : BOOLEAN,
   wanted : Nat, bench : BOOLEAN, started : BOOLEAN, attempted : Nat, tally : Tallies,
   proof : {"none", "running", "failed", "success"}, moved : [Groups -> Nat], restored : [Groups -> Nat],
   undo : Tallies]
Witnesses ==
  [batches : Nat, letters : SUBSET Letters, answered : BOOLEAN, removes : Nat, in : SUBSET Letters,
   out : SUBSET Letters, shield : SUBSET Letters, dropped : BOOLEAN]

Kinds == {"trash", "undo", "proof"}
Early == {"begin", "context", "recheck"}
Phases(kind) ==
  CASE kind = "trash" -> Early \cup {"batch", "resend", "stale", "verify"}
    [] kind = "undo" -> {"begin", "context", "reread", "untrash", "fallback"}
    [] kind = "proof" -> {"begin", "checkpoint", "remove", "check", "shadow"}
Operations(kind) ==
  [pc : Phases(kind), job : Jobs, todo : SUBSET (Letters \cup Groups), yes : SUBSET Letters, no : SUBSET Letters,
   unsure : SUBSET Letters, late : SUBSET Letters, already : SUBSET Letters, hazy : SUBSET Letters,
   tries : Nat]

Busy(kind, j) == op[<<kind, j>>] # NoOp
Posted(j) == \E q \in DOMAIN posts : posts[q] # NoJob /\ posts[q].id = j
Moved(j) == witness[j].batches # 0

-----------------------------------------------------------------------------
\* A record of a job, the store's or an operation's copy, before and after the batch.
RecordFits(j, b) ==
  /\ b \in Jobs /\ b.resolved = Cardinality(b.picks)
  /\ ~Moved(j) => /\ b.status \in Unmoved /\ b.proof = "none"
                  /\ b.tally = NoTally /\ b.moved = NoDelta /\ b.restored = NoDelta
                  /\ b.started => b.status = "running" /\ ~b.bench
  /\ Moved(j) => /\ b.picks = witness[j].letters /\ b.attempted = Cardinality(b.picks)
                 /\ b.started /\ ~b.bench /\ b.status \notin {"ready", "insufficient", "benchmark_complete"}

\* What it says once the messages were verified.
AnswersFit(j, b) ==
  LET w == witness[j]
  IN /\ b.moved = ByGroup(w.in) /\ \A g \in Groups : b.restored[g] <= b.moved[g]
     /\ b.tally # NoTally => /\ b.tally.verified + b.tally.failed + b.tally.uncertain = b.attempted
                             /\ b.tally.verified = Cardinality(w.in)
     /\ b.status = "completed" => b.picks \subseteq w.in
     /\ b.status = "undone" => b.picks \subseteq w.out \/ b.proof # "none"

\* A status that somebody has to end.
InHand(j) ==
  jobs[j] # NoJob =>
    /\ jobs[j].status = "running" => Busy("trash", j) \/ "stale" \in around.faults
    /\ jobs[j].status = "undoing" => Busy("undo", j)
    /\ jobs[j].proof = "running" => Busy("proof", j)

\* A job that will not be moved: it was discarded, or is a benchmark's.
Harmless(j) ==
  /\ ~Moved(j) /\ ~Posted(j) /\ \A kind \in Kinds : ~Busy(kind, j)
  /\ jobs[j] # NoJob => jobs[j].bench

JobFits(j) ==
  /\ jobs[j] # NoJob => RecordFits(j, jobs[j]) /\ (Moved(j) /\ ~Busy("trash", j) => AnswersFit(j, jobs[j]))
  /\ j > made => jobs[j] = NoJob /\ witness[j] = Unasked /\ Harmless(j)
  /\ ~Moved(j) => witness[j].in = {}
  /\ witness[j].dropped => Harmless(j)
  /\ InHand(j)

-----------------------------------------------------------------------------
\* Two records of a job that differ by the clock alone.
Alike(b, c) ==
  /\ b.status = c.status /\ b.scan = c.scan /\ b.picks = c.picks /\ b.resolved = c.resolved
  /\ b.wanted = c.wanted /\ b.bench = c.bench /\ b.started = c.started /\ b.attempted = c.attempted
  /\ b.tally = c.tally /\ b.proof = c.proof /\ b.moved = c.moved /\ b.restored = c.restored /\ b.undo = c.undo

\* A Trash operation is alone with its job, and its copy is the job but for the clock.
TrashFits(j) ==
  LET o == op[<<"trash", j>>]
      w == witness[j]
  IN o # NoOp =>
       /\ o \in Operations("trash")
       /\ ~Busy("undo", j) /\ ~Busy("proof", j) /\ ~Posted(j) /\ ~w.dropped
       /\ RecordFits(j, o.job) /\ Cardinality(o.job.picks) = o.job.wanted /\ ~o.job.bench
       /\ o.job.status = (IF o.pc = "begin" THEN "ready" ELSE "running") /\ o.job.proof = "none"
       /\ o.job.tally = NoTally /\ o.job.moved = NoDelta /\ o.job.restored = NoDelta
       /\ jobs[j] # NoJob => Alike(jobs[j], o.job)
       /\ Moved(j) <=> o.pc \in {"resend", "stale", "verify"}
       /\ o.pc \in Early => /\ ~o.job.started
                            /\ o.yes \cup o.late \subseteq o.job.picks /\ o.yes \cap w.shield = {}
       /\ o.pc # "verify" => o.no = {} /\ o.unsure = {} /\ w.in = {}
       /\ o.pc \in {"batch", "resend"} => /\ o.job.picks \cap w.shield = {}
                                        /\ o.job.started /\ o.job.attempted = Cardinality(o.job.picks)
       /\ o.pc = "resend" => ~w.answered /\ w.batches = o.tries /\ o.tries < RetryAttempts
       /\ o.pc \in {"batch", "resend", "stale"} => o.todo = o.job.picks
       /\ o.pc = "verify" =>
            /\ o.yes = w.in /\ o.todo \cup o.yes \cup o.no \cup o.unsure = o.job.picks
            /\ o.todo \cap (o.yes \cup o.no \cup o.unsure) = {}
            /\ o.yes \cap (o.no \cup o.unsure) = {} /\ o.no \cap o.unsure = {}

\* Undo and the proof have a copy of a job whose messages were all read in Trash.
CopyFits(j, b) ==
  /\ Moved(j) /\ ~Busy("trash", j)
  /\ RecordFits(j, b) /\ AnswersFit(j, b) /\ b.status = "completed" /\ b.proof # "running"

UndoFits(j) ==
  LET o == op[<<"undo", j>>]
  IN o # NoOp =>
       /\ o \in Operations("undo") /\ o.todo \subseteq Letters /\ CopyFits(j, o.job)
       /\ o.job.proof # "none" /\ jobs[j] # NoJob => jobs[j].proof # "none"
       /\ o.pc \in {"begin", "context"} => o.yes = {} /\ o.already = {}
       /\ o.pc = "reread" => o.job.proof # "none"
       /\ o.pc \in {"untrash", "fallback"} =>
            o.yes \subseteq witness[j].out /\ (o.already \subseteq witness[j].out \/ o.job.proof # "none")

ProofFits(j) ==
  LET o == op[<<"proof", j>>]
  IN o # NoOp => o \in Operations("proof") /\ o.todo \subseteq Letters /\ CopyFits(j, o.job)

PostsFit ==
  /\ DOMAIN posts = 1..2
  /\ \A q \in 1..2 : posts[q] # NoJob => posts[q].id \in DevJobs /\ CopyFits(posts[q].id, posts[q].job)

ResolutionFits ==
  LET o == op[Resolution]
  IN /\ o.pc \in {"none", "context", "resolve", "benchmark"}
     /\ o.pc \in {"context", "resolve"} => made < Cardinality(DevJobs)
     /\ o.pc # "none" => o.input \in Inputs
     /\ o.pc = "resolve" =>
          /\ DOMAIN o = {"pc", "input", "scan", "target", "todo", "found", "failed"}
          /\ o.scan \in Nat /\ o.found \in [Groups -> SUBSET Letters]
     /\ o.pc = "benchmark" =>
          /\ DOMAIN o = {"pc", "id", "job", "scan", "input", "todo", "yes", "late"}
          /\ o.scan \in Nat /\ o.id \in DevJobs /\ o.id <= made /\ Harmless(o.id)
          /\ RecordFits(o.id, o.job) /\ o.job.bench /\ o.yes \cup o.late \subseteq o.job.picks

\* What a confirmation found starred is never in the inbox again.
MailFits ==
  /\ mail \in [Letters -> Places]
  /\ \A j \in DevJobs : \A m \in witness[j].shield : mail[m] \in {"kept", "binned"}

Surroundings ==
  /\ DOMAIN around = {"inputs", "mail", "faults", "events", "jobs"}
  /\ around.inputs \subseteq Inputs /\ around.jobs \in 0..Cardinality(DevJobs)
  /\ DOMAIN report = {"scan", "complete", "stale"} /\ report.scan \in Nat

Shapes ==
  /\ DOMAIN jobs = DevJobs /\ DOMAIN op = Keys /\ made \in Nat
  /\ witness \in [DevJobs -> Witnesses]

DevInv ==
  /\ Shapes /\ Surroundings /\ MailFits /\ PostsFit /\ ResolutionFits
  /\ \A j \in DevJobs : JobFits(j) /\ TrashFits(j) /\ UndoFits(j) /\ ProofFits(j)
=============================================================================
