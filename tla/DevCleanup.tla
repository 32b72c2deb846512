---------------------------- MODULE DevCleanup ----------------------------
(***************************************************************************)
(* The development cleanup (gmail-cleanup.ts, gmail-cleanup-store.ts, the   *)
(* group resolution and the message calls under it, and the dev route of    *)
(* the bulk Undo proof): jobs in the memory of one Node process, and        *)
(* operations that interleave where they wait for Gmail or the database.    *)
(* A request that finds its operation running joins it and changes nothing; *)
(* operationStates, durations, request profiles and the counters of         *)
(* duplicate submissions are shown only and left out.                       *)
(***************************************************************************)
EXTENDS Naturals, Sequences, FiniteSets, FiniteSetsExt, SequencesExt

CONSTANTS
  Letters,        \* messages, numbered in the order a listing gives them
  SenderOf,       \* the sender group of a message
  Changeable,     \* messages whose only strong evidence is their Promotions label
  OfferOf,        \* the sender groups of the report: [count, rank]
  DevJobs,        \* 1 .. n
  ProofSize,      \* gmailBulkUndoProofSize, 25 in the code
  LegacyMaximum,  \* gmailCleanupMaxMessages
  RetryAttempts,  \* defaultRetryAttempts, 4 in the code
  DevScenarios,   \* selections asked for, mailbox, faults and their number
  NoJob

VARIABLES
  jobs,      \* gmailCleanupJobs
  op,        \* activeCleanupOperations, with the locals of each operation
  posts,     \* bulk-proof requests between their check and their connection
  mail,      \* each message: in the inbox, kept (starred), either of them in Trash, or gone
  report,    \* the scan the cleanup reads: which one, complete, stale
  made,      \* jobs created so far
  witness,   \* what Gmail was asked and what it said about each job
  around     \* the scenario and the faults left in it

devVars == <<jobs, op, posts, mail, report, made, witness, around>>

Groups == DOMAIN OfferOf
Places == {"inbox", "kept", "trash", "binned", "gone"}
Inputs == [groups : SUBSET Groups, wanted : Nat, bench : BOOLEAN]

ASSUME DevAssumption ==
  /\ IsFiniteSet(Letters) /\ SenderOf \in [Letters -> Groups]
  /\ IsFiniteSet(DevJobs) /\ DevJobs = 1..Cardinality(DevJobs)
  /\ RetryAttempts \in Nat \ {0}
  /\ \A s \in DevScenarios :
       /\ DOMAIN s = {"inputs", "mail", "faults", "events", "jobs"}
       /\ s.inputs \subseteq Inputs /\ s.mail \in [Letters -> Places] /\ s.jobs \in 0..Cardinality(DevJobs)

Resolution == <<"resolution", 0>>
Keys == {Resolution} \cup ({"trash", "undo", "proof"} \X DevJobs)
NoOp == [pc |-> "none"]
NoTally == [verified |-> 0, failed |-> 0, uncertain |-> 0]
NoDelta == [g \in Groups |-> 0]
Unasked ==
  [batches |-> 0, letters |-> {}, answered |-> FALSE, removes |-> 0, in |-> {}, out |-> {}, shield |-> {},
   dropped |-> FALSE]

DevInit ==
  /\ jobs = [j \in DevJobs |-> NoJob]
  /\ op = [k \in Keys |-> NoOp]
  /\ posts = [p \in 1..2 |-> NoJob]
  /\ around \in DevScenarios
  /\ mail = around.mail
  /\ report = [scan |-> 1, complete |-> TRUE, stale |-> FALSE]
  /\ made = 0
  /\ witness = [j \in DevJobs |-> Unasked]

-----------------------------------------------------------------------------
\* The faults of the surroundings: each costs one of the scenario's events.
Possible(fault) == fault \in around.faults /\ around.events > 0
Costs(cost) == around' = [around EXCEPT !.events = @ - cost]
Free == UNCHANGED around

\* isEligible: the group may be cleaned up.
Eligible(g) == OfferOf[g].rank \in {"very_high", "high"} /\ OfferOf[g].count > 0
Rank(g) == IF OfferOf[g].rank = "very_high" THEN 0 ELSE 1
Before(g, h) ==
  \/ Rank(g) < Rank(h)
  \/ Rank(g) = Rank(h) /\ OfferOf[g].count > OfferOf[h].count
  \/ Rank(g) = Rank(h) /\ OfferOf[g].count = OfferOf[h].count /\ g < h
ResolutionOrder(groups) == SetToSortSeq({g \in groups : Eligible(g)}, Before)

\* The round robin: one more message at a time to each group with room, n in all.
Dealt(order, start, room, n) ==
  LET Deal(s, g) ==
        IF s.left > 0 /\ s.target[g] < room[g]
        THEN [left |-> s.left - 1, target |-> [s.target EXCEPT ![g] = @ + 1]] ELSE s
  IN FoldLeft(Deal, [left |-> n, target |-> start], FlattenSeq([i \in 1..n |-> order])).target

FirstOf(letters, n) == {m \in letters : Cardinality({x \in letters : x < m}) < n}
ByGroup(letters) == [g \in Groups |-> Cardinality({m \in letters : SenderOf[m] = g})]
GroupsOf(letters) == {SenderOf[m] : m \in letters}
\* What the sender query lists and the metadata check lets through.
SafeNow(g) == {m \in Letters : SenderOf[m] = g /\ mail[m] = "inbox"}

-----------------------------------------------------------------------------
\* The store.
Findable(j) == jobs[j] # NoJob /\ ~jobs[j].expired
\* updateGmailCleanupJob writes over the current job, or over its caller's copy if that is gone.
Patched(base, patch) == [f \in DOMAIN base |-> IF f \in DOMAIN patch THEN patch[f] ELSE base[f]]
Updated(j, copy, patch) == Patched(IF jobs[j] = NoJob THEN copy ELSE jobs[j], patch)
Write(j, copy, patch) == jobs' = [jobs EXCEPT ![j] = Updated(j, copy, patch)]
Enter(k, record) == op' = [op EXCEPT ![k] = record]
Leave(k) == op' = [op EXCEPT ![k] = NoOp]
Started(job) ==
  [pc |-> "begin", job |-> job, todo |-> {}, yes |-> {}, no |-> {}, unsure |-> {}, late |-> {}, already |-> {},
   hazy |-> {}, tries |-> 0]
ActiveOn(j) == \E kind \in {"trash", "undo", "proof"} : op[<<kind, j>>] # NoOp
Tally(o) == [verified |-> Cardinality(o.yes), failed |-> Cardinality(o.no), uncertain |-> Cardinality(o.unsure)]
Restored(job, letters) ==
  LET more == ByGroup(letters)
  IN [g \in Groups |-> Min({job.moved[g], job.restored[g] + more[g]})]
Saw(j, place, letters) == witness' = [witness EXCEPT ![j][place] = @ \cup letters]

\* assertGmailCleanupContext: a complete report and a connection.
ContextOk == report.complete
ContextReads(good) ==
  \/ ContextOk /\ good /\ Free
  \/ ~ContextOk /\ ~good /\ Free
  \/ ContextOk /\ ~good /\ Possible("context") /\ Costs(1)

\* getActiveGmailConnection alone: after a Disconnect it may be gone, or be a new one.
ConnectionReads(good) ==
  \/ good /\ Free
  \/ ~good /\ (IF report.complete THEN Possible("context") /\ Costs(1) ELSE Free)

\* What reading a message's labels says; anything but the truth is a fault.
Truth(m) == CASE mail[m] = "gone" -> "refused" [] mail[m] \in {"trash", "binned"} -> "in" [] OTHER -> "out"
Reads(m, reading) ==
  \/ reading = Truth(m) /\ Free
  \/ reading # Truth(m) /\ reading \in {"refused", "unclear"} /\ Possible("read") /\ Costs(1)

-----------------------------------------------------------------------------
\* createGmailCleanupPreview: one resolution of the user at a time; another one joins it.
Preview(input) ==
  /\ op[Resolution] = NoOp /\ made < around.jobs
  /\ input.wanted \in 1..LegacyMaximum
  /\ Enter(Resolution, [pc |-> "context", input |-> input])
  /\ UNCHANGED <<jobs, posts, mail, report, made, witness, around>>

Offered(groups) == MapThenSumSet(LAMBDA g : OfferOf[g].count, groups)
PreviewContext ==
  LET input == op[Resolution].input
      order == ResolutionOrder(input.groups)
      target == Dealt(order, NoDelta, [g \in Groups |-> OfferOf[g].count], input.wanted)
  IN /\ op[Resolution].pc = "context"
     /\ \/ /\ ContextReads(TRUE) /\ ~report.stale
           /\ \A g \in input.groups : Eligible(g)
           /\ Offered(input.groups) >= input.wanted
           /\ Enter(Resolution,
                    [pc |-> "resolve", input |-> input, scan |-> report.scan, target |-> target,
                     todo |-> {g \in Groups : target[g] > 0}, found |-> [g \in Groups |-> {}], failed |-> {}])
        \/ /\ Leave(Resolution)
           /\ \/ ContextReads(FALSE)
              \/ /\ ContextReads(TRUE)
                 /\ report.stale \/ Offered(input.groups) < input.wanted \/ \E g \in input.groups : ~Eligible(g)
     /\ UNCHANGED <<jobs, posts, mail, report, made, witness>>

\* baseJobFields and createGmailCleanupJob.
Blank(input) ==
  [status |-> "failed", scan |-> 0, picks |-> {}, resolved |-> 0, fresh |-> TRUE, expired |-> FALSE,
   wanted |-> input.wanted, bench |-> input.bench, started |-> FALSE, attempted |-> 0, tally |-> NoTally,
   proof |-> "none", moved |-> NoDelta, restored |-> NoDelta, undo |-> NoTally]
Job(o, status, picks) ==
  [Blank(o.input) EXCEPT !.status = status, !.scan = o.scan, !.picks = picks, !.resolved = Cardinality(picks)]
Create(job) ==
  /\ made' = made + 1
  /\ jobs' = [jobs EXCEPT ![made + 1] = job]

\* The groups that may still give more are asked for what the others lack.
FoundIn(o) == MapThenSumSet(LAMBDA g : Cardinality(o.found[g]), Groups)
Exhausted(o, g) == g \in o.failed \/ Cardinality(o.found[g]) < o.target[g]
\* Mutant: a group that gave less is not made up for by another one.
MoreTargetsOfTheFirstRound(o) == o.target
MoreTargets(o) ==
  Dealt(ResolutionOrder(o.input.groups), o.target,
        [g \in Groups |-> IF Exhausted(o, g) THEN 0 ELSE OfferOf[g].count], o.input.wanted - FoundIn(o))
\* The first of what was found, the groups in their order, up to what was asked for.
Picks(o) ==
  LET found == UNION {o.found[g] : g \in {g \in o.input.groups : Eligible(g)}}
      Earlier(x, m) == Before(SenderOf[x], SenderOf[m]) \/ (SenderOf[x] = SenderOf[m] /\ x < m)
  IN {m \in found : Cardinality({x \in found : Earlier(x, m)}) < o.input.wanted}

\* resolveGmailCleanupSenderGroups: the last answer of a round begins the next or the job.
RoundEnds(o) ==
  LET more == MoreTargets(o)
      enough == FoundIn(o) >= o.input.wanted
      picks == Picks(o)
      ready == Cardinality(picks) = o.input.wanted
  IN IF ~enough /\ more # o.target
     THEN /\ Enter(Resolution, [o EXCEPT !.target = more, !.todo = {g \in Groups : more[g] # o.target[g]}])
          /\ UNCHANGED <<jobs, made>>
     ELSE /\ Create(Job(o, IF ready THEN "ready" ELSE "insufficient", picks))
          /\ IF ready /\ o.input.bench
             THEN Enter(Resolution,
                        [pc |-> "benchmark", id |-> made + 1, job |-> jobs'[made + 1], scan |-> o.scan,
                         input |-> o.input, todo |-> GroupsOf(picks), yes |-> {}, late |-> {}])
             ELSE Leave(Resolution)

\* A failure of one group alone leaves it out; any other fails the whole check.
LeavesItOut == Possible("local") /\ Costs(1)
FailsTheCheck == Possible("list") /\ Costs(1)
ResolveGroup(g) ==
  LET o == op[Resolution]
      rest == [o EXCEPT !.todo = @ \ {g}]
      Proceed(next) == IF next.todo = {} THEN RoundEnds(next) ELSE Enter(Resolution, next) /\ UNCHANGED <<jobs, made>>
  IN /\ o.pc = "resolve" /\ g \in o.todo
     /\ \/ Proceed([rest EXCEPT !.found[g] = FirstOf(SafeNow(g), o.target[g])]) /\ Free
        \/ /\ LeavesItOut
           /\ Proceed([rest EXCEPT !.found[g] = {}, !.failed = @ \cup {g}])
        \/ /\ FailsTheCheck
           /\ Create(Job(o, "failed", {}))
           /\ Leave(Resolution)
     /\ UNCHANGED <<posts, mail, report, witness>>

\* runConfirmationRecheck: the senders are listed again, then labels are read where a listing
\* is not enough. The operation may be in any of these states after its next read.
Rechecked(o) ==
  {LET listed == {m \in o.job.picks : SenderOf[m] = g} \cap SafeNow(g)
   IN [o EXCEPT !.todo = @ \ {g}, !.late = @ \cup (listed \cap Changeable), !.yes = @ \cup (listed \ Changeable)]
   : g \in o.todo}
  \cup {[o EXCEPT !.late = @ \ {m}, !.yes = IF mail[m] = "inbox" THEN @ \cup {m} ELSE @] : m \in o.late}
Settled(o) == o.todo = {} /\ o.late = {}

\* completeNonMutatingBenchmark, in the operation that created the job; when it fails, a
\* second job says so and the first one stays.
Benchmark ==
  LET o == op[Resolution]
      j == o.id
  IN /\ o.pc = "benchmark"
     /\ \/ \E next \in Rechecked(o) :
             /\ Free /\ UNCHANGED made
             /\ IF Settled(next)
                THEN /\ Leave(Resolution)
                     /\ Write(j, o.job,
                              [status |-> IF next.yes = o.job.picks THEN "benchmark_complete" ELSE "insufficient",
                               picks |-> next.yes, resolved |-> Cardinality(next.yes)])
                ELSE Enter(Resolution, next) /\ UNCHANGED jobs
        \/ /\ FailsTheCheck /\ made < Cardinality(DevJobs)
           /\ Leave(Resolution)
           /\ Create(Job(o, "failed", {}))
     /\ UNCHANGED <<posts, mail, report, witness>>

-----------------------------------------------------------------------------
\* confirmGmailCleanup: a running or finished job only answers, an old check is refused.
Confirm(j) ==
  /\ Findable(j) /\ op[<<"trash", j>>] = NoOp
  /\ jobs[j].status = "ready" /\ ~jobs[j].bench /\ jobs[j].fresh
  /\ jobs[j].resolved = jobs[j].wanted
  /\ Enter(<<"trash", j>>, Started(jobs[j]))
  /\ witness' = [witness EXCEPT ![j].shield = {m \in jobs[j].picks : mail[m] = "kept"}]
  /\ UNCHANGED <<jobs, posts, mail, report, made, around>>

TrashBegins(j) ==
  LET o == op[<<"trash", j>>]
      running == Updated(j, o.job, [status |-> "running"])
  IN /\ o.pc = "begin"
     /\ jobs' = [jobs EXCEPT ![j] = running]
     /\ Enter(<<"trash", j>>, [o EXCEPT !.pc = "context", !.job = running])
     /\ UNCHANGED <<posts, mail, report, made, witness, around>>

\* The report must be the one the check was made on, and not stale; otherwise the job is
\* ready again.
TrashContext(j) ==
  LET o == op[<<"trash", j>>]
      agreed == report.scan = o.job.scan /\ ~report.stale
  IN /\ o.pc = "context"
     /\ \/ /\ ContextReads(TRUE) /\ agreed
           /\ Enter(<<"trash", j>>, [o EXCEPT !.pc = "recheck", !.todo = GroupsOf(o.job.picks)])
           /\ UNCHANGED jobs
        \/ /\ ContextReads(FALSE) \/ (ContextReads(TRUE) /\ ~agreed)
           /\ Leave(<<"trash", j>>)
           /\ Write(j, o.job, [status |-> "ready"])
     /\ UNCHANGED <<posts, mail, report, made, witness>>

\* Mutant: what still passes is moved, though it is less than what was agreed.
RecheckEndsWithLess(o) ==
  IF o.yes = {}
  THEN [status |-> "insufficient", resolved |-> 0, picks |-> o.yes]
  ELSE [started |-> TRUE, attempted |-> Cardinality(o.yes)]
\* Nothing is asked of Gmail unless every message passed again; then the start is marked.
RecheckEnds(o) ==
  IF Cardinality(o.yes) # o.job.wanted
  THEN [status |-> "insufficient", resolved |-> Cardinality(o.yes), picks |-> o.yes]
  ELSE [started |-> TRUE, attempted |-> Cardinality(o.yes)]

TrashRecheck(j) ==
  LET o == op[<<"trash", j>>]
  IN /\ o.pc = "recheck"
     /\ \/ \E next \in Rechecked(o) :
             /\ Free
             /\ IF Settled(next)
                THEN /\ jobs' = [jobs EXCEPT ![j] = Updated(j, o.job, RecheckEnds(next))]
                     /\ IF jobs'[j].started
                        THEN Enter(<<"trash", j>>, [next EXCEPT !.pc = "batch", !.job = jobs'[j], !.todo = next.yes])
                        ELSE Leave(<<"trash", j>>)
                ELSE Enter(<<"trash", j>>, next) /\ UNCHANGED jobs
        \/ /\ FailsTheCheck
           /\ Leave(<<"trash", j>>)
           /\ Write(j, o.job, [status |-> "failed"])
     /\ UNCHANGED <<posts, mail, report, made, witness>>

-----------------------------------------------------------------------------
\* A request that changes labels: answered, refused, or without an answer either way.
ToTrash == [place \in {"inbox", "kept"} |-> IF place = "inbox" THEN "trash" ELSE "binned"]
OutOfTrash == [place \in {"trash", "binned"} |-> IF place = "trash" THEN "inbox" ELSE "kept"]
Put(letters, change) == [m \in Letters |-> IF m \in letters /\ mail[m] \in DOMAIN change THEN change[mail[m]] ELSE mail[m]]
Applied(letters, change, answered) ==
  \/ answered /\ mail' = Put(letters, change) /\ Free
  \/ ~answered /\ Possible("batch") /\ Costs(1) /\ mail' \in {mail, Put(letters, change)}

\* fetchWithRetry: an attempt without an answer is followed by a pause and another one of the
\* same request, RetryAttempts in all. The failure of the last one, or one that is not retryable,
\* is remembered and the messages are verified all the same.
TrashAttempt(j, tries) ==
  LET o == op[<<"trash", j>>]
  IN /\ \E answered \in BOOLEAN :
          /\ Applied(o.todo, ToTrash, answered)
          /\ \/ Enter(<<"trash", j>>, [o EXCEPT !.pc = "stale"])
             \/ /\ ~answered /\ tries < RetryAttempts
                /\ Enter(<<"trash", j>>, [o EXCEPT !.pc = "resend", !.tries = tries])
          /\ witness' = [witness EXCEPT ![j].batches = @ + 1, ![j].letters = o.todo, ![j].answered = answered]
     /\ UNCHANGED <<jobs, posts, report, made>>
TrashBatch(j) == op[<<"trash", j>>].pc = "batch" /\ TrashAttempt(j, 1)
TrashResend(j) == op[<<"trash", j>>].pc = "resend" /\ TrashAttempt(j, op[<<"trash", j>>].tries + 1)

\* markLiveReportStale stands outside every try: when it fails the operation ends and the job
\* stays "running".
TrashStale(j) ==
  LET o == op[<<"trash", j>>]
  IN /\ o.pc = "stale"
     /\ \/ /\ Free
           /\ report' = [report EXCEPT !.stale = TRUE]
           /\ Enter(<<"trash", j>>, [o EXCEPT !.pc = "verify", !.yes = {}])
        \/ /\ Possible("stale") /\ Costs(1)
           /\ UNCHANGED report
           /\ Leave(<<"trash", j>>)
     /\ UNCHANGED <<jobs, posts, mail, made, witness>>

\* The calls about the messages of an operation are taken in the order in which they start.
\* One answer about a message, filed under what it means for the operation.
Filed(o, m, file) ==
  LET rest == [o EXCEPT !.todo = @ \ {m}]
  IN CASE file = "yes" -> [rest EXCEPT !.yes = @ \cup {m}]
       [] file = "no" -> [rest EXCEPT !.no = @ \cup {m}]
       [] file = "unsure" -> [rest EXCEPT !.unsure = @ \cup {m}]
       [] OTHER -> [rest EXCEPT !.late = @ \cup {m}]
\* Mutant: only a message read outside Trash counts as not moved.
InTrashUnlessRead(reading) == IF reading = "out" THEN "no" ELSE "yes"
\* verifyTrashState: a refused read counts as not in Trash.
InTrash(reading) == CASE reading = "in" -> "yes" [] reading = "unclear" -> "unsure" [] OTHER -> "no"

Verified(o) ==
  [status |-> CASE o.yes = o.job.picks -> "completed" [] o.no = o.job.picks -> "failed" [] OTHER -> "partial",
   tally |-> Tally(o),
   moved |-> LET more == ByGroup(o.yes) IN [g \in Groups |-> o.job.moved[g] + more[g]]]

TrashVerify(j) ==
  LET o == op[<<"trash", j>>]
  IN /\ o.pc = "verify"
     /\ \E m \in FirstOf(o.todo, 1), reading \in {"in", "out", "refused", "unclear"} :
          LET next == Filed(o, m, InTrash(reading))
          IN /\ Reads(m, reading)
             /\ IF reading = "in" THEN Saw(j, "in", {m}) ELSE UNCHANGED witness
             /\ IF next.todo = {}
                THEN Leave(<<"trash", j>>) /\ Write(j, o.job, Verified(next))
                ELSE Enter(<<"trash", j>>, next) /\ UNCHANGED jobs
     /\ UNCHANGED <<posts, mail, report, made>>

-----------------------------------------------------------------------------
\* undoGmailCleanup: only a fully verified cleanup, and not while a proof of it runs.
FullyMoved(job) ==
  /\ job.status = "completed" /\ job.attempted > 0
  /\ job.tally = [verified |-> job.attempted, failed |-> 0, uncertain |-> 0]
Undo(j) ==
  /\ Findable(j) /\ op[<<"undo", j>>] = NoOp
  /\ FullyMoved(jobs[j]) /\ jobs[j].proof # "running"
  /\ Enter(<<"undo", j>>, Started(jobs[j]))
  /\ UNCHANGED <<jobs, posts, mail, report, made, witness, around>>

UndoBegins(j) ==
  LET o == op[<<"undo", j>>]
      undoing == Updated(j, o.job, [status |-> "undoing"])
  IN /\ o.pc = "begin"
     /\ jobs' = [jobs EXCEPT ![j] = undoing]
     /\ Enter(<<"undo", j>>, [o EXCEPT !.pc = "context"])
     /\ UNCHANGED <<posts, mail, report, made, witness, around>>

\* Mutant: an Undo without a connection leaves the job "undoing".
UndoContextLost(j) ==
  LET o == op[<<"undo", j>>]
  IN /\ o.pc = "context"
     /\ \/ /\ ContextReads(TRUE)
           /\ Enter(<<"undo", j>>, [o EXCEPT !.pc = IF o.job.proof = "failed" THEN "reread" ELSE "untrash",
                                             !.todo = o.job.picks])
        \/ /\ ContextReads(FALSE)
           /\ Leave(<<"undo", j>>)
     /\ UNCHANGED <<jobs, posts, mail, report, made, witness>>
\* After a failed proof the state of every message is read first.
UndoContext(j) ==
  LET o == op[<<"undo", j>>]
  IN /\ o.pc = "context"
     /\ \/ /\ ContextReads(TRUE)
           /\ Enter(<<"undo", j>>, [o EXCEPT !.pc = IF o.job.proof = "failed" THEN "reread" ELSE "untrash",
                                             !.todo = o.job.picks])
           /\ UNCHANGED jobs
        \/ /\ ContextReads(FALSE)
           /\ Leave(<<"undo", j>>)
           /\ Write(j, o.job, [status |-> "completed"])
     /\ UNCHANGED <<posts, mail, report, made, witness>>

\* The end of an Undo or of a recovery, which knew some messages to be out of Trash already
\* and could not read others.
Restoration(o) ==
  LET back == o.already \cup o.yes
      undo == [Tally(o) EXCEPT !.verified = Cardinality(back), !.uncertain = @ + Cardinality(o.hazy)]
  IN [status |-> CASE back = o.job.picks -> "undone"
                   [] o.no # {} /\ o.yes \cup o.unsure \cup o.already = {} -> "undo_failed"
                   [] OTHER -> "undo_partial",
      undo |-> undo, restored |-> Restored(o.job, back)]
UndoGoes(j, next) ==
  IF next.todo = {} /\ next.late = {}
  THEN Leave(<<"undo", j>>) /\ Write(j, next.job, Restoration(next))
  ELSE /\ UNCHANGED jobs
       /\ Enter(<<"undo", j>>, IF next.todo = {} THEN [next EXCEPT !.pc = "fallback", !.todo = next.late, !.late = {}]
                               ELSE next)

\* createBulkUndoRecoveryPlan: what is in Trash is taken out again, what is not, or was
\* refused, counts as restored.
UndoReread(j) ==
  LET o == op[<<"undo", j>>]
  IN /\ o.pc = "reread"
     /\ \E m \in FirstOf(o.todo, 1), reading \in {"in", "out", "refused", "unclear"} :
          LET next == Filed(o, m, InTrash(reading))
          IN /\ Reads(m, reading)
             /\ IF reading = "out" THEN Saw(j, "out", {m}) ELSE UNCHANGED witness
             /\ IF next.todo = {}
                THEN UndoGoes(j, [Started(o.job) EXCEPT !.pc = "untrash", !.todo = next.yes, !.already = next.no,
                                                        !.hazy = next.unsure])
                ELSE Enter(<<"undo", j>>, next) /\ UNCHANGED jobs
     /\ UNCHANGED <<posts, mail, report, made>>

\* untrashAndVerifyMessages: one request per message, whose answer says where the message is;
\* an answer without labels is followed by a read.
Untrash(j) ==
  LET o == op[<<"undo", j>>]
  IN /\ o.pc = "untrash"
     /\ \E m \in FirstOf(o.todo, 1), answer \in {"yes", "no", "unsure", "late"} :
          /\ CASE answer = "yes" -> mail[m] # "gone" /\ mail' = Put({m}, OutOfTrash) /\ Free
               [] answer = "no" -> UNCHANGED mail /\ (IF mail[m] = "gone" THEN Free ELSE Possible("batch") /\ Costs(1))
               [] answer = "unsure" -> mail' \in {mail, Put({m}, OutOfTrash)} /\ Possible("batch") /\ Costs(1)
               [] OTHER -> mail[m] # "gone" /\ mail' = Put({m}, OutOfTrash) /\ Possible("batch") /\ Costs(1)
          /\ IF answer = "yes" THEN Saw(j, "out", {m}) ELSE UNCHANGED witness
          /\ UndoGoes(j, Filed(o, m, answer))
     /\ UNCHANGED <<posts, report, made>>
UndoFallback(j) ==
  LET o == op[<<"undo", j>>]
  IN /\ o.pc = "fallback"
     /\ \E m \in FirstOf(o.todo, 1), reading \in {"in", "out", "refused", "unclear"} :
          /\ Reads(m, reading)
          /\ IF reading = "out" THEN Saw(j, "out", {m}) ELSE UNCHANGED witness
          /\ UndoGoes(j, Filed(o, m, CASE reading = "out" -> "yes" [] reading = "unclear" -> "unsure" [] OTHER -> "no"))
     /\ UNCHANGED <<posts, mail, report, made>>

-----------------------------------------------------------------------------
\* POST gmail-bulk-undo-proof: the job is checked, then the connection is awaited, and only
\* then the operation is entered.
MayProve(j) ==
  Findable(j) /\ FullyMoved(jobs[j]) /\ jobs[j].attempted = ProofSize /\ jobs[j].proof = "none"
PostProof(j) ==
  /\ MayProve(j)
  /\ \E p \in DOMAIN posts :
       /\ posts[p] = NoJob /\ \A q \in 1..(p - 1) : posts[q] # NoJob
       /\ posts' = [posts EXCEPT ![p] = [id |-> j, job |-> jobs[j]]]
  /\ UNCHANGED <<jobs, op, mail, report, made, witness, around>>
PostConnects(p) ==
  LET k == <<"proof", posts[p].id>>
  IN /\ posts[p] # NoJob
     /\ posts' = [posts EXCEPT ![p] = NoJob]
     /\ \/ ConnectionReads(TRUE) /\ op' = IF op[k] = NoOp THEN [op EXCEPT ![k] = Started(posts[p].job)] ELSE op
        \/ ConnectionReads(FALSE) /\ UNCHANGED op
     /\ UNCHANGED <<jobs, mail, report, made, witness>>

ProofBegins(j) ==
  LET o == op[<<"proof", j>>]
  IN /\ o.pc = "begin"
     /\ Write(j, o.job, [proof |-> "running"])
     /\ Enter(<<"proof", j>>, [o EXCEPT !.pc = "checkpoint"])
     /\ UNCHANGED <<posts, mail, report, made, witness, around>>
ProofCheckpoint(j) ==
  LET o == op[<<"proof", j>>]
  IN /\ o.pc = "checkpoint"
     /\ \/ Free /\ Enter(<<"proof", j>>, [o EXCEPT !.pc = "remove", !.todo = o.job.picks]) /\ UNCHANGED jobs
        \/ /\ Possible("read") /\ Costs(1)
           /\ Leave(<<"proof", j>>) /\ Write(j, o.job, [proof |-> "failed"])
     /\ UNCHANGED <<posts, mail, report, made, witness>>
\* One request takes Trash off every message; without an answer nothing is verified.
ProofRemove(j) ==
  LET o == op[<<"proof", j>>]
  IN /\ o.pc = "remove"
     /\ \E answered \in BOOLEAN :
          /\ Applied(o.todo, OutOfTrash, answered)
          /\ IF answered THEN Enter(<<"proof", j>>, [o EXCEPT !.pc = "check"]) /\ UNCHANGED jobs
             ELSE Leave(<<"proof", j>>) /\ Write(j, o.job, [proof |-> "failed", restored |-> o.job.restored])
     /\ witness' = [witness EXCEPT ![j].removes = @ + 1]
     /\ UNCHANGED <<posts, report, made>>
\* executeGmailBulkUndoProof's reads: a refused one is unsure here.
ProofCheck(j) ==
  LET o == op[<<"proof", j>>]
  IN /\ o.pc = "check"
     /\ \E m \in FirstOf(o.todo, 1), reading \in {"in", "out", "refused", "unclear"} :
          LET next == Filed(o, m, CASE reading = "out" -> "yes" [] reading = "in" -> "no" [] OTHER -> "unsure")
          IN /\ Reads(m, reading)
             /\ IF reading = "out" THEN Saw(j, "out", {m}) ELSE UNCHANGED witness
             /\ Enter(<<"proof", j>>, IF next.todo = {} THEN [next EXCEPT !.pc = "shadow"] ELSE next)
     /\ UNCHANGED <<jobs, posts, mail, report, made>>
\* The history is compared; it decides the proof's own result, the reads decide the job's.
ProofState(o, agrees) == IF o.yes = o.job.picks /\ agrees THEN "success" ELSE "failed"
ProofShadow(j) ==
  LET o == op[<<"proof", j>>]
      all == o.yes = o.job.picks
      restored == Restored(o.job, o.yes)
  IN /\ o.pc = "shadow"
     /\ \E agrees \in BOOLEAN :
          /\ IF agrees THEN Free ELSE Possible("read") /\ Costs(1)
          /\ Leave(<<"proof", j>>)
          /\ Write(j, o.job,
                   IF all THEN [status |-> "undone", restored |-> restored, undo |-> Tally(o), proof |-> ProofState(o, agrees)]
                   ELSE [proof |-> ProofState(o, agrees), restored |-> restored])
     /\ UNCHANGED <<posts, mail, report, made, witness>>

-----------------------------------------------------------------------------
\* startOverGmailCleanup: a check is discarded unless it went on to move mail.
StartOver(j) ==
  /\ Findable(j) /\ op[<<"trash", j>>] = NoOp
  /\ jobs[j].status \notin {"running", "undoing", "completed", "partial", "undone"} /\ ~jobs[j].started
  /\ jobs' = [jobs EXCEPT ![j] = NoJob]
  /\ witness' = [witness EXCEPT ![j].dropped = TRUE]
  /\ UNCHANGED <<op, posts, mail, report, made, around>>

\* Two minutes pass: the check may not be confirmed any more.
CheckExpires(j) ==
  /\ jobs[j] # NoJob /\ jobs[j].fresh /\ jobs[j].status = "ready"
  /\ Possible("expire") /\ Costs(1)
  /\ jobs' = [jobs EXCEPT ![j].fresh = FALSE]
  /\ UNCHANGED <<op, posts, mail, report, made, witness>>
\* The job's own time ends; it is purged when no operation is on it.
JobExpires(j) ==
  /\ jobs[j] # NoJob /\ ~jobs[j].expired
  /\ Possible("expire") /\ Costs(1)
  /\ jobs' = [jobs EXCEPT ![j].expired = TRUE]
  /\ UNCHANGED <<op, posts, mail, report, made, witness>>
Purge(j) ==
  /\ jobs[j] # NoJob /\ jobs[j].expired /\ ~ActiveOn(j)
  /\ jobs' = [jobs EXCEPT ![j] = NoJob]
  /\ UNCHANGED <<op, posts, mail, report, made, witness, around>>

\* The user and the rest of the program: mail touched elsewhere, another scan, Disconnect, a
\* process that dies with its memory.
Touch(m) ==
  /\ Possible("touch") /\ Costs(1)
  /\ \E place \in CASE mail[m] = "inbox" -> {"kept"} [] mail[m] = "trash" -> {"inbox", "gone"} [] OTHER -> {} :
       mail' = [mail EXCEPT ![m] = place]
  /\ UNCHANGED <<jobs, op, posts, report, made, witness>>
Rescan ==
  /\ Possible("rescan") /\ Costs(1)
  /\ report' = [scan |-> report.scan + 1, complete |-> FALSE, stale |-> FALSE]
  /\ UNCHANGED <<jobs, op, posts, mail, made, witness>>
ScanCompletes ==
  /\ ~report.complete
  /\ report' = [report EXCEPT !.complete = TRUE, !.stale = FALSE]
  /\ UNCHANGED <<jobs, op, posts, mail, made, witness, around>>
\* clearGmailCleanupJobsForUser: an operation under way goes on with its token and its copy.
Disconnect ==
  /\ Possible("disconnect") /\ Costs(1)
  /\ jobs' = [j \in DevJobs |-> NoJob]
  /\ report' = [scan |-> report.scan + 1, complete |-> FALSE, stale |-> FALSE]
  /\ UNCHANGED <<op, posts, mail, made, witness>>
ProcessDies ==
  /\ Possible("restart") /\ Costs(1)
  /\ jobs' = [j \in DevJobs |-> NoJob]
  /\ op' = [k \in Keys |-> NoOp]
  /\ posts' = [p \in DOMAIN posts |-> NoJob]
  /\ UNCHANGED <<mail, report, made, witness>>

-----------------------------------------------------------------------------
TrashWork(j) ==
  \/ TrashBegins(j) \/ TrashContext(j) \/ TrashRecheck(j) \/ TrashBatch(j) \/ TrashResend(j)
  \/ TrashStale(j) \/ TrashVerify(j)
UndoWork(j) == UndoBegins(j) \/ UndoContext(j) \/ UndoReread(j) \/ Untrash(j) \/ UndoFallback(j)
ProofWork(j) == ProofBegins(j) \/ ProofCheckpoint(j) \/ ProofRemove(j) \/ ProofCheck(j) \/ ProofShadow(j)
ResolutionWork == PreviewContext \/ (\E g \in Groups : ResolveGroup(g)) \/ Benchmark

DevRequests ==
  \/ \E input \in around.inputs : Preview(input)
  \/ \E j \in DevJobs : Confirm(j) \/ Undo(j) \/ PostProof(j) \/ StartOver(j)
DevSurroundings ==
  \/ \E j \in DevJobs : CheckExpires(j) \/ JobExpires(j) \/ Purge(j)
  \/ \E m \in Letters : Touch(m)
  \/ Rescan \/ ScanCompletes \/ Disconnect \/ ProcessDies

DevNext ==
  \/ ResolutionWork
  \/ \E j \in DevJobs : TrashWork(j) \/ UndoWork(j) \/ ProofWork(j)
  \/ \E p \in DOMAIN posts : PostConnects(p)
  \/ DevRequests
  \/ DevSurroundings

DevSpec == DevInit /\ [][DevNext]_devVars

-----------------------------------------------------------------------------
\* What a job says is what Gmail said: it is "completed" only when every message was read in
\* Trash after the one batch, its counts are those reads, no group has more restored than
\* moved, and "undone" means that every message was read out of Trash - but for a recovery
\* after a failed proof, which takes a refused read for a restored message
\* (createBulkUndoRecoveryPlan).
DevOutcomeIsTrue ==
  \A j \in DevJobs :
    LET job == jobs[j]
        asked == witness[j]
    IN job # NoJob =>
         /\ job.status = "completed" => job.picks \subseteq asked.in
         /\ job.tally # NoTally =>
              /\ job.tally.verified + job.tally.failed + job.tally.uncertain = job.attempted
              /\ job.tally.verified = Cardinality(asked.in)
              /\ job.moved = ByGroup(asked.in)
         /\ \A g \in Groups : job.restored[g] <= job.moved[g]
         /\ job.status = "undone" => job.picks \subseteq asked.out \/ job.proof # "none"

\* A job moves mail by one request: for exactly the messages that were shown and confirmed, all of
\* them, none that the user had protected when confirming, and never after it was discarded
\* (performGmailCleanupConfirmation, invalidateGmailCleanupPreview). The request is sent again, for
\* the same messages, only while no attempt of it was answered and none of them was read in Trash,
\* and RetryAttempts times at most. A message that is taken out of Trash between two attempts is
\* moved again: no attempt looks at it (fetchWithRetry).
MovesWhatWasAgreed ==
  [][\A j \in DevJobs :
       LET before == witness[j]
           after == witness'[j]
       IN after.batches # before.batches =>
            /\ ~before.dropped /\ after.batches <= RetryAttempts
            /\ before.batches # 0 =>
                 ~before.answered /\ before.in = {} /\ after.letters = before.letters
            /\ after.letters = op[<<"trash", j>>].job.picks
            /\ Cardinality(after.letters) = op[<<"trash", j>>].job.wanted
            /\ after.letters \cap before.shield = {}]_devVars

\* A job that says it is running, undoing or being proved has an operation that will end it;
\* only a failure to mark the report stale, which no try covers, abandons a job. No Undo or
\* proof runs beside a Trash operation, and a job that can be confirmed never moved anything.
WorkIsInHand ==
  \A j \in DevJobs :
    /\ jobs[j] # NoJob =>
         /\ jobs[j].status = "running" => op[<<"trash", j>>] # NoOp \/ "stale" \in around.faults
         /\ jobs[j].status = "undoing" => op[<<"undo", j>>] # NoOp
         /\ jobs[j].proof = "running" => op[<<"proof", j>>] # NoOp
         /\ jobs[j].status = "ready" => witness[j].batches = 0
    /\ op[<<"trash", j>>] # NoOp => op[<<"undo", j>>] = NoOp /\ op[<<"proof", j>>] = NoOp

\* A check of a mailbox that stays as it is finds as many messages as there are, up to what was
\* asked for and what each group offered, however the rounds dealt them out
\* (resolveGmailCleanupSenderGroups).
PreviewIsExact ==
  [][\A j \in DevJobs :
       LET job == jobs'[j]
           able(g) == Min({OfferOf[g].count, Cardinality(SafeNow(g))})
       IN /\ made' = j /\ made = j - 1 /\ job.status \in {"ready", "insufficient"}
          /\ around.faults \cap {"touch", "local"} = {} /\ \A i \in DevJobs : witness[i].batches = 0
          => job.resolved = Min({job.wanted, MapThenSumSet(able, op[Resolution].input.groups)})]_devVars
=============================================================================
