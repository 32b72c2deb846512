----------------------------- MODULE PageProofs -----------------------------
(***************************************************************************)
(* Theorems about CleanupClient, for any cleanups, requests at once and     *)
(* faults: in whatever order polls, operations, refreshes and commits come, *)
(* the page never goes back, and neither a balance nor a change of          *)
(* availability is forgotten.                                               *)
(***************************************************************************)
EXTENDS PageRecord, WellFoundedInduction, TLAPS

-----------------------------------------------------------------------------
(* The server.                                                              *)

\* A non-empty set of jobs whose changes are bounded has one that changed last.
LEMMA LastChanged ==
  ASSUME jobs \in [Cleanups -> JobRecords], NEW rows, rows \subseteq Cleanups, rows # {},
         NEW bound \in Nat, \A j \in rows : jobs[j].at <= bound
  PROVE  \E j \in rows : \A i \in rows : jobs[i].at <= jobs[j].at
<1> DEFINE Left == {n \in Nat : \E j \in rows : n = bound - jobs[j].at}
<1>1. \A j \in rows : jobs[j].at \in Nat /\ bound - jobs[j].at \in Left
  BY DEF JobRecords
<1>2. Left # {} /\ Left \subseteq Nat
  BY <1>1
<1> HIDE DEF Left
<1>3. \E x \in Left : \A y \in Left : ~(<<y, x>> \in OpToRel(<, Nat))
  BY <1>2, NatLessThanWellFounded, WFMin
<1>4. PICK x \in Left : \A y \in Left : ~(<<y, x>> \in OpToRel(<, Nat))
  BY <1>3
<1>5. \A y \in Left : ~(y < x)
  BY <1>2, <1>4 DEF OpToRel
<1>6. PICK j \in rows : x = bound - jobs[j].at
  BY <1>4 DEF Left
<1>7. \A i \in rows : ~(bound - jobs[i].at < bound - jobs[j].at)
  BY <1>1, <1>5, <1>6
<1> QED BY <1>1, <1>6, <1>7

\* The next change is later than every other.
LEMMA NowIsLater ==
  ASSUME jobs \in [Cleanups -> JobRecords], ServerFits
  PROVE  Now \in Nat /\ \A j \in Cleanups : jobs[j].at < Now
<1> DEFINE Moments == {jobs[j].at : j \in Cleanups}
<1>1. \A j \in Cleanups : jobs[j].at \in Nat
  BY DEF JobRecords
<1>2. PICK i \in Cleanups : \A j \in Cleanups : jobs[j].at <= jobs[i].at
  BY DEF ServerFits
<1>3. jobs[i].at \in Moments /\ \A y \in Moments : jobs[i].at >= y
  BY <1>1, <1>2
<1>4. Max(Moments) \in Moments /\ \A y \in Moments : Max(Moments) >= y
  BY <1>3 DEF Max
<1>5. Max(Moments) \in Nat /\ \A j \in Cleanups : jobs[j].at <= Max(Moments)
  BY <1>1, <1>4
<1> HIDE DEF Moments
<1>6. Now = 1 + Max(Moments)
  BY DEF Now, Moments
<1> QED BY <1>1, <1>5, <1>6

\* What the server does to its jobs: no change is undone, what is gone stays gone.
JobsAdvance ==
  /\ jobs' \in [Cleanups -> JobRecords] /\ ServerFits'
  /\ \A j \in Cleanups :
       /\ jobs[j].at <= jobs'[j].at /\ jobs[j].moved <= jobs'[j].moved
       /\ jobs[j].status = "gone" => jobs'[j].status = "gone"

LEMMA NothingChanged ==
  ASSUME jobs \in [Cleanups -> JobRecords], ServerFits, jobs' = jobs
  PROVE  JobsAdvance
<1>1. \A j \in Cleanups : jobs[j].at \in Nat /\ jobs[j].moved \in Nat
  BY DEF JobRecords
<1> QED BY <1>1 DEF JobsAdvance, ServerFits

LEMMA OneChanged ==
  ASSUME jobs \in [Cleanups -> JobRecords], ServerFits,
         NEW j \in Cleanups, NEW job \in JobRecords, jobs' = [jobs EXCEPT ![j] = job],
         job.at = Now, job.moved >= jobs[j].moved, jobs[j].status # "gone",
         job.status \in {"none", "moving"} \cup Selecting => job.moved = 0
  PROVE  JobsAdvance
<1>1. Now \in Nat /\ \A i \in Cleanups : jobs[i].at < Now
  BY NowIsLater
<1>2. \A i \in Cleanups : jobs[i].at \in Nat /\ jobs[i].moved \in Nat
  BY DEF JobRecords
<1>3. jobs' \in [Cleanups -> JobRecords] /\ jobs'[j] = job
      /\ \A i \in Cleanups : i # j => jobs'[i] = jobs[i]
  OBVIOUS
<1>4. \A i \in Cleanups : jobs'[i].at <= jobs'[j].at
  BY <1>1, <1>2, <1>3
<1>5. \A i \in Cleanups : jobs'[i].status \in {"none", "moving"} \cup Selecting => jobs'[i].moved = 0
  BY <1>3 DEF ServerFits
<1>6. \A i \in Cleanups :
        /\ jobs[i].at <= jobs'[i].at /\ jobs[i].moved <= jobs'[i].moved
        /\ jobs[i].status = "gone" => jobs'[i].status = "gone"
  BY <1>1, <1>2, <1>3
<1> QED BY <1>3, <1>4, <1>5, <1>6 DEF JobsAdvance, ServerFits

\* A view is of the job as it is.
LEMMA ViewIsPast ==
  ASSUME NEW f \in [Cleanups -> JobRecords], NEW j \in Cleanups
  PROVE  LET view == ViewOf(j, f[j]) IN
         view \in Views /\ view.id = j /\ view.at = f[j].at /\ view.moved = f[j].moved
BY DEF ViewOf, Views, JobRecords

\* The page is given a job of the server, or none.
LEMMA PresentedPast ==
  ASSUME jobs \in [Cleanups -> JobRecords], ServerFits
  PROVE  Presented \in Views \cup {None} /\ Past(Presented)
<1>1. ASSUME NEW rows, rows \subseteq Cleanups
      PROVE  Latest(rows) \in Views \cup {None} /\ Past(Latest(rows))
  <2>1. CASE rows = {}
    BY <2>1 DEF Latest, Past
  <2>2. CASE rows # {}
    <3>1. PICK i \in Cleanups : \A j \in Cleanups : jobs[j].at <= jobs[i].at
      BY DEF ServerFits
    <3>2. jobs[i].at \in Nat
      BY DEF JobRecords
    <3>3. \E j \in rows : \A k \in rows : jobs[k].at <= jobs[j].at
      BY <1>1, <2>2, <3>1, <3>2, LastChanged
    <3>4. PICK j \in rows : Latest(rows) = View(j)
      BY <2>2, <3>3 DEF Latest
    <3>5. j \in Cleanups /\ jobs[j].at \in Nat /\ jobs[j].moved \in Nat
      BY <1>1 DEF JobRecords
    <3> QED BY <3>4, <3>5, ViewIsPast DEF View, Past
  <2> QED BY <2>1, <2>2
<1>2. {j \in Cleanups : Row(j)} \subseteq Cleanups
      /\ {j \in {j \in Cleanups : Row(j)} : jobs[j].status \notin Selecting} \subseteq Cleanups
  OBVIOUS
<1> QED BY <1>1, <1>2 DEF Presented

-----------------------------------------------------------------------------
(* The routes.                                                              *)

\* What a route does, and the job it tells of as it is then.
Honest(done) ==
  /\ done.reply \in Replies
  /\ done.reply.ok =>
       LET view == done.reply.job IN
       /\ view \in Views /\ done.jobs[view.id].status # "gone"
       /\ view.at = done.jobs[view.id].at /\ view.moved = done.jobs[view.id].moved

LEMMA ReplyTells ==
  ASSUME NEW job \in Views \cup {None}
  PROVE  /\ Reply(TRUE, FALSE, job) \in Replies /\ Reply(TRUE, FALSE, job).job = job
         /\ Reply(TRUE, FALSE, job).ok = TRUE
BY DEF Reply, Replies

LEMMA ReplyRefuses ==
  /\ Reply(FALSE, FALSE, None) \in Replies /\ Reply(FALSE, FALSE, None).ok = FALSE
  /\ Reply(FALSE, TRUE, None) \in Replies /\ Reply(FALSE, TRUE, None).ok = FALSE
BY DEF Reply, Replies

LEMMA RouteRefuses ==
  ASSUME jobs \in [Cleanups -> JobRecords], ServerFits, NEW done,
         done = Leaves(Reply(FALSE, FALSE, None)) \/ done = Leaves(Reply(FALSE, TRUE, None)), jobs' = done.jobs
  PROVE  JobsAdvance /\ Honest(done) /\ ~done.reply.ok
<1>1. PICK reply \in {Reply(FALSE, FALSE, None), Reply(FALSE, TRUE, None)} : done = [jobs |-> jobs, reply |-> reply]
  BY DEF Leaves
<1>2. done.reply \in Replies /\ ~done.reply.ok
  BY <1>1, ReplyRefuses
<1>3. JobsAdvance
  BY <1>1, NothingChanged
<1> QED BY <1>2, <1>3 DEF Honest

LEMMA RouteRepeats ==
  ASSUME jobs \in [Cleanups -> JobRecords], ServerFits, NEW j \in Cleanups, Row(j), NEW done,
         done = Leaves(Reply(TRUE, FALSE, View(j))), jobs' = done.jobs
  PROVE  JobsAdvance /\ Honest(done) /\ done.reply.job.id = j
<1>1. done.reply = Reply(TRUE, FALSE, View(j)) /\ done.jobs = jobs
  BY DEF Leaves
<1>2. View(j) \in Views /\ View(j).id = j /\ View(j).at = jobs[j].at /\ View(j).moved = jobs[j].moved
  BY ViewIsPast DEF View
<1>3. done.reply \in Replies /\ done.reply.job = View(j)
  BY <1>1, <1>2, ReplyTells
<1>4. JobsAdvance
  BY <1>1, NothingChanged
<1> QED BY <1>1, <1>2, <1>3, <1>4 DEF Honest, Row

LEMMA RouteChanges ==
  ASSUME jobs \in [Cleanups -> JobRecords], ServerFits, NEW j \in Cleanups, NEW job \in JobRecords, NEW done,
         done = Changes(j, job), jobs' = done.jobs, job.at = Now, job.moved >= jobs[j].moved,
         jobs[j].status # "gone", job.status # "gone",
         job.status \in {"none", "moving"} \cup Selecting => job.moved = 0
  PROVE  JobsAdvance /\ Honest(done) /\ done.reply.job.id = j
<1>1. done.reply = Reply(TRUE, FALSE, ViewOf(j, job)) /\ done.jobs = [jobs EXCEPT ![j] = job]
  BY DEF Changes
<1>2. done.jobs \in [Cleanups -> JobRecords] /\ done.jobs[j] = job
  BY <1>1
<1>3. LET view == ViewOf(j, job) IN
      view \in Views /\ view.id = j /\ view.at = done.jobs[j].at /\ view.moved = done.jobs[j].moved
  BY <1>2, ViewIsPast
<1>4. JobsAdvance
  BY <1>1, OneChanged
<1>5. done.reply \in Replies /\ done.reply.job = ViewOf(j, job)
  BY <1>1, <1>3, ReplyTells
<1>6. PICK view : view = ViewOf(j, job)
  OBVIOUS
<1>7. done.jobs[view.id].status # "gone"
  BY <1>2, <1>3, <1>6
<1> QED BY <1>3, <1>4, <1>5, <1>6, <1>7 DEF Honest

LEMMA StartIsHonest ==
  ASSUME jobs \in [Cleanups -> JobRecords], ServerFits, 1..weather.jobs \subseteq Cleanups,
         NEW done \in Start, jobs' = done.jobs
  PROVE  JobsAdvance /\ Honest(done)
<1>1. CASE done = Leaves(Refused)
  BY <1>1, RouteRefuses DEF Refused
<1>2. CASE \E j \in Reusable : done = Leaves(Reply(TRUE, FALSE, View(j)))
  <2>1. PICK j \in Reusable : done = Leaves(Reply(TRUE, FALSE, View(j)))
    BY <1>2
  <2>2. j \in Cleanups /\ Row(j)
    BY DEF Reusable, Row, Selecting
  <2> QED BY <2>1, <2>2, RouteRepeats
<1>3. CASE \E j \in Unused : done = Changes(j, [NoJob EXCEPT !.status = "created", !.at = Now])
  <2>1. PICK j \in Unused : done = Changes(j, [NoJob EXCEPT !.status = "created", !.at = Now])
    BY <1>3
  <2>2. j \in Cleanups /\ jobs[j].status = "none" /\ jobs[j].moved = 0
    BY DEF Unused, ServerFits
  <2>3. Now \in Nat
    BY NowIsLater
  <2>4. PICK job : job = [NoJob EXCEPT !.status = "created", !.at = Now]
    OBVIOUS
  <2>5. job \in JobRecords /\ job.at = Now /\ job.status = "created" /\ job.moved = 0
    BY <2>3, <2>4 DEF NoJob, JobRecords, Selecting, Phases
  <2>6. jobs[j].status # "gone" /\ job.status # "gone" /\ job.moved >= jobs[j].moved
    BY <2>2, <2>5
  <2>7. done = Changes(j, job)
    BY <2>1, <2>4
  <2> QED BY <2>2, <2>5, <2>6, <2>7, RouteChanges
<1> QED BY <1>1, <1>2, <1>3 DEF Start

\* A job with another phase, changed now.
LEMMA PhaseWritten ==
  ASSUME jobs \in [Cleanups -> JobRecords], ServerFits, NEW j \in Cleanups, NEW phase \in Phases
  PROVE  LET job == [jobs[j] EXCEPT !.status = phase, !.at = Now] IN
         job \in JobRecords /\ job.at = Now /\ job.status = phase /\ job.moved = jobs[j].moved /\ job.moved \in Nat
<1>1. Now \in Nat
  BY NowIsLater
<1> QED BY <1>1 DEF JobRecords

LEMMA ConfirmIsHonest ==
  ASSUME jobs \in [Cleanups -> JobRecords], ServerFits, NEW j \in Cleanups,
         NEW done, done = Confirm(j), jobs' = done.jobs
  PROVE  JobsAdvance /\ Honest(done) /\ (done.reply.ok => done.reply.job.id = j)
<1>1. CASE ~Row(j) \/ jobs[j].status \notin {"ready", "moving", "complete"}
  <2>1. done = Leaves(Reply(FALSE, TRUE, None)) \/ done = Leaves(Reply(FALSE, FALSE, None))
    BY <1>1 DEF Confirm, Refused, Row
  <2> QED BY <2>1, RouteRefuses
<1>2. CASE Row(j) /\ jobs[j].status = "ready"
  <2>1. PICK job : job = [jobs[j] EXCEPT !.status = "moving", !.at = Now]
    OBVIOUS
  <2>2. job \in JobRecords /\ job.at = Now /\ job.status = "moving" /\ job.moved = jobs[j].moved /\ job.moved \in Nat
    BY <2>1, PhaseWritten DEF Phases
  <2>3. job.moved = 0
    BY <1>2, <2>2 DEF ServerFits, Selecting
  <2>4. done = Changes(j, job)
    BY <1>2, <2>1 DEF Confirm
  <2>5. jobs[j].status # "gone" /\ jobs[j].moved = 0
    BY <1>2 DEF ServerFits, Selecting
  <2> QED BY <2>2, <2>3, <2>4, <2>5, RouteChanges
<1>3. CASE Row(j) /\ jobs[j].status \in {"moving", "complete"}
  <2>1. done = Leaves(Reply(TRUE, FALSE, View(j)))
    BY <1>3 DEF Confirm
  <2> QED BY <1>3, <2>1, RouteRepeats
<1> QED BY <1>1, <1>2, <1>3

LEMMA UndoIsHonest ==
  ASSUME jobs \in [Cleanups -> JobRecords], ServerFits, NEW j \in Cleanups,
         NEW done, done = Undo(j), jobs' = done.jobs
  PROVE  JobsAdvance /\ Honest(done) /\ (done.reply.ok => done.reply.job.id = j)
<1> DEFINE Restorable == jobs[j].status \in Results /\ jobs[j].moved > 0 /\ jobs[j].back = "no"
<1>1. CASE Restorable
  <2>1. PICK job : job = [jobs[j] EXCEPT !.status = "undoing", !.at = Now]
    OBVIOUS
  <2>2. job \in JobRecords /\ job.at = Now /\ job.status = "undoing" /\ job.moved = jobs[j].moved /\ job.moved \in Nat
    BY <2>1, PhaseWritten DEF Phases
  <2>3. done = Changes(j, job)
    BY <1>1, <2>1 DEF Undo, Results
  <2>4. jobs[j].status # "gone" /\ job.status \notin {"none", "moving"} \cup Selecting /\ job.moved >= jobs[j].moved
    BY <1>1, <2>2 DEF Results, Selecting
  <2> QED BY <2>2, <2>3, <2>4, RouteChanges
<1>2. CASE ~Restorable /\ jobs[j].status = "undoing"
  <2>1. done = Leaves(Reply(TRUE, FALSE, View(j))) /\ Row(j)
    BY <1>2 DEF Undo, Row
  <2> QED BY <2>1, RouteRepeats
<1>3. CASE ~Restorable /\ jobs[j].status # "undoing"
  <2>1. done = Leaves(Reply(FALSE, FALSE, None))
    BY <1>3 DEF Undo, Refused
  <2> QED BY <2>1, RouteRefuses
<1> QED BY <1>1, <1>2, <1>3

\* A job that is given up is gone, and the page is told of no job.
LEMMA DiscardIsHonest ==
  ASSUME jobs \in [Cleanups -> JobRecords], ServerFits, NEW j \in Cleanups,
         NEW done, done = Discard(j), jobs' = done.jobs
  PROVE  /\ JobsAdvance /\ done.reply \in Replies
         /\ done.reply.ok => done.reply.job = None /\ jobs'[j].status = "gone"
<1>1. CASE jobs[j].status \in Selecting
  <2>1. PICK job : job = [jobs[j] EXCEPT !.status = "gone", !.at = Now]
    OBVIOUS
  <2>2. job \in JobRecords /\ job.at = Now /\ job.status = "gone" /\ job.moved = jobs[j].moved /\ job.moved \in Nat
    BY <2>1, PhaseWritten DEF Phases
  <2>3. PICK reply : reply = Reply(TRUE, FALSE, ViewOf(j, job))
    OBVIOUS
  <2>4. done = [[jobs |-> [jobs EXCEPT ![j] = job], reply |-> reply] EXCEPT !.reply.job = None]
    BY <1>1, <2>1, <2>3 DEF Discard, Changes
  <2>5. done.jobs = [jobs EXCEPT ![j] = job] /\ done.reply = [reply EXCEPT !.job = None]
    BY <2>4
  <2>6. done.reply = Reply(TRUE, FALSE, None)
    BY <2>3, <2>5 DEF Reply
  <2>7. done.reply \in Replies /\ done.reply.job = None
    BY <2>6 DEF Reply, Replies
  <2>8. JobsAdvance
    <3>1. jobs[j].status # "gone" /\ job.status \notin {"none", "moving"} \cup Selecting /\ job.moved >= jobs[j].moved
      BY <1>1, <2>2 DEF Selecting
    <3>2. jobs' = [jobs EXCEPT ![j] = job]
      BY <2>5
    <3> QED BY <2>2, <3>1, <3>2, OneChanged
  <2> QED BY <2>2, <2>5, <2>7, <2>8
<1>2. CASE jobs[j].status \notin Selecting
  <2>1. done = Leaves(Reply(FALSE, FALSE, None))
    BY <1>2 DEF Discard, Refused
  <2> QED BY <2>1, RouteRefuses DEF Honest
<1> QED BY <1>1, <1>2

-----------------------------------------------------------------------------
(* Steps of the server and of requests on their way.                        *)

\* Nothing on the page and in its answers is of a later time than the server.
LEMMA ServerKeeps ==
  ASSUME ClientInv, JobsAdvance, UNCHANGED <<page, settled, poll, load, shown, watch, dropped, visible>>
  PROVE  /\ ServerFits' /\ Past(page.job)' /\ Past(load.job)' /\ PollFits' /\ DroppedFit' /\ ActiveFits'
         /\ CreditsFit' /\ PresentedFits' /\ WatchFits'
<1>1. /\ jobs' \in [Cleanups -> JobRecords] /\ ServerFits'
      /\ \A j \in Cleanups :
           /\ jobs[j].at <= jobs'[j].at /\ jobs[j].moved <= jobs'[j].moved
           /\ jobs[j].status = "gone" => jobs'[j].status = "gone"
  BY DEF JobsAdvance
<1>2. \A j \in Cleanups : jobs[j].at \in Nat /\ jobs[j].moved \in Nat /\ jobs'[j].at \in Nat /\ jobs'[j].moved \in Nat
  BY <1>1 DEF ClientInv, ClientTypeOK, JobRecords
<1>3. ASSUME NEW view \in Views \cup {None}, Past(view)
      PROVE  view # None => view.at <= jobs'[view.id].at /\ view.moved <= jobs'[view.id].moved
  BY <1>1, <1>2, <1>3 DEF Past, Views
<1>4. Past(page.job)' /\ Past(load.job)'
  <2>1. page.job \in Views \cup {None} /\ load.job \in Views \cup {None}
    BY DEF ClientInv, ClientTypeOK, PageStates, Loads
  <2>2. Past(page.job) /\ Past(load.job)
    BY DEF ClientInv
  <2> QED BY <1>3, <2>1, <2>2 DEF Past
<1>5. PollFits'
  <2>1. poll.stage = "told" /\ poll.reply.ok => poll.reply.job \in Views /\ Past(poll.reply.job)
    BY DEF ClientInv, PollFits
  <2>2. poll.stage = "told" /\ poll.reply.ok => Past(poll.reply.job)'
    BY <1>3, <2>1 DEF Past
  <2> QED BY <2>2 DEF ClientInv, PollFits, Later
<1>6. DroppedFit'
  BY <1>1 DEF ClientInv, ClientTypeOK, DroppedFit
<1>7. ActiveFits' /\ WatchFits'
  BY DEF ClientInv, ActiveFits, WatchFits
<1>8. CreditsFit'
  <2>1. \A j \in Cleanups : load.credits[j] \in Nat
    BY DEF ClientInv, ClientTypeOK, Balances, Loads
  <2> QED BY <1>1, <1>2, <2>1 DEF ClientInv, CreditsFit
<1>9. PresentedFits'
  <2>1. ASSUME NEW j \in Cleanups, NEW moved \in Nat, shown.presented = <<j, moved>>
        PROVE  moved <= jobs'[j].moved /\ (shown.presented # shown.came => Covered(j, moved))
    BY <1>1, <1>2, <2>1 DEF ClientInv, PresentedFits
  <2> QED BY <2>1 DEF ClientInv, PresentedFits, Covered
<1> QED BY <1>1, <1>4, <1>5, <1>6, <1>7, <1>8, <1>9

\* An answer that was fit for the page is so when the server goes on.
LEMMA CallKept ==
  ASSUME ClientInv, JobsAdvance, page' = page, dropped' = dropped, NEW u \in Requests, CallFits(u)
  PROVE  CallFits(u)'
<1>1. /\ jobs' \in [Cleanups -> JobRecords]
      /\ \A j \in Cleanups :
           /\ jobs[j].at <= jobs'[j].at /\ jobs[j].moved <= jobs'[j].moved
           /\ jobs[j].status = "gone" => jobs'[j].status = "gone"
  BY DEF JobsAdvance
<1>2. \A j \in Cleanups : jobs[j].at \in Nat /\ jobs[j].moved \in Nat /\ jobs'[j].at \in Nat /\ jobs'[j].moved \in Nat
  BY <1>1 DEF ClientInv, ClientTypeOK, JobRecords
<1>3. \A v \in Views : Past(v) => Past(v)'
  BY <1>1, <1>2 DEF Past, Views
<1>4. ASSUME u.reply # None, u.reply.ok PROVE AnswerFits(u)'
  <2>1. AnswerFits(u) /\ u.op \in Operations /\ (u.op = "start_over" => u.job \in Cleanups)
    BY <1>4 DEF CallFits, Requests
  <2>2. CASE u.op = "start_over"
    BY <1>1, <2>1, <2>2 DEF AnswerFits
  <2>3. CASE u.op \notin {"start_over", "rescan"}
    <3>1. u.reply.job \in Views /\ u.reply.job.id \notin dropped /\ Past(u.reply.job) /\ Later(u.reply.job)
      BY <2>1, <2>3 DEF AnswerFits
    <3>2. Past(u.reply.job)' /\ Later(u.reply.job)'
      BY <1>3, <3>1 DEF Later
    <3> QED BY <2>3, <3>1, <3>2 DEF AnswerFits
  <2>4. CASE u.op = "rescan"
    BY <2>4 DEF AnswerFits
  <2> QED BY <2>2, <2>3, <2>4
<1> QED BY <1>4 DEF CallFits

LEMMA CallsKept ==
  ASSUME ClientInv, JobsAdvance, UNCHANGED <<page, dropped, calls>>
  PROVE  CallsFit'
<1>1. ASSUME NEW c \in Slots, calls[c] # None, calls[c].mine
      PROVE  CallFits(calls[c])' /\ \A d \in Slots : calls'[d] # None /\ calls'[d].mine => d = c
  <2>1. PICK u : u = calls[c]
    OBVIOUS
  <2>2. u \in Requests /\ CallFits(u)
    BY <1>1, <2>1 DEF ClientInv, ClientTypeOK, CallsFit
  <2>3. CallFits(u)'
    BY <2>2, CallKept
  <2>4. calls'[c] = u
    BY <2>1
  <2> QED BY <1>1, <2>3, <2>4 DEF ClientInv, CallsFit, CallFits, AnswerFits
<1> QED BY <1>1 DEF CallsFit

WeatherFits ==
  /\ weather \in [kind : {"outlook", "gmail"}, jobs : Nat, faults : SUBSET Faults, events : Nat]
  /\ 1..weather.jobs \subseteq Cleanups

LEMMA WeatherKept ==
  ASSUME WeatherFits, NEW fault, UNCHANGED weather \/ (Chance(fault) /\ Spend)
  PROVE  WeatherFits'
BY DEF WeatherFits, Chance, Spend

LEMMA InvFacts ==
  ASSUME ClientInv
  PROVE  /\ jobs \in [Cleanups -> JobRecords] /\ ServerFits /\ WeatherFits
         /\ \A j \in Cleanups : jobs[j].at \in Nat /\ jobs[j].moved \in Nat
         /\ page.job \in Views \cup {None} /\ page.active \in Operations \cup {None}
         /\ load.job \in Views \cup {None}
BY DEF ClientInv, ClientTypeOK, WeatherFits, JobRecords, PageStates, Loads

\* A step of the server by itself, whatever becomes of the weather.
LEMMA ServerStep ==
  ASSUME ClientInv, JobsAdvance, WeatherFits',
         UNCHANGED <<page, settled, calls, poll, load, shown, watch, dropped, visible>>
  PROVE  ClientInv'
<1>1. ClientTypeOK'
  BY DEF ClientInv, ClientTypeOK, WeatherFits, JobsAdvance
<1>2. CallsFit'
  BY CallsKept
<1> QED BY <1>1, <1>2, ServerKeeps DEF ClientInv

LEMMA ServerWorksKeeps ==
  ASSUME ClientInv, NEW j \in Cleanups, ServerWorks(j)
  PROVE  ClientInv'
<1>0. jobs \in [Cleanups -> JobRecords] /\ ServerFits /\ WeatherFits /\ jobs[j].moved \in Nat
  BY InvFacts
<1>1. PICK status \in Follows(jobs[j]) :
        jobs' = [jobs EXCEPT ![j] = [@ EXCEPT !.status = status, !.at = Now, !.moved = MovedBy(jobs[j], status),
                                              !.back = BackBy(jobs[j], status)]]
  BY DEF ServerWorks
<1>2. PICK back : back = BackBy(jobs[j], status)
  OBVIOUS
<1>3. back \in {"no", "some", "all"}
  <2>1. jobs[j].status # "undoing" => back = jobs[j].back
    BY <1>2 DEF BackBy
  <2>2. jobs[j].status = "undoing" => back \in {"all", "some"}
    BY <1>2 DEF BackBy
  <2> QED BY <1>0, <2>1, <2>2 DEF JobRecords
<1>4. PICK moved : moved = MovedBy(jobs[j], status)
  OBVIOUS
<1>5. PICK job : job = [jobs[j] EXCEPT !.status = status, !.at = Now, !.moved = moved, !.back = back]
  OBVIOUS
<1>6. jobs' = [jobs EXCEPT ![j] = job]
  BY <1>1, <1>2, <1>4, <1>5
<1>7. /\ status \in Phases \ {"none", "moving"} /\ jobs[j].status \in {"created", "moving", "undoing"}
      /\ status \in Selecting => jobs[j].status = "created"
  <2>1. CASE jobs[j].status = "created"
    BY <2>1 DEF Follows, Phases, Selecting, Results
  <2>2. CASE jobs[j].status = "moving"
    BY <2>2 DEF Follows, Phases, Selecting, Results
  <2>3. CASE jobs[j].status = "undoing"
    BY <2>3 DEF Follows, Phases, Selecting, Results
  <2> QED BY <2>1, <2>2, <2>3 DEF Follows
<1>8. jobs[j].status \in {"created", "moving"} => jobs[j].moved = 0
  BY <1>0 DEF ServerFits, Selecting
<1>9. /\ moved \in Nat /\ moved >= jobs[j].moved
      /\ jobs[j].status = "created" => moved = 0
  BY <1>0, <1>4, <1>7, <1>8 DEF MovedBy
<1>10. Now \in Nat
  BY <1>0, NowIsLater
<1>11. job \in JobRecords /\ job.at = Now /\ job.moved = moved /\ job.status = status
  BY <1>0, <1>3, <1>5, <1>7, <1>9, <1>10 DEF JobRecords
<1>12. JobsAdvance
  <2>1. job.status \in {"none", "moving"} \cup Selecting => job.moved = 0
    BY <1>7, <1>9, <1>11
  <2>2. job.moved >= jobs[j].moved /\ jobs[j].status # "gone"
    BY <1>7, <1>9, <1>11
  <2> QED BY <1>0, <1>6, <1>11, <2>1, <2>2, OneChanged
<1>13. UNCHANGED weather /\ UNCHANGED <<page, settled, calls, poll, load, shown, watch, dropped, visible>>
  BY DEF ServerWorks
<1>14. WeatherFits'
  BY <1>0, <1>13, WeatherKept
<1> QED BY <1>12, <1>13, <1>14, ServerStep

LEMMA RowEndsKeeps ==
  ASSUME ClientInv, NEW j \in Cleanups, RowEnds(j)
  PROVE  ClientInv'
<1>0. jobs \in [Cleanups -> JobRecords] /\ ServerFits /\ WeatherFits /\ jobs[j].moved \in Nat
  BY InvFacts
<1>1. PICK job : job = [jobs[j] EXCEPT !.status = "gone", !.at = Now]
  OBVIOUS
<1>2. job \in JobRecords /\ job.at = Now /\ job.status = "gone" /\ job.moved = jobs[j].moved
  BY <1>0, <1>1, PhaseWritten DEF Phases
<1>3. jobs' = [jobs EXCEPT ![j] = job]
  BY <1>0, <1>1 DEF RowEnds
<1>4. jobs[j].status # "gone" /\ job.moved >= jobs[j].moved /\ job.status \notin {"none", "moving"} \cup Selecting
  BY <1>0, <1>2 DEF RowEnds, Results, Selecting
<1>5. JobsAdvance
  BY <1>0, <1>2, <1>3, <1>4, OneChanged
<1>6. WeatherFits'
  BY <1>0, WeatherKept DEF RowEnds
<1>7. UNCHANGED <<page, settled, calls, poll, load, shown, watch, dropped, visible>>
  BY DEF RowEnds
<1> QED BY <1>5, <1>6, <1>7, ServerStep

LEMMA OtherTabKeeps ==
  ASSUME ClientInv, NEW j \in Cleanups, OtherTab(j)
  PROVE  ClientInv'
<1>0. jobs \in [Cleanups -> JobRecords] /\ ServerFits /\ WeatherFits
  BY InvFacts
<1>1. PICK done \in {Confirm(j), Undo(j)} : jobs' = done.jobs
  BY DEF OtherTab
<1>2. JobsAdvance
  BY <1>0, <1>1, ConfirmIsHonest, UndoIsHonest
<1>3. WeatherFits'
  BY <1>0, WeatherKept DEF OtherTab
<1>4. UNCHANGED <<page, settled, calls, poll, load, shown, watch, dropped, visible>>
  BY DEF OtherTab
<1> QED BY <1>2, <1>3, <1>4, ServerStep

\* A request that is answered has its answer from the server as it is then.
LEMMA HandledKeeps ==
  ASSUME ClientInv, NEW c \in Slots, Handled(c)
  PROVE  ClientInv'
<1>0. /\ jobs \in [Cleanups -> JobRecords] /\ ServerFits /\ WeatherFits
      /\ \A j \in Cleanups : jobs[j].at \in Nat /\ jobs[j].moved \in Nat
  BY InvFacts
<1>1. PICK u : u = calls[c]
  OBVIOUS
<1>2. u # None /\ u \in Requests /\ u.reply = None
  BY <1>1 DEF Handled, ClientInv, ClientTypeOK
<1>3. UNCHANGED <<page, settled, poll, load, shown, watch, dropped, visible>>
  BY DEF Handled
<1>4. WeatherFits'
  BY <1>0, WeatherKept DEF Handled
<1>5. \E reply \in Replies :
        /\ JobsAdvance /\ calls' = [calls EXCEPT ![c].reply = reply]
        /\ (u.mine /\ CallFits(u) /\ reply.ok) => AnswerFits([u EXCEPT !.reply = reply])'
  <2>1. CASE calls' = [calls EXCEPT ![c].reply = Refused] /\ UNCHANGED jobs
    <3>1. Refused \in Replies /\ ~Refused.ok
      BY DEF Reply, Replies, Refused
    <3> QED BY <1>0, <2>1, <3>1, NothingChanged
  <2>2. CASE ~(calls' = [calls EXCEPT ![c].reply = Refused] /\ UNCHANGED jobs)
    <3>1. PICK outcomes, done :
            /\ outcomes = CASE u.op = "resolution" -> Start
                            [] u.op = "trash" -> {Confirm(u.job)}
                            [] u.op = "undo" -> {Undo(u.job)}
                            [] u.op = "start_over" -> {Discard(u.job)}
                            [] OTHER -> {Leaves(Reply(TRUE, FALSE, None))}
            /\ done \in outcomes /\ jobs' = done.jobs /\ calls' = [calls EXCEPT ![c].reply = done.reply]
      BY <1>1, <2>2 DEF Handled
    <3>2. SUFFICES /\ JobsAdvance /\ done.reply \in Replies
                   /\ (u.mine /\ CallFits(u) /\ done.reply.ok) => AnswerFits([u EXCEPT !.reply = done.reply])'
      BY <3>1
    <3>3. ASSUME done.reply.ok, Honest(done), JobsAdvance, u.mine, CallFits(u), u.op \notin {"start_over", "rescan"},
                 u.op # "resolution" => done.reply.job.id = u.job
          PROVE  AnswerFits([u EXCEPT !.reply = done.reply])'
      <4>1. PICK v : v = done.reply.job
        OBVIOUS
      <4>2. v \in Views /\ jobs'[v.id].status # "gone" /\ v.at = jobs'[v.id].at /\ v.moved = jobs'[v.id].moved
        BY <3>1, <3>3, <4>1 DEF Honest
      <4>3. v.at \in Nat /\ v.moved \in Nat /\ v.id \in Cleanups
        BY <4>2 DEF Views
      <4>4. Past(v)'
        BY <4>2, <4>3 DEF Past
      <4>5. v.id \notin dropped'
        BY <1>3, <3>3, <4>2, <4>3 DEF JobsAdvance, ClientInv, DroppedFit, ClientTypeOK
      <4>6. Later(v)'
        <5>1. page.job # None => page.job \in Views /\ Past(page.job) /\ page.job.at \in Nat
          BY DEF ClientInv, ClientTypeOK, Views, PageStates
        <5>2. page.job # None => page.job.id = v.id
          <6>1. CASE u.op = "resolution"
            <7>1. page.active = "resolution" /\ page.active # None
              BY <3>3, <6>1 DEF CallFits
            <7>2. page.job = None
              BY <7>1 DEF ClientInv, ActiveFits
            <7> QED BY <7>2
          <6>2. CASE u.op # "resolution"
            BY <3>3, <4>1, <6>2 DEF CallFits
          <6> QED BY <6>1, <6>2
        <5>3. page.job # None => page.job.at <= jobs[v.id].at /\ jobs[v.id].at <= jobs'[v.id].at /\ jobs[v.id].at \in Nat
          BY <1>0, <3>3, <4>3, <5>1, <5>2 DEF Past, JobsAdvance
        <5>4. page.job # None => page.job.at <= v.at
          BY <4>2, <4>3, <5>1, <5>3
        <5> QED BY <1>3, <5>2, <5>4 DEF Later
      <4>7. PICK w : w = [u EXCEPT !.reply = done.reply]
        OBVIOUS
      <4>8. w.op = u.op /\ w.reply.job = v
        BY <1>2, <4>1, <4>7 DEF Requests
      <4>9. AnswerFits(w)'
        BY <3>3, <4>2, <4>4, <4>5, <4>6, <4>8 DEF AnswerFits
      <4> QED BY <4>7, <4>9
    <3>4. CASE u.op = "resolution"
      <4>1. done \in Start
        BY <3>1, <3>4
      <4>2. JobsAdvance /\ Honest(done)
        BY <1>0, <3>1, <4>1, StartIsHonest DEF WeatherFits
      <4> QED BY <3>3, <3>4, <4>2 DEF Honest
    <3>5. CASE u.op \in {"trash", "undo"}
      <4>1. done \in {Confirm(u.job), Undo(u.job)}
        BY <3>1, <3>5
      <4>2. u.job \in Cleanups
        BY <1>2, <3>5 DEF Requests
      <4>3. JobsAdvance /\ Honest(done) /\ (done.reply.ok => done.reply.job.id = u.job)
        BY <1>0, <3>1, <4>1, <4>2, ConfirmIsHonest, UndoIsHonest
      <4> QED BY <3>3, <3>5, <4>3 DEF Honest
    <3>6. CASE u.op = "start_over"
      <4>1. done = Discard(u.job) /\ u.job \in Cleanups
        BY <1>2, <3>1, <3>6 DEF Requests
      <4>2. /\ JobsAdvance /\ done.reply \in Replies
            /\ done.reply.ok => done.reply.job = None /\ jobs'[u.job].status = "gone"
        BY <1>0, <3>1, <4>1, DiscardIsHonest
      <4>3. PICK w : w = [u EXCEPT !.reply = done.reply]
        OBVIOUS
      <4>4. w.op = "start_over" /\ w.job = u.job /\ w.reply = done.reply
        BY <1>2, <3>6, <4>3 DEF Requests
      <4>5. done.reply.ok => AnswerFits(w)'
        BY <4>2, <4>4 DEF AnswerFits
      <4> QED BY <4>2, <4>3, <4>5
    <3>7. CASE u.op = "rescan"
      <4>1. done = Leaves(Reply(TRUE, FALSE, None))
        BY <3>1, <3>7
      <4>2. done.jobs = jobs /\ done.reply \in Replies
        BY <4>1 DEF Reply, Replies, Leaves
      <4>3. JobsAdvance
        BY <1>0, <3>1, <4>2, NothingChanged
      <4>4. PICK w : w = [u EXCEPT !.reply = done.reply]
        OBVIOUS
      <4>5. AnswerFits(w)'
        BY <1>2, <3>7, <4>4 DEF AnswerFits, Requests
      <4> QED BY <4>2, <4>3, <4>4, <4>5
    <3> QED BY <1>2, <3>4, <3>5, <3>6, <3>7 DEF Requests, Operations
  <2> QED BY <2>1, <2>2
<1>6. PICK reply \in Replies :
        /\ JobsAdvance /\ calls' = [calls EXCEPT ![c].reply = reply]
        /\ (u.mine /\ CallFits(u) /\ reply.ok) => AnswerFits([u EXCEPT !.reply = reply])'
  BY <1>5
<1>7. PICK w : w = [u EXCEPT !.reply = reply]
  OBVIOUS
<1>8. w \in Requests /\ w.op = u.op /\ w.job = u.job /\ w.mine = u.mine /\ w.reply = reply
  BY <1>2, <1>7 DEF Requests
<1>9. calls \in [Slots -> Requests \cup {None}] /\ calls' = [calls EXCEPT ![c] = w]
  BY <1>1, <1>6, <1>7 DEF ClientInv, ClientTypeOK
<1>10. ClientTypeOK'
  BY <1>3, <1>4, <1>6, <1>8, <1>9 DEF ClientInv, ClientTypeOK, WeatherFits, JobsAdvance
<1>11. CallsFit'
  <2>1. ASSUME NEW d \in Slots, NEW v, v = calls'[d], v # None, v.mine
        PROVE  CallFits(v)' /\ calls[d] # None /\ calls[d].mine
    <3>1. CASE d = c
      <4>1. v = w /\ u.mine
        BY <1>8, <1>9, <2>1, <3>1
      <4>2. CallFits(u)
        BY <1>1, <1>2, <4>1 DEF ClientInv, CallsFit
      <4>3. CallFits(w)'
        BY <1>3, <1>6, <1>7, <1>8, <4>1, <4>2 DEF CallFits
      <4> QED BY <1>1, <1>2, <3>1, <4>1, <4>3
    <3>2. CASE d # c
      <4>1. v = calls[d] /\ v \in Requests
        BY <1>9, <2>1, <3>2
      <4>2. CallFits(v)
        BY <2>1, <4>1 DEF ClientInv, CallsFit
      <4>3. CallFits(v)'
        BY <1>3, <1>6, <4>1, <4>2, CallKept
      <4> QED BY <2>1, <4>1, <4>3
    <3> QED BY <3>1, <3>2
  <2>2. ASSUME NEW d \in Slots, calls'[d] # None, calls'[d].mine
        PROVE  CallFits(calls[d])' /\ \A e \in Slots : calls'[e] # None /\ calls'[e].mine => e = d
    <3>1. PICK v : v = calls'[d]
      OBVIOUS
    <3>2. CallFits(v)'
      BY <2>1, <2>2, <3>1
    <3>3. \A e \in Slots : calls'[e] # None /\ calls'[e].mine => calls[e] # None /\ calls[e].mine
      BY <2>1
    <3>4. \A e \in Slots : calls'[e] # None /\ calls'[e].mine => e = d
      BY <2>2, <3>3 DEF ClientInv, CallsFit
    <3> QED BY <3>1, <3>2, <3>4 DEF CallFits, AnswerFits
  <2> QED BY <2>2 DEF CallsFit
<1> QED BY <1>3, <1>6, <1>10, <1>11, ServerKeeps DEF ClientInv

-----------------------------------------------------------------------------
(* The operations of the page.                                              *)

\* The page without a call of its own: nothing but its operation changes.
LEMMA ActiveSet ==
  ASSUME ClientInv, NEW op \in Operations \cup {None}, page' = [page EXCEPT !.active = op],
         UNCHANGED <<jobs, settled, poll, load, shown, watch, dropped, visible, weather>>,
         calls' \in [Slots -> Requests \cup {None}], ActiveFits'
  PROVE  /\ ClientTypeOK' /\ ServerFits' /\ Past(page.job)' /\ Past(load.job)' /\ PollFits' /\ DroppedFit'
         /\ CreditsFit' /\ PresentedFits' /\ WatchFits' /\ page'.job = page.job /\ page'.active = op
<1>1. page'.job = page.job /\ page'.active = op
  BY DEF ClientInv, ClientTypeOK
<1>2. ClientTypeOK'
  BY <1>1 DEF ClientInv, ClientTypeOK, PageStates
<1>3. ServerFits' /\ Past(page.job)' /\ Past(load.job)' /\ DroppedFit'
  BY <1>1 DEF ClientInv, ServerFits, Past, DroppedFit
<1>4. PollFits'
  BY <1>1 DEF ClientInv, PollFits, Past, Later
<1>5. CreditsFit' /\ PresentedFits' /\ WatchFits'
  BY <1>1 DEF ClientInv, CreditsFit, PresentedFits, Covered, WatchFits
<1> QED BY <1>1, <1>2, <1>3, <1>4, <1>5

\* An operation is begun: when nothing is polled, or to give up the job that is.
LEMMA PressKeeps ==
  ASSUME ClientInv, NEW op \in Operations, NEW id, Press(op, id),
         op = "resolution" => page.job = None /\ id = 0,
         op # "resolution" => page.job # None /\ id = page.job.id,
         op \notin {"resolution", "start_over"} => ~Polled(page.job)
  PROVE  ClientInv'
<1>1. /\ settled /\ page.active = None /\ page' = [page EXCEPT !.active = op]
      /\ UNCHANGED <<jobs, settled, poll, load, shown, watch, dropped, visible, weather>>
  BY DEF Press, BeginOperation
<1>2. PICK c \in Slots :
        \E u : u = [op |-> op, job |-> id, mine |-> TRUE, reply |-> None] /\ calls' = [calls EXCEPT ![c] = u]
  BY DEF Press, Send
<1>3. PICK u : u = [op |-> op, job |-> id, mine |-> TRUE, reply |-> None] /\ calls' = [calls EXCEPT ![c] = u]
  BY <1>2
<1>4. id \in Cleanups \cup {0} /\ (op # "resolution" => id \in Cleanups)
  BY DEF ClientInv, ClientTypeOK, Views, PageStates
<1>5. u \in Requests /\ u.op = op /\ u.job = id /\ u.reply = None
  BY <1>4, <1>3 DEF Requests
<1>6. calls \in [Slots -> Requests \cup {None}] /\ calls' \in [Slots -> Requests \cup {None}]
  BY <1>5, <1>3 DEF ClientInv, ClientTypeOK
<1>7. page'.job = page.job /\ page'.active = op /\ op # None
  BY <1>1, CleanupClientAssumption DEF ClientInv, ClientTypeOK
<1>8. ActiveFits'
  <2>1. op # "start_over" => PolledId(page.job) = 0
    BY DEF PolledId
  <2>2. op # "start_over" => poll.id = 0
    BY <1>1, <2>1 DEF ClientInv, PollFits
  <2> QED BY <1>1, <1>7, <2>2 DEF ActiveFits
<1>9. CallsFit'
  <2>1. \A d \in Slots : ~(calls[d] # None /\ calls[d].mine)
    BY <1>1 DEF ClientInv, CallsFit, CallFits
  <2>2. \A d \in Slots : calls'[d] # None /\ calls'[d].mine => d = c
    BY <1>6, <1>3, <2>1
  <2>3. CallFits(u)'
    BY <1>5, <1>7 DEF CallFits
  <2>4. calls'[c] = u
    BY <1>6, <1>3
  <2> QED BY <2>2, <2>3, <2>4 DEF CallsFit, CallFits, AnswerFits
<1> QED BY <1>1, <1>6, <1>8, <1>9, ActiveSet DEF ClientInv

\* What the views offer in the status that is shown.
LEMMA OffersFit ==
  ASSUME ClientInv, NEW op \in Offers
  PROVE  /\ op = "resolution" => page.job = None
         /\ op # "resolution" => page.job # None
         /\ op \notin {"resolution", "start_over"} => ~Polled(page.job)
<1>1. CASE page.job = None
  <2>1. op = "resolution"
    BY <1>1 DEF Offers, SelectionOffers
  <2> QED BY <1>1, <2>1
<1>2. CASE page.job # None /\ op \in OutlookOffers(page.job)
  <2>1. op \in {"start_over", "trash", "rescan", "undo"}
    BY <1>2 DEF OutlookOffers, RestoreOffered
  <2>2. op # "start_over" => page.job.status \in {"ready", "undo_complete"} \cup Results
    BY <1>2 DEF OutlookOffers, RestoreOffered, Results
  <2> QED BY <1>2, <2>1, <2>2 DEF Polled, Results
<1>3. CASE page.job # None /\ op \in GmailOffers(page.job)
  <2>1. op \in {"trash", "rescan", "undo"}
    BY <1>3 DEF GmailOffers, RestoreOffered
  <2>2. page.job.status \in {"ready", "undo_complete"} \cup Results
    BY <1>3 DEF GmailOffers, RestoreOffered, Results
  <2> QED BY <1>3, <2>1, <2>2 DEF Polled, Results
<1> QED BY <1>1, <1>2, <1>3 DEF Offers

LEMMA PressesKeep ==
  ASSUME ClientInv, ResolvePreview \/ ConfirmCleanup \/ StartOver \/ UndoCleanup \/ RescanInbox
  PROVE  ClientInv'
<1>1. PICK op \in Operations : \E id :
        op \in Offers /\ Press(op, id) /\ id = (IF op = "resolution" THEN 0 ELSE page.job.id)
  BY DEF ResolvePreview, ConfirmCleanup, StartOver, UndoCleanup, RescanInbox, Operations
<1>2. PICK id : op \in Offers /\ Press(op, id) /\ id = (IF op = "resolution" THEN 0 ELSE page.job.id)
  BY <1>1
<1> QED BY <1>2, OffersFit, PressKeeps

\* The page takes a job over, or gives the one it has up, at the end of an operation.
LEMMA OperationEnds ==
  ASSUME ClientInv, NEW c \in Slots, calls[c] # None, calls[c].mine, calls' = [calls EXCEPT ![c] = None],
         NEW job \in Views \cup {None}, FinishOperation(job), Past(job),
         UNCHANGED <<jobs, poll, load, shown, watch, visible>>, WeatherFits',
         dropped' \in SUBSET Cleanups, \A j \in dropped' : jobs[j].status = "gone",
         job # None => job.id \notin dropped',
         job # None /\ poll.id # 0 => job = page.job
  PROVE  ClientInv'
<1>1. page' = [job |-> job, active |-> None] /\ settled' = FALSE
  BY DEF FinishOperation
<1>2. ClientTypeOK'
  <2>1. page' \in PageStates /\ settled' \in BOOLEAN
    BY <1>1 DEF PageStates
  <2>2. calls' \in [Slots -> Requests \cup {None}]
    BY DEF ClientInv, ClientTypeOK
  <2> QED BY <2>1, <2>2 DEF ClientInv, ClientTypeOK, WeatherFits
<1>3. ServerFits' /\ Past(page.job)' /\ Past(load.job)' /\ DroppedFit'
  BY <1>1 DEF ClientInv, ServerFits, Past, DroppedFit
<1>4. PollFits'
  <2>1. job # None => poll.id = 0 \/ (page.job # None /\ job = page.job)
    OBVIOUS
  <2>2. poll.id = 0 => poll.stage = "stopped"
    BY DEF ClientInv, PollFits
  <2>3. poll.stage = "told" /\ poll.reply.ok => Later(poll.reply.job)'
    BY <1>1, <2>1, <2>2 DEF ClientInv, PollFits, Later
  <2> QED BY <1>1, <2>1, <2>3 DEF ClientInv, PollFits, Past
<1>5. ActiveFits' /\ CreditsFit' /\ PresentedFits' /\ WatchFits'
  BY <1>1 DEF ClientInv, ActiveFits, CreditsFit, PresentedFits, Covered, WatchFits
<1>6. CallsFit'
  <2>1. \A d \in Slots : calls'[d] # None => d # c /\ calls'[d] = calls[d]
    BY DEF ClientInv, ClientTypeOK
  <2>2. \A d \in Slots : ~(calls'[d] # None /\ calls'[d].mine)
    BY <2>1 DEF ClientInv, CallsFit
  <2> QED BY <2>2 DEF CallsFit
<1> QED BY <1>2, <1>3, <1>4, <1>5, <1>6 DEF ClientInv

\* A call that is gone from its slot, and of which the page takes no notice.
LEMMA CallForgotten ==
  ASSUME ClientInv, NEW c \in Slots, calls' = [calls EXCEPT ![c] = None], WeatherFits',
         UNCHANGED <<jobs, page, settled, poll, load, shown, watch, dropped, visible>>
  PROVE  ClientInv'
<1>1. ClientTypeOK'
  BY DEF ClientInv, ClientTypeOK, WeatherFits
<1>2. \A d \in Slots : calls'[d] # None => calls'[d] = calls[d]
  BY DEF ClientInv, ClientTypeOK
<1>3. CallsFit'
  <2>1. ASSUME NEW d \in Slots, calls'[d] # None, calls'[d].mine
        PROVE  CallFits(calls[d])' /\ \A e \in Slots : calls'[e] # None /\ calls'[e].mine => e = d
    <3>1. PICK v : v = calls[d] /\ v = calls'[d]
      BY <1>2, <2>1
    <3>2. CallFits(v) /\ \A e \in Slots : calls[e] # None /\ calls[e].mine => e = d
      BY <2>1, <3>1 DEF ClientInv, CallsFit
    <3>3. CallFits(v)'
      BY <3>2 DEF CallFits, AnswerFits, Past, Later
    <3> QED BY <1>2, <3>1, <3>2, <3>3 DEF CallFits, AnswerFits, Past, Later
  <2> QED BY <2>1 DEF CallsFit
<1>4. JobsAdvance
  BY InvFacts, NothingChanged
<1> QED BY <1>1, <1>3, <1>4, ServerKeeps DEF ClientInv

LEMMA AnsweredKeeps ==
  ASSUME ClientInv, NEW c \in Slots, Answered(c)
  PROVE  ClientInv'
<1>1. PICK u : u = calls[c]
  OBVIOUS
<1>2. /\ u # None /\ u.reply # None /\ u \in Requests /\ u.reply \in Replies
      /\ calls' = [calls EXCEPT ![c] = None]
      /\ UNCHANGED <<jobs, poll, load, shown, watch, visible, weather>>
  BY <1>1 DEF Answered, ClientInv, ClientTypeOK, Requests
<1>3. WeatherFits' /\ dropped \in SUBSET Cleanups
  BY <1>2, InvFacts, WeatherKept DEF ClientInv, ClientTypeOK
<1>4. CASE UNCHANGED <<page, settled, dropped>>
  BY <1>2, <1>3, <1>4, CallForgotten
<1>5. CASE u.mine /\ ~u.reply.ok /\ FinishOperation(page.job) /\ UNCHANGED dropped
  <2>1. page.job \in Views \cup {None} /\ Past(page.job) /\ DroppedFit
    BY DEF ClientInv, ClientTypeOK, PageStates
  <2>2. PICK job : job = page.job
    OBVIOUS
  <2> QED BY <1>1, <1>2, <1>3, <1>5, <2>1, <2>2, OperationEnds DEF DroppedFit
<1>6. CASE /\ u.mine /\ u.reply.ok /\ u.op # "rescan" /\ FinishOperation(u.reply.job)
           /\ dropped' = IF u.op = "start_over" THEN dropped \cup {u.job} ELSE dropped
  <2>1. AnswerFits(u) /\ page.active = u.op /\ page.active # None
    BY <1>1, <1>2, <1>6 DEF ClientInv, CallsFit, CallFits
  <2>2. \A j \in dropped : jobs[j].status = "gone"
    BY DEF ClientInv, DroppedFit
  <2>3. PICK job : job = u.reply.job
    OBVIOUS
  <2>4. CASE u.op = "start_over"
    <3>1. job = None /\ jobs[u.job].status = "gone" /\ u.job \in Cleanups
      BY <1>2, <2>1, <2>3, <2>4 DEF AnswerFits, Requests
    <3>2. dropped' \in SUBSET Cleanups /\ \A j \in dropped' : jobs[j].status = "gone"
      BY <1>3, <1>6, <2>2, <2>4, <3>1
    <3>3. Past(job)
      BY <3>1 DEF Past
    <3> QED BY <1>1, <1>2, <1>3, <1>6, <2>3, <3>1, <3>2, <3>3, OperationEnds
  <2>5. CASE u.op # "start_over"
    <3>1. job \in Views /\ job.id \notin dropped /\ Past(job)
      BY <1>6, <2>1, <2>3, <2>5 DEF AnswerFits
    <3>2. poll.id = 0
      BY <2>1, <2>5 DEF ClientInv, ActiveFits
    <3> QED BY <1>1, <1>2, <1>3, <1>6, <2>2, <2>3, <2>5, <3>1, <3>2, OperationEnds
  <2> QED BY <2>4, <2>5
<1>7. \/ UNCHANGED <<page, settled, dropped>>
      \/ u.mine /\ ~u.reply.ok /\ FinishOperation(page.job) /\ UNCHANGED dropped
      \/ /\ u.mine /\ u.reply.ok /\ u.op # "rescan" /\ FinishOperation(u.reply.job)
         /\ dropped' = IF u.op = "start_over" THEN dropped \cup {u.job} ELSE dropped
  BY <1>1 DEF Answered
<1> QED BY <1>4, <1>5, <1>6, <1>7

LEMMA CallLostKeeps ==
  ASSUME ClientInv, NEW c \in Slots, CallLost(c)
  PROVE  ClientInv'
<1>1. /\ calls[c] # None /\ calls' = [calls EXCEPT ![c] = None]
      /\ UNCHANGED <<jobs, poll, load, shown, watch, dropped, visible>>
      /\ IF calls[c].mine THEN FinishOperation(page.job) ELSE UNCHANGED <<page, settled>>
  BY DEF CallLost
<1>2. WeatherFits'
  BY InvFacts, WeatherKept DEF CallLost
<1>3. CASE ~calls[c].mine
  BY <1>1, <1>2, <1>3, CallForgotten
<1>4. CASE calls[c].mine
  <2>1. page.job \in Views \cup {None} /\ Past(page.job) /\ DroppedFit /\ dropped \in SUBSET Cleanups
    BY DEF ClientInv, ClientTypeOK, PageStates
  <2>2. PICK job : job = page.job
    OBVIOUS
  <2> QED BY <1>1, <1>2, <1>4, <2>1, <2>2, OperationEnds DEF DroppedFit
<1> QED BY <1>3, <1>4

-----------------------------------------------------------------------------
(* Polls.                                                                   *)

\* What speaks of neither the polls nor what is loaded.
LEMMA PageStands ==
  ASSUME ClientInv, UNCHANGED <<jobs, page, calls, dropped>>
  PROVE  ServerFits' /\ Past(page.job)' /\ DroppedFit' /\ CallsFit'
<1>1. JobsAdvance
  BY InvFacts, NothingChanged
<1>2. CallsFit'
  BY <1>1, CallsKept
<1> QED BY <1>2 DEF ClientInv, ServerFits, Past, DroppedFit

\* What speaks of neither the page nor the polls.
LEMMA LoadStands ==
  ASSUME ClientInv, UNCHANGED <<jobs, load, shown, watch, visible>>
  PROVE  /\ Past(load.job)' /\ CreditsFit' /\ WatchFits'
         /\ \A j \in Cleanups, moved \in Nat :
              shown'.presented = <<j, moved>> =>
                moved <= jobs'[j].moved /\ (shown'.presented # shown'.came => Covered(j, moved)')
<1>1. Past(load.job)' /\ CreditsFit' /\ WatchFits'
  BY DEF ClientInv, Past, CreditsFit, WatchFits
<1> QED BY <1>1 DEF ClientInv, PresentedFits, Covered

\* A poll goes on while the page stays as it is.
LEMMA PollStep ==
  ASSUME ClientInv, UNCHANGED <<jobs, page, settled, calls, load, shown, watch, dropped, visible>>,
         WeatherFits', PollFits', poll'.id = poll.id,
         poll' \in Polls
  PROVE  ClientInv'
<1>1. ClientTypeOK'
  BY DEF ClientInv, ClientTypeOK, WeatherFits
<1>2. ActiveFits'
  BY DEF ClientInv, ActiveFits
<1>3. PresentedFits'
  BY DEF ClientInv, PresentedFits, Covered
<1> QED BY <1>1, <1>2, <1>3, PageStands, LoadStands DEF ClientInv

LEMMA PollFacts ==
  ASSUME ClientInv
  PROVE  /\ poll \in Polls
         /\ poll.stage # "stopped" => poll.id \in Cleanups
         /\ settled => poll.id = PolledId(page.job)
         /\ page.job # None /\ poll.id # 0 => page.job.id = poll.id
BY DEF ClientInv, ClientTypeOK, PollFits, Polls

LEMMA PollAsksKeeps ==
  ASSUME ClientInv, PollAsks
  PROVE  ClientInv'
<1>1. /\ poll.stage = "armed" /\ poll' = [poll EXCEPT !.stage = "asked"]
      /\ UNCHANGED <<jobs, page, settled, calls, load, shown, watch, dropped, visible, weather>>
  BY DEF PollAsks
<1>2. /\ poll'.id = poll.id /\ poll'.stage = "asked" /\ poll.id \in Cleanups /\ poll.id # 0
      /\ poll' \in Polls
  BY <1>1, PollFacts, CleanupClientAssumption DEF Polls
<1>3. WeatherFits'
  BY <1>1, InvFacts, WeatherKept
<1>4. PollFits'
  BY <1>1, <1>2, PollFacts DEF PollFits, PolledId
<1> QED BY <1>1, <1>2, <1>3, <1>4, PollStep

LEMMA StatusAnswersKeeps ==
  ASSUME ClientInv, StatusAnswers
  PROVE  ClientInv'
<1>1. /\ poll.stage = "asked"
      /\ UNCHANGED <<jobs, page, settled, calls, load, shown, watch, dropped, visible>>
  BY DEF StatusAnswers
<1>2. poll.id \in Cleanups /\ poll.id # 0
  BY <1>1, PollFacts, CleanupClientAssumption
<1>3. PICK reply \in {StatusReply(poll.id), Refused} : poll' = [poll EXCEPT !.stage = "told", !.reply = reply]
  BY DEF StatusAnswers
<1>4. View(poll.id) \in Views /\ View(poll.id).id = poll.id /\ View(poll.id).at = jobs[poll.id].at
      /\ View(poll.id).moved = jobs[poll.id].moved
  BY <1>2, InvFacts, ViewIsPast DEF View
<1>5. reply \in Replies /\ (reply.ok => reply.job = View(poll.id))
  <2>1. CASE reply = Reply(TRUE, FALSE, View(poll.id))
    BY <1>4, <2>1, ReplyTells
  <2>2. CASE reply = Reply(FALSE, TRUE, None) \/ reply = Reply(FALSE, FALSE, None)
    BY <2>2, ReplyRefuses
  <2> QED BY <1>3, <2>1, <2>2 DEF StatusReply, Refused
<1>6. /\ poll'.id = poll.id /\ poll'.stage = "told" /\ poll'.reply = reply
      /\ poll' \in Polls
  BY <1>3, <1>5, PollFacts DEF Polls
<1>7. WeatherFits'
  BY InvFacts, WeatherKept DEF StatusAnswers
<1>8. PICK v : v = View(poll.id)
  OBVIOUS
<1>9. Past(v) /\ Later(v)
  <2>1. v.at \in Nat /\ v.moved \in Nat
    BY <1>4, <1>8 DEF Views
  <2>2. page.job # None => page.job.at <= jobs[page.job.id].at
    BY DEF ClientInv, Past
  <2> QED BY <1>2, <1>4, <1>8, <2>1, <2>2, PollFacts DEF Past, Later
<1>10. Past(v)' /\ Later(v)'
  BY <1>1, <1>9 DEF Past, Later
<1>11. PollFits'
  BY <1>1, <1>2, <1>4, <1>5, <1>6, <1>8, <1>10, PollFacts DEF PollFits, PolledId, Past, Later
<1> QED BY <1>1, <1>6, <1>7, <1>11, PollStep

\* A polled job is a later view of the one on the page, which is not being confirmed or restored.
LEMMA PollChangesPage ==
  ASSUME ClientInv, NEW job \in Views \cup {None}, page' = [page EXCEPT !.job = job], settled' = FALSE,
         poll.id # 0, UNCHANGED <<jobs, calls, load, shown, watch, dropped, visible, weather>>,
         NEW stage \in {"stopped", "armed"}, poll' = [poll EXCEPT !.stage = stage, !.reply = None],
         Past(job), job = None => page.job = None,
         job # None => job.id = poll.id /\ job.id \notin dropped /\ (page.job # None => page.job.at <= job.at)
  PROVE  ClientInv'
<1>1. /\ page \in PageStates
      /\ page'.job = job /\ page'.active = page.active
      /\ page' \in PageStates
  BY DEF ClientInv, ClientTypeOK, PageStates
<1>2. /\ poll'.id = poll.id /\ poll'.stage = stage
      /\ poll' \in Polls
  BY PollFacts DEF Polls
<1>3. WeatherFits'
  BY InvFacts, WeatherKept
<1>4. ClientTypeOK'
  BY <1>1, <1>2, <1>3 DEF ClientInv, ClientTypeOK, WeatherFits
<1>5. ServerFits' /\ Past(page.job)' /\ DroppedFit'
  BY <1>1 DEF ClientInv, ServerFits, Past, DroppedFit
<1>6. PollFits'
  BY <1>1, <1>2 DEF PollFits
<1>7. page.active # None => page.active = "start_over"
  BY DEF ClientInv, ActiveFits
<1>8. ActiveFits'
  BY <1>1, <1>7 DEF ActiveFits
<1>9. PresentedFits'
  BY LoadStands DEF PresentedFits
<1>10. ASSUME NEW u \in Requests, u.mine, CallFits(u)
       PROVE  CallFits(u)'
  <2>1. u.op = "start_over" /\ page.active = u.op /\ page.active # None /\ page.job # None /\ page.job.id = u.job
    BY <1>7, <1>10 DEF CallFits
  <2>2. page'.job # None /\ page'.job.id = u.job
    BY <1>1, <2>1, PollFacts
  <2>3. u.reply # None /\ u.reply.ok => AnswerFits(u)'
    BY <1>10, <2>1 DEF CallFits, AnswerFits
  <2> QED BY <1>1, <2>1, <2>2, <2>3 DEF CallFits
<1>11. CallsFit'
  <2>1. ASSUME NEW c \in Slots, calls[c] # None, calls[c].mine
        PROVE  CallFits(calls[c])' /\ \A d \in Slots : calls'[d] # None /\ calls'[d].mine => d = c
    <3>1. PICK u : u = calls[c]
      OBVIOUS
    <3>2. u \in Requests /\ CallFits(u)
      BY <2>1, <3>1 DEF ClientInv, ClientTypeOK, CallsFit
    <3>3. CallFits(u)' /\ calls'[c] = u
      BY <1>10, <2>1, <3>1, <3>2
    <3> QED BY <2>1, <3>3 DEF ClientInv, CallsFit, CallFits, AnswerFits
  <2> QED BY <2>1 DEF CallsFit
<1> QED BY <1>4, <1>5, <1>6, <1>8, <1>9, <1>11, LoadStands DEF ClientInv

LEMMA PollAnsweredKeeps ==
  ASSUME ClientInv, PollAnswered
  PROVE  ClientInv'
<1>1. /\ poll.stage = "told" /\ UNCHANGED <<jobs, calls, load, shown, watch, dropped, visible, weather>>
  BY DEF PollAnswered
<1>2. /\ poll.id \in Cleanups /\ poll.id # 0 /\ poll.reply \in Replies
      /\ poll.reply.ok => poll.reply.job \in Views /\ poll.reply.job.id = poll.id
                          /\ Past(poll.reply.job) /\ Later(poll.reply.job)
  BY <1>1, PollFacts, CleanupClientAssumption DEF ClientInv, PollFits
<1>3. WeatherFits'
  BY <1>1, InvFacts, WeatherKept
<1>4. CASE poll.reply.ok /\ poll.id \notin dropped /\ PolledView(poll.reply.job, poll.id)
  <2>1. PICK job : job = poll.reply.job
    OBVIOUS
  <2>2. PICK stage : stage = IF Polled(job) THEN "armed" ELSE "stopped"
    OBVIOUS
  <2>3. /\ page' = [page EXCEPT !.job = job] /\ settled' = FALSE
        /\ poll' = [poll EXCEPT !.stage = stage, !.reply = None]
    BY <1>4, <2>1, <2>2 DEF PolledView
  <2>4. job \in Views /\ job.id = poll.id /\ job.id \notin dropped /\ Past(job) /\ Later(job)
    BY <1>2, <1>4, <2>1
  <2>5. stage \in {"stopped", "armed"}
    BY <2>2
  <2>6. job # None
    BY <2>4, CleanupClientAssumption
  <2> QED BY <1>1, <1>2, <2>3, <2>4, <2>5, <2>6, PollChangesPage DEF Later
<1>5. CASE poll.reply.ok /\ poll.id \in dropped /\ PolledView(poll.reply.job, poll.id)
  <2>1. poll' = [poll EXCEPT !.stage = "stopped", !.reply = None] /\ UNCHANGED <<page, settled>>
    BY <1>5 DEF PolledView
  <2>2. /\ poll'.id = poll.id /\ poll'.stage = "stopped"
        /\ poll' \in Polls
    BY <2>1, PollFacts DEF Polls
  <2>3. PollFits'
    BY <2>1, <2>2, PollFacts DEF PollFits, PolledId
  <2> QED BY <1>1, <1>3, <2>1, <2>2, <2>3, PollStep
<1>6. CASE /\ page' = IF page.job = None THEN page ELSE [page EXCEPT !.job.status = "expired"]
           /\ settled' = FALSE /\ poll' = [poll EXCEPT !.stage = "stopped", !.reply = None]
  <2>1. PICK job : job = IF page.job = None THEN None ELSE [page.job EXCEPT !.status = "expired"]
    OBVIOUS
  <2>2. page \in PageStates /\ Past(page.job)
    BY DEF ClientInv, ClientTypeOK
  <2>3. page' = [page EXCEPT !.job = job]
    BY <1>6, <2>1, <2>2 DEF PageStates
  <2>4. CASE page.job = None
    <3>1. job = None /\ Past(job)
      BY <2>1, <2>4 DEF Past
    <3> QED BY <1>1, <1>2, <1>6, <2>3, <2>4, <3>1, PollChangesPage
  <2>5. CASE page.job # None
    <3>1. /\ job \in Views /\ job.id = page.job.id /\ job.at = page.job.at /\ job.moved = page.job.moved
          /\ page.job.at \in Nat
      BY <2>1, <2>2, <2>5 DEF Views, PageStates
    <3>2. Past(job)
      BY <2>2, <2>5, <3>1 DEF Past
    <3>3. job.id = poll.id /\ job.id \notin dropped /\ page.job.at <= job.at
      BY <1>2, <2>5, <3>1, PollFacts DEF ClientInv, DroppedFit
    <3>4. job # None
      BY <3>1, CleanupClientAssumption
    <3> QED BY <1>1, <1>2, <1>6, <2>3, <2>5, <3>1, <3>2, <3>3, <3>4, PollChangesPage
  <2> QED BY <2>4, <2>5
<1>7. CASE poll' = Retried(poll.id) /\ UNCHANGED <<page, settled>>
  <2>1. poll' = [id |-> poll.id, stage |-> "armed", reply |-> None]
    BY <1>2, <1>7 DEF Retried, Polling
  <2>2. /\ poll'.id = poll.id /\ poll'.stage = "armed"
        /\ poll' \in Polls
    BY <1>2, <2>1 DEF Polls
  <2>3. PollFits'
    BY <1>2, <1>7, <2>2, PollFacts DEF PollFits, PolledId
  <2> QED BY <1>1, <1>3, <1>7, <2>2, <2>3, PollStep
<1>8. \/ poll.reply.ok /\ PolledView(poll.reply.job, poll.id)
      \/ /\ page' = IF page.job = None THEN page ELSE [page EXCEPT !.job.status = "expired"]
         /\ settled' = FALSE /\ poll' = [poll EXCEPT !.stage = "stopped", !.reply = None]
      \/ poll' = Retried(poll.id) /\ UNCHANGED <<page, settled>>
  BY DEF PollAnswered
<1> QED BY <1>4, <1>5, <1>6, <1>7, <1>8

-----------------------------------------------------------------------------
(* Commits, the tab, and pages that are loaded.                             *)

LEMMA KeyFacts ==
  ASSUME NEW job \in Views \cup {None}
  PROVE  /\ AccountingKey(job) \in Keys /\ KeyOf(job) \in Cleanups \cup {0} /\ PolledId(job) \in Cleanups \cup {0}
         /\ StatusOf(job) \in Phases \cup {"expired"}
         /\ job # None /\ job.status \in Terminal =>
              AccountingKey(job) = <<job.id, job.moved>> /\ AccountingKey(job) # <<0, 0>>
         /\ AccountingKey(job) # <<0, 0>> => job # None /\ AccountingKey(job) = <<job.id, job.moved>>
BY CleanupClientAssumption DEF AccountingKey, KeyOf, PolledId, StatusOf, Keys, Views, Phases

\* What is read of the credits is what the server has of them.
LEMMA CreditsRead ==
  ASSUME ClientInv
  PROVE  /\ Credits \in Balances
         /\ \A j \in Cleanups : Credits[j] = jobs[j].moved /\ shown.credits[j] <= Credits[j]
                                /\ shown.credits[j] \in Nat /\ load.credits[j] \in Nat /\ load.credits[j] <= Credits[j]
<1>1. \A j \in Cleanups : jobs[j].moved \in Nat /\ shown.credits[j] \in Nat /\ load.credits[j] \in Nat
  BY InvFacts DEF ClientInv, ClientTypeOK, Balances, Shows, Loads
<1> QED BY <1>1 DEF Credits, Balances, ClientInv, CreditsFit

\* A refresh is begun, or follows the one under way.
LEMMA RefreshFollows ==
  ASSUME ClientInv, NEW l, l = Refreshes(load)
  PROVE  /\ l \in Loads
         /\ l.job = None \/ l.job = load.job
         /\ \A j \in Cleanups : l.credits[j] = load.credits[j] \/ l.credits[j] = Credits[j]
         /\ l.kind # "none" /\ (l.again \/ l.step = 0)
<1>1. load \in Loads
  BY DEF ClientInv, ClientTypeOK
<1>2. PICK credits \in Balances : credits = Credits
  BY CreditsRead
<1>3. CASE load.kind = "none"
  <2>1. l = [kind |-> "refresh", step |-> 0, again |-> FALSE, credits |-> credits, job |-> None]
    BY <1>2, <1>3 DEF Refreshes, NoLoad
  <2>2. l.credits = Credits /\ l.job = None /\ l.kind = "refresh" /\ l.step = 0
    BY <1>2, <2>1
  <2>3. l \in Loads
    BY <2>1 DEF Loads
  <2> QED BY <2>2, <2>3
<1>4. CASE load.kind # "none"
  <2>1. l = [load EXCEPT !.again = TRUE]
    BY <1>4 DEF Refreshes
  <2>2. l.credits = load.credits /\ l.job = load.job /\ l.kind = load.kind
    BY <1>1, <2>1
  <2>3. l.again
    BY <1>1, <2>1
  <2>4. l \in Loads
    BY <1>1, <2>1 DEF Loads
  <2> QED BY <1>4, <2>2, <2>3, <2>4
<1> QED BY <1>3, <1>4

LEMMA CommitKeeps ==
  ASSUME ClientInv, Commit
  PROVE  ClientInv'
<1> DEFINE id == PolledId(page.job)
           status == StatusOf(page.job)
           key == AccountingKey(page.job)
           owed == key # <<0, 0>> /\ key # shown.presented
<1>1. /\ ~settled /\ settled' = TRUE
      /\ poll' = IF poll.id = id THEN poll ELSE Polling(id)
      /\ watch' = IF status # shown.status /\ id = 0 THEN Notify(watch) ELSE watch
      /\ shown' = [shown EXCEPT !.status = status, !.presented = IF owed THEN key ELSE @]
      /\ load' = IF owed THEN Refreshes(load) ELSE load
      /\ UNCHANGED <<jobs, page, calls, dropped, visible, weather>>
  BY DEF Commit
<1>2. /\ page.job \in Views \cup {None} /\ Past(page.job)
      /\ key \in Keys /\ id \in Cleanups \cup {0} /\ status \in Phases \cup {"expired"}
      /\ page.job # None /\ page.job.status \in Terminal => key = <<page.job.id, page.job.moved>> /\ key # <<0, 0>>
      /\ key # <<0, 0>> => page.job # None /\ key = <<page.job.id, page.job.moved>>
  BY KeyFacts, InvFacts DEF ClientInv
<1>3. id # 0 => page.job # None /\ id = page.job.id
  BY DEF PolledId
<1> HIDE DEF id, status, key
<1>4. /\ poll' \in Polls
      /\ poll'.id = id /\ (poll' = poll \/ (poll'.stage \in {"stopped", "armed"} /\ (id = 0 => poll'.stage = "stopped")))
  BY <1>1, <1>2, PollFacts DEF Polling, NoPoll, Polls
<1>5. PollFits'
  <2>1. poll'.id = PolledId(page'.job)
    BY <1>1, <1>4 DEF id
  <2>2. page'.job # None /\ poll'.id # 0 => page'.job.id = poll'.id
    BY <1>1, <1>3, <1>4
  <2>3. CASE poll' = poll
    BY <1>1, <2>1, <2>2, <2>3 DEF ClientInv, PollFits, Past, Later
  <2>4. CASE poll'.stage \in {"stopped", "armed"} /\ (id = 0 => poll'.stage = "stopped")
    BY <1>4, <2>1, <2>2, <2>4 DEF PollFits
  <2> QED BY <1>4, <2>3, <2>4
<1>6. ActiveFits'
  BY <1>1 DEF ClientInv, ActiveFits
<1>7. watch \in Watches /\ visible \in BOOLEAN /\ WatchFits
  BY DEF ClientInv, ClientTypeOK
<1>8. watch' \in Watches /\ WatchFits'
  BY <1>1, <1>7 DEF Notify, WatchRuns, WatchFits, Watches
<1>9. /\ load \in Loads
      /\ shown \in Shows
      /\ Past(load.job)
  BY DEF ClientInv, ClientTypeOK
<1>10. /\ load' \in Loads
       /\ load'.job = None \/ load'.job = load.job
       /\ \A j \in Cleanups : load'.credits[j] = load.credits[j] \/ load'.credits[j] = Credits[j]
       /\ owed => load'.kind # "none" /\ (load'.again \/ load'.step = 0)
  <2>1. CASE ~owed
    BY <1>1, <1>9, <2>1
  <2>2. CASE owed
    <3>1. PICK l : l = Refreshes(load)
      OBVIOUS
    <3> QED BY <1>1, <2>2, <3>1, RefreshFollows
  <2> QED BY <2>1, <2>2
<1>11. /\ shown' \in Shows
       /\ shown'.credits = shown.credits /\ shown'.came = shown.came
       /\ shown'.presented = IF owed THEN key ELSE shown.presented
  BY <1>1, <1>2, <1>9 DEF Shows
<1>12. ClientTypeOK'
  BY <1>1, <1>4, <1>8, <1>10, <1>11 DEF ClientInv, ClientTypeOK
<1>13. Past(load.job)'
  BY <1>1, <1>9, <1>10 DEF Past
<1>14. CreditsFit'
  <2>1. ASSUME NEW j \in Cleanups
        PROVE  shown.credits[j] <= load'.credits[j] /\ load'.credits[j] <= jobs[j].moved
    <3>1. shown.credits[j] <= load.credits[j] /\ load.credits[j] <= jobs[j].moved /\ jobs[j].moved \in Nat
      BY InvFacts DEF ClientInv, CreditsFit
    <3> QED BY <1>10, <3>1, CreditsRead
  <2> QED BY <1>1, <1>11, <2>1 DEF CreditsFit
<1>15. PresentedFits'
  <2>1. ASSUME NEW j \in Cleanups, NEW moved \in Nat, shown'.presented = <<j, moved>>
        PROVE  moved <= jobs'[j].moved /\ (shown'.presented # shown'.came => Covered(j, moved)')
    <3>1. CASE owed
      <4>1. page.job # None /\ <<j, moved>> = <<page.job.id, page.job.moved>>
        BY <1>2, <1>11, <2>1, <3>1
      <4>2. moved <= jobs[j].moved
        BY <1>2, <4>1 DEF Past
      <4> QED BY <1>1, <1>10, <3>1, <4>2 DEF Covered
    <3>2. CASE ~owed
      <4>1. load' = load /\ shown'.presented = shown.presented
        BY <1>1, <1>11, <3>2
      <4> QED BY <1>1, <1>11, <2>1, <4>1 DEF ClientInv, PresentedFits, Covered
    <3> QED BY <3>1, <3>2
  <2>2. page.job # None /\ page.job.status \in Terminal => shown'.presented = <<page.job.id, page.job.moved>>
    BY <1>2, <1>11
  <2> QED BY <1>1, <2>1, <2>2 DEF PresentedFits
<1> QED BY <1>1, <1>5, <1>6, <1>8, <1>12, <1>13, <1>14, <1>15, PageStands DEF ClientInv

\* The watch of availability changes, and at most what is visible with it.
LEMMA WatchStep ==
  ASSUME ClientInv, UNCHANGED <<jobs, page, settled, calls, poll, load, shown, dropped>>, WeatherFits',
         watch' \in Watches, visible' \in BOOLEAN, WatchFits'
  PROVE  ClientInv'
<1>1. ClientTypeOK'
  BY DEF ClientInv, ClientTypeOK, WeatherFits
<1>2. Past(load.job)' /\ CreditsFit' /\ PresentedFits' /\ ActiveFits' /\ PollFits'
  BY DEF ClientInv, Past, Later, CreditsFit, PresentedFits, Covered, ActiveFits, PollFits
<1> QED BY <1>1, <1>2, PageStands DEF ClientInv

LEMMA TabKeeps ==
  ASSUME ClientInv, Hide \/ Show \/ AvailabilityAnswered
  PROVE  ClientInv'
<1>1. watch \in Watches /\ visible \in BOOLEAN /\ WatchFits
  BY DEF ClientInv, ClientTypeOK
<1>2. UNCHANGED <<jobs, page, settled, calls, poll, load, shown, dropped>>
  BY DEF Hide, Show, AvailabilityAnswered
<1>3. WeatherFits'
  BY InvFacts, WeatherKept DEF Hide, Show, AvailabilityAnswered
<1>4. /\ watch' \in Watches
      /\ visible' \in BOOLEAN /\ WatchFits'
  <2>1. CASE Hide
    BY <1>1, <2>1 DEF Hide, WatchFits
  <2>2. CASE Show
    <3>1. CASE watch' = WatchRuns(watch, TRUE) /\ ~watch.flying
      <4>1. watch' = [flying |-> TRUE, changed |-> FALSE, unseen |-> FALSE]
        BY <3>1 DEF WatchRuns
      <4> QED BY <2>2, <4>1 DEF Show, WatchFits, Watches
    <3>2. CASE watch' = watch /\ watch.flying
      BY <1>1, <2>2, <3>2 DEF Show, WatchFits
    <3>3. CASE watch' = watch /\ ~watch.changed
      BY <1>1, <2>2, <3>3 DEF Show, WatchFits
    <3> QED BY <2>2, <3>1, <3>2, <3>3 DEF Show, WatchRuns
  <2>3. CASE AvailabilityAnswered
    BY <1>1, <2>3 DEF AvailabilityAnswered, AfterAvailability, WatchRuns, WatchFits, Watches
  <2> QED BY <2>1, <2>2, <2>3
<1> QED BY <1>2, <1>3, <1>4, WatchStep

\* Pages are loaded: the credits only grow, and what was covered is covered still.
LEMMA LoadStep ==
  ASSUME ClientInv, UNCHANGED <<jobs, page, settled, calls, poll, watch, dropped, visible>>, WeatherFits',
         load' \in Loads, shown' \in Shows, shown'.came = shown.came, shown'.presented = shown.presented,
         Past(load.job)', CreditsFit',
         \A j \in Cleanups, moved \in Nat : moved <= jobs[j].moved /\ Covered(j, moved) => Covered(j, moved)'
  PROVE  ClientInv'
<1>1. ClientTypeOK'
  BY DEF ClientInv, ClientTypeOK, WeatherFits
<1>2. PresentedFits'
  BY DEF ClientInv, PresentedFits
<1>3. ActiveFits' /\ PollFits' /\ WatchFits'
  BY DEF ClientInv, ActiveFits, PollFits, Past, Later, WatchFits
<1> QED BY <1>1, <1>2, <1>3, PageStands DEF ClientInv

\* A load that begins has the credits before it.
LEMMA LoadBegins ==
  ASSUME ClientInv, NEW kind \in {"none", "refresh", "reload"}, NEW l, l = [NoLoad EXCEPT !.kind = kind]
  PROVE  l \in Loads /\ l.kind = kind /\ l.step = 0 /\ l.job = None /\ l.credits = Credits
<1>1. PICK credits \in Balances : credits = Credits
  BY CreditsRead
<1>2. l = [kind |-> kind, step |-> 0, again |-> FALSE, credits |-> credits, job |-> None]
  BY <1>1 DEF NoLoad
<1>3. l.kind = kind /\ l.step = 0 /\ l.job = None /\ l.credits = Credits
  BY <1>1, <1>2
<1>4. l \in Loads
  <2>1. [kind |-> kind, step |-> 0, again |-> FALSE, credits |-> credits, job |-> None] \in Loads
    BY DEF Loads
  <2> QED BY <1>2, <2>1
<1> QED BY <1>3, <1>4

LEMMA ReloadKeeps ==
  ASSUME ClientInv, Reload
  PROVE  ClientInv'
<1>1. PICK l : l = [NoLoad EXCEPT !.kind = "reload"]
  OBVIOUS
<1>2. load' = l /\ UNCHANGED <<jobs, page, settled, calls, poll, shown, watch, dropped, visible>>
  BY <1>1 DEF Reload
<1>3. l \in Loads /\ l.kind = "reload" /\ l.step = 0 /\ l.job = None /\ l.credits = Credits
  BY <1>1, LoadBegins
<1>4. WeatherFits'
  BY InvFacts, WeatherKept DEF Reload
<1>5. Past(load.job)' /\ shown \in Shows
  BY <1>2, <1>3 DEF Past, ClientInv, ClientTypeOK
<1>6. CreditsFit'
  BY <1>2, <1>3, CreditsRead, InvFacts DEF CreditsFit
<1>7. \A j \in Cleanups, moved \in Nat : Covered(j, moved)'
  BY <1>2, <1>3 DEF Covered
<1> QED BY <1>2, <1>3, <1>4, <1>5, <1>6, <1>7, LoadStep

LEMMA PageReadsKeeps ==
  ASSUME ClientInv, PageReads
  PROVE  ClientInv'
<1>1. load.kind # "none" /\ UNCHANGED <<jobs, page, settled, calls, poll, shown, watch, dropped, visible, weather>>
  BY DEF PageReads
<1>2. load \in Loads /\ shown \in Shows /\ Past(load.job)
  BY DEF ClientInv, ClientTypeOK
<1>3. WeatherFits'
  BY <1>1, InvFacts, WeatherKept
<1>4. CASE load.step = 0 /\ load' = [load EXCEPT !.step = 1, !.credits = Credits]
  <2>1. PICK credits \in Balances : credits = Credits
    BY CreditsRead
  <2>2. load' = [load EXCEPT !.step = 1, !.credits = credits]
    BY <1>4, <2>1
  <2>3. load'.kind = load.kind /\ load'.credits = credits /\ load'.job = load.job
    BY <1>2, <2>2 DEF Loads
  <2>7. load' \in Loads
    BY <1>2, <2>2 DEF Loads
  <2>4. CreditsFit'
    BY <1>1, <2>1, <2>3, CreditsRead, InvFacts DEF CreditsFit
  <2>5. \A j \in Cleanups, moved \in Nat : moved <= jobs[j].moved => Covered(j, moved)'
    BY <1>1, <2>1, <2>3, CreditsRead, InvFacts DEF Covered
  <2>6. Past(load.job)'
    BY <1>1, <1>2, <2>3 DEF Past
  <2> QED BY <1>1, <1>2, <1>3, <2>3, <2>4, <2>5, <2>6, <2>7, LoadStep
<1>5. CASE load.step = 1 /\ load' = [load EXCEPT !.step = 2, !.job = Presented]
  <2>1. PICK job \in Views \cup {None} : job = Presented /\ Past(job)
    BY InvFacts, PresentedPast
  <2>2. load' = [load EXCEPT !.step = 2, !.job = job]
    BY <1>5, <2>1
  <2>3. load'.kind = load.kind /\ load'.credits = load.credits /\ load'.job = job /\ load'.again = load.again
    BY <1>2, <2>2 DEF Loads
  <2>4. load' \in Loads
    BY <1>2, <2>2 DEF Loads
  <2>5. CreditsFit'
    BY <1>1, <2>3 DEF ClientInv, CreditsFit
  <2>6. \A j \in Cleanups, moved \in Nat : Covered(j, moved) => Covered(j, moved)'
    BY <1>1, <1>5, <2>3 DEF Covered
  <2>7. Past(load.job)'
    BY <1>1, <2>1, <2>3 DEF Past
  <2> QED BY <1>1, <1>2, <1>3, <2>3, <2>4, <2>5, <2>6, <2>7, LoadStep
<1> QED BY <1>4, <1>5 DEF PageReads

\* A load that has arrived is followed by none, or by the refresh that was asked for in the meantime.
LEMMA LoadArrives ==
  ASSUME ClientInv, PageArrives
  PROVE  /\ load' \in Loads /\ load'.job = None /\ load'.credits = Credits /\ load'.step = 0
         /\ load.again => load'.kind # "none"
<1>1. load' = IF load.again THEN [NoLoad EXCEPT !.kind = "refresh"] ELSE NoLoad
  BY DEF PageArrives
<1>2. NoLoad = [NoLoad EXCEPT !.kind = "none"]
  <2>1. PICK n : n = [NoLoad EXCEPT !.kind = "none"]
    OBVIOUS
  <2>2. n = [kind |-> "none", step |-> 0, again |-> FALSE, credits |-> Credits, job |-> None]
    BY <2>1 DEF NoLoad
  <2> QED BY <2>1, <2>2 DEF NoLoad
<1>3. PICK kind \in {"none", "refresh"} :
        load' = [NoLoad EXCEPT !.kind = kind] /\ (load.again => kind = "refresh")
  BY <1>1, <1>2
<1>4. PICK l : l = [NoLoad EXCEPT !.kind = kind]
  OBVIOUS
<1>5. l \in Loads /\ l.kind = kind /\ l.step = 0 /\ l.job = None /\ l.credits = Credits
  BY <1>3, <1>4, LoadBegins
<1> QED BY <1>3, <1>4, <1>5

LEMMA RefreshArrives ==
  ASSUME ClientInv, PageArrives, shown' = [shown EXCEPT !.credits = load.credits],
         UNCHANGED <<page, settled, calls, poll, watch, dropped>>
  PROVE  ClientInv'
<1>1. UNCHANGED <<jobs, visible, weather>>
  BY DEF PageArrives
<1>2. load.credits \in Balances /\ shown \in Shows
  BY DEF ClientInv, ClientTypeOK, Loads
<1>3. shown'.credits = load.credits /\ shown'.came = shown.came /\ shown'.presented = shown.presented
  BY <1>2 DEF Shows
<1>4. shown' \in Shows
  BY <1>2 DEF Shows
<1>5. WeatherFits'
  BY <1>1, InvFacts, WeatherKept
<1>6. Past(load.job)'
  BY LoadArrives DEF Past
<1>7. CreditsFit'
  BY <1>1, <1>3, LoadArrives, CreditsRead, InvFacts DEF CreditsFit
<1>8. ASSUME NEW j \in Cleanups, NEW moved \in Nat, Covered(j, moved)
      PROVE  Covered(j, moved)'
  <2>1. load.step = 2 /\ shown.credits[j] <= load.credits[j]
    BY DEF PageArrives, ClientInv, CreditsFit
  <2>2. CASE load.again
    BY <2>2, LoadArrives DEF Covered
  <2>3. CASE load.credits[j] >= moved \/ shown.credits[j] >= moved
    BY <1>3, <2>1, <2>3, CreditsRead DEF Covered
  <2> QED BY <1>8, <2>1, <2>2, <2>3 DEF Covered
<1> QED BY <1>1, <1>3, <1>4, <1>5, <1>6, <1>7, <1>8, LoadArrives, LoadStep

\* A page with another key, or loaded anew, is mounted: what is under way is not its own.
LEMMA MountKeeps ==
  ASSUME ClientInv, PageArrives, Mount(load.job, load.credits)
  PROVE  ClientInv'
<1>1. UNCHANGED <<jobs, visible, weather>>
  BY DEF PageArrives
<1>2. PICK job \in Views \cup {None}, credits \in Balances : job = load.job /\ credits = load.credits /\ Past(job)
  BY DEF ClientInv, ClientTypeOK, Loads
<1>3. /\ page' = [job |-> job, active |-> None] /\ settled' = TRUE
      /\ poll' = Polling(PolledId(job)) /\ shown' = Shown(job, credits)
      /\ watch' = QuietWatch /\ dropped' = {}
      /\ calls' = [c \in Slots |-> IF calls[c] = None THEN None ELSE [calls[c] EXCEPT !.mine = FALSE]]
  BY <1>2 DEF Mount
<1>4. /\ AccountingKey(job) \in Keys /\ KeyOf(job) \in Cleanups \cup {0} /\ PolledId(job) \in Cleanups \cup {0}
      /\ StatusOf(job) \in Phases \cup {"expired"}
      /\ job # None /\ job.status \in Terminal => AccountingKey(job) = <<job.id, job.moved>>
      /\ AccountingKey(job) # <<0, 0>> => job # None /\ AccountingKey(job) = <<job.id, job.moved>>
  BY KeyFacts
<1>5. page' \in PageStates /\ page'.job = job /\ page'.active = None
  BY <1>3 DEF PageStates
<1>6. shown' \in Shows /\ shown'.credits = credits /\ shown'.came = shown'.presented /\ shown'.presented = AccountingKey(job)
  BY <1>3, <1>4 DEF Shown, Shows
<1>7. /\ poll' \in Polls /\ poll'.id = PolledId(job) /\ poll'.stage \in {"stopped", "armed"}
      /\ PolledId(job) = 0 => poll'.stage = "stopped"
  BY <1>3, <1>4 DEF Polling, NoPoll, Polls
<1>8. ASSUME NEW c \in Slots
      PROVE  calls'[c] \in Requests \cup {None} /\ (calls'[c] # None => ~calls'[c].mine)
  <2>1. PICK u \in Requests \cup {None} : u = calls[c]
    BY DEF ClientInv, ClientTypeOK
  <2>2. CASE u = None
    BY <1>3, <2>1, <2>2
  <2>3. CASE u \in Requests
    <3>1. u # None => calls'[c] = [u EXCEPT !.mine = FALSE]
      BY <1>3, <2>1
    <3>2. [u EXCEPT !.mine = FALSE] \in Requests /\ ~[u EXCEPT !.mine = FALSE].mine
      BY <2>3 DEF Requests
    <3> QED BY <2>2, <3>1, <3>2
  <2> QED BY <2>2, <2>3
<1>9. calls' \in [Slots -> Requests \cup {None}]
  BY <1>3, <1>8
<1>10. watch' \in Watches /\ WatchFits'
  BY <1>3 DEF QuietWatch, Watches, WatchFits
<1>11. ClientTypeOK'
  BY <1>1, <1>3, <1>5, <1>6, <1>7, <1>9, <1>10, LoadArrives DEF ClientInv, ClientTypeOK
<1>12. ServerFits' /\ Past(page.job)' /\ Past(load.job)' /\ DroppedFit' /\ ActiveFits'
  BY <1>1, <1>2, <1>3, <1>5, LoadArrives DEF ClientInv, ServerFits, Past, DroppedFit, ActiveFits
<1>13. PollFits'
  BY <1>3, <1>5, <1>7 DEF PollFits, PolledId
<1>14. CallsFit'
  BY <1>8 DEF CallsFit
<1>15. CreditsFit'
  BY <1>1, <1>2, <1>6, LoadArrives, CreditsRead, InvFacts DEF CreditsFit
<1>16. PresentedFits'
  <2>1. ASSUME NEW j \in Cleanups, NEW moved \in Nat, AccountingKey(job) = <<j, moved>>
        PROVE  moved <= jobs[j].moved
    <3>1. <<j, moved>> # <<0, 0>>
      BY CleanupClientAssumption
    <3> QED BY <1>2, <1>4, <2>1, <3>1 DEF Past
  <2> QED BY <1>1, <1>4, <1>5, <1>6, <2>1 DEF PresentedFits
<1> QED BY <1>10, <1>11, <1>12, <1>13, <1>14, <1>15, <1>16 DEF ClientInv

LEMMA PageArrivesKeeps ==
  ASSUME ClientInv, PageArrives
  PROVE  ClientInv'
BY RefreshArrives, MountKeeps DEF PageArrives

-----------------------------------------------------------------------------
(* The page.                                                                *)

\* No load is under way, none was, and nothing has happened to a job.
LEMMA InitFits == ASSUME ClientInit PROVE ClientInv
<1>1. /\ weather \in ClientScenarios /\ jobs = [j \in Cleanups |-> NoJob]
      /\ page = [job |-> None, active |-> None] /\ settled = TRUE /\ calls = [c \in Slots |-> None]
      /\ poll = NoPoll /\ load = NoLoad /\ shown = Shown(None, Credits)
      /\ watch = QuietWatch /\ dropped = {} /\ visible = TRUE
  BY DEF ClientInit
<1>2. NoJob \in JobRecords /\ NoJob.status = "none" /\ NoJob.at = 0 /\ NoJob.moved = 0
  BY DEF NoJob, JobRecords, Phases
<1>3. /\ jobs \in [Cleanups -> JobRecords]
      /\ \A j \in Cleanups : jobs[j].status = "none" /\ jobs[j].at = 0 /\ jobs[j].moved = 0
  BY <1>1, <1>2
<1>4. PICK credits \in Balances : credits = Credits /\ \A j \in Cleanups : credits[j] = 0
  <2>1. PICK credits : credits = Credits
    OBVIOUS
  <2>2. credits \in Balances /\ \A j \in Cleanups : credits[j] = 0
    BY <1>3, <2>1 DEF Credits, Balances
  <2> QED BY <2>1, <2>2
<1>5. page \in PageStates /\ page.job = None /\ page.active = None
  BY <1>1 DEF PageStates
<1>6. poll \in Polls /\ poll.id = 0 /\ poll.stage = "stopped"
  BY <1>1 DEF NoPoll, Polls
<1>7. load = [kind |-> "none", step |-> 0, again |-> FALSE, credits |-> credits, job |-> None]
  BY <1>1, <1>4 DEF NoLoad
<1>8. load.job = None /\ load.credits = credits
  BY <1>7
<1>9. load \in Loads
  BY <1>7 DEF Loads
<1>10. shown = [key |-> 0, credits |-> credits, came |-> <<0, 0>>, presented |-> <<0, 0>>, status |-> "none"]
  BY <1>1, <1>4 DEF Shown, KeyOf, AccountingKey, StatusOf
<1>11. shown \in Shows /\ shown.credits = credits /\ shown.came = shown.presented /\ shown.presented = <<0, 0>>
  BY <1>10 DEF Shows, Keys, Phases
<1>12. watch \in Watches /\ WatchFits
  BY <1>1 DEF QuietWatch, Watches, WatchFits
<1>13. WeatherFits
  BY <1>1, CleanupClientAssumption DEF WeatherFits
<1>14. ClientTypeOK
  BY <1>1, <1>3, <1>5, <1>6, <1>9, <1>11, <1>12, <1>13 DEF ClientTypeOK, WeatherFits
<1>15. ServerFits
  <2>1. PICK i \in Cleanups : TRUE
    BY CleanupClientAssumption
  <2>2. \A j \in Cleanups : jobs[j].at <= jobs[i].at
    BY <1>3
  <2> QED BY <1>3, <2>2 DEF ServerFits
<1>16. Past(page.job) /\ Past(load.job) /\ DroppedFit /\ ActiveFits
  BY <1>1, <1>5, <1>8 DEF Past, DroppedFit, ActiveFits
<1>17. PollFits /\ CallsFit
  BY <1>1, <1>5, <1>6 DEF PollFits, PolledId, CallsFit
<1>18. CreditsFit
  BY <1>3, <1>4, <1>8, <1>11 DEF CreditsFit
<1>19. PresentedFits
  BY <1>3, <1>5, <1>11 DEF PresentedFits
<1> QED BY <1>12, <1>14, <1>15, <1>16, <1>17, <1>18, <1>19 DEF ClientInv

LEMMA NothingHappens ==
  ASSUME ClientInv, UNCHANGED clientVars
  PROVE  ClientInv'
<1>1. WeatherFits' /\ JobsAdvance
  BY InvFacts, WeatherKept, NothingChanged DEF clientVars
<1> QED BY <1>1, ServerStep DEF clientVars

LEMMA StepKeeps ==
  ASSUME ClientInv, [ClientNext]_clientVars
  PROVE  ClientInv'
<1>1. CASE ServerMoves
  BY <1>1, ServerWorksKeeps, RowEndsKeeps, OtherTabKeeps DEF ServerMoves
<1>2. CASE UserMoves
  BY <1>2, PressesKeep, ReloadKeeps, TabKeeps DEF UserMoves
<1>3. CASE PollMoves
  BY <1>3, PollAsksKeeps, StatusAnswersKeeps, PollAnsweredKeeps DEF PollMoves
<1>4. CASE CallMoves
  BY <1>4, HandledKeeps, AnsweredKeeps, CallLostKeeps DEF CallMoves
<1>5. CASE PageMoves
  BY <1>5, CommitKeeps, TabKeeps, PageReadsKeeps, PageArrivesKeeps DEF PageMoves
<1>6. CASE UNCHANGED clientVars
  BY <1>6, NothingHappens
<1> QED BY <1>1, <1>2, <1>3, <1>4, <1>5, <1>6 DEF ClientNext

\* No answer takes the page back: a poll is of the job that is shown, later than it was shown, and
\* an operation is answered with the job it was asked of, when nothing else told of it.
LEMMA NotTakenBack ==
  ASSUME ClientInv, [ClientNext]_clientVars,
         page.job # None, page'.job # None, page'.job.id = page.job.id, ~(load.step = 2 /\ load'.step # 2)
  PROVE  page'.job.at >= page.job.at
<1>1. page \in PageStates /\ page.job \in Views /\ page.job.at \in Nat
  BY DEF ClientInv, ClientTypeOK, PageStates, Views
<1>2. CASE page'.job = page.job
  BY <1>1, <1>2
<1>3. ASSUME NEW c \in Slots, Answered(c), page'.job # page.job
      PROVE  page'.job.at >= page.job.at
  <2>1. PICK u : u = calls[c]
    OBVIOUS
  <2>2. u # None /\ u.reply # None /\ u.mine /\ u.reply.ok /\ u.op # "rescan" /\ page'.job = u.reply.job
    BY <1>3, <2>1 DEF Answered, FinishOperation
  <2>3. AnswerFits(u)
    BY <2>1, <2>2 DEF ClientInv, CallsFit, CallFits
  <2> QED BY <2>2, <2>3 DEF AnswerFits, Later
<1>4. ASSUME PollAnswered, page'.job # page.job
      PROVE  page'.job.at >= page.job.at
  <2>1. CASE poll.reply.ok /\ PolledView(poll.reply.job, poll.id)
    <3>1. page'.job = poll.reply.job
      BY <1>1, <1>4, <2>1 DEF PolledView, PageStates
    <3> QED BY <1>4, <2>1, <3>1 DEF PollAnswered, ClientInv, PollFits, Later
  <2>2. CASE page' = [page EXCEPT !.job.status = "expired"]
    <3>1. page'.job.at = page.job.at
      BY <1>1, <2>2 DEF PageStates, Views
    <3> QED BY <1>1, <3>1
  <2> QED BY <1>4, <2>1, <2>2 DEF PollAnswered
<1>5. CASE ServerMoves
  BY <1>2, <1>5 DEF ServerMoves, ServerWorks, RowEnds, OtherTab
<1>6. CASE UserMoves
  <2>1. ASSUME NEW op, page' = [page EXCEPT !.active = op]
        PROVE  page'.job = page.job
    BY <1>1, <2>1 DEF PageStates
  <2> QED BY <1>2, <1>6, <2>1 DEF UserMoves, ResolvePreview, ConfirmCleanup, StartOver, UndoCleanup, RescanInbox,
                                  Press, BeginOperation, Reload, Hide
<1>7. CASE PollMoves
  BY <1>2, <1>4, <1>7 DEF PollMoves, PollAsks, StatusAnswers
<1>8. CASE CallMoves
  <2>1. ASSUME NEW c \in Slots, Handled(c) \/ CallLost(c)
        PROVE  page'.job = page.job
    <3>1. CASE page' = [job |-> page.job, active |-> None]
      BY <3>1
    <3>2. CASE UNCHANGED page
      BY <3>2
    <3>3. UNCHANGED page \/ page' = [job |-> page.job, active |-> None]
      BY <2>1 DEF Handled, CallLost, FinishOperation
    <3> QED BY <3>1, <3>2, <3>3
  <2> QED BY <1>2, <1>3, <1>8, <2>1 DEF CallMoves
<1>9. CASE PageMoves
  <2>1. ~PageArrives
    BY LoadArrives DEF PageArrives
  <2> QED BY <1>2, <1>9, <2>1 DEF PageMoves, Commit, Show, AvailabilityAnswered, PageReads
<1>10. CASE UNCHANGED clientVars
  BY <1>2, <1>10 DEF clientVars
<1> QED BY <1>5, <1>6, <1>7, <1>8, <1>9, <1>10 DEF ClientNext

\* Whatever the page holds of a job, in its state, in answers on their way and in a page that is
\* loaded, is what the server had of it at some time, and never a selection that was given up;
\* operations, polls and commits keep to who may change it (GmailCleanupClient.tsx).
THEOREM PageCorrect == ClientSpec => []ClientInv
BY InitFits, StepKeeps, PTL DEF ClientSpec

\* An answer never takes the page back, whatever the order in which polls and operations are
\* answered (the aborted effects, discardedOutlookJobs of GmailCleanupClient.tsx).
THEOREM PageGoesOn == ClientSpec => NeverTakenBack
<1> DEFINE GoesOn ==
      page'.job # None =>
        /\ page'.job.id \notin dropped'
        /\ page.job # None /\ page.job.id = page'.job.id /\ ~(load.step = 2 /\ load'.step # 2)
             => page'.job.at >= page.job.at
<1>1. ASSUME ClientInv, ClientInv', [ClientNext]_clientVars
      PROVE  GoesOn
  <2>1. page'.job # None => page'.job.id \notin dropped'
    BY <1>1 DEF ClientInv, DroppedFit
  <2> QED BY <1>1, <2>1, NotTakenBack
<1>2. ClientSpec => [][GoesOn]_clientVars
  BY <1>1, PageCorrect, PTL DEF ClientSpec
<1> QED BY <1>2 DEF NeverTakenBack

\* The credits on the page cover what the job on it moved, once nothing is being loaded, unless the
\* page came with that result (useCleanupCreditRefresh.ts:12-22).
THEOREM BalanceShown == ClientSpec => []BalanceCoversResult
<1>1. ASSUME ClientInv PROVE BalanceCoversResult
  <2>1. SUFFICES ASSUME settled, load.kind = "none", page.job # None, page.job.status \in Terminal,
                        shown.came # <<page.job.id, page.job.moved>>
                 PROVE  shown.credits[page.job.id] >= page.job.moved
    BY DEF BalanceCoversResult
  <2>2. page.job.id \in Cleanups /\ page.job.moved \in Nat
    BY <1>1, <2>1 DEF ClientInv, ClientTypeOK, PageStates, Views
  <2>3. shown.presented = <<page.job.id, page.job.moved>>
    BY <1>1, <2>1 DEF ClientInv, PresentedFits
  <2>4. Covered(page.job.id, page.job.moved)
    BY <1>1, <2>1, <2>2, <2>3 DEF ClientInv, PresentedFits
  <2> QED BY <2>1, <2>4 DEF Covered
<1> QED BY <1>1, PageCorrect, PTL

\* While a change of availability has not been asked about, a request is under way or the tab is
\* hidden (watchCleanupAvailability of cleanup-availability-events.ts).
THEOREM NoticesKept == ClientSpec => []NoticesAreAnswered
<1>1. ClientInv => NoticesAreAnswered
  BY DEF ClientInv, WatchFits, NoticesAreAnswered
<1> QED BY <1>1, PageCorrect, PTL
=============================================================================
