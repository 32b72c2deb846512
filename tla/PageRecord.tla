----------------------------- MODULE PageRecord -----------------------------
(***************************************************************************)
(* The inductive invariant of CleanupClient.                                *)
(*                                                                          *)
(* Whatever the page holds of a job - in its state, in an answer on its     *)
(* way, in a page being loaded - is what the job was at some time.  What    *)
(* keeps the page from going back is who may change it: an operation is     *)
(* begun when nothing is polled, or gives up the job that is.               *)
(***************************************************************************)
EXTENDS CleanupClient


JobRecords == [status : Phases, at : Nat, moved : Nat, back : {"no", "some", "all"}]
Replies == [ok : BOOLEAN, gone : BOOLEAN, job : Views \cup {None}]
Requests ==
  {call \in [op : Operations, job : Cleanups \cup {0}, mine : BOOLEAN, reply : Replies \cup {None}] :
     call.op # "resolution" => call.job \in Cleanups}
Keys == (Cleanups \cup {0}) \X Nat
Balances == [Cleanups -> Nat]
PageStates == [job : Views \cup {None}, active : Operations \cup {None}]
Polls == [id : Cleanups \cup {0}, stage : {"stopped", "armed", "asked", "told"}, reply : Replies \cup {None}]
Loads == [kind : {"none", "refresh", "reload"}, step : {0, 1, 2}, again : BOOLEAN,
          credits : Balances, job : Views \cup {None}]
Shows == [key : Cleanups \cup {0}, credits : Balances, came : Keys, presented : Keys,
          status : Phases \cup {"expired"}]
Watches == [flying : BOOLEAN, changed : BOOLEAN, unseen : BOOLEAN]

ClientTypeOK ==
  /\ jobs \in [Cleanups -> JobRecords]
  /\ page \in PageStates
  /\ settled \in BOOLEAN
  /\ calls \in [Slots -> Requests \cup {None}]
  /\ poll \in Polls
  /\ load \in Loads /\ shown \in Shows /\ watch \in Watches
  /\ dropped \in SUBSET Cleanups
  /\ visible \in BOOLEAN
  /\ weather \in [kind : {"outlook", "gmail"}, jobs : Nat, faults : SUBSET Faults, events : Nat]
  /\ 1..weather.jobs \subseteq Cleanups

-----------------------------------------------------------------------------
\* Nothing has moved before a cleanup had a result, and one job changed last.
ServerFits ==
  /\ \A j \in Cleanups : jobs[j].status \in {"none", "moving"} \cup Selecting => jobs[j].moved = 0
  /\ \E i \in Cleanups : \A j \in Cleanups : jobs[j].at <= jobs[i].at

\* What the job was at some time.
Past(view) == view # None => view.at <= jobs[view.id].at /\ view.moved <= jobs[view.id].moved

\* A later view of the job that the page shows, if it shows it still.
Later(view) == page.job # None => page.job.id = view.id /\ page.job.at <= view.at

\* The commit of a job decides what is polled; there is no other job to poll.
PollFits ==
  /\ poll.id = 0 => poll.stage = "stopped"
  /\ settled => poll.id = PolledId(page.job)
  /\ page.job # None /\ poll.id # 0 => page.job.id = poll.id
  /\ poll.stage = "told" => poll.reply \in Replies
  /\ poll.stage = "told" /\ poll.reply.ok =>
       poll.reply.job \in Views /\ poll.reply.job.id = poll.id /\ Past(poll.reply.job) /\ Later(poll.reply.job)

\* What was given up is gone from the server, and from the page.
DroppedFit ==
  /\ \A j \in dropped : jobs[j].status = "gone"
  /\ page.job # None => page.job.id \notin dropped

\* While an operation is under way nothing else changes the page, except that a
\* job being given up is polled on.
ActiveFits ==
  page.active # None /\ page.active # "start_over" =>
    settled /\ poll.id = 0 /\ (page.active = "resolution" => page.job = None)

\* The answer to the operation of the page.
AnswerFits(call) ==
  CASE call.op = "start_over" -> call.reply.job = None /\ jobs[call.job].status = "gone"
    [] call.op = "rescan" -> TRUE
    [] OTHER -> /\ call.reply.job \in Views /\ call.reply.job.id \notin dropped
                /\ Past(call.reply.job) /\ Later(call.reply.job)

CallFits(call) ==
  /\ page.active = call.op /\ page.active # None
  /\ call.op # "resolution" => page.job # None /\ page.job.id = call.job
  /\ call.reply # None /\ call.reply.ok => AnswerFits(call)

CallsFit ==
  \A c \in Slots : calls[c] # None /\ calls[c].mine =>
    /\ CallFits(calls[c])
    /\ \A d \in Slots : calls[d] # None /\ calls[d].mine => d = c

\* What the page knows of the credits is older than what a page being loaded will.
CreditsFit ==
  \A j \in Cleanups : shown.credits[j] <= load.credits[j] /\ load.credits[j] <= jobs[j].moved

\* A result that was presented is covered by the credits, or will be.
Covered(j, moved) ==
  \/ shown.credits[j] >= moved
  \/ load.kind # "none" /\ (load.again \/ load.step = 0 \/ load.credits[j] >= moved)

PresentedFits ==
  /\ \A j \in Cleanups, moved \in Nat :
       shown.presented = <<j, moved>> =>
         moved <= jobs[j].moved /\ (shown.presented # shown.came => Covered(j, moved))
  /\ settled /\ page.job # None /\ page.job.status \in Terminal =>
       shown.presented = <<page.job.id, page.job.moved>>

WatchFits == watch.unseen => watch.changed /\ (watch.flying \/ ~visible)

ClientInv ==
  /\ ClientTypeOK /\ ServerFits
  /\ Past(page.job) /\ Past(load.job)
  /\ PollFits /\ DroppedFit /\ ActiveFits /\ CallsFit
  /\ CreditsFit /\ PresentedFits /\ WatchFits
=============================================================================
