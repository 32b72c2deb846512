---------------------------- MODULE MCDevCleanup ----------------------------
(***************************************************************************)
(* Instances of DevCleanup for TLC: four messages of two senders, a third   *)
(* sender that may not be cleaned up, and reports that promise more than    *)
(* the mailbox holds.                                                       *)
(***************************************************************************)
EXTENDS DevCleanup

DevLetters == 1..4
DevSender == [m \in DevLetters |-> IF m <= 2 THEN 1 ELSE 2]
DevOffer ==
  <<[count |-> 2, rank |-> "high"], [count |-> 3, rank |-> "very_high"], [count |-> 1, rank |-> "review"]>>

Inbox == [m \in DevLetters |-> "inbox"]
Ask(groups, wanted) == [groups |-> groups, wanted |-> wanted, bench |-> FALSE]
Usual == Ask({1, 2}, 2)
One == Ask({1}, 1)
Pair == Ask({1}, 2)

\* A number of jobs asked for the same thing, and faults of some kinds, so many in all.
Sample(input, jobLimit, faults, budget) ==
  [inputs |-> {input}, mail |-> Inbox, faults |-> faults, events |-> budget, jobs |-> jobLimit]

DevRuns ==
  \* Every selection over a mailbox of every kind, without a fault.
  {Sample(Ask(g, w), 1, {}, 0) : g \in {{1}, {2}, {1, 2}, {2, 3}}, w \in 1..4}
  \cup {[Sample(Ask({1, 2}, w), 1, {}, 0) EXCEPT !.mail[i] = "kept"] : w \in 2..4, i \in DevLetters}
  \* Two jobs over the same mail; the proof and Undo beside each other.
  \cup {Sample(One, 2, {}, 0), Sample(One, 2, {"disconnect", "expire"}, 1)}
  \* One fault of any kind, or two of a kind.
  \cup {Sample(Pair, 1, {"list", "local"}, 1), Sample(Usual, 1, {"local", "touch"}, 1),
        Sample(Usual, 1, {"touch", "stale", "rescan", "expire", "context"}, 1),
        Sample(Pair, 1, {"read", "batch"}, 2), Sample(Usual, 1, {"batch"}, 2), Sample(Pair, 1, {"touch", "expire"}, 2),
        Sample(Pair, 1, {"batch", "touch"}, 3),
        Sample(Pair, 1, {"restart", "disconnect"}, 1)}
  \* The check that moves nothing.
  \cup {Sample([Usual EXCEPT !.bench = TRUE], 1, {"touch", "list"}, 2),
        Sample([Usual EXCEPT !.bench = TRUE], 2, {"list"}, 1)}
=============================================================================
