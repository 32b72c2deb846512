----------------------------- MODULE MCBilling -----------------------------
(***************************************************************************)
(* An instance of Billing for TLC.                                          *)
(***************************************************************************)
EXTENDS Billing, TLC

Plan(buyers, jobs, ops, faults, budget) ==
  [buyers |-> buyers, jobs |-> jobs, ops |-> ops, faults |-> faults, events |-> budget]

\* A lease that lapses in a checkout, lost webhooks, disputes, failures of every
\* kind, jobs that share a balance, and inboxes that are linked while they buy.
BillingScenarios ==
  {Plan({"a"}, {}, {"expired"}, {"lapse"}, 3),
   Plan({"a"}, {}, {"refunded", "reconcile"}, {"lost"}, 1),
   Plan({"a"}, {}, {"disputed", "reconcile"}, {}, 1),
   Plan({"a"}, {}, {"reconcile"}, {"lapse", "crash", "outage"}, 2),
   Plan({"a"}, {"j1", "j2"}, {"disputed"}, {}, 1),
   Plan({"a"}, {"j1"}, {"link"}, {}, 2),
   Plan({"b"}, {}, {"link"}, {"crash", "lost"}, 3),
   Plan({"a"}, {}, {}, {"age", "outage"}, 4)}

=============================================================================
