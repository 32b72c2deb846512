-------------------------- MODULE MCCleanupClient --------------------------
(***************************************************************************)
(* Small instances of CleanupClient: two cleanups of Outlook, so that one   *)
(* may be given up for another, and one of Gmail beside reloads.            *)
(***************************************************************************)
EXTENDS CleanupClient

Weather(kind, cleanups, faults, events) == [kind |-> kind, jobs |-> cleanups, faults |-> faults, events |-> events]
Pages ==
  {Weather("outlook", 2, {"lost"}, 1), Weather("outlook", 1, {"hide", "tab", "refuse", "unheard"}, 1),
   Weather("outlook", 1, {"reload"}, 1), Weather("gmail", 1, {"hide", "lost", "unheard", "tab"}, 2),
   Weather("gmail", 1, {"reload", "expire", "rescan"}, 1)}
\* One Gmail cleanup and nothing that goes wrong.
Undisturbed == {Weather("gmail", 1, {}, 0)}
=============================================================================
