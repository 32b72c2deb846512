------------------------- MODULE MCProviderAccess -------------------------
(***************************************************************************)
(* Instances of ProviderAccess for TLC.                                     *)
(***************************************************************************)
EXTENDS ProviderAccess, TLC

Mix(k, l) == {work \in [Callers -> CallKinds] : {work[c] : c \in Callers} = {k, l}}

Plan(k, l, changes, budget) == [work : Mix(k, l), around : {changes}, events : {budget}]

\* Calls whose credentials change under them, calls whose work is stopped, calls
\* that share slots, and a unit while the user switches.
AccessScenarios ==
  UNION {Plan("get", "imap", {"expiry"}, 2),
         Plan("get", "scan", {"expiry", "disconnect"}, 1),
         Plan("get", "nothing", {"consent", "disconnect", "expiry", "lapse", "death"}, 2),
         Plan("scan", "nothing", {"consent", "disconnect", "lapse"}, 2),
         Plan("batch", "nothing", {"consent", "disconnect", "expiry"}, 1),
         Plan("mutation", "imap", {"consent", "disconnect"}, 0),
         Plan("mutation", "nothing", {"switch", "disconnect", "lapse", "death"}, 2),
         Plan("get", "nothing", {"switch", "lapse"}, 2),
         Plan("scan", "mutation", {"lapse", "death"}, 2),
         Plan("batch", "mutation", {"disconnect"}, 0)}

CallerSymmetry == Permutations(Callers)
=============================================================================
