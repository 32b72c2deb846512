------------------------- MODULE MCPermanentDelete -------------------------
(***************************************************************************)
(* An instance of PermanentDelete for TLC.                                  *)
(***************************************************************************)
EXTENDS PermanentDelete, TLC

\* One restore run beside the deletions, with or without a failure of its own.
RestoreScenarios ==
  {[runs |-> 1, starts |-> 2, lapses |-> 0, failures |-> 0, faults |-> Faults, events |-> {}]}

DeleterSymmetry == Permutations(Deleters)
=============================================================================
