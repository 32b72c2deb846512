-------------------------- MODULE MCOutlookCleanup --------------------------
(***************************************************************************)
(* Instances of OutlookCleanup for TLC.                                     *)
(***************************************************************************)
EXTENDS OutlookCleanup, TLC

Calm == [runs |-> 1, starts |-> 2, lapses |-> 0, failures |-> 0, faults |-> Faults, events |-> {}]

\* One run after another, with one failure and a discard, a rollback or a
\* disconnect; two runs at once whose lease lapses; two runs at
\* once and a failure; and a preparation that loses two responses.
SafetyScenarios ==
  {[Calm EXCEPT !.failures = 1, !.events = {"discard", "rollback"}],
   [Calm EXCEPT !.failures = 1, !.faults = {"throw", "answer"}, !.events = {"disconnect"}],
   [Calm EXCEPT !.runs = 2, !.starts = 3, !.lapses = 1, !.events = {"discard"}],
   [Calm EXCEPT !.runs = 2, !.failures = 1, !.faults = {"throw", "crash"}],
   [Calm EXCEPT !.starts = 1, !.failures = 2, !.faults = {"response"},
                !.events = {"expiry"}]}

LivenessScenarios ==
  {[Calm EXCEPT !.starts = 1, !.failures = 1], Calm}

WorkerSymmetry == Permutations(Workers)
=============================================================================
