\* Two messages in Deleted Items, two deletion calls and a restore at a time.
SPECIFICATION DeletionSpec
CONSTANTS
  Pool = 2
  Requested = 2
  BatchSize = 1
  CheckSize = 2
  Workers = {w1}
  Deleters = {d1, d2}
  NoOwner = NoOwner
  Orphan = Orphan
  Scenarios <- RestoreScenarios
  MaxCuts = 2
  MaxCalls = 3
SYMMETRY DeleterSymmetry
INVARIANTS
  AskedOnce
  DeletionIsTrue
\* Nobody asks any more.
CHECK_DEADLOCK FALSE
