\* Every run ends, and every job settles if its user keeps asking.
SPECIFICATION FairSpec
CONSTANTS
  Pool = 2
  Requested = 2
  BatchSize = 1
  CheckSize = 2
  Workers = {w1}
  NoOwner = NoOwner
  Orphan = Orphan
  Scenarios <- LivenessScenarios
PROPERTIES
  WorkEnds
\* A job ends and nobody may ask for another run.
CHECK_DEADLOCK FALSE
