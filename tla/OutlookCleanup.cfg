\* Two messages moved one by one, in the scenarios of SafetyScenarios.
SPECIFICATION Spec
CONSTANTS
  Pool = 2
  Requested = 2
  BatchSize = 1
  CheckSize = 2
  Workers = {w1, w2}
  NoOwner = NoOwner
  Orphan = Orphan
  Scenarios <- SafetyScenarios
SYMMETRY WorkerSymmetry
INVARIANTS
  AtMostOnce
  LedgerIsTrue
  OutcomeIsTrue
  DiscardExcludesMoves
  PreparationNotAbandoned
PROPERTIES
  ForwardIsGated
  LedgerNeverRegresses
\* A run ends and nobody may ask for another.
CHECK_DEADLOCK FALSE
