\* Two calls at a time over one slot.
SPECIFICATION Spec
CONSTANTS
  Callers = {c1, c2}
  NoOwner = NoOwner
  Orphan = Orphan
  MaxConsents = 2
  MaxAttempts = 2
  MaxEvents = 2
  Slots = {0}
  Items = {i1, i2}
  MaxRetries = 1
  MaxRounds = 2
  Scenarios <- AccessScenarios
SYMMETRY CallerSymmetry
INVARIANTS
  CredentialsAreCurrent
  StoppedCallsFallSilent
  RequestsAreBounded
PROPERTIES
  NeverOlder
  SwitchSparesUnits
\* The calls end.
CHECK_DEADLOCK FALSE
