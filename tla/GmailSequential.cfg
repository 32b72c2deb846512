\* Two chunks worked through one after the other by one run at a time, with
\* every kind of request of the user, expiry, one quota pause and one failure.
SPECIFICATION Spec
CONSTANTS
  m1 = m1
  m2 = m2
  NChunks = 2
  Targets <- TwoChunks
  Workers = {w1}
  NoOwner = NoOwner
  Orphan = Orphan
  Restorer = Restorer
  UserRequests = {"undo", "discard", "disconnect"}
  MayExpire = TRUE
  MaxPauses = 1
  MaxFailures = 1
  MaxLapses = 0
  MaxStarts = 2
  MaxRetries = 1
INVARIANTS
  TypeOK
  LedgerIsTrue
  OutcomeIsTrue
CHECK_DEADLOCK FALSE
