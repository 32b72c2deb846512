\* Progress: one chunk, runs that compete, a crash, lost answer or failed
\* start, and a quota pause.  A step is retried oftener than it can fail.
SPECIFICATION FairSpec
CONSTANTS
  m1 = m1
  m2 = m2
  NChunks = 1
  Targets <- OneMessage
  Workers = {w1, w2}
  NoOwner = NoOwner
  Orphan = Orphan
  Restorer = Restorer
  UserRequests = {"undo"}
  MayExpire = FALSE
  MaxPauses = 1
  MaxFailures = 1
  MaxLapses = 0
  MaxStarts = 2
  MaxRetries = 2
PROPERTIES
  WorkSettles
  OutcomeIsReported
CHECK_DEADLOCK FALSE
