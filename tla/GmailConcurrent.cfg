\* Two runs at once on two chunks, with a lease that lapses under a live run
\* and a crash, a lost answer or a failed start.
SPECIFICATION Spec
CONSTANTS
  m1 = m1
  m2 = m2
  NChunks = 2
  Targets <- TwoChunks
  Workers = {w1, w2}
  NoOwner = NoOwner
  Orphan = Orphan
  Restorer = Restorer
  UserRequests = {"undo"}
  MayExpire = FALSE
  MaxPauses = 0
  MaxFailures = 1
  MaxLapses = 1
  MaxStarts = 1
  MaxRetries = 1
SYMMETRY WorkerSymmetry
INVARIANTS
  AtMostOneRequest
  RequestsInLedger
PROPERTIES
  RecordStands
  ReportStands
CHECK_DEADLOCK FALSE
