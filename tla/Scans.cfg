\* Two workflow runs; mailboxes of three and four messages.
SPECIFICATION LiveSpec
CONSTANTS
  Senders = {"a", "b"}
  Folders <- ScanFolders
  Parent <- ScanParent
  RecurringMin = 2
  VeryHighMin = 2
  Workers = {w1, w2}
  Nobody = Nobody
  Gone = Gone
  Scans = {1, 2}
  LargePage = 2
  SmallPage = 1
  Late <- Late0
  Scenarios <- ScanScenarios
INVARIANTS
  ReportIsTrue
  OffersAreSafe
PROPERTIES
  EndedScansStayEnded
  ScanSettles
\* The scans and the requests of the user end.
CHECK_DEADLOCK FALSE
