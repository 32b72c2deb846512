\* The cleanup page beside the server's jobs. The system stops when the user does.
SPECIFICATION ClientSpec
CONSTANTS
  Cleanups = {1, 2}
  Slots = {1, 2}
  ClientScenarios <- Pages
  None = None
CHECK_DEADLOCK FALSE
INVARIANTS
  BalanceCoversResult
  NoticesAreAnswered
PROPERTIES
  NeverTakenBack
  WorkIsFollowed
