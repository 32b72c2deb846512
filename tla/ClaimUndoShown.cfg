\* One Gmail cleanup, undone without a fault.
SPECIFICATION ClientSpec
CONSTANTS
  Cleanups = {1}
  Slots = {1}
  ClientScenarios <- Undisturbed
  None = None
INVARIANTS
  UndoneIsNotExpired
CHECK_DEADLOCK FALSE
