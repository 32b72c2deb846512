\* Two requests at a time.
SPECIFICATION LiveSpec
CONSTANTS
  Users = {"a", "b"}
  Purchases = {p1, p2}
  Jobs = {"j1", "j2"}
  Workers = {w1, w2}
  Nobody = Nobody
  Packs = {1, 2}
  Cents = 2
  Scenarios <- BillingScenarios
INVARIANTS
  OneOpenCheckout
  LinkedOwnNothing
PROPERTIES
  CreditsAreLedger
  PaymentsArrive
\* Every request may be answered and nothing left to happen.
CHECK_DEADLOCK FALSE
