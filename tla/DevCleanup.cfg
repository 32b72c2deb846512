\* Two jobs at most, two messages in a bulk proof.
SPECIFICATION DevSpec
CONSTANTS
  Letters <- DevLetters
  SenderOf <- DevSender
  Changeable = {2}
  OfferOf <- DevOffer
  DevJobs = {1, 2}
  ProofSize = 2
  LegacyMaximum = 4
  RetryAttempts = 3
  DevScenarios <- DevRuns
  NoJob = NoJob
INVARIANTS
  DevOutcomeIsTrue
  WorkIsInHand
PROPERTIES
  MovesWhatWasAgreed
  PreviewIsExact
\* A job that has ended may be left as it is.
CHECK_DEADLOCK FALSE
