SPECIFICATION FairAutomation
CONSTANTS
  Graphs <- Definitions
  Triggers = { "manual", "oneshot" }
  Responders = { u1 }
  RetryLimit = 1
  LongRuns = FALSE
  SlowAnswers = FALSE
  MaxJobs = 2
  MaxCrashes = 1
CHECK_DEADLOCK FALSE
INVARIANTS
  ActsOnce
  ActsWithConsent
  NeverStuck
PROPERTIES
  NothingActsAfterCancel
  RunComesToRest
