SPECIFICATION SpecAutomation
CONSTANTS
  Graphs <- Definitions
  Triggers = { "manual", "recurring" }
  Responders = { u1 }
  RetryLimit = 1
  LongRuns = FALSE
  SlowAnswers = FALSE
  MaxJobs = 2
  MaxCrashes = 0
CHECK_DEADLOCK FALSE
PROPERTIES
  RefusedOnlyWhileRunning
