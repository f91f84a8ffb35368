SPECIFICATION SpecSupervisor
CONSTANTS
  Services <- TwoServices
  Dependencies <- TwoDependencies
  Rank <- TwoRanks
  Infra = "infra"
  MaxFailures = 1
  DegradeAfter = 1
  RestartAfter = 1
  MaxOperations = 2
  MaxWindows = 0
  MaxCrashes = 0
  None = None
CHECK_DEADLOCK FALSE
INVARIANTS
  HealthyIsWatched
  RestartIsComing
  WaitersAreServed
  LeaseNamesTheProcess
