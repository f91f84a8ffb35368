SPECIFICATION FairSupervisor
CONSTANTS
  Services = {"infra"}
  Dependencies <- OneDependency
  Rank <- OneRank
  Infra = "infra"
  MaxFailures = 1
  DegradeAfter = 1
  RestartAfter = 2
  MaxOperations = 2
  MaxWindows = 1
  MaxCrashes = 1
  None = None
CHECK_DEADLOCK FALSE
PROPERTIES
  OperationEnds
  TransientStatesPass
  UnverifiedStaysAside
