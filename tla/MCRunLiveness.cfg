SPECIFICATION FairExecutor
CONSTANTS
  Inputs = {i1, i2}
  LeaseIds = {l1, l2}
  RequestIds = {r1, r2}
  Calls = {c1}
  None = None
  ChildRun = FALSE
  MaxRepairs = 1
  MaxCrashes = 1
CHECK_DEADLOCK FALSE
PROPERTIES
  ExecutorEnds
  InputIsDeliveredOrRunStops
