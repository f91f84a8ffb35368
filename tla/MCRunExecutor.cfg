SPECIFICATION SpecExecutor
CONSTANTS
  Inputs = {i1, i2}
  LeaseIds = {l1, l2}
  RequestIds = {r1, r2}
  Calls = {c1, c2}
  None = None
  ChildRun = TRUE
  MaxRepairs = 1
  MaxCrashes = 2
SYMMETRY Symmetry
CHECK_DEADLOCK FALSE
INVARIANTS
  CheckpointIsRestorable
  ExecutorHoldsTheLease
  RequestIsBoundToItsInputs
  AnswerCoversEveryInput
  OpenCallHasItsApproval
  ObjectiveNotAheadOfMailbox
PROPERTIES
  NoReplayOfUnknownEffects
  DrivesTheMailbox
