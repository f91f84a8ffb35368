SPECIFICATION FairChildren
CONSTANTS
  Children = {c1}
  Agents = {a1, a2}
  SpawnCalls = {s1}
  Messages = {m1}
  MaxConcurrent = 1
  MaxTotal = 1
  MaxCrashes = 2
  None = None
CHECK_DEADLOCK FALSE
INVARIANTS
  DeliveredWasSteered
PROPERTIES
  WaitingMessageIsDelivered
