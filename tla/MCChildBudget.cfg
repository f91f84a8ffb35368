SPECIFICATION SpecChildren
CONSTANTS
  Children = {c1, c2}
  Agents = {a1, a2}
  SpawnCalls = {s1, s2}
  Messages = {}
  MaxConcurrent = 1
  MaxTotal = 2
  MaxCrashes = 2
  None = None
SYMMETRY Symmetry
CHECK_DEADLOCK FALSE
INVARIANTS
  BudgetMatchesRows
PROPERTIES
  NoSecondExecutor
