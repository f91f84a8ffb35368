SPECIFICATION SpecCalls
CONSTANTS
  read = read
  gated = gated
  write = write
  Calls = {read, gated, write}
  Exclusive = {write}
  Gated = {gated, write}
  MaxRestarts = 1
CHECK_DEADLOCK FALSE
INVARIANTS
  EffectAtMostOnce
  ResumeForgetsNoEffect
  NoEffectWithoutApproval
  LedgerTellsWhatHappened
  GateIsNotStuck
