SPECIFICATION SpecStream
CONSTANTS
  m1 = m1
  u1 = u1
  None = None
  Messages = {m1}
  Inputs = {u1}
  Chunks = 1
  Moves = 2
  MaxSegments = 2
  MaxEvents = 2
CHECK_DEADLOCK FALSE
INVARIANTS
  AgreesAtRest
  SyncIsServed
PROPERTIES
  ClosedRunRests
  ShownEndIsFinal
