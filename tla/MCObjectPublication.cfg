SPECIFICATION FairObjects
CONSTANTS
  Publishers = {p1, p2}
  Purges = {c1, c2}
  Objects = {h1, h2}
  None = None
  MaxPurges = 2
INVARIANTS
  PublishedObjectsExist
PROPERTIES
  WaitersAreServed
