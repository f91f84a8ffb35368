SPECIFICATION SpecMailbox
CONSTANTS
  Inputs = {i1, i2, i3}
  LeaseIds = {l1, l2, l3}
  RequestIds = {r1, r2, r3}
  None = None
SYMMETRY Symmetry
INVARIANTS
  LeaseIsTheWindowAboveTheCursor
  ClaimCoversEveryInput
PROPERTIES
  DeliversInOrder
