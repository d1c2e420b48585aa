CONSTANTS
  TicksNum = 7
  TicksDen = 3
  RingPeriod = 4
  Buffer = 2
  Clients = {c1, c2}
  Pauses = {1, 22}
  MaxTime = 38
  c1 = c1
  c2 = c2
SYMMETRY ClientSymmetry
SPECIFICATION Spec
INVARIANTS
  NeverAhead
  OnTheLine
  KeepsPace
PROPERTIES
  Monotone
