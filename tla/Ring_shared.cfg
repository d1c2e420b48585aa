CONSTANTS
  RingFrames = 7
  SafetyOffset = 1
  DefaultMargin = 4
  Latencies = {3}
  BufferSizes = {2}
  PacketSizes = {2}
  Clients = {c1, c2}
  MaxFrames = 8
  MaxEpoch = 2
  MaxCycle = 2
  c1 = c1
  c2 = c2
SYMMETRY ClientSymmetry
SPECIFICATION Spec
CHECK_DEADLOCK FALSE
INVARIANTS
  SameWindow
  SilenceOnlyAtStart
PROPERTIES
  Implements
