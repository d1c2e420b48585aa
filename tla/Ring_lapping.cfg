CONSTANTS
  RingFrames = 7
  SafetyOffset = 1
  DefaultMargin = 4
  Latencies = {3}
  BufferSizes = {1, 2}
  PacketSizes = {1, 3}
  Clients = {c1}
  MaxFrames = 11
  MaxEpoch = 1
  MaxCycle = 4
  c1 = c1
SPECIFICATION Spec
CHECK_DEADLOCK FALSE
INVARIANTS
  TypeOK
  IntactFrame
PROPERTIES
  JitterAbsorbed
  Implements
