CONSTANTS
  RingFrames = 7
  SafetyOffset = 1
  DefaultMargin = 4
  Latencies = {3}
  BufferSizes = {1, 2}
  PacketSizes = {1, 3}
  Clients = {c1}
  MaxFrames = 8
  MaxEpoch = 1
  MaxCycle = 2
  c1 = c1
SPECIFICATION Spec
CHECK_DEADLOCK FALSE
PROPERTIES
  FirstCycleReAnchors
