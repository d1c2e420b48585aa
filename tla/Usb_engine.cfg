CONSTANTS
  InTransfers = {i1, i2}
  OutTransfers = {o1, o2}
  DrainLimit = 3
  Channels = 2
  FramesPerPkt = 2
  IsoPackets = 2
  ByteSize = 4
  PacketLengths = {0, 5, 8, 12}
  i1 = i1
  i2 = i2
  o1 = o1
  o2 = o2
SPECIFICATION FairSpec
INVARIANTS
  TypeOK
  InFlightExact
  NothingLeftBehind
  FramesAligned
  SamplesExact
PROPERTIES
  Implements
  StopReturns
