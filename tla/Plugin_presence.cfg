CONSTANTS
  StallMax = 4
  HostThreads = {h1, h2}
  FirstSegments = {"none", "unsized", "blank", "magic", "ready"}
  MonitorStarts = {TRUE, FALSE}
  Nobody = Nobody
  h1 = h1
  h2 = h2
SPECIFICATION FairSpec
INVARIANTS
  TypeOK
  ListFollowsPresence
  MapsKnownLayout
PROPERTIES
  RemovedOnlyAfterStall
  DeviceReturns
  DeviceDisappears
