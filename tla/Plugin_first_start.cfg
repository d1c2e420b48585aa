CONSTANTS
  StallMax = 4
  HostThreads = {h1, h2}
  FirstSegments = {"none"}
  MonitorStarts = {TRUE}
  Nobody = Nobody
  h1 = h1
  h2 = h2
SPECIFICATION FairSpec
PROPERTIES
  DeviceReappears
