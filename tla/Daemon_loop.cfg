CONSTANTS
  Devices = {x3, x3live}
  Instances = {daemon}
  None = None
  StallRounds = 2
  ExitGrace = 3
  x3 = x3
  x3live = x3live
  daemon = daemon
SPECIFICATION FairSpec
INVARIANTS
  TypeOK
  HeaderMatchesCapture
  ExitOnlyAfterGrace
PROPERTIES
  CapturesEventually
  ExitsWhenRemoved
