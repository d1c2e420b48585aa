CONSTANTS
  WatchdogStall = 5
  DrainLimit = 20
  RetrySleep = 20
  ExitGrace = 3
  PollPeriod = 5
  StallMax = 4
  ExitWhenAbsent = {TRUE, FALSE}
SPECIFICATION Spec
INVARIANTS
  TypeOK
  WithdrawnInTime
  RecoveryUnseen
  ExitedMeansWithdrawn
  FlowingIsPresent
  BackInTime
