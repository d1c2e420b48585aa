CONSTANTS
  Devices = {x3, x3live}
  Instances = {previous, next}
  None = None
  StallRounds = 2
  ExitGrace = 3
  x3 = x3
  x3live = x3live
  previous = previous
  next = next
SPECIFICATION Spec
INVARIANTS
  SoleProducer
