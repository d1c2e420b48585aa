CONSTANTS
  x3 = x3
  hd500 = hd500
  Models = {x3, hd500}
  Channels <- ChannelsOf
  Mixtures = {torn}
  torn = torn
  Threads = {app}
  app = app
  Strings = {s1, s2, s3}
  s1 = s1
  s2 = s2
  s3 = s3
  None = None
SYMMETRY StringSymmetry
SPECIFICATION Spec
INVARIANTS
  TypeOK
  SweepClean
  WithinBuffer
  NameCounted
PROPERTIES
  GivesNames
