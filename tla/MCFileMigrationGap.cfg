SPECIFICATION FairSpec
CONSTANTS
  m1 = m1
  m2 = m2
  m3 = m3
  r1 = r1
  r2 = r2
  g1 = g1
  g2 = g2
  Stores = {m1}
  Retrieves = {}
  Migrations = {g1}
  Id <- MixedId
  Trace <- MCTrace
  Depth = 1
  OldDepth = 1
  NewDepth = 2
  HexBase = 3
  DecBase = 2
  MaxFaults = 0
  Garbage = Garbage
  None = None
PROPERTIES
  MovedToNewShard
CHECK_DEADLOCK FALSE
