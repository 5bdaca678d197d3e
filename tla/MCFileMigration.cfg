SPECIFICATION FairSpec
CONSTANTS
  m1 = m1
  m2 = m2
  m3 = m3
  r1 = r1
  r2 = r2
  g1 = g1
  g2 = g2
  Stores = {m1, m2, m3}
  Retrieves = {}
  Migrations = {g1, g2}
  Id <- MixedId
  Trace <- MCTrace
  Depth = 1
  OldDepth = 1
  NewDepth = 2
  HexBase = 3
  DecBase = 2
  MaxFaults = 2
  Garbage = Garbage
  None = None
INVARIANTS
  MigrationLosesNothing OneLostPerFault
PROPERTIES
  CallReturns StaysReadable CallsAdvance
CHECK_DEADLOCK FALSE
