SPECIFICATION Spec
CONSTANTS
  m1 = m1
  m2 = m2
  m3 = m3
  r1 = r1
  r2 = r2
  g1 = g1
  g2 = g2
  Stores = {m1}
  Retrieves = {r1}
  Migrations = {}
  Id <- PlainId
  Trace <- MCTrace
  Depth = 2
  OldDepth = 1
  NewDepth = 1
  HexBase = 2
  DecBase = 2
  MaxFaults = 0
  Garbage = Garbage
  None = None
INVARIANTS
  SearchCoversPersisted
CHECK_DEADLOCK FALSE
