SPECIFICATION ProcessSpec
CONSTANTS
  m1 = m1
  m2 = m2
  m3 = m3
  r1 = r1
  Stores = {m1, m2, m3}
  Retrieves = {r1}
  Migrations = {}
  Id <- MCId
  Trace <- MCTrace
  Topic <- MCTopic
  Timestamp <- MCTimestamp
  Size <- MCSize
  Limit = 1
  Depth = 2
  OldDepth = 1
  NewDepth = 1
  HexBase = 2
  DecBase = 2
  MaxFaults = 1
  Garbage = Garbage
  None = None
INVARIANTS
  ProcessTypeOK StoredThenPublished PublishedIsFound ContentKept
CHECK_DEADLOCK FALSE
