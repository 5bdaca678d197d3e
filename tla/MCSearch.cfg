SPECIFICATION SearchFairSpec
CONSTANTS
  m1 = m1
  m2 = m2
  r1 = r1
  r2 = r2
  n1 = n1
  n2 = n2
  g1 = g1
  Stores = {m1, m2}
  Retrieves = {r1, r2}
  Untraced = {r2}
  Migrations = {}
  Rows <- MCRows
  Malformed = {n2}
  Id <- MCId
  Trace <- MCTrace
  Depth = 2
  OldDepth = 1
  NewDepth = 1
  HexBase = 2
  DecBase = 2
  MaxFaults = 1
  Garbage = Garbage
  None = None
INVARIANTS
  SearchTypeOK AnswerComplete CountersAgree
PROPERTIES
  SearchAnswered
CHECK_DEADLOCK FALSE
