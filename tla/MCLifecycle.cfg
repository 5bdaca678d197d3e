SPECIFICATION FairSpec
CONSTANTS
  Requests = {a, b, c}
  None = None
INVARIANTS
  TypeOK CleanExit AbortedAfterDeadline ServedWhenConfigured
PROPERTIES
  Stops
CHECK_DEADLOCK FALSE
