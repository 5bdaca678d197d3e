SPECIFICATION FairSpec
CONSTANTS
  Requests = {a}
  None = None
PROPERTIES
  HealthzMeansHealthy
CHECK_DEADLOCK FALSE
