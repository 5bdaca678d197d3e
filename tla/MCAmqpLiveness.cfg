SPECIFICATION FairSpec
CONSTANTS
  Publishers = {p1}
  Subscribers = {s1}
  Foreign = {bad}
  Malformed = {bad}
  Topic <- MCTopic
  None = None
  MaxFaults = 1

PROPERTIES
  RequestTerminates NotStranded
CHECK_DEADLOCK FALSE
