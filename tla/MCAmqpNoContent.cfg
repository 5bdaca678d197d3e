SPECIFICATION FairSpec
CONSTANTS
  Publishers = {}
  Subscribers = {s1}
  Foreign = {}
  Malformed = {}
  Topic <- MCTopic
  None = None
  MaxFaults = 0
PROPERTIES
  NoMessageIs204
CHECK_DEADLOCK FALSE
