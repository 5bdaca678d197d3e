SPECIFICATION Spec
CONSTANTS
  Publishers = {p1}
  Subscribers = {s1}
  Foreign = {m}
  Malformed = {}
  Topic <- MCTopic
  None = None
  MaxFaults = 2
SYMMETRY Symmetry
INVARIANTS
  AcceptedIsAnswered RefusedIsAbsent NoHopelessWait
PROPERTIES
  ImplementsContract
CHECK_DEADLOCK FALSE
