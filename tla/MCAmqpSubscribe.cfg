SPECIFICATION Spec
CONSTANTS
  Publishers = {}
  Subscribers = {s1, s2}
  Foreign = {m, bad}
  Malformed = {bad}
  Topic <- MCTopic
  None = None
  MaxFaults = 2
SYMMETRY Symmetry
INVARIANTS
  TypeOK DeliveredOnce DeliveredIsConsumed SettledForSomeone LinksClosed
PROPERTIES
  ImplementsContract
CHECK_DEADLOCK FALSE
