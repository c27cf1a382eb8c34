SPECIFICATION FairSpec
CONSTANTS
  a = a
  b = b
  Requests = {q1, q2, q3}
  Columns = {a, b}
  Lists <- Crossing
  None = None
PROPERTIES
  EveryRequestEnds
CHECK_DEADLOCK FALSE
