SPECIFICATION Spec
CONSTANTS
  Requests = {q1, q2}
  Projects = {p1}
  Columns = {c1}
  Workers = {w1, w2}
  None = None
  MaxRetries = 1
  MaxRedeliveries = 1
  BrokerConnected = TRUE
SYMMETRY Symmetry
INVARIANTS
  IndInv
  ReadyHasResult
  NoSilentStall
PROPERTY
  FinishedStaysFinished
CHECK_DEADLOCK FALSE
