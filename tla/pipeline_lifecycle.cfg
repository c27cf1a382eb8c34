SPECIFICATION FairSpec
CONSTANTS
  Requests = {q1, q2}
  Projects = {p1}
  Columns = {c1}
  Workers = {w1, w2}
  None = None
  MaxRetries = 1
  MaxRedeliveries = 0
  BrokerConnected = TRUE
PROPERTIES
  ImplementsLifecycle
  ServedInTheEnd
CHECK_DEADLOCK FALSE
