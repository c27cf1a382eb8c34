SPECIFICATION Spec
CONSTANTS
  Requests = {q1, q2, q3}
  Projects = {p1}
  Columns = {c1}
  Workers = {w1}
  None = None
  MaxRetries = 1
  MaxRedeliveries = 0
  BrokerConnected = TRUE
SYMMETRY Symmetry
INVARIANTS
  TypeOK
  ReportIsComplete
  NoDanglingRows
  RejectionLeavesNothing
  IssuedUrlResolves
CHECK_DEADLOCK FALSE
