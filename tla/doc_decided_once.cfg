SPECIFICATION Spec
CONSTANTS
  p0 = p0
  x0 = x0
  m = m
  n = n
  s = s
  k = k
  Requests = {q1, q2}
  Old = {p0, x0}
  Names = {m, n}
  Texts = {s}
  Kinds = {k}
  Reasons = {s}
  Tables <- OldTables
  None = None
PROPERTY DecidedForGood
CHECK_DEADLOCK FALSE
