SPECIFICATION Spec
CONSTANTS
  p0 = p0
  x0 = x0
  m = m
  n = n
  s = s
  k = k
  Requests = {q1, q2, q3}
  Old = {p0, x0}
  Names = {m, n}
  Texts = {s}
  Kinds = {k}
  Reasons = {s}
  Tables <- OldTables
  None = None
SYMMETRY Symmetry
INVARIANTS
  IndInv
  KeysAreUnique
  NoOrphans
  MergedIsComplete
  RefusedMeansDecided
PROPERTIES
  GoneForGood
  FirstDecisionIsOne
CHECK_DEADLOCK FALSE
