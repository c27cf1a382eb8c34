SPECIFICATION Spec
CONSTANTS
  a = a
  b = b
  Requests = {q1, q2, q3}
  Columns = {a, b}
  Lists <- TwoNames
  None = None
SYMMETRY Symmetry
INVARIANTS
  IndInv
  TypeOK
  PutIsWhole
  NamesAreUnique
PROPERTIES
  SerialPutReplaces
  NothingComesBack
CHECK_DEADLOCK FALSE
