SPECIFICATION Spec
CONSTANTS
  Items = {a, b, c, d}
  Listed = {a, b, c}
  PageSizes = {0, 1, 2, 3}
  MAX_PAGE_SIZE = 2
INVARIANTS
  IndInv
  WalkMissesFew
  WalkRepeatsFew
CHECK_DEADLOCK FALSE
