SPECIFICATION Spec
CONSTANTS
  None = None
  One = One
  Numbers = {One}
  Written <- MCWritten
  Files <- AllFiles
  Later <- MCLater
  StepSets <- MCStepSets
  MAX_ROWS = 3
  MAX_SAMPLES = 2
INVARIANTS
  TypeOK
  SamplesShowTheColumn
  CleanFilesGetThrough
  OthersStay
  Stable
  NullsAreGone
  NothingIsInvented
  SpellingsMerge
CHECK_DEADLOCK FALSE
