SPECIFICATION Spec
CONSTANTS
  None = None
  One = One
  Numbers = {One}
  Written <- MCWritten
  Files <- SheetFiles
  Later <- MCLater
  StepSets <- MCStepSets
  MAX_ROWS = 3
  MAX_SAMPLES = 2
INVARIANT AcceptedColumnsAreProcessed
CHECK_DEADLOCK FALSE
