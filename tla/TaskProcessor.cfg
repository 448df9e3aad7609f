CONSTANTS
  None = None
  Tasks = {t1, t2}
  Workers = {w1, w2}
  BufferSize = 2
  Units = 1
SPECIFICATION Spec
INVARIANTS
  TypeOK
  OneResultPerTask
  CleanResultMeansOver
PROPERTIES
  NothingStartsAfterRun
  RunReturns
CHECK_DEADLOCK FALSE
