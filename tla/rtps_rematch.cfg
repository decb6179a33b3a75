SPECIFICATION Spec
CONSTANTS
  Readers = {r1,r2}
  BestEffort = {r2}
  WantsReplay = {r1}
  Local = {r1}
  Instances = {a}
  MaxSN = 2
  Depth = 4
  ReplayOnMatch = FALSE
  NackWindow = 2
  MaxCount = 2
  MaxMatch = 2
  MaxReaderMatch = 1
  Live = FALSE
  Cap = 0
INVARIANT TypeOK
INVARIANT OwedIsKept
INVARIANT LossIsReal
INVARIANT AckedIsPassed
PROPERTY NeverBackwards
CHECK_DEADLOCK FALSE
