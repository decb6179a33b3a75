SPECIFICATION Spec
CONSTANTS
  Readers = {r1}
  BestEffort = {}
  WantsReplay = {r1}
  Local = {}
  Instances = {a, b}
  MaxSN = 3
  Depth = 1
  ReplayOnMatch = TRUE
  NackWindow = 2
  MaxCount = 2
  MaxMatch = 1
  MaxReaderMatch = 2
  Live = FALSE
  Cap = 0
INVARIANT DeliveredOnceInOrder
INVARIANT HistoryAccounted
INVARIANT HistoryWaitSound
PROPERTY ImplementsTopic
CHECK_DEADLOCK FALSE
