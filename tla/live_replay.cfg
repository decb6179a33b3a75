SPECIFICATION LiveSpec
CONSTANTS
  Readers = {r1}
  BestEffort = {}
  WantsReplay = {r1}
  Local = {}
  Instances = {a, b}
  MaxSN = 2
  Depth = 1
  ReplayOnMatch = TRUE
  NackWindow = 2
  MaxCount = 2
  MaxMatch = 1
  MaxReaderMatch = 1
  Live = TRUE
  Cap = 1
PROPERTY EventuallyAcked
PROPERTY EventuallyReady
CHECK_DEADLOCK FALSE
