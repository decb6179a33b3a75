SPECIFICATION Spec
CONSTANTS
  c1 = c1
  Workers = {w1,w2}
  Clients = {p}
  Contexts = {c1}
  ListenerLane = {}
  Plain = {}
  Timers = {t1}
  Home <- HomeOf
  PendingLimit = 2
  Yields = FALSE
  Waits = FALSE
  Retires = FALSE
  Deletes = {}
  MaxNesting = 2
  MaxStimuli = 2
INVARIANT FireIsRun
CHECK_DEADLOCK FALSE
