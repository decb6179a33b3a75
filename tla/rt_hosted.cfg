SPECIFICATION Spec
CONSTANTS
  c1 = c1
  Workers = {w1,w2}
  Clients = {p}
  Contexts = {c1}
  ListenerLane = {}
  Plain = {r1,r2}
  Timers = {t1}
  Home <- HomeOf
  PendingLimit = 1
  Yields = TRUE
  Waits = TRUE
  Retires = FALSE
  Deletes = {c1}
  MaxNesting = 2
  MaxStimuli = 3
SYMMETRY Symmetry
INVARIANT NeverStranded
INVARIANT RequestsAccounted
INVARIANT WakeNotLost
INVARIANT FreedUntouched
CHECK_DEADLOCK FALSE
