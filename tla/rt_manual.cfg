SPECIFICATION Spec
CONSTANTS
  c1 = c1
  Workers = {}
  Clients = {p,q}
  Contexts = {c1,c2}
  ListenerLane = {c2}
  Plain = {r1}
  Timers = {t1}
  Home <- HomeOf
  PendingLimit = 2
  Yields = FALSE
  Waits = FALSE
  Retires = TRUE
  Deletes = {c1,c2}
  MaxNesting = 2
  MaxStimuli = 2
SYMMETRY Symmetry
INVARIANT NeverStranded
INVARIANT FreedUntouched
CHECK_DEADLOCK FALSE
