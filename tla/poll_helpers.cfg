SPECIFICATION Spec
CONSTANTS
  Runners = {d}
  Helpers = {h1, h2}
  Clients = {}
  Sources = {s1}
  Readiness = TRUE
  Budget = 1
  MaxEvents = 3
INVARIANT PolledWhileWaiting
CHECK_DEADLOCK FALSE
