SPECIFICATION Spec
CONSTANTS
  Runners = {d}
  Helpers = {h}
  Clients = {}
  Sources = {s1}
  Readiness = TRUE
  Budget = 2
  MaxEvents = 5
INVARIANT SleepersHavePoller
INVARIANT UnregisteredUntouched
PROPERTY InputIsRead
PROPERTY OutputIsTaken
PROPERTY WorkRuns
CHECK_DEADLOCK FALSE
