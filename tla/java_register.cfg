SPECIFICATION JavaSpec
CONSTANTS
  Threads = {t1, t2}
  Regs = {g1, g2}
  Readers = {r1}
  Called = {"registerTypeSupport"}
  None = None
CHECK_DEADLOCK FALSE
INVARIANT ContextReleasedOnce
