SPECIFICATION Spec
CONSTANTS
  Threads = {t1, t2}
  None = None
  Modes = {"file", "config"}
  MaxConcurrent = 1
  MaxTokens = 2
CHECK_DEADLOCK FALSE
INVARIANT TypeOK
INVARIANT SlotsKept
INVARIANT DeadIsExpired
PROPERTY GoodSourceServes
