SPECIFICATION Spec
CONSTANTS
  Files = {f1}
  Threads = {t1}
  None = None
  Blank = Blank
  MaxRetries = 2
  RestoreBudget = 1
  DrainOn = TRUE
  DiskMayFail = FALSE
  PermanentErrors = FALSE
  MaxWrites = 1
  MaxEnqueues = 1
  MaxCrashes = 0
  MaxFaults = 2
  Outage = FALSE
  MaxFlushes = 1
CHECK_DEADLOCK FALSE
INVARIANT SpacedWritesDurable
