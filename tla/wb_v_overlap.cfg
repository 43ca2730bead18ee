SPECIFICATION DrainSpec
CONSTANTS
  Files = {f1}
  Threads = {t1}
  None = None
  Blank = Blank
  MaxRetries = 2
  RestoreBudget = 1
  DrainOn = TRUE
  DiskMayFail = FALSE
  PermanentErrors = FALSE
  MaxWrites = 2
  MaxEnqueues = 2
  MaxCrashes = 0
  MaxFaults = 0
  Outage = FALSE
  MaxFlushes = 0
CHECK_DEADLOCK FALSE
INVARIANT AckedWritesDurable
