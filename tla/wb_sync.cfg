SPECIFICATION FairSpec
CONSTANTS
  Files = {f1}
  Threads = {t1}
  None = None
  Blank = Blank
  MaxRetries = 2
  RestoreBudget = 1
  DrainOn = TRUE
  DiskMayFail = TRUE
  PermanentErrors = FALSE
  MaxWrites = 2
  MaxEnqueues = 2
  MaxCrashes = 1
  MaxFaults = 2
  Outage = TRUE
  MaxFlushes = 1
CHECK_DEADLOCK FALSE
INVARIANT StoppedWritesDurable
PROPERTY FlushOkMeansSynced
PROPERTY AckedReachesCloud
PROPERTY QueueDrains
PROPERTY FlushNeedsNoTimeout
