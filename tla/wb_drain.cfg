SPECIFICATION DrainSpec
CONSTANTS
  Files = {f1, f2}
  Threads = {t1, t2}
  None = None
  Blank = Blank
  MaxRetries = 2
  RestoreBudget = 1
  DrainOn = TRUE
  DiskMayFail = FALSE
  PermanentErrors = TRUE
  MaxWrites = 2
  MaxEnqueues = 3
  MaxCrashes = 1
  MaxFaults = 2
  Outage = FALSE
  MaxFlushes = 0
INVARIANT TypeOK
INVARIANT SpacedWritesDurable
INVARIANT NeverUploadsReleased
PROPERTY CloudKeepsAcked
SYMMETRY Symmetry
