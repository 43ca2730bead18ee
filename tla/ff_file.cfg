SPECIFICATION Spec
CONSTANTS
  Handles = {h1, h2}
  Threads = {t1, t2}
  None = None
  Truncates = TRUE
  MaxContents = 2
  MaxCrashes = 1
CHECK_DEADLOCK FALSE
INVARIANT TypeOK
INVARIANT FlushVisible
 
INVARIANT SizeShown
PROPERTY ReleaseSavesWrites
