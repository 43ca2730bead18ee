SPECIFICATION Spec
CONSTANTS
  Handles = {h1, h2}
  Threads = {t1, t2}
  None = None
  Truncates = FALSE
  MaxContents = 2
  MaxCrashes = 1
CHECK_DEADLOCK FALSE
INVARIANT FlushAlwaysVisible
