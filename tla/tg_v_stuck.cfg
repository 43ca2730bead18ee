SPECIFICATION Spec
CONSTANTS
  Threads = {t1, t2}
  None = None
  Modes = {"file", "config"}
  MaxConcurrent = 2
  MaxTokens = 2
CHECK_DEADLOCK FALSE
INVARIANT NeverStuck
