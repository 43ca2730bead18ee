SPECIFICATION FairWalkSpec
CONSTANTS
  top = top
  left = left
  deep = deep
  right = right
  Dirs <- MCDirs
  Parent <- MCParent
  Root = top
  Threads = {f1, w1, w2}
  Walkers = {f1}
  None = None
  MaxCalls = 3
  MaxTroubles = 1
CHECK_DEADLOCK FALSE
INVARIANT WalkTypeOK
INVARIANT OneLoader
INVARIANT ReturnMeansLoaded
INVARIANT BackgroundComplete
PROPERTY LoadsOnce
PROPERTY WalkReaches
PROPERTY CallsReturn
PROPERTY BackgroundEnds
