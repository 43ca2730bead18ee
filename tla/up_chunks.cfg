SPECIFICATION FairSpec
CONSTANTS
  Sizes = {0, 2, 5}
  Cutoff = 1
  Chunk = 2
  ChunkRetries = 3
  MaxRetries = 2
  MaxFaults = 4
CHECK_DEADLOCK FALSE
INVARIANT TypeOK
PROPERTY UploadIsAtomic
PROPERTY UploadEnds
