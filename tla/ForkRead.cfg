SPECIFICATION FairSpec
CONSTANTS
  ChunkSize = 2
  MaxParallel = 2
  MaxSize = 9
  MaxLen = 5
  MaxChanges = 2
  Stale = Stale
INVARIANT BytesInPlace
INVARIANT WholeFile
PROPERTY Ends
CHECK_DEADLOCK FALSE
