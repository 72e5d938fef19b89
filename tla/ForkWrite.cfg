SPECIFICATION Spec
CONSTANTS
  ChunkSize = 5
  Quantum = 5
  HeaderLen = 3
  DefaultChunk = 3
  MaxParallel = 2
  MaxSrc = 9
  MaxWrite = 3
  MaxSeek = 2
  MaxSize = 3
  Limit32 = 2
  MaxUses = 3
INVARIANT CountIsHonest
INVARIANT CountedIsWritten
INVARIANT SizeTracksEnd
CHECK_DEADLOCK FALSE
