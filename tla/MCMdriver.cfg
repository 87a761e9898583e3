CONSTANTS
  ALIGNMENT = 2
  MAX_HEAP = 28
  SIZEOF_SIZE_T = 1
  CHUNKSIZE = 8
  Ids = {0, 1, 2}
  Sizes = {1, 5}
  InitialWords = {0}
  None = None
SPECIFICATION Spec
INVARIANT DriverSatisfied ChainTilesHeap NoFreeNeighbours NothingLeaked
PROPERTY ImplementsAlloc
