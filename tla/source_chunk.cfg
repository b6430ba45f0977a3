SPECIFICATION FairSpec
CONSTANTS
  Objects <- ChunkObjects
  MapArgs <- ChunkMap
  SkipWithin = "avail"
  MaxRequest = 9
  PageSize = 4
  Width = 64
  SyscallsFail = {"open", "fstat", "mmap"}
CHECK_DEADLOCK FALSE
INVARIANTS TypeOK FetchAccounting NothingLeaked ShortOnlyAtEnd BlockFetchInOrder NoFault AvailIsInStream
PROPERTY CallsReturn
