SPECIFICATION Spec
CONSTANTS
  Objects <- ChunkOnly
  MapArgs <- PageMap
  SkipWithin = "avail"
  MaxRequest = 8
  PageSize = 4
  Width = 64
  SyscallsFail = {}
INVARIANT FetchInOrder
