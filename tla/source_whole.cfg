SPECIFICATION FairSpec
CONSTANTS
  Objects <- WholeObjects
  MapArgs <- WholeMap
  SkipWithin = "avail"
  MaxRequest = 9
  PageSize = 4
  Width = 64
  SyscallsFail = {"open", "fstat", "mmap"}
PROPERTY ImplementsByteStream
