SPECIFICATION FairSpec
CONSTANTS
  Ops <- StreamOps
  MaxOps = 3
  MaxOffset = 60
  Setups <- ReaderSetups
  ForcedAlign = 16
  OffsetBits = 8
  MaxName = 6
  PageSize = 8
  Width = 256
  Files <- Windows
  Losses = {0, 1, 5}
CHECK_DEADLOCK FALSE
INVARIANTS ValuesDelivered OnlyPrefixesLeadAstray LossNoticed RefusedForACause
PROPERTIES ImplementsLayout ItemsEnd
