SPECIFICATION FairSpec
CONSTANTS
  Ops <- StreamOps
  MaxOps = 3
  MaxOffset = 260
  Setups <- AllSetups
  ForcedAlign = 16
  OffsetBits = 9
  MaxName = 6
CHECK_DEADLOCK FALSE
INVARIANTS TypeOK ReaderInStep FirstMultiple
PROPERTY WriterFinishes
