SPECIFICATION FairSpec
CONSTANTS
  Types <- CppTypes
  Programs <- AllPrograms
  ObjectAlign = 4
  SizeBits = 8
  Base = 100
  MaxDepth = 30
CHECK_DEADLOCK FALSE
INVARIANTS TypeOK PointersFollowed CopiedOnce NumbersCopied CopiesAligned
PROPERTY BlitEnds
