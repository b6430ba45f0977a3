SPECIFICATION Spec
CONSTANTS
  WordBits = 3
  SizeBits = 6
  QuantityBits = 6
  Quantities <- AllNumbers
  Starts <- Leftovers
  MaxCount = 1
CHECK_DEADLOCK FALSE
INVARIANT BufferFits
