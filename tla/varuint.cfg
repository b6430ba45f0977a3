SPECIFICATION Spec
CONSTANTS
  WordBits = 3
  SizeBits = 6
  QuantityBits = 6
  Quantities <- AllNumbers
  Starts <- Leftovers
  MaxCount = 2
CHECK_DEADLOCK FALSE
INVARIANTS TypeOK RoundTrip Compact ShiftDefined
