SPECIFICATION Spec
CONSTANTS
  Objects = {a, b, c}
  Copies = {x, y, z}
  Null = null
  MaxSent = 5
SYMMETRY Symmetry
CHECK_DEADLOCK FALSE
INVARIANTS TablesSound SameSharing
