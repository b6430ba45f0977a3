SPECIFICATION Spec
CONSTANTS
  Programs <- DefaultPointer
  Blocks = {1, 2, 3, 4, 5}
  MaxOps = 4
CHECK_DEADLOCK FALSE
INVARIANT ObjectsSound
