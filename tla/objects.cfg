SPECIFICATION Spec
CONSTANTS
  Programs <- Sound
  Blocks = {1, 2, 3, 4, 5}
  MaxOps = 4
CHECK_DEADLOCK FALSE
INVARIANTS TypeOK ObjectsSound PointerSound NothingLeaked ReadsWhatWasWritten
