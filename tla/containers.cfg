SPECIFICATION Spec
CONSTANTS
  Programs <- AllPrograms
  MaxLoads = 3
CHECK_DEADLOCK FALSE
INVARIANTS ReadsBack TornInOrder NothingLeaked
