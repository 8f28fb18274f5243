SPECIFICATION Spec
CONSTANTS
  MaxObj = 3
  Slots = 2
  Settings <- Undrained
CHECK_DEADLOCK FALSE
INVARIANTS ReachableKept
