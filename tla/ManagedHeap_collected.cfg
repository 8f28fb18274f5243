SPECIFICATION Spec
CONSTANTS
  MaxObj = 3
  Slots = 2
  Settings <- Collected
CHECK_DEADLOCK FALSE
INVARIANTS TypeOK ReachableKept CountsExact ResidencyZero
PROPERTIES DestructedOnce SafepointExact
