SPECIFICATION Spec
CONSTANTS
  MaxObj = 3
  Slots = 2
  Settings <- TrialMidRun
CHECK_DEADLOCK FALSE
INVARIANTS ReachableKept
