SPECIFICATION Spec
CONSTANTS
  Plans <- AllPlans
  GetInterval = 2
  RunInterval = 2
  Start = 3
  MaxTime = 8
  MaxChanges = 0
  MaxCrashes = 0
INVARIANTS
  FinishedIsComplete
CHECK_DEADLOCK FALSE
