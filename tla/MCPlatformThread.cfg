SPECIFICATION HelpfulSpec
CONSTANTS
  Plans <- AllPlans
  GetInterval = 2
  RunInterval = 2
  Start = 3
  MaxTime = 8
  MaxChanges = 1
  MaxCrashes = 1
INVARIANTS
  TypeOK
  StatusIsSaved
  NothingPassedOver
  StopsAtEnd
PROPERTIES
  ProgressIsKept
  FollowsPlan
  PlanFinishes
CHECK_DEADLOCK FALSE
