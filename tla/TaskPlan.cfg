CONSTANTS
  api = api  web = web  guest = guest
  Lane = {api, web}
  Agent = {guest}
  MaxTasks = 2
  MaxLanes = 2
  MaxCrashes = 2
  Strategies <- AllStrategies
  LateWrites <- AllLateWrites
SPECIFICATION FairSpec
INVARIANTS DoneHasEveryLane HoldingsAccounted
PROPERTIES PlanSettles
CHECK_DEADLOCK FALSE
