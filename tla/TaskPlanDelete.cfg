CONSTANTS
  api = api  web = web  guest = guest
  Lane = {api, web}
  Agent = {guest}
  MaxTasks = 1
  MaxLanes = 2
  MaxCrashes = 1
  Strategies <- AllStrategies
  LateWrites <- NoLateWrites
SPECIFICATION Spec
PROPERTIES DeletedStaysDeleted
CHECK_DEADLOCK FALSE
