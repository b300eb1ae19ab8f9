CONSTANTS
  MaxRuns = 1
  MaxHooks = 1
  Cards = {TRUE}
  Timings <- MidCard
  MaxAttempts = 2
  MaxJobs = 1
SPECIFICATION Spec
PROPERTIES RefusedCloses
CHECK_DEADLOCK FALSE
