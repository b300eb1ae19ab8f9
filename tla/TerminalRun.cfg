CONSTANTS
  MaxRuns = 2
  MaxHooks = 2
  Cards = {FALSE, TRUE}
  Timings <- Nothing
  MaxAttempts = 2
  MaxJobs = 2
SPECIFICATION Spec
INVARIANTS OneRunAtATime ReachableUnlessSaving ClosingUnderWay
PROPERTIES RefusedNeverCommitted DecidedOnce ViolationNotForgotten RefusedCloses
CHECK_DEADLOCK FALSE
