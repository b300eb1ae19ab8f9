CONSTANTS
  Members = 2
  MaxAsks = 1
  MaxCrashes = 2
  Faults = {}
SPECIFICATION FairSpec
INVARIANTS SentOnce WinnerPassed WorkIsUnderWay
PROPERTIES MembersEnd DeletedForGood
CHECK_DEADLOCK FALSE
