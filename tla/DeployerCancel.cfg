CONSTANTS
  studio = studio  cli = cli
  Proc = {studio, cli}
  Races = {}
  MaxDeploys = 3
  KeepPrevious = 1
  MaxRecords = 3
  FaultSets <- CancelFaults
SPECIFICATION Spec
INVARIANT RouteIsServed
