CONSTANTS
  f1 = f1  f2 = f2  s1 = s1  s2 = s2
  File = {f1}
  Service = {s1}
  Owner <- Owner1
  Contracted = {}
  Kind = {"good", "fails", "leak"}
  Modes = {"full", "light"}
  Required = TRUE
  MaxVerifyAttempts = 1
  Faults = {"platform", "sync", "load", "revert"}
  MaxWrites = 2
  MaxTurns = 3
  Escalates = TRUE
  SameTimes = 2
  AfterFailures = 1
  RetryBudget = 1
SPECIFICATION FairRunSpec
INVARIANTS CommittedHasNoSecret BudgetIsKept
PROPERTIES RunAdvances RunSettles
