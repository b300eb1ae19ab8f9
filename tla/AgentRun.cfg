CONSTANTS
  f1 = f1  f2 = f2  s1 = s1  s2 = s2
  File = {f1, f2}
  Service = {s1, s2}
  Owner <- Owner2
  Contracted = {}
  Kind = {"good", "fails"}
  Modes = {"full", "light"}
  Required = TRUE
  MaxVerifyAttempts = 2
  Faults = {"platform", "flaky"}
  MaxWrites = 2
  MaxTurns = 3
  Escalates = FALSE
  SameTimes = 2
  AfterFailures = 0
  RetryBudget = 1
SPECIFICATION RunSpec
INVARIANT CommittedIsWhatRan
