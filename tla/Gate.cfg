CONSTANTS
  f1 = f1  f2 = f2  s1 = s1  s2 = s2
  File = {f1, f2}
  Service = {s1, s2}
  Owner <- Owner2
  Contracted = {s1}
  Kind = {"good", "crash", "breaks", "fails", "weak", "link"}
  Modes = {"full"}
  Required = TRUE
  MaxVerifyAttempts = 2
  Faults = {"platform", "flaky"}
  MaxWrites = 2
SPECIFICATION Spec
INVARIANTS PassIsWhatRan PassedIsSound StaleIsOwed
