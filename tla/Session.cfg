SPECIFICATION Spec
CONSTANTS
  Migration = {m1, m2}
  Faults <- CommonFaults
  MaxCommits = 4
  MaxRows = 1
SYMMETRY Interchangeable
INVARIANTS
  SettledIsCheckpoint
  DumpFitsCode
  ListMatchesGit
PROPERTIES
  KeepsHistory
