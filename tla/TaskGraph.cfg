CONSTANTS
  a = a  b = b  c = c  ghost = ghost
  Node = {a, b, c}
  Graphs <- AnyGraph
  Pos <- Pos3
  Limit = 2
  MaxAttempts = 2
SPECIFICATION FairCallSpec
INVARIANTS
  JobsWithinBounds OrderedNeverStuck SearchDecides
PROPERTIES
  ResultsFinal ImplementsDagResults CallAdvances Settles
