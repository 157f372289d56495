SPECIFICATION Spec
CONSTANTS
  counts <- Counts
  ITERATIONS = 2
  Null = Null
INVARIANTS
  EntryInOneLine
