SPECIFICATION Spec
CONSTANTS
  N = 3
  ITERATIONS = 2
  Values = {0, 127, 128, 255}
  Null = Null
INVARIANTS
  SameResult
