SPECIFICATION Spec
CONSTANTS
  NUM_NODES = 4
  WARMUP = 3
  TRAVERSALS = 6
  Null = Null
INVARIANTS
  MoreTimeTwoAhead
