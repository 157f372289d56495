SPECIFICATION Spec
CONSTANTS
  pool_size = 0
  buffer_pages = 1
  Machines <- Holes
  Null = Null
INVARIANTS
  CountsNodes
