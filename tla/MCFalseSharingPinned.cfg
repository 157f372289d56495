SPECIFICATION Spec
CONSTANTS
  Machines <- Restricted
  ITERATIONS = 2
  Nobody = Nobody
INVARIANTS
  PinnedAsPrinted
