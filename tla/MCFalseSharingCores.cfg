SPECIFICATION Spec
CONSTANTS
  Machines <- Unrestricted
  ITERATIONS = 2
  Nobody = Nobody
INVARIANTS
  DifferentPhysicalCores
