SPECIFICATION Spec
CONSTANTS
  Machines <- AllMachines
  ITERATIONS = 3
  Nobody = Nobody
INVARIANTS
  TypeOK
  ClockCoversWork
  PaddedNeverStolen
  SeparateCaches
PROPERTIES
  Termination
