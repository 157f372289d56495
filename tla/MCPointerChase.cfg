SPECIFICATION Spec
CONSTANTS
  n = 6
  WARMUP = 3
  ACCESSES = 9
INVARIANTS
  TypeOK
  SingleCycle
  StartsWarm
PROPERTIES
  RevisitsOnlyAfterAll
