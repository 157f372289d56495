SPECIFICATION Spec
CONSTANTS
  NUM_ALLOCS = 4
  BATCH_SIZE = 3
  NUM_BATCHES = 3
  OBJECT_SIZE = 8
  Modulus = 128
  Blocks = {m1, m2, m3, m4}
  Durations = {0, 1}
  Nil = Nil
  Data = Data
INVARIANTS
  BatchesReuseObjects
  EachReturnedOnce
  ArenaServesEveryBatch
  TimesArePure
  ReportIsRight
