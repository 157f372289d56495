SPECIFICATION Spec
CONSTANTS
  pool_size = 3
  buffer_pages = 2
  BufferPages = {p1, p2}
  WARMUP = 1
  NUM_ACCESSES = 3
  Machines <- AllMachines
  N = 3
  Values = {0, 127, 128, 255}
  ITERATIONS = 2
  counts <- Counts
  Length = 4
  ACCESSES = 5
  NUM_NODES = 4
  LIST_WARMUP = 3
  TRAVERSALS = 6
  strides <- Strides
  STRIDED_ACCESSES = 6
  Null = Null
  OtherNames = {"caches"}
INVARIANTS
  TypeOK
  BuffersReturned
  NoFaultTimed
  PenaltyComparesLikeWithLike
  RowsNameTheNode
  EveryNodeMeasured
  SameWork
  SortedIsPredictable
  MaskedBoundsBranchy
  SubsetCostsALine
  EvenSweep
  OneRing
  SameWalks
  PrefetchesAreUsed
  SameReads
  SmallCircle
PROPERTIES
  OneFetchPerEntry
  RunsWhatWasAsked
