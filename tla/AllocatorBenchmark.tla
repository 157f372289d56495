------------------------- MODULE AllocatorBenchmark -------------------------
(***************************************************************************)
(* AllocatorBenchmark::run of src/src/allocators.h: run_allocation_speed,  *)
(* then run_allocation_jitter, the two clients of PoolAllocator and        *)
(* ArenaAllocator.  Each takes malloc, a pool and an arena in turn and     *)
(* runs batches that fill ptrs inside a timed window and then give         *)
(* everything back.  They differ in this:                                  *)
(*   - speed: one batch of NUM_ALLOCS, pool and arena sized for NUM_ALLOCS *)
(*     objects, the frees timed in a window of their own;                  *)
(*   - jitter: NUM_BATCHES batches of BATCH_SIZE, a pool of TOTAL_ALLOCS   *)
(*     objects, an arena of BATCH_SIZE objects, the frees not timed, the   *)
(*     times of each allocator summed up in statistics.                    *)
(*                                                                         *)
(* Neither looks at what an allocator returns.  A nullptr from the pool    *)
(* would be written through by the following deallocate(), which here has  *)
(* no step to take, so that TLC would report a deadlock.                   *)
(***************************************************************************)
EXTENDS Statistics

CONSTANTS
  NUM_ALLOCS,   \* allocations of the speed test
  BATCH_SIZE,   \* allocations per batch of the jitter test
  NUM_BATCHES,  \* batches of the jitter test
  OBJECT_SIZE,  \* bytes per object
  Modulus,      \* 2^w for size_t
  Blocks,       \* the addresses malloc may return
  Durations,    \* what the clock may have measured for a batch
  Nil, Data     \* nullptr, a word that is no pointer

\* OBJECT_SIZE is 64, and no batch comes near the end of the address space.
ASSUME BenchmarkAssumption ==
  /\ {NUM_ALLOCS, BATCH_SIZE, NUM_BATCHES, OBJECT_SIZE} \subseteq Nat \ {0}
  /\ OBJECT_SIZE % 8 = 0 /\ Modulus \in Nat
  /\ \A size \in {NUM_ALLOCS, BATCH_SIZE} : OBJECT_SIZE * size + OBJECT_SIZE + 7 < Modulus
  /\ Nil \notin Blocks /\ Nil \notin Nat /\ Durations \subseteq Nat

TOTAL_ALLOCS == BATCH_SIZE * NUM_BATCHES

VARIABLES
  test,     \* the function being executed
  stage,    \* the allocator under test, or how far the test has got
  op,       \* "alloc" or "free", the loop being executed
  b, i,     \* the loops' counters
  ptrs,     \* the results of the current batch
  heap,     \* the blocks malloc has handed out and not got back
  window,   \* calls since the last start = now(), by kind
  times,    \* the window behind each recorded time
  word, free_list_, held,   \* the pool
  buffer_, offset_, live,   \* the arena
  ret,                      \* the last result of either
  report    \* of each allocator, its times in order and their statistics

driver == <<test, stage, op, b, i, ptrs, window, times>>
pool   == <<word, free_list_, held>>
arena  == <<buffer_, offset_, live>>
calls  == <<driver, heap, pool, arena, ret>>
vars   == <<calls, report>>

SpeedPool   == INSTANCE PoolAllocator WITH count <- NUM_ALLOCS
JitterPool  == INSTANCE PoolAllocator WITH count <- TOTAL_ALLOCS
SpeedArena  == INSTANCE ArenaAllocator WITH capacity_ <- OBJECT_SIZE * NUM_ALLOCS,
                                            Sizes <- {OBJECT_SIZE}
JitterArena == INSTANCE ArenaAllocator WITH capacity_ <- OBJECT_SIZE * BATCH_SIZE,
                                            Sizes <- {OBJECT_SIZE}

Speed      == test = "speed"
BatchSize  == IF Speed THEN NUM_ALLOCS ELSE BATCH_SIZE
Batches    == IF Speed THEN 1 ELSE NUM_BATCHES
FreesTimed == Speed

Loops      == {"alloc", "free"}
Idle       == [loop \in Loops |-> 0]
Allocators == {"malloc", "pool", "arena"}

\* The locals of a test.
Locals(size, batches) ==
  [ptrs  |-> [k \in 0 .. size - 1 |-> Nil],
   times |-> [a \in Allocators |-> [loop \in Loops |-> [k \in 0 .. batches - 1 |-> Idle]]]]

Init ==
  /\ test = "speed" /\ stage = "malloc" /\ op = "alloc" /\ b = 0 /\ i = 0
  /\ ptrs = Locals(NUM_ALLOCS, 1).ptrs
  /\ times = Locals(NUM_ALLOCS, 1).times
  /\ heap = {}
  /\ window = Idle
  /\ word = [s \in SpeedPool!Slots |-> Data] /\ free_list_ = Nil /\ held = {}
  /\ buffer_ = FALSE /\ offset_ = 0 /\ live = {}
  /\ ret = Nil
  /\ report = [a \in Allocators |-> Nil]

-----------------------------------------------------------------------------
\* One iteration of the current loop, whose call leaves the pointer p in
\* ptrs[i].
Iteration(kind, p) ==
  /\ ptrs' = [ptrs EXCEPT ![i] = p]
  /\ i' = i + 1
  /\ window' = [window EXCEPT ![kind] = @ + 1]
  /\ UNCHANGED <<test, stage, op, b, times>>

InLoop(a, kind) == stage = a /\ op = kind /\ i < BatchSize

Malloc ==
  /\ InLoop("malloc", "alloc")
  /\ \E p \in (Blocks \ heap) \cup {Nil} :
       /\ heap' = heap \cup ({p} \ {Nil})
       /\ Iteration("alloc", p)
  /\ UNCHANGED <<pool, arena, ret>>

Free ==
  /\ InLoop("malloc", "free")
  /\ ptrs[i] \in heap \cup {Nil}
  /\ heap' = heap \ {ptrs[i]}
  /\ Iteration("free", ptrs[i])
  /\ UNCHANGED <<pool, arena, ret>>

PoolAllocate ==
  /\ InLoop("pool", "alloc")
  /\ IF Speed THEN SpeedPool!allocate ELSE JitterPool!allocate
  /\ Iteration("alloc", ret')
  /\ UNCHANGED <<heap, arena>>

PoolDeallocate ==
  /\ InLoop("pool", "free")
  /\ IF Speed THEN SpeedPool!deallocate(ptrs[i]) ELSE JitterPool!deallocate(ptrs[i])
  /\ Iteration("free", ptrs[i])
  /\ UNCHANGED <<heap, arena>>

ArenaAllocate ==
  /\ InLoop("arena", "alloc")
  /\ IF Speed THEN SpeedArena!allocate(OBJECT_SIZE) ELSE JitterArena!allocate(OBJECT_SIZE)
  /\ Iteration("alloc", ret')
  /\ UNCHANGED <<heap, pool>>

\* reset() stands in for the whole free loop.
ArenaReset ==
  /\ InLoop("arena", "free")
  /\ IF Speed THEN SpeedArena!reset ELSE JitterArena!reset
  /\ i' = BatchSize
  /\ window' = [window EXCEPT !.free = @ + 1]
  /\ UNCHANGED <<test, stage, op, b, ptrs, times, heap, pool>>

-----------------------------------------------------------------------------
\* The time of the current loop in batch b is taken from now() - start.
Record(w) == times' = [times EXCEPT ![stage][op][b] = w]

StopClockLate ==
  /\ op = "alloc" /\ i = BatchSize
  /\ op' = "free" /\ i' = 0
  /\ UNCHANGED <<test, window, times, stage, b, ptrs, heap, pool, arena, ret>>

\* end = now() after the allocation loop.
StopClock ==
  /\ op = "alloc" /\ i = BatchSize
  /\ Record(window)
  /\ op' = "free" /\ i' = 0 /\ window' = Idle
  /\ UNCHANGED <<test, stage, b, ptrs, heap, pool, arena, ret>>

BatchOverEarly ==
  /\ op = "free" /\ i + 1 >= BatchSize
  /\ IF FreesTimed THEN Record(window) ELSE UNCHANGED times
  /\ op' = "alloc" /\ i' = 0 /\ window' = Idle
  /\ UNCHANGED <<test, ptrs, heap>>

\* The end of a batch's free loop, timed or not.
BatchOver ==
  /\ op = "free" /\ i = BatchSize
  /\ IF FreesTimed THEN Record(window) ELSE UNCHANGED times
  /\ op' = "alloc" /\ i' = 0 /\ window' = Idle
  /\ UNCHANGED <<test, ptrs, heap>>

NextBatch ==
  /\ BatchOver
  /\ b + 1 < Batches
  /\ b' = b + 1
  /\ UNCHANGED <<stage, pool, arena, ret>>

\* The pool's constructor writes through the result of malloc unchecked.
StartPool ==
  /\ stage = "malloc" /\ b + 1 = Batches
  /\ BatchOver
  /\ b' = 0
  /\ \/ stage' = "pool" /\ IF Speed THEN SpeedPool!Construct ELSE JitterPool!Construct
     \/ stage' = "crashed" /\ UNCHANGED <<word, free_list_>>
  /\ UNCHANGED <<held, arena, ret>>

\* The arena's constructor does not touch its buffer.
StartArena ==
  /\ stage = "pool" /\ b + 1 = Batches
  /\ BatchOver
  /\ b' = 0
  /\ stage' = "arena" /\ IF Speed THEN SpeedArena!Construct ELSE JitterArena!Construct
  /\ UNCHANGED <<live, pool, ret>>

Finish ==
  /\ stage = "arena" /\ b + 1 = Batches
  /\ BatchOver
  /\ b' = 0
  /\ stage' = "over"
  /\ UNCHANGED <<pool, arena, ret>>

\* The jitter test follows, with locals of its own.
NextTest ==
  /\ stage = "over" /\ Speed
  /\ test' = "jitter" /\ stage' = "malloc"
  /\ ptrs' = Locals(BATCH_SIZE, NUM_BATCHES).ptrs
  /\ times' = Locals(BATCH_SIZE, NUM_BATCHES).times
  /\ UNCHANGED <<op, b, i, heap, window, pool, arena, ret>>

\* compute_stats of malloc_times, pool_times and arena_times.
Report ==
  /\ stage = "over" /\ ~ Speed
  /\ \E s \in [Allocators -> Ascending(NUM_BATCHES, Durations)] :
       report' = [a \in Allocators |-> [samples |-> s[a],
                                       stats   |-> compute_stats(s[a], NUM_BATCHES)]]
  /\ stage' = "reported"
  /\ UNCHANGED <<test, op, b, i, ptrs, window, times, heap, pool, arena, ret>>

Ended == stage \in {"reported", "crashed"} /\ UNCHANGED vars

Calls ==
  \/ Malloc \/ Free
  \/ PoolAllocate \/ PoolDeallocate
  \/ ArenaAllocate \/ ArenaReset
  \/ StopClock \/ NextBatch
  \/ StartPool \/ StartArena \/ Finish \/ NextTest

Next == (Calls /\ UNCHANGED report) \/ Report \/ Ended

Spec == Init /\ [][Next]_vars

-----------------------------------------------------------------------------
Filled(a) == stage = a /\ op = "free" /\ i = 0

(***************************************************************************)
(* All the batches of the pool reuse the objects of the first one, in the  *)
(* opposite order of the batch before: the rest of a pool of TOTAL_ALLOCS  *)
(* objects is never touched, and none of exactly as many objects as the    *)
(* speed test allocates is refused, so that deallocate() is never given    *)
(* nullptr (allocators.h:136-149, 234-246).                                *)
(***************************************************************************)
BatchesReuseObjects ==
  Filled("pool") => \A k \in DOMAIN ptrs :
                      ptrs[k] = IF b % 2 = 0 THEN k ELSE BatchSize - 1 - k

\* The results of this batch that are yet to be given back.
Outstanding == IF op = "alloc" THEN 0 .. i - 1 ELSE i .. BatchSize - 1

(***************************************************************************)
(* Every object that malloc or the pool hands out is given back once,      *)
(* while its allocator is still under test: at each step of both loops     *)
(* what is held is what ptrs still has to give back, with no pointer in it *)
(* twice and, from the pool, no nullptr.  deallocate() checks none of this *)
(* (allocators.h:66-69), its callers must (allocators.h:128-149, 220-246). *)
(***************************************************************************)
EachReturnedOnce ==
  LET blocks == {k \in Outstanding : ptrs[k] # Nil}
  IN /\ heap = IF stage = "malloc" THEN {ptrs[k] : k \in blocks} ELSE {}
     /\ held = IF stage = "pool" THEN {ptrs[k] : k \in Outstanding} ELSE {}
     /\ stage \in {"malloc", "pool"} =>
          \A j, k \in blocks : ptrs[j] = ptrs[k] => j = k

(***************************************************************************)
(* An arena sized for one batch serves every batch to its last object, and *)
(* serves it the same addresses (allocators.h:154-165, 249-259).           *)
(***************************************************************************)
ArenaServesEveryBatch ==
  Filled("arena") /\ buffer_ => \A k \in DOMAIN ptrs : ptrs[k] = k * OBJECT_SIZE

(***************************************************************************)
(* At the end of a test each recorded allocation time is that of exactly   *)
(* one batch of calls that allocate and of none that frees, and each       *)
(* recorded time of a free loop is that of the calls that free alone.      *)
(***************************************************************************)
TimesArePure ==
  stage = "over" =>
    \A a \in Allocators, k \in 0 .. Batches - 1 :
      /\ times[a]["alloc"][k] = [alloc |-> BatchSize, free |-> 0]
      /\ FreesTimed => times[a]["free"][k]
                         = [alloc |-> 0, free |-> IF a = "arena" THEN 1 ELSE BatchSize]

(***************************************************************************)
(* The median, the 99th percentile and the maximum the jitter table prints *)
(* are what these words mean, so that the jitter, the maximum less the     *)
(* median, is no less than zero (allocators.h:262-280,                     *)
(* benchmark_utils.h:70-80).                                               *)
(***************************************************************************)
ReportIsRight ==
  \A a \in Allocators :
    report[a] # Nil => AreStatistics(report[a].stats, report[a].samples, NUM_BATCHES)
=============================================================================
