# TLA+ models of the hardware-aware benchmark suite

This directory models the suite in `../src`: a command line program in C++ that
times memory allocators, caches, TLBs, NUMA nodes, branches, layouts and
prefetches. A benchmark that is subtly wrong still prints a plausible number, so
most of what is stated here is about that: that the clock covers exactly the
work it is divided by, that the work is the work the label names, that two
times that are compared differ only in the thing under test, and that the data
structures underneath (a free list inside live objects, a bump allocator, a
one-cycle permutation) are what the loops take them to be.

Run a model with `tlc -config X.cfg M`, check a proof with `tlapm M.tla`.

## 1. Inventory

`main.cpp` pins itself to core 0 and calls the benchmarks one after the other
in one thread. They share that thread's affinity mask and the address space of
the process, nothing else. Each is a class with a static `run()`; all use
`benchmark_utils.h`.

| component | source | state | operations | hard part | what makes it correct | module |
|---|---|---|---|---|---|---|
| PoolAllocator | `allocators.h:40-75` | block, `free_list_` | constructor, `allocate`, `deallocate` | links live in memory the client also writes | chain = free objects, no double grant, refusal only when full, for a client that returns what it holds and nothing else | `PoolAllocator` |
| ArenaAllocator | `allocators.h:78-103` | `buffer_`, `offset_`, `capacity_` | constructor, `allocate`, `reset` | rounding, exact fit, unchecked malloc | blocks disjoint, aligned, inside | `ArenaAllocator` |
| allocator tests | `allocators.h:109-284` | `ptrs`, clocks, both allocators | batches of allocations and frees | results never looked at, exactly sized allocators | every batch served, every object returned once, pure windows | `AllocatorBenchmark` |
| statistics | `benchmark_utils.h:61-79` | sorted samples | `compute_stats` | index arithmetic | median and percentile are what the words mean | `Statistics` |
| false sharing | `cache_lines.h:48-129`, `benchmark_utils.h:85-90`, `main.cpp:44-47` | two counters, two threads, masks | create, pin, increment, join | interleavings, pins that fail, CPU numbering | clock covers work, no interference when padded, separate caches | `FalseSharing` |
| cache hierarchy | `cache_lines.h:140-213` | `chain`, `idx` | Sattolo shuffle, warm-up, chase | an off-by-one in the shuffle gives short cycles and plausible numbers | one cycle | `PointerChase` |
| sequential vs random | `cache_lines.h:219-262` | a constant vector, drawn indices | two loops | the wrap of the index; which loop meets a page first | an even sweep, as many reads in both | `SequentialRandom` |
| TLB and huge pages | `tlb_huge_pages.h` | two buffers in turn | map, touch, read, unmap | either mapping may fail, shared pool of huge pages | every exit unmaps, no fault timed, same reads | `TlbBenchmark` |
| page helpers | `benchmark_utils.h:96-114` | none | mmap, munmap | failure | | `Pages` |
| NUMA | `numa_topology.h` | node count, one buffer at a time | detect, map, bind, touch, read, unmap | partial failure, node numbering | rows name the node they measure, no leak | `NumaBenchmark` |
| branch prediction | `branch_prediction.h` | values, sums | sort, four loops | an in-place sort between loops, four copies of a threshold | same work in all loops, sorted is predictable | `BranchBenchmark` |
| access patterns | `access_patterns.h` | AoS, SoA | two tests, two layouts, several sizes | layout against cache lines | lines loaded per entry | `AccessPatterns` |
| linked list | `prefetching.h:51-147` | ring, three walks | link, walk, prefetch | the k-ahead bookkeeping | one ring, same walks, prefetches used | `LinkedList` |
| strided access | `prefetching.h:156-207` | index | two loops per stride | modular index | same elements in both loops | `StridedAccess` |
| suite | `main.cpp` | the argument | dispatch on one string, in order | whatever one benchmark leaves behind | runs what was asked, nothing stays mapped | `Suite` |
| clock, barriers, formatting, build | `benchmark_utils.h`, `CMakeLists.txt` | none | | library and compiler | | none |

Concurrency exists in one place, the false sharing test; processes outside the
program matter in one, the pool of huge pages. Nothing is persisted and there
are no messages, timeouts or retries. The rest of the hazards are orders of
calls, boundaries and partial failures; `PROJECT.json` lists them by line with
the properties that would catch them.

## 2. Modules

```
ObjectPool <-refined by- PoolAllocator <-+
                         ArenaAllocator <+- AllocatorBenchmark -> Statistics

FalseSharing      PointerChase

Pages <- TlbBenchmark, NumaBenchmark <---------------------+
Layout <- AccessPatterns, LinkedList <---------------------+- Suite
SequentialRandom, BranchBenchmark, StridedAccess <---------+
```

`MC*` modules give values to constants, `*Proofs` modules hold theorems. A
definition whose name extends another's and that stands just before it
(`PopStuck`, `RoundedDown`, `JoinFirstOnly`) is a faulty variant that no
specification uses: putting it in place of the definition shows that the
properties notice.

**PoolAllocator.** The first word of each slot is a function `word`; it is the link
of a free slot and client data in a held one. The client may overwrite the word of a
slot it holds with anything, including values that look like links (`Store`), and
gives back only what it holds, which the class does not check: whether its client in
this program keeps to that is `EachReturnedOnce` of `AllocatorBenchmark`.
`FreeSlots` is read off memory: the slots reachable from `free_list_`.
`ImplementsObjectPool` is the refinement, with `avail <- FreeSlots`: a pool is a set
of objects from which one moves to the client when granted and back when returned,
and a request is refused when that set is empty.

**ArenaAllocator.** Addresses are offsets from `buffer_`; arithmetic is modulo
`Modulus`. `buffer_ = FALSE` is the malloc that failed unnoticed: the first
result is then null and the following ones are null plus an offset.

**AllocatorBenchmark.** `run()`, both tests in sequence, built from instances of
the two allocators with the sizes the tests give them. A step is an iteration of
a loop. `Outstanding` are the results the current batch has yet to give back.
`window` counts the calls since the clock started and `times` keeps the
window behind each recorded time. malloc returns any free block or null. When
the jitter test is over, `Report` is `compute_stats` of each allocator: the clock
may have measured any durations, so the samples are any ascending ones. The
destructors and the printing are left out.

**Statistics.** `compute_stats` by position in the sorted samples. The index of the
99th percentile, `n * 0.99` in doubles rounded down, is `99 * n \div 100` for every n
a process can hold. The mean, which nobody prints, is left out.

**PointerChase.** One row of the cache hierarchy table. `rng() % i` is any number
below `i`. `warmed` and `visited` record what the two loops loaded.

**FalseSharing.** The main thread is a program counter `pc`, each worker a state.
The environment is a machine: online CPUs, CPUs the process may use, the L1 cache of
each CPU, and which of the two existing implementations of `hardware_concurrency()`
the library has. The process starts with any nonempty part of the CPUs it may use as
its mask, which is what `taskset` of the repository's README leaves it. Threads
inherit their creator's mask and run on any CPU of it. A line remembers which thread
wrote it and in which cache; `stolen` records the tests in which a write found its
line in the other thread's cache. Either thread creation may throw, which ends the
process; `Termination` takes that for an end, since the code promises nothing else.
`SeparateCaches` is an equivalence. With CPU 0 allowed, the two threads count in
different caches exactly where the library counts online CPUs, the second core is
allowed, and it has another cache than CPU 0. A changed choice of core breaks it
where the caches should be separate; a library that counts the mask, a refused pin
and siblings with other numbers are on the other side of it. The packed counters are
taken to share a line: the language only promises 8-byte alignment, compilers align
a 16-byte local object to 16.

**Pages, TlbBenchmark.** `Pages` is mmap and munmap with failure and a pool of
huge pages other processes take from at any time. `TlbBenchmark` is `run()`: an
early return is a step to `returned`; a read records whether its page was
present. Each of the two calls of `free_pages` is an action of its own.

**NumaBenchmark.** `Counted` is what `detect_numa_nodes()` makes of the kernel's
list of online nodes: the parser is modelled by what it takes from the list, the end
of the first range that has a dash. mbind accepts a mask with a usable node if the
process may call it, and may fail for any mask, when the kernel has no memory; a
node left out for want of memory is in `skipped`. Pages appear on a node of the
policy at the first touch. The reads of one buffer, its printed row and the munmap
are one step.

**Layout.** Offsets and sizes of structs from the sizes of their members, and the
cache lines of an object.

**LinkedList.** Linking in any order, and three walks. `fetched` and `loaded` keep
what each step of the current timed walk prefetched and loaded. A node need not
start at a line (`nodes_at`): a prefetch brings in one line, and
`PrefetchesAreUsed` also asks that this is the line the later read needs.

**AccessPatterns.** Both tests, both layouts and every row as the set of cache
lines each loop has loaded, for each place `operator new` may put the arrays.
Bound: the eight arrays of one `SoABook` start at the same offset in their lines.
The sums, which nobody reads, are left out.

**BranchBenchmark.** The four loops, each with its own copy of the threshold, over any
drawn values with their sums, the
number of elements on the hot path and the number of times the branch changes
direction. `std::sort` yields the ascending arrangement of the same values; the
second test seeds its own generator and so draws the first one's values again. A
sum stays far below 2^64, so it is a natural number.

**SequentialRandom, StridedAccess.** The elements each loop reads and prefetches.

**Suite.** `main()`: `which` is the argument, `at` counts the parts dealt with,
`Call` enters a part and `Back` leaves it. Every benchmark module runs from `pc =
"begin"` to `pc = "over"`, with `Return` resetting the local variables of `run()`,
so that in `Suite` they share `pc`, the loop counters `i` and `iter`, and the
mappings of `Pages`, and each step of a part is a step of its own module.
`LocalsKept` says that one part leaves the locals of the others alone: they do not
exist then. Other processes move at any time. `Parts` lists the functions `main()`
comes to, those of a benchmark with several tests each by itself. The false sharing
test with the cache hierarchy and the allocators map nothing, and have modules of
their own with threads and data that would multiply the states: each is the one step
`Elsewhere`, or `Terminate`, because they can end the process (a thread that cannot
be created, a malloc that is not checked).

## 3. Runs

| run | instance | shows |
|---|---|---|
| `pool` | 4 slots | types, exact chain, no double grant, refinement of `ObjectPool` |
| `arena` | 32 bytes, sizes 0 1 8 9 20 32 33, 7-bit words | blocks disjoint, aligned, at most 7 bytes lost each |
| `alloc` | speed: 4; jitter: 3 batches of 3; 4 malloc blocks; durations 0 and 1 | the pool's batches reuse the first one's objects in alternating order, the arena serves every batch, every object is returned once, windows are pure, the statistics are right |
| `chase` | n = 6, warm-up 3, 9 loads | one cycle, no early revisit, warm start |
| `sharing` | 9 machines, every initial mask, 3 increments | clock covers work, padded lines never stolen, separate caches on exactly the machines `SeparateCaches` names, termination |
| `sharing_cores` | two numberings of 4 CPUs | **violated**: "different physical cores" (`cache_lines.h:104`) |
| `sharing_pinned` | 4 CPUs online, 2 allowed | **violated**: "Thread B pinned to core %d" (`cache_lines.h:103`) |
| `suite` | every argument, see below | the suite ends having run what was asked; nothing stays mapped between its parts; and the properties of every part: no fault timed, like compared with like (TLB); rows name their node, every node measured (NUMA); same work, sorted is predictable, the masked sum bounds the branchy one (branches); a line per element, one fetch per entry (access patterns); an even sweep; one ring, same walks, prefetches used (list); same reads, small circles (strides) |
| `numa_count` | nodes 0 and 2 | **violated**: "Check how many NUMA nodes exist" (`numa_topology.h:59`) |
| `branch_result` | 3 values of 0 127 128 255 | **violated**: "produces the same result" (`branch_prediction.h:115`) |
| `access_line` | 4 entries | **violated**: "all data for one element is in the same cache line" (`access_patterns.h:151`) |
| `list_time` | 4 nodes in 24 orders, 6 steps | **violated**: "2-ahead gives more time" (`prefetching.h:146`) |

**Why the bounds are enough.** Four slots give a chain with a first, a last and
two middle slots, which can be returned in any order while a fourth is held. The
arena's sizes lie on both sides of an alignment boundary and of the capacity, and
32 bytes hold up to four blocks. Three batches are two reversals of the pool's
chain and two resets. Six elements allow every split into cycles; 9 loads go round
more than once, and 3 warm-up loads less than once. In `sharing` both threads
overlap in all orders and each machine differs from the others in one thing the
code depends on: two or four CPUs, or one; siblings next to each other, far apart or
absent; a CPU that is offline or not allowed, CPU 0 among the latter; a library that
counts the mask.

In `suite`: of three huge pages a buffer needs two, so other processes can leave
enough for it or not; two pages and three reads repeat a page, in the warm-up
and out of it. The node sets contain numberings with and without holes and
five nodes, one more than the loop's limit of four, and the process may be kept
off node 0. Three values from the boundary 128 and the extremes give every
order of the two paths, with equal elements among them, and two passes meet the
jump from the end back to the beginning. One, two and nine elements are one, two
and more than two SoA lines of 4-byte fields, at each place `operator new` may
choose. Five sequential reads wrap round four elements. Strides 1 and 2 over
four elements go round once and a half and three times. Six steps of a list of
four go round once and a half, and its warm-ups stop inside.

**Fairness.** `FalseSharing`: the main thread and each worker are weakly fair, because
the kernel runs every runnable thread in time even when both share a CPU.
`Suite`: the one thread is weakly fair for the same reason; nothing in it waits, and
other processes need not ever move. The other modules state none: TLC's deadlock
check, with an explicit stuttering step in the final states only, shows that
none of them stops half way.

**Disagreements between code and documentation.** The six violated runs are such.
In short: the core numbering the code assumes is one of two common ones, and
the banner claims the result unconditionally; the result of pinning is ignored
and printed as a fact; a list of nodes with a hole is miscounted; reading the
address for the 2-ahead prefetch loads the very node the previous step
prefetched; the cold path exclusive-ors a value into the sum where the
branchless kernel adds it; and an `AoSEntry` is aligned to half a cache line, so
the array may have every entry on two lines. Three more have no run:
`README.md:103` of the repository calls the jitter test a distribution of
individual allocations, while the code (and its own comment) averages batches of
100; the "4 KB pages" of `README.md:49` may be 2 MB pages where transparent huge
pages are always on; and the "52 bytes" of `access_patterns.h:44` are 48 bytes of
fields, which end at byte 60 of the 64.

## 4. Proofs

The theorems hold for every value of the constants that satisfies the named
assumptions.

- `PoolAllocatorProofs` (any `count > 0`): `TypeCorrect`, `ExactChain`, `EndingChain`,
  `NeverGrantedTwice`, `RefusedOnlyWhenFull` and the refinement
  `PoolImplementsObjectPool`. That the chain is exact is not inductive on reachable
  sets, so the invariant names the chain: for some `n` there is an injective sequence of
  `n` slots that starts at `free_list_`, follows the links, ends in null, and consists
  of exactly the slots nobody holds. Popping drops its first element, giving back adds
  one in front. Reachability is then derived from the sequence, once.
- `ArenaAllocatorProofs` (any capacity, any sizes that do not wrap): `TypeCorrect`,
  `Apart`, `Aligned`, `NothingLost`. The invariant adds that the cursor is a multiple of
  8 and that all live blocks end at or below it.
- `PointerChaseProofs` (any `n > 0`, any outcome of the generator): `TypeCorrect`,
  `SattoloIsOneCycle`, `NoEarlyRevisit`. The invariant talks about closed sets, sets no
  load leaves: while the shuffle is at `i`, every nonempty closed set has an element up
  to `i`, and a closed set separates any two elements up to `i`. One swap merges two
  cycles; the proof rests on the pigeonhole principle (an injective map that does not
  leave a finite set does not enter it). At `i = 0` every nonempty closed set contains
  element 0, and so does its complement unless it is empty. That the timed walk repeats
  nothing early follows: the path it took is closed when it comes back.
- `FalseSharingProofs` (any machines whose kernel lets the process run on some online
  CPU, any number of iterations): `ClockIsRight`, `PaddingSuffices`, `TypeCorrect` and
  `CachesAreSeparate`. The first from which workers exist at each point of the main
  thread and that a finished or joined worker has counted to the end; the second from
  each padded line having been written by its own thread only; the third from every mask
  being a nonempty set of allowed CPUs; the last, the equivalence `SeparateCaches`, from
  the masks a worker that counts has been left with by its pin: its core where the pin
  was allowed, what it inherited from main where not.
- `AllocatorBenchmarkProofs` (any batch sizes and counts, any samples):
  `TimesCoverTheirLoops`, whose invariant fits the window to the loop counter at each
  stage and keeps the times already recorded; `StatisticsAreRight`, about
  `compute_stats` alone, from the positions of the median and the percentile and the
  number of positions on either side; and `JitterIsWhatItSays`, which follows.
  `ArenaIsNeverShort`: while a batch allocates, the arena's cursor is the loop counter
  times the object size. `BatchesReuseThePool`: while a batch allocates, the chain leads
  through the objects it has yet to take, then to the first that no batch takes; while
  it frees, through those it has given back, the last one first; the order is the one of
  the constructor in even batches and the reverse in odd ones. `EverythingGoesBackOnce`:
  what malloc or the pool has handed out are the results still outstanding, each once;
  an allocation adds a block nobody held, a call that frees takes away the one it is
  given, and a batch ends with nothing held.
- `SuiteProofs` (any argument, machines, sizes and pool). `EveryBufferReturned`: the
  invariant says what the TLB and the NUMA part hold at each of their steps and that
  nothing is mapped at any other time. One lemma covers the steps of `main()` and of the
  parts that map nothing, one each the two parts that do, and one the other processes,
  which never take more huge pages than there are. `BothBuffersReturned`,
  `FaultsAreNotTimed` and `PenaltyIsFair` are about `TlbBenchmark` alone: from what is
  mapped at each step, and from a window being the first `i` indices with every page
  present, once it has been touched. `SuiteTimesNoFault` and `SuitePenaltyIsFair` carry
  them over to the benchmark in the suite. `RowsAreOfTheirNode` and
  `WholeMachinesAreMeasured`, about the NUMA part: between `mbind` and the printed row
  the policy, then the placement, is the loop's node; and on a machine without holes the
  nodes below the loop's counter are those with a row or skipped, because there no mask
  is without a usable node.
- `PrefetchProofs` (any length, strides, order of the nodes and numbers of reads).
  `TypeCorrect`, `BothLoopsReadTheSame` and `StridesGoRoundCircles` are about
  `StridedAccess` alone, `SuiteReadsTheSame` and `SuiteGoesRoundCircles` about the same
  in the suite. A walk is a path that starts at 0 and adds the stride modulo the length;
  the second equals the first as far as it has come, and each hint is the step after its
  read. For a stride that divides the length the element read at `k` is `(k - 1) %
  (length / stride)` strides from 0. `SweepsAreEven`: the `k`-th sequential read is of
  element `(k - 1) % Length`, so each read of an element but the first is mapped to an
  earlier one of any other, in the same round or the one before, and no two to the same.
  `LinksAreOneRing`: the nodes linked so far follow the drawn order, so a closed set
  that contains one node contains all after it, the first one, and so all.
  `WalksAreTheSame`: two walks round one ring from one node agree at every step, by
  induction. `NoPrefetchIsWasted`: what a step prefetches is one link or two from the
  node it processes, and the fields a step reads lie in the node's first line wherever
  the node starts.
- `PatternProofs` (any values, lengths, passes and places of the arrays).
  `TwoFieldsCostALine` and `EntriesFetchOnce`: the layout of an entry is computed from
  the sizes of its members, a field lies in one line, and the lines seen so far are
  those of the elements before the counter; entries a line long overlap in one line at
  most, and the dense arrays of SoA lie in the lines of their bytes and their ends.
  `LoopsDoTheSameWork`: each loop's hot count is the number of high values before the
  counter plus one full number per pass, whichever copy of the threshold it uses, and
  the permutation that sorts is a bijection between the high positions before and after.
  `SortedPassesSwitchTwice`: in ascending data the branch turns upwards once in a pass
  and back at its beginning. `MaskIsAnUpperBound`: the masked sum is made of partial
  sums of the values, the branchy one stays below it and equals it while all were hot;
  `XorBound`, that an exclusive or with eight bits never exceeds the sum, goes bit by
  bit. The partial sums are any function that satisfies their recurrence, and there is
  one. `SuiteTypeCorrect`: the types of `main()` and of all parts. `NothingElseIsRun`:
  when `main()` returns it has run exactly the parts asked for, in its order, which is
  the safety half of `RunsWhatWasAsked`.

The theorems about a benchmark in the suite share one argument. A part finds its locals
and the shared counter as its `Init` wants them, since every part leaves them so
(`CounterInv` and `TlbPart`, `NumaPart`, `StridedPart`, `SweepPart`, `ListPart`, `AccessPart`,
`BranchPart`); a step of the suite inside the part is a step of its module or leaves its
variables alone (`PartStep`); so the module's own invariant holds inside the part.

Induction over the natural numbers is taken for one set of them at a time (`Induction`),
from the least element of its complement, which the library's well-foundedness of `<`
gives: the library's own induction theorem has a predicate as a parameter, which the
provers cannot instantiate.

`TlbAssumption` and `StridesAssumption` are hypotheses of the theorems about their
modules; `SuiteAssumption` asserts both and those of the other parts, and TLC
evaluates it in the run of `Suite`. `SuitePenaltyIsFair` and `PenaltyIsFair` also
suppose that `Null`, which stands for the absence of a value, is no list of reads,
and the two NUMA theorems that it is no set of one number. `BenchmarkAssumption`
says that objects are a multiple of 8 bytes and that a batch does not come near the
end of the address space.

Each property proved above is checked by a run, except `EndingChain`,
`RefusedOnlyWhenFull`, `StatisticsAreRight` and `NothingElseIsRun`, which state facts no run
lists. Only model-checked: `Termination` and `RunsWhatWasAsked`, because liveness under
fairness is outside what the prover does here. The properties of the violated runs
are false and have no theorem.

## 5. Not modelled, and the plan

Clock, barriers, formatting and the build are library or compiler matters; the
time values themselves, caches other than the line of a counter, and the TLB are
the hardware the program measures, not the program. Inside modelled parts: the
mean of `compute_stats`, the sums of the access patterns, the labels of the rows, the
destructors of the allocators, the estimates printed without huge pages.
`Suite` takes the false sharing test with the cache hierarchy, and the allocators,
as one step each.

Every part of the program with logic of its own is modelled, and every safety property
of a passing run has a theorem. What would come next:

1. `PoolAllocator` and `ArenaAllocator` inside `AllocatorBenchmark` as a refinement: that
   the benchmark's calls are runs of the modules' own specifications, so that
   `ExactChain` and `Apart` carry over instead of being restated for a batch.
2. The false sharing test, the hierarchy and the allocators inside `Suite` step by
   step instead of as one step each, for the proofs only.
3. An abstract specification of a comparison (two loops, one body, one difference) that
   the strided, list, branch and TLB parts refine.
