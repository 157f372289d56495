---------------------- MODULE AllocatorBenchmarkProofs ----------------------
(***************************************************************************)
(* What the tables of the allocator benchmark rest on, for every number    *)
(* and size of the batches: the order statistics are what their names say, *)
(* and each recorded time is that of the calls of one loop of one batch.   *)
(***************************************************************************)
EXTENDS AllocatorBenchmark, FiniteSetTheorems, TLAPS

\* Of n ascending samples, no more lie above that at d than come after it,
\* and no more below it than come before.
LEMMA AroundPosition ==
  ASSUME NEW n \in Nat \ {0}, NEW S \in SUBSET Nat, NEW s \in Ascending(n, S),
         NEW d \in 0 .. n - 1
  PROVE  /\ Cardinality(Above(s, n, s[d])) \in 0 .. n - 1 - d
         /\ Cardinality(Below(s, n, s[d])) \in 0 .. d
<1>1. \A k \in 0 .. n - 1 : s[k] \in Nat
      BY DEF Ascending
<1>2. \A a, c \in 0 .. n - 1 : a <= c => s[a] <= s[c]
      BY DEF Ascending
<1>3. Above(s, n, s[d]) \subseteq d + 1 .. n - 1
  <2>1. ASSUME NEW k \in 0 .. n - 1, s[k] > s[d] PROVE k > d
        BY <1>1, <1>2, <2>1
  <2> QED
      BY <2>1 DEF Above
<1>4. Below(s, n, s[d]) \subseteq 0 .. d - 1
  <2>1. ASSUME NEW k \in 0 .. n - 1, s[k] < s[d] PROVE k < d
        BY <1>1, <1>2, <2>1
  <2> QED
      BY <2>1 DEF Below
<1>0. d + 1 \in Int /\ n - 1 \in Int /\ 0 \in Int /\ d - 1 \in Int /\ d >= 0 /\ d <= n - 1
      OBVIOUS
<1>5. IsFiniteSet(d + 1 .. n - 1) /\ Cardinality(d + 1 .. n - 1) = n - 1 - d
  <2>1. Cardinality(d + 1 .. n - 1) = IF d + 1 > n - 1 THEN 0 ELSE n - 1 - (d + 1) + 1
        BY <1>0, FS_Interval
  <2> QED
      BY <1>0, <2>1, FS_Interval
<1>6. IsFiniteSet(0 .. d - 1) /\ Cardinality(0 .. d - 1) = d
  <2>1. Cardinality(0 .. d - 1) = IF 0 > d - 1 THEN 0 ELSE d - 1 - 0 + 1
        BY <1>0, FS_Interval
  <2> QED
      BY <1>0, <2>1, FS_Interval
<1>7. /\ IsFiniteSet(Above(s, n, s[d]))
      /\ Cardinality(Above(s, n, s[d])) <= n - 1 - d
      BY <1>3, <1>5, FS_Subset
<1>8. /\ IsFiniteSet(Below(s, n, s[d]))
      /\ Cardinality(Below(s, n, s[d])) <= d
      BY <1>4, <1>6, FS_Subset
<1> QED
    BY <1>7, <1>8, FS_CardinalityType

LEMMA Positions ==
  ASSUME NEW n \in Nat \ {0}
  PROVE  /\ n \div 2 \in 0 .. n - 1
         /\ P99Index(n) \in 0 .. n - 1
         /\ n \div 2 <= P99Index(n)
         /\ 2 * (n \div 2) <= n /\ 2 * (n - 1 - n \div 2) <= n
         /\ 100 * P99Index(n) <= 99 * n /\ 100 * (n - 1 - P99Index(n)) < n
BY DEF P99Index

\* compute_stats (benchmark_utils.h:69-79) is right about any samples in order, and
\* none of its indices leaves the vector.
THEOREM StatisticsAreRight ==
  ASSUME NEW n \in Nat \ {0}, NEW S \in SUBSET Nat, NEW s \in Ascending(n, S)
  PROVE  AreStatistics(compute_stats(s, n), s, n)
<1> DEFINE m == n \div 2
           d == P99Index(n)
<1>1. /\ m \in 0 .. n - 1 /\ d \in 0 .. n - 1 /\ m <= d
      /\ 2 * m <= n /\ 2 * (n - 1 - m) <= n
      /\ 100 * d <= 99 * n /\ 100 * (n - 1 - d) < n
      BY Positions
<1>2. /\ compute_stats(s, n).min = s[0] /\ compute_stats(s, n).max = s[n - 1]
      /\ compute_stats(s, n).median = s[m] /\ compute_stats(s, n).p99 = s[d]
      BY DEF compute_stats
<1> HIDE DEF m, d
<1>3. s[0] <= s[m] /\ s[m] <= s[d] /\ s[d] <= s[n - 1]
      BY <1>1 DEF Ascending
<1>4. /\ Cardinality(Above(s, n, s[m])) \in 0 .. n - 1 - m
      /\ Cardinality(Below(s, n, s[m])) \in 0 .. m
      BY <1>1, AroundPosition
<1>5. /\ Cardinality(Above(s, n, s[d])) \in 0 .. n - 1 - d
      /\ Cardinality(Below(s, n, s[d])) \in 0 .. d
      BY <1>1, AroundPosition
<1>6. /\ 2 * Cardinality(Above(s, n, s[m])) <= n
      /\ 2 * Cardinality(Below(s, n, s[m])) <= n
      BY <1>1, <1>4
<1>7. /\ 100 * Cardinality(Above(s, n, s[d])) < n
      /\ 100 * Cardinality(Below(s, n, s[d])) <= 99 * n
      BY <1>1, <1>5
<1> QED
    BY <1>2, <1>3, <1>6, <1>7 DEF AreStatistics

\* The jitter table prints what its headings say, whatever was measured.
THEOREM JitterIsWhatItSays == Spec => []ReportIsRight
<1>1. Init => ReportIsRight
      BY DEF Init, ReportIsRight
<1>2. ReportIsRight /\ [Next]_vars => ReportIsRight'
  <2> SUFFICES ASSUME ReportIsRight, [Next]_vars PROVE ReportIsRight'
      OBVIOUS
  <2>1. CASE report' = report
        BY <2>1 DEF ReportIsRight
  <2>2. CASE Report
    <3>1. PICK s \in [Allocators -> Ascending(NUM_BATCHES, Durations)] :
            report' = [a \in Allocators |-> [samples |-> s[a],
                         stats |-> compute_stats(s[a], NUM_BATCHES)]]
          BY <2>2 DEF Report
    <3>2. ASSUME NEW a \in Allocators
          PROVE  AreStatistics(report'[a].stats, report'[a].samples, NUM_BATCHES)
      <4>1. /\ report'[a].samples = s[a]
            /\ report'[a].stats = compute_stats(s[a], NUM_BATCHES)
            BY <3>1
      <4>2. s[a] \in Ascending(NUM_BATCHES, Durations)
            OBVIOUS
      <4>3. AreStatistics(compute_stats(s[a], NUM_BATCHES), s[a], NUM_BATCHES)
            BY <4>2, StatisticsAreRight, BenchmarkAssumption
      <4> QED
          BY <4>1, <4>3
    <3> QED
        BY <3>2 DEF ReportIsRight
  <2> QED
      BY <2>1, <2>2 DEF Next, Ended, vars
<1> QED
    BY <1>1, <1>2, PTL DEF Spec
-----------------------------------------------------------------------------
\* The stages after that of an allocator.
After == [malloc |-> {"pool", "arena", "over"}, pool |-> {"arena", "over"}, arena |-> {"over"}]

Stages == Allocators \cup {"over", "reported", "crashed"}

Shape ==
  /\ test \in {"speed", "jitter"} /\ stage \in Stages /\ op \in Loops
  /\ b \in 0 .. Batches - 1 /\ i \in 0 .. BatchSize
  /\ times \in [Allocators -> [Loops -> [0 .. Batches - 1 -> [Loops -> Nat]]]]
  /\ stage \notin Allocators => op = "alloc" /\ b = 0 /\ i = 0
  /\ stage = "arena" /\ op = "free" => i \in {0, BatchSize}

\* The window holds the iterations of the current loop and no other call.
WindowFits ==
  window = IF op = "alloc" THEN [alloc |-> i, free |-> 0]
           ELSE [alloc |-> 0, free |-> IF stage = "arena" THEN (IF i = 0 THEN 0 ELSE 1) ELSE i]

\* A loop that is over has been recorded.
RecordedAllocs ==
  \A a \in Allocators, k \in 0 .. Batches - 1 :
    stage \in After[a] \/ (stage = a /\ (k < b \/ (k = b /\ op = "free"))) =>
      times[a]["alloc"][k] = [alloc |-> BatchSize, free |-> 0]

RecordedFrees ==
  FreesTimed =>
    \A a \in Allocators, k \in 0 .. Batches - 1 :
      stage \in After[a] \/ (stage = a /\ k < b) =>
        times[a]["free"][k] = [alloc |-> 0, free |-> IF a = "arena" THEN 1 ELSE BatchSize]

TimesInv == Shape /\ WindowFits /\ RecordedAllocs /\ RecordedFrees

LEMMA LoopBounds == BatchSize \in Nat \ {0} /\ Batches \in Nat \ {0}
BY BenchmarkAssumption DEF BatchSize, Batches

LEMMA TimesStart == Init => TimesInv
<1> SUFFICES ASSUME Init PROVE TimesInv
    OBVIOUS
<1> USE LoopBounds, BenchmarkAssumption DEF Init, Loops, Allocators, Idle
<1>1. Speed /\ BatchSize = NUM_ALLOCS /\ Batches = 1
      BY DEF Speed, BatchSize, Batches
<1>2. Shape
      BY <1>1 DEF Shape, Stages, Locals
<1>3. WindowFits
      BY DEF WindowFits
<1>4. RecordedAllocs /\ RecordedFrees
      BY <1>1 DEF RecordedAllocs, RecordedFrees, After
<1> QED
    BY <1>2, <1>3, <1>4 DEF TimesInv

\* One more iteration of a loop.
LEMMA IterationStep ==
  ASSUME TimesInv, NEW a \in Allocators, NEW kind \in Loops, NEW p,
         InLoop(a, kind), Iteration(kind, p), a = "arena" => kind = "alloc"
  PROVE  TimesInv'
<1> USE LoopBounds DEF Loops, Allocators, TimesInv
<1>1. /\ i' = i + 1 /\ i < BatchSize /\ stage = a /\ op = kind
      /\ window' = [window EXCEPT ![kind] = @ + 1]
      /\ UNCHANGED <<test, stage, op, b, times>>
      BY DEF InLoop, Iteration
<1>2. BatchSize' = BatchSize /\ Batches' = Batches /\ (FreesTimed' <=> FreesTimed)
      BY <1>1 DEF BatchSize, Batches, FreesTimed, Speed
<1>3. Shape'
  <2>1. i' \in 0 .. BatchSize
        BY <1>1 DEF Shape
  <2> QED
      BY <1>1, <1>2, <2>1 DEF Shape, Stages
<1>4. WindowFits'
  <2>1. CASE op = "alloc"
    <3>1. window = [alloc |-> i, free |-> 0]
          BY <2>1 DEF WindowFits
    <3>2. window' = [[alloc |-> i, free |-> 0] EXCEPT !.alloc = @ + 1]
          BY <1>1, <2>1, <3>1
    <3>3. window' = [alloc |-> i', free |-> 0]
          BY <1>1, <3>2
    <3> QED
        BY <1>1, <2>1, <3>3 DEF WindowFits
  <2>2. CASE op = "free"
    <3>1. window = [alloc |-> 0, free |-> i] /\ stage # "arena"
          BY <1>1, <2>2 DEF WindowFits
    <3>2. window' = [[alloc |-> 0, free |-> i] EXCEPT !.free = @ + 1]
          BY <1>1, <2>2, <3>1
    <3>3. window' = [alloc |-> 0, free |-> i']
          BY <1>1, <3>2
    <3> QED
        BY <1>1, <2>2, <3>1, <3>3 DEF WindowFits
  <2> QED
      BY <1>1, <2>1, <2>2
<1>5. RecordedAllocs' /\ RecordedFrees'
      BY <1>1, <1>2 DEF RecordedAllocs, RecordedFrees
<1> QED
    BY <1>3, <1>4, <1>5

LEMMA ResetStep == TimesInv /\ ArenaReset => TimesInv'
<1> SUFFICES ASSUME TimesInv, ArenaReset PROVE TimesInv'
    OBVIOUS
<1> USE LoopBounds DEF Loops, Allocators, TimesInv
<1>1. /\ i' = BatchSize /\ i < BatchSize /\ stage = "arena" /\ op = "free"
      /\ window' = [window EXCEPT !.free = @ + 1]
      /\ UNCHANGED <<test, stage, op, b, times>>
      BY DEF InLoop, ArenaReset
<1>2. BatchSize' = BatchSize /\ Batches' = Batches /\ (FreesTimed' <=> FreesTimed)
      BY <1>1 DEF BatchSize, Batches, FreesTimed, Speed
<1>0. i = 0
      BY <1>1 DEF Shape
<1>3. Shape'
  <2>1. times' \in [Allocators -> [Loops -> [0 .. Batches' - 1 -> [Loops -> Nat]]]]
        BY <1>1, <1>2 DEF Shape
  <2>2. i' \in 0 .. BatchSize /\ i' \in {0, BatchSize}
        BY <1>1
  <2>3. /\ test' \in {"speed", "jitter"} /\ stage' \in Stages /\ op' \in Loops
        /\ b' \in 0 .. Batches' - 1 /\ stage' \in Allocators
        BY <1>1, <1>2 DEF Shape, Stages
  <2> QED
      BY <1>2, <2>1, <2>2, <2>3 DEF Shape, Stages
<1>4. WindowFits'
  <2>1. window = [alloc |-> 0, free |-> 0]
        BY <1>0, <1>1 DEF WindowFits
  <2>2. window' = [alloc |-> 0, free |-> 1]
        BY <1>1, <2>1
  <2> QED
      BY <1>1, <2>2 DEF WindowFits
<1>5. RecordedAllocs' /\ RecordedFrees'
      BY <1>1, <1>2 DEF RecordedAllocs, RecordedFrees
<1> QED
    BY <1>3, <1>4, <1>5

LEMMA StopStep == TimesInv /\ StopClock => TimesInv'
<1> SUFFICES ASSUME TimesInv, StopClock PROVE TimesInv'
    OBVIOUS
<1> USE LoopBounds DEF Loops, Allocators, TimesInv
<1>1. /\ op = "alloc" /\ i = BatchSize /\ op' = "free" /\ i' = 0 /\ window' = Idle
      /\ times' = [times EXCEPT ![stage]["alloc"][b] = window]
      /\ UNCHANGED <<test, stage, b>>
      BY DEF StopClock, Record
<1>2. BatchSize' = BatchSize /\ Batches' = Batches /\ (FreesTimed' <=> FreesTimed)
      BY <1>1 DEF BatchSize, Batches, FreesTimed, Speed
<1>3. stage \in Allocators
      BY <1>1 DEF Shape
<1>4. window = [alloc |-> BatchSize, free |-> 0]
      BY <1>1 DEF WindowFits
<1>5. window \in [Loops -> Nat]
      BY <1>4
<1>6. times' \in [Allocators -> [Loops -> [0 .. Batches - 1 -> [Loops -> Nat]]]]
      BY <1>1, <1>3, <1>5 DEF Shape
<1>7. Shape'
  <2>1. /\ test' \in {"speed", "jitter"} /\ stage' \in Stages /\ op' \in Loops
        /\ b' \in 0 .. Batches' - 1 /\ i' \in 0 .. BatchSize' /\ stage' \in Allocators
        /\ i' \in {0, BatchSize'}
        BY <1>1, <1>2, <1>3 DEF Shape, Stages
  <2>2. times' \in [Allocators -> [Loops -> [0 .. Batches' - 1 -> [Loops -> Nat]]]]
        BY <1>2, <1>6
  <2> QED
      BY <2>1, <2>2 DEF Shape, Stages
<1>8. WindowFits'
      BY <1>1 DEF WindowFits, Idle
<1>9. RecordedAllocs'
  <2> SUFFICES ASSUME NEW a \in Allocators, NEW k \in 0 .. Batches - 1,
                      stage \in After[a] \/ (stage = a /\ k <= b)
               PROVE  times'[a]["alloc"][k] = [alloc |-> BatchSize, free |-> 0]
      BY <1>1, <1>2 DEF RecordedAllocs, Shape
  <2>1. CASE a = stage /\ k = b
        BY <1>1, <1>3, <1>4, <2>1 DEF Shape
  <2>2. CASE ~ (a = stage /\ k = b)
    <3>1. times'[a]["alloc"][k] = times[a]["alloc"][k]
          BY <1>1, <1>3, <2>2 DEF Shape
    <3>2. stage \in After[a] \/ (stage = a /\ k < b)
          BY <2>2 DEF Shape
    <3> QED
        BY <3>1, <3>2 DEF RecordedAllocs
  <2> QED
      BY <2>1, <2>2
<1>10. RecordedFrees'
  <2>1. \A a \in Allocators : times'[a]["free"] = times[a]["free"]
        BY <1>1, <1>3 DEF Shape
  <2> QED
      BY <1>1, <1>2, <2>1 DEF RecordedFrees
<1> QED
    BY <1>7, <1>8, <1>9, <1>10

\* The end of a batch, whatever comes next.
LEMMA BatchEnd ==
  ASSUME TimesInv, BatchOver, stage \in Allocators
  PROVE  /\ test' = test /\ op' = "alloc" /\ i' = 0 /\ window' = Idle
         /\ BatchSize' = BatchSize /\ Batches' = Batches /\ (FreesTimed' <=> FreesTimed)
         /\ times' \in [Allocators -> [Loops -> [0 .. Batches - 1 -> [Loops -> Nat]]]]
         /\ \A a \in Allocators, k \in 0 .. Batches - 1 :
              /\ stage \in After[a] \/ (stage = a /\ k <= b) =>
                   times'[a]["alloc"][k] = [alloc |-> BatchSize, free |-> 0]
              /\ FreesTimed /\ (stage \in After[a] \/ (stage = a /\ k <= b)) =>
                   times'[a]["free"][k]
                     = [alloc |-> 0, free |-> IF a = "arena" THEN 1 ELSE BatchSize]
<1> USE LoopBounds DEF Loops, Allocators, TimesInv
<1>1. /\ op = "free" /\ i = BatchSize /\ op' = "alloc" /\ i' = 0 /\ window' = Idle
      /\ times' = IF FreesTimed THEN [times EXCEPT ![stage]["free"][b] = window] ELSE times
      /\ test' = test
      BY DEF BatchOver, Record
<1>2. BatchSize' = BatchSize /\ Batches' = Batches /\ (FreesTimed' <=> FreesTimed)
      BY <1>1 DEF BatchSize, Batches, FreesTimed, Speed
<1>3. window = [alloc |-> 0, free |-> IF stage = "arena" THEN 1 ELSE BatchSize]
      BY <1>1 DEF WindowFits
<1>4. window \in [Loops -> Nat]
      BY <1>3
<1>5. times' \in [Allocators -> [Loops -> [0 .. Batches - 1 -> [Loops -> Nat]]]]
      BY <1>1, <1>4 DEF Shape
<1>6. ASSUME NEW a \in Allocators, NEW k \in 0 .. Batches - 1,
             stage \in After[a] \/ (stage = a /\ k <= b)
      PROVE  times'[a]["alloc"][k] = [alloc |-> BatchSize, free |-> 0]
  <2>1. times'[a]["alloc"] = times[a]["alloc"]
        BY <1>1 DEF Shape
  <2>2. stage \in After[a] \/ (stage = a /\ (k < b \/ (k = b /\ op = "free")))
        BY <1>1, <1>6 DEF Shape
  <2> QED
      BY <2>1, <2>2 DEF RecordedAllocs
<1>7. ASSUME NEW a \in Allocators, NEW k \in 0 .. Batches - 1, FreesTimed,
             stage \in After[a] \/ (stage = a /\ k <= b)
      PROVE  times'[a]["free"][k] = [alloc |-> 0, free |-> IF a = "arena" THEN 1 ELSE BatchSize]
  <2>1. CASE a = stage /\ k = b
        BY <1>1, <1>3, <1>7, <2>1 DEF Shape
  <2>2. CASE ~ (a = stage /\ k = b)
    <3>1. times'[a]["free"][k] = times[a]["free"][k]
          BY <1>1, <1>7, <2>2 DEF Shape
    <3>2. stage \in After[a] \/ (stage = a /\ k < b)
          BY <1>7, <2>2 DEF Shape
    <3> QED
        BY <1>7, <3>1, <3>2 DEF RecordedFrees
  <2> QED
      BY <2>1, <2>2
<1>8. /\ test' = test /\ op' = "alloc" /\ i' = 0 /\ window' = Idle
      /\ BatchSize' = BatchSize /\ Batches' = Batches /\ (FreesTimed' <=> FreesTimed)
      BY <1>1, <1>2
<1> HIDE DEF Loops, Allocators, TimesInv
<1> QED
    BY ONLY <1>5, <1>6, <1>7, <1>8

\* The next batch of the same allocator.
LEMMA NextBatchStep == TimesInv /\ NextBatch => TimesInv'
<1> SUFFICES ASSUME TimesInv, NextBatch PROVE TimesInv'
    OBVIOUS
<1> USE LoopBounds DEF Loops, Allocators
<1>1. BatchOver /\ b + 1 < Batches /\ b' = b + 1 /\ stage' = stage
      BY DEF NextBatch
<1>2. stage \in Allocators
      BY <1>1 DEF TimesInv, Shape, BatchOver
<1>3. Shape'
  <2>1. /\ test' \in {"speed", "jitter"} /\ stage' \in Stages /\ op' = "alloc"
        /\ b' \in 0 .. Batches' - 1 /\ i' \in 0 .. BatchSize' /\ stage' \in Allocators
        BY <1>1, <1>2, BatchEnd DEF TimesInv, Shape, Stages
  <2>2. times' \in [Allocators -> [Loops -> [0 .. Batches' - 1 -> [Loops -> Nat]]]]
        BY <1>1, <1>2, BatchEnd
  <2> QED
      BY <2>1, <2>2 DEF Shape, Stages
<1>4. WindowFits'
      BY <1>1, <1>2, BatchEnd DEF WindowFits, Idle
<1>5. RecordedAllocs'
      BY <1>1, <1>2, <1>3, BatchEnd DEF RecordedAllocs, TimesInv, Shape
<1>6. RecordedFrees'
      BY <1>1, <1>2, <1>3, BatchEnd DEF RecordedFrees, TimesInv, Shape
<1> QED
    BY <1>3, <1>4, <1>5, <1>6 DEF TimesInv

\* The last batch of an allocator ends.
LEMMA NextStageStep ==
  ASSUME TimesInv, BatchOver, stage \in Allocators, b + 1 = Batches, b' = 0,
         \/ stage = "malloc" /\ stage' \in {"pool", "crashed"}
         \/ stage = "pool" /\ stage' = "arena"
         \/ stage = "arena" /\ stage' = "over"
  PROVE  TimesInv'
<1> USE LoopBounds DEF Loops, Allocators
<1>1. Shape'
  <2>0. /\ test' = test /\ op' = "alloc" /\ i' = 0
        /\ Batches' = Batches /\ BatchSize' = BatchSize
        BY BatchEnd
  <2>1. /\ test' \in {"speed", "jitter"} /\ stage' \in Stages /\ op' = "alloc"
        /\ b' \in 0 .. Batches' - 1 /\ i' = 0 /\ i' \in 0 .. BatchSize'
        BY <2>0 DEF TimesInv, Shape, Stages
  <2>2. times' \in [Allocators -> [Loops -> [0 .. Batches' - 1 -> [Loops -> Nat]]]]
        BY BatchEnd
  <2> QED
      BY <2>1, <2>2 DEF Shape
<1>2. WindowFits'
      BY BatchEnd DEF WindowFits, Idle
<1>3. ASSUME NEW a \in Allocators, stage' \in After[a]
      PROVE  stage \in After[a] \/ stage = a
      BY <1>3 DEF After
<1>4. \A k \in 0 .. Batches - 1 : k <= b
      BY DEF TimesInv, Shape
<1>5. RecordedAllocs'
      BY <1>1, <1>3, <1>4, BatchEnd DEF RecordedAllocs
<1>6. RecordedFrees'
      BY <1>1, <1>3, <1>4, BatchEnd DEF RecordedFrees
<1> QED
    BY <1>1, <1>2, <1>5, <1>6 DEF TimesInv

LEMMA NextTestStep == TimesInv /\ NextTest => TimesInv'
<1> SUFFICES ASSUME TimesInv, NextTest PROVE TimesInv'
    OBVIOUS
<1> USE LoopBounds, BenchmarkAssumption DEF Loops, Allocators, TimesInv
<1>1. /\ stage = "over" /\ test' = "jitter" /\ stage' = "malloc"
      /\ times' = Locals(BATCH_SIZE, NUM_BATCHES).times
      /\ UNCHANGED <<op, b, i, window>>
      BY DEF NextTest
<1>2. /\ BatchSize' = BATCH_SIZE /\ Batches' = NUM_BATCHES /\ ~ FreesTimed'
      BY <1>1 DEF BatchSize, Batches, FreesTimed, Speed
<1>3. op = "alloc" /\ b = 0 /\ i = 0
      BY <1>1 DEF Shape
<1>4. Shape'
      BY <1>1, <1>2, <1>3 DEF Shape, Stages, Locals, Idle
<1>5. WindowFits'
      BY <1>1, <1>3 DEF WindowFits
<1>6. RecordedAllocs' /\ RecordedFrees'
      BY <1>1, <1>2, <1>3 DEF RecordedAllocs, RecordedFrees, After
<1> QED
    BY <1>4, <1>5, <1>6

\* Once the statistics are made, or the program has crashed, nothing is timed.
LEMMA ReportStep == TimesInv /\ Report => TimesInv'
<1> SUFFICES ASSUME TimesInv, Report PROVE TimesInv'
    OBVIOUS
<1>1. /\ stage = "over" /\ stage' = "reported"
      /\ UNCHANGED <<test, op, b, i, window, times>>
      BY DEF Report
<1>2. BatchSize' = BatchSize /\ Batches' = Batches /\ (FreesTimed' <=> FreesTimed)
      BY <1>1 DEF BatchSize, Batches, FreesTimed, Speed
<1> QED
    BY <1>1, <1>2 DEF TimesInv, Shape, WindowFits, RecordedAllocs, RecordedFrees,
                      After, Stages, Allocators

LEMMA TimesStep == TimesInv /\ [Next]_vars => TimesInv'
<1> SUFFICES ASSUME TimesInv, [Next]_vars PROVE TimesInv'
    OBVIOUS
<1> USE DEF Allocators, Loops
<1>1. CASE Malloc
      BY <1>1, IterationStep DEF Malloc
<1>2. CASE Free
  <2>1. InLoop("malloc", "free") /\ Iteration("free", ptrs[i])
        BY <1>2 DEF Free
  <2> QED
      BY <2>1, IterationStep
<1>3. CASE PoolAllocate
  <2>1. InLoop("pool", "alloc") /\ Iteration("alloc", ret')
        BY <1>3 DEF PoolAllocate
  <2> QED
      BY <2>1, IterationStep
<1>4. CASE PoolDeallocate
  <2>1. InLoop("pool", "free") /\ Iteration("free", ptrs[i])
        BY <1>4 DEF PoolDeallocate
  <2> QED
      BY <2>1, IterationStep
<1>5. CASE ArenaAllocate
  <2>1. InLoop("arena", "alloc") /\ Iteration("alloc", ret')
        BY <1>5 DEF ArenaAllocate
  <2> QED
      BY <2>1, IterationStep
<1>6. CASE ArenaReset
      BY <1>6, ResetStep
<1>7. CASE StopClock
      BY <1>7, StopStep
<1>8. CASE NextBatch
      BY <1>8, NextBatchStep
<1>9. CASE StartPool \/ StartArena \/ Finish
  <2>1. /\ BatchOver /\ b + 1 = Batches /\ b' = 0
        /\ \/ stage = "malloc" /\ stage' \in {"pool", "crashed"}
           \/ stage = "pool" /\ stage' = "arena"
           \/ stage = "arena" /\ stage' = "over"
        BY <1>9 DEF StartPool, StartArena, Finish
  <2> QED
      BY <2>1, NextStageStep
<1>10. CASE NextTest
       BY <1>10, NextTestStep
<1>11. CASE Report
       BY <1>11, ReportStep
<1>12. CASE UNCHANGED vars
       BY <1>12 DEF vars, calls, driver, TimesInv, Shape, WindowFits, RecordedAllocs,
                    RecordedFrees, BatchSize, Batches, FreesTimed, Speed
<1> QED
    BY <1>1, <1>2, <1>3, <1>4, <1>5, <1>6, <1>7, <1>8, <1>9, <1>10, <1>11, <1>12
    DEF Next, Calls, Ended

LEMMA TimesAlways == Spec => []TimesInv
BY TimesStart, TimesStep, PTL DEF Spec

\* Each recorded time is that of the calls of one loop of one batch.
THEOREM TimesCoverTheirLoops == Spec => []TimesArePure
<1>1. TimesInv => TimesArePure
      BY DEF TimesInv, RecordedAllocs, RecordedFrees, TimesArePure, After, Allocators
<1> QED
    BY <1>1, TimesAlways, PTL

-----------------------------------------------------------------------------
PtrsShape == DOMAIN ptrs = 0 .. BatchSize - 1

LEMMA BatchSizeKept == UNCHANGED test => BatchSize' = BatchSize /\ Batches' = Batches
BY DEF BatchSize, Batches, Speed

\* The objects of the arena's batch lie one after the other.
ArenaInv ==
  stage = "arena" /\ buffer_ =>
    /\ op = "alloc" => /\ offset_ = i * OBJECT_SIZE
                       /\ \A k \in 0 .. i - 1 : ptrs[k] = k * OBJECT_SIZE
    /\ op = "free" => /\ i = 0 => \A k \in DOMAIN ptrs : ptrs[k] = k * OBJECT_SIZE
                      /\ i # 0 => offset_ = 0

LEMMA PtrsStep == PtrsShape /\ [Next]_vars => PtrsShape'
<1> SUFFICES ASSUME PtrsShape, [Next]_vars PROVE PtrsShape'
    OBVIOUS
<1>1. CASE NextTest
      BY <1>1 DEF NextTest, PtrsShape, Locals, BatchSize, Speed
<1>2. ASSUME UNCHANGED test, DOMAIN ptrs' = DOMAIN ptrs PROVE PtrsShape'
      BY <1>2, BatchSizeKept DEF PtrsShape
<1>3. ASSUME NEW kind, NEW p, Iteration(kind, p) PROVE PtrsShape'
      BY <1>2, <1>3 DEF Iteration
<1>4. CASE Malloc \/ Free \/ PoolAllocate \/ PoolDeallocate \/ ArenaAllocate
      BY <1>3, <1>4 DEF Malloc, Free, PoolAllocate, PoolDeallocate, ArenaAllocate
<1>5. CASE ArenaReset \/ StopClock \/ NextBatch \/ StartPool \/ StartArena \/ Finish \/ Report
           \/ UNCHANGED vars
      BY <1>2, <1>5 DEF ArenaReset, StopClock, NextBatch, StartPool, StartArena, Finish, Report,
                        BatchOver, vars, calls, driver
<1> QED
    BY <1>1, <1>4, <1>5 DEF Next, Calls, Ended

LEMMA RoundedObject ==
  /\ OBJECT_SIZE \in Nat \ {0}
  /\ SpeedArena!Rounded(OBJECT_SIZE) = OBJECT_SIZE
  /\ JitterArena!Rounded(OBJECT_SIZE) = OBJECT_SIZE
<1>1. /\ OBJECT_SIZE \in Nat \ {0} /\ NUM_ALLOCS \in Nat \ {0} /\ Modulus \in Nat
      /\ OBJECT_SIZE % 8 = 0 /\ OBJECT_SIZE * NUM_ALLOCS + OBJECT_SIZE + 7 < Modulus
      BY BenchmarkAssumption
<1>2. OBJECT_SIZE * NUM_ALLOCS \in Nat
      BY <1>1
<1>3. OBJECT_SIZE + 7 < Modulus
      BY <1>1, <1>2
<1>4. (OBJECT_SIZE + 7) % Modulus = OBJECT_SIZE + 7
      BY <1>1, <1>3
<1>5. (OBJECT_SIZE + 7) - ((OBJECT_SIZE + 7) % 8) = OBJECT_SIZE
      BY <1>1
<1> QED
    BY <1>1, <1>4, <1>5 DEF SpeedArena!Rounded, JitterArena!Rounded

\* What comes out of a batch up to its next object fits.
LEMMA NextObjectFits ==
  ASSUME NEW k \in 0 .. BatchSize - 1
  PROVE  /\ (k * OBJECT_SIZE + OBJECT_SIZE) % Modulus = (k + 1) * OBJECT_SIZE
         /\ (k + 1) * OBJECT_SIZE <= OBJECT_SIZE * BatchSize
<1>1. /\ OBJECT_SIZE \in Nat /\ BatchSize \in Nat /\ Modulus \in Nat
      /\ OBJECT_SIZE * BatchSize + OBJECT_SIZE + 7 < Modulus
      BY BenchmarkAssumption DEF BatchSize
<1>2. (k + 1) * OBJECT_SIZE = k * OBJECT_SIZE + OBJECT_SIZE /\ k * OBJECT_SIZE \in Nat
      BY <1>1
<1>3. (k + 1) * OBJECT_SIZE <= OBJECT_SIZE * BatchSize
  <2>1. PICK d \in Nat : BatchSize = k + 1 + d
    <3>1. BatchSize - k - 1 \in Nat /\ BatchSize = k + 1 + (BatchSize - k - 1)
          BY <1>1
    <3> QED
        BY <3>1
  <2>2. OBJECT_SIZE * (k + 1 + d) = (k + 1) * OBJECT_SIZE + OBJECT_SIZE * d
        BY <1>1
  <2>3. OBJECT_SIZE * d \in Nat /\ (k + 1) * OBJECT_SIZE \in Nat
        BY <1>1, <1>2
  <2> QED
      BY <2>1, <2>2, <2>3
<1>4. OBJECT_SIZE * BatchSize \in Nat
      BY <1>1
<1> QED
    BY <1>1, <1>2, <1>3, <1>4

LEMMA ArenaStep == TimesInv /\ PtrsShape /\ ArenaInv /\ [Next]_vars => ArenaInv'
<1> SUFFICES ASSUME TimesInv, PtrsShape, ArenaInv, [Next]_vars, (stage = "arena" /\ buffer_)'
             PROVE  ArenaInv'
    BY DEF ArenaInv
<1>0. i \in Nat /\ BatchSize \in Nat \ {0} /\ OBJECT_SIZE \in Nat
      BY LoopBounds, BenchmarkAssumption DEF TimesInv, Shape
<1>1. CASE ArenaAllocate
  <2>1. /\ stage = "arena" /\ op = "alloc" /\ i < BatchSize /\ op' = "alloc" /\ i' = i + 1
        /\ UNCHANGED test /\ ptrs' = [ptrs EXCEPT ![i] = ret']
        BY <1>1 DEF ArenaAllocate, InLoop, Iteration
  <2>2. IF Speed THEN SpeedArena!allocate(OBJECT_SIZE) ELSE JitterArena!allocate(OBJECT_SIZE)
        BY <1>1 DEF ArenaAllocate
  <2>3. buffer_
        BY <2>2 DEF SpeedArena!allocate, SpeedArena!Bump, SpeedArena!Refuse,
                    JitterArena!allocate, JitterArena!Bump, JitterArena!Refuse
  <2>4. offset_ = i * OBJECT_SIZE /\ \A k \in 0 .. i - 1 : ptrs[k] = k * OBJECT_SIZE
        BY <2>1, <2>3 DEF ArenaInv
  <2>5. i \in 0 .. BatchSize - 1
        BY <1>0, <2>1
  <2>6. /\ (offset_ + OBJECT_SIZE) % Modulus = (i + 1) * OBJECT_SIZE
        /\ (offset_ + OBJECT_SIZE) % Modulus <= OBJECT_SIZE * BatchSize
        BY <2>4, <2>5, NextObjectFits
  <2>7. ret' = offset_ /\ offset_' = (offset_ + OBJECT_SIZE) % Modulus
    <3>1. CASE Speed
      <4>1. SpeedArena!Fits(OBJECT_SIZE)
            BY <2>6, <3>1, RoundedObject DEF SpeedArena!Fits, BatchSize
      <4> QED
          BY <2>2, <2>3, <3>1, <4>1, RoundedObject
          DEF SpeedArena!allocate, SpeedArena!Bump, SpeedArena!Refuse, SpeedArena!Here
    <3>2. CASE ~ Speed
      <4>1. JitterArena!Fits(OBJECT_SIZE)
            BY <2>6, <3>2, RoundedObject DEF JitterArena!Fits, BatchSize
      <4> QED
          BY <2>2, <2>3, <3>2, <4>1, RoundedObject
          DEF JitterArena!allocate, JitterArena!Bump, JitterArena!Refuse, JitterArena!Here
    <3> QED
        BY <3>1, <3>2
  <2>8. offset_' = i' * OBJECT_SIZE
        BY <2>1, <2>6, <2>7
  <2>9. ASSUME NEW k \in 0 .. i' - 1 PROVE ptrs'[k] = k * OBJECT_SIZE
    <3>1. i \in DOMAIN ptrs /\ k \in DOMAIN ptrs
          BY <1>0, <2>1, <2>5 DEF PtrsShape
    <3>2. CASE k = i
          BY <2>1, <2>4, <2>7, <3>1, <3>2
    <3>3. CASE k # i
      <4>1. k \in 0 .. i - 1
            BY <1>0, <2>1, <3>3
      <4> QED
          BY <2>1, <2>4, <3>1, <3>3, <4>1
    <3> QED
        BY <3>2, <3>3
  <2> QED
      BY <2>1, <2>8, <2>9 DEF ArenaInv
<1>2. CASE ArenaReset
  <2>1. /\ op = "free" /\ op' = "free" /\ i' = BatchSize
        /\ IF Speed THEN SpeedArena!reset ELSE JitterArena!reset
        BY <1>2 DEF ArenaReset, InLoop
  <2>2. offset_' = 0
        BY <2>1 DEF SpeedArena!reset, JitterArena!reset
  <2> QED
      BY <1>0, <2>1, <2>2 DEF ArenaInv
<1>3. CASE StopClock
  <2>1. /\ op = "alloc" /\ i = BatchSize /\ op' = "free" /\ i' = 0
        /\ UNCHANGED <<stage, ptrs, buffer_>>
        BY <1>3 DEF StopClock, arena
  <2> QED
      BY <2>1 DEF ArenaInv, PtrsShape
<1>4. CASE NextBatch
  <2>1. /\ op = "free" /\ i = BatchSize /\ op' = "alloc" /\ i' = 0
        /\ UNCHANGED <<stage, offset_, buffer_>>
        BY <1>4 DEF NextBatch, BatchOver, arena
  <2>2. offset_' = 0 /\ 0 * OBJECT_SIZE = 0
        BY <1>0, <2>1 DEF ArenaInv
  <2> QED
      BY <2>1, <2>2 DEF ArenaInv
<1>5. CASE StartArena
  <2>1. op' = "alloc" /\ i' = 0 /\ IF Speed THEN SpeedArena!Construct ELSE JitterArena!Construct
        BY <1>5 DEF StartArena, BatchOver
  <2>2. offset_' = 0 /\ 0 * OBJECT_SIZE = 0
        BY <1>0, <2>1 DEF SpeedArena!Construct, JitterArena!Construct
  <2> QED
      BY <2>1, <2>2 DEF ArenaInv
<1>6. CASE UNCHANGED vars
      BY <1>6 DEF vars, calls, driver, arena, ArenaInv
<1>7. CASE Malloc \/ Free \/ PoolAllocate \/ PoolDeallocate
      BY <1>7 DEF Malloc, Free, PoolAllocate, PoolDeallocate, InLoop, Iteration
<1>8. CASE StartPool \/ Finish \/ NextTest \/ Report
      BY <1>8 DEF StartPool, Finish, NextTest, Report
<1> QED
    BY <1>1, <1>2, <1>3, <1>4, <1>5, <1>6, <1>7, <1>8 DEF Next, Calls, Ended

LEMMA PtrsAlways == Spec => []PtrsShape
<1>1. Init => PtrsShape
      BY DEF Init, PtrsShape, Locals, BatchSize, Speed
<1> QED
    BY <1>1, PtrsStep, PTL DEF Spec

\* The arena serves every batch of either test to its last object, at the same
\* addresses, whatever the sizes and numbers of the batches.
THEOREM ArenaIsNeverShort == Spec => []ArenaServesEveryBatch
<1>1. Init => ArenaInv
      BY DEF Init, ArenaInv
<1>2. ArenaInv => ArenaServesEveryBatch
  <2> SUFFICES ASSUME ArenaInv, stage = "arena" /\ op = "free" /\ i = 0, buffer_
               PROVE  \A k \in DOMAIN ptrs : ptrs[k] = k * OBJECT_SIZE
      BY Zenon DEF ArenaServesEveryBatch, Filled
  <2> QED
      BY Zenon DEF ArenaInv
<1> QED
    BY <1>1, <1>2, ArenaStep, TimesAlways, PtrsAlways, PTL DEF Spec

-----------------------------------------------------------------------------
\* The objects of the pool of a test, the k-th object that batch c of n
\* allocations takes, and the object those batches leave alone next.
PoolCount    == IF Speed THEN NUM_ALLOCS ELSE TOTAL_ALLOCS
Nth(n, c, k) == IF c % 2 = 0 THEN k ELSE n - 1 - k
Rest         == IF BatchSize < PoolCount THEN BatchSize ELSE Nil

\* While a batch allocates, the chain leads through the objects it has yet to
\* take; while it frees, through those it has given back, the last one first.
AllocChain ==
  /\ free_list_ = IF i < BatchSize THEN Nth(BatchSize, b, i) ELSE Rest
  /\ \A k \in 0 .. i - 1 : ptrs[k] = Nth(BatchSize, b, k)
  /\ \A k \in 0 .. BatchSize - 1 :
       word[Nth(BatchSize, b, k)] = IF k + 1 < BatchSize THEN Nth(BatchSize, b, k + 1) ELSE Rest

FreeChain ==
  /\ free_list_ = IF i = 0 THEN Rest ELSE Nth(BatchSize, b, i - 1)
  /\ \A k \in 0 .. BatchSize - 1 : ptrs[k] = Nth(BatchSize, b, k)
  /\ \A k \in 0 .. i - 1 :
       word[Nth(BatchSize, b, k)] = IF k = 0 THEN Rest ELSE Nth(BatchSize, b, k - 1)

PoolInv ==
  stage = "pool" =>
    /\ DOMAIN word = 0 .. PoolCount - 1
    /\ op = "alloc" => AllocChain
    /\ op = "free" => FreeChain

LEMMA NthFacts ==
  ASSUME NEW n \in Nat \ {0}, NEW c \in Nat, NEW k \in 0 .. n - 1
  PROVE  /\ Nth(n, c, k) \in 0 .. n - 1
         /\ Nth(n, c + 1, k) = Nth(n, c, n - 1 - k)
         /\ \A j \in 0 .. n - 1 : j # k => Nth(n, c, j) # Nth(n, c, k)
<1>1. c % 2 \in {0, 1} /\ (c + 1) % 2 = 1 - (c % 2)
      OBVIOUS
<1> QED
    BY <1>1 DEF Nth

\* A pool is never smaller than a batch.
LEMMA PoolHoldsABatch == PoolCount \in Nat /\ BatchSize \in Nat \ {0} /\ BatchSize <= PoolCount
<1>1. BATCH_SIZE \in Nat \ {0} /\ NUM_BATCHES \in Nat \ {0} /\ NUM_ALLOCS \in Nat \ {0}
      BY BenchmarkAssumption
<1>2. TOTAL_ALLOCS \in Nat /\ BATCH_SIZE <= TOTAL_ALLOCS
  <2>1. PICK d \in Nat : NUM_BATCHES = d + 1
    <3>1. NUM_BATCHES - 1 \in Nat /\ NUM_BATCHES = (NUM_BATCHES - 1) + 1
          BY <1>1
    <3> QED
        BY <3>1
  <2>2. BATCH_SIZE * (d + 1) = BATCH_SIZE * d + BATCH_SIZE /\ BATCH_SIZE * d \in Nat
        BY <1>1
  <2>3. BATCH_SIZE * (d + 1) \in Nat /\ BATCH_SIZE <= BATCH_SIZE * (d + 1)
        BY <1>1, <2>2
  <2> QED
      BY <2>1, <2>3 DEF TOTAL_ALLOCS
<1> QED
    BY <1>1, <1>2 DEF PoolCount, BatchSize

\* What the calls of a test do to the chain, whichever pool it has.
LEMMA PoolCalls ==
  /\ PoolAllocate => /\ free_list_ # Nil => ret' = free_list_ /\ free_list_' = word[free_list_]
                     /\ UNCHANGED word
                     /\ free_list_ # Nil => held' = held \cup {free_list_}
  /\ PoolDeallocate => /\ word' = [word EXCEPT ![ptrs[i]] = free_list_]
                       /\ free_list_' = ptrs[i] /\ held' = held \ {ptrs[i]}
BY DEF PoolAllocate, PoolDeallocate, SpeedPool!allocate, SpeedPool!Pop, SpeedPool!ReturnNull,
       JitterPool!allocate, JitterPool!Pop, JitterPool!ReturnNull,
       SpeedPool!deallocate, JitterPool!deallocate

LEMMA PoolAllocateStep ==
  ASSUME TimesInv, PtrsShape, PoolInv, PoolAllocate
  PROVE  PoolInv'
<1> DEFINE n == BatchSize
           nth(k) == Nth(n, b, k)
<1>1. /\ stage = "pool" /\ op = "alloc" /\ op' = "alloc" /\ i < n /\ i' = i + 1
      /\ UNCHANGED <<test, stage, b, word>> /\ ptrs' = [ptrs EXCEPT ![i] = ret']
      BY PoolCalls DEF PoolAllocate, InLoop, Iteration
<1>2. i \in 0 .. n - 1 /\ n \in Nat \ {0} /\ b \in Nat
      BY <1>1, LoopBounds DEF TimesInv, Shape
<1>3. n' = n /\ Rest' = Rest /\ PoolCount' = PoolCount
      BY <1>1 DEF BatchSize, Rest, PoolCount, Speed
<1>4. /\ DOMAIN word = 0 .. PoolCount - 1 /\ free_list_ = nth(i)
      /\ \A k \in 0 .. i - 1 : ptrs[k] = nth(k)
      /\ \A k \in 0 .. n - 1 : word[nth(k)] = IF k + 1 < n THEN nth(k + 1) ELSE Rest
      BY <1>1 DEF PoolInv, AllocChain
<1>5. free_list_ # Nil
      BY <1>2, <1>4, NthFacts, BenchmarkAssumption
<1>6. ret' = nth(i) /\ free_list_' = IF i + 1 < n THEN nth(i + 1) ELSE Rest
      BY <1>2, <1>4, <1>5, PoolCalls
<1>7. \A k \in 0 .. i : ptrs'[k] = nth(k)
  <2>1. DOMAIN ptrs = 0 .. n - 1
        BY DEF PtrsShape
  <2> QED
      BY <1>1, <1>2, <1>4, <1>6, <2>1
<1>8. i' - 1 = i
      BY <1>1, <1>2
<1> HIDE DEF n, nth
<1>9. AllocChain'
  <2>1. free_list_' = IF i' < n THEN nth(i') ELSE Rest
        BY <1>1, <1>6
  <2>2. \A k \in 0 .. i' - 1 : ptrs'[k] = nth(k)
        BY <1>7, <1>8
  <2> QED
      BY <1>1, <1>3, <1>4, <2>1, <2>2 DEF AllocChain, n, nth
<1> QED
    BY <1>1, <1>3, <1>4, <1>9 DEF PoolInv

LEMMA PoolDeallocateStep ==
  ASSUME TimesInv, PtrsShape, PoolInv, PoolDeallocate
  PROVE  PoolInv'
<1> DEFINE n == BatchSize
           nth(k) == Nth(n, b, k)
<1>1. /\ stage = "pool" /\ op = "free" /\ op' = "free" /\ i < n /\ i' = i + 1
      /\ UNCHANGED <<test, stage, b>> /\ ptrs' = [ptrs EXCEPT ![i] = ptrs[i]]
      BY PoolCalls DEF PoolDeallocate, InLoop, Iteration
<1>2. i \in 0 .. n - 1 /\ n \in Nat \ {0} /\ b \in Nat
      BY <1>1, LoopBounds DEF TimesInv, Shape
<1>3. n' = n /\ Rest' = Rest /\ PoolCount' = PoolCount
      BY <1>1 DEF BatchSize, Rest, PoolCount, Speed
<1>4. /\ DOMAIN word = 0 .. PoolCount - 1
      /\ free_list_ = IF i = 0 THEN Rest ELSE nth(i - 1)
      /\ \A k \in 0 .. n - 1 : ptrs[k] = nth(k)
      /\ \A k \in 0 .. i - 1 : word[nth(k)] = IF k = 0 THEN Rest ELSE nth(k - 1)
      BY <1>1 DEF PoolInv, FreeChain
<1>5. word' = [word EXCEPT ![nth(i)] = free_list_] /\ free_list_' = nth(i)
      BY <1>2, <1>4, PoolCalls
<1>6. \A k \in 0 .. n - 1 : ptrs'[k] = nth(k)
      BY <1>1, <1>2, <1>4 DEF PtrsShape
<1>7. ASSUME NEW k \in 0 .. i
      PROVE  word'[nth(k)] = IF k = 0 THEN Rest ELSE nth(k - 1)
  <2>1. k \in 0 .. n - 1 /\ nth(k) \in 0 .. n - 1
        BY <1>2, NthFacts
  <2>2. nth(k) \in DOMAIN word
        BY <1>2, <1>4, <2>1, PoolHoldsABatch
  <2>3. CASE k = i
        BY <1>4, <1>5, <2>2, <2>3
  <2>4. CASE k # i
    <3>1. nth(k) # nth(i) /\ k \in 0 .. i - 1
          BY <1>2, <2>1, <2>4, NthFacts
    <3> QED
        BY <1>4, <1>5, <2>2, <3>1
  <2> QED
      BY <2>3, <2>4
<1>8. i' - 1 = i /\ i' # 0
      BY <1>1, <1>2
<1> HIDE DEF n, nth
<1>9. FreeChain'
  <2>1. free_list_' = IF i' = 0 THEN Rest ELSE nth(i' - 1)
        BY <1>5, <1>8
  <2>2. \A k \in 0 .. i' - 1 : word'[nth(k)] = IF k = 0 THEN Rest ELSE nth(k - 1)
        BY <1>7, <1>8
  <2> QED
      BY <1>1, <1>3, <1>4, <1>6, <2>1, <2>2 DEF FreeChain, n, nth
<1> QED
    BY <1>1, <1>3, <1>4, <1>5, <1>9 DEF PoolInv

\* The next batch meets the objects in the opposite order.
LEMMA PoolNextBatchStep ==
  ASSUME TimesInv, PtrsShape, PoolInv, NextBatch, stage = "pool"
  PROVE  PoolInv'
<1> DEFINE n == BatchSize
           nth(k) == Nth(n, b, k)
           new(k) == Nth(n, b + 1, k)
<1>1. /\ op = "free" /\ op' = "alloc" /\ i = n /\ i' = 0 /\ b' = b + 1
      /\ UNCHANGED <<test, stage, word, free_list_, ptrs>>
      BY DEF NextBatch, BatchOver, pool
<1>2. n \in Nat \ {0} /\ b \in Nat
      BY LoopBounds DEF TimesInv, Shape
<1>3. n' = n /\ Rest' = Rest /\ PoolCount' = PoolCount
      BY <1>1 DEF BatchSize, Rest, PoolCount, Speed
<1>4. /\ DOMAIN word = 0 .. PoolCount - 1
      /\ free_list_ = nth(n - 1)
      /\ \A k \in 0 .. n - 1 : word[nth(k)] = IF k = 0 THEN Rest ELSE nth(k - 1)
      BY <1>1, <1>2 DEF PoolInv, FreeChain
<1>5. \A k \in 0 .. n - 1 : new(k) = nth(n - 1 - k)
      BY <1>2, NthFacts
<1>6. free_list_ = new(0)
      BY <1>2, <1>4, <1>5
<1>7. ASSUME NEW k \in 0 .. n - 1
      PROVE  word[new(k)] = IF k + 1 < n THEN new(k + 1) ELSE Rest
  <2>1. n - 1 - k \in 0 .. n - 1 /\ (n - 1 - k = 0 <=> ~ (k + 1 < n))
        BY <1>2
  <2>2. word[new(k)] = IF n - 1 - k = 0 THEN Rest ELSE nth(n - 1 - k - 1)
        BY <1>4, <1>5, <2>1
  <2>3. ASSUME k + 1 < n PROVE new(k + 1) = nth(n - 1 - k - 1)
    <3>1. k + 1 \in 0 .. n - 1 /\ n - 1 - (k + 1) = n - 1 - k - 1
          BY <1>2, <2>3
    <3> QED
        BY <1>5, <3>1
  <2> QED
      BY <2>1, <2>2, <2>3
<1> HIDE DEF n, nth, new
<1>8. AllocChain'
  <2>1. free_list_' = IF i' < n THEN new(i') ELSE Rest
        BY <1>1, <1>2, <1>6
  <2>2. 0 .. i' - 1 = {}
        BY <1>1
  <2> QED
      BY <1>1, <1>3, <1>7, <2>1, <2>2 DEF AllocChain, n, new
<1> QED
    BY <1>1, <1>3, <1>4, <1>8 DEF PoolInv

LEMMA PoolStartStep ==
  ASSUME TimesInv, StartPool
  PROVE  PoolInv'
<1> SUFFICES ASSUME stage' = "pool" PROVE PoolInv'
    BY DEF PoolInv
<1>1. /\ op' = "alloc" /\ i' = 0 /\ b' = 0 /\ UNCHANGED test
      /\ IF Speed THEN SpeedPool!Construct ELSE JitterPool!Construct
      BY DEF StartPool, BatchOver
<1>2. /\ free_list_' = 0
      /\ word' = [s \in 0 .. PoolCount - 1 |-> IF s + 1 < PoolCount THEN s + 1 ELSE Nil]
      BY <1>1 DEF SpeedPool!Construct, SpeedPool!Links, SpeedPool!Slots, JitterPool!Construct,
                  JitterPool!Links, JitterPool!Slots, PoolCount
<1>3. BatchSize' = BatchSize /\ Rest' = Rest /\ PoolCount' = PoolCount
      BY <1>1 DEF BatchSize, Rest, PoolCount, Speed
<1>4. \A k \in 0 .. BatchSize - 1 :
        word'[k] = IF k + 1 < BatchSize THEN k + 1 ELSE Rest
  <2> SUFFICES ASSUME NEW k \in 0 .. BatchSize - 1
               PROVE  word'[k] = IF k + 1 < BatchSize THEN k + 1 ELSE Rest
      OBVIOUS
  <2>1. k \in 0 .. PoolCount - 1 /\ (k + 1 < BatchSize => k + 1 < PoolCount)
        BY PoolHoldsABatch
  <2>2. word'[k] = IF k + 1 < PoolCount THEN k + 1 ELSE Nil
        BY <1>2, <2>1
  <2>3. ~ (k + 1 < BatchSize) => k + 1 = BatchSize
        BY PoolHoldsABatch
  <2> QED
      BY <2>1, <2>2, <2>3 DEF Rest
<1>5. \A k : Nth(BatchSize, 0, k) = k
      BY DEF Nth
<1>6. AllocChain'
  <2>1. free_list_' = Nth(BatchSize, 0, 0) /\ 0 < BatchSize /\ 0 .. i' - 1 = {}
        BY <1>1, <1>2, <1>5, PoolHoldsABatch
  <2>2. \A k \in 0 .. BatchSize - 1 :
          word'[Nth(BatchSize, 0, k)]
            = IF k + 1 < BatchSize THEN Nth(BatchSize, 0, k + 1) ELSE Rest
        BY <1>4, <1>5
  <2> QED
      BY <1>1, <1>3, <2>1, <2>2 DEF AllocChain
<1>7. DOMAIN word' = 0 .. PoolCount - 1
      BY <1>2
<1> QED
    BY <1>1, <1>3, <1>6, <1>7 DEF PoolInv

LEMMA PoolStep == TimesInv /\ PtrsShape /\ PoolInv /\ [Next]_vars => PoolInv'
<1> SUFFICES ASSUME TimesInv, PtrsShape, PoolInv, [Next]_vars PROVE PoolInv'
    OBVIOUS
<1>1. CASE PoolAllocate
      BY <1>1, PoolAllocateStep
<1>2. CASE PoolDeallocate
      BY <1>2, PoolDeallocateStep
<1>3. CASE StopClock
  <2>1. SUFFICES ASSUME stage' = "pool" PROVE PoolInv'
        BY DEF PoolInv
  <2>2. /\ stage = "pool" /\ op = "alloc" /\ op' = "free" /\ i = BatchSize /\ i' = 0
        /\ UNCHANGED <<test, b, ptrs, word, free_list_>>
        BY <1>3, <2>1 DEF StopClock, pool
  <2>3. BatchSize' = BatchSize /\ Rest' = Rest /\ PoolCount' = PoolCount
        BY <2>2 DEF BatchSize, Rest, PoolCount, Speed
  <2>4. AllocChain /\ DOMAIN word = 0 .. PoolCount - 1
        BY <2>2 DEF PoolInv
  <2>5. free_list_ = Rest /\ \A k \in 0 .. BatchSize - 1 : ptrs[k] = Nth(BatchSize, b, k)
        BY <2>2, <2>4, LoopBounds DEF AllocChain
  <2>6. FreeChain'
        BY <2>2, <2>3, <2>5 DEF FreeChain
  <2> QED
      BY <2>2, <2>3, <2>4, <2>6 DEF PoolInv
<1>4. CASE NextBatch
  <2>1. UNCHANGED stage
        BY <1>4 DEF NextBatch
  <2> QED
      BY <1>4, <2>1, PoolNextBatchStep DEF PoolInv
<1>5. CASE StartPool
      BY <1>5, PoolStartStep
<1>6. CASE UNCHANGED vars
      BY <1>6 DEF vars, calls, driver, pool, PoolInv, AllocChain, FreeChain, Rest, PoolCount,
                  BatchSize, Speed
<1>7. CASE Malloc \/ Free \/ ArenaAllocate \/ ArenaReset
      BY <1>7 DEF Malloc, Free, ArenaAllocate, ArenaReset, InLoop, Iteration, PoolInv
<1>8. CASE StartArena \/ Finish \/ NextTest \/ Report
      BY <1>8 DEF StartArena, Finish, NextTest, Report, PoolInv
<1> QED
    BY <1>1, <1>2, <1>3, <1>4, <1>5, <1>6, <1>7, <1>8 DEF Next, Calls, Ended

\* Every batch of the pool gets the objects of the first one, in the opposite
\* order of the batch before, so that the pool is never found empty.
THEOREM BatchesReuseThePool == Spec => []BatchesReuseObjects
<1>1. Init => PoolInv
      BY DEF Init, PoolInv
<1>2. PtrsShape /\ PoolInv => BatchesReuseObjects
  <2> SUFFICES ASSUME PtrsShape, PoolInv, Filled("pool"), NEW k \in DOMAIN ptrs
               PROVE  ptrs[k] = IF b % 2 = 0 THEN k ELSE BatchSize - 1 - k
      BY DEF BatchesReuseObjects
  <2>1. FreeChain /\ k \in 0 .. BatchSize - 1
        BY DEF Filled, PoolInv, PtrsShape
  <2> QED
      BY <2>1 DEF FreeChain, Nth
<1> QED
    BY <1>1, <1>2, PoolStep, TimesAlways, PtrsAlways, PTL DEF Spec

-----------------------------------------------------------------------------
\* The pointers yet to be given back, as a set, and none of them twice.
Due      == {ptrs[k] : k \in Outstanding}
Distinct == \A j, k \in Outstanding : ptrs[j] = ptrs[k] /\ ptrs[j] # Nil => j = k

OnceInv ==
  /\ heap = IF stage = "malloc" THEN Due \ {Nil} ELSE {}
  /\ held = IF stage = "pool" THEN Due ELSE {}
  /\ stage = "pool" => Nil \notin held
  /\ stage \in {"malloc", "pool"} => Distinct

\* One more result.
LEMMA DueGrows ==
  ASSUME TimesInv, PtrsShape, Distinct, NEW p, NEW kind, op = "alloc", i < BatchSize,
         Iteration(kind, p), p \notin Due \ {Nil}
  PROVE  Due' = Due \cup {p} /\ Distinct'
<1>1. /\ i \in 0 .. BatchSize - 1 /\ BatchSize \in Nat
      /\ i' = i + 1 /\ op' = "alloc" /\ ptrs' = [ptrs EXCEPT ![i] = p]
      /\ DOMAIN ptrs = 0 .. BatchSize - 1
      BY LoopBounds DEF TimesInv, Shape, Iteration, PtrsShape
<1>2. Outstanding = 0 .. i - 1 /\ Outstanding' = 0 .. i /\ Outstanding' = Outstanding \cup {i}
      BY <1>1 DEF Outstanding
<1>3. ptrs'[i] = p /\ \A k \in Outstanding : k # i /\ ptrs'[k] = ptrs[k]
      BY <1>1, <1>2
<1>4. Due' = Due \cup {p}
      BY <1>2, <1>3 DEF Due
<1>5. ASSUME NEW j \in Outstanding', NEW k \in Outstanding', ptrs'[j] = ptrs'[k], ptrs'[j] # Nil
      PROVE  j = k
      BY <1>2, <1>3, <1>5 DEF Distinct, Due
<1> QED
    BY <1>4, <1>5 DEF Distinct

\* One less to give back.
LEMMA DueShrinks ==
  ASSUME TimesInv, PtrsShape, Distinct, NEW kind, op = "free", i < BatchSize,
         Iteration(kind, ptrs[i])
  PROVE  /\ Due' \ {Nil} = (Due \ {Nil}) \ {ptrs[i]} /\ Due' \subseteq Due
         /\ ptrs[i] \in Due /\ Distinct'
<1>1. /\ i \in 0 .. BatchSize - 1 /\ BatchSize \in Nat
      /\ i' = i + 1 /\ op' = "free" /\ BatchSize' = BatchSize
      /\ ptrs' = [ptrs EXCEPT ![i] = ptrs[i]] /\ DOMAIN ptrs = 0 .. BatchSize - 1
      BY LoopBounds, BatchSizeKept DEF TimesInv, Shape, Iteration, PtrsShape
<1>2. /\ Outstanding = i .. BatchSize - 1 /\ Outstanding' = (i + 1) .. BatchSize - 1
      /\ Outstanding = Outstanding' \cup {i} /\ i \notin Outstanding'
      BY <1>1 DEF Outstanding
<1>3. \A k \in Outstanding : ptrs'[k] = ptrs[k]
      BY <1>1, <1>2
<1>4. Due' = {ptrs[k] : k \in Outstanding'}
      BY <1>2, <1>3 DEF Due
<1>5. \A k \in Outstanding' : ptrs[k] = ptrs[i] => ptrs[k] = Nil
      BY <1>2 DEF Distinct
<1>6. Distinct'
      BY <1>2, <1>3 DEF Distinct
<1>7. Due = Due' \cup {ptrs[i]}
      BY <1>2, <1>4 DEF Due
<1>8. ptrs[i] \in Due' => ptrs[i] = Nil
      BY <1>4, <1>5
<1> QED
    BY <1>6, <1>7, <1>8

LEMMA OnceStep == TimesInv /\ PtrsShape /\ PoolInv /\ OnceInv /\ [Next]_vars => OnceInv'
<1> SUFFICES ASSUME TimesInv, PtrsShape, PoolInv, OnceInv, [Next]_vars PROVE OnceInv'
    OBVIOUS
<1>1. CASE Malloc
  <2>1. stage = "malloc" /\ op = "alloc" /\ i < BatchSize /\ stage' = stage /\ held' = held
        BY <1>1 DEF Malloc, InLoop, Iteration, pool
  <2>2. PICK p \in (Blocks \ heap) \cup {Nil} :
          heap' = heap \cup ({p} \ {Nil}) /\ Iteration("alloc", p)
        BY <1>1 DEF Malloc
  <2>3. Due' = Due \cup {p} /\ Distinct'
        BY <2>1, <2>2, DueGrows DEF OnceInv
  <2>4. heap' = Due' \ {Nil}
        BY <2>1, <2>2, <2>3 DEF OnceInv
  <2> QED
      BY <2>1, <2>3, <2>4 DEF OnceInv
<1>2. CASE Free
  <2>1. /\ stage = "malloc" /\ op = "free" /\ i < BatchSize /\ stage' = stage /\ held' = held
        /\ heap' = heap \ {ptrs[i]} /\ Iteration("free", ptrs[i])
        BY <1>2 DEF Free, InLoop, Iteration, pool
  <2>2. Due' \ {Nil} = (Due \ {Nil}) \ {ptrs[i]} /\ Distinct'
        BY <2>1, DueShrinks DEF OnceInv
  <2> QED
      BY <2>1, <2>2 DEF OnceInv
<1>3. CASE PoolAllocate
  <2>1. /\ stage = "pool" /\ op = "alloc" /\ i < BatchSize /\ stage' = stage /\ heap' = heap
        /\ Iteration("alloc", ret')
        BY <1>3 DEF PoolAllocate, InLoop, Iteration
  <2>2. i \in 0 .. BatchSize - 1 /\ BatchSize \in Nat \ {0} /\ b \in Nat
        BY <2>1, LoopBounds DEF TimesInv, Shape
  <2>3. /\ free_list_ = Nth(BatchSize, b, i)
        /\ \A k \in 0 .. i - 1 : ptrs[k] = Nth(BatchSize, b, k)
        BY <2>1 DEF PoolInv, AllocChain
  <2>4. free_list_ \in Nat /\ \A k \in 0 .. i - 1 : ptrs[k] # free_list_
    <3>1. Nth(BatchSize, b, i) \in 0 .. BatchSize - 1
          BY <2>2, NthFacts
    <3>2. \A k \in 0 .. BatchSize - 1 : k # i => Nth(BatchSize, b, k) # Nth(BatchSize, b, i)
          BY <2>2, NthFacts
    <3>3. \A k \in 0 .. i - 1 : k \in 0 .. BatchSize - 1 /\ k # i
          BY <2>2
    <3> QED
        BY <2>3, <3>1, <3>2, <3>3
  <2>5. free_list_ # Nil /\ free_list_ \notin Due
        BY <2>1, <2>2, <2>4, BenchmarkAssumption DEF Due, Outstanding
  <2>6. ret' = free_list_ /\ held' = held \cup {ret'}
        BY <1>3, <2>5, PoolCalls
  <2>7. Due' = Due \cup {ret'} /\ Distinct'
        BY <2>1, <2>5, <2>6, DueGrows DEF OnceInv
  <2> QED
      BY <2>1, <2>5, <2>6, <2>7 DEF OnceInv
<1>4. CASE PoolDeallocate
  <2>1. /\ stage = "pool" /\ op = "free" /\ i < BatchSize /\ stage' = stage /\ heap' = heap
        /\ held' = held \ {ptrs[i]} /\ Iteration("free", ptrs[i])
        BY <1>4, PoolCalls DEF PoolDeallocate, InLoop, Iteration
  <2>2. Due' \ {Nil} = (Due \ {Nil}) \ {ptrs[i]} /\ Due' \subseteq Due /\ Distinct'
        BY <2>1, DueShrinks DEF OnceInv
  <2>3. Nil \notin Due
        BY <2>1 DEF OnceInv
  <2> QED
      BY <2>1, <2>2, <2>3 DEF OnceInv
<1>5. CASE ArenaAllocate \/ ArenaReset
      BY <1>5 DEF ArenaAllocate, ArenaReset, InLoop, Iteration, pool, OnceInv
<1>6. CASE StopClock
  <2>1. /\ op = "alloc" /\ op' = "free" /\ i = BatchSize /\ i' = 0
        /\ UNCHANGED <<test, stage, ptrs, heap, held>>
        BY <1>6 DEF StopClock, pool
  <2>2. BatchSize' = BatchSize
        BY <2>1, BatchSizeKept
  <2>3. Outstanding' = Outstanding
        BY <2>1, <2>2 DEF Outstanding
  <2> QED
      BY <2>1, <2>3 DEF OnceInv, Due, Distinct
<1>7. CASE NextBatch \/ StartPool \/ StartArena \/ Finish
  <2>1. /\ op = "free" /\ i = BatchSize /\ op' = "alloc" /\ i' = 0
        /\ UNCHANGED <<heap, held>>
        BY <1>7 DEF NextBatch, StartPool, StartArena, Finish, BatchOver, pool
  <2>2. Outstanding = {} /\ Outstanding' = {}
    <3>1. BatchSize \in Nat
          BY LoopBounds
    <3>2. Outstanding = BatchSize .. BatchSize - 1 /\ Outstanding' = 0 .. 0 - 1
          BY <2>1 DEF Outstanding
    <3> QED
        BY <3>1, <3>2
  <2>3. Due = {} /\ Due' = {} /\ Distinct'
        BY <2>2 DEF Due, Distinct
  <2> QED
      BY <2>1, <2>3 DEF OnceInv
<1>8. CASE NextTest \/ Report
  <2>1. /\ stage = "over" /\ stage' # "pool"
        /\ UNCHANGED <<op, i, heap, held>>
        BY <1>8 DEF NextTest, Report, pool
  <2>2. op = "alloc" /\ i = 0
        BY <2>1 DEF TimesInv, Shape, Allocators
  <2>3. Outstanding' = {}
        BY <2>1, <2>2 DEF Outstanding
  <2>4. Due' = {} /\ Distinct'
        BY <2>3 DEF Due, Distinct
  <2> QED
      BY <2>1, <2>4 DEF OnceInv
<1>9. CASE UNCHANGED vars
  <2>1. UNCHANGED <<test, stage, op, i, ptrs, heap, held>>
        BY <1>9 DEF vars, calls, driver, pool
  <2>2. Outstanding' = Outstanding
        BY <2>1, BatchSizeKept DEF Outstanding
  <2> QED
      BY <2>1, <2>2 DEF OnceInv, Due, Distinct
<1> QED
    BY <1>1, <1>2, <1>3, <1>4, <1>5, <1>6, <1>7, <1>8, <1>9 DEF Next, Calls, Ended

(***************************************************************************)
(* For any batch size and number of batches, and whatever malloc returns:  *)
(* each block and each pool object a test was given is given back once, no *)
(* nullptr goes to deallocate(), and nothing is kept past its test.        *)
(***************************************************************************)
THEOREM EverythingGoesBackOnce == Spec => []EachReturnedOnce
<1>1. Init => OnceInv
  <2> SUFFICES ASSUME Init PROVE OnceInv
      OBVIOUS
  <2>1. Outstanding = {}
        BY DEF Init, Outstanding
  <2> QED
      BY <2>1 DEF Init, OnceInv, Due, Distinct
<1>2. Init => PoolInv
      BY DEF Init, PoolInv
<1>3. OnceInv => EachReturnedOnce
  <2> SUFFICES ASSUME OnceInv PROVE EachReturnedOnce
      OBVIOUS
  <2> DEFINE blocks == {k \in Outstanding : ptrs[k] # Nil}
  <2>1. {ptrs[k] : k \in blocks} = Due \ {Nil}
        BY DEF Due
  <2>2. stage \in {"malloc", "pool"} => \A j, k \in blocks : ptrs[j] = ptrs[k] => j = k
        BY DEF OnceInv, Distinct
  <2>3. /\ heap = IF stage = "malloc" THEN {ptrs[k] : k \in blocks} ELSE {}
        /\ held = IF stage = "pool" THEN {ptrs[k] : k \in Outstanding} ELSE {}
        BY <2>1 DEF OnceInv, Due
  <2> QED
      BY <2>2, <2>3 DEF EachReturnedOnce
<1> QED
    BY <1>1, <1>2, <1>3, OnceStep, PoolStep, TimesAlways, PtrsAlways, PTL DEF Spec
=============================================================================
