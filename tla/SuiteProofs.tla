----------------------------- MODULE SuiteProofs ----------------------------
(***************************************************************************)
(* The composition, for every size of everything: whichever benchmarks run *)
(* one after the other, however their mappings fail and whatever other     *)
(* processes do, each finds no buffer mapped and its own locals as at the  *)
(* start, and the kernel's pool of huge pages is never overdrawn.  With it *)
(* what the two benchmarks with buffers of mmap promise: the TLB times are *)
(* of the same reads and of no page fault, and the NUMA rows are of their  *)
(* nodes.  PrefetchProofs and PatternProofs go on with the other parts.    *)
(*                                                                         *)
(* Induction over the natural numbers is taken for a set of them at a time *)
(* (Induction), from the least element of its complement.                  *)
(***************************************************************************)
EXTENDS Suite, SequenceTheorems, FiniteSetTheorems, WellFoundedInduction, TLAPS

\* A set of natural numbers has a least element.
LEMMA LeastElement ==
  ASSUME NEW S \in SUBSET Nat, S # {}
  PROVE  \E m \in S : \A k \in S : m <= k
<1> DEFINE R == OpToRel(<, Nat)
<1>1. IsWellFoundedOn(R, Nat)
      BY NatLessThanWellFounded
<1>2. ASSUME NEW k \in Nat, NEW m \in Nat, <<k, m>> \notin R PROVE m <= k
      BY <1>2 DEF OpToRel
<1> HIDE DEF R
<1>3. PICK m \in S : \A y \in S : ~ (<<y, m>> \in R)
      BY <1>1, WFMin, Zenon
<1> QED
    BY <1>2, <1>3

\* Induction over the natural numbers, for a set of them.
LEMMA Induction ==
  ASSUME NEW S \in SUBSET Nat, 0 \in S, \A k \in S : k + 1 \in S
  PROVE  S = Nat
<1> SUFFICES ASSUME Nat \ S # {} PROVE FALSE
    OBVIOUS
<1>1. PICK m \in Nat \ S : \A k \in Nat \ S : m <= k
      BY LeastElement
<1>2. m - 1 \in Nat /\ m - 1 \in S /\ (m - 1) + 1 = m
      BY <1>1
<1> QED
    BY <1>1, <1>2

-----------------------------------------------------------------------------

Unmapped == \A k \in Kinds : mapped[k] = 0

\* What the TLB benchmark holds at each of its steps.
TlbHolds ==
  /\ pc \in {"begin", "map", "touch", "warmup", "measure", "unmap", "returned", "over"}
  /\ \A k \in Kinds :
       mapped[k] = IF k = kind /\ pc \in {"touch", "warmup", "measure", "unmap"} THEN 1 ELSE 0

\* What the NUMA benchmark holds at each of its steps.
NumaHolds ==
  /\ pc \in {"begin", "detect", "map", "bind", "touch", "measure", "returned", "over"}
  /\ mapped["regular"] = IF pc \in {"bind", "touch", "measure"} THEN 1 ELSE 0
  /\ mapped["huge"] = 0

\* pc belongs to the benchmark main() is in, and every other one is at rest.
Holds ==
  /\ main # "inside" => pc = "begin"
  /\ ~ Inside("tlb") /\ ~ Inside("numa") => Unmapped
  /\ Inside("tlb") => TlbHolds
  /\ Inside("numa") => NumaHolds

PoolInv ==
  /\ kind \in Kinds
  /\ mapped \in [Kinds -> Nat] /\ others \in 0 .. pool_size
  /\ HugePagesLeft >= 0

MappedInv == PoolInv /\ Holds

-----------------------------------------------------------------------------
\* A buffer of huge pages at most is out of the pool.
LEMMA LeftOf ==
  ASSUME NEW m \in [Kinds -> Nat], m["huge"] \in {0, 1}, NEW o \in 0 .. pool_size
  PROVE  pool_size - m.huge * buffer_pages - o
           = IF m["huge"] = 0 THEN pool_size - o ELSE pool_size - buffer_pages - o
<1>1. buffer_pages \in Nat /\ pool_size \in Nat /\ o \in Nat
      BY PoolAssumption
<1>2. CASE m["huge"] = 0
      BY <1>1, <1>2
<1>3. CASE m["huge"] = 1
      BY <1>1, <1>3
<1> QED
    BY <1>2, <1>3

\* Steps of main() between benchmarks, and of benchmarks without a buffer.
LEMMA RestStep ==
  ASSUME MappedInv, UNCHANGED <<mapped, others, kind>>,
         (main # "inside") \/ (~ Inside("tlb") /\ ~ Inside("numa"))
           \/ (main' # "inside" /\ pc = "over"),
         (main' # "inside" \/ (main # "inside" /\ pc' = pc))
           \/ (UNCHANGED <<main, at>> /\ main = "inside"),
         main' # "inside" => pc' = "begin"
  PROVE  MappedInv'
<1> USE DEF MappedInv
<1>1. PoolInv'
      BY DEF PoolInv, HugePagesLeft
<1>2. Unmapped
      BY DEF Holds, Unmapped, TlbHolds, NumaHolds, Kinds, Inside
<1>3. Unmapped'
      BY <1>2 DEF Unmapped
<1>4. ASSUME pc' = "begin" PROVE Holds'
  <2>1. mapped'["regular"] = 0 /\ mapped'["huge"] = 0 /\ \A k \in Kinds : mapped'[k] = 0
        BY <1>3 DEF Unmapped, Kinds
  <2>2. TlbHolds' /\ NumaHolds'
        BY <1>4, <2>1 DEF TlbHolds, NumaHolds
  <2> QED
      BY <1>3, <1>4, <2>2 DEF Holds
<1>5. CASE main' # "inside"
      BY <1>1, <1>4, <1>5
<1>6. CASE main # "inside" /\ pc' = pc
      BY <1>1, <1>4, <1>6 DEF Holds
<1>7. CASE UNCHANGED <<main, at>> /\ main = "inside" /\ ~ Inside("tlb") /\ ~ Inside("numa")
  <2>1. ~ Inside("tlb")' /\ ~ Inside("numa")' /\ main' = "inside"
        BY <1>7 DEF Inside, Part
  <2> QED
      BY <1>1, <1>3, <2>1 DEF Holds
<1> QED
    BY <1>1, <1>5, <1>6, <1>7

LEMMA TlbStep == MappedInv /\ TlbRuns => MappedInv'
<1> SUFFICES ASSUME MappedInv, TlbRuns PROVE MappedInv'
    OBVIOUS
<1> USE DEF MappedInv
<1>1. Inside("tlb") /\ UNCHANGED <<main, at>> /\ Tlb!Run
      BY DEF TlbRuns, args
<1>2. Inside("tlb")' /\ ~ Inside("numa")' /\ main' = "inside"
      BY <1>1 DEF Inside, Part
<1>3. TlbHolds /\ PoolInv
      BY <1>1 DEF Holds
<1> SUFFICES PoolInv' /\ TlbHolds'
    BY <1>2 DEF Holds
<1>4. ASSUME UNCHANGED <<mapped, others, kind>>,
             (pc \in {"begin", "map", "returned"} /\ pc' \in {"begin", "map", "returned", "over"})
             \/ (pc \in {"touch", "warmup", "measure"} /\ pc' \in {"warmup", "measure", "unmap"})
      PROVE  PoolInv' /\ TlbHolds'
      BY <1>3, <1>4 DEF PoolInv, HugePagesLeft, TlbHolds
<1>5. CASE Tlb!Begin \/ Tlb!MapFails
      BY <1>4, <1>5 DEF Tlb!Begin, Tlb!MapFails, Tlb!NotMapped
<1>6. CASE Tlb!Touch \/ Tlb!Warmup \/ Tlb!StartClock \/ Tlb!Measure \/ Tlb!StopClock
      BY <1>4, <1>6 DEF Tlb!Touch, Tlb!Warmup, Tlb!StartClock, Tlb!Measure, Tlb!StopClock, Tlb!Read
<1>7. CASE Tlb!Return
  <2>1. kind' \in Kinds /\ pc' = "over" /\ pc = "returned" /\ UNCHANGED <<mapped, others>>
        BY <1>7 DEF Tlb!Return, Kinds
  <2> QED
      BY <1>3, <2>1 DEF PoolInv, HugePagesLeft, TlbHolds
<1>8. CASE Tlb!Map
  <2>1. /\ pc = "map" /\ pc' = "touch" /\ kind' = kind /\ others' = others
        /\ mapped' = [mapped EXCEPT ![kind] = @ + 1]
        /\ kind = "huge" => HugePagesLeft >= buffer_pages
        BY <1>8 DEF Tlb!Map, Tlb!Mapped, Tlb!CanMap, Tlb!HugePagesLeft, HugePagesLeft
  <2>2. kind \in Kinds /\ mapped \in [Kinds -> Nat] /\ others \in 0 .. pool_size
        BY <1>3 DEF PoolInv
  <2>3. mapped' \in [Kinds -> Nat]
        BY <2>1, <2>2
  <2>4. \A k \in Kinds : mapped[k] = 0 /\ mapped'[k] = IF k = kind THEN 1 ELSE 0
        BY <1>3, <2>1, <2>2 DEF TlbHolds
  <2>5. TlbHolds'
        BY <2>1, <2>4 DEF TlbHolds
  <2>6. HugePagesLeft = pool_size - others
        BY <2>2, <2>4, LeftOf DEF HugePagesLeft, Kinds
  <2>7. HugePagesLeft' = IF kind = "huge" THEN pool_size - buffer_pages - others
                         ELSE pool_size - others
    <3>1. mapped'["huge"] = IF kind = "huge" THEN 1 ELSE 0
          BY <2>4 DEF Kinds
    <3>2. HugePagesLeft' = pool_size - mapped'.huge * buffer_pages - others
          BY <2>1 DEF HugePagesLeft
    <3>3. mapped'["huge"] \in {0, 1}
          BY <3>1
    <3>4. HugePagesLeft' = IF mapped'["huge"] = 0 THEN pool_size - others
                           ELSE pool_size - buffer_pages - others
          BY <2>2, <2>3, <3>2, <3>3, LeftOf
    <3> QED
        BY <3>1, <3>4
  <2>8. HugePagesLeft' >= 0
    <3>1. pool_size \in Nat /\ others \in Nat /\ buffer_pages \in Nat
          BY <2>2, PoolAssumption
    <3>2. others <= pool_size
          BY <2>2, PoolAssumption
    <3> QED
        BY <2>1, <2>6, <2>7, <3>1, <3>2
  <2> QED
      BY <2>1, <2>2, <2>3, <2>5, <2>8 DEF PoolInv
<1>9. CASE Tlb!UnmapRegular \/ Tlb!UnmapHuge
  <2>1. /\ pc = "unmap" /\ pc' \in {"map", "returned"} /\ kind' \in Kinds /\ others' = others
        /\ mapped' = [mapped EXCEPT ![kind] = @ - 1]
        BY <1>3, <1>9 DEF Tlb!UnmapRegular, Tlb!UnmapHuge, Tlb!free_pages, PoolInv, Kinds
  <2>2. kind \in Kinds /\ mapped \in [Kinds -> Nat] /\ others \in 0 .. pool_size
        BY <1>3 DEF PoolInv
  <2>3. /\ mapped' \in [Kinds -> Nat] /\ \A k \in Kinds : mapped'[k] = 0
        BY <1>3, <2>1, <2>2 DEF TlbHolds
  <2>4. HugePagesLeft' = pool_size - others
        BY <2>1, <2>2, <2>3, LeftOf DEF HugePagesLeft, Kinds
  <2>5. HugePagesLeft' >= 0
        BY <2>2, <2>4, PoolAssumption
  <2>6. TlbHolds'
        BY <2>1, <2>3 DEF TlbHolds
  <2> QED
      BY <2>1, <2>2, <2>3, <2>5, <2>6 DEF PoolInv
<1> QED
    BY <1>1, <1>5, <1>6, <1>7, <1>8, <1>9 DEF Tlb!Run

LEMMA NumaStep == MappedInv /\ NumaRuns => MappedInv'
<1> SUFFICES ASSUME MappedInv, NumaRuns PROVE MappedInv'
    OBVIOUS
<1> USE DEF MappedInv
<1>1. Inside("numa") /\ UNCHANGED <<main, at, kind>> /\ Numa!Run
      BY DEF NumaRuns, args, LocalsKept, ofTlb
<1>2. Inside("numa")' /\ ~ Inside("tlb")' /\ main' = "inside"
      BY <1>1 DEF Inside, Part
<1>3. NumaHolds /\ PoolInv
      BY <1>1 DEF Holds
<1> SUFFICES PoolInv' /\ NumaHolds'
    BY <1>2 DEF Holds
<1>4. ASSUME UNCHANGED <<mapped, others>>,
             (pc \in {"begin", "detect", "map", "returned"}
                /\ pc' \in {"detect", "map", "returned", "over"})
               \/ (pc \in {"bind", "touch"} /\ pc' \in {"touch", "measure"})
      PROVE  PoolInv' /\ NumaHolds'
      BY <1>1, <1>3, <1>4 DEF PoolInv, HugePagesLeft, NumaHolds
<1>5. CASE Numa!Begin \/ Numa!detect_numa_nodes \/ Numa!MapFails \/ Numa!LoopEnds \/ Numa!Return
      BY <1>4, <1>5 DEF Numa!Begin, Numa!detect_numa_nodes, Numa!MapFails, Numa!NotMapped,
                        Numa!LoopEnds, Numa!Return
<1>6. CASE Numa!Bind \/ Numa!Touch
      BY <1>4, <1>6 DEF Numa!Bind, Numa!Touch
<1>7. ASSUME others' = others, mapped' \in [Kinds -> Nat], mapped'["huge"] = mapped["huge"]
      PROVE  PoolInv'
  <2>1. HugePagesLeft' = HugePagesLeft
        BY <1>7 DEF HugePagesLeft
  <2> QED
      BY <1>1, <1>3, <1>7, <2>1 DEF PoolInv
<1>8. CASE Numa!Map
  <2>1. /\ pc = "map" /\ pc' \in {"bind", "touch"} /\ others' = others
        /\ mapped' = [mapped EXCEPT !["regular"] = @ + 1]
        BY <1>8 DEF Numa!Map, Numa!Mapped
  <2>2. /\ mapped' \in [Kinds -> Nat] /\ mapped'["huge"] = mapped["huge"]
        /\ mapped'["regular"] = 1
        BY <1>3, <2>1 DEF PoolInv, Kinds, NumaHolds
  <2> QED
      BY <1>3, <1>7, <2>1, <2>2 DEF NumaHolds
<1>9. CASE Numa!BindFails \/ Numa!Measure
  <2>1. /\ pc \in {"bind", "measure"} /\ pc' \in {"map", "returned"} /\ others' = others
        /\ mapped' = [mapped EXCEPT !["regular"] = @ - 1]
        BY <1>9 DEF Numa!BindFails, Numa!Measure, Numa!free_pages
  <2>2. /\ mapped' \in [Kinds -> Nat] /\ mapped'["huge"] = mapped["huge"]
        /\ mapped'["regular"] = 0
        BY <1>3, <2>1 DEF PoolInv, Kinds, NumaHolds
  <2> QED
      BY <1>3, <1>7, <2>1, <2>2 DEF NumaHolds
<1> QED
    BY <1>1, <1>5, <1>6, <1>8, <1>9 DEF Numa!Run

\* Other processes never take more than what is left.
LEMMA EnvironmentStep == MappedInv /\ Environment => MappedInv'
<1> SUFFICES ASSUME MappedInv, Environment PROVE MappedInv'
    OBVIOUS
<1> USE DEF MappedInv
<1>1. /\ UNCHANGED <<mapped, kind, main, at, pc>>
      /\ \E k \in 0 .. pool_size : k - others <= HugePagesLeft /\ others' = k
      BY DEF Environment, OthersMove, args, LocalsKept, ofTlb
<1>2. PoolInv'
  <2>1. mapped.huge * buffer_pages \in Nat
        BY PoolAssumption DEF PoolInv, Kinds
  <2>2. PICK k \in 0 .. pool_size : k - others <= HugePagesLeft /\ others' = k
        BY <1>1
  <2> DEFINE h == mapped.huge * buffer_pages
  <2>3. HugePagesLeft = pool_size - h - others /\ HugePagesLeft' = pool_size - h - k
        BY <1>1, <2>2 DEF HugePagesLeft
  <2>4. h \in Nat /\ pool_size \in Nat /\ others \in Nat /\ k \in Nat
        BY <2>1, PoolAssumption DEF PoolInv
  <2> HIDE DEF h
  <2>5. HugePagesLeft' >= 0
        BY <2>2, <2>3, <2>4
  <2> QED
      BY <1>1, <2>2, <2>5 DEF PoolInv
<1>3. Holds'
      BY <1>1 DEF Holds, Inside, Part, Unmapped, TlbHolds, NumaHolds
<1> QED
    BY <1>2, <1>3

LEMMA MappedStep == MappedInv /\ [Next]_vars => MappedInv'
<1> SUFFICES ASSUME MappedInv, [Next]_vars PROVE MappedInv'
    OBVIOUS
<1>1. CASE Usage \/ Start \/ Skip \/ Call \/ Finish
  <2>1. /\ UNCHANGED <<mapped, others, kind, pc>> /\ main # "inside"
        BY <1>1 DEF Usage, Start, Skip, Call, Finish, OnlyMain, LocalsKept, ofTlb
  <2>2. main' # "inside" => pc' = "begin"
        BY <2>1 DEF MappedInv, Holds
  <2> QED
      BY <2>1, <2>2, RestStep
<1>2. CASE Back
  <2>1. /\ UNCHANGED <<mapped, others, kind>> /\ main' # "inside" /\ pc = "over" /\ pc' = "begin"
        BY <1>2 DEF Back, OnlyMain, LocalsKept, ofTlb
  <2> QED
      BY <2>1, RestStep
<1>3. CASE Elsewhere
  <2>1. /\ UNCHANGED <<mapped, others, kind, main, at>> /\ main = "inside"
        /\ ~ Inside("tlb") /\ ~ Inside("numa")
        BY <1>3 DEF Elsewhere, InsideElsewhere, Inside, OnlyMain, LocalsKept, ofTlb
  <2> QED
      BY <2>1, RestStep
<1>4. CASE Terminate
  <2>1. /\ UNCHANGED <<mapped, others, kind, pc>> /\ pc = "begin" /\ main' = "terminated"
        /\ ~ Inside("tlb") /\ ~ Inside("numa")
        BY <1>4 DEF Terminate, InsideElsewhere, Inside, OnlyMain, LocalsKept, ofTlb
  <2> QED
      BY <2>1, RestStep
<1>5. CASE TlbRuns
      BY <1>5, TlbStep
<1>6. CASE NumaRuns
      BY <1>6, NumaStep
<1>7. CASE BranchRuns \/ AccessRuns \/ SequentialRuns \/ ListRuns \/ StridedRuns
  <2>1. /\ UNCHANGED <<mapped, others, kind, main, at>> /\ main = "inside"
        /\ ~ Inside("tlb") /\ ~ Inside("numa")
        BY <1>7 DEF BranchRuns, AccessRuns, SequentialRuns, ListRuns, StridedRuns, Inside,
                    LocalsKept, Unmapping, args, ofTlb
  <2> QED
      BY <2>1, RestStep
<1>8. CASE Environment
      BY <1>8, EnvironmentStep
<1>9. CASE UNCHANGED vars
  <2>1. UNCHANGED <<mapped, others, kind, main, at, pc>>
        BY <1>9 DEF vars, args, ofTlb
  <2> QED
      BY <2>1 DEF MappedInv, PoolInv, HugePagesLeft, Holds, Inside, Part, Unmapped, TlbHolds,
                  NumaHolds
<1> QED
    BY <1>1, <1>2, <1>3, <1>4, <1>5, <1>6, <1>7, <1>8, <1>9 DEF Next, Run, Ended

LEMMA MappedStart == Init => MappedInv
<1> SUFFICES ASSUME Init PROVE MappedInv
    OBVIOUS
<1>1. /\ main = "start" /\ pc = "begin" /\ kind = "regular"
      /\ mapped = [k \in Kinds |-> 0] /\ others \in 0 .. pool_size
      BY DEF Init, Tlb!Init, Tlb!PagesInit, Tlb!Kinds, Kinds
<1>2. mapped \in [Kinds -> Nat] /\ mapped["huge"] = 0 /\ Unmapped
      BY <1>1 DEF Kinds, Unmapped
<1>3. HugePagesLeft = pool_size - others
      BY <1>1, <1>2, LeftOf DEF HugePagesLeft
<1>4. HugePagesLeft >= 0
      BY <1>1, <1>3, PoolAssumption
<1> QED
    BY <1>1, <1>2, <1>4 DEF MappedInv, PoolInv, Holds, Inside, Kinds

\* Each benchmark of the suite gives back what it mapped before the next one.
THEOREM EveryBufferReturned == Spec => []BuffersReturned
<1>1. ASSUME MappedInv PROVE BuffersReturned
  <2>1. HugePagesLeft >= 0 /\ mapped \in [Kinds -> Nat]
        BY <1>1 DEF MappedInv, PoolInv
  <2>2. ASSUME main # "inside" PROVE mapped = [k \in Kinds |-> 0]
    <3>1. \A k \in Kinds : mapped[k] = 0
          BY <1>1, <2>2 DEF MappedInv, Holds, Inside, Unmapped
    <3> QED
        BY <2>1, <3>1
  <2>3. ASSUME Inside("tlb") PROVE Tlb!BuffersReturned
    <3>1. TlbHolds /\ kind \in Kinds
          BY <1>1, <2>3 DEF MappedInv, Holds, PoolInv
    <3>2. mapped.regular + mapped.huge <= 1
          BY <3>1 DEF TlbHolds, Kinds
    <3>3. ASSUME pc \in {"begin", "returned", "over"} PROVE mapped = [k \in Kinds |-> 0]
      <4>1. \A k \in Kinds : mapped[k] = 0
            BY <3>1, <3>3 DEF TlbHolds
      <4> QED
          BY <2>1, <4>1
    <3> QED
        BY <3>2, <3>3 DEF Tlb!BuffersReturned, Tlb!Kinds, Kinds
  <2>4. ASSUME Inside("numa") PROVE Numa!BuffersReturned
        BY <1>1, <2>4 DEF MappedInv, Holds, NumaHolds, Numa!BuffersReturned
  <2> QED
      BY <2>1, <2>2, <2>3, <2>4 DEF BuffersReturned
<1> QED
    BY <1>1, MappedStart, MappedStep, PTL DEF Spec

-----------------------------------------------------------------------------
\* Each benchmark finds the counters its loops use at 0.
CounterInv ==
  /\ pc \in {"begin", "over"} => i = 0
  /\ Inside("numa") => i = 0
  /\ Inside("branch") \/ Inside("access") => pc = "pass" \/ i = 0
  /\ Inside("list") \/ Inside("sequential and random") => pc # "returned" \/ i = 0
  /\ iter = 0 \/ (pc = "pass" /\ (Inside("branch") \/ Inside("access")))

LEMMA CounterStep == MappedInv /\ CounterInv /\ [Next]_vars => CounterInv'
<1> SUFFICES ASSUME MappedInv, CounterInv, [Next]_vars PROVE CounterInv'
    OBVIOUS
<1>0. main # "inside" => pc = "begin"
      BY DEF MappedInv, Holds
<1>1. CASE Usage \/ Start \/ Skip \/ Call \/ Finish \/ Terminate
  <2>1. i' = i /\ iter' = iter /\ pc' = pc /\ pc = "begin"
        BY <1>0, <1>1 DEF Usage, Start, Skip, Call, Finish, Terminate, InsideElsewhere, OnlyMain
  <2> QED
      BY <2>1 DEF CounterInv
<1>2. CASE Back \/ Elsewhere
  <2>1. i' = i /\ iter' = iter /\ pc' \in {"begin", "over"} /\ pc \in {"begin", "over"}
        BY <1>2 DEF Back, Elsewhere, InsideElsewhere, OnlyMain
  <2> QED
      BY <2>1 DEF CounterInv
<1>4. CASE TlbRuns
  <2>1. Inside("tlb") /\ UNCHANGED <<main, at, iter>> /\ Tlb!Run
        BY <1>4 DEF TlbRuns, args
  <2>2. pc' \in {"begin", "over"} => i' = 0
        BY <2>1 DEF Tlb!Run, Tlb!Begin, Tlb!Map, Tlb!MapFails, Tlb!Touch, Tlb!Warmup,
          Tlb!StartClock, Tlb!Measure, Tlb!StopClock, Tlb!UnmapRegular, Tlb!UnmapHuge, Tlb!Return
  <2> QED
      BY <2>1, <2>2 DEF CounterInv, Inside, Part
<1>5. CASE NumaRuns
  <2>1. Inside("numa") /\ UNCHANGED <<main, at, i, iter>>
        BY <1>5 DEF NumaRuns, args
  <2> QED
      BY <2>1 DEF CounterInv, Inside, Part
<1>6. CASE BranchRuns
  <2>1. Inside("branch") /\ UNCHANGED <<main, at>> /\ Branch!Run
        BY <1>6 DEF BranchRuns, Unmapping, args
  <2>2. pc' # "pass" => i' = 0 /\ iter' = 0
        BY <2>1 DEF CounterInv, Branch!Run, Branch!Begin, Branch!Element, Branch!NextPass,
          Branch!StopClock, Branch!NextLoop, Branch!Sort, Branch!Redraw, Branch!Mask, Branch!Return
  <2> QED
      BY <2>1, <2>2 DEF CounterInv, Inside, Part
<1>7. CASE AccessRuns
  <2>1. Inside("access") /\ UNCHANGED <<main, at>> /\ Access!Run
        BY <1>7 DEF AccessRuns, Unmapping, args
  <2>2. pc' # "pass" => i' = 0 /\ iter' = 0
        BY <2>1 DEF CounterInv, Access!Run, Access!Begin, Access!Setup, Access!Element,
          Access!NextPass, Access!NextLoop, Access!NextRow, Access!Return
  <2> QED
      BY <2>1, <2>2 DEF CounterInv, Inside, Part
<1>8. CASE SequentialRuns
  <2>1. Inside("sequential and random") /\ UNCHANGED <<main, at, iter>> /\ Sequential!Run
        BY <1>8 DEF SequentialRuns, Unmapping, args
  <2>2. pc' \in {"begin", "returned", "over"} => i' = 0
        BY <2>1 DEF CounterInv, Sequential!Run, Sequential!Begin, Sequential!Sequential,
          Sequential!Draw, Sequential!Random, Sequential!StopClock, Sequential!Return
  <2> QED
      BY <2>1, <2>2 DEF CounterInv, Inside, Part
<1>9. CASE ListRuns
  <2>1. Inside("list") /\ UNCHANGED <<main, at, iter>> /\ List!Run
        BY <1>9 DEF ListRuns, Unmapping, args
  <2>2. pc' \in {"begin", "returned", "over"} => i' = 0
        BY <2>1 DEF CounterInv, List!Run, List!Begin, List!Link, List!Close, List!Warmup,
          List!StartClock, List!Measure, List!NextWalk, List!Finish, List!Return
  <2> QED
      BY <2>1, <2>2 DEF CounterInv, Inside, Part
<1>10. CASE StridedRuns
  <2>1. Inside("strided") /\ UNCHANGED <<main, at, iter>> /\ Strided!Run
        BY <1>10 DEF StridedRuns, Unmapping, args
  <2>2. pc' \in {"begin", "over"} => i' = 0
        BY <2>1 DEF Strided!Run, Strided!Begin, Strided!Read, Strided!SecondLoop,
          Strided!StopClock, Strided!NextStride
  <2> QED
      BY <2>1, <2>2 DEF CounterInv, Inside, Part
<1>11. CASE Environment \/ UNCHANGED vars
  <2>1. UNCHANGED <<main, at, pc, i, iter>>
        BY <1>11 DEF Environment, args, vars
  <2> QED
      BY <2>1 DEF CounterInv, Inside, Part
<1> QED
    BY <1>1, <1>2, <1>4, <1>5, <1>6, <1>7, <1>8, <1>9, <1>10, <1>11 DEF Next, Run, Ended

LEMMA CounterStart == Init => CounterInv
BY DEF Init, Tlb!Init, Branch!Init, CounterInv, Inside

LEMMA MappedAlways == Spec => []MappedInv
BY MappedStart, MappedStep, PTL DEF Spec

LEMMA CounterAlways == Spec => []CounterInv
BY CounterStart, CounterStep, MappedAlways, PTL DEF Spec

Benchmarks ==
  {"tlb", "sequential and random", "numa", "branch", "access", "list", "strided"}

RunsOf(part) ==
  \/ part = "tlb" /\ TlbRuns
  \/ part = "numa" /\ NumaRuns
  \/ part = "branch" /\ BranchRuns
  \/ part = "access" /\ AccessRuns
  \/ part = "list" /\ ListRuns
  \/ part = "strided" /\ StridedRuns
  \/ part = "sequential and random" /\ SequentialRuns

Untouched(part) ==
  /\ part = "tlb" => UNCHANGED ofTlb
  /\ part = "numa" => UNCHANGED ofNuma
  /\ part = "branch" => UNCHANGED ofBranch
  /\ part = "access" => UNCHANGED ofAccess
  /\ part = "list" => UNCHANGED ofList
  /\ part = "strided" => UNCHANGED ofStrided
  /\ part = "sequential and random" => UNCHANGED ofSequential

\* main() comes to a benchmark, or leaves it, or neither.
Enters(part) == ~ Inside(part) /\ Inside(part)' /\ pc' = "begin" /\ i' = 0 /\ iter' = 0
Leaves(part) == Inside(part) /\ ~ Inside(part)' /\ pc = "over"
Waits(part)  == Inside(part) /\ Inside(part)' /\ UNCHANGED <<mapped, pc, i, iter>>
Away(part)   == ~ Inside(part) /\ ~ Inside(part)'

\* The local variables of a benchmark change in its own steps only.
LEMMA LocalsStay ==
  ASSUME [Next]_vars, NEW part \in Benchmarks
  PROVE  RunsOf(part) \/ Untouched(part)
<1> USE DEF LocalsKept, Untouched
<1>1. CASE Usage \/ Start \/ Skip \/ Call \/ Back \/ Finish \/ Elsewhere \/ Terminate
      BY <1>1 DEF Usage, Start, Skip, Call, Back, Finish, Elsewhere, Terminate, OnlyMain
<1>2. CASE TlbRuns
      BY <1>2 DEF TlbRuns, RunsOf
<1>3. CASE NumaRuns
      BY <1>3 DEF NumaRuns, RunsOf
<1>4. CASE BranchRuns
      BY <1>4 DEF BranchRuns, RunsOf
<1>5. CASE AccessRuns
      BY <1>5 DEF AccessRuns, RunsOf
<1>6. CASE ListRuns
      BY <1>6 DEF ListRuns, RunsOf
<1>7. CASE StridedRuns
      BY <1>7 DEF StridedRuns, RunsOf
<1>8. CASE SequentialRuns
      BY <1>8 DEF SequentialRuns, RunsOf
<1>9. CASE Environment \/ UNCHANGED vars
      BY <1>9 DEF Environment, vars
<1> QED
    BY <1>1, <1>2, <1>3, <1>4, <1>5, <1>6, <1>7, <1>8, <1>9 DEF Next, Run, Ended

LEMMA RunsInside ==
  ASSUME NEW part \in Benchmarks, RunsOf(part)
  PROVE  Inside(part) /\ Inside(part)'
BY DEF RunsOf, TlbRuns, NumaRuns, BranchRuns, AccessRuns, SequentialRuns, ListRuns, StridedRuns,
   Unmapping, args, Inside, Part

\* A step of the suite is one of the benchmark, leaves the benchmark alone, or
\* brings main() to it or back from it.
LEMMA PartStep ==
  ASSUME MappedInv, CounterInv, CounterInv', [Next]_vars, NEW part \in Benchmarks, ~ RunsOf(part)
  PROVE  /\ Untouched(part)
         /\ Enters(part) \/ Leaves(part) \/ Waits(part) \/ Away(part)
<1> SUFFICES Enters(part) \/ Leaves(part) \/ Waits(part) \/ Away(part)
    BY LocalsStay
<1>2. main # "inside" => pc = "begin"
      BY DEF MappedInv, Holds
<1>3. CASE Usage \/ Start \/ Skip \/ Finish
      BY <1>3 DEF Usage, Start, Skip, Finish, Inside, Away
<1>4. CASE Call
  <2>1. pc' = "begin" /\ ~ Inside(part)
        BY <1>2, <1>4 DEF Call, Inside
  <2>2. i' = 0 /\ iter' = 0
        BY <2>1 DEF CounterInv
  <2> QED
      BY <2>1, <2>2 DEF Enters, Away
<1>5. CASE Back
      BY <1>5 DEF Back, Leaves, Away, Inside
<1>6. CASE Elsewhere \/ Terminate
  <2>1. /\ Inside("sharing and hierarchy") \/ Inside("allocators")
        /\ main' = "terminated" \/ UNCHANGED <<main, at>>
        BY <1>6 DEF Elsewhere, Terminate, InsideElsewhere
  <2> QED
      BY <2>1 DEF Inside, Part, Benchmarks, Away
<1>7. ASSUME NEW other \in Benchmarks, RunsOf(other) PROVE Away(part)
  <2>1. Inside(other) /\ Inside(other)' /\ other # part
        BY <1>7, RunsInside
  <2> QED
      BY <2>1 DEF Inside, Away
<1>8. CASE TlbRuns \/ NumaRuns \/ BranchRuns \/ AccessRuns \/ ListRuns \/ StridedRuns
           \/ SequentialRuns
      BY <1>7, <1>8 DEF RunsOf, Benchmarks
<1>9. CASE Environment \/ UNCHANGED vars
  <2>1. UNCHANGED <<main, at, mapped, pc, i, iter>>
        BY <1>9 DEF Environment, OthersMove, args, vars
  <2> QED
      BY <2>1 DEF Inside, Part, Waits, Away
<1> QED
    BY <1>3, <1>4, <1>5, <1>6, <1>8, <1>9 DEF Next, Run, Ended

-----------------------------------------------------------------------------
ReadsOfPages == Seq(BufferPages \X BOOLEAN)

\* What is mapped follows from the program counter.
MapInv ==
  /\ pc \in {"begin", "map", "touch", "warmup", "measure", "unmap", "returned", "over"}
  /\ kind \in Tlb!Kinds
  /\ mapped \in [Tlb!Kinds -> Nat]
  /\ \A k \in Tlb!Kinds :
       mapped[k] = IF k = kind /\ pc \in {"touch", "warmup", "measure", "unmap"} THEN 1 ELSE 0

\* All pages of the buffer are there while its reads are timed, and the reads
\* timed so far are those of the first i indices.
ReadInv ==
  /\ pc # "begin" /\ pc # "over" => indices \in [1 .. NUM_ACCESSES -> BufferPages]
  /\ i \in 0 .. NUM_ACCESSES /\ (pc = "warmup" => i <= WARMUP)
  /\ pc \in {"warmup", "measure"} => present = BufferPages
  /\ window \in ReadsOfPages
  /\ pc \in {"begin", "map", "touch", "unmap", "over"} => window = <<>>
  /\ pc = "measure" =>
       /\ Len(window) = i
       /\ \A r \in 1 .. i : window[r] = <<indices[r], TRUE>>

\* A recorded time is of all the reads.
Timed(w) ==
  /\ w \in ReadsOfPages /\ Len(w) = NUM_ACCESSES
  /\ \A r \in 1 .. NUM_ACCESSES : w[r] = <<indices[r], TRUE>>

TimesInv ==
  /\ DOMAIN times = Tlb!Kinds
  /\ pc \in {"begin", "over"} => kind = "regular" /\ times = Tlb!NoTimes
  /\ \A k \in Tlb!Kinds : times[k] = Null \/ Timed(times[k])
  /\ kind = "huge" \/ pc = "unmap" => Timed(times["regular"])
  /\ kind = "huge" /\ pc = "unmap" => Timed(times["huge"])
  /\ said = "penalty" => Timed(times["regular"]) /\ Timed(times["huge"])
  /\ pc \notin {"returned"} => said = "nothing"

-----------------------------------------------------------------------------
\* The pool of huge pages may be refused or granted: the buffers are returned.
LEMMA MapStep == MapInv /\ [Tlb!Next]_Tlb!vars => MapInv'
<1> SUFFICES ASSUME MapInv, [Tlb!Next]_Tlb!vars PROVE MapInv'
    OBVIOUS
<1> USE DEF MapInv, Tlb!Kinds
<1>1. CASE Tlb!Begin
      BY <1>1 DEF Tlb!Begin
<1>2. CASE Tlb!Map
  <2>1. /\ mapped' = [mapped EXCEPT ![kind] = @ + 1] /\ pc = "map"
        /\ pc' = "touch" /\ kind' = kind
        BY <1>2 DEF Tlb!Map, Tlb!Mapped
  <2>2. mapped' \in [Tlb!Kinds -> Nat]
        BY <2>1
  <2>3. \A k \in Tlb!Kinds : mapped'[k] = IF k = kind THEN 1 ELSE 0
        BY <2>1
  <2> QED
      BY <2>1, <2>2, <2>3
<1>3. CASE Tlb!MapFails
      BY <1>3 DEF Tlb!MapFails, Tlb!NotMapped
<1>4. CASE Tlb!Touch
      BY <1>4 DEF Tlb!Touch
<1>5. CASE Tlb!Warmup
      BY <1>5 DEF Tlb!Warmup, Tlb!Read
<1>6. CASE Tlb!StartClock
      BY <1>6 DEF Tlb!StartClock
<1>7. CASE Tlb!Measure
      BY <1>7 DEF Tlb!Measure, Tlb!Read
<1>8. CASE Tlb!StopClock
      BY <1>8 DEF Tlb!StopClock
<1>9. CASE Tlb!UnmapRegular \/ Tlb!UnmapHuge
  <2>1. /\ mapped' = [mapped EXCEPT ![kind] = @ - 1] /\ pc = "unmap"
        /\ pc' \in {"map", "returned"} /\ kind' \in Tlb!Kinds
        BY <1>9 DEF Tlb!UnmapRegular, Tlb!UnmapHuge, Tlb!free_pages
  <2>2. mapped' \in [Tlb!Kinds -> Nat] /\ \A k \in Tlb!Kinds : mapped'[k] = 0
        BY <2>1
  <2> QED
      BY <2>1, <2>2
<1>10. CASE Tlb!Return
       BY <1>10 DEF Tlb!Return
<1>11. CASE Tlb!Environment
       BY <1>11 DEF Tlb!Environment, Tlb!OthersMove, Tlb!locals
<1>12. CASE UNCHANGED Tlb!vars
       BY <1>12 DEF Tlb!vars, Tlb!locals
<1> QED
    BY <1>1, <1>2, <1>3, <1>4, <1>5, <1>6, <1>7, <1>8, <1>9, <1>10, <1>11, <1>12
    DEF Tlb!Next, Tlb!Run, Tlb!Over

\* However the benchmark returns it has unmapped both buffers, and it never
\* holds both at once.
THEOREM BothBuffersReturned == Tlb!Spec => []Tlb!BuffersReturned
<1>1. Tlb!Init => MapInv
      BY DEF Tlb!Init, Tlb!PagesInit, MapInv, Tlb!Kinds
<1>2. MapInv => Tlb!BuffersReturned
      BY DEF MapInv, Tlb!BuffersReturned, Tlb!Kinds
<1> QED
    BY <1>1, <1>2, MapStep, PTL DEF Tlb!Spec

-----------------------------------------------------------------------------
\* A read is appended to the window and changes nothing on pages that are there.
LEMMA OneRead ==
  ASSUME NEW page \in BufferPages, window \in ReadsOfPages, Tlb!Read(page)
  PROVE  /\ window' \in ReadsOfPages /\ Len(window') = Len(window) + 1
         /\ \A r \in 1 .. Len(window) : window'[r] = window[r]
         /\ window'[Len(window) + 1] = <<page, page \in present>>
         /\ present' = present \cup {page} /\ i' = i + 1
<1> DEFINE e == <<page, page \in present>>
<1>1. window' = Append(window, e) /\ present' = present \cup {page} /\ i' = i + 1
      BY DEF Tlb!Read
<1>2. e \in BufferPages \X BOOLEAN
  <2>1. CASE page \in present
    <3>1. (page \in present) = TRUE
          BY <2>1, Zenon
    <3> QED
        BY <3>1
  <2>2. CASE page \notin present
    <3>1. (page \in present) = FALSE
          BY <2>2
    <3> QED
        BY <3>1
  <2> QED
      BY <2>1, <2>2
<1> HIDE DEF e
<1>3. window \in Seq(BufferPages \X BOOLEAN)
      BY DEF ReadsOfPages
<1>4. /\ Append(window, e) \in Seq(BufferPages \X BOOLEAN)
      /\ Len(Append(window, e)) = Len(window) + 1
      /\ \A r \in 1 .. Len(window) : Append(window, e)[r] = window[r]
      /\ Append(window, e)[Len(window) + 1] = e
      BY <1>2, <1>3
<1> QED
    BY <1>1, <1>4 DEF ReadsOfPages, e

LEMMA ReadStep ==
  ASSUME Tlb!TlbAssumption
  PROVE  MapInv /\ ReadInv /\ [Tlb!Next]_Tlb!vars => ReadInv'
<1> SUFFICES ASSUME MapInv, ReadInv, [Tlb!Next]_Tlb!vars PROVE ReadInv'
    OBVIOUS
<1>0. WARMUP \in Nat /\ NUM_ACCESSES \in Nat /\ WARMUP <= NUM_ACCESSES /\ i \in Nat
      BY DEF Tlb!TlbAssumption, ReadInv
<1>e. <<>> \in ReadsOfPages /\ Len(<<>>) = 0
      BY DEF ReadsOfPages
<1>1. CASE Tlb!Begin
      BY <1>0, <1>1 DEF Tlb!Begin, ReadInv
<1>2. CASE Tlb!Map \/ Tlb!MapFails
      BY <1>0, <1>2 DEF Tlb!Map, Tlb!MapFails, ReadInv
<1>4. CASE Tlb!Touch
      BY <1>0, <1>4 DEF Tlb!Touch, ReadInv
<1>5. CASE Tlb!Warmup
  <2>1. /\ pc = "warmup" /\ i < WARMUP /\ Tlb!Read(indices[i + 1])
        /\ pc' = "warmup" /\ indices' = indices
        BY <1>5 DEF Tlb!Warmup
  <2>2. indices[i + 1] \in BufferPages /\ window \in ReadsOfPages /\ present = BufferPages
        BY <1>0, <2>1 DEF ReadInv
  <2>3. i' = i + 1 /\ present' = BufferPages /\ window' \in ReadsOfPages
        BY <2>1, <2>2, OneRead
  <2>4. i' \in 0 .. NUM_ACCESSES /\ i' <= WARMUP
        BY <1>0, <2>1, <2>3
  <2> QED
      BY <2>1, <2>3, <2>4 DEF ReadInv
<1>6. CASE Tlb!StartClock
  <2>1. /\ pc' = "measure" /\ i' = 0 /\ window' = <<>> /\ present' = BufferPages
        /\ indices' = indices /\ pc = "warmup"
        BY <1>6 DEF Tlb!StartClock, ReadInv
  <2> QED
      BY <1>0, <1>e, <2>1 DEF ReadInv
<1>7. CASE Tlb!Measure
  <2>1. /\ pc = "measure" /\ i < NUM_ACCESSES /\ Tlb!Read(indices[i + 1])
        /\ pc' = "measure" /\ indices' = indices
        BY <1>7 DEF Tlb!Measure
  <2>0. i + 1 \in 1 .. NUM_ACCESSES
        BY <1>0, <2>1
  <2>2. /\ indices[i + 1] \in BufferPages /\ window \in ReadsOfPages /\ present = BufferPages
        /\ Len(window) = i /\ \A r \in 1 .. i : window[r] = <<indices[r], TRUE>>
        BY <2>0, <2>1 DEF ReadInv
  <2>3. /\ window' \in ReadsOfPages /\ Len(window') = i + 1
        /\ \A r \in 1 .. i : window'[r] = window[r]
        /\ window'[i + 1] = <<indices[i + 1], indices[i + 1] \in present>>
        /\ present' = BufferPages /\ i' = i + 1
        BY <2>1, <2>2, OneRead
  <2>6. window'[i + 1] = <<indices[i + 1], TRUE>>
    <3>1. (indices[i + 1] \in present) = TRUE
          BY <2>2, Zenon
    <3> QED
        BY <2>3, <3>1, Zenon
  <2>4. ASSUME NEW r \in 1 .. i + 1 PROVE window'[r] = <<indices[r], TRUE>>
    <3>1. r \in 1 .. i \/ r = i + 1
          BY <1>0
    <3> QED
        BY <2>2, <2>3, <2>6, <3>1, Zenon
  <2>5. i' \in 0 .. NUM_ACCESSES
        BY <1>0, <2>1, <2>3
  <2> QED
      BY <2>1, <2>3, <2>4, <2>5 DEF ReadInv
<1>8. CASE Tlb!StopClock
      BY <1>0, <1>e, <1>8 DEF Tlb!StopClock, ReadInv
<1>9. CASE Tlb!UnmapRegular \/ Tlb!UnmapHuge
      BY <1>0, <1>9 DEF Tlb!UnmapRegular, Tlb!UnmapHuge, ReadInv
<1>10. CASE Tlb!Return
       BY <1>0, <1>e, <1>10 DEF Tlb!Return, ReadInv
<1>11. CASE Tlb!Environment \/ UNCHANGED Tlb!vars
       BY <1>11 DEF Tlb!Environment, Tlb!vars, Tlb!locals, ReadInv
<1> QED
    BY <1>1, <1>2, <1>4, <1>5, <1>6, <1>7, <1>8, <1>9, <1>10, <1>11 DEF Tlb!Next, Tlb!Run, Tlb!Over

LEMMA TimesStep ==
  ASSUME Tlb!TlbAssumption
  PROVE  MapInv /\ ReadInv /\ TimesInv /\ [Tlb!Next]_Tlb!vars => TimesInv'
<1> SUFFICES ASSUME MapInv, ReadInv, TimesInv, [Tlb!Next]_Tlb!vars PROVE TimesInv'
    OBVIOUS
<1>1. CASE Tlb!Begin
      BY <1>1 DEF Tlb!Begin, TimesInv, Tlb!NoTimes
<1>2. ASSUME UNCHANGED <<indices, times, kind, said>>,
             pc \notin {"begin", "over", "returned"},
             pc' \notin {"begin", "over", "unmap", "returned"}
      PROVE  TimesInv'
      BY <1>2 DEF TimesInv, Timed
<1>3. CASE Tlb!Map \/ Tlb!Touch \/ Tlb!Warmup \/ Tlb!StartClock \/ Tlb!Measure
      BY <1>2, <1>3 DEF Tlb!Map, Tlb!Touch, Tlb!Warmup, Tlb!StartClock, Tlb!Measure
<1>4. CASE Tlb!MapFails
      BY <1>4 DEF Tlb!MapFails, TimesInv, Timed, MapInv, Tlb!Kinds
<1>5. CASE Tlb!StopClock
  <2>1. /\ times' = [times EXCEPT ![kind] = window] /\ pc = "measure" /\ pc' = "unmap"
        /\ UNCHANGED <<indices, kind, said>> /\ i = NUM_ACCESSES
        BY <1>5 DEF Tlb!StopClock
  <2>2. Timed(window)
        BY <2>1 DEF ReadInv, Timed
  <2>3. DOMAIN times = Tlb!Kinds /\ kind \in Tlb!Kinds /\ said = "nothing"
        BY <2>1 DEF TimesInv, MapInv
  <2>4. times'[kind] = window /\ \A k \in Tlb!Kinds : k # kind => times'[k] = times[k]
        BY <2>1, <2>3
  <2>5. ASSUME NEW w PROVE Timed(w) => /\ w \in ReadsOfPages /\ Len(w) = NUM_ACCESSES
                                       /\ \A r \in 1 .. NUM_ACCESSES : w[r] = <<indices'[r], TRUE>>
        BY <2>1 DEF Timed
  <2>6. \A k \in Tlb!Kinds : times'[k] = Null
          \/ (/\ times'[k] \in ReadsOfPages /\ Len(times'[k]) = NUM_ACCESSES
              /\ \A r \in 1 .. NUM_ACCESSES : times'[k][r] = <<indices'[r], TRUE>>)
        BY <2>2, <2>4, <2>5 DEF TimesInv
  <2>7. Timed(times["regular"])'
    <3>1. CASE kind = "regular"
          BY <2>2, <2>4, <2>5, <3>1 DEF Timed, Tlb!Kinds
    <3>2. CASE kind = "huge"
      <4>1. Timed(times["regular"])
            BY <2>1, <3>2 DEF TimesInv
      <4>2. times'["regular"] = times["regular"]
            BY <2>4, <3>2 DEF Tlb!Kinds
      <4> QED
          BY <2>1, <4>1, <4>2 DEF Timed
    <3> QED
        BY <2>3, <3>1, <3>2 DEF Tlb!Kinds
  <2>8. kind = "huge" => Timed(times["huge"])'
        BY <2>1, <2>2, <2>4 DEF Timed, Tlb!Kinds
  <2>9. DOMAIN times' = Tlb!Kinds /\ said' = "nothing" /\ kind' = kind
        BY <2>1, <2>3
  <2> QED
      BY <2>1, <2>6, <2>7, <2>8, <2>9 DEF TimesInv, Timed
<1>6. CASE Tlb!UnmapRegular \/ Tlb!UnmapHuge
  <2>1. /\ pc = "unmap" /\ UNCHANGED <<indices, times>>
        /\ \/ kind = "regular" /\ kind' = "huge" /\ pc' = "map" /\ said' = said
           \/ kind # "regular" /\ kind' = kind /\ pc' = "returned" /\ said' = "penalty"
        BY <1>6 DEF Tlb!UnmapRegular, Tlb!UnmapHuge
  <2>2. \A w : Timed(w)' <=> Timed(w)
        BY <2>1 DEF Timed
  <2>3. kind # "regular" => kind = "huge"
        BY DEF MapInv, Tlb!Kinds
  <2> QED
      BY <2>1, <2>3 DEF TimesInv, Timed
<1>7. CASE Tlb!Return
      BY <1>7 DEF Tlb!Return, Tlb!NoTimes, TimesInv, Tlb!Kinds
<1>8. CASE Tlb!Environment \/ UNCHANGED Tlb!vars
      BY <1>8 DEF Tlb!Environment, Tlb!vars, Tlb!locals, TimesInv, Timed
<1> QED
    BY <1>1, <1>3, <1>4, <1>5, <1>6, <1>7, <1>8 DEF Tlb!Next, Tlb!Run, Tlb!Over

-----------------------------------------------------------------------------
\* The three together are inductive, also for a composition that takes the
\* steps of this benchmark among others.
TlbInv == MapInv /\ ReadInv /\ TimesInv

LEMMA TlbStarts == ASSUME Tlb!TlbAssumption PROVE Tlb!Init => TlbInv
<1> SUFFICES ASSUME Tlb!Init PROVE TlbInv
    OBVIOUS
<1>1. MapInv
      BY DEF Tlb!Init, Tlb!PagesInit, MapInv, Tlb!Kinds
<1>2. ReadInv
      BY DEF Tlb!Init, ReadInv, ReadsOfPages, Tlb!TlbAssumption
<1>3. TimesInv
      BY DEF Tlb!Init, Tlb!NoTimes, TimesInv, Tlb!Kinds
<1> QED
    BY <1>1, <1>2, <1>3 DEF TlbInv

LEMMA TlbGoesOn == ASSUME Tlb!TlbAssumption PROVE TlbInv /\ [Tlb!Next]_Tlb!vars => TlbInv'
BY MapStep, ReadStep, TimesStep DEF TlbInv

LEMMA TlbAlways == ASSUME Tlb!TlbAssumption PROVE Tlb!Spec => []TlbInv
BY TlbStarts, TlbGoesOn, PTL DEF Tlb!Spec

LEMMA NoFaultInTimes == ASSUME Tlb!TlbAssumption PROVE TlbInv => Tlb!NoFaultTimed
<1> SUFFICES ASSUME TlbInv PROVE Tlb!NoFaultTimed
    OBVIOUS
<1> SUFFICES ASSUME NEW k \in Tlb!Kinds, times[k] # Null, NEW r \in DOMAIN times[k]
             PROVE  times[k][r][2]
    BY DEF Tlb!NoFaultTimed
<1>1. Timed(times[k])
      BY DEF TlbInv, TimesInv
<1>2. r \in 1 .. NUM_ACCESSES
      BY <1>1 DEF Timed, ReadsOfPages
<1>3. times[k][r] = <<indices[r], TRUE>>
      BY <1>1, <1>2 DEF Timed
<1>4. times[k][r][2] = TRUE
      BY <1>3
<1> QED
    BY <1>4, Zenon

LEMMA TimesAlike ==
  ASSUME Null \notin ReadsOfPages PROVE TlbInv => Tlb!PenaltyComparesLikeWithLike
<1> SUFFICES ASSUME TlbInv PROVE Tlb!PenaltyComparesLikeWithLike
    OBVIOUS
<1> SUFFICES ASSUME said = "penalty"
             PROVE  /\ times["regular"] = times["huge"] /\ times["huge"] # Null
                    /\ Len(times["huge"]) = NUM_ACCESSES
    BY DEF Tlb!PenaltyComparesLikeWithLike
<1>1. Timed(times["regular"]) /\ Timed(times["huge"])
      BY DEF TlbInv, TimesInv
<1>2. times["regular"] = times["huge"]
  <2>1. /\ times["regular"] \in Seq(BufferPages \X BOOLEAN)
        /\ times["huge"] \in Seq(BufferPages \X BOOLEAN)
        /\ Len(times["regular"]) = NUM_ACCESSES /\ Len(times["huge"]) = NUM_ACCESSES
        BY <1>1 DEF Timed, ReadsOfPages
  <2>2. ASSUME NEW r \in 1 .. NUM_ACCESSES PROVE times["regular"][r] = times["huge"][r]
        BY <1>1 DEF Timed
  <2> QED
      BY <2>1, <2>2, SeqEqual
<1> QED
    BY <1>1, <1>2 DEF Timed

\* Every timed read is of a page that was there.
THEOREM FaultsAreNotTimed == ASSUME Tlb!TlbAssumption PROVE Tlb!Spec => []Tlb!NoFaultTimed
BY NoFaultInTimes, TlbAlways, PTL

\* A penalty is the difference of two times of the same reads, all of them.
THEOREM PenaltyIsFair ==
  ASSUME Tlb!TlbAssumption, Null \notin ReadsOfPages
  PROVE  Tlb!Spec => []Tlb!PenaltyComparesLikeWithLike
BY TimesAlike, TlbAlways, PTL
-----------------------------------------------------------------------------
TlbRest ==
  /\ kind = "regular" /\ indices = <<>> /\ present = {} /\ window = <<>>
  /\ times = Tlb!NoTimes /\ said = "nothing"

TlbPart ==
  IF Inside("tlb") THEN TlbInv /\ (pc = "over" => TlbRest) ELSE TlbRest

LEMMA TlbAssumed == Tlb!TlbAssumption
BY SuiteAssumption

LEMMA TlbPartStart == Init => TlbPart
BY DEF Init, Tlb!Init, TlbRest, TlbPart, Inside

LEMMA TlbPartStep ==
  MappedInv /\ CounterInv /\ CounterInv' /\ TlbPart /\ MappedInv' /\ [Next]_vars => TlbPart'
<1> SUFFICES ASSUME MappedInv, CounterInv, CounterInv', TlbPart, MappedInv', [Next]_vars
             PROVE  TlbPart'
    OBVIOUS
<1>1. CASE TlbRuns
  <2>1. Inside("tlb") /\ Inside("tlb")' /\ Tlb!Run
        BY <1>1, RunsInside DEF RunsOf, Benchmarks, TlbRuns
  <2>2. TlbInv'
        BY <2>1, TlbAssumed, TlbGoesOn DEF TlbPart, Tlb!Next
  <2>3. pc' = "over" => TlbRest'
        BY <2>1 DEF Tlb!Run, Tlb!Begin, Tlb!Map, Tlb!MapFails, Tlb!Touch, Tlb!Warmup,
           Tlb!StartClock, Tlb!Measure, Tlb!StopClock, Tlb!UnmapRegular, Tlb!UnmapHuge,
           Tlb!Return, TlbRest
  <2> QED
      BY <2>1, <2>2, <2>3 DEF TlbPart
<1>2. CASE ~ TlbRuns
  <2>1. /\ UNCHANGED ofTlb
        /\ Enters("tlb") \/ Leaves("tlb") \/ Waits("tlb") \/ Away("tlb")
        BY <1>2, PartStep DEF RunsOf, Untouched, Benchmarks
  <2>2. TlbRest' <=> TlbRest
        BY <2>1 DEF TlbRest, ofTlb, Tlb!NoTimes
  <2>3. CASE Enters("tlb")
    <3>1. TlbRest' /\ Inside("tlb")' /\ pc' = "begin" /\ i' = 0
          BY <2>2, <2>3 DEF TlbPart, Enters
    <3>2. mapped' \in [Kinds -> Nat] /\ \A k \in Kinds : mapped'[k] = 0
          BY <3>1 DEF MappedInv, PoolInv, Holds, TlbHolds
    <3>3. MapInv'
          BY <3>1, <3>2 DEF MapInv, TlbRest, Tlb!Kinds, Kinds
    <3>4. ReadInv'
          BY <3>1, TlbAssumed DEF ReadInv, ReadsOfPages, TlbRest, Tlb!TlbAssumption
    <3>5. TimesInv'
          BY <3>1 DEF TimesInv, TlbRest, Tlb!NoTimes, Tlb!Kinds
    <3> QED
        BY <3>1, <3>3, <3>4, <3>5 DEF TlbInv, TlbPart
  <2>4. CASE Leaves("tlb") \/ Away("tlb")
        BY <2>2, <2>4 DEF TlbPart, Leaves, Away
  <2>5. CASE Waits("tlb")
    <3>1. TlbInv'
          BY <2>1, <2>5 DEF TlbPart, Waits, TlbInv, MapInv, ReadInv, TimesInv, Timed, ofTlb,
             ReadsOfPages, Tlb!NoTimes
    <3> QED
        BY <2>2, <2>5, <3>1 DEF TlbPart, Waits
  <2> QED
      BY <2>1, <2>3, <2>4, <2>5
<1> QED
    BY <1>1, <1>2

LEMMA TlbPartAlways == Spec => []TlbPart
BY TlbPartStart, TlbPartStep, MappedAlways, CounterAlways, PTL DEF Spec

\* The TLB benchmark of the suite times no page fault, whichever benchmark ran
\* before it and whatever other processes leave of the huge pages.
THEOREM SuiteTimesNoFault == Spec => []NoFaultTimed
<1>1. TlbPart => NoFaultTimed
      BY TlbAssumed, NoFaultInTimes DEF TlbPart, NoFaultTimed
<1> QED
    BY <1>1, TlbPartAlways, PTL

\* The TLB penalty it prints is the difference of two times of the same reads.
THEOREM SuitePenaltyIsFair ==
  ASSUME Null \notin ReadsOfPages PROVE Spec => []PenaltyComparesLikeWithLike
<1>1. TlbPart => PenaltyComparesLikeWithLike
      BY TlbAssumed, TimesAlike DEF TlbPart, PenaltyComparesLikeWithLike
<1> QED
    BY <1>1, TlbPartAlways, PTL

-----------------------------------------------------------------------------
NumaRest == rows = {} /\ skipped = {} /\ node = 0

\* Each row was placed on the node it names, and so is the buffer in use.
Placed ==
  /\ \A r \in rows : r.label # Null => r.placed = {r.label}
  /\ Numa!Comparing /\ pc = "touch" => bound = {node}
  /\ Numa!Comparing /\ pc = "measure" => placed = {node}

NodeCount == Cardinality(machine.online)
Limit     == IF NodeCount < 4 THEN NodeCount ELSE 4

\* Nodes without holes, all of them this process's to use.
Whole ==
  /\ machine.file /\ machine.permitted /\ machine.HAS_LIBNUMA /\ NodeCount >= 2
  /\ machine.allowed = machine.online /\ machine.online = 0 .. NodeCount - 1

Labels == {r.label : r \in rows}

\* The loop has dealt with every node below its counter.
Covered ==
  Whole /\ pc \notin {"begin", "detect", "over"} =>
    /\ num_nodes = NodeCount /\ node <= Limit
    /\ Labels \cup skipped = 0 .. node - 1
    /\ pc \in {"bind", "touch", "measure"} => node < Limit
    /\ pc = "returned" => node = Limit

NumaInv ==
  /\ node \in Nat
  /\ pc = "detect" => NumaRest
  /\ pc \notin {"begin", "over"} => machine \in Machines
  /\ Placed /\ Covered

NumaPart ==
  IF Inside("numa") THEN NumaInv /\ (pc \in {"begin", "over"} => NumaRest) ELSE NumaRest

LEMMA WholeIsCounted ==
  ASSUME NEW m, NEW k \in Nat, k >= 2, m.online = 0 .. k - 1, m.file
  PROVE  Numa!Counted(m) = k
<1>1. Numa!RangeEnds(m.online) = {k - 1}
      BY DEF Numa!RangeEnds
<1>2. Numa!AfterDash(m.online) = k - 1
      BY <1>1 DEF Numa!AfterDash
<1> QED
    BY <1>1, <1>2 DEF Numa!Counted

LEMMA SameCount == ASSUME NEW S PROVE Numa!Cardinality(S) = Cardinality(S)
BY DEF Numa!Cardinality, Cardinality

LEMMA CountIsNatural == ASSUME machine \in Machines PROVE NodeCount \in Nat
<1>1. IsFiniteSet(machine.online)
      BY SuiteAssumption DEF Numa!NodesAssumption, Numa!IsFiniteSet, IsFiniteSet
<1> QED
    BY <1>1, FS_CardinalityType DEF NodeCount

LEMMA NumaRunKeeps ==
  ASSUME Null \notin {{k} : k \in Nat}
  PROVE  NumaInv /\ Inside("numa") /\ (pc = "begin" => NumaRest) /\ Numa!Run => NumaInv'
<1> SUFFICES ASSUME NumaInv, (pc = "begin" => NumaRest), Numa!Run PROVE NumaInv'
    OBVIOUS
<1> USE DEF NumaInv
<1>1. CASE Numa!Begin
      BY <1>1 DEF Numa!Begin, NumaRest, Placed, Covered
<1>2. CASE Numa!detect_numa_nodes
  <2>1. /\ NumaRest /\ pc = "detect" /\ machine \in Machines
        /\ UNCHANGED <<machine, node, rows, skipped>>
        /\ num_nodes' = Numa!Counted(machine)
        /\ pc' = IF num_nodes' >= 2 /\ ~ machine.HAS_LIBNUMA THEN "returned" ELSE "map"
        BY <1>2 DEF Numa!detect_numa_nodes
  <2>2. Placed'
        BY <2>1 DEF Placed, NumaRest
  <2>3. ASSUME Whole'
        PROVE  /\ num_nodes' = NodeCount' /\ node' <= Limit' /\ pc' = "map"
               /\ Labels' \cup skipped' = 0 .. node' - 1
    <3>1. Whole /\ NodeCount' = NodeCount /\ Limit' = Limit /\ NodeCount \in Nat
          BY <2>1, <2>3, CountIsNatural DEF Whole, NodeCount, Limit
    <3>2. num_nodes' = NodeCount
          BY <2>1, <3>1, WholeIsCounted DEF Whole
    <3>3. node' = 0 /\ Labels' = {} /\ skipped' = {}
          BY <2>1 DEF NumaRest, Labels
    <3> QED
        BY <2>1, <3>1, <3>2, <3>3 DEF Whole, Limit
  <2> QED
      BY <2>1, <2>2, <2>3 DEF NumaRest, Covered
<1>3. CASE Numa!Map
  <2>1. /\ pc = "map" /\ pc' = IF Numa!Comparing THEN "bind" ELSE "touch"
        /\ Numa!Comparing => Numa!InLoop
        /\ UNCHANGED <<machine, num_nodes, node, rows, skipped>>
        BY <1>3 DEF Numa!Map
  <2>2. Placed'
        BY <2>1 DEF Placed, Numa!Comparing
  <2>3. Covered'
        BY <2>1, CountIsNatural DEF Covered, Whole, NodeCount, Limit, Labels, Numa!Comparing,
                                    Numa!InLoop
  <2> QED
      BY <2>1, <2>2, <2>3
<1>4. CASE Numa!MapFails
  <2>1. /\ pc = "map" /\ (Numa!Comparing => Numa!InLoop)
        /\ IF Numa!Comparing THEN node' = node + 1 /\ skipped' = skipped \cup {node} /\ pc' = pc
                             ELSE pc' = "returned" /\ UNCHANGED <<node, skipped>>
        /\ UNCHANGED <<machine, num_nodes, rows>>
        BY <1>4 DEF Numa!MapFails
  <2>2. Placed'
        BY <2>1 DEF Placed
  <2>3. Covered'
    <3> SUFFICES ASSUME Whole' PROVE Covered'
        BY DEF Covered
    <3>1. /\ Whole /\ NodeCount' = NodeCount /\ Limit' = Limit /\ NodeCount \in Nat
          /\ Labels' = Labels
          BY <2>1, CountIsNatural DEF Whole, NodeCount, Limit, Labels
    <3>2. num_nodes = NodeCount /\ Labels \cup skipped = 0 .. node - 1
          BY <2>1, <3>1 DEF Covered
    <3>3. /\ Numa!Comparing /\ node < Limit
          /\ node' = node + 1 /\ skipped' = skipped \cup {node} /\ pc' = "map"
          BY <2>1, <3>1, <3>2 DEF Whole, Limit, Numa!Comparing, Numa!InLoop
    <3>4. Labels' \cup skipped' = 0 .. node' - 1
          BY <3>1, <3>2, <3>3
    <3>5. node' <= Limit' /\ num_nodes' = NodeCount'
          BY <2>1, <3>1, <3>2, <3>3 DEF Limit
    <3> QED
        BY <3>3, <3>4, <3>5 DEF Covered
  <2> QED
      BY <2>1, <2>2, <2>3
<1>5. CASE Numa!LoopEnds
  <2>1. /\ pc = "map" /\ pc' = "returned" /\ Numa!Comparing /\ ~ Numa!InLoop
        /\ UNCHANGED <<machine, num_nodes, node, rows, skipped>>
        BY <1>5 DEF Numa!LoopEnds
  <2>2. Placed'
        BY <2>1 DEF Placed
  <2>3. Covered'
        BY <2>1, CountIsNatural DEF Covered, Whole, NodeCount, Limit, Labels, Numa!InLoop
  <2> QED
      BY <2>1, <2>2, <2>3
<1>6. CASE Numa!Bind
  <2>1. /\ pc = "bind" /\ pc' = "touch" /\ Numa!Policy # {} /\ bound' = Numa!Policy
        /\ UNCHANGED <<machine, num_nodes, node, rows, skipped>>
        BY <1>6 DEF Numa!Bind
  <2>2. bound' = {node}
        BY <2>1 DEF Numa!Policy, Numa!MaskedNodes
  <2>3. Placed'
        BY <2>1, <2>2 DEF Placed
  <2>4. Covered'
        BY <2>1 DEF Covered, Whole, NodeCount, Limit, Labels
  <2> QED
      BY <2>1, <2>3, <2>4
<1>7. CASE Numa!BindFails
  <2>1. /\ pc = "bind" /\ pc' = "map" /\ node' = node + 1
        /\ skipped' = IF Numa!Policy = {} THEN skipped ELSE skipped \cup {node}
        /\ UNCHANGED <<machine, num_nodes, rows>>
        BY <1>7 DEF Numa!BindFails
  <2>2. Covered'
    <3> SUFFICES ASSUME Whole' PROVE Covered'
        BY DEF Covered
    <3>1. /\ Whole /\ NodeCount' = NodeCount /\ Limit' = Limit /\ NodeCount \in Nat
          /\ Labels' = Labels
          BY <2>1, CountIsNatural DEF Whole, NodeCount, Limit, Labels
    <3>2. num_nodes = NodeCount /\ Labels \cup skipped = 0 .. node - 1 /\ node < Limit
          BY <2>1, <3>1 DEF Covered
    <3>3. node \in Numa!Policy
          BY <3>1, <3>2 DEF Whole, Limit, Numa!Policy, Numa!MaskedNodes
    <3>4. Labels' \cup skipped' = 0 .. node' - 1
          BY <2>1, <3>1, <3>2, <3>3
    <3> QED
        BY <2>1, <3>1, <3>2, <3>4 DEF Covered, Limit
  <2>3. Placed'
        BY <2>1 DEF Placed
  <2> QED
      BY <2>1, <2>2, <2>3
<1>8. CASE Numa!Touch
  <2>1. /\ pc = "touch" /\ pc' = "measure"
        /\ \E k \in IF bound = Null THEN machine.allowed ELSE bound : placed' = {k}
        /\ UNCHANGED <<machine, num_nodes, node, rows, skipped>>
        BY <1>8 DEF Numa!Touch
  <2>2. Numa!Comparing => placed' = {node}
        BY <2>1 DEF Placed
  <2>3. Placed'
        BY <2>1, <2>2 DEF Placed, Numa!Comparing
  <2>4. Covered'
        BY <2>1 DEF Covered, Whole, NodeCount, Limit, Labels
  <2> QED
      BY <2>1, <2>3, <2>4
<1>9. CASE Numa!Measure
  <2>1. /\ pc = "measure"
        /\ rows' = rows \cup {[label |-> IF Numa!Comparing THEN node ELSE Null, placed |-> placed]}
        /\ IF Numa!Comparing THEN node' = node + 1 /\ pc' = "map"
                             ELSE pc' = "returned" /\ node' = node
        /\ UNCHANGED <<machine, num_nodes, skipped>>
        BY <1>9 DEF Numa!Measure
  <2>2. Placed'
        BY <2>1 DEF Placed
  <2>3. Covered'
    <3> SUFFICES ASSUME Whole' PROVE Covered'
        BY DEF Covered
    <3>1. Whole /\ NodeCount' = NodeCount /\ Limit' = Limit /\ NodeCount \in Nat
          BY <2>1, CountIsNatural DEF Whole, NodeCount, Limit
    <3>2. num_nodes = NodeCount /\ Labels \cup skipped = 0 .. node - 1 /\ node < Limit
          BY <2>1, <3>1 DEF Covered
    <3>3. Numa!Comparing /\ node' = node + 1 /\ pc' = "map"
          BY <2>1, <3>1, <3>2 DEF Whole, Numa!Comparing
    <3>4. Labels' = Labels \cup {node}
      <4> DEFINE new == [label |-> node, placed |-> placed]
      <4>1. rows' = rows \cup {new} /\ new.label = node
            BY <2>1, <3>3
      <4> HIDE DEF new
      <4> QED
          BY <4>1 DEF Labels
    <3>5. Labels' \cup skipped' = 0 .. node' - 1
          BY <2>1, <3>2, <3>3, <3>4
    <3>6. node' <= Limit' /\ num_nodes' = NodeCount'
          BY <2>1, <3>1, <3>2, <3>3 DEF Limit
    <3> QED
        BY <3>3, <3>5, <3>6 DEF Covered
  <2> QED
      BY <2>1, <2>2, <2>3
<1>10. CASE Numa!Return
       BY <1>10 DEF Numa!Return, Placed, Covered
<1> QED
    BY <1>1, <1>2, <1>3, <1>4, <1>5, <1>6, <1>7, <1>8, <1>9, <1>10 DEF Numa!Run

LEMMA NumaPartStart == Init => NumaPart
<1> SUFFICES ASSUME Init PROVE NumaPart
    OBVIOUS
<1>1. NumaRest /\ main = "start"
      BY DEF Init, Numa!Init, NumaRest
<1> QED
    BY <1>1 DEF NumaPart, Inside

LEMMA NumaPartStep ==
  ASSUME Null \notin {{k} : k \in Nat}
  PROVE  MappedInv /\ CounterInv /\ CounterInv' /\ NumaPart /\ [Next]_vars => NumaPart'
<1> SUFFICES ASSUME MappedInv, CounterInv, CounterInv', NumaPart, [Next]_vars PROVE NumaPart'
    OBVIOUS
<1>1. CASE NumaRuns
  <2>1. Inside("numa") /\ Inside("numa")' /\ Numa!Run
        BY <1>1, RunsInside DEF RunsOf, Benchmarks, NumaRuns
  <2>2. NumaInv'
        BY <2>1, NumaRunKeeps DEF NumaPart
  <2>3. pc' \in {"begin", "over"} => NumaRest'
        BY <2>1 DEF Numa!Run, Numa!Begin, Numa!detect_numa_nodes, Numa!Map, Numa!MapFails,
           Numa!LoopEnds, Numa!Bind, Numa!BindFails, Numa!Touch, Numa!Measure, Numa!Return, NumaRest
  <2> QED
      BY <2>1, <2>2, <2>3 DEF NumaPart
<1>2. CASE ~ NumaRuns
  <2>1. /\ UNCHANGED ofNuma
        /\ Enters("numa") \/ Leaves("numa") \/ Waits("numa") \/ Away("numa")
        BY <1>2, PartStep DEF RunsOf, Untouched, Benchmarks
  <2>2. NumaRest' <=> NumaRest
        BY <2>1 DEF NumaRest, ofNuma
  <2>3. CASE Enters("numa")
        BY <2>2, <2>3 DEF Enters, NumaPart, NumaInv, NumaRest, Placed, Covered
  <2>4. CASE Leaves("numa") \/ Away("numa")
        BY <2>2, <2>4 DEF NumaPart, Leaves, Away
  <2>5. CASE Waits("numa")
    <3>1. NumaInv /\ UNCHANGED <<pc, ofNuma>>
          BY <2>1, <2>5 DEF NumaPart, Waits
    <3>2. NumaInv'
          BY <3>1 DEF ofNuma, NumaInv, NumaRest, Placed, Covered, Whole, NodeCount, Limit, Labels,
                      Numa!Comparing
    <3> QED
        BY <2>2, <2>5, <3>2 DEF NumaPart, Waits
  <2> QED
      BY <2>1, <2>3, <2>4, <2>5
<1> QED
    BY <1>1, <1>2

LEMMA NumaPartAlways ==
  ASSUME Null \notin {{k} : k \in Nat} PROVE Spec => []NumaPart
BY NumaPartStart, NumaPartStep, MappedAlways, CounterAlways, PTL DEF Spec

\* A row of the NUMA benchmark was measured on the node it names, on every
\* machine: with nodes missing, mmap failing or mbind refused.
THEOREM RowsAreOfTheirNode ==
  ASSUME Null \notin {{k} : k \in Nat} PROVE Spec => []RowsNameTheNode
<1>1. NumaPart => RowsNameTheNode
      BY DEF NumaPart, NumaInv, Placed, RowsNameTheNode, Numa!RowsNameTheNode
<1> QED
    BY <1>1, NumaPartAlways, PTL

\* Of nodes without holes, all of them this process's, it measures each up to
\* four, but those for which mmap or mbind had no memory.
THEOREM WholeMachinesAreMeasured ==
  ASSUME Null \notin {{k} : k \in Nat} PROVE Spec => []EveryNodeMeasured
<1>1. NumaPart => EveryNodeMeasured
  <2> SUFFICES ASSUME NumaPart, Inside("numa") PROVE Numa!EveryNodeMeasured
      BY DEF EveryNodeMeasured
  <2>1. Covered
        BY DEF NumaPart, NumaInv
  <2>2. Numa!Cardinality(machine.online) = NodeCount
        BY SameCount DEF NodeCount
  <2>3. ASSUME pc = "returned", Whole PROVE Labels \cup skipped = 0 .. Limit - 1
        BY <2>1, <2>3 DEF Covered
  <2> QED
      BY <2>2, <2>3 DEF Numa!EveryNodeMeasured, Whole, Labels, Limit
<1> QED
    BY <1>1, NumaPartAlways, PTL
=============================================================================
