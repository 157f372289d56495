------------------------------- MODULE Suite --------------------------------
(***************************************************************************)
(* main() of src/src/main.cpp with the benchmarks it calls, one after the  *)
(* other in one thread.  Whatever the argument, each benchmark must find   *)
(* the process as the first one does, because nothing is reset in between: *)
(* no buffer mapped, and only the mappings of other processes different.   *)
(*                                                                         *)
(* A step of a benchmark is a step of its module.  Two parts that have no  *)
(* buffer of mmap are one step here (Elsewhere): the false sharing test    *)
(* with the cache hierarchy, and the allocators.  They are FalseSharing,   *)
(* PointerChase and AllocatorBenchmark, and may end the process.           *)
(***************************************************************************)
EXTENDS Pages, Sequences, FiniteSets

CONSTANTS
  BufferPages, WARMUP, NUM_ACCESSES,   \* of TlbBenchmark
  Machines,                            \* of NumaBenchmark
  N, Values,                           \* of BranchBenchmark
  ITERATIONS,                          \* of BranchBenchmark and AccessPatterns
  counts,                              \* of AccessPatterns
  Length, ACCESSES,                    \* of SequentialRandom
  NUM_NODES, LIST_WARMUP, TRAVERSALS,  \* of LinkedList
  strides, STRIDED_ACCESSES,           \* of StridedAccess, with Length
  Null,
  OtherNames                           \* arguments that name no benchmark

VARIABLES
  which,  \* the command line argument, "all" if there is none
  main,   \* the next step of main()
  at,     \* how many of the parts have been dealt with
  ran,    \* the parts that have returned
  pc, i, iter,
  kind, indices, present, window, times, said,
  machine, num_nodes, node, bound, placed, rows, skipped,
  loop, drawn, data, sum, hot, taken, switches, results,
  test, row, layout, base, lines,
  random_indices, inorder, jumping,
  nodes_at, order, next, ahead, current, walk, fetched, loaded,
  nth, prefetching, idx, walked, hinted

Tlb        == INSTANCE TlbBenchmark
Numa       == INSTANCE NumaBenchmark
Branch     == INSTANCE BranchBenchmark
Access     == INSTANCE AccessPatterns
Sequential == INSTANCE SequentialRandom
List       == INSTANCE LinkedList WITH WARMUP <- LIST_WARMUP
Strided    == INSTANCE StridedAccess WITH ACCESSES <- STRIDED_ACCESSES

ASSUME SuiteAssumption ==
  /\ Tlb!TlbAssumption /\ Numa!NodesAssumption /\ Branch!BranchAssumption
  /\ Access!AccessAssumption /\ Sequential!ReadsAssumption
  /\ List!ListAssumption /\ Strided!StridesAssumption

\* The functions main() comes to, in its order, and the argument for each.
Parts ==
  <<[arg |-> "tlb",      run |-> "tlb"],
    [arg |-> "cache",    run |-> "sharing and hierarchy"],
    [arg |-> "cache",    run |-> "sequential and random"],
    [arg |-> "numa",     run |-> "numa"],
    [arg |-> "branch",   run |-> "branch"],
    [arg |-> "access",   run |-> "access"],
    [arg |-> "prefetch", run |-> "list"],
    [arg |-> "prefetch", run |-> "strided"],
    [arg |-> "alloc",    run |-> "allocators"]>>
Names == {Parts[k].arg : k \in 1 .. Len(Parts)}
Help  == {"-h", "--help"}

args     == <<which, main, at, ran>>
ofTlb    == <<kind, indices, present, window, times, said>>
ofNuma   == <<machine, num_nodes, node, bound, placed, rows, skipped>>
ofBranch == <<loop, drawn, data, sum, hot, taken, switches, results>>
ofAccess == <<test, row, layout, base, lines>>
ofSequential == <<random_indices, inorder, jumping>>
ofList       == <<nodes_at, order, next, ahead, current, walk, fetched, loaded>>
ofStrided    == <<nth, prefetching, idx, walked, hinted>>
vars == <<mapped, others, args, pc, i, iter,
          ofTlb, ofNuma, ofBranch, ofAccess, ofSequential, ofList, ofStrided>>

Init ==
  /\ which \in Names \cup {"all"} \cup Help \cup OtherNames
  /\ main = "start" /\ at = 0 /\ ran = <<>>
  /\ Tlb!Init /\ Numa!Init /\ Branch!Init /\ Access!Init /\ Sequential!Init /\ List!Init /\ Strided!Init

-----------------------------------------------------------------------------
Part == Parts[at + 1]

Inside(part) == main = "inside" /\ Part.run = part

\* The local variables of every module but that of the part named.
LocalsKept(part) ==
  /\ IF part = "tlb"     THEN TRUE ELSE UNCHANGED ofTlb
  /\ IF part = "numa"    THEN TRUE ELSE UNCHANGED ofNuma
  /\ IF part = "branch"  THEN TRUE ELSE UNCHANGED ofBranch
  /\ IF part = "access"  THEN TRUE ELSE UNCHANGED ofAccess
  /\ IF part = "list"    THEN TRUE ELSE UNCHANGED ofList
  /\ IF part = "strided" THEN TRUE ELSE UNCHANGED ofStrided
  /\ IF part = "sequential and random" THEN TRUE ELSE UNCHANGED ofSequential

OnlyMain == UNCHANGED <<which, mapped, others, i, iter>> /\ LocalsKept("main")

Usage ==
  /\ main = "start" /\ which \in Help
  /\ main' = "done"
  /\ UNCHANGED <<at, ran, pc>> /\ OnlyMain

\* Pinned or not, the suite starts.
Start ==
  /\ main = "start" /\ which \notin Help
  /\ main' = "dispatch"
  /\ UNCHANGED <<at, ran, pc>> /\ OnlyMain

AskedByName == which = Part.arg

Asked == which \in {"all", Part.arg}

Skip ==
  /\ main = "dispatch" /\ at < Len(Parts) /\ ~ Asked
  /\ at' = at + 1
  /\ UNCHANGED <<main, ran, pc>> /\ OnlyMain

Call ==
  /\ main = "dispatch" /\ at < Len(Parts) /\ Asked
  /\ main' = "inside"
  /\ UNCHANGED <<at, ran, pc>> /\ OnlyMain

Back ==
  /\ main = "inside" /\ pc = "over"
  /\ main' = "dispatch" /\ pc' = "begin"
  /\ at' = at + 1 /\ ran' = Append(ran, Part)
  /\ OnlyMain

Finish ==
  /\ main = "dispatch" /\ at = Len(Parts)
  /\ main' = "done"
  /\ UNCHANGED <<at, ran, pc>> /\ OnlyMain

InsideElsewhere == pc = "begin" /\ (Inside("sharing and hierarchy") \/ Inside("allocators"))

Elsewhere ==
  /\ InsideElsewhere
  /\ pc' = "over"
  /\ UNCHANGED <<main, at, ran>> /\ OnlyMain

\* A thread cannot be created, or the pool's malloc fails.
Terminate ==
  /\ InsideElsewhere
  /\ main' = "terminated"
  /\ UNCHANGED <<at, ran, pc>> /\ OnlyMain

\* A step of a part that maps no memory leaves the mappings alone.
Unmapping == UNCHANGED <<args, mapped, others>>

TlbRuns ==
  Inside("tlb") /\ Tlb!Run /\ LocalsKept("tlb") /\ UNCHANGED <<args, iter>>

SequentialRuns ==
  /\ Inside("sequential and random") /\ Sequential!Run
  /\ LocalsKept("sequential and random") /\ Unmapping /\ UNCHANGED iter

NumaRuns ==
  Inside("numa") /\ Numa!Run /\ LocalsKept("numa") /\ UNCHANGED <<args, i, iter>>

BranchRuns == Inside("branch") /\ Branch!Run /\ LocalsKept("branch") /\ Unmapping

AccessRuns == Inside("access") /\ Access!Run /\ LocalsKept("access") /\ Unmapping

ListRuns ==
  Inside("list") /\ List!Run /\ LocalsKept("list") /\ Unmapping /\ UNCHANGED iter

StridedRuns ==
  Inside("strided") /\ Strided!Run /\ LocalsKept("strided") /\ Unmapping /\ UNCHANGED iter

Run ==
  \/ Usage \/ Start \/ Skip \/ Call \/ Back \/ Finish
  \/ Elsewhere \/ Terminate
  \/ TlbRuns \/ SequentialRuns \/ NumaRuns \/ BranchRuns \/ AccessRuns
  \/ ListRuns \/ StridedRuns

Environment == OthersMove /\ UNCHANGED <<args, pc, i, iter>> /\ LocalsKept("main")

Ended == main \in {"done", "terminated"} /\ UNCHANGED vars

Next == Run \/ Environment \/ Ended

Spec == Init /\ [][Next]_vars /\ WF_vars(Run)

-----------------------------------------------------------------------------
(***************************************************************************)
(* Types, of main() and of the benchmark it is in.                         *)
(***************************************************************************)
TypeOK ==
  /\ main \in {"start", "dispatch", "inside", "done", "terminated"}
  /\ at \in 0 .. Len(Parts) /\ Len(ran) <= at
  /\ Inside("tlb") => Tlb!TypeOK
  /\ Inside("numa") => Numa!TypeOK
  /\ Inside("branch") => Branch!TypeOK
  /\ Inside("access") => Access!TypeOK
  /\ Inside("sequential and random") => Sequential!TypeOK
  /\ Inside("list") => List!TypeOK
  /\ Inside("strided") => Strided!TypeOK

(***************************************************************************)
(* However a benchmark returns it has unmapped what it mapped, so that the *)
(* next one starts without the buffers of the one before and the huge      *)
(* pages are back in their pool (main.cpp:57-63, tlb_huge_pages.h:52-117,  *)
(* numa_topology.h:75-146).                                                *)
(***************************************************************************)
BuffersReturned ==
  /\ HugePagesLeft >= 0
  /\ main # "inside" => mapped = [k \in Kinds |-> 0]
  /\ Inside("tlb") => Tlb!BuffersReturned
  /\ Inside("numa") => Numa!BuffersReturned

(***************************************************************************)
(* The suite ends, and unless a thread or the pool ended it early it has   *)
(* run every part of the benchmark that was named, all of them in their    *)
(* order, or none (main.cpp:36-81).  A name it does not know runs nothing  *)
(* and ends in the same way.                                               *)
(***************************************************************************)
RunsWhatWasAsked ==
  LET Named(part) == part.arg = which IN
  <>(\/ main = "terminated"
     \/ main = "done" /\ ran = IF which = "all" THEN Parts ELSE SelectSeq(Parts, Named))

-----------------------------------------------------------------------------
(***************************************************************************)
(* The properties of the benchmarks, explained in their modules, in the    *)
(* suite: whichever ran before and whatever other processes do.            *)
(***************************************************************************)

\* No page fault is timed.
NoFaultTimed == Inside("tlb") => Tlb!NoFaultTimed

\* The TLB penalty is the difference of two times of the same reads.
PenaltyComparesLikeWithLike == Inside("tlb") => Tlb!PenaltyComparesLikeWithLike

\* A NUMA row is measured on the node it names.
RowsNameTheNode == Inside("numa") => Numa!RowsNameTheNode

\* Nodes without holes are all measured, up to four.
EveryNodeMeasured == Inside("numa") => Numa!EveryNodeMeasured

\* The loops of the branch tests take the hot path for as many elements.
SameWork == Inside("branch") => Branch!SameWork

\* Sorted data change direction at most twice a pass.
SortedIsPredictable == Inside("branch") => Branch!SortedIsPredictable

\* The masked sum bounds the branchy one, and equals it without cold elements.
MaskedBoundsBranchy == Inside("branch") => Branch!MaskedBoundsBranchy

\* Two fields cost an AoS line per element and a quarter of that in SoA.
SubsetCostsALine == Inside("access") => Access!SubsetCostsALine

\* Reading an AoS entry costs one new line, after the first entry.
OneFetchPerEntry == [][Inside("access") => Access!FetchesOne]_vars

\* The sequential reads visit all elements equally often.
EvenSweep == Inside("sequential and random") => Sequential!EvenSweep

\* The shuffled list is one ring.
OneRing == Inside("list") => List!OneRing

\* The three walks process the same nodes.
SameWalks == Inside("list") => List!SameWalks

\* Each prefetch is of the node processed that many steps later.
PrefetchesAreUsed == Inside("list") => List!PrefetchesAreUsed

\* Both loops of a stride read the same elements, the second prefetching each.
SameReads == Inside("strided") => Strided!SameReads

\* A stride meets n / stride elements again and again.
SmallCircle == Inside("strided") => Strided!SmallCircle
=============================================================================
