---------------------------- MODULE PointerChase ----------------------------
(***************************************************************************)
(* One row of run_cache_hierarchy (src/src/cache_lines.h): a vector of n   *)
(* indices is shuffled into a random cycle with Sattolo's algorithm, a     *)
(* warm-up follows it from element 0, and the timed loop follows it from   *)
(* element 0 again.  The rows of the table share no state: each has its    *)
(* own vector and its own generator.                                       *)
(*                                                                         *)
(* rng() % i is any j below i.  The sizes of the table make n at least     *)
(* 512, on either side of WARMUP and of ACCESSES.                          *)
(***************************************************************************)
EXTENDS Naturals

CONSTANTS
  n,         \* size / sizeof(size_t)
  WARMUP,    \* loads of the warm-up loop
  ACCESSES   \* loads of the timed loop

ASSUME SizeAssumption == n \in Nat \ {0}
ASSUME LoopAssumption == WARMUP \in Nat /\ ACCESSES \in Nat

Index == 0 .. n - 1

VARIABLES
  chain,   \* the vector
  i,       \* the counter of the shuffle
  phase,   \* the loop being executed
  idx,     \* the element to load next
  steps,   \* loads made by the current loop
  warmed,  \* elements the warm-up has loaded
  visited  \* elements the timed loop has loaded

vars == <<chain, i, phase, idx, steps, warmed, visited>>

-----------------------------------------------------------------------------
InitFromOne ==
  /\ chain = [x \in Index |-> x + 1]
  /\ i = n - 1
  /\ phase = "shuffle"
  /\ idx = 0 /\ steps = 0
  /\ warmed = {} /\ visited = {}

\* std::iota, and i = n - 1.
Init ==
  /\ chain = [x \in Index |-> x]
  /\ i = n - 1
  /\ phase = "shuffle"
  /\ idx = 0 /\ steps = 0
  /\ warmed = {} /\ visited = {}

swap(j) == chain' = [x \in Index |-> IF x = i THEN chain[j]
                                     ELSE IF x = j THEN chain[i] ELSE chain[x]]

ShuffleFisherYates ==
  /\ phase = "shuffle" /\ i > 0
  /\ \E j \in 0 .. i : swap(j)
  /\ i' = i - 1
  /\ UNCHANGED <<phase, idx, steps, warmed, visited>>

ShuffleStopsEarly ==
  /\ phase = "shuffle" /\ i > 1
  /\ \E j \in 0 .. i - 1 : swap(j)
  /\ i' = IF i = 2 THEN 0 ELSE i - 1
  /\ UNCHANGED <<phase, idx, steps, warmed, visited>>

Shuffle ==
  /\ phase = "shuffle" /\ i > 0
  /\ \E j \in 0 .. i - 1 : swap(j)
  /\ i' = i - 1
  /\ UNCHANGED <<phase, idx, steps, warmed, visited>>

StartWarmup ==
  /\ phase = "shuffle" /\ i = 0
  /\ phase' = "warmup" /\ idx' = 0 /\ steps' = 0
  /\ UNCHANGED <<chain, i, warmed, visited>>

Warmup ==
  /\ phase = "warmup" /\ steps < WARMUP
  /\ idx' = chain[idx] /\ steps' = steps + 1
  /\ warmed' = warmed \cup {idx}
  /\ UNCHANGED <<chain, i, phase, visited>>

StartClockInPlace ==
  /\ phase = "warmup" /\ steps = WARMUP
  /\ phase' = "measure" /\ steps' = 0
  /\ UNCHANGED <<idx, chain, i, warmed, visited>>

\* start = now(); idx = 0
StartClock ==
  /\ phase = "warmup" /\ steps = WARMUP
  /\ phase' = "measure" /\ idx' = 0 /\ steps' = 0
  /\ UNCHANGED <<chain, i, warmed, visited>>

Measure ==
  /\ phase = "measure" /\ steps < ACCESSES
  /\ idx' = chain[idx] /\ steps' = steps + 1
  /\ visited' = visited \cup {idx}
  /\ UNCHANGED <<chain, i, phase, warmed>>

StopClock ==
  /\ phase = "measure" /\ steps = ACCESSES
  /\ phase' = "done"
  /\ UNCHANGED <<chain, i, idx, steps, warmed, visited>>

Done == phase = "done" /\ UNCHANGED vars

Next ==
  \/ Shuffle
  \/ StartWarmup \/ Warmup
  \/ StartClock \/ Measure \/ StopClock
  \/ Done

Spec == Init /\ [][Next]_vars

-----------------------------------------------------------------------------
(***************************************************************************)
(* Types.  Every index the loops load is inside the vector.                *)
(***************************************************************************)
TypeOK ==
  /\ chain \in [Index -> Index]
  /\ i \in Index
  /\ phase \in {"shuffle", "warmup", "measure", "done"}
  /\ idx \in Index /\ steps \in Nat
  /\ warmed \subseteq Index /\ visited \subseteq Index

\* S is a set of elements no load leaves.
Closed(S) == S \in SUBSET Index /\ \A x \in S : chain[x] \in S

(***************************************************************************)
(* "Forming a single cycle that visits all elements" (cache_lines.h:158):  *)
(* once shuffled, no walk is confined to a part of the vector.             *)
(***************************************************************************)
SingleCycle ==
  phase # "shuffle" => \A S \in SUBSET Index : S # {} /\ Closed(S) => S = Index

(***************************************************************************)
(* "Visits all elements exactly once": the timed loop loads no element a   *)
(* second time before it has loaded every element, so a row labelled with  *)
(* a size is a walk over all of that size, or as much of it as ACCESSES    *)
(* reach (cache_lines.h:180-183).                                          *)
(***************************************************************************)
RevisitsOnlyAfterAll ==
  [][phase = "measure" /\ steps' # steps /\ idx \in visited => visited = Index]_vars

(***************************************************************************)
(* The timed loop starts in the elements the warm-up loaded: none of its   *)
(* first WARMUP loads is of an element that was not loaded before the      *)
(* clock started (cache_lines.h:171-179).                                  *)
(***************************************************************************)
StartsWarm ==
  phase \in {"measure", "done"} /\ steps <= WARMUP => visited \subseteq warmed
=============================================================================
