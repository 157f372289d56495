-------------------------- MODULE BranchBenchmark ---------------------------
(***************************************************************************)
(* BranchBenchmark::run of src/src/branch_prediction.h: passes over random *)
(* values with one branch each, before and after sorting them, and then    *)
(* over the values drawn again, with the branch and with a bit mask in its *)
(* place.                                                                  *)
(*                                                                         *)
(* What a loop computes is kept (its sum), and what decides its time: how  *)
(* often it takes the hot path and how often the branch goes another way   *)
(* than the time before.  The sums are natural numbers: N * ITERATIONS     *)
(* additions of at most 766 are far from 2^64.                             *)
(***************************************************************************)
EXTENDS Integers, FiniteSets

CONSTANTS
  N,           \* elements
  ITERATIONS,  \* passes per loop
  Values,      \* what the distribution may draw
  Null         \* no branch yet, no result yet

BranchAssumption ==
  /\ {N, ITERATIONS} \subseteq Nat \ {0}
  /\ Values \subseteq 0 .. 255

Elements == 0 .. N - 1
Loops    == {"unsorted", "sorted", "branchy", "branchless"}

VARIABLES
  pc,        \* the next step
  loop,      \* the loop being executed
  iter, i,   \* its counters
  drawn,     \* what mt19937(42) and the distribution yield
  data,
  sum,
  hot,       \* elements of this loop on the hot path
  taken,     \* where the last branch went
  switches,  \* branches that went another way than the one before
  results    \* [sum, hot, switches] of each loop

locals == <<loop, drawn, data, sum, hot, taken, switches, results>>
vars   == <<pc, i, iter, locals>>

NoResults == [l \in Loops |-> Null]

Init ==
  /\ pc = "begin" /\ i = 0 /\ iter = 0
  /\ loop = "unsorted" /\ drawn = <<>> /\ data = <<>> /\ results = NoResults
  /\ sum = 0 /\ hot = 0 /\ taken = Null /\ switches = 0

-----------------------------------------------------------------------------
\* x ^ v for a v of eight bits.
Xor(x, v) ==
  LET bit(k) == 2 ^ k
      low[k \in 0 .. 8] ==
        IF k = 0 THEN 0
        ELSE low[k - 1] + ((x \div bit(k - 1) + v \div bit(k - 1)) % 2) * bit(k - 1)
  IN (x \div 256) * 256 + low[8]

hot_path(val, s)  == s + val * 3 + 1
cold_path(val, s) == Xor(s, val)

\* Each loop has its own copy of the threshold.
AboveUnsorted(v) == v >= 128

AboveSortedStrict(v) == v > 128
AboveSorted(v)       == v >= 128

AboveBranchy(v) == v >= 128
AboveMask(v)    == v >= 128

Above(v) == [unsorted |-> AboveUnsorted(v), sorted     |-> AboveSorted(v),
             branchy  |-> AboveBranchy(v),  branchless |-> AboveMask(v)][loop]

Branchy(v, s) == IF Above(v) THEN hot_path(v, s) ELSE cold_path(v, s)

BranchlessStrict(v, s) == s + (IF v > 128 THEN v * 3 + 1 ELSE v)

\* (hot_val & above) | (cold_val & below) is one of the two values.
Branchless(v, s) == s + (IF AboveMask(v) THEN v * 3 + 1 ELSE v)

Begin ==
  /\ pc = "begin"
  /\ drawn' \in [Elements -> Values] /\ data' = drawn'
  /\ pc' = "pass"
  /\ UNCHANGED <<i, iter, loop, sum, hot, taken, switches, results>>

Element ==
  /\ pc = "pass" /\ i < N
  /\ sum' = IF loop = "branchless" THEN Branchless(data[i], sum) ELSE Branchy(data[i], sum)
  /\ hot' = IF Above(data[i]) THEN hot + 1 ELSE hot
  /\ switches' = IF taken \in {Null, Above(data[i])} THEN switches ELSE switches + 1
  /\ taken' = Above(data[i])
  /\ i' = i + 1
  /\ UNCHANGED <<pc, iter, loop, drawn, data, results>>

NextPass ==
  /\ pc = "pass" /\ i = N /\ iter + 1 < ITERATIONS
  /\ iter' = iter + 1 /\ i' = 0
  /\ UNCHANGED <<pc, locals>>

StopClock ==
  /\ pc = "pass" /\ i = N /\ iter + 1 = ITERATIONS
  /\ results' = [results EXCEPT ![loop] = [sum |-> sum, hot |-> hot, switches |-> switches]]
  /\ pc' = [unsorted |-> "sort", sorted |-> "redraw",
             branchy |-> "mask", branchless |-> "returned"][loop]
  /\ iter' = 0 /\ i' = 0 /\ sum' = 0 /\ hot' = 0 /\ taken' = Null /\ switches' = 0
  /\ UNCHANGED <<loop, drawn, data>>

NextLoop(from, to) == pc = from /\ pc' = "pass" /\ loop' = to

SortNot ==
  /\ NextLoop("sort", "sorted")
  /\ UNCHANGED <<data, i, iter, drawn, sum, hot, taken, switches, results>>

\* std::sort: the same values as often, in ascending order.
Sort ==
  /\ NextLoop("sort", "sorted")
  /\ data' \in {s \in [Elements -> Values] :
                  /\ \A k \in 1 .. N - 1 : s[k - 1] <= s[k]
                  /\ \A v \in Values : Cardinality({k \in Elements : s[k] = v})
                                         = Cardinality({k \in Elements : data[k] = v})}
  /\ UNCHANGED <<i, iter, drawn, sum, hot, taken, switches, results>>

\* The second test starts its own generator from the same seed.
Redraw ==
  /\ NextLoop("redraw", "branchy")
  /\ data' = drawn
  /\ UNCHANGED <<i, iter, drawn, sum, hot, taken, switches, results>>

Mask ==
  /\ NextLoop("mask", "branchless")
  /\ UNCHANGED <<i, iter, drawn, data, sum, hot, taken, switches, results>>

Return ==
  /\ pc = "returned"
  /\ pc' = "over"
  /\ loop' = "unsorted" /\ drawn' = <<>> /\ data' = <<>> /\ results' = NoResults
  /\ UNCHANGED <<i, iter, sum, hot, taken, switches>>

Run == Begin \/ Element \/ NextPass \/ StopClock \/ Sort \/ Redraw \/ Mask \/ Return

Over == pc = "over" /\ UNCHANGED vars

Next == Run \/ Over

Spec == Init /\ [][Next]_vars

-----------------------------------------------------------------------------
(***************************************************************************)
(* Types.                                                                  *)
(***************************************************************************)
TypeOK ==
  /\ pc \in {"begin", "pass", "sort", "redraw", "mask", "returned", "over"}
  /\ loop \in Loops /\ i \in 0 .. N /\ iter \in 0 .. ITERATIONS - 1
  /\ data = <<>> \/ data \in [Elements -> Values]
  /\ hot \in 0 .. N * ITERATIONS /\ switches \in 0 .. N * ITERATIONS - 1
  /\ taken \in BOOLEAN \cup {Null}

(***************************************************************************)
(* The loops whose times are divided by each other do the same work: each  *)
(* takes the hot path for the same number of elements, so that the four    *)
(* thresholds, the sort and the second generator leave only the order of   *)
(* the branches and the mask to differ (branch_prediction.h:59-165).       *)
(***************************************************************************)
SameWork == pc = "returned" => \A l \in Loops : results[l].hot = results["unsorted"].hot

(***************************************************************************)
(* "Sorted data has a clean transition point" (branch_prediction.h:106):   *)
(* whatever was drawn, a pass over the sorted data changes direction once, *)
(* and going back to its beginning at most once more.                      *)
(***************************************************************************)
SortedIsPredictable ==
  results["sorted"] # Null => results["sorted"].switches <= 2 * ITERATIONS - 1

(***************************************************************************)
(* How far the masked kernel may stand in for the branchy one              *)
(* (branch_prediction.h:136-160): they sum the same when no element takes  *)
(* the cold path, and the masked sum is never the smaller one, because an  *)
(* exclusive or never exceeds a sum.                                       *)
(***************************************************************************)
MaskedBoundsBranchy ==
  pc = "returned" =>
    /\ results["branchless"].sum >= results["branchy"].sum
    /\ results["branchy"].hot = N * ITERATIONS =>
         results["branchless"].sum = results["branchy"].sum

(***************************************************************************)
(* branch_prediction.h:115: "arithmetic that produces the same result".    *)
(***************************************************************************)
SameResult == pc = "returned" => results["branchless"].sum = results["branchy"].sum
=============================================================================
