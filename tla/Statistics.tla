----------------------------- MODULE Statistics -----------------------------
(***************************************************************************)
(* compute_stats of src/src/benchmark_utils.h: order statistics of samples *)
(* that std::sort has put in ascending order, by position.  The mean is    *)
(* left out: no caller prints it.                                          *)
(***************************************************************************)
EXTENDS Integers, FiniteSets

\* n samples from S in order; positions count from 0 as in the vector.
Ascending(n, S) ==
  {s \in [0 .. n - 1 -> S] : \A a, b \in 0 .. n - 1 : a <= b => s[a] <= s[b]}

P99IndexOneShort(n) == (99 * (n - 1)) \div 100

\* static_cast<size_t>(n * 0.99): the double nearest to n * 0.99 lies on the
\* same side of every integer as 99 * n / 100 itself for n below 10^13.
P99Index(n) == (99 * n) \div 100

\* For n > 0: front() and back() of no samples are undefined.
compute_stats(s, n) ==
  [min    |-> s[0],
   max    |-> s[n - 1],
   median |-> s[n \div 2],
   p99    |-> s[P99Index(n)]]

Above(s, n, x) == {k \in 0 .. n - 1 : s[k] > x}
Below(s, n, x) == {k \in 0 .. n - 1 : s[k] < x}

(***************************************************************************)
(* What the names promise: the results lie in their order, half of the     *)
(* samples at most are above and half at most below the median, and fewer  *)
(* than one in a hundred samples are above the 99th percentile, and at     *)
(* most 99 in a hundred below it.                                          *)
(***************************************************************************)
AreStatistics(stats, s, n) ==
  /\ stats.min <= stats.median /\ stats.median <= stats.p99 /\ stats.p99 <= stats.max
  /\ 2 * Cardinality(Above(s, n, stats.median)) <= n
  /\ 2 * Cardinality(Below(s, n, stats.median)) <= n
  /\ 100 * Cardinality(Above(s, n, stats.p99)) < n
  /\ 100 * Cardinality(Below(s, n, stats.p99)) <= 99 * n
=============================================================================
