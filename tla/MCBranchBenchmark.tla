------------------------- MODULE MCBranchBenchmark --------------------------
(* BranchBenchmark on its own: three values from either side of 128, two    *)
(* passes.                                                                  *)
EXTENDS BranchBenchmark
=============================================================================
