----------------------- MODULE MCAllocatorBenchmark -------------------------
(* AllocatorBenchmark with a speed test of four allocations and a jitter    *)
(* test of three batches of three (two reversals of the pool's chain, two   *)
(* resets of the arena).  malloc has a choice of four blocks and may fail.  *)
EXTENDS AllocatorBenchmark
=============================================================================
