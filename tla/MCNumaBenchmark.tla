-------------------------- MODULE MCNumaBenchmark ---------------------------
(* NumaBenchmark on its own, on the machines whose nodes are 0 and 2.       *)
EXTENDS NumaBenchmark

Holes == [online : {{0, 2}}, allowed : {{0, 2}, {2}},
          file : BOOLEAN, permitted : BOOLEAN, HAS_LIBNUMA : BOOLEAN]
=============================================================================
