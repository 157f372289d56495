------------------------------ MODULE MCSuite -------------------------------
(* Suite with every argument and small benchmarks.                          *)
(*   - TLB: two pages per buffer, three reads of them in any order of which *)
(*     the first is warmed up, and a pool of three huge pages of which the  *)
(*     buffer needs two: other processes can take one page and leave        *)
(*     enough, or two and make the mapping fail.                            *)
(*   - NUMA: one node, two to five nodes without holes, nodes with holes,   *)
(*     and nodes this process may use only in part.                         *)
(*   - Branches: three values from either side of 128, two passes.          *)
(*   - Access patterns: one element, two, and nine, with which an array of  *)
(*     the SoA layout takes two lines or three.                             *)
(*   - Reads: a vector of four elements, five reads in order and five drawn *)
(*     ones, and six at strides that go round it once and a half and three  *)
(*     times.                                                               *)
(*   - List: four nodes in all 24 orders, walks that go round the ring once *)
(*     and a half and warm-ups that stop inside it.                         *)
EXTENDS Suite

Sockets == {{0}, 0 .. 1, 0 .. 2, 0 .. 4, {0, 2}, {0, 1, 4, 5}, {0, 2, 3}}

AllMachines ==
  UNION {[online : {o}, allowed : {o, o \ {0}} \ {{}},
          file : BOOLEAN, permitted : BOOLEAN, HAS_LIBNUMA : BOOLEAN] : o \in Sockets}

Counts  == <<1, 2, 9>>
Strides == <<1, 2>>
=============================================================================
