------------------------------- MODULE Layout -------------------------------
(***************************************************************************)
(* Where the members of a struct lie, and which cache lines an object      *)
(* occupies.  A struct is the sequence of its members' sizes, each of      *)
(* which is also the member's alignment, as for the integers and pointers  *)
(* of AoSEntry (access_patterns.h) and Node (prefetching.h) on 64 bits.    *)
(***************************************************************************)
EXTENDS Integers, Sequences

\* CACHE_LINE_SIZE of benchmark_utils.h.
CACHE_LINE_SIZE == 64

RoundUp(x, alignment) == ((x + alignment - 1) \div alignment) * alignment

\* External: the compiler puts each member at the next aligned offset.
MemberEnds(members) ==
  LET end[k \in 0 .. Len(members)] ==
        IF k = 0 THEN 0 ELSE RoundUp(end[k - 1], members[k]) + members[k]
  IN end

OffsetOf(members, k) == MemberEnds(members)[k] - members[k]

SizeOf(members, alignment) == RoundUp(MemberEnds(members)[Len(members)], alignment)

\* The lines of size bytes at an address.
Lines(address, size) ==
  address \div CACHE_LINE_SIZE .. (address + size - 1) \div CACHE_LINE_SIZE
=============================================================================
