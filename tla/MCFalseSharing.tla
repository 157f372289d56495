--------------------------- MODULE MCFalseSharing ---------------------------
(* FalseSharing on machines that differ in everything the code depends on.  *)
EXTENDS FalseSharing

Machine(online, allowed, l1, counts_mask) ==
  [online |-> online, allowed |-> allowed, l1 |-> l1, counts_mask |-> counts_mask]

\* Siblings next to each other, or half the CPUs apart.
Adjacent == [c \in 0 .. 3 |-> c \div 2]
Apart    == [c \in 0 .. 3 |-> c % 2]

FourAdjacent == Machine(0 .. 3, 0 .. 3, Adjacent, FALSE)
FourApart    == Machine(0 .. 3, 0 .. 3, Apart, FALSE)
TwoCores     == Machine(0 .. 1, 0 .. 1, Apart, FALSE)
TwoSiblings  == Machine(0 .. 1, 0 .. 1, Adjacent, FALSE)
OneCpu       == Machine({0}, {0}, Adjacent, FALSE)
Container    == Machine(0 .. 3, {0, 1}, Adjacent, FALSE)
WithoutZero  == Machine(0 .. 3, {1, 3}, Adjacent, FALSE)
CpuOffline   == Machine({0, 1, 3}, {0, 1, 3}, Adjacent, FALSE)
MaskCounted  == Machine(0 .. 3, 0 .. 3, Adjacent, TRUE)

AllMachines == {FourAdjacent, FourApart, TwoCores, TwoSiblings, OneCpu, Container,
                WithoutZero, CpuOffline, MaskCounted}
Unrestricted == {FourAdjacent, FourApart}
Restricted   == {Container}
=============================================================================
