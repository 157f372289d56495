-------------------------- MODULE MCArenaAllocator --------------------------
(* A 32-byte arena with 7-bit words.  The sizes cover a request of nothing, *)
(* both sides of an alignment boundary, a request that fills the buffer in  *)
(* one step and one that never fits.                                        *)
EXTENDS ArenaAllocator

MCSizes == {0, 1, 8, 9, 20, 32, 33}
=============================================================================
