-------------------------- MODULE MCPoolAllocator ---------------------------
(* PoolAllocator with four slots and one kind of client data: enough for a *)
(* chain with a middle, for two slots returned out of order, and for       *)
(* client data that imitates any link.                                     *)
EXTENDS PoolAllocator
=============================================================================
