---------------------------- MODULE MCLinkedList ----------------------------
(* LinkedList on its own: four nodes in all orders.                         *)
EXTENDS LinkedList
=============================================================================
