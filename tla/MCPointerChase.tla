-------------------------- MODULE MCPointerChase ----------------------------
(* PointerChase on six elements: all 120 cycles, a warm-up that stops       *)
(* inside the cycle and a timed loop that goes round once and a half.       *)
EXTENDS PointerChase
=============================================================================
