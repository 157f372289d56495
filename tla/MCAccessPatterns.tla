-------------------------- MODULE MCAccessPatterns --------------------------
(* AccessPatterns on its own: four elements, two passes.                    *)
EXTENDS AccessPatterns

Counts == <<4>>
=============================================================================
