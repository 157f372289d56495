----------------------------- MODULE ObjectPool -----------------------------
(***************************************************************************)
(* What a pool of fixed-size objects promises its client, without saying   *)
(* how the free objects are found: a request is refused only when no       *)
(* object is available, an object granted is not available until it is     *)
(* given back, and nothing else changes the set of available objects.      *)
(*                                                                         *)
(* PoolAllocator implements it with avail read off the free list threaded  *)
(* through the memory of the objects themselves.                           *)
(***************************************************************************)
CONSTANTS
  Objects,  \* the objects of the pool
  Nil       \* the refusal

VARIABLES
  avail,    \* the objects the pool may still grant
  held,     \* the objects the client has been granted and not given back
  ret       \* what the last request returned

vars == <<avail, held, ret>>

Init == avail = Objects /\ held = {} /\ ret = Nil

Refuse ==
  /\ avail = {}
  /\ ret' = Nil
  /\ UNCHANGED <<avail, held>>

Grant(o) ==
  /\ o \in avail
  /\ avail' = avail \ {o}
  /\ held' = held \cup {o}
  /\ ret' = o

GiveBack(o) ==
  /\ o \in held
  /\ avail' = avail \cup {o}
  /\ held' = held \ {o}
  /\ UNCHANGED ret

Next ==
  \/ Refuse
  \/ \E o \in Objects : Grant(o) \/ GiveBack(o)

Spec == Init /\ [][Next]_vars
=============================================================================
