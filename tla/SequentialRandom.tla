-------------------------- MODULE SequentialRandom --------------------------
(***************************************************************************)
(* run_sequential_vs_random of src/src/cache_lines.h: reads of a vector in *)
(* order and round again, then as many reads at indices drawn beforehand.  *)
(* The reads are what is kept.                                             *)
(***************************************************************************)
EXTENDS Naturals, Sequences, FiniteSets

CONSTANTS
  Length,    \* n, the elements of the vector
  ACCESSES   \* reads of either loop

ReadsAssumption == Length \in Nat \ {0} /\ ACCESSES \in Nat

VARIABLES
  pc,              \* the next step
  i,               \* the loops' counter
  random_indices,
  inorder,         \* the elements the sequential loop has read
  jumping          \* the elements the random loop has read

locals == <<random_indices, inorder, jumping>>
vars   == <<pc, i, locals>>

Init ==
  /\ pc = "begin" /\ i = 0
  /\ random_indices = <<>> /\ inorder = <<>> /\ jumping = <<>>

-----------------------------------------------------------------------------
Begin ==
  /\ pc = "begin"
  /\ pc' = "sequential"
  /\ UNCHANGED <<i, locals>>

PositionShort == i % (Length - 1)

Position == i % Length

Sequential ==
  /\ pc = "sequential" /\ i < ACCESSES
  /\ inorder' = Append(inorder, Position)
  /\ i' = i + 1
  /\ UNCHANGED <<pc, random_indices, jumping>>

\* The clock is stopped, the indices are drawn, and it is started again.
Draw ==
  /\ pc = "sequential" /\ i = ACCESSES
  /\ random_indices' \in [0 .. ACCESSES - 1 -> 0 .. Length - 1]
  /\ pc' = "random" /\ i' = 0
  /\ UNCHANGED <<inorder, jumping>>

Random ==
  /\ pc = "random" /\ i < ACCESSES
  /\ jumping' = Append(jumping, random_indices[i])
  /\ i' = i + 1
  /\ UNCHANGED <<pc, random_indices, inorder>>

StopClock ==
  /\ pc = "random" /\ i = ACCESSES
  /\ pc' = "returned" /\ i' = 0
  /\ UNCHANGED locals

Return ==
  /\ pc = "returned"
  /\ pc' = "over"
  /\ random_indices' = <<>> /\ inorder' = <<>> /\ jumping' = <<>>
  /\ UNCHANGED i

Run == Begin \/ Sequential \/ Draw \/ Random \/ StopClock \/ Return

-----------------------------------------------------------------------------
(***************************************************************************)
(* Types.  No read is outside the vector.                                  *)
(***************************************************************************)
TypeOK ==
  /\ pc \in {"begin", "sequential", "random", "returned", "over"}
  /\ i \in 0 .. ACCESSES
  /\ {inorder, jumping} \subseteq Seq(0 .. Length - 1)

Reads(element) == Cardinality({k \in DOMAIN inorder : inorder[k] = element})

(***************************************************************************)
(* The sequential loop sweeps the vector evenly: no element is read twice  *)
(* more than another, so that with as many reads as elements every element *)
(* the random loop meets has been read before, and both loops make the     *)
(* same number of reads (cache_lines.h:219-248).                           *)
(***************************************************************************)
EvenSweep ==
  /\ \A a, b \in 0 .. Length - 1 : Reads(a) <= Reads(b) + 1
  /\ pc = "returned" => /\ Len(jumping) = Len(inorder)
                        /\ ACCESSES >= Length =>
                             \A k \in DOMAIN jumping : Reads(jumping[k]) > 0
=============================================================================
