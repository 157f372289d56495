--------------------------- MODULE StridedAccess ----------------------------
(***************************************************************************)
(* run_strided_access of src/src/prefetching.h: for each stride, reads of  *)
(* every stride-th element round the vector, once plainly and once with a  *)
(* prefetch of the next element before each read.                          *)
(***************************************************************************)
EXTENDS Naturals, Sequences, FiniteSets

CONSTANTS
  Length,    \* n, the elements of the vector
  strides,   \* the sequence of strides
  ACCESSES   \* reads of each loop

StridesAssumption ==
  /\ Length \in Nat \ {0} /\ ACCESSES \in Nat
  /\ strides \in Seq(Nat \ {0}) /\ Len(strides) > 0

VARIABLES
  pc,           \* the next step
  i,            \* the loops' counter
  nth,          \* the stride being measured
  prefetching,  \* whether this is the second loop
  idx,
  walked,       \* the elements each of the two loops has read
  hinted        \* the elements the second loop has prefetched

locals == <<nth, prefetching, idx, walked, hinted>>
vars   == <<pc, i, locals>>

NoReads == [p \in BOOLEAN |-> <<>>]

Init ==
  /\ pc = "begin" /\ i = 0
  /\ nth = 1 /\ prefetching = FALSE /\ idx = 0
  /\ walked = NoReads /\ hinted = <<>>

-----------------------------------------------------------------------------
stride == strides[nth]

StepShort == (idx + stride) % (Length - 1)

Step == (idx + stride) % Length

Begin ==
  /\ pc = "begin"
  /\ pc' = "walk"
  /\ UNCHANGED <<i, locals>>

Read ==
  /\ pc = "walk" /\ i < ACCESSES
  /\ hinted' = IF prefetching THEN Append(hinted, Step) ELSE hinted
  /\ walked' = [walked EXCEPT ![prefetching] = Append(@, idx)]
  /\ idx' = Step
  /\ i' = i + 1
  /\ UNCHANGED <<pc, nth, prefetching>>

SecondLoopGoesOn ==
  /\ pc = "walk" /\ i = ACCESSES /\ ~ prefetching
  /\ prefetching' = TRUE /\ i' = 0
  /\ UNCHANGED <<idx, pc, nth, walked, hinted>>

\* The second loop starts at element 0 again.
SecondLoop ==
  /\ pc = "walk" /\ i = ACCESSES /\ ~ prefetching
  /\ prefetching' = TRUE /\ idx' = 0 /\ i' = 0
  /\ UNCHANGED <<pc, nth, walked, hinted>>

\* The row is printed.
StopClock ==
  /\ pc = "walk" /\ i = ACCESSES /\ prefetching
  /\ pc' = "row"
  /\ UNCHANGED <<i, locals>>

NextStride ==
  /\ pc = "row"
  /\ IF nth < Len(strides) THEN nth' = nth + 1 /\ pc' = "walk"
                           ELSE nth' = 1 /\ pc' = "over"
  /\ prefetching' = FALSE /\ idx' = 0 /\ i' = 0
  /\ walked' = NoReads /\ hinted' = <<>>

Run == Begin \/ Read \/ SecondLoop \/ StopClock \/ NextStride

Over == pc = "over" /\ UNCHANGED vars

Next == Run \/ Over

Spec == Init /\ [][Next]_vars

-----------------------------------------------------------------------------
(***************************************************************************)
(* Types.  No read is outside the vector.                                  *)
(***************************************************************************)
TypeOK ==
  /\ pc \in {"begin", "walk", "row", "over"}
  /\ i \in 0 .. ACCESSES /\ nth \in DOMAIN strides
  /\ prefetching \in BOOLEAN /\ idx \in 0 .. Length - 1
  /\ walked \in [BOOLEAN -> Seq(0 .. Length - 1)]
  /\ hinted \in Seq(0 .. Length - 1)

(***************************************************************************)
(* The two times of a row are of the same reads, and each prefetch is of   *)
(* the element read next (prefetching.h:172-194).                          *)
(***************************************************************************)
SameReads ==
  /\ \A k \in DOMAIN hinted : k + 1 \in DOMAIN walked[TRUE] => hinted[k] = walked[TRUE][k + 1]
  /\ pc = "row" => walked[TRUE] = walked[FALSE] /\ Len(walked[TRUE]) = ACCESSES

(***************************************************************************)
(* What the strides of the table measure: a stride that divides n meets    *)
(* n / stride elements and then the same ones again, in the same order.    *)
(* The larger the stride, the fewer the elements the reads are spread over *)
(* (prefetching.h:160-187).                                                *)
(***************************************************************************)
SmallCircle ==
  Length % stride = 0 =>
    \A p \in BOOLEAN : \A k, l \in DOMAIN walked[p] :
      walked[p][k] = walked[p][l] <=> k % (Length \div stride) = l % (Length \div stride)
=============================================================================
