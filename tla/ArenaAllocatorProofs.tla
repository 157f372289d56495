------------------------ MODULE ArenaAllocatorProofs ------------------------
(***************************************************************************)
(* Proofs about ArenaAllocator for every capacity, every set of request    *)
(* sizes and every word size wide enough for them.                         *)
(***************************************************************************)
EXTENDS ArenaAllocator, TLAPS

\* Every block, with its padding, lies below the cursor and apart from the
\* others; block starts and the cursor are on 8-byte boundaries.
IInv ==
  /\ TypeOK
  /\ offset_ % 8 = 0
  /\ BlocksAligned
  /\ \A a \in live : a.base + a.size <= offset_
  /\ \A a, b \in live : a # b => \/ a.base + a.size <= b.base
                                 \/ b.base + b.size <= a.base
  /\ NoGaps

-----------------------------------------------------------------------------
LEMMA SmallMod == ASSUME NEW m \in Nat, NEW x \in Nat, x < m PROVE x % m = x
BY Z3

\* Without wrap-around the mask rounds up, by less than 8, to a multiple of 8.
LEMMA RoundedUp ==
  ASSUME NEW size \in Sizes
  PROVE  /\ Rounded(size) \in Nat
         /\ size <= Rounded(size) /\ Rounded(size) <= size + 7
         /\ Rounded(size) % 8 = 0
<1>1. size \in Nat /\ size + 7 \in Nat /\ size + 7 < Modulus /\ Modulus \in Nat
  BY CapacityAssumption, WordAssumption
<1>2. (size + 7) % Modulus = size + 7
  BY <1>1, SmallMod
<1>3. Rounded(size) = (size + 7) - ((size + 7) % 8)
  BY <1>2 DEF Rounded
<1>. QED  BY <1>1, <1>3

\* Neither does the cursor's addition wrap.
LEMMA NoWrap ==
  ASSUME TypeOK, NEW size \in Sizes
  PROVE  (offset_ + Rounded(size)) % Modulus = offset_ + Rounded(size)
<1>1. offset_ + Rounded(size) \in Nat /\ offset_ + Rounded(size) < Modulus
  BY RoundedUp, CapacityAssumption, WordAssumption DEF TypeOK
<1>. QED  BY <1>1, SmallMod, WordAssumption

LEMMA BlockTypes ==
  ASSUME TypeOK
  PROVE  \A a \in live : a.base \in Nat /\ a.size \in Nat
<1>1. ASSUME NEW a \in live
      PROVE  a.base \in 0 .. capacity_ /\ a.size \in Sizes
  <2>1. a \in [base : 0 .. capacity_, size : Sizes]
    BY DEF TypeOK
  <2>. QED  BY <2>1
<1>2. 0 .. capacity_ \subseteq Nat /\ Sizes \subseteq Nat
  BY CapacityAssumption
<1>. QED  BY <1>1, <1>2

LEMMA InitInv == Init => IInv
BY CapacityAssumption DEF Init, IInv, TypeOK, BlocksAligned, NoGaps

LEMMA BumpInv ==
  ASSUME IInv, NEW size \in Sizes, Bump(size)
  PROVE  IInv'
<1> DEFINE r == Rounded(size)
           new == [base |-> offset_, size |-> size]
<1>1. r \in Nat /\ size \in Nat /\ size <= r /\ r <= size + 7 /\ r % 8 = 0
  BY RoundedUp, CapacityAssumption
<1>2. offset_' = offset_ + r /\ offset_ + r <= capacity_ /\ offset_ \in Nat
  BY NoWrap, CapacityAssumption DEF Bump, Fits, IInv, TypeOK
<1>3. live' = live \/ live' = live \cup {new}
  BY DEF Bump
<1>4. buffer_ => live' = live \cup {new}
  BY NilAssumption, <1>2 DEF Bump, Here
<1> HIDE DEF r
<1>5. new.base = offset_ /\ new.size = size /\ new \in [base : 0 .. capacity_, size : Sizes]
  BY <1>1, <1>2, CapacityAssumption
<1> HIDE DEF new
<1>6. \A a \in live : a.base \in Nat /\ a.size \in Nat /\ a.base + a.size <= offset_
  BY BlockTypes DEF IInv
<1>7. TypeOK'
  <2>1. ret' \in (0 .. capacity_) \cup {Nil}
    BY <1>2 DEF Bump, Here, IInv, TypeOK
  <2>2. offset_' \in 0 .. capacity_
    BY <1>1, <1>2, CapacityAssumption
  <2>. QED  BY <2>1, <2>2, <1>3, <1>5 DEF TypeOK, IInv, Bump
<1>8. offset_' % 8 = 0
  BY <1>1, <1>2 DEF IInv
<1>9. BlocksAligned'
  BY <1>3, <1>5 DEF IInv, BlocksAligned
<1>10. \A a \in live' : a.base + a.size <= offset_'
  BY <1>1, <1>2, <1>3, <1>5, <1>6
<1>11. \A a, b \in live' : a # b => \/ a.base + a.size <= b.base
                                    \/ b.base + b.size <= a.base
  BY <1>3, <1>5, <1>6 DEF IInv
<1>12. NoGaps'
  <2> SUFFICES ASSUME buffer_, NEW x \in 0 .. offset_' - 1
               PROVE  \E a \in live' : a.base <= x /\ x < a.base + a.size + 7
    BY DEF NoGaps, Bump
  <2>1. CASE x < offset_
    BY <2>1, <1>2, <1>4 DEF IInv, NoGaps
  <2>2. CASE x >= offset_ /\ size > 0
    <3>1. new \in live' /\ new.base <= x /\ x < new.base + new.size + 7
      BY <2>2, <1>1, <1>2, <1>4, <1>5
    <3>. QED  BY <3>1
  <2>3. CASE x >= offset_ /\ size = 0
    BY <2>3, <1>1, <1>2
  <2>. QED  BY <2>1, <2>2, <2>3, <1>1, <1>2
<1>. QED  BY <1>7, <1>8, <1>9, <1>10, <1>11, <1>12 DEF IInv

LEMMA Inductive == Spec => []IInv
<1>1. IInv /\ [Next]_vars => IInv'
  <2> SUFFICES ASSUME IInv, [Next]_vars PROVE IInv'
    OBVIOUS
  <2>1. ASSUME NEW size \in Sizes, Bump(size) PROVE IInv'
    BY <2>1, BumpInv
  <2>2. ASSUME NEW size \in Sizes, Refuse(size) PROVE IInv'
    BY <2>2 DEF Refuse, IInv, TypeOK, BlocksAligned, NoGaps
  <2>3. CASE reset
    BY <2>3, CapacityAssumption DEF reset, IInv, TypeOK, BlocksAligned, NoGaps
  <2>4. CASE UNCHANGED vars
    <3>1. /\ buffer_' = buffer_ /\ offset_' = offset_
          /\ live' = live /\ ret' = ret
      BY <2>4 DEF vars
    <3>2. TypeOK' /\ BlocksAligned' /\ NoGaps'
      BY <3>1 DEF IInv, TypeOK, BlocksAligned, NoGaps
    <3>. QED  BY <3>1, <3>2 DEF IInv
  <2>. QED  BY <2>1, <2>2, <2>3, <2>4 DEF Next, allocate
<1>. QED  BY <1>1, InitInv, PTL DEF Spec

-----------------------------------------------------------------------------
(***************************************************************************)
(* The cursor stays in the buffer for every capacity and set of sizes that *)
(* the word can add without wrapping.                                      *)
(***************************************************************************)
THEOREM TypeCorrect == Spec => []TypeOK
BY Inductive, PTL DEF IInv

(***************************************************************************)
(* Under the same assumption blocks never overlap and never leave the      *)
(* buffer.                                                                 *)
(***************************************************************************)
THEOREM Apart == Spec => []BlocksApart
<1>1. IInv => BlocksApart
  <2> SUFFICES ASSUME IInv PROVE \A a \in live : a.base + a.size <= capacity_
    BY DEF IInv, BlocksApart
  <2>1. \A a \in live : a.base \in Nat /\ a.size \in Nat
    BY BlockTypes DEF IInv
  <2>. QED  BY <2>1, CapacityAssumption DEF IInv, TypeOK
<1>. QED  BY <1>1, Inductive, PTL

(***************************************************************************)
(* Under the same assumption every block is 8-byte aligned.                *)
(***************************************************************************)
THEOREM Aligned == Spec => []BlocksAligned
BY Inductive, PTL DEF IInv

(***************************************************************************)
(* Under the same assumption the arena loses no byte but padding.          *)
(***************************************************************************)
THEOREM NothingLost == Spec => []NoGaps
BY Inductive, PTL DEF IInv

=============================================================================
