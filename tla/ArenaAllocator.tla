--------------------------- MODULE ArenaAllocator ---------------------------
(***************************************************************************)
(* ArenaAllocator of src/src/allocators.h: one buffer, a cursor that moves *)
(* forward by the rounded size of each request, and reset() to give        *)
(* everything back at once.                                                *)
(*                                                                         *)
(* Addresses are offsets from buffer_.  size_t arithmetic is modulo        *)
(* Modulus.  malloc may fail in the constructor, which does not look: the  *)
(* arena then works on offsets from a null pointer, and its first result   *)
(* is indistinguishable from a refusal.                                    *)
(***************************************************************************)
EXTENDS Integers

CONSTANTS
  capacity_,  \* bytes in the buffer
  Sizes,      \* the sizes clients request
  Modulus,    \* 2^w for a size_t of w bits
  Nil         \* nullptr

ASSUME CapacityAssumption == capacity_ \in Nat /\ Sizes \subseteq Nat

\* No client asks for a size near the end of the address space: neither
\* addition in allocate() wraps.
ASSUME WordAssumption ==
  /\ Modulus \in Nat
  /\ \A size \in Sizes : capacity_ + size + 7 < Modulus

ASSUME NilAssumption == Nil \notin Nat

VARIABLES
  buffer_,  \* whether the constructor's malloc returned memory
  offset_,  \* the cursor
  live,     \* [base, size] of each block handed out since the last reset()
  ret       \* what the last allocate() returned

vars == <<buffer_, offset_, live, ret>>

-----------------------------------------------------------------------------
RoundedDown(size)  == size - (size % 8)
RoundedTwice(size) == LET s == (size + 15) % Modulus IN s - (s % 8)
NotRounded(size)   == size

\* (size + 7) & ~7ULL
Rounded(size) == LET s == (size + 7) % Modulus IN s - (s % 8)

FitsBeforeAdding(size) == offset_ <= capacity_
FitsStrictly(size)     == (offset_ + Rounded(size)) % Modulus < capacity_

Fits(size) == (offset_ + Rounded(size)) % Modulus <= capacity_

\* buffer_ + offset_, where offset 0 of a null buffer is nullptr itself.
Here == IF buffer_ \/ offset_ # 0 THEN offset_ ELSE Nil

-----------------------------------------------------------------------------
Construct ==
  /\ buffer_' \in BOOLEAN
  /\ offset_' = 0

Init ==
  /\ buffer_ \in BOOLEAN
  /\ offset_ = 0
  /\ live = {}
  /\ ret = Nil

Bump(size) ==
  /\ Fits(size)
  /\ ret' = Here
  /\ offset_' = (offset_ + Rounded(size)) % Modulus
  /\ live' = IF Here = Nil THEN live ELSE live \cup {[base |-> offset_, size |-> size]}
  /\ UNCHANGED buffer_

Refuse(size) ==
  /\ ~ Fits(size)
  /\ ret' = Nil
  /\ UNCHANGED <<buffer_, offset_, live>>

allocate(size) == Bump(size) \/ Refuse(size)

resetNothing ==
  /\ live' = {}
  /\ UNCHANGED <<buffer_, offset_, ret>>

reset ==
  /\ offset_' = 0
  /\ live' = {}
  /\ UNCHANGED <<buffer_, ret>>

Next ==
  \/ \E size \in Sizes : allocate(size)
  \/ reset

Spec == Init /\ [][Next]_vars

-----------------------------------------------------------------------------
(***************************************************************************)
(* Types; the cursor never passes the end of the buffer.                   *)
(***************************************************************************)
TypeOK ==
  /\ buffer_ \in BOOLEAN
  /\ offset_ \in 0 .. capacity_
  /\ live \subseteq [base : 0 .. capacity_, size : Sizes]
  /\ ret \in 0 .. capacity_ \cup {Nil}

(***************************************************************************)
(* No two blocks handed out since the last reset() share a byte, and none  *)
(* reaches past the buffer (allocators.h:88-95).                           *)
(***************************************************************************)
BlocksApart ==
  /\ \A a, b \in live : a # b => \/ a.base + a.size <= b.base
                                 \/ b.base + b.size <= a.base
  /\ \A a \in live : a.base + a.size <= capacity_

(***************************************************************************)
(* Every block starts on an 8-byte boundary, whatever sizes were asked for *)
(* before it (allocators.h:89-90).                                         *)
(***************************************************************************)
BlocksAligned == \A a \in live : a.base % 8 = 0

(***************************************************************************)
(* "Zero fragmentation" (allocators.h:21): every byte below the cursor is  *)
(* part of a live block or of the at most 7 bytes that pad one.            *)
(***************************************************************************)
NoGaps ==
  buffer_ => \A x \in 0 .. offset_ - 1 :
               \E a \in live : a.base <= x /\ x < a.base + a.size + 7
=============================================================================
