--------------------------- MODULE PoolAllocator ----------------------------
(***************************************************************************)
(* PoolAllocator of src/src/allocators.h: count objects of one size in one *)
(* block, the free ones chained by a pointer stored in the first word of   *)
(* each free object.  While a client holds an object the same word is the  *)
(* client's data, so the chain is only as good as the discipline that      *)
(* keeps the two uses apart.                                               *)
(*                                                                         *)
(* Slot i is the object at pool_ + i * object_size.  The client gives back *)
(* only what it holds and writes only into what it holds: the class checks *)
(* neither.  object_size is at least a pointer wide and aligned, as in     *)
(* both users of the class, so the first words of two slots never overlap. *)
(***************************************************************************)
EXTENDS Naturals

CONSTANTS
  count,   \* number of objects, the constructor's second argument
  Nil,     \* nullptr
  Data     \* a word of client data that is no slot and not Nil

ASSUME CountAssumption == count \in Nat \ {0}

Slots == 0 .. count - 1
Words == Slots \cup {Nil, Data}

ASSUME WordAssumption == Nil \notin Slots /\ Data \notin Slots /\ Nil # Data

VARIABLES
  word,        \* first word of each slot
  free_list_,  \* head of the chain of free slots
  held,        \* slots the client holds
  ret          \* what the last allocate() returned

vars == <<word, free_list_, held, ret>>

-----------------------------------------------------------------------------
\* The chain the constructor leaves: a forward link in every slot but the
\* last, which ends the chain.
LinksInRing   == [i \in Slots |-> IF i + 1 < count THEN i + 1 ELSE 0]
LinksOneShort == [i \in Slots |-> IF i + 2 < count THEN i + 1 ELSE Nil]
Links         == [i \in Slots |-> IF i + 1 < count THEN i + 1 ELSE Nil]

Construct ==
  /\ word' = Links
  /\ free_list_' = 0

Init ==
  /\ word = Links
  /\ free_list_ = 0
  /\ held = {}
  /\ ret = Nil

-----------------------------------------------------------------------------
PopPastEnd ==
  /\ free_list_ # Nil
  /\ ret' = free_list_
  /\ free_list_' = IF word[free_list_] = Nil THEN Data ELSE word[free_list_]
  /\ held' = held \cup {free_list_}
  /\ UNCHANGED word

\* allocate() with a non-empty chain: its first slot is the result.
Pop ==
  /\ free_list_ # Nil
  /\ ret' = free_list_
  /\ free_list_' = word[free_list_]
  /\ held' = held \cup {free_list_}
  /\ UNCHANGED word

\* allocate() with an empty chain.
ReturnNull ==
  /\ free_list_ = Nil
  /\ ret' = Nil
  /\ UNCHANGED <<word, free_list_, held>>

allocate == Pop \/ ReturnNull

deallocateLosesHead(ptr) ==
  /\ ptr \in held
  /\ word' = [word EXCEPT ![ptr] = free_list_]
  /\ held' = held \ {ptr}
  /\ UNCHANGED <<free_list_, ret>>

deallocate(ptr) ==
  /\ ptr \in held
  /\ word' = [word EXCEPT ![ptr] = free_list_]
  /\ free_list_' = ptr
  /\ held' = held \ {ptr}
  /\ UNCHANGED ret

\* The client stores a value, perhaps one that looks like a pointer into the
\* pool, over the first word of a slot it holds.
Store(ptr, value) ==
  /\ ptr \in held
  /\ word' = [word EXCEPT ![ptr] = value]
  /\ UNCHANGED <<free_list_, held, ret>>

Next ==
  \/ allocate
  \/ \E ptr \in Slots : deallocate(ptr)
  \/ \E ptr \in Slots, value \in Words : Store(ptr, value)

Spec == Init /\ [][Next]_vars

-----------------------------------------------------------------------------
\* The slots reachable from free_list_: the smallest set that contains the
\* head and the target of every link of its members.
Closed(S) ==
  /\ free_list_ \in Slots => free_list_ \in S
  /\ \A s \in S : word[s] \in Slots => word[s] \in S

FreeSlots == {s \in Slots : \A S \in SUBSET Slots : Closed(S) => s \in S}

(***************************************************************************)
(* Types.  In particular the head is a slot or nullptr, never client data  *)
(* that was mistaken for a link.                                           *)
(***************************************************************************)
TypeOK ==
  /\ word \in [Slots -> Words]
  /\ free_list_ \in Slots \cup {Nil}
  /\ held \in SUBSET Slots
  /\ ret \in Slots \cup {Nil}

(***************************************************************************)
(* Whatever the client stores in the slots it holds, the chain in memory   *)
(* contains exactly the slots nobody holds: none leaked, none on the chain *)
(* while in use (allocators.h:59-69).                                      *)
(***************************************************************************)
ChainIsExact == FreeSlots = Slots \ held

(***************************************************************************)
(* The chain is a list that ends: its links stay on it and one of them is  *)
(* nullptr, so repeated allocate() cannot cycle (allocators.h:48-54).      *)
(***************************************************************************)
ChainEnds ==
  /\ \A s \in FreeSlots : word[s] \in FreeSlots \cup {Nil}
  /\ FreeSlots # {} => \E s \in FreeSlots : word[s] = Nil

(***************************************************************************)
(* allocate() never returns a slot that is already in use.                 *)
(***************************************************************************)
NoDoubleGrant == [][allocate /\ ret' # Nil => ret' \notin held]_vars

(***************************************************************************)
(* allocate() returns nullptr only when every one of the count objects is  *)
(* in use; a client may size the pool exactly.                             *)
(***************************************************************************)
NullOnlyWhenFull == [][allocate /\ ret' = Nil => held = Slots]_vars

\* The promise, with the available objects read off the chain in memory.
Abstract == INSTANCE ObjectPool WITH Objects <- Slots, avail <- FreeSlots

(***************************************************************************)
(* The pool implements ObjectPool: client stores are invisible, allocate() *)
(* grants the head or refuses, deallocate() gives back.                    *)
(***************************************************************************)
ImplementsObjectPool == Abstract!Spec
=============================================================================
