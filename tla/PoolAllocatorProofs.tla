------------------------ MODULE PoolAllocatorProofs -------------------------
(***************************************************************************)
(* Proofs about PoolAllocator for every number of objects.                 *)
(*                                                                         *)
(* The invariants of the module speak of the set of slots reachable from   *)
(* the head, which no single call describes.  The inductive invariant      *)
(* names the chain itself: the free slots in the order of their links.     *)
(***************************************************************************)
EXTENDS PoolAllocator, FiniteSetTheorems, WellFoundedInduction, TLAPS

\* f lists the free slots, first to last, n of them.
FreeChain(n, f) ==
  /\ free_list_ = IF n = 0 THEN Nil ELSE f[1]
  /\ \A j \in 1..n : word[f[j]] = IF j = n THEN Nil ELSE f[j + 1]
  /\ \A j, k \in 1..n : f[j] = f[k] => j = k
  /\ \A j \in 1..n : f[j] \notin held
  /\ \A s \in Slots \ held : \E j \in 1..n : f[j] = s

ChainInv == \E n \in 0..count : \E f \in [1..n -> Slots] : FreeChain(n, f)

IInv == TypeOK /\ ChainInv

-----------------------------------------------------------------------------
\* No list of distinct slots is longer than the pool.
LEMMA ListNoLongerThanPool ==
  ASSUME NEW n \in Nat, NEW f \in [1..n -> Slots],
         \A j, k \in 1..n : f[j] = f[k] => j = k
  PROVE  n <= count
<1>1. IsFiniteSet(1..n) /\ Cardinality(1..n) = n
  <2>1. IsFiniteSet(1..n) /\ Cardinality(1..n) = IF 1 > n THEN 0 ELSE n - 1 + 1
    BY FS_Interval
  <2>. QED  BY <2>1
<1>2. IsFiniteSet(Slots) /\ Cardinality(Slots) = count
  <2>1. 0 \in Int /\ count - 1 \in Int
    BY CountAssumption
  <2>2. IsFiniteSet(0 .. count - 1)
        /\ Cardinality(0 .. count - 1) = IF 0 > count - 1 THEN 0 ELSE count - 1 - 0 + 1
    BY <2>1, FS_Interval
  <2>. QED  BY <2>2, CountAssumption DEF Slots
<1>3. ASSUME count < n PROVE FALSE
  <2>1. PICK x, y \in 1..n : x # y /\ f[x] = f[y]
    BY <1>1, <1>2, <1>3, FS_PigeonHole
  <2>. QED  BY <2>1
<1>. QED  BY <1>3, CountAssumption

\* The constructor's chain holds every slot in address order.
LEMMA InitChain == Init => ChainInv
<1> SUFFICES ASSUME Init PROVE ChainInv
  OBVIOUS
<1> DEFINE f == [j \in 1..count |-> j - 1]
<1>1. f \in [1..count -> Slots]
  BY CountAssumption DEF Slots
<1>2. FreeChain(count, f)
  <2>1. \A j \in 1..count : f[j] \in Slots /\ f[j] = j - 1
    BY <1>1
  <2>2. \A j \in 1..count : word[f[j]] = IF j = count THEN Nil ELSE f[j + 1]
    BY <2>1, CountAssumption DEF Init, Links
  <2>3. \A s \in Slots : s + 1 \in 1..count /\ f[s + 1] = s
    BY CountAssumption DEF Slots
  <2>4. free_list_ = IF count = 0 THEN Nil ELSE f[1]
    BY <2>1, CountAssumption DEF Init
  <2>5. \A j \in 1..count : f[j] \notin held
    BY DEF Init
  <2> HIDE DEF f
  <2>6. \A j, k \in 1..count : f[j] = f[k] => j = k
    BY <2>1, CountAssumption
  <2>. QED  BY <2>2, <2>3, <2>4, <2>5, <2>6 DEF FreeChain
<1>. QED  BY <1>1, <1>2, CountAssumption DEF ChainInv

\* allocate() takes the first slot off the chain.
LEMMA PopKeepsChain == TypeOK /\ ChainInv /\ Pop => ChainInv'
<1> SUFFICES ASSUME TypeOK, ChainInv, Pop PROVE ChainInv'
  OBVIOUS
<1>1. PICK n \in 0..count : \E f \in [1..n -> Slots] : FreeChain(n, f)
  BY DEF ChainInv
<1>2. PICK f \in [1..n -> Slots] : FreeChain(n, f)
  BY <1>1
<1>3. n \in Nat \ {0} /\ free_list_ = f[1] /\ f[1] \in Slots
  BY <1>2, CountAssumption DEF FreeChain, Pop
<1> DEFINE g == [j \in 1..(n - 1) |-> f[j + 1]]
<1>4. g \in [1..(n - 1) -> Slots] /\ \A j \in 1..(n - 1) : g[j] = f[j + 1]
  BY <1>3
<1>5. FreeChain(n - 1, g)'
  <2>1. free_list_' = IF n - 1 = 0 THEN Nil ELSE g[1]
    BY <1>2, <1>3 DEF Pop, FreeChain
  <2>2. \A j \in 1..(n - 1) : word[g[j]] = IF j = n - 1 THEN Nil ELSE g[j + 1]
    BY <1>2, <1>3, <1>4 DEF FreeChain
  <2>3. \A j, k \in 1..(n - 1) : g[j] = g[k] => j = k
    BY <1>2, <1>3, <1>4 DEF FreeChain
  <2>4. \A j \in 1..(n - 1) : g[j] \notin held \cup {f[1]}
    BY <1>2, <1>3, <1>4 DEF FreeChain
  <2>5. ASSUME NEW s \in Slots \ (held \cup {f[1]})
        PROVE  \E j \in 1..(n - 1) : g[j] = s
    <3>1. PICK j \in 1..n : f[j] = s
      BY <1>2, <2>5 DEF FreeChain
    <3>2. j # 1
      BY <3>1, <2>5
    <3>3. j - 1 \in 1..(n - 1) /\ g[j - 1] = s
      BY <3>1, <3>2, <1>3, <1>4
    <3>. QED  BY <3>3
  <2>. QED  BY <2>1, <2>2, <2>3, <2>4, <2>5, <1>3 DEF FreeChain, Pop
<1>6. n - 1 \in 0..count
  BY <1>3, CountAssumption
<1>. QED  BY <1>4, <1>5, <1>6 DEF ChainInv

\* deallocate() puts the slot in front of the chain.
LEMMA DeallocateKeepsChain ==
  ASSUME TypeOK, ChainInv, NEW ptr \in Slots, deallocate(ptr)
  PROVE  ChainInv'
<1>1. PICK n \in 0..count : \E f \in [1..n -> Slots] : FreeChain(n, f)
  BY DEF ChainInv
<1>2. PICK f \in [1..n -> Slots] : FreeChain(n, f)
  BY <1>1
<1>3. n \in Nat
  BY CountAssumption
<1> DEFINE g == [j \in 1..(n + 1) |-> IF j = 1 THEN ptr ELSE f[j - 1]]
<1>4. g \in [1..(n + 1) -> Slots]
  BY <1>3
<1>5. g[1] = ptr /\ \A j \in 1..n : g[j + 1] = f[j] /\ f[j] # ptr /\ f[j] \in Slots
  BY <1>2, <1>3 DEF FreeChain, deallocate
<1>6. \A j \in 1..(n + 1) : j = 1 \/ (j - 1 \in 1..n /\ g[j] = f[j - 1])
  BY <1>3
<1>7. \A s \in Slots : word'[s] = IF s = ptr THEN free_list_ ELSE word[s]
  BY DEF deallocate, TypeOK
<1>8. FreeChain(n + 1, g)'
  <2>1. free_list_' = g[1]
    BY <1>5 DEF deallocate
  <2>2. ASSUME NEW j \in 1..(n + 1)
        PROVE  word'[g[j]] = IF j = n + 1 THEN Nil ELSE g[j + 1]
    <3>1. CASE j = 1
      BY <3>1, <1>2, <1>3, <1>5, <1>7 DEF FreeChain
    <3>2. CASE j # 1
      <4>1. j - 1 \in 1..n /\ g[j] = f[j - 1] /\ f[j - 1] # ptr /\ f[j - 1] \in Slots
        BY <3>2, <1>5, <1>6
      <4>2. word'[g[j]] = word[f[j - 1]]
        BY <4>1, <1>7
      <4>3. word[f[j - 1]] = IF j - 1 = n THEN Nil ELSE f[j]
        BY <4>1, <1>2 DEF FreeChain
      <4>4. j # n + 1 => g[j + 1] = f[j]
        BY <1>3, <1>5
      <4>. QED  BY <4>2, <4>3, <4>4, <1>3
    <3>. QED  BY <3>1, <3>2
  <2>3. ASSUME NEW j \in 1..(n + 1), NEW k \in 1..(n + 1), g[j] = g[k]
        PROVE  j = k
    <3>1. CASE j = 1 \/ k = 1
      BY <3>1, <2>3, <1>5, <1>6
    <3>2. CASE j # 1 /\ k # 1
      <4>1. j - 1 \in 1..n /\ k - 1 \in 1..n /\ f[j - 1] = f[k - 1]
        BY <3>2, <2>3, <1>6
      <4>2. j - 1 = k - 1
        BY <4>1, <1>2 DEF FreeChain
      <4>. QED  BY <4>2
    <3>. QED  BY <3>1, <3>2
  <2>4. \A j \in 1..(n + 1) : g[j] \notin held \ {ptr}
    BY <1>2, <1>5, <1>6 DEF FreeChain
  <2>5. ASSUME NEW s \in Slots \ (held \ {ptr})
        PROVE  \E j \in 1..(n + 1) : g[j] = s
    <3>1. CASE s = ptr
      <4>1. 1 \in 1..(n + 1)
        BY <1>3
      <4>. QED  BY <3>1, <4>1, <1>5
    <3>2. CASE s # ptr
      <4>1. PICK j \in 1..n : f[j] = s
        BY <3>2, <2>5, <1>2 DEF FreeChain
      <4>2. j + 1 \in 1..(n + 1) /\ g[j + 1] = s
        BY <4>1, <1>3, <1>5
      <4>. QED  BY <4>2
    <3>. QED  BY <3>1, <3>2
  <2>6. held' = held \ {ptr}
    BY DEF deallocate
  <2> HIDE DEF g
  <2>7. free_list_' = IF n + 1 = 0 THEN Nil ELSE g[1]
    BY <2>1, <1>3
  <2>. QED  BY <2>2, <2>3, <2>4, <2>5, <2>6, <2>7 DEF FreeChain
<1>9. n + 1 \in 0..count
  <2>1. \A j, k \in 1..(n + 1) : g[j] = g[k] => j = k
    BY <1>8 DEF FreeChain
  <2> HIDE DEF g
  <2>2. n + 1 <= count
    <3>1. n + 1 \in Nat
      BY <1>3
    <3>. QED  BY <2>1, <3>1, <1>4, ListNoLongerThanPool
  <2>. QED  BY <2>2, <1>3, CountAssumption
<1>. QED  BY <1>4, <1>8, <1>9 DEF ChainInv

\* A client store changes a word off the chain.
LEMMA StoreKeepsChain ==
  ASSUME TypeOK, ChainInv, NEW ptr \in Slots, NEW value \in Words, Store(ptr, value)
  PROVE  ChainInv'
<1>1. PICK n \in 0..count : \E f \in [1..n -> Slots] : FreeChain(n, f)
  BY DEF ChainInv
<1>2. PICK f \in [1..n -> Slots] : FreeChain(n, f)
  BY <1>1
<1>3. \A j \in 1..n : word'[f[j]] = word[f[j]]
  BY <1>2 DEF FreeChain, Store, TypeOK
<1>4. FreeChain(n, f)'
  BY <1>2, <1>3 DEF FreeChain, Store
<1>. QED  BY <1>2, <1>4 DEF ChainInv

-----------------------------------------------------------------------------
LEMMA NextInductive == IInv /\ [Next]_vars => IInv'
<1> SUFFICES ASSUME IInv, [Next]_vars PROVE IInv'
  OBVIOUS
<1> USE DEF IInv
<1>1. CASE Pop
  <2>1. word[free_list_] \in Slots \cup {Nil}
    <3>1. PICK n \in 0..count : \E f \in [1..n -> Slots] : FreeChain(n, f)
      BY DEF ChainInv
    <3>2. PICK f \in [1..n -> Slots] : FreeChain(n, f)
      BY <3>1
    <3>. QED  BY <1>1, <3>2, CountAssumption DEF FreeChain, Pop
  <2>2. TypeOK'
    BY <1>1, <2>1 DEF TypeOK, Pop
  <2>. QED  BY <1>1, <2>2, PopKeepsChain
<1>2. CASE ReturnNull
  <2>1. TypeOK'
    BY <1>2 DEF TypeOK, ReturnNull
  <2>2. ChainInv'
    BY <1>2 DEF ChainInv, FreeChain, ReturnNull
  <2>. QED  BY <2>1, <2>2
<1>3. ASSUME NEW ptr \in Slots, deallocate(ptr) PROVE IInv'
  <2>1. TypeOK'
    BY <1>3 DEF TypeOK, deallocate, Words
  <2>. QED  BY <1>3, <2>1, DeallocateKeepsChain
<1>4. ASSUME NEW ptr \in Slots, NEW value \in Words, Store(ptr, value) PROVE IInv'
  <2>1. TypeOK'
    BY <1>4 DEF TypeOK, Store
  <2>. QED  BY <1>4, <2>1, StoreKeepsChain
<1>5. CASE UNCHANGED vars
  BY <1>5 DEF vars, TypeOK, ChainInv, FreeChain
<1>. QED  BY <1>1, <1>2, <1>3, <1>4, <1>5 DEF Next, allocate

LEMMA Inductive == Spec => []IInv
<1>1. Init => IInv
  <2>1. Init => TypeOK
    BY CountAssumption, WordAssumption DEF Init, TypeOK, Links, Words, Slots
  <2>. QED  BY <2>1, InitChain DEF IInv
<1>. QED  BY <1>1, NextInductive, PTL DEF Spec

(***************************************************************************)
(* The head of the chain is always a slot or nullptr, never client data    *)
(* taken for a link, for any number of objects.                            *)
(***************************************************************************)
THEOREM TypeCorrect == Spec => []TypeOK
BY Inductive, PTL DEF IInv

-----------------------------------------------------------------------------
LEMMA LeastNatural ==
  ASSUME NEW T \in SUBSET Nat, T # {}
  PROVE  \E m \in T : \A k \in T : m <= k
<1>1. PICK m \in T : \A k \in T : ~ (<<k, m>> \in OpToRel(<, Nat))
  BY NatLessThanWellFounded, WFMin
<1>2. \A k \in T : ~ (k < m)
  BY <1>1 DEF OpToRel
<1>. QED  BY <1>2

\* Every slot of the chain is in every closed set: a least position outside
\* one would be the head or the target of a link from inside.
LEMMA ChainInClosedSets ==
  ASSUME NEW n \in Nat, NEW f \in [1..n -> Slots], FreeChain(n, f),
         NEW S \in SUBSET Slots, Closed(S)
  PROVE  \A j \in 1..n : f[j] \in S
<1> DEFINE T == {j \in 1..n : f[j] \notin S}
<1>1. ASSUME T # {} PROVE FALSE
  <2>1. T \in SUBSET Nat
    OBVIOUS
  <2> HIDE DEF T
  <2>2. PICK m \in T : \A k \in T : m <= k
    BY <1>1, <2>1, LeastNatural
  <2> USE DEF T
  <2>3. CASE m = 1
    BY <2>3 DEF FreeChain, Closed
  <2>4. CASE m # 1
    <3>1. m \in 1..n /\ m - 1 \in 1..n /\ m - 1 \notin T
      BY <2>2, <2>4
    <3>2. f[m - 1] \in S /\ word[f[m - 1]] = f[m] /\ f[m] \in Slots
      BY <3>1 DEF FreeChain
    <3>3. f[m] \in S
      BY <3>2 DEF Closed
    <3>. QED  BY <3>3, <2>2
  <2>. QED  BY <2>3, <2>4
<1>. QED  BY <1>1

LEMMA ChainCoversFree ==
  ASSUME NEW n \in Nat, NEW f \in [1..n -> Slots], FreeChain(n, f)
  PROVE  FreeSlots = Slots \ held
<1>1. Closed(Slots \ held)
  <2>1. free_list_ \in Slots => free_list_ \notin held
    BY WordAssumption DEF FreeChain
  <2>2. ASSUME NEW s \in Slots \ held, word[s] \in Slots PROVE word[s] \notin held
    <3>1. PICK j \in 1..n : f[j] = s
      BY DEF FreeChain
    <3>2. j # n /\ word[s] = f[j + 1] /\ j + 1 \in 1..n
      BY <2>2, <3>1, WordAssumption DEF FreeChain
    <3>. QED  BY <3>2 DEF FreeChain
  <2>. QED  BY <2>1, <2>2 DEF Closed
<1>2. FreeSlots \subseteq Slots \ held
  BY <1>1 DEF FreeSlots
<1>3. ASSUME NEW s \in Slots \ held PROVE s \in FreeSlots
  <2>1. PICK j \in 1..n : f[j] = s
    BY DEF FreeChain
  <2>2. \A S \in SUBSET Slots : Closed(S) => s \in S
    BY <2>1, ChainInClosedSets
  <2>. QED  BY <2>2 DEF FreeSlots
<1>. QED  BY <1>2, <1>3

LEMMA ChainImpliesExact == IInv => ChainIsExact
<1> SUFFICES ASSUME IInv PROVE ChainIsExact
  OBVIOUS
<1>1. PICK n \in 0..count : \E f \in [1..n -> Slots] : FreeChain(n, f)
  BY DEF ChainInv, IInv
<1>2. PICK f \in [1..n -> Slots] : FreeChain(n, f)
  BY <1>1
<1>3. n \in Nat
  BY CountAssumption
<1>. QED  BY <1>2, <1>3, ChainCoversFree DEF ChainIsExact

LEMMA ChainImpliesEnds == IInv => ChainEnds
<1> SUFFICES ASSUME IInv PROVE ChainEnds
  OBVIOUS
<1>1. PICK n \in 0..count : \E f \in [1..n -> Slots] : FreeChain(n, f)
  BY DEF ChainInv, IInv
<1>2. PICK f \in [1..n -> Slots] : FreeChain(n, f)
  BY <1>1
<1>3. n \in Nat /\ FreeSlots = Slots \ held
  BY <1>2, CountAssumption, ChainImpliesExact DEF ChainIsExact
<1>4. \A j \in 1..n : f[j] \in FreeSlots
  BY <1>2, <1>3 DEF FreeChain
<1>5. ASSUME NEW s \in FreeSlots PROVE word[s] \in FreeSlots \cup {Nil} /\ n # 0
  <2>1. PICK j \in 1..n : f[j] = s
    BY <1>2, <1>3 DEF FreeChain
  <2>2. j # n => j + 1 \in 1..n
    BY <1>3
  <2>. QED  BY <2>1, <2>2, <1>2, <1>4 DEF FreeChain
<1>6. n # 0 => n \in 1..n /\ word[f[n]] = Nil
  BY <1>2, <1>3 DEF FreeChain
<1>. QED  BY <1>4, <1>5, <1>6 DEF ChainEnds

(***************************************************************************)
(* For any number of objects and any sequence of allocate(), deallocate()  *)
(* and client stores, the slots reachable through the links in memory are  *)
(* exactly the slots the client does not hold.                             *)
(***************************************************************************)
THEOREM ExactChain == Spec => []ChainIsExact
BY Inductive, ChainImpliesExact, PTL

(***************************************************************************)
(* For any number of objects the chain is a list that ends in nullptr.     *)
(***************************************************************************)
THEOREM EndingChain == Spec => []ChainEnds
BY Inductive, ChainImpliesEnds, PTL

-----------------------------------------------------------------------------
\* Under the invariant the head is free, and is nullptr only when nothing is.
LEMMA HeadIsFree ==
  IInv => /\ free_list_ # Nil => free_list_ \in Slots \ held
          /\ free_list_ = Nil => held = Slots
<1> SUFFICES ASSUME IInv
             PROVE  /\ free_list_ # Nil => free_list_ \in Slots \ held
                    /\ free_list_ = Nil => held = Slots
  OBVIOUS
<1>1. PICK n \in 0..count : \E f \in [1..n -> Slots] : FreeChain(n, f)
  BY DEF ChainInv, IInv
<1>2. PICK f \in [1..n -> Slots] : FreeChain(n, f)
  BY <1>1
<1>3. CASE n = 0
  <2>1. free_list_ = Nil /\ \A s \in Slots : s \in held
    BY <1>2, <1>3 DEF FreeChain
  <2>. QED  BY <2>1 DEF IInv, TypeOK
<1>4. CASE n # 0
  <2>1. 1 \in 1..n
    BY <1>4, CountAssumption
  <2>2. free_list_ = f[1] /\ f[1] \in Slots /\ f[1] \notin held
    BY <1>2, <1>4, <2>1 DEF FreeChain
  <2>. QED  BY <2>2, WordAssumption
<1>. QED  BY <1>3, <1>4

(***************************************************************************)
(* For any number of objects allocate() never returns a slot in use.       *)
(***************************************************************************)
THEOREM NeverGrantedTwice == Spec => NoDoubleGrant
<1>1. IInv /\ [Next]_vars => [allocate /\ ret' # Nil => ret' \notin held]_vars
  BY HeadIsFree DEF allocate, Pop, ReturnNull
<1>. QED  BY <1>1, Inductive, PTL DEF Spec, NoDoubleGrant

(***************************************************************************)
(* For any number of objects allocate() returns nullptr only when the      *)
(* client holds all of them.                                               *)
(***************************************************************************)
THEOREM RefusedOnlyWhenFull == Spec => NullOnlyWhenFull
<1>1. IInv /\ [Next]_vars => [allocate /\ ret' = Nil => held = Slots]_vars
  BY HeadIsFree DEF allocate, Pop, ReturnNull
<1>. QED  BY <1>1, Inductive, PTL DEF Spec, NullOnlyWhenFull

-----------------------------------------------------------------------------
LEMMA StepRefines ==
  IInv /\ IInv' /\ [Next]_vars => [Abstract!Next]_(Abstract!vars)
<1> SUFFICES ASSUME IInv, IInv', [Next]_vars
             PROVE  Abstract!Next \/ UNCHANGED <<FreeSlots, held, ret>>
  BY DEF Abstract!vars
<1>1. FreeSlots = Slots \ held
  BY ChainImpliesExact DEF ChainIsExact
<1>2. FreeSlots' = Slots \ held'
  <2>1. ChainIsExact'
    BY ChainImpliesExact, PTL
  <2>. QED  BY <2>1 DEF ChainIsExact, Slots
<1>3. held \in SUBSET Slots
  BY DEF IInv, TypeOK
<1>4. CASE Pop
  <2>1. free_list_ \in Slots \ held
    BY <1>4, HeadIsFree DEF Pop
  <2>2. FreeSlots' = FreeSlots \ {free_list_} /\ ret' = free_list_
         /\ held' = held \cup {free_list_}
    BY <1>1, <1>2, <1>4 DEF Pop
  <2>3. Abstract!Grant(free_list_)
    BY <1>1, <2>1, <2>2 DEF Abstract!Grant
  <2>. QED  BY <2>1, <2>3 DEF Abstract!Next
<1>5. CASE ReturnNull
  <2>1. FreeSlots = {} /\ FreeSlots' = FreeSlots /\ ret' = Nil /\ held' = held
    BY <1>1, <1>2, <1>5, HeadIsFree DEF ReturnNull
  <2>. QED  BY <2>1 DEF Abstract!Next, Abstract!Refuse
<1>6. ASSUME NEW ptr \in Slots, deallocate(ptr) PROVE Abstract!Next
  <2>1. ptr \in held /\ held' = held \ {ptr} /\ ret' = ret
    BY <1>6 DEF deallocate
  <2>2. FreeSlots' = FreeSlots \cup {ptr}
    BY <1>1, <1>2, <1>3, <2>1
  <2>3. Abstract!GiveBack(ptr)
    BY <2>1, <2>2 DEF Abstract!GiveBack
  <2>. QED  BY <2>3 DEF Abstract!Next
<1>7. ASSUME NEW ptr \in Slots, NEW value \in Words, Store(ptr, value)
      PROVE  UNCHANGED <<FreeSlots, held, ret>>
  BY <1>1, <1>2, <1>7 DEF Store
<1>8. CASE UNCHANGED vars
  BY <1>1, <1>2, <1>8 DEF vars
<1>. QED  BY <1>4, <1>5, <1>6, <1>7, <1>8 DEF Next, allocate

(***************************************************************************)
(* For any number of objects the free list in memory implements            *)
(* ObjectPool.                                                             *)
(***************************************************************************)
THEOREM PoolImplementsObjectPool == Spec => ImplementsObjectPool
<1>1. Init => IInv
  BY InitChain, CountAssumption, WordAssumption
  DEF Init, IInv, TypeOK, Links, Words, Slots
<1>2. Init => Abstract!Init
  <2>1. Init => FreeSlots = Slots \ held
    BY <1>1, ChainImpliesExact DEF ChainIsExact
  <2>. QED  BY <2>1 DEF Init, Abstract!Init
<1>. QED  BY <1>2, Inductive, StepRefines, PTL
     DEF Spec, ImplementsObjectPool, Abstract!Spec

=============================================================================
