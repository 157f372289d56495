------------------------- MODULE PointerChaseProofs -------------------------
(***************************************************************************)
(* Sattolo's algorithm in cache_lines.h produces one cycle through the     *)
(* whole vector, for every length and every outcome of the generator.      *)
(*                                                                         *)
(* The inductive invariant speaks of closed sets, the sets of elements no  *)
(* load leaves.  While the shuffle is at i, every nonempty closed set      *)
(* contains an element up to i, and any two elements up to i are told      *)
(* apart by a closed set: each cycle has exactly one element up to i.      *)
(***************************************************************************)
EXTENDS PointerChase, FiniteSetTheorems, TLAPS

Injective == \A x, y \in Index : chain[x] = chain[y] => x = y

ReachesLow == \A S \in SUBSET Index : S # {} /\ Closed(S) => \E x \in S : x <= i

LowApart == \A a, b \in 0 .. i : a # b =>
              \E C \in SUBSET Index : Closed(C) /\ a \in C /\ b \notin C

ShuffleInv == Injective /\ ReachesLow /\ LowApart /\ (phase # "shuffle" => i = 0)

IInv == TypeOK /\ ShuffleInv

-----------------------------------------------------------------------------
LEMMA IndexFinite == IsFiniteSet(Index)
BY SizeAssumption, FS_Interval DEF Index

\* An injective map of the vector into itself that does not leave S does not
\* enter S either.
LEMMA NeverEntered ==
  ASSUME NEW f \in [Index -> Index],
         \A x, y \in Index : f[x] = f[y] => x = y,
         NEW S \in SUBSET Index,
         \A x \in S : f[x] \in S
  PROVE  \A x \in Index : f[x] \in S => x \in S
<1> SUFFICES ASSUME NEW x \in Index, f[x] \in S, x \notin S
             PROVE  FALSE
    OBVIOUS
<1> DEFINE T == S \ {f[x]}
           g == [y \in S |-> f[y]]
<1>1. IsFiniteSet(S)
      BY IndexFinite, FS_Subset
<1>2. IsFiniteSet(T) /\ Cardinality(T) = Cardinality(S) - 1
      BY <1>1, FS_RemoveElement
<1>3. Cardinality(S) \in Nat
      BY <1>1, FS_CardinalityType
<1>4. g \in [S -> T]
      OBVIOUS
<1>5. Cardinality(T) < Cardinality(S)
      BY <1>2, <1>3
<1>6. \A y \in S : g[y] = f[y]
      OBVIOUS
<1> HIDE DEF T, g
<1>7. PICK y, z \in S : y # z /\ g[y] = g[z]
      BY <1>1, <1>2, <1>4, <1>5, FS_PigeonHole
<1> QED
    BY <1>6, <1>7

LEMMA NotEntered ==
  ASSUME TypeOK, Injective, NEW S \in SUBSET Index, Closed(S),
         NEW x \in Index, chain[x] \in S
  PROVE  x \in S
BY NeverEntered DEF TypeOK, Injective, Closed

\* One iteration of the shuffle merges the cycle of i into that of j.
LEMMA Swap ==
  ASSUME TypeOK, ShuffleInv, i > 0, NEW j \in 0 .. i - 1, swap(j), i' = i - 1
  PROVE  chain' \in [Index -> Index] /\ Injective' /\ ReachesLow' /\ LowApart'
<1>1. /\ i \in Index /\ j \in Index /\ i # j
      /\ chain \in [Index -> Index]
      BY SizeAssumption DEF TypeOK, Index
<1>2. /\ chain' \in [Index -> Index]
      /\ chain'[i] = chain[j] /\ chain'[j] = chain[i]
      /\ \A x \in Index : x # i /\ x # j => chain'[x] = chain[x]
      BY <1>1 DEF swap
<1>3. Injective'
      BY <1>1, <1>2 DEF ShuffleInv, Injective
<1>4. ASSUME NEW S \in SUBSET Index, i \in S <=> j \in S
      PROVE  Closed(S) <=> \A x \in S : chain'[x] \in S
      BY <1>1, <1>2, <1>4 DEF Closed
<1>5. ASSUME NEW S \in SUBSET Index, S # {}, \A x \in S : chain'[x] \in S
      PROVE  \E x \in S : x <= i - 1
  <2>1. CASE i \in S <=> j \in S
    <3>1. PICK x \in S : x <= i
          BY <1>4, <1>5, <2>1 DEF ShuffleInv, ReachesLow
    <3>2. CASE x = i
          BY <2>1, <3>2, <1>1, SizeAssumption DEF Index
    <3>3. CASE x # i
          BY <3>1, <3>3, <1>1, SizeAssumption DEF Index
    <3> QED
        BY <3>2, <3>3
  <2>2. CASE j \in S
        BY <2>2, <1>1, SizeAssumption DEF Index
  <2>3. CASE i \in S /\ j \notin S
    <3>1. PICK C \in SUBSET Index : Closed(C) /\ j \in C /\ i \notin C
          BY <1>1, SizeAssumption DEF ShuffleInv, LowApart, Index
    <3>2. Closed(S \cap C)
          BY <1>2, <1>5, <2>3, <3>1 DEF Closed
    <3>3. chain[j] \in S \cap C
          BY <1>2, <1>5, <2>3, <3>1 DEF Closed
    <3> QED
        BY <1>1, <2>3, <3>2, <3>3, NotEntered DEF ShuffleInv
  <2> QED
      BY <2>1, <2>2, <2>3
<1>6. ASSUME NEW a \in 0 .. i - 1, NEW b \in 0 .. i - 1, a # b
      PROVE  \E C \in SUBSET Index : /\ \A x \in C : chain'[x] \in C
                                     /\ a \in C /\ b \notin C
  <2>1. a \in 0 .. i /\ b \in 0 .. i /\ i \in 0 .. i /\ a # i /\ b # i
        BY <1>1, SizeAssumption DEF Index
  <2>2. PICK C \in SUBSET Index : Closed(C) /\ a \in C /\ b \notin C
        BY <1>6, <2>1 DEF ShuffleInv, LowApart
  <2>3. CASE i \in C <=> j \in C
        BY <1>4, <2>2, <2>3
  <2>4. CASE j \in C /\ i \notin C
    <3>1. PICK E \in SUBSET Index : Closed(E) /\ i \in E /\ b \notin E
          BY <2>1 DEF ShuffleInv, LowApart
    <3>2. Closed(C \cup E) /\ C \cup E \in SUBSET Index
          BY <2>2, <3>1 DEF Closed
    <3>3. \A x \in C \cup E : chain'[x] \in C \cup E
          BY <1>4, <2>4, <3>1, <3>2
    <3> QED
        BY <2>2, <3>1, <3>2, <3>3
  <2>5. CASE i \in C /\ j \notin C
    <3>1. PICK D \in SUBSET Index : Closed(D) /\ a \in D /\ i \notin D
          BY <2>1 DEF ShuffleInv, LowApart
    <3>2. Closed(C \cap D) /\ C \cap D \in SUBSET Index
          BY <2>2, <3>1 DEF Closed
    <3>3. \A x \in C \cap D : chain'[x] \in C \cap D
          BY <1>4, <2>5, <3>1, <3>2
    <3> QED
        BY <2>2, <3>1, <3>2, <3>3
  <2> QED
      BY <2>3, <2>4, <2>5
<1>7. ReachesLow'
      BY <1>5 DEF ReachesLow, Closed
<1>8. LowApart'
      BY <1>6 DEF LowApart, Closed
<1> QED
    BY <1>2, <1>3, <1>7, <1>8

-----------------------------------------------------------------------------
\* Shuffled means: one cycle.  The elements outside a closed set are closed
\* too, and only one of the two can contain element 0.
LEMMA OneCycle ==
  ASSUME IInv
  PROVE  SingleCycle
<1> SUFFICES ASSUME phase # "shuffle",
                    NEW S \in SUBSET Index, S # {}, Closed(S), S # Index
             PROVE  FALSE
    BY DEF SingleCycle
<1> DEFINE R == Index \ S
<1>1. \A x \in R : chain[x] \in Index /\ chain[x] \notin S
      BY NotEntered DEF IInv, ShuffleInv, TypeOK
<1>2. Closed(R) /\ R # {} /\ R \in SUBSET Index
      BY <1>1 DEF Closed
<1>3. \A T \in SUBSET Index : T # {} /\ Closed(T) => 0 \in T
      BY SizeAssumption DEF IInv, ShuffleInv, ReachesLow, Index
<1> QED
    BY <1>2, <1>3

LEMMA InitInv == Init => IInv
<1> SUFFICES ASSUME Init PROVE IInv
    OBVIOUS
<1>1. TypeOK
      BY SizeAssumption DEF Init, TypeOK, Index
<1>2. \A x \in Index : chain[x] = x
      BY DEF Init
<1>3. Injective
      BY <1>2 DEF Injective
<1>4. ReachesLow
  <2>1. \A x \in Index : x <= i
        BY SizeAssumption DEF Init, Index
  <2> QED
      BY <2>1 DEF ReachesLow
<1>5. LowApart
  <2> SUFFICES ASSUME NEW a \in 0 .. i, NEW b \in 0 .. i, a # b
               PROVE  \E C \in SUBSET Index : Closed(C) /\ a \in C /\ b \notin C
      BY DEF LowApart
  <2>1. {a} \in SUBSET Index
        BY SizeAssumption DEF Init, Index
  <2>2. Closed({a})
        BY <1>2, <2>1 DEF Closed
  <2> QED
      BY <2>1, <2>2
<1> QED
    BY <1>1, <1>3, <1>4, <1>5 DEF IInv, ShuffleInv, Init

LEMMA NextInv == IInv /\ [Next]_vars => IInv'
<1> SUFFICES ASSUME IInv, [Next]_vars PROVE IInv'
    OBVIOUS
<1> USE DEF IInv
<1>1. CASE Shuffle
  <2>1. PICK j \in 0 .. i - 1 : swap(j)
        BY <1>1 DEF Shuffle
  <2>2. i > 0 /\ i' = i - 1 /\ phase = "shuffle" /\ phase' = "shuffle"
        BY <1>1 DEF Shuffle
  <2>3. chain' \in [Index -> Index] /\ Injective' /\ ReachesLow' /\ LowApart'
        BY <2>1, <2>2, Swap
  <2>4. i' \in Index
        BY <2>2, SizeAssumption DEF TypeOK, Index
  <2>5. TypeOK'
        BY <1>1, <2>2, <2>3, <2>4 DEF TypeOK, Shuffle
  <2> QED
      BY <2>2, <2>3, <2>5 DEF ShuffleInv
<1>2. ASSUME UNCHANGED <<chain, i>>, phase' = "shuffle" => phase = "shuffle",
             phase' # "shuffle" => i = 0
      PROVE  ShuffleInv'
      BY <1>2 DEF ShuffleInv, Injective, ReachesLow, LowApart, Closed
<1>3. 0 \in Index
      BY SizeAssumption DEF Index
<1>4. CASE StartWarmup
      BY <1>2, <1>3, <1>4 DEF StartWarmup, TypeOK
<1>5. CASE Warmup
      BY <1>2, <1>5 DEF Warmup, TypeOK, ShuffleInv
<1>6. CASE StartClock
      BY <1>2, <1>3, <1>6 DEF StartClock, TypeOK, ShuffleInv
<1>7. CASE Measure
      BY <1>2, <1>7 DEF Measure, TypeOK, ShuffleInv
<1>8. CASE StopClock
      BY <1>2, <1>8 DEF StopClock, TypeOK, ShuffleInv
<1>9. CASE UNCHANGED vars
      BY <1>2, <1>9 DEF vars, TypeOK, ShuffleInv
<1> QED
    BY <1>1, <1>4, <1>5, <1>6, <1>7, <1>8, <1>9 DEF Next, Done

LEMMA AlwaysIInv == Spec => []IInv
<1>1. Init => IInv
      BY InitInv
<1>2. IInv /\ [Next]_vars => IInv'
      BY NextInv
<1> QED
    BY <1>1, <1>2, PTL DEF Spec

(***************************************************************************)
(* The types hold in every reachable state: no loop loads outside the      *)
(* vector.                                                                 *)
(***************************************************************************)
THEOREM TypeCorrect == Spec => []TypeOK
<1>1. IInv => TypeOK
      BY DEF IInv
<1> QED
    BY <1>1, AlwaysIInv, PTL

(***************************************************************************)
(* Whatever the generator returns, the shuffled vector is a single cycle   *)
(* through all its elements (cache_lines.h:158-168).                       *)
(***************************************************************************)
THEOREM SattoloIsOneCycle == Spec => []SingleCycle
<1>1. IInv => SingleCycle
      BY OneCycle
<1> QED
    BY <1>1, AlwaysIInv, PTL

-----------------------------------------------------------------------------
\* The timed loop has loaded a path that ends just before idx.
Path == phase = "measure" => \A x \in visited : chain[x] \in visited \cup {idx}

Unvisited == phase \in {"shuffle", "warmup"} => visited = {}

PathInv == Path /\ Unvisited

LEMMA AlwaysPathInv == Spec => []PathInv
<1>1. Init => PathInv
      BY DEF Init, PathInv, Path, Unvisited
<1>2. PathInv /\ [Next]_vars => PathInv'
  <2> SUFFICES ASSUME PathInv, [Next]_vars PROVE PathInv'
      OBVIOUS
  <2> USE DEF PathInv, Path, Unvisited
  <2>1. CASE Measure
        BY <2>1 DEF Measure
  <2>2. CASE Shuffle \/ StartWarmup \/ Warmup \/ StartClock \/ StopClock
        BY <2>2 DEF Shuffle, StartWarmup, Warmup, StartClock, StopClock
  <2>3. CASE UNCHANGED vars
        BY <2>3 DEF vars
  <2> QED
      BY <2>1, <2>2, <2>3 DEF Next, Done
<1> QED
    BY <1>1, <1>2, PTL DEF Spec

(***************************************************************************)
(* The timed loop loads no element a second time before it has loaded them *)
(* all: when it comes back to a loaded element the path it took is closed, *)
(* and only the whole vector is (cache_lines.h:180-183).                   *)
(***************************************************************************)
THEOREM NoEarlyRevisit == Spec => RevisitsOnlyAfterAll
<1>1. IInv /\ PathInv /\ [Next]_vars
        => [phase = "measure" /\ steps' # steps /\ idx \in visited => visited = Index]_vars
  <2> SUFFICES ASSUME IInv, PathInv, phase = "measure", idx \in visited
               PROVE  visited = Index
      OBVIOUS
  <2>1. visited \in SUBSET Index /\ visited # {}
        BY DEF IInv, TypeOK
  <2>2. Closed(visited)
        BY <2>1 DEF PathInv, Path, Closed
  <2> QED
      BY <2>1, <2>2, OneCycle DEF SingleCycle
<1> QED
    BY <1>1, AlwaysIInv, AlwaysPathInv, PTL DEF Spec, RevisitsOnlyAfterAll

-----------------------------------------------------------------------------
\* The first loads of either loop: both follow the chain from element 0.
Walk(f, k) ==
  /\ f \in [0 .. k -> Index] /\ f[0] = 0
  /\ \A m \in 0 .. k - 1 : f[m + 1] = chain[f[m]]

Loaded(f, k) == {f[m] : m \in 0 .. k - 1}

WarmInv ==
  /\ phase \in {"shuffle", "warmup"} => visited = {}
  /\ phase = "shuffle" => warmed = {}
  /\ phase = "warmup" =>
       /\ steps \in 0 .. WARMUP
       /\ \E f : Walk(f, steps) /\ idx = f[steps] /\ warmed = Loaded(f, steps)
  /\ phase \in {"measure", "done"} =>
       \E f : /\ Walk(f, WARMUP) /\ warmed = Loaded(f, WARMUP)
              /\ steps <= WARMUP => idx = f[steps] /\ visited \subseteq Loaded(f, steps)

LEMMA WarmStep == TypeOK /\ WarmInv /\ [Next]_vars => WarmInv'
<1> SUFFICES ASSUME TypeOK, WarmInv, [Next]_vars PROVE WarmInv'
    OBVIOUS
<1>0. WARMUP \in Nat /\ steps \in Nat /\ 0 \in Index
      BY SizeAssumption, LoopAssumption DEF TypeOK, Index
<1>1. CASE Shuffle
      BY <1>1 DEF Shuffle, WarmInv
<1>2. CASE StartWarmup
  <2> DEFINE f == [m \in 0 .. 0 |-> 0]
  <2>1. f[0] = 0 /\ f \in [0 .. 0 -> Index]
        BY <1>0
  <2> HIDE DEF f
  <2>2. /\ phase' = "warmup" /\ idx' = 0 /\ steps' = 0
        /\ visited' = {} /\ warmed' = {} /\ chain' = chain
        BY <1>2 DEF StartWarmup, WarmInv
  <2>3. Walk(f, 0)'
        BY <2>1 DEF Walk
  <2>4. Loaded(f, 0) = {}
        BY DEF Loaded
  <2> QED
      BY <1>0, <2>1, <2>2, <2>3, <2>4 DEF WarmInv, Walk
<1>3. CASE Warmup
  <2>1. /\ phase = "warmup" /\ phase' = "warmup" /\ steps < WARMUP /\ steps' = steps + 1
        /\ idx' = chain[idx] /\ warmed' = warmed \cup {idx}
        /\ chain' = chain /\ visited' = {}
        BY <1>3 DEF Warmup, WarmInv
  <2>2. PICK f : Walk(f, steps) /\ idx = f[steps] /\ warmed = Loaded(f, steps)
        BY <2>1 DEF WarmInv
  <2>3. \A m \in 0 .. steps : f[m] \in Index
        BY <2>2 DEF Walk
  <2>4. PICK g \in [0 .. steps + 1 -> Index] :
          g[steps + 1] = chain[idx] /\ \A m \in 0 .. steps : g[m] = f[m]
    <3> DEFINE h == [m \in 0 .. steps + 1 |-> IF m = steps + 1 THEN chain[idx] ELSE f[m]]
    <3>1. h \in [0 .. steps + 1 -> Index]
          BY <1>0, <2>3 DEF TypeOK
    <3>2. h[steps + 1] = chain[idx] /\ \A m \in 0 .. steps : h[m] = f[m]
          BY <1>0
    <3> QED
        BY <3>1, <3>2
  <2>5. g[steps + 1] = chain[idx] /\ \A m \in 0 .. steps : g[m] = f[m]
        BY <2>4
  <2>6. ASSUME NEW m \in 0 .. steps PROVE g[m + 1] = chain[g[m]]
    <3>1. CASE m = steps
          BY <1>0, <2>2, <2>5, <3>1
    <3>2. CASE m # steps
      <4>1. m \in 0 .. steps - 1 /\ m + 1 \in 0 .. steps /\ m \in 0 .. steps
            BY <1>0, <3>2
      <4>2. f[m + 1] = chain[f[m]]
            BY <2>2, <4>1 DEF Walk
      <4> QED
          BY <2>5, <4>1, <4>2
    <3> QED
        BY <3>1, <3>2
  <2>7. g[0] = 0
        BY <1>0, <2>2, <2>5 DEF Walk
  <2>8. steps' - 1 = steps /\ steps' = steps + 1
        BY <1>0, <2>1
  <2>9. Loaded(g, steps + 1) = Loaded(f, steps) \cup {idx}
        BY <1>0, <2>2, <2>5 DEF Loaded
  <2>10. idx' = g[steps'] /\ warmed' = Loaded(g, steps') /\ steps' \in 0 .. WARMUP
    <3>1. idx' = g[steps + 1] /\ warmed' = Loaded(g, steps + 1)
          BY <2>1, <2>2, <2>5, <2>9
    <3>2. steps + 1 \in 0 .. WARMUP
          BY <1>0, <2>1
    <3> QED
        BY <2>8, <3>1, <3>2
  <2>11. Walk(g, steps)'
         BY <2>1, <2>4, <2>6, <2>7, <2>8 DEF Walk
  <2> QED
      BY <2>1, <2>10, <2>11 DEF WarmInv
<1>4. CASE StartClock
  <2>1. /\ phase = "warmup" /\ phase' = "measure" /\ steps = WARMUP /\ steps' = 0 /\ idx' = 0
        /\ chain' = chain /\ visited' = {} /\ warmed' = warmed
        BY <1>4 DEF StartClock, WarmInv
  <2>2. PICK f : Walk(f, WARMUP) /\ warmed = Loaded(f, WARMUP)
        BY <2>1 DEF WarmInv
  <2>3. Walk(f, WARMUP)' /\ idx' = f[steps']
        BY <2>1, <2>2 DEF Walk
  <2> QED
      BY <2>1, <2>2, <2>3 DEF WarmInv
<1>5. CASE Measure
  <2>1. /\ phase = "measure" /\ phase' = "measure" /\ steps' = steps + 1
        /\ idx' = chain[idx] /\ visited' = visited \cup {idx}
        /\ chain' = chain /\ warmed' = warmed
        BY <1>5 DEF Measure
  <2>2. PICK f : /\ Walk(f, WARMUP) /\ warmed = Loaded(f, WARMUP)
                 /\ steps <= WARMUP => idx = f[steps] /\ visited \subseteq Loaded(f, steps)
        BY <2>1 DEF WarmInv
  <2>3. Walk(f, WARMUP)' /\ warmed' = Loaded(f, WARMUP)
        BY <2>1, <2>2 DEF Walk
  <2>4. ASSUME steps' <= WARMUP
        PROVE  idx' = f[steps'] /\ visited' \subseteq Loaded(f, steps')
    <3>1. steps \in 0 .. WARMUP - 1 /\ steps <= WARMUP
          BY <1>0, <2>1, <2>4
    <3>2. idx = f[steps] /\ visited \subseteq Loaded(f, steps)
          BY <2>2, <3>1
    <3>3. f[steps + 1] = chain[f[steps]]
          BY <2>2, <3>1 DEF Walk
    <3>4. Loaded(f, steps) \cup {f[steps]} \subseteq Loaded(f, steps + 1)
          BY <1>0 DEF Loaded
    <3> QED
        BY <2>1, <3>2, <3>3, <3>4
  <2> QED
      BY <2>1, <2>3, <2>4 DEF WarmInv
<1>6. CASE StopClock \/ UNCHANGED vars
  <2>1. /\ phase' = phase \/ (phase = "measure" /\ phase' = "done")
        /\ UNCHANGED <<chain, idx, steps, warmed, visited>>
        BY <1>6 DEF StopClock, vars
  <2>2. \A f, k : Walk(f, k)' <=> Walk(f, k)
        BY <2>1 DEF Walk
  <2> QED
      BY <2>1, <2>2 DEF WarmInv, TypeOK
<1> QED
    BY <1>1, <1>2, <1>3, <1>4, <1>5, <1>6 DEF Next, Done

(***************************************************************************)
(* However long the warm-up, none of as many loads of the timed loop is of *)
(* an element that was cold when the clock started (cache_lines.h:171-179).*)
(***************************************************************************)
THEOREM ClockStartsWarm == Spec => []StartsWarm
<1>1. Init => WarmInv
      BY DEF Init, WarmInv
<1>2. ASSUME TypeOK, WarmInv PROVE StartsWarm
  <2> SUFFICES ASSUME phase \in {"measure", "done"}, steps <= WARMUP
               PROVE  visited \subseteq warmed
      BY DEF StartsWarm
  <2>1. PICK f : visited \subseteq Loaded(f, steps) /\ warmed = Loaded(f, WARMUP)
        BY <1>2 DEF WarmInv
  <2>2. steps \in Nat /\ WARMUP \in Nat
        BY <1>2, LoopAssumption DEF TypeOK
  <2> QED
      BY <2>1, <2>2 DEF Loaded
<1> QED
    BY <1>1, <1>2, WarmStep, TypeCorrect, PTL DEF Spec
=============================================================================
