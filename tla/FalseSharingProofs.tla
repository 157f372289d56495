------------------------- MODULE FalseSharingProofs -------------------------
(***************************************************************************)
(* The claims of the false sharing test for every machine and every number *)
(* of iterations: the clock covers exactly the work, padded counters never *)
(* interfere, no pin leaves a thread without a CPU, and the threads count  *)
(* in different caches on exactly the machines that SeparateCaches names.  *)
(***************************************************************************)
EXTENDS FalseSharing, FiniteSetTheorems, TLAPS

\* Which workers exist, by the main thread's position.
Lifetimes ==
  /\ pc \in {"pin", "banner", "start", "create1", "stop", "done"}
       => state["t1"] = "none" /\ state["t2"] = "none"
  /\ pc = "create2" => state["t2"] = "none"
  /\ pc = "join2" => state["t1"] = "none"

\* A worker that has finished, or that has been joined, has counted to the end.
WorkDone ==
  /\ \A t \in Threads : state[t] = "finished" => counter[t] = ITERATIONS
  /\ pc = "join2" => counter["t1"] = ITERATIONS
  /\ pc = "stop" => \A t \in Threads : counter[t] = ITERATIONS

Shape ==
  /\ pc \in {"pin", "banner", "start", "create1", "create2", "join1", "join2",
             "stop", "done", "terminated"}
  /\ state \in [Threads -> {"none", "pinning", "counting", "finished"}]
  /\ counter \in [Threads -> 0 .. ITERATIONS]

ClockInv == Shape /\ Lifetimes /\ WorkDone

\* A padded line has been written by its own thread only.
OwnLine ==
  test = "padded" =>
    \A t \in Threads : writer[Line(t)] = Nobody \/ writer[Line(t)].thread = t

StealInv ==
  /\ test \in Tests
  /\ DOMAIN writer = {0, 1}
  /\ OwnLine
  /\ PaddedNeverStolen

-----------------------------------------------------------------------------
LEMMA ClockStep == ClockInv /\ [Next]_vars => ClockInv'
<1> SUFFICES ASSUME ClockInv, [Next]_vars PROVE ClockInv'
    OBVIOUS
<1> USE DEF ClockInv, Shape, Lifetimes, WorkDone, Threads
<1>1. CASE Pin \/ Banner \/ Start
      BY <1>1 DEF Pin, Banner, Start
<1>2. CASE CreateFirst
      BY <1>2 DEF CreateFirst, Create
<1>3. CASE CreateSecond
      BY <1>3 DEF CreateSecond, Create
<1>4. CASE CreateFails
      BY <1>4 DEF CreateFails
<1>5. CASE JoinFirst
      BY <1>5 DEF JoinFirst, Join
<1>6. CASE JoinSecond
      BY <1>6 DEF JoinSecond, Join
<1>7. CASE Stop
      BY <1>7, IterationsAssumption DEF Stop, Fresh
<1>8. ASSUME NEW t \in Threads, Worker(t)
      PROVE  ClockInv'
  <2>1. CASE PinWorker(t)
        BY <2>1, <1>8 DEF PinWorker
  <2>2. CASE Increment(t)
        BY <2>2, <1>8, IterationsAssumption DEF Increment
  <2>3. CASE Finish(t)
        BY <2>3, <1>8 DEF Finish
  <2> QED
      BY <1>8, <2>1, <2>2, <2>3 DEF Worker
<1>9. CASE UNCHANGED vars
      BY <1>9 DEF vars
<1> QED
    BY <1>1, <1>2, <1>3, <1>4, <1>5, <1>6, <1>7, <1>8, <1>9 DEF Next, Main, Ended

(***************************************************************************)
(* For any number of iterations the time that is taken covers all the      *)
(* increments of both threads, and no thread of a test is left running.    *)
(***************************************************************************)
THEOREM ClockIsRight == Spec => []ClockCoversWork
<1>1. Init => ClockInv
      BY IterationsAssumption DEF Init, ClockInv, Shape, Lifetimes, WorkDone, Threads
<1>2. ClockInv => ClockCoversWork
  <2> SUFFICES ASSUME ClockInv PROVE ClockCoversWork
      OBVIOUS
  <2>1. pc = "stop" => counter = [t \in Threads |-> ITERATIONS]
        BY DEF ClockInv, WorkDone, Shape
  <2>2. \A t \in Threads : state[t] # "none"
          => pc \in {"create2", "join1", "join2", "terminated"}
        BY DEF ClockInv, Lifetimes, Shape, Threads
  <2> QED
      BY <2>1, <2>2 DEF ClockCoversWork
<1> QED
    BY <1>1, <1>2, ClockStep, PTL DEF Spec

-----------------------------------------------------------------------------
LEMMA StealStep == StealInv /\ [Next]_vars => StealInv'
<1> SUFFICES ASSUME StealInv, [Next]_vars PROVE StealInv'
    OBVIOUS
<1> USE DEF StealInv, OwnLine, PaddedNeverStolen, Threads
<1>1. CASE Stop
  <2>1. CASE test = "packed"
    <3>1. /\ test' = "padded" /\ stolen' = stolen
          /\ writer' = [line \in {0, 1} |-> Nobody]
          BY <1>1, <2>1 DEF Stop, Fresh
    <3>2. Line("t1")' = 0 /\ Line("t2")' = 1
          BY <3>1 DEF Line
    <3> QED
        BY <3>1, <3>2 DEF Tests
  <2>2. CASE test # "packed"
        BY <1>1, <2>2 DEF Stop, Line
  <2> QED
      BY <2>1, <2>2
<1>2. ASSUME UNCHANGED <<test, writer, stolen>>
      PROVE  StealInv'
      BY <1>2 DEF Line, PackedOffset
<1>3. ASSUME NEW t \in Threads, Increment(t)
      PROVE  StealInv'
  <2>1. PICK cpu \in mask[t] :
          /\ writer' = [writer EXCEPT ![Line(t)] =
                          [thread |-> t, cache |-> machine.l1[cpu]]]
          /\ stolen' = IF /\ writer[Line(t)] # Nobody /\ writer[Line(t)].thread # t
                          /\ writer[Line(t)].cache # machine.l1[cpu]
                       THEN stolen \cup {test} ELSE stolen
        BY <1>3 DEF Increment
  <2>2. test' = test
        BY <1>3 DEF Increment
  <2>3. CASE test = "padded"
    <3>1. stolen' = stolen
          BY <2>1, <2>3, <1>3
    <3>2. /\ Line("t1") = 0 /\ Line("t2") = 1
          /\ Line("t1")' = 0 /\ Line("t2")' = 1
          BY <2>2, <2>3 DEF Line
    <3>3. ASSUME NEW u \in Threads
          PROVE  writer'[Line(u)] = Nobody \/ writer'[Line(u)].thread = u
      <4>1. CASE u = t
            BY <4>1, <2>1, <3>2, <1>3
      <4>2. CASE u # t
            BY <4>2, <2>1, <2>3, <3>2, <1>3, <3>3
      <4> QED
          BY <4>1, <4>2
    <3>4. DOMAIN writer' = {0, 1}
          BY <2>1
    <3> QED
        BY <3>1, <3>2, <3>3, <3>4, <2>2
  <2>4. CASE test # "padded"
        BY <2>1, <2>2, <2>4
  <2> QED
      BY <2>3, <2>4
<1>4. CASE Pin \/ Banner \/ Start \/ CreateFirst \/ CreateSecond \/ CreateFails
             \/ JoinFirst \/ JoinSecond
      BY <1>4, <1>2 DEF Pin, Banner, Start, CreateFirst, CreateSecond, Create,
                        CreateFails, JoinFirst, JoinSecond, Join
<1>5. ASSUME NEW t \in Threads, PinWorker(t) \/ Finish(t)
      PROVE  StealInv'
      BY <1>5, <1>2 DEF PinWorker, Finish
<1>6. CASE UNCHANGED vars
      BY <1>6, <1>2 DEF vars
<1> QED
    BY <1>1, <1>3, <1>4, <1>5, <1>6 DEF Next, Main, Worker, Ended

(***************************************************************************)
(* On any machine, wherever the threads are pinned or move to, no write to *)
(* a padded counter takes a line the other thread wrote.                   *)
(***************************************************************************)
THEOREM PaddingSuffices == Spec => []PaddedNeverStolen
<1>1. Init => StealInv
      BY DEF Init, StealInv, OwnLine, PaddedNeverStolen, Tests
<1>2. StealInv => PaddedNeverStolen
      BY DEF StealInv
<1> QED
    BY <1>1, <1>2, StealStep, PTL DEF Spec

-----------------------------------------------------------------------------
\* Every mask is one the kernel accepts, and cores are chosen among 0 to 2.
MaskInv ==
  /\ machine \in Machines /\ test \in Tests /\ stolen \subseteq Tests
  /\ {printed, second} \subseteq {0, 1, 2}
  /\ mask \in [Threads \cup {"main"} -> (SUBSET machine.allowed) \ {{}}]

LEMMA PinKeepsMask ==
  ASSUME MaskInv, NEW t \in Threads \cup {"main"}, NEW core
  PROVE  pin_to_core(t, core) \in (SUBSET machine.allowed) \ {{}}
BY DEF MaskInv, pin_to_core

LEMMA MaskStep == MaskInv /\ [Next]_vars => MaskInv'
<1> SUFFICES ASSUME MaskInv, [Next]_vars PROVE MaskInv'
    OBVIOUS
<1>1. CASE Pin
  <2>1. mask' = [mask EXCEPT !["main"] = pin_to_core("main", 0)]
        /\ UNCHANGED <<machine, test, printed, second, stolen>>
        BY <1>1 DEF Pin
  <2> QED
      BY <2>1, PinKeepsMask DEF MaskInv
<1>2. CASE Banner
      BY <1>2 DEF Banner, get_second_core, MaskInv
<1>3. CASE Start
      BY <1>3 DEF Start, get_second_core, MaskInv
<1>4. CASE CreateFirst
      BY <1>4 DEF CreateFirst, Create, MaskInv, Threads
<1>5. CASE CreateSecond
      BY <1>5 DEF CreateSecond, Create, MaskInv, Threads
<1>6. CASE CreateFails \/ JoinFirst \/ JoinSecond
      BY <1>6 DEF CreateFails, JoinFirst, JoinSecond, Join, MaskInv
<1>7. CASE Stop
      BY <1>7 DEF Stop, MaskInv, Tests
<1>8. ASSUME NEW t \in Threads, Worker(t)
      PROVE  MaskInv'
  <2>1. CASE PinWorker(t)
    <3>1. mask' = [mask EXCEPT ![t] = pin_to_core(t, CoreOf(t))]
          /\ UNCHANGED <<machine, test, printed, second, stolen>>
          BY <2>1 DEF PinWorker
    <3> QED
        BY <3>1, PinKeepsMask DEF MaskInv
  <2>2. CASE Increment(t)
    <3>1. stolen' \subseteq stolen \cup {test} /\ UNCHANGED <<machine, test, printed, second, mask>>
          BY <2>2 DEF Increment
    <3> QED
        BY <3>1 DEF MaskInv
  <2>3. CASE Finish(t)
        BY <2>3 DEF Finish, MaskInv
  <2> QED
      BY <1>8, <2>1, <2>2, <2>3 DEF Worker
<1>9. CASE UNCHANGED vars
      BY <1>9 DEF vars, MaskInv
<1> QED
    BY <1>1, <1>2, <1>3, <1>4, <1>5, <1>6, <1>7, <1>8, <1>9 DEF Next, Main, Ended

LEMMA AlwaysMaskInv == Spec => []MaskInv
<1>1. Init => MaskInv
      BY MachinesAssumption DEF Init, MaskInv, Tests
<1> QED
    BY <1>1, MaskStep, PTL DEF Spec

LEMMA AlwaysClockInv == Spec => []ClockInv
<1>1. Init => ClockInv
      BY IterationsAssumption DEF Init, ClockInv, Shape, Lifetimes, WorkDone, Threads
<1> QED
    BY <1>1, ClockStep, PTL DEF Spec

(***************************************************************************)
(* On any machine whose kernel lets the process run, the types hold: no    *)
(* pin ever leaves a thread without a CPU.                                 *)
(***************************************************************************)
THEOREM TypeCorrect == Spec => []TypeOK
<1>1. MaskInv /\ ClockInv => TypeOK
      BY DEF MaskInv, ClockInv, Shape, TypeOK
<1> QED
    BY <1>1, AlwaysMaskInv, AlwaysClockInv, PTL

-----------------------------------------------------------------------------
\* The core get_second_core() chooses on a machine that has CPU 0, where main
\* is on CPU 0 when it asks.
Chosen(m) ==
  IF m.counts_mask THEN 0
  ELSE IF Cardinality(m.online) >= 4 THEN 2
  ELSE IF Cardinality(m.online) >= 2 THEN 1 ELSE 0

\* Where thread B counts: on the chosen core, or else where main is.
PlaceOfB(m) == IF Chosen(m) \in m.allowed THEN Chosen(m) ELSE 0

\* With CPU 0 allowed, every thread is on one known CPU from its pin on.
Placed ==
  /\ pc # "pin" => mask["main"] = {0}
  /\ pc \notin {"pin", "banner", "start"} => second = Chosen(machine)
  /\ \A t \in Threads : state[t] = "pinning" => mask[t] = {0}
  /\ state["t1"] = "counting" => mask["t1"] = {0}
  /\ state["t2"] = "counting" => mask["t2"] = {PlaceOfB(machine)}

PinInv == 0 \in machine.allowed => Placed

LEMMA SecondIsChosen ==
  ASSUME mask["main"] = {0}
  PROVE  get_second_core = Chosen(machine)
<1>1. Cardinality({0}) = 1
      BY FS_Singleton
<1>2. CASE machine.counts_mask
  <2>1. hardware_concurrency = 1
        BY <1>1, <1>2 DEF hardware_concurrency
  <2> QED
      BY <1>2, <2>1 DEF get_second_core, Chosen
<1>3. CASE ~ machine.counts_mask
      BY <1>3 DEF hardware_concurrency, get_second_core, Chosen
<1> QED
    BY <1>2, <1>3

LEMMA PinStep == MaskInv /\ ClockInv /\ PinInv /\ [Next]_vars => PinInv'
<1> SUFFICES ASSUME MaskInv, ClockInv, PinInv, [Next]_vars, 0 \in machine'.allowed
             PROVE  Placed'
    BY DEF PinInv
<1>1. machine' = machine
      BY DEF Next, Main, Pin, Banner, Start, CreateFirst, CreateSecond, Create, CreateFails,
             JoinFirst, JoinSecond, Join, Stop, Worker, PinWorker, Increment, Finish, Ended, vars
<1>2. /\ machine.allowed \subseteq machine.online /\ 0 \in machine.allowed
      /\ Chosen(machine)' = Chosen(machine) /\ PlaceOfB(machine)' = PlaceOfB(machine)
      BY <1>1, MachinesAssumption DEF MaskInv, Chosen, PlaceOfB
<1>3. Placed
      BY <1>2 DEF PinInv
<1>4. DOMAIN mask = Threads \cup {"main"} /\ DOMAIN state = Threads
      BY DEF MaskInv, ClockInv, Shape
<1> USE DEF Threads
<1>5. CASE Pin
  <2>1. state["t1"] = "none" /\ state["t2"] = "none"
        BY <1>5 DEF Pin, ClockInv, Lifetimes
  <2>2. /\ mask' = [mask EXCEPT !["main"] = {0}]
        /\ pc' = "banner" /\ state' = state
        BY <1>2, <1>5 DEF Pin, pin_to_core
  <2> QED
      BY <1>4, <2>1, <2>2 DEF Placed
<1>6. CASE Banner
      BY <1>2, <1>3, <1>6 DEF Banner, Placed
<1>7. CASE Start
  <2>1. mask["main"] = {0}
        BY <1>3, <1>7 DEF Placed, Start
  <2>2. second' = Chosen(machine)
        BY <1>7, <2>1, SecondIsChosen DEF Start
  <2> QED
      BY <1>2, <1>3, <1>7, <2>2 DEF Start, Placed
<1>8. ASSUME NEW t \in Threads, NEW next \in {"create2", "join1"},
             pc \in {"create1", "create2"}, Create(t, next)
      PROVE  Placed'
  <2>1. mask["main"] = {0}
        BY <1>3, <1>8 DEF Placed
  <2>2. /\ mask' = [mask EXCEPT ![t] = {0}] /\ state' = [state EXCEPT ![t] = "pinning"]
        /\ second' = second
        BY <1>8, <2>1 DEF Create
  <2> QED
      BY <1>2, <1>3, <1>4, <1>8, <2>1, <2>2 DEF Placed
<1>9. CASE CreateFirst \/ CreateSecond
      BY <1>8, <1>9 DEF CreateFirst, CreateSecond
<1>10. CASE CreateFails
       BY <1>2, <1>3, <1>10 DEF CreateFails, Placed
<1>11. CASE JoinFirst \/ JoinSecond
       BY <1>2, <1>3, <1>4, <1>11 DEF JoinFirst, JoinSecond, Join, Placed
<1>12. CASE Stop
       BY <1>2, <1>3, <1>12 DEF Stop, Placed
<1>13. ASSUME NEW t \in Threads, PinWorker(t)
       PROVE  Placed'
  <2>1. /\ mask' = [mask EXCEPT ![t] = pin_to_core(t, CoreOf(t))]
        /\ state' = [state EXCEPT ![t] = "counting"] /\ state[t] = "pinning"
        /\ pc' = pc /\ second' = second
        BY <1>13 DEF PinWorker
  <2>2. pc \notin {"pin", "banner", "start"} /\ mask[t] = {0}
        BY <1>3, <1>4, <2>1 DEF ClockInv, Lifetimes, Placed
  <2>3. CoreOf(t) = IF t = "t1" THEN 0 ELSE Chosen(machine)
        BY <1>3, <2>2 DEF CoreOf, Placed
  <2>4. pin_to_core(t, CoreOf(t)) = {IF t = "t1" THEN 0 ELSE PlaceOfB(machine)}
        BY <1>2, <2>2, <2>3 DEF pin_to_core, PlaceOfB
  <2> QED
      BY <1>2, <1>3, <1>4, <2>1, <2>2, <2>4 DEF Placed
<1>14. ASSUME NEW t \in Threads, Increment(t) \/ Finish(t)
       PROVE  Placed'
       BY <1>2, <1>3, <1>4, <1>14 DEF Increment, Finish, Placed
<1>15. CASE UNCHANGED vars
       BY <1>2, <1>3, <1>15 DEF vars, Placed
<1> QED
    BY <1>5, <1>6, <1>7, <1>9, <1>10, <1>11, <1>12, <1>13, <1>14, <1>15
    DEF Next, Main, Worker, Ended

\* Who has CPUs 0 and 1 has at least two.
LEMMA TwoOfThem ==
  ASSUME NEW S, IsFiniteSet(S), 0 \in S, 1 \in S
  PROVE  Cardinality(S) >= 2
<1>1. Cardinality({0, 1}) = 2 /\ IsFiniteSet({0, 1})
  <2>1. Cardinality({0}) = 1 /\ IsFiniteSet({0})
        BY FS_Singleton
  <2>2. Cardinality({0} \cup {1}) = Cardinality({0}) + 1 /\ IsFiniteSet({0} \cup {1})
        BY <2>1, FS_AddElement
  <2>3. {0} \cup {1} = {0, 1}
        OBVIOUS
  <2> QED
      BY <2>1, <2>2, <2>3
<1>2. Cardinality({0, 1}) <= Cardinality(S)
  <2>1. {0, 1} \subseteq S
        OBVIOUS
  <2> QED
      BY <2>1, FS_Subset
<1>3. Cardinality(S) \in Nat
      BY FS_CardinalityType
<1> QED
    BY <1>1, <1>2, <1>3

(***************************************************************************)
(* On every machine that allows CPU 0, however many CPUs it has, however   *)
(* they are numbered and whatever mask the process was given, the threads  *)
(* count in different L1 caches if and only if the library counts online   *)
(* CPUs and the chosen core is allowed and in another cache                *)
(* (cache_lines.h:58-79).                                                  *)
(***************************************************************************)
THEOREM CachesAreSeparate == Spec => []SeparateCaches
<1>1. Init => PinInv
      BY DEF Init, PinInv, Placed, Threads
<1>2. ASSUME MaskInv, PinInv PROVE SeparateCaches
  <2> SUFFICES ASSUME 0 \in machine.allowed, \A t \in Threads : state[t] = "counting"
               PROVE  (\A x \in mask["t1"], y \in mask["t2"] : machine.l1[x] # machine.l1[y])
                      <=> /\ ~ machine.counts_mask /\ SecondCore(machine) \in machine.allowed
                          /\ machine.l1[0] # machine.l1[SecondCore(machine)]
      BY DEF SeparateCaches
  <2>1. mask["t1"] = {0} /\ mask["t2"] = {PlaceOfB(machine)}
        BY <1>2 DEF PinInv, Placed, Threads
  <2>2. IsFiniteSet(machine.online) /\ machine.allowed \subseteq machine.online
        BY <1>2, MachinesAssumption DEF MaskInv
  <2>3. 1 \in machine.allowed => Cardinality(machine.online) >= 2
        BY <2>2, TwoOfThem
  <2>4. ~ machine.counts_mask /\ SecondCore(machine) \in machine.allowed
          => PlaceOfB(machine) = SecondCore(machine)
        BY <2>3 DEF PlaceOfB, Chosen, SecondCore
  <2>5. ~ (~ machine.counts_mask /\ SecondCore(machine) \in machine.allowed)
          => PlaceOfB(machine) = 0
        BY <2>3 DEF PlaceOfB, Chosen, SecondCore
  <2> QED
      BY <2>1, <2>4, <2>5
<1> QED
    BY <1>1, <1>2, PinStep, AlwaysMaskInv, AlwaysClockInv, PTL DEF Spec
=============================================================================
