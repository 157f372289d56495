---------------------------- MODULE FalseSharing ----------------------------
(***************************************************************************)
(* run_false_sharing and run_counter_test of src/src/cache_lines.h, with   *)
(* the pinning of main.cpp and benchmark_utils.h they rest on.  Two        *)
(* threads pin themselves to a core each and increment a counter of their  *)
(* own; the main thread starts the clock, creates both, joins both and     *)
(* stops the clock, first on counters 8 bytes apart and then on counters a *)
(* cache line apart.                                                       *)
(*                                                                         *)
(* The machine, the kernel and the C library are the environment: a        *)
(* machine is a set of online CPUs, the CPUs this process may use, the L1  *)
(* cache of each CPU, and whether hardware_concurrency() counts online     *)
(* CPUs or the caller's affinity mask (both exist: glibc reads the online  *)
(* CPUs, musl and glibc 2.34 the mask).  A thread runs on any CPU of its   *)
(* mask and may move between increments.  The line of the packed counters  *)
(* is one line: compilers align a local object of 16 bytes to 16.          *)
(***************************************************************************)
EXTENDS Naturals, FiniteSets

CONSTANTS
  Machines,    \* records [online, allowed, l1, counts_mask]
  ITERATIONS,  \* increments per thread
  Nobody       \* the writer of a line nobody has written

ASSUME IterationsAssumption == ITERATIONS \in Nat

\* The kernel lets a process run somewhere, on CPUs that are online.
ASSUME MachinesAssumption ==
  \A m \in Machines : /\ IsFiniteSet(m.online)
                      /\ m.allowed \subseteq m.online /\ m.allowed # {}

Threads == {"t1", "t2"}
Tests   == {"packed", "padded"}

VARIABLES
  machine,
  pc,       \* the main thread's next step
  test,     \* the counters in use
  printed,  \* the core named in the banner
  second,   \* core_b of run_counter_test
  mask,     \* affinity mask of the main thread and of each worker
  state,    \* of each worker
  counter,  \* counters.a and counters.b
  writer,   \* who wrote each line last, and from which cache
  stolen    \* the tests in which a write took a line from the other thread

vars == <<machine, pc, test, printed, second, mask, state, counter, writer, stolen>>

-----------------------------------------------------------------------------
\* External: std::thread::hardware_concurrency() as called by the main thread.
hardware_concurrency ==
  Cardinality(IF machine.counts_mask THEN mask["main"] ELSE machine.online)

\* The mask of thread t after pin_to_core(core): sched_setaffinity refuses a
\* CPU that is offline or not allowed, and leaves the mask alone.
pin_to_core(t, core) ==
  IF core \in machine.online \cap machine.allowed THEN {core} ELSE mask[t]

get_second_core_next == IF hardware_concurrency >= 2 THEN 1 ELSE 0

get_second_core ==
  IF hardware_concurrency >= 4 THEN 2
  ELSE IF hardware_concurrency >= 2 THEN 1 ELSE 0

CoreOf(t) == IF t = "t1" THEN 0 ELSE second

\* Byte offsets of a and b, and the 64-byte line they fall in.
PackedOffset(t) == IF t = "t1" THEN 0 ELSE 8
LineWithoutAlignas(t) == PackedOffset(t) \div 64
Line(t) == (IF test = "packed" THEN PackedOffset(t)
            ELSE IF t = "t1" THEN 0 ELSE 64) \div 64

Fresh ==
  /\ counter' = [t \in Threads |-> 0]
  /\ writer' = [line \in {0, 1} |-> Nobody]

\* The process starts with the mask it was given, by taskset for example,
\* which may leave out CPUs the kernel would allow it.
Init ==
  /\ machine \in Machines
  /\ pc = "pin" /\ test = "packed"
  /\ printed = 0 /\ second = 0
  /\ \E given \in (SUBSET machine.allowed) \ {{}} :
       mask = [t \in Threads \cup {"main"} |-> IF t = "main" THEN given ELSE machine.allowed]
  /\ state = [t \in Threads |-> "none"]
  /\ counter = [t \in Threads |-> 0]
  /\ writer = [line \in {0, 1} |-> Nobody]
  /\ stolen = {}

-----------------------------------------------------------------------------
\* main() pins itself and goes on whether or not that worked.
Pin ==
  /\ pc = "pin"
  /\ mask' = [mask EXCEPT !["main"] = pin_to_core("main", 0)]
  /\ pc' = "banner"
  /\ UNCHANGED <<machine, test, printed, second, state, counter, writer, stolen>>

Banner ==
  /\ pc = "banner"
  /\ printed' = get_second_core
  /\ pc' = "start"
  /\ UNCHANGED <<machine, test, second, mask, state, counter, writer, stolen>>

Start ==
  /\ pc = "start"
  /\ second' = get_second_core
  /\ pc' = "create1"
  /\ UNCHANGED <<machine, test, printed, mask, state, counter, writer, stolen>>

\* A new thread inherits the mask of its creator.
Create(t, next) ==
  /\ mask' = [mask EXCEPT ![t] = mask["main"]]
  /\ state' = [state EXCEPT ![t] = "pinning"]
  /\ pc' = next
  /\ UNCHANGED <<machine, test, printed, second, counter, writer, stolen>>

CreateFirst  == pc = "create1" /\ Create("t1", "create2")
CreateSecond == pc = "create2" /\ Create("t2", "join1")

\* The constructor of std::thread throws.  Nothing catches it, and t1 may be
\* running: either way the process ends in std::terminate.
CreateFails ==
  /\ pc \in {"create1", "create2"}
  /\ pc' = "terminated"
  /\ UNCHANGED <<machine, test, printed, second, mask, state, counter, writer, stolen>>

Join(t, next) ==
  /\ state[t] = "finished"
  /\ state' = [state EXCEPT ![t] = "none"]
  /\ pc' = next
  /\ UNCHANGED <<machine, test, printed, second, mask, counter, writer, stolen>>

JoinFirstOnly    == pc = "join1" /\ Join("t1", "stop")
JoinFirstForever == pc = "join1" /\ state["t1"] = "finished" /\ UNCHANGED vars
JoinFirst        == pc = "join1" /\ Join("t1", "join2")
JoinSecond       == pc = "join2" /\ Join("t2", "stop")

\* end = now(), and the next test.
Stop ==
  /\ pc = "stop"
  /\ IF test = "packed" THEN test' = "padded" /\ pc' = "start" /\ Fresh
                        ELSE pc' = "done" /\ UNCHANGED <<test, counter, writer>>
  /\ UNCHANGED <<machine, printed, second, mask, state, stolen>>

Main ==
  \/ Pin \/ Banner \/ Start
  \/ CreateFirst \/ CreateSecond \/ CreateFails
  \/ JoinFirst \/ JoinSecond \/ Stop

-----------------------------------------------------------------------------
\* The worker does not look at what pin_to_core() returns.
PinWorker(t) ==
  /\ state[t] = "pinning"
  /\ mask' = [mask EXCEPT ![t] = pin_to_core(t, CoreOf(t))]
  /\ state' = [state EXCEPT ![t] = "counting"]
  /\ UNCHANGED <<machine, pc, test, printed, second, counter, writer, stolen>>

IncrementOneMore(t) ==
  /\ state[t] = "counting" /\ counter[t] <= ITERATIONS
  /\ counter' = [counter EXCEPT ![t] = @ + 1]
  /\ UNCHANGED <<writer, stolen, machine, pc, test, printed, second, mask, state>>

\* counter.fetch_add(1) on some CPU of the mask: the line moves to its cache.
Increment(t) ==
  /\ state[t] = "counting" /\ counter[t] < ITERATIONS
  /\ counter' = [counter EXCEPT ![t] = @ + 1]
  /\ \E cpu \in mask[t] :
       LET before == writer[Line(t)]
           now    == [thread |-> t, cache |-> machine.l1[cpu]]
       IN /\ writer' = [writer EXCEPT ![Line(t)] = now]
          /\ stolen' = IF before # Nobody /\ before.thread # t /\ before.cache # now.cache
                       THEN stolen \cup {test} ELSE stolen
  /\ UNCHANGED <<machine, pc, test, printed, second, mask, state>>

Finish(t) ==
  /\ state[t] = "counting" /\ counter[t] = ITERATIONS
  /\ state' = [state EXCEPT ![t] = "finished"]
  /\ UNCHANGED <<machine, pc, test, printed, second, mask, counter, writer, stolen>>

Worker(t) == pc # "terminated" /\ (PinWorker(t) \/ Increment(t) \/ Finish(t))

Ended == pc \in {"done", "terminated"} /\ UNCHANGED vars

Next == Main \/ (\E t \in Threads : Worker(t)) \/ Ended

Fairness == WF_vars(Main) /\ \A t \in Threads : WF_vars(Worker(t))

Spec == Init /\ [][Next]_vars /\ Fairness

-----------------------------------------------------------------------------
(***************************************************************************)
(* Types.  A counter never exceeds the iterations asked for, and a thread  *)
(* always has a CPU to run on.                                             *)
(***************************************************************************)
TypeOK ==
  /\ machine \in Machines
  /\ pc \in {"pin", "banner", "start", "create1", "create2", "join1", "join2",
             "stop", "done", "terminated"}
  /\ test \in Tests
  /\ {printed, second} \subseteq {0, 1, 2}
  /\ mask \in [Threads \cup {"main"} -> (SUBSET machine.allowed) \ {{}}]
  /\ state \in [Threads -> {"none", "pinning", "counting", "finished"}]
  /\ counter \in [Threads -> 0 .. ITERATIONS]
  /\ stolen \subseteq Tests

(***************************************************************************)
(* When the clock is stopped both threads have made all their increments   *)
(* and neither is running: the time divided by the iterations is the time  *)
(* of this test's whole work and of nothing else (cache_lines.h:84-91).    *)
(***************************************************************************)
ClockCoversWork ==
  /\ pc = "stop" => counter = [t \in Threads |-> ITERATIONS]
  /\ \A t \in Threads : state[t] # "none" => pc \in {"create2", "join1", "join2", "terminated"}

(***************************************************************************)
(* "Padded counters are on separate lines - no interference"               *)
(* (cache_lines.h:128): wherever the threads run and however they move,    *)
(* neither ever takes a line from the other in the padded test.            *)
(***************************************************************************)
PaddedNeverStolen == "padded" \notin stolen

\* The other core where nothing interferes with the choice.
SecondCore(m) == IF Cardinality(m.online) >= 4 THEN 2 ELSE 1

(***************************************************************************)
(* Where CPU 0 is allowed the threads increment in separate L1 caches on   *)
(* exactly these machines: the library counts online CPUs and not the mask *)
(* main has narrowed before it asks, the second core is allowed, and it    *)
(* has another L1 cache than CPU 0.  That includes the machines of the     *)
(* comment at cache_lines.h:58-61, whose siblings are neighbours; on all   *)
(* others, whatever mask the process was given, the test measures two      *)
(* threads in one cache (cache_lines.h:62-79, main.cpp:45).                *)
(***************************************************************************)
SeparateCaches ==
  0 \in machine.allowed /\ (\A t \in Threads : state[t] = "counting") =>
    ( (\A x \in mask["t1"], y \in mask["t2"] : machine.l1[x] # machine.l1[y])
      <=> LET other == SecondCore(machine)
          IN ~ machine.counts_mask /\ other \in machine.allowed
              /\ machine.l1[0] # machine.l1[other] )

(***************************************************************************)
(* The benchmark ends.  That needs the kernel to run every runnable        *)
(* thread, also when both share a core, which its scheduler does.          *)
(***************************************************************************)
Termination == <>(pc \in {"done", "terminated"})

(***************************************************************************)
(* The banner at cache_lines.h:104: "different physical cores to ensure    *)
(* separate L1 caches".                                                    *)
(***************************************************************************)
DifferentPhysicalCores ==
  (\A t \in Threads : state[t] = "counting") =>
    \A x \in mask["t1"], y \in mask["t2"] : machine.l1[x] # machine.l1[y]

(***************************************************************************)
(* The banner at cache_lines.h:103: "Thread A pinned to core 0, Thread B   *)
(* pinned to core %d".                                                     *)
(***************************************************************************)
PinnedAsPrinted ==
  /\ state["t1"] = "counting" => mask["t1"] = {0}
  /\ state["t2"] = "counting" => mask["t2"] = {printed}
=============================================================================
