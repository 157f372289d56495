--------------------------- MODULE NumaBenchmark ----------------------------
(***************************************************************************)
(* NumaBenchmark of src/src/numa_topology.h: count the NUMA nodes from     *)
(* /sys/devices/system/node/online, then time random reads of a buffer     *)
(* bound to each of the first four nodes, or of one unbound buffer when    *)
(* there is only one node.                                                 *)
(*                                                                         *)
(* The kernel writes the file as its list of ranges: a range of one node   *)
(* is that node's number, a longer one first-last, in ascending order.     *)
(* Begin meets one of the Machines, Return forgets it.                     *)
(***************************************************************************)
EXTENDS Pages, FiniteSets

CONSTANTS
  Machines,  \* [online, allowed, file, permitted, HAS_LIBNUMA]
  Null       \* no machine, no policy, no label

\* Nodes exist and this process may use some; file says whether the list can
\* be read, permitted whether the process may call mbind() (containers often
\* refuse it), HAS_LIBNUMA whether the build found the library.
NodesAssumption ==
  \A m \in Machines :
    /\ m.online \in SUBSET Nat /\ IsFiniteSet(m.online)
    /\ m.allowed \subseteq m.online /\ m.allowed # {}
    /\ {m.file, m.permitted, m.HAS_LIBNUMA} \subseteq BOOLEAN

VARIABLES
  machine,
  pc,         \* the next step
  num_nodes,  \* the result of detect_numa_nodes
  node,       \* the loop's counter
  bound,      \* the nodes the buffer's policy allows, Null without a policy
  placed,     \* the nodes that hold the buffer's pages
  rows,       \* the printed rows, [label, placed]
  skipped     \* the nodes left out because the kernel had no memory

locals == <<machine, num_nodes, node, bound, placed, rows, skipped>>
vars   == <<mapped, others, pc, locals>>

-----------------------------------------------------------------------------
\* The last nodes of the ranges of more than one node.
RangeEnds(online) == {k \in online : k - 1 \in online /\ k + 1 \notin online}

\* The number after the first '-' of the list, one more than which is the
\* count.  A list without a '-', and no list at all, count as one node.
AfterDash(online) == CHOOSE k \in RangeEnds(online) : \A l \in RangeEnds(online) : k <= l

CountedToDash(m) ==
  IF ~ m.file \/ RangeEnds(m.online) = {} THEN 1 ELSE AfterDash(m.online)

Counted(m) ==
  IF ~ m.file \/ RangeEnds(m.online) = {} THEN 1 ELSE AfterDash(m.online) + 1

\* External: the nodes mbind() takes from a mask in which only bit b is set.
\* The kernel reads maxnode - 1 bits, and refuses a mask with no usable node.
MaskedNodes(b, maxnode) ==
  IF machine.permitted THEN {b} \cap 0 .. maxnode - 2 \cap machine.allowed ELSE {}

PolicyOneShort == MaskedNodes(node, num_nodes)

Policy == MaskedNodes(node, num_nodes + 1)

InLoop == node < num_nodes /\ node < 4

Comparing == num_nodes >= 2

Init ==
  /\ PagesInit
  /\ pc = "begin" /\ machine = Null
  /\ num_nodes = 0 /\ node = 0
  /\ bound = Null /\ placed = {}
  /\ rows = {} /\ skipped = {}

-----------------------------------------------------------------------------
Begin ==
  /\ pc = "begin"
  /\ machine' \in Machines
  /\ pc' = "detect"
  /\ UNCHANGED <<mapped, others, num_nodes, node, bound, placed, rows, skipped>>

\* Without libnuma the comparison is a message.
detect_numa_nodes ==
  /\ pc = "detect"
  /\ num_nodes' = Counted(machine)
  /\ pc' = IF num_nodes' >= 2 /\ ~ machine.HAS_LIBNUMA THEN "returned" ELSE "map"
  /\ UNCHANGED <<mapped, others, machine, node, bound, placed, rows, skipped>>

\* One buffer for the only node, or the next buffer of the loop.
Map ==
  /\ pc = "map" /\ (Comparing => InLoop)
  /\ Mapped("regular")
  /\ bound' = Null /\ placed' = {}
  /\ pc' = IF Comparing THEN "bind" ELSE "touch"
  /\ UNCHANGED <<machine, num_nodes, node, rows, skipped>>

MapFails ==
  /\ pc = "map" /\ (Comparing => InLoop)
  /\ NotMapped
  /\ IF Comparing THEN node' = node + 1 /\ skipped' = skipped \cup {node} /\ UNCHANGED pc
                  ELSE pc' = "returned" /\ UNCHANGED <<node, skipped>>
  /\ UNCHANGED <<machine, num_nodes, bound, placed, rows>>

LoopEnds ==
  /\ pc = "map" /\ Comparing /\ ~ InLoop
  /\ pc' = "returned"
  /\ UNCHANGED <<mapped, others, machine, num_nodes, node, bound, placed, rows, skipped>>

Bind ==
  /\ pc = "bind" /\ Policy # {}
  /\ bound' = Policy
  /\ pc' = "touch"
  /\ UNCHANGED <<mapped, others, machine, num_nodes, node, placed, rows, skipped>>

BindFailsAnyway ==
  /\ pc = "bind"
  /\ pc' = "touch"
  /\ UNCHANGED <<node, mapped, others, machine, num_nodes, bound, placed, rows, skipped>>

\* A warning, free_pages and continue, whatever the reason: no usable node in
\* the mask, or no memory in the kernel.
BindFails ==
  /\ pc = "bind"
  /\ free_pages("regular")
  /\ node' = node + 1 /\ pc' = "map"
  /\ skipped' = IF Policy = {} THEN skipped ELSE skipped \cup {node}
  /\ UNCHANGED <<machine, num_nodes, bound, placed, rows>>

\* memset: the pages appear on nodes of the policy, without one on any node.
Touch ==
  /\ pc = "touch"
  /\ \E k \in IF bound = Null THEN machine.allowed ELSE bound : placed' = {k}
  /\ pc' = "measure"
  /\ UNCHANGED <<mapped, others, machine, num_nodes, node, bound, rows, skipped>>

\* The timed reads, the printed row and free_pages.
Measure ==
  /\ pc = "measure"
  /\ rows' = rows \cup {[label |-> IF Comparing THEN node ELSE Null, placed |-> placed]}
  /\ free_pages("regular")
  /\ IF Comparing THEN node' = node + 1 /\ pc' = "map"
                  ELSE pc' = "returned" /\ UNCHANGED node
  /\ UNCHANGED <<machine, num_nodes, bound, placed, skipped>>

Return ==
  /\ pc = "returned"
  /\ pc' = "over" /\ machine' = Null
  /\ num_nodes' = 0 /\ node' = 0
  /\ bound' = Null /\ placed' = {}
  /\ rows' = {} /\ skipped' = {}
  /\ UNCHANGED <<mapped, others>>

Over == pc = "over" /\ UNCHANGED vars

Run ==
  \/ Begin \/ detect_numa_nodes
  \/ Map \/ MapFails \/ LoopEnds
  \/ Bind \/ BindFails
  \/ Touch \/ Measure \/ Return

Next == Run \/ Over

Spec == Init /\ [][Next]_vars

-----------------------------------------------------------------------------
(***************************************************************************)
(* Types.  The loop never leaves the first four nodes.                     *)
(***************************************************************************)
TypeOK ==
  /\ PagesType
  /\ pc \in {"begin", "detect", "map", "bind", "touch", "measure", "returned", "over"}
  /\ IF pc \in {"begin", "over"} THEN machine = Null ELSE machine \in Machines
  /\ num_nodes \in Nat /\ node \in 0 .. 4
  /\ bound # Null => bound \subseteq machine.allowed
  /\ placed # {} => placed \subseteq machine.allowed
  /\ skipped \subseteq 0 .. 3

(***************************************************************************)
(* Every path through an iteration, and every way to return, unmaps the    *)
(* buffer (numa_topology.h:75-99, 113-146).                                *)
(***************************************************************************)
BuffersReturned ==
  mapped.regular = IF pc \in {"bind", "touch", "measure"} THEN 1 ELSE 0

(***************************************************************************)
(* A row that names a node was measured on memory of that node: the policy *)
(* is in place before the first touch, and a buffer that could not be      *)
(* bound is not measured (numa_topology.h:116-143).                        *)
(***************************************************************************)
RowsNameTheNode == \A r \in rows : r.label # Null => r.placed = {r.label}

(***************************************************************************)
(* Where the nodes are numbered from 0 without holes and are all this      *)
(* process's to use, each of the first four is measured, unless mmap or    *)
(* mbind had no memory for it (numa_topology.h:65-68, 112-124).            *)
(***************************************************************************)
EveryNodeMeasured ==
  LET k == Cardinality(machine.online) IN
  pc = "returned" /\ machine.file /\ machine.permitted /\ machine.HAS_LIBNUMA /\ k >= 2
    /\ machine.allowed = machine.online /\ machine.online = 0 .. k - 1 =>
      {r.label : r \in rows} \cup skipped = 0 .. (IF k < 4 THEN k ELSE 4) - 1

(***************************************************************************)
(* numa_topology.h:59, "Check how many NUMA nodes exist", and the count    *)
(* printed as detected.                                                    *)
(***************************************************************************)
CountsNodes ==
  pc \notin {"begin", "detect", "over"} /\ machine.file => num_nodes = Cardinality(machine.online)
=============================================================================
