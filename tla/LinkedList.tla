----------------------------- MODULE LinkedList -----------------------------
(***************************************************************************)
(* run_linked_list_traversal of src/src/prefetching.h: nodes linked into a *)
(* ring in shuffled order, and three timed walks round it that prefetch    *)
(* nothing, the next node, and the node after the next.  Each walk has a   *)
(* warm-up of its own and both start from the first node of the order.     *)
(*                                                                         *)
(* std::shuffle may leave any order.  A load of a node is a read of its    *)
(* payload or of its next pointer, a prefetch is the hint alone.  The      *)
(* nodes are one array that operator new puts at a multiple of 16.         *)
(***************************************************************************)
EXTENDS Layout

CONSTANTS
  NUM_NODES,
  WARMUP,      \* steps of each warm-up loop
  TRAVERSALS,  \* steps of each timed loop
  Null         \* nullptr

ListAssumption ==
  /\ NUM_NODES \in Nat \ {0} /\ {WARMUP, TRAVERSALS} \subseteq Nat
  /\ Null \notin Nat

Nodes    == 0 .. NUM_NODES - 1
Distance == {0, 1, 2}

VARIABLES
  pc,        \* the loop being executed
  i,         \* its counter
  nodes_at,  \* where the nodes start, from a line boundary
  order,     \* the shuffled indices
  next,      \* the pointer in each node
  ahead,     \* how far the walk prefetches
  current,   \* the node about to be processed
  walk,      \* the nodes each timed walk has processed
  fetched,   \* what each step of the current timed walk prefetched
  loaded     \* the nodes each step of the current timed walk loaded

list   == <<nodes_at, order, next>>
log    == <<walk, fetched, loaded>>
locals == <<list, ahead, current, log>>
vars   == <<pc, i, locals>>

NoWalks == [d \in Distance |-> <<>>]

Init ==
  /\ pc = "begin" /\ i = 0
  /\ nodes_at = 0 /\ order = <<>> /\ next = <<>>
  /\ ahead = 0 /\ current = Null
  /\ walk = NoWalks /\ fetched = <<>> /\ loaded = <<>>

-----------------------------------------------------------------------------
\* struct Node: the next pointer and payload[7].
Node == <<8, 8, 8, 8, 8, 8, 8, 8>>

AddressOf(x) == nodes_at + x * SizeOf(Node, 8)

\* The line a prefetch of node x brings in, and those a step at x reads.
LineFetched(x) == Lines(AddressOf(x), 1)
LinesRead(x)   == Lines(AddressOf(x) + OffsetOf(Node, 1), Node[1])
                    \cup Lines(AddressOf(x) + OffsetOf(Node, 2), Node[2])

\* The vectors, and the shuffle.
Begin ==
  /\ pc = "begin"
  /\ nodes_at' \in {0, 16, 32, 48}
  /\ order' \in {p \in [Nodes -> Nodes] : \A a, b \in Nodes : p[a] = p[b] => a = b}
  /\ next' = [x \in Nodes |-> Null]
  /\ pc' = "link"
  /\ UNCHANGED <<i, ahead, current, log>>

LinkByIndex ==
  /\ pc = "link" /\ i < NUM_NODES - 1
  /\ next' = [next EXCEPT ![i] = order[i + 1]]
  /\ i' = i + 1
  /\ UNCHANGED <<nodes_at, order, pc, ahead, current, log>>

Link ==
  /\ pc = "link" /\ i < NUM_NODES - 1
  /\ next' = [next EXCEPT ![order[i]] = order[i + 1]]
  /\ i' = i + 1
  /\ UNCHANGED <<nodes_at, order, pc, ahead, current, log>>

\* The last node points to the first, and the first warm-up starts there.
Close ==
  /\ pc = "link" /\ i = NUM_NODES - 1
  /\ next' = [next EXCEPT ![order[NUM_NODES - 1]] = order[0]]
  /\ pc' = "warmup" /\ i' = 0 /\ current' = order[0]
  /\ UNCHANGED <<nodes_at, order, ahead, log>>

FetchNext == IF ahead = 0 THEN Null ELSE next[current]

\* The target of __builtin_prefetch; with ahead = 2 it is read from the next
\* node, if there is one.
Fetch ==
  CASE ahead = 0 -> Null
    [] ahead = 1 -> next[current]
    [] ahead = 2 -> IF next[current] # Null THEN next[next[current]] ELSE Null

Loads == {current} \cup (IF ahead = 2 THEN {next[current]} \ {Null} ELSE {})

Warmup ==
  /\ pc = "warmup" /\ i < WARMUP
  /\ current' = next[current] /\ i' = i + 1
  /\ UNCHANGED <<list, pc, ahead, log>>

StartClockInPlace ==
  /\ pc = "warmup" /\ i = WARMUP
  /\ pc' = "measure" /\ i' = 0
  /\ current' = IF ahead = 2 THEN order[0] ELSE current
  /\ UNCHANGED <<list, ahead, log>>

StartClock ==
  /\ pc = "warmup" /\ i = WARMUP
  /\ pc' = "measure" /\ i' = 0 /\ current' = order[0]
  /\ UNCHANGED <<list, ahead, log>>

Measure ==
  /\ pc = "measure" /\ i < TRAVERSALS
  /\ walk' = [walk EXCEPT ![ahead] = Append(@, current)]
  /\ fetched' = Append(fetched, Fetch)
  /\ loaded' = Append(loaded, Loads)
  /\ current' = next[current] /\ i' = i + 1
  /\ UNCHANGED <<list, pc, ahead>>

NextWalk ==
  /\ pc = "measure" /\ i = TRAVERSALS /\ ahead < 2
  /\ ahead' = ahead + 1
  /\ pc' = "warmup" /\ i' = 0 /\ current' = order[0]
  /\ fetched' = <<>> /\ loaded' = <<>>
  /\ UNCHANGED <<list, walk>>

Finish ==
  /\ pc = "measure" /\ i = TRAVERSALS /\ ahead = 2
  /\ pc' = "returned" /\ i' = 0
  /\ UNCHANGED locals

Return ==
  /\ pc = "returned"
  /\ pc' = "over"
  /\ nodes_at' = 0 /\ order' = <<>> /\ next' = <<>>
  /\ ahead' = 0 /\ current' = Null
  /\ walk' = NoWalks /\ fetched' = <<>> /\ loaded' = <<>>
  /\ UNCHANGED i

Run ==
  \/ Begin \/ Link \/ Close
  \/ Warmup \/ StartClock \/ Measure
  \/ NextWalk \/ Finish \/ Return

Over == pc = "over" /\ UNCHANGED vars

Next == Run \/ Over

Spec == Init /\ [][Next]_vars

-----------------------------------------------------------------------------
(***************************************************************************)
(* Types.  The walks are always at a node, never at nullptr.               *)
(***************************************************************************)
TypeOK ==
  /\ pc \in {"begin", "link", "warmup", "measure", "returned", "over"}
  /\ i \in Nat /\ ahead \in Distance
  /\ IF pc \in {"begin", "link", "over"} THEN current = Null ELSE current \in Nodes
  /\ pc \notin {"begin", "over"} => /\ order \in [Nodes -> Nodes]
                                  /\ next \in [Nodes -> Nodes \cup {Null}]

(***************************************************************************)
(* Once linked, the list is one ring: no proper part of it is closed under *)
(* next, so a walk meets every node (prefetching.h:59-69).                 *)
(***************************************************************************)
OneRing ==
  pc \in {"warmup", "measure", "returned"} =>
    \A S \in SUBSET Nodes : S # {} /\ (\A x \in S : next[x] \in S) => S = Nodes

(***************************************************************************)
(* The three times are of the same nodes in the same order, so that they   *)
(* differ by the prefetches alone (prefetching.h:81-134).                  *)
(***************************************************************************)
SameWalks ==
  pc = "returned" => /\ \A d \in Distance : walk[d] = walk[0]
                     /\ Len(walk[0]) = TRAVERSALS

(***************************************************************************)
(* The node a step prefetches is the one processed that many steps later:  *)
(* no prefetch is wasted, and from step ahead on each processed node has   *)
(* been prefetched (prefetching.h:104-132).  One line is enough: a node    *)
(* may lie across two, but what a step reads of it does not.               *)
(***************************************************************************)
PrefetchesAreUsed ==
  ahead > 0 => \A s \in DOMAIN fetched :
                 s + ahead <= Len(walk[ahead]) =>
                   /\ fetched[s] = walk[ahead][s + ahead]
                   /\ LinesRead(fetched[s]) \subseteq LineFetched(fetched[s])

(***************************************************************************)
(* prefetching.h:146: "2-ahead gives more time for the prefetch to         *)
(* complete", that is, more than the one step 1-ahead gives.               *)
(***************************************************************************)
MoreTimeTwoAhead ==
  ahead = 2 => \A s \in DOMAIN fetched :
                 s + 1 \in DOMAIN loaded => fetched[s] \notin loaded[s + 1]
=============================================================================
