---------------------------- MODULE TlbBenchmark ----------------------------
(***************************************************************************)
(* TlbBenchmark::run of src/src/tlb_huge_pages.h: the same random reads of *)
(* a buffer in 4 KB pages and of a buffer in 2 MB pages, each buffer       *)
(* mapped, touched, warmed up, timed and unmapped in turn.  Either mapping *)
(* may fail and ends the benchmark early.                                  *)
(*                                                                         *)
(* The index vector is drawn once; a read is of one of the pages of the    *)
(* buffer, which exist only once they have been touched.  The loops read   *)
(* page indices[i] for i below WARMUP and NUM_ACCESSES.  The names end     *)
(* with run(): Return puts the variables back to what they were.           *)
(***************************************************************************)
EXTENDS Pages, Sequences

CONSTANTS
  BufferPages,   \* the pages of a buffer, as far as the reads differ
  WARMUP,        \* reads of the warm-up loop
  NUM_ACCESSES,  \* reads of the timed loop, and length of indices
  Null           \* no buffer, no time

TlbAssumption ==
  /\ WARMUP \in Nat /\ NUM_ACCESSES \in Nat
  /\ WARMUP <= NUM_ACCESSES

VARIABLES
  pc,       \* the next step
  kind,     \* the buffer in use
  indices,  \* pages the reads go to
  present,  \* pages of the buffer in use that have been touched
  i,        \* the loops' counter
  window,   \* events since start = now()
  times,    \* the windows behind ns_per_access_4k and _2m
  said      \* what the benchmark concluded

locals == <<kind, indices, present, window, times, said>>
vars   == <<mapped, others, pc, i, locals>>

NoTimes == [k \in Kinds |-> Null]

Init ==
  /\ PagesInit
  /\ pc = "begin" /\ i = 0
  /\ kind = "regular" /\ indices = <<>> /\ present = {} /\ window = <<>>
  /\ times = NoTimes /\ said = "nothing"

-----------------------------------------------------------------------------
Begin ==
  /\ pc = "begin"
  /\ indices' \in [1 .. NUM_ACCESSES -> BufferPages]
  /\ pc' = "map"
  /\ UNCHANGED <<mapped, others, i, kind, present, window, times, said>>

Map ==
  /\ pc = "map"
  /\ Mapped(kind)
  /\ pc' = "touch" /\ present' = {}
  /\ UNCHANGED <<kind, indices, i, window, times, said>>

\* Without regular pages the benchmark reports an error; without huge pages it
\* prints an estimate.
MapFails ==
  /\ pc = "map"
  /\ NotMapped
  /\ pc' = "returned"
  /\ said' = IF kind = "regular" THEN "error" ELSE "estimate"
  /\ UNCHANGED <<kind, indices, present, i, window, times>>

TouchNot ==
  /\ pc = "touch"
  /\ pc' = "warmup" /\ i' = 0
  /\ UNCHANGED <<present, mapped, others, kind, indices, window, times, said>>

\* memset of the whole buffer.
Touch ==
  /\ pc = "touch"
  /\ present' = BufferPages
  /\ pc' = "warmup" /\ i' = 0
  /\ UNCHANGED <<mapped, others, kind, indices, window, times, said>>

\* A read of a page that is not present faults it in first.
Read(page) ==
  /\ window' = Append(window, <<page, page \in present>>)
  /\ present' = present \cup {page}
  /\ i' = i + 1

Warmup ==
  /\ pc = "warmup" /\ i < WARMUP
  /\ Read(indices[i + 1])
  /\ UNCHANGED <<pc, mapped, others, kind, indices, times, said>>

StartClockBefore ==
  /\ pc = "warmup" /\ i = WARMUP
  /\ pc' = "measure" /\ i' = 0
  /\ UNCHANGED <<window, mapped, others, kind, indices, present, times, said>>

StartClock ==
  /\ pc = "warmup" /\ i = WARMUP
  /\ pc' = "measure" /\ i' = 0 /\ window' = <<>>
  /\ UNCHANGED <<mapped, others, kind, indices, present, times, said>>

MeasureOneMore ==
  /\ pc = "measure" /\ i <= NUM_ACCESSES
  /\ Read(IF i < NUM_ACCESSES THEN indices[i + 1] ELSE Null)
  /\ UNCHANGED <<pc, mapped, others, kind, indices, times, said>>

Measure ==
  /\ pc = "measure" /\ i < NUM_ACCESSES
  /\ Read(indices[i + 1])
  /\ UNCHANGED <<pc, mapped, others, kind, indices, times, said>>

StopClock ==
  /\ pc = "measure" /\ i = NUM_ACCESSES
  /\ times' = [times EXCEPT ![kind] = window]
  /\ pc' = "unmap" /\ i' = 0 /\ window' = <<>>
  /\ UNCHANGED <<mapped, others, kind, indices, present, said>>

UnmapRegularNot ==
  /\ pc = "unmap" /\ kind = "regular"
  /\ kind' = "huge" /\ pc' = "map" /\ present' = {}
  /\ UNCHANGED <<mapped, others, indices, i, window, times, said>>

\* The huge pages come after the regular ones.
UnmapRegular ==
  /\ pc = "unmap" /\ kind = "regular"
  /\ free_pages("regular")
  /\ kind' = "huge" /\ pc' = "map" /\ present' = {}
  /\ UNCHANGED <<indices, i, window, times, said>>

\* After both, the difference of the two times is printed as the penalty of a
\* TLB miss.
UnmapHuge ==
  /\ pc = "unmap" /\ kind = "huge"
  /\ free_pages("huge")
  /\ pc' = "returned" /\ said' = "penalty" /\ present' = {}
  /\ UNCHANGED <<kind, indices, i, window, times>>

Return ==
  /\ pc = "returned"
  /\ pc' = "over" /\ i' = 0
  /\ kind' = "regular" /\ indices' = <<>> /\ present' = {} /\ window' = <<>>
  /\ times' = NoTimes /\ said' = "nothing"
  /\ UNCHANGED <<mapped, others>>

Run ==
  \/ Begin \/ Map \/ MapFails \/ Touch
  \/ Warmup \/ StartClock \/ Measure \/ StopClock
  \/ UnmapRegular \/ UnmapHuge \/ Return

Over == pc = "over" /\ UNCHANGED vars

Environment == OthersMove /\ UNCHANGED <<pc, i, locals>>

Next == Run \/ Environment \/ Over

Spec == Init /\ [][Next]_vars

-----------------------------------------------------------------------------
(***************************************************************************)
(* Types; the pool of huge pages is never overdrawn.                       *)
(***************************************************************************)
TypeOK ==
  /\ PagesType /\ HugePagesLeft >= 0
  /\ pc \in {"begin", "map", "touch", "warmup", "measure", "unmap", "returned", "over"}
  /\ kind \in Kinds
  /\ present \subseteq BufferPages
  /\ i \in 0 .. NUM_ACCESSES
  /\ said \in {"nothing", "error", "estimate", "penalty"}

(***************************************************************************)
(* However the benchmark returns, it has unmapped what it mapped, and it   *)
(* never holds both buffers at once (tlb_huge_pages.h:52-56, 81-93, 117).  *)
(***************************************************************************)
BuffersReturned ==
  /\ mapped.regular + mapped.huge <= 1
  /\ pc \in {"begin", "returned", "over"} => mapped = [k \in Kinds |-> 0]

(***************************************************************************)
(* No page fault is timed: every read of a timed loop is of a page that    *)
(* was there before the read (tlb_huge_pages.h:58-75, 95-111).             *)
(***************************************************************************)
NoFaultTimed ==
  \A k \in Kinds : times[k] # Null => \A r \in DOMAIN times[k] : times[k][r][2]

(***************************************************************************)
(* "Same pattern for both tests" (tlb_huge_pages.h:42): a penalty is       *)
(* printed only from two times measured over the same reads in the same    *)
(* order, all NUM_ACCESSES of them and none of the warm-up's.              *)
(***************************************************************************)
PenaltyComparesLikeWithLike ==
  said = "penalty" => /\ times["regular"] = times["huge"]
                      /\ times["huge"] # Null
                      /\ Len(times["huge"]) = NUM_ACCESSES
=============================================================================
