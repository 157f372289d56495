------------------------------- MODULE Pages --------------------------------
(***************************************************************************)
(* alloc_regular_pages, alloc_huge_pages and free_pages of                 *)
(* src/src/benchmark_utils.h, on the part of the kernel they use.  mmap    *)
(* may fail for either kind, and for huge pages it must fail when the pool *)
(* of huge pages is too small: a private MAP_HUGETLB mapping reserves its  *)
(* pages when it is made.  Other processes take pages from the pool and    *)
(* return them at any time.                                                *)
(***************************************************************************)
EXTENDS Integers

CONSTANTS
  pool_size,    \* nr_hugepages
  buffer_pages  \* huge pages in a buffer

ASSUME PoolAssumption == pool_size \in Nat /\ buffer_pages \in Nat \ {0}

Kinds == {"regular", "huge"}

VARIABLES
  mapped,  \* this process's buffers, by kind
  others   \* huge pages other processes hold

HugePagesLeft == pool_size - mapped.huge * buffer_pages - others

PagesInit ==
  /\ mapped = [k \in Kinds |-> 0]
  /\ others \in 0 .. pool_size

PagesType ==
  /\ mapped \in [Kinds -> Nat]
  /\ others \in 0 .. pool_size

CanMap(kind) == kind = "huge" => HugePagesLeft >= buffer_pages

\* The pointer returned is not nullptr.
Mapped(kind) ==
  /\ CanMap(kind)
  /\ mapped' = [mapped EXCEPT ![kind] = @ + 1]
  /\ UNCHANGED others

\* mmap returned MAP_FAILED: the pointer is nullptr.
NotMapped == UNCHANGED <<mapped, others>>

free_pages(kind) ==
  /\ mapped[kind] > 0
  /\ mapped' = [mapped EXCEPT ![kind] = @ - 1]
  /\ UNCHANGED others

\* External: other processes map and unmap huge pages.
OthersMove ==
  /\ \E k \in 0 .. pool_size : k # others /\ k - others <= HugePagesLeft /\ others' = k
  /\ UNCHANGED mapped
=============================================================================
