--------------------------- MODULE AccessPatterns ---------------------------
(***************************************************************************)
(* AccessPatternBenchmark::run of src/src/access_patterns.h: the same      *)
(* elements kept as an array of structs and as a struct of arrays, read in *)
(* passes over two of the eight fields and then over all of them, for each *)
(* number of elements.  What the benchmark is about is which cache lines   *)
(* the passes load, so that is what is kept; the sums are not.             *)
(*                                                                         *)
(* operator new returns a multiple of 16, or of alignof(AoSEntry) where    *)
(* that is more.  An address is an offset from a line boundary below the   *)
(* array, and a line is named by its array and its number.  Bound: the     *)
(* eight arrays of one SoABook lie at the same offset in their lines.      *)
(***************************************************************************)
EXTENDS Layout, FiniteSets

CONSTANTS
  counts,      \* the sequence of element counts
  ITERATIONS,  \* passes per measurement
  Null         \* no array

AccessAssumption ==
  /\ counts \in Seq(Nat \ {0}) /\ Len(counts) > 0
  /\ ITERATIONS \in Nat \ {0}

\* bid_price, bid_size, ask_price, ask_size, last_price, last_size, timestamp
\* and flags, in both layouts.
Fields     == 1 .. 8
FieldsMore == <<8, 4, 8, 4, 8, 4, 8, 4, 8>>
FieldSizes == <<8, 4, 8, 4, 8, 4, 8, 4>>

AoSAlignNatural == 8
AoSAlign        == 32
EntrySize       == SizeOf(FieldSizes, AoSAlign)

Tests   == {"subset", "full"}
Layouts == {"aos", "soa"}

VARIABLES
  pc,      \* the next step
  test,    \* the function being executed
  row,     \* the element count being measured
  layout,  \* the loop being executed
  base,    \* where the AoS array and the SoA arrays start in their lines
  iter, i, \* the loops' counters
  lines    \* the lines each loop has loaded

locals == <<test, row, layout, base, lines>>
vars   == <<pc, i, iter, locals>>

NoLines == [l \in Layouts |-> {}]

Init ==
  /\ pc = "begin" /\ i = 0 /\ iter = 0
  /\ test = "subset" /\ row = 1 /\ layout = "aos"
  /\ base = Null /\ lines = NoLines

-----------------------------------------------------------------------------
n == counts[row]

\* The fields each test reads of an element.
FieldsRead == IF test = "subset" THEN {1, 3} ELSE Fields

\* The lines element e's fields are on.
EntryLines(e) ==
  UNION {{<<"aos", line>> :
            line \in Lines(base.aos + e * EntrySize + OffsetOf(FieldSizes, f), FieldSizes[f])} :
         f \in FieldsRead}

BookLines(e) ==
  UNION {{<<f, line>> : line \in Lines(base.soa + e * FieldSizes[f], FieldSizes[f])} :
         f \in FieldsRead}

LinesRead(e) == IF layout = "aos" THEN EntryLines(e) ELSE BookLines(e)

Begin ==
  /\ pc = "begin"
  /\ pc' = "setup"
  /\ UNCHANGED <<i, iter, locals>>

\* The vectors of a row.
Setup ==
  /\ pc = "setup"
  /\ \E aos, soa \in {0, 16, 32, 48} :
       aos % AoSAlign = 0 /\ base' = [aos |-> aos, soa |-> soa]
  /\ pc' = "pass" /\ layout' = "aos" /\ lines' = NoLines /\ iter' = 0 /\ i' = 0
  /\ UNCHANGED <<test, row>>

Element ==
  /\ pc = "pass" /\ i < n
  /\ lines' = [lines EXCEPT ![layout] = @ \cup LinesRead(i)]
  /\ i' = i + 1
  /\ UNCHANGED <<pc, iter, test, row, layout, base>>

NextPass ==
  /\ pc = "pass" /\ i = n /\ iter + 1 < ITERATIONS
  /\ iter' = iter + 1 /\ i' = 0
  /\ UNCHANGED <<pc, locals>>

\* The SoA loop follows the AoS loop, and the row is printed.
NextLoop ==
  /\ pc = "pass" /\ i = n /\ iter + 1 = ITERATIONS
  /\ iter' = 0 /\ i' = 0
  /\ IF layout = "aos" THEN layout' = "soa" /\ UNCHANGED pc
                       ELSE pc' = "row" /\ UNCHANGED layout
  /\ UNCHANGED <<test, row, base, lines>>

NextRow ==
  /\ pc = "row"
  /\ IF row < Len(counts) THEN row' = row + 1 /\ pc' = "setup" /\ UNCHANGED test
     ELSE IF test = "subset" THEN row' = 1 /\ pc' = "setup" /\ test' = "full"
     ELSE pc' = "returned" /\ UNCHANGED <<row, test>>
  /\ UNCHANGED <<i, iter, layout, base, lines>>

Return ==
  /\ pc = "returned"
  /\ pc' = "over"
  /\ test' = "subset" /\ row' = 1 /\ layout' = "aos"
  /\ base' = Null /\ lines' = NoLines
  /\ UNCHANGED <<i, iter>>

Run == Begin \/ Setup \/ Element \/ NextPass \/ NextLoop \/ NextRow \/ Return

Over == pc = "over" /\ UNCHANGED vars

Next == Run \/ Over

Spec == Init /\ [][Next]_vars

-----------------------------------------------------------------------------
(***************************************************************************)
(* Types.  Where the arrays start is known while a row is measured.        *)
(***************************************************************************)
TypeOK ==
  /\ pc \in {"begin", "setup", "pass", "row", "returned", "over"}
  /\ test \in Tests /\ row \in DOMAIN counts /\ layout \in Layouts
  /\ iter \in 0 .. ITERATIONS - 1 /\ i \in 0 .. n
  /\ pc \in {"pass", "row"} => base \in [aos : {0, 32}, soa : {0, 16, 32, 48}]
  /\ DOMAIN lines = Layouts

(***************************************************************************)
(* "AoS loads ALL 8 fields per element - 6 of which are wasted"            *)
(* (access_patterns.h:143-144): reading two fields costs a line of the AoS *)
(* array per element, wherever it starts, while the SoA loop gets by with  *)
(* a quarter of that and two lines more for the ends of each array.        *)
(***************************************************************************)
SubsetCostsALine ==
  pc = "row" /\ test = "subset" =>
    /\ Cardinality(lines["aos"]) = n
    /\ 4 * Cardinality(lines["soa"]) <= n + 16

(***************************************************************************)
(* "One fetch gets everything" (access_patterns.h:220): even an entry that *)
(* lies across two lines costs one new line, because the entry before it   *)
(* has brought in the other; only the first one can cost two.              *)
(***************************************************************************)
FetchesOne ==
  pc = "pass" /\ layout = "aos" =>
    Cardinality(lines'["aos"] \ lines["aos"]) <= IF i = 0 THEN 2 ELSE 1

(***************************************************************************)
(* access_patterns.h:19 and 151: "all data for one element is in the same  *)
(* cache line".                                                            *)
(***************************************************************************)
EntryInOneLine ==
  pc = "pass" /\ layout = "aos" => \A e \in 0 .. n - 1 : Cardinality(EntryLines(e)) = 1
=============================================================================
