---------------------------- MODULE PatternProofs ---------------------------
(***************************************************************************)
(* The kernels that measure how code and data are laid out, in the suite.  *)
(* Access patterns: two fields cost a line per element of an array of      *)
(* structures and a quarter of that otherwise, and an entry is fetched     *)
(* once.  Branch prediction: the loops that are compared take the hot path *)
(* as often, sorted data change direction at most twice a pass, and the    *)
(* masked kernel's sum bounds the branchy one's.                           *)
(*                                                                         *)
(* With the last two parts the types of the whole suite follow, and that   *)
(* main() runs what was asked for and nothing else.                        *)
(***************************************************************************)
EXTENDS PrefetchProofs

-----------------------------------------------------------------------------
\* The fields of an entry start every eight bytes, and an entry is a line long.
LEMMA EntryLayout ==
  /\ \A f \in 1 .. 8 : /\ Access!OffsetOf(Access!FieldSizes, f) = 8 * (f - 1)
                       /\ Access!FieldSizes[f] \in {4, 8}
  /\ Access!FieldSizes[1] = 8 /\ Access!FieldSizes[3] = 8
  /\ Access!EntrySize = 64
<1> DEFINE Z == Access!FieldSizes
           End(k) == IF k = 0 THEN 0 ELSE 8 * (k - 1) + Z[k]
           Ends == [k \in 0 .. 8 |-> End(k)]
<1>1. /\ Len(Z) = 8
      /\ Z[1] = 8 /\ Z[2] = 4 /\ Z[3] = 8 /\ Z[4] = 4 /\ Z[5] = 8 /\ Z[6] = 4 /\ Z[7] = 8
      /\ Z[8] = 4
      BY DEF Access!FieldSizes
<1> HIDE DEF Z
<1>2. ASSUME NEW k \in 1 .. 8
      PROVE  End(k) = Access!RoundUp(End(k - 1), Z[k]) + Z[k]
  <2>1. k \in {1, 2, 3, 4, 5, 6, 7, 8}
        OBVIOUS
  <2> QED
      BY <1>1, <2>1 DEF Access!RoundUp
<1>3. ASSUME NEW k \in 0 .. 8
      PROVE  Ends[k] = IF k = 0 THEN 0 ELSE Access!RoundUp(Ends[k - 1], Z[k]) + Z[k]
  <2>1. CASE k = 0
        BY <2>1
  <2>2. CASE k # 0
    <3>1. k \in 1 .. 8 /\ k - 1 \in 0 .. 8
          BY <2>2
    <3>2. Ends[k] = End(k) /\ Ends[k - 1] = End(k - 1)
          BY <3>1
    <3> HIDE DEF End, Ends
    <3> QED
        BY <1>2, <2>2, <3>1, <3>2
  <2> QED
      BY <2>1, <2>2
<1>4. Ends = [k \in 0 .. Len(Z) |->
                IF k = 0 THEN 0 ELSE Access!RoundUp(Ends[k - 1], Z[k]) + Z[k]]
  <2>1. Ends = [k \in 0 .. 8 |-> Ends[k]]
        OBVIOUS
  <2> HIDE DEF Ends
  <2> QED
      BY <1>1, <1>3, <2>1
<1> DEFINE M == Access!MemberEnds(Z)
<1>5. \A e : e = [k \in 0 .. Len(Z) |-> IF k = 0 THEN 0 ELSE Access!RoundUp(e[k - 1], Z[k]) + Z[k]]
               => M = [k \in 0 .. Len(Z) |->
                         IF k = 0 THEN 0 ELSE Access!RoundUp(M[k - 1], Z[k]) + Z[k]]
      BY DEF Access!MemberEnds
<1> HIDE DEF M, End, Ends
<1>6. M = [k \in 0 .. 8 |-> IF k = 0 THEN 0 ELSE Access!RoundUp(M[k - 1], Z[k]) + Z[k]]
      BY <1>1, <1>4, <1>5
<1>7. ASSUME NEW k \in 1 .. 8, M[k - 1] = End(k - 1) PROVE M[k] = End(k)
  <2>1. k \in 0 .. 8 /\ k # 0
        OBVIOUS
  <2>2. M[k] = Access!RoundUp(M[k - 1], Z[k]) + Z[k]
        BY <1>6, <2>1
  <2> QED
      BY <1>2, <1>7, <2>2
<1>8. M[0] = End(0)
      BY <1>6 DEF End
<1>9. ASSUME NEW k \in 1 .. 8 PROVE M[k] = End(k)
  <2> DEFINE T == {l \in Nat : l <= 8 => M[l] = End(l)}
  <2>1. 0 \in T
        BY <1>8
  <2>2. ASSUME NEW l \in T PROVE l + 1 \in T
    <3>1. SUFFICES ASSUME l + 1 <= 8 PROVE M[l + 1] = End(l + 1)
          OBVIOUS
    <3>2. l + 1 \in 1 .. 8 /\ (l + 1) - 1 = l /\ M[l] = End(l)
          BY <3>1
    <3> QED
        BY <1>7, <3>2
  <2>3. T \in SUBSET Nat
        OBVIOUS
  <2> HIDE DEF T
  <2>4. T = Nat
        BY <2>1, <2>2, <2>3, Induction
  <2> QED
      BY <2>4 DEF T
<1>10. ASSUME NEW f \in 1 .. 8
       PROVE  Access!OffsetOf(Z, f) = 8 * (f - 1) /\ Z[f] \in {4, 8}
  <2>1. f \in {1, 2, 3, 4, 5, 6, 7, 8}
        OBVIOUS
  <2>2. Z[f] \in {4, 8}
        BY <1>1, <2>1
  <2> QED
      BY <1>9, <2>2 DEF M, End, Access!OffsetOf
<1>11. Access!EntrySize = 64
  <2>1. M[8] = 60
        BY <1>1, <1>9 DEF End
  <2>2. ((60 + 32 - 1) \div 32) * 32 = 64
        OBVIOUS
  <2> QED
      BY <1>1, <2>1, <2>2 DEF M, Z, Access!EntrySize, Access!SizeOf, Access!RoundUp, Access!AoSAlign
<1> QED
    BY <1>1, <1>10, <1>11 DEF Z
-----------------------------------------------------------------------------
AtLines == [aos : {0, 32}, soa : {0, 16, 32, 48}]

\* A field of an entry is on one line: that of the entry's start, or if the
\* array starts in the middle of a line the one after it.
FieldLine(e, f) == IF base.aos = 32 /\ f > 4 THEN e + 1 ELSE e

LEMMA FieldInOneLine ==
  ASSUME base \in AtLines, NEW e \in Nat, NEW f \in 1 .. 8
  PROVE  Access!Lines(base.aos + e * Access!EntrySize + Access!OffsetOf(Access!FieldSizes, f),
                      Access!FieldSizes[f]) = {FieldLine(e, f)}
<1> DEFINE a == base.aos + e * 64 + 8 * (f - 1)
           z == Access!FieldSizes[f]
           l == FieldLine(e, f)
<1>1. base.aos \in {0, 32} /\ z \in {4, 8}
      BY EntryLayout DEF AtLines
<1> HIDE DEF z
<1>2. a \div 64 = l /\ (a + z - 1) \div 64 = l
      BY <1>1 DEF FieldLine
<1>3. l \in Nat
      BY <1>1 DEF FieldLine
<1>4. base.aos + e * Access!EntrySize + Access!OffsetOf(Access!FieldSizes, f) = a
      BY EntryLayout
<1> HIDE DEF a, l
<1>5. l .. l = {l}
      BY <1>3
<1> QED
    BY <1>2, <1>4, <1>5 DEF z, l, Access!Lines, Access!CACHE_LINE_SIZE

LEMMA EntryOnLines ==
  ASSUME base \in AtLines, test \in Access!Tests, NEW e \in Nat
  PROVE  Access!EntryLines(e) = {<<"aos", FieldLine(e, f)>> : f \in Access!FieldsRead}
<1>1. Access!FieldsRead \subseteq 1 .. 8
      BY DEF Access!FieldsRead, Access!Fields
<1>2. Access!EntryLines(e)
        = UNION {{<<"aos", line>> : line \in {FieldLine(e, f)}} : f \in Access!FieldsRead}
      BY <1>1, FieldInOneLine DEF Access!EntryLines
<1> QED
    BY <1>2

\* Two fields of an entry are on the line it starts on; all of them are on that
\* line and perhaps on the next.
LEMMA EntrySpans ==
  ASSUME base \in AtLines, test \in Access!Tests, NEW e \in Nat
  PROVE  /\ <<"aos", e>> \in Access!EntryLines(e)
         /\ Access!EntryLines(e) \subseteq {<<"aos", e>>, <<"aos", e + 1>>}
         /\ base.aos = 0 \/ test = "subset" => Access!EntryLines(e) = {<<"aos", e>>}
         /\ base.aos = 32 /\ test = "full" => <<"aos", e + 1>> \in Access!EntryLines(e)
<1>1. Access!EntryLines(e) = {<<"aos", FieldLine(e, f)>> : f \in Access!FieldsRead}
      BY EntryOnLines
<1>2. 1 \in Access!FieldsRead /\ FieldLine(e, 1) = e
      BY DEF Access!FieldsRead, Access!Fields, FieldLine
<1>3. \A f \in Access!FieldsRead : FieldLine(e, f) \in {e, e + 1}
      BY DEF FieldLine
<1>4. ASSUME base.aos = 0 \/ test = "subset" PROVE \A f \in Access!FieldsRead : FieldLine(e, f) = e
      BY <1>4 DEF FieldLine, Access!FieldsRead
<1>5. ASSUME base.aos = 32, test = "full"
      PROVE  8 \in Access!FieldsRead /\ FieldLine(e, 8) = e + 1
      BY <1>5 DEF Access!FieldsRead, Access!Fields, FieldLine
<1>6. <<"aos", e>> \in Access!EntryLines(e)
      BY <1>1, <1>2
<1> HIDE DEF FieldLine
<1> QED
    BY <1>1, <1>2, <1>3, <1>4, <1>5, <1>6

\* The lines the first m elements lie on.
EntriesSeen(m) == UNION {Access!EntryLines(e) : e \in 0 .. m - 1}
BooksSeen(m)   == UNION {Access!BookLines(e) : e \in 0 .. m - 1}

\* The elements the current loop has read at least once.
Through == IF iter = 0 THEN i ELSE Access!n

AccessShape ==
  /\ pc \in {"begin", "setup", "pass", "row", "returned", "over"}
  /\ test \in Access!Tests /\ row \in DOMAIN counts /\ layout \in Access!Layouts
  /\ iter \in 0 .. ITERATIONS - 1 /\ i \in 0 .. Access!n
  /\ pc # "pass" => iter = 0 /\ i = 0
  /\ pc \in {"pass", "row"} => base \in AtLines
  /\ DOMAIN lines = Access!Layouts

\* Each loop has loaded the lines of the elements it has read, and no others.
LinesSeen ==
  /\ pc = "pass" /\ layout = "aos" => lines["aos"] = EntriesSeen(Through) /\ lines["soa"] = {}
  /\ pc = "pass" /\ layout = "soa" =>
       lines["aos"] = EntriesSeen(Access!n) /\ lines["soa"] = BooksSeen(Through)
  /\ pc = "row" => lines["aos"] = EntriesSeen(Access!n) /\ lines["soa"] = BooksSeen(Access!n)

AccessInv == AccessShape /\ LinesSeen

LEMMA AccessAssumed ==
  /\ counts \in Seq(Nat \ {0}) /\ 1 \in DOMAIN counts /\ ITERATIONS \in Nat \ {0}
  /\ \A r \in DOMAIN counts : counts[r] \in Nat \ {0}
BY SuiteAssumption DEF Access!AccessAssumption

LEMMA AccessStarts == Access!Init => AccessInv
BY AccessAssumed DEF Access!Init, Access!NoLines, Access!n, Access!Tests, Access!Layouts,
   AccessInv, AccessShape, LinesSeen

\* An element that has been read before adds nothing, the next one its lines.
LEMMA SeenGrows ==
  ASSUME NEW m \in Nat
  PROVE  /\ EntriesSeen(m + 1) = EntriesSeen(m) \cup Access!EntryLines(m)
         /\ BooksSeen(m + 1) = BooksSeen(m) \cup Access!BookLines(m)
         /\ \A e \in 0 .. m - 1 : /\ Access!EntryLines(e) \subseteq EntriesSeen(m)
                                  /\ Access!BookLines(e) \subseteq BooksSeen(m)
         /\ EntriesSeen(0) = {} /\ BooksSeen(0) = {}
<1>1. 0 .. (m + 1) - 1 = (0 .. m - 1) \cup {m} /\ 0 .. 0 - 1 = {}
      OBVIOUS
<1> QED
    BY <1>1 DEF EntriesSeen, BooksSeen

LEMMA SeenStays ==
  ASSUME UNCHANGED <<test, row, base>>
  PROVE  /\ Access!n' = Access!n
         /\ \A e : Access!EntryLines(e)' = Access!EntryLines(e)
         /\ \A e : Access!BookLines(e)' = Access!BookLines(e)
         /\ \A m : EntriesSeen(m)' = EntriesSeen(m) /\ BooksSeen(m)' = BooksSeen(m)
<1> USE DEF Access!EntryLines, Access!BookLines, Access!FieldsRead
<1>1. Access!n' = Access!n
      BY DEF Access!n
<1>2. \A e : Access!EntryLines(e)' = Access!EntryLines(e)
      OBVIOUS
<1>3. \A e : Access!BookLines(e)' = Access!BookLines(e)
      OBVIOUS
<1>4. \A m : EntriesSeen(m)' = EntriesSeen(m) /\ BooksSeen(m)' = BooksSeen(m)
      BY DEF EntriesSeen, BooksSeen
<1> QED
    BY <1>1, <1>2, <1>3, <1>4

LEMMA AccessElementStep == AccessInv /\ Access!Element => AccessInv'
<1> SUFFICES ASSUME AccessInv, Access!Element PROVE AccessInv'
    OBVIOUS
<1>1. /\ pc = "pass" /\ pc' = "pass" /\ i < Access!n /\ i' = i + 1
      /\ lines' = [lines EXCEPT ![layout] = lines[layout] \cup Access!LinesRead(i)]
      /\ UNCHANGED <<iter, test, row, layout, base>>
      BY DEF Access!Element
<1>2. /\ Access!n' = Access!n
      /\ \A m : EntriesSeen(m)' = EntriesSeen(m) /\ BooksSeen(m)' = BooksSeen(m)
      BY <1>1, SeenStays
<1>3. Access!n \in Nat \ {0} /\ i \in Nat /\ i' \in 0 .. Access!n /\ layout \in {"aos", "soa"}
      BY <1>1, AccessAssumed DEF AccessInv, AccessShape, Access!n, Access!Layouts
<1>4. AccessShape'
      BY <1>1, <1>2, <1>3 DEF AccessInv, AccessShape
<1>5. /\ Through \in Nat /\ Through' = IF iter = 0 THEN Through + 1 ELSE Through
      /\ iter = 0 => Through = i
      /\ iter # 0 => i \in 0 .. Through - 1
      BY <1>1, <1>2, <1>3 DEF Through
<1>6. /\ EntriesSeen(Through) \cup Access!EntryLines(i) = EntriesSeen(Through')
      /\ BooksSeen(Through) \cup Access!BookLines(i) = BooksSeen(Through')
  <2>1. CASE iter = 0
        BY <1>5, <2>1, SeenGrows
  <2>2. CASE iter # 0
    <3>1. /\ Access!EntryLines(i) \subseteq EntriesSeen(Through)
          /\ Access!BookLines(i) \subseteq BooksSeen(Through)
          BY <1>5, <2>2, SeenGrows
    <3> QED
        BY <1>5, <2>2, <3>1
  <2> QED
      BY <2>1, <2>2
<1>7. DOMAIN lines = {"aos", "soa"}
      BY DEF AccessInv, AccessShape, Access!Layouts
<1>8. CASE layout = "aos"
  <2>1. lines'["aos"] = lines["aos"] \cup Access!EntryLines(i) /\ lines'["soa"] = lines["soa"]
        BY <1>1, <1>7, <1>8 DEF Access!LinesRead
  <2>2. lines["aos"] = EntriesSeen(Through) /\ lines["soa"] = {}
        BY <1>1, <1>8 DEF AccessInv, LinesSeen
  <2>3. lines'["aos"] = EntriesSeen(Through') /\ lines'["soa"] = {}
        BY <1>6, <2>1, <2>2
  <2>4. LinesSeen'
        BY <1>1, <1>2, <1>8, <2>3 DEF LinesSeen, EntriesSeen
  <2> QED
      BY <1>4, <2>4 DEF AccessInv
<1>9. CASE layout = "soa"
  <2>1. lines'["soa"] = lines["soa"] \cup Access!BookLines(i) /\ lines'["aos"] = lines["aos"]
        BY <1>1, <1>7, <1>9 DEF Access!LinesRead
  <2>2. lines["aos"] = EntriesSeen(Access!n) /\ lines["soa"] = BooksSeen(Through)
        BY <1>1, <1>9 DEF AccessInv, LinesSeen
  <2>3. lines'["aos"] = EntriesSeen(Access!n) /\ lines'["soa"] = BooksSeen(Through')
        BY <1>6, <2>1, <2>2
  <2>4. LinesSeen'
        BY <1>1, <1>2, <1>9, <2>3 DEF LinesSeen, EntriesSeen, BooksSeen
  <2> QED
      BY <1>4, <2>4 DEF AccessInv
<1> QED
    BY <1>3, <1>8, <1>9

LEMMA AccessPassStep == AccessInv /\ (Access!NextPass \/ Access!NextLoop) => AccessInv'
<1> SUFFICES ASSUME AccessInv, Access!NextPass \/ Access!NextLoop PROVE AccessInv'
    OBVIOUS
<1>1. /\ pc = "pass" /\ i = Access!n /\ i' = 0
      /\ UNCHANGED <<test, row, base, lines>>
      BY DEF Access!NextPass, Access!NextLoop, Access!locals
<1>2. /\ Access!n' = Access!n
      /\ \A m : EntriesSeen(m)' = EntriesSeen(m) /\ BooksSeen(m)' = BooksSeen(m)
      BY <1>1, SeenStays
<1>3. /\ Access!n \in Nat \ {0} /\ 0 \in 0 .. Access!n /\ layout \in {"aos", "soa"}
      /\ iter \in 0 .. ITERATIONS - 1 /\ ITERATIONS \in Nat \ {0}
      BY AccessAssumed DEF AccessInv, AccessShape, Access!n, Access!Layouts
<1>4. Through = Access!n
      BY <1>1 DEF Through
<1>5. /\ layout = "aos" => lines["aos"] = EntriesSeen(Access!n) /\ lines["soa"] = {}
      /\ layout = "soa" => /\ lines["aos"] = EntriesSeen(Access!n)
                           /\ lines["soa"] = BooksSeen(Access!n)
      BY <1>1, <1>4 DEF AccessInv, LinesSeen
<1>6. CASE Access!NextPass
  <2>1. /\ pc' = "pass" /\ iter' = iter + 1 /\ iter + 1 < ITERATIONS /\ layout' = layout
        BY <1>6 DEF Access!NextPass, Access!locals
  <2>2. AccessShape'
        BY <1>1, <1>2, <1>3, <2>1 DEF AccessInv, AccessShape
  <2>3. Through' = Access!n
        BY <1>2, <1>3, <2>1 DEF Through
  <2>4. LinesSeen'
        BY <1>1, <1>2, <1>5, <2>1, <2>3 DEF LinesSeen, EntriesSeen, BooksSeen
  <2> QED
      BY <2>2, <2>4 DEF AccessInv
<1>7. CASE Access!NextLoop /\ layout = "aos"
  <2>1. pc' = "pass" /\ iter' = 0 /\ layout' = "soa"
        BY <1>1, <1>7 DEF Access!NextLoop
  <2>2. AccessShape'
        BY <1>1, <1>2, <1>3, <2>1 DEF AccessInv, AccessShape, Access!Layouts
  <2>3. Through' = 0 /\ BooksSeen(0) = {}
        BY <1>1, <2>1, SeenGrows DEF Through
  <2>4. LinesSeen'
        BY <1>1, <1>2, <1>5, <1>7, <2>1, <2>3 DEF LinesSeen, EntriesSeen, BooksSeen
  <2> QED
      BY <2>2, <2>4 DEF AccessInv
<1>8. CASE Access!NextLoop /\ layout = "soa"
  <2>1. pc' = "row" /\ iter' = 0 /\ layout' = layout
        BY <1>8 DEF Access!NextLoop
  <2>2. AccessShape'
        BY <1>1, <1>2, <1>3, <2>1 DEF AccessInv, AccessShape
  <2>3. LinesSeen'
        BY <1>1, <1>2, <1>5, <1>8, <2>1 DEF LinesSeen, EntriesSeen, BooksSeen
  <2> QED
      BY <2>2, <2>3 DEF AccessInv
<1> QED
    BY <1>3, <1>6, <1>7, <1>8

LEMMA AccessGoesOn == AccessInv /\ [Access!Next]_Access!vars => AccessInv'
<1> SUFFICES ASSUME AccessInv, [Access!Next]_Access!vars PROVE AccessInv'
    OBVIOUS
<1>0. 0 \in 0 .. ITERATIONS - 1 /\ \A r \in DOMAIN counts : 0 \in 0 .. counts[r]
      BY AccessAssumed
<1>1. CASE Access!Begin
      BY <1>1 DEF Access!Begin, Access!locals, AccessInv, AccessShape, LinesSeen, Access!n
<1>2. CASE Access!Setup
  <2>1. /\ pc' = "pass" /\ layout' = "aos" /\ lines' = Access!NoLines /\ iter' = 0 /\ i' = 0
        /\ UNCHANGED <<test, row>>
        BY <1>2 DEF Access!Setup
  <2>2. base' \in AtLines
    <3>1. PICK aos \in {0, 16, 32, 48}, soa \in {0, 16, 32, 48} :
            aos % Access!AoSAlign = 0 /\ base' = [aos |-> aos, soa |-> soa]
          BY <1>2, Zenon DEF Access!Setup
    <3>2. aos \in {0, 32}
          BY <3>1 DEF Access!AoSAlign
    <3> QED
        BY <3>1, <3>2 DEF AtLines
  <2>3. AccessShape'
        BY <1>0, <2>1, <2>2 DEF AccessInv, AccessShape, Access!NoLines, Access!Layouts, Access!n
  <2>4. Through' = 0 /\ EntriesSeen(0)' = {}
    <3>1. 0 .. 0 - 1 = {}
          OBVIOUS
    <3> QED
        BY <2>1, <3>1 DEF Through, EntriesSeen
  <2>5. lines'["aos"] = {} /\ lines'["soa"] = {}
        BY <2>1 DEF Access!NoLines, Access!Layouts
  <2>6. LinesSeen'
        BY <2>1, <2>4, <2>5 DEF LinesSeen
  <2> QED
      BY <2>3, <2>6 DEF AccessInv
<1>3. CASE Access!Element
      BY <1>3, AccessElementStep
<1>4. CASE Access!NextPass \/ Access!NextLoop
      BY <1>4, AccessPassStep
<1>5. CASE Access!NextRow
  <2>1. /\ pc = "row" /\ pc' \in {"setup", "returned"} /\ iter' = iter /\ i' = i /\ iter = 0
        /\ i = 0
        /\ lines' = lines /\ layout' = layout /\ test' \in {test, "full"}
        /\ row' \in {row, 1} \/ (row < Len(counts) /\ row' = row + 1)
        BY <1>5 DEF Access!NextRow, AccessInv, AccessShape
  <2>2. row' \in DOMAIN counts
    <3>1. DOMAIN counts = 1 .. Len(counts) /\ Len(counts) \in Nat /\ row \in DOMAIN counts
          BY AccessAssumed DEF AccessInv, AccessShape
    <3> QED
        BY <2>1, <3>1, AccessAssumed
  <2>3. AccessShape'
        BY <1>0, <2>1, <2>2 DEF AccessInv, AccessShape, Access!n, Access!Tests
  <2>4. LinesSeen'
        BY <2>1 DEF LinesSeen
  <2> QED
      BY <2>3, <2>4 DEF AccessInv
<1>6. CASE Access!Return
  <2>1. /\ pc = "returned" /\ pc' = "over" /\ UNCHANGED <<i, iter>>
        /\ test' = "subset" /\ row' = 1 /\ layout' = "aos" /\ lines' = Access!NoLines
        BY <1>6 DEF Access!Return
  <2>2. AccessShape'
        BY <1>0, <2>1, AccessAssumed DEF AccessInv, AccessShape, Access!n, Access!Tests,
           Access!Layouts,
           Access!NoLines
  <2>3. LinesSeen'
        BY <2>1 DEF LinesSeen
  <2> QED
      BY <2>2, <2>3 DEF AccessInv
<1>7. CASE UNCHANGED Access!vars
  <2>1. UNCHANGED <<pc, i, iter, test, row, layout, base, lines>>
        BY <1>7 DEF Access!vars, Access!locals
  <2>2. /\ Access!n' = Access!n
        /\ \A m : EntriesSeen(m)' = EntriesSeen(m) /\ BooksSeen(m)' = BooksSeen(m)
        BY <2>1, SeenStays
  <2>3. AccessShape' /\ Through' = Through
        BY <2>1, <2>2 DEF AccessInv, AccessShape, Through
  <2>4. LinesSeen'
        BY <2>1, <2>2, <2>3 DEF AccessInv, LinesSeen, EntriesSeen, BooksSeen
  <2> QED
      BY <2>3, <2>4 DEF AccessInv
<1> QED
    BY <1>1, <1>2, <1>3, <1>4, <1>5, <1>6, <1>7 DEF Access!Next, Access!Run, Access!Over

-----------------------------------------------------------------------------
LEMMA AccessCount == ASSUME NEW S PROVE Access!Cardinality(S) = Cardinality(S)
BY DEF Access!Cardinality, Cardinality

\* An element of the pass costs a new line at most, after the first.
LEMMA ElementFetches ==
  ASSUME AccessInv, Access!Element
  PROVE  Access!FetchesOne
<1> SUFFICES ASSUME layout = "aos"
             PROVE  Cardinality(lines'["aos"] \ lines["aos"]) <= IF i = 0 THEN 2 ELSE 1
    BY AccessCount DEF Access!FetchesOne
<1>1. /\ pc = "pass" /\ i < Access!n
      /\ lines' = [lines EXCEPT !["aos"] = lines["aos"] \cup Access!EntryLines(i)]
      BY DEF Access!Element, Access!LinesRead
<1>2. /\ i \in Nat /\ base \in AtLines /\ test \in Access!Tests /\ DOMAIN lines = {"aos", "soa"}
      /\ lines["aos"] = EntriesSeen(Through)
      BY <1>1, AccessAssumed DEF AccessInv, AccessShape, LinesSeen, Access!n, Access!Layouts
<1> DEFINE new == lines'["aos"] \ lines["aos"]
           x == <<"aos", i>>
           y == <<"aos", i + 1>>
<1>3. new \subseteq Access!EntryLines(i) /\ new = Access!EntryLines(i) \ lines["aos"]
      BY <1>1, <1>2
<1>4. Access!EntryLines(i) \subseteq {x, y}
      BY <1>2, EntrySpans
<1>5. /\ IsFiniteSet({x}) /\ Cardinality({x}) = 1 /\ IsFiniteSet({y}) /\ Cardinality({y}) = 1
      BY FS_Singleton, Zenon
<1>6. IsFiniteSet({x, y}) /\ Cardinality({x, y}) <= 2
  <2>1. {x, y} = {x} \cup {y}
        OBVIOUS
  <2> HIDE DEF x, y
  <2>2. /\ IsFiniteSet({x} \cup {y})
        /\ Cardinality({x} \cup {y}) = IF y \in {x} THEN 1 ELSE 2
        BY <1>5, FS_AddElement
  <2> QED
      BY <2>1, <2>2
<1> HIDE DEF new, x, y
<1>7. Cardinality(new) \in Nat /\ Cardinality(new) <= 2
  <2>1. new \in SUBSET {x, y}
        BY <1>3, <1>4
  <2>2. IsFiniteSet(new) /\ Cardinality(new) <= Cardinality({x, y})
        BY <1>6, <2>1, FS_Subset
  <2>3. Cardinality(new) \in Nat /\ Cardinality({x, y}) \in Nat
        BY <1>6, <2>2, FS_CardinalityType
  <2> QED
      BY <1>6, <2>2, <2>3
<1>8. ASSUME NEW z, new \subseteq {z}, Cardinality({z}) = 1, IsFiniteSet({z})
      PROVE  Cardinality(new) <= 1
  <2>1. new \in SUBSET {z}
        BY <1>8
  <2> QED
      BY <1>8, <2>1, FS_Subset
<1>9. ASSUME i # 0 PROVE Cardinality(new) <= 1
  <2>1. CASE base.aos = 0 \/ test = "subset"
    <3>1. Access!EntryLines(i) = {x}
          BY <1>2, <2>1, EntrySpans DEF x
    <3> QED
        BY <1>3, <1>5, <1>8, <3>1
  <2>2. CASE ~ (base.aos = 0 \/ test = "subset")
    <3>1. base.aos = 32 /\ test = "full"
          BY <1>2, <2>2 DEF AtLines, Access!Tests
    <3>2. i - 1 \in 0 .. Through - 1 /\ (i - 1) + 1 = i /\ i - 1 \in Nat /\ Through \in Nat
      <4>1. Access!n \in Nat
            BY AccessAssumed DEF AccessInv, AccessShape, Access!n
      <4> QED
          BY <1>1, <1>2, <1>9, <4>1 DEF Through
    <3>3. x \in Access!EntryLines(i - 1)
          BY <1>2, <3>1, <3>2, EntrySpans DEF x
    <3>4. Access!EntryLines(i - 1) \subseteq EntriesSeen(Through)
          BY <3>2, SeenGrows
    <3>5. new \subseteq {y}
          BY <1>2, <1>3, <1>4, <3>3, <3>4
    <3> QED
        BY <1>5, <1>8, <3>5
  <2> QED
      BY <2>1, <2>2
<1> QED
    BY <1>7, <1>9 DEF new

\* Every other step loads nothing.
LEMMA EachEntryFetchesOne ==
  ASSUME AccessInv, [Access!Next]_Access!vars
  PROVE  Access!FetchesOne
<1>1. CASE Access!Element
      BY <1>1, ElementFetches
<1>2. CASE ~ Access!Element
  <2>1. pc = "pass" => lines' = lines
        BY <1>2 DEF Access!Next, Access!Run, Access!Over, Access!Begin, Access!Setup,
           Access!NextPass,
           Access!NextLoop, Access!NextRow, Access!Return, Access!vars, Access!locals
  <2>2. ASSUME pc = "pass" PROVE Cardinality(lines'["aos"] \ lines["aos"]) = 0
    <3>1. lines'["aos"] \ lines["aos"] = {}
          BY <2>1, <2>2
    <3> QED
        BY <3>1, FS_EmptySet
  <2> QED
      BY <2>2, AccessCount DEF Access!FetchesOne
<1> QED
    BY <1>1, <1>2

-----------------------------------------------------------------------------
\* A field of eight bytes of a struct of arrays is on one line of its array.
LEMMA BookOnLines ==
  ASSUME base \in AtLines, test = "subset", NEW e \in Nat
  PROVE  Access!BookLines(e) \subseteq {1, 3} \X {(base.soa + e * 8) \div 64}
<1> DEFINE a == base.soa + e * 8
<1>1. base.soa \in {0, 16, 32, 48}
      BY DEF AtLines
<1>2. a \div 64 = (a + 8 - 1) \div 64 /\ a \div 64 \in Nat
      BY <1>1
<1>3. a \div 64 .. (a + 8 - 1) \div 64 = {a \div 64}
      BY <1>2
<1>4. ASSUME NEW f \in {1, 3}
      PROVE  Access!Lines(base.soa + e * Access!FieldSizes[f], Access!FieldSizes[f]) = {a \div 64}
  <2>1. Access!FieldSizes[f] = 8
        BY EntryLayout
  <2> QED
      BY <1>3, <2>1 DEF Access!Lines, Access!CACHE_LINE_SIZE
<1>5. Access!FieldsRead = {1, 3}
      BY DEF Access!FieldsRead
<1> HIDE DEF a
<1> QED
    BY <1>4, <1>5 DEF Access!BookLines, a

LEMMA BooksAreDense ==
  ASSUME base \in AtLines, test = "subset", NEW m \in Nat \ {0}
  PROVE  BooksSeen(m) \subseteq {1, 3} \X (0 .. (48 + (m - 1) * 8) \div 64)
<1>1. ASSUME NEW e \in 0 .. m - 1
      PROVE  (base.soa + e * 8) \div 64 \in 0 .. (48 + (m - 1) * 8) \div 64
  <2>1. base.soa \in 0 .. 48 /\ e \in Nat /\ e * 8 <= (m - 1) * 8
        BY DEF AtLines
  <2> QED
      BY <2>1
<1>2. ASSUME NEW e \in 0 .. m - 1
      PROVE  Access!BookLines(e) \subseteq {1, 3} \X (0 .. (48 + (m - 1) * 8) \div 64)
  <2>1. Access!BookLines(e) \subseteq {1, 3} \X {(base.soa + e * 8) \div 64}
        BY BookOnLines
  <2> DEFINE l == (base.soa + e * 8) \div 64
             L == 0 .. (48 + (m - 1) * 8) \div 64
  <2>2. l \in L
        BY <1>1
  <2> HIDE DEF l, L
  <2>3. {1, 3} \X {l} \subseteq {1, 3} \X L
        BY <2>2
  <2> QED
      BY <2>1, <2>3 DEF l, L
<1> QED
    BY <1>2 DEF BooksSeen

LEMMA SubsetShows == AccessInv => Access!SubsetCostsALine
<1> SUFFICES ASSUME AccessInv, pc = "row", test = "subset"
             PROVE  /\ Cardinality(lines["aos"]) = Access!n
                    /\ 4 * Cardinality(lines["soa"]) <= Access!n + 16
    BY AccessCount DEF Access!SubsetCostsALine
<1> DEFINE m == Access!n
<1>1. /\ m \in Nat \ {0} /\ base \in AtLines /\ test \in Access!Tests
      /\ lines["aos"] = EntriesSeen(m) /\ lines["soa"] = BooksSeen(m)
      BY AccessAssumed DEF AccessInv, AccessShape, LinesSeen, Access!n
<1> HIDE DEF m
<1>2. EntriesSeen(m) = {<<"aos", e>> : e \in 0 .. m - 1}
  <2>1. ASSUME NEW e \in 0 .. m - 1 PROVE Access!EntryLines(e) = {<<"aos", e>>}
    <3>1. e \in Nat
          BY <1>1
    <3> QED
        BY <1>1, <3>1, EntrySpans
  <2> QED
      BY <2>1 DEF EntriesSeen
<1>3. Cardinality(EntriesSeen(m)) = m
  <2> DEFINE line == [e \in 0 .. m - 1 |-> <<"aos", e>>]
  <2>1. line \in Bijection(0 .. m - 1, EntriesSeen(m))
        BY <1>2 DEF Bijection, Injection, Surjection, IsInjective
  <2>2. IsFiniteSet(0 .. m - 1) /\ Cardinality(0 .. m - 1) = m
        BY <1>1, FS_Interval
  <2>3. ExistsBijection(0 .. m - 1, EntriesSeen(m))
        BY <2>1 DEF ExistsBijection
  <2> QED
      BY <2>2, <2>3, FS_Bijection
<1>4. 4 * Cardinality(BooksSeen(m)) <= m + 16
  <2> DEFINE top == (48 + (m - 1) * 8) \div 64
             S == {1, 3}
             L == 0 .. top
  <2>1. top \in Nat /\ 8 * (top + 1) <= m + 13
        BY <1>1
  <2> HIDE DEF top
  <2>2. IsFiniteSet(S) /\ Cardinality(S) = 2
    <3> DEFINE A == {1}
    <3>1. IsFiniteSet(A) /\ Cardinality(A) = 1
          BY FS_Singleton, Zenon
    <3>2. S = A \cup {3} /\ 3 \notin A
          OBVIOUS
    <3> HIDE DEF S, A
    <3>3. IsFiniteSet(A \cup {3}) /\ Cardinality(A \cup {3}) = Cardinality(A) + 1
          BY <3>1, <3>2, FS_AddElement
    <3> QED
        BY <3>1, <3>2, <3>3
  <2>3. IsFiniteSet(L) /\ Cardinality(L) = top + 1
    <3>1. 0 \in Int /\ top \in Int
          BY <2>1
    <3>2. /\ IsFiniteSet(0 .. top)
          /\ Cardinality(0 .. top) = IF 0 > top THEN 0 ELSE top - 0 + 1
          BY <3>1, FS_Interval, Zenon
    <3> QED
        BY <2>1, <3>2
  <2>4. BooksSeen(m) \in SUBSET (S \X L)
        BY <1>1, BooksAreDense DEF top
  <2> HIDE DEF S, L
  <2>5. IsFiniteSet(S \X L) /\ Cardinality(S \X L) = Cardinality(S) * Cardinality(L)
        BY <2>2, <2>3, FS_Product, Zenon
  <2>6. Cardinality(S \X L) = 2 * (top + 1)
        BY <2>2, <2>3, <2>5
  <2>7. IsFiniteSet(BooksSeen(m)) /\ Cardinality(BooksSeen(m)) <= Cardinality(S \X L)
        BY <2>4, <2>5, FS_Subset, Zenon
  <2>8. Cardinality(BooksSeen(m)) \in Nat
        BY <2>7, FS_CardinalityType
  <2> QED
      BY <1>1, <2>1, <2>6, <2>7, <2>8
<1> QED
    BY <1>1, <1>3, <1>4 DEF m

AccessRest ==
  test = "subset" /\ row = 1 /\ layout = "aos" /\ base = Null /\ lines = Access!NoLines

AccessPart ==
  IF Inside("access") THEN AccessInv /\ (pc = "over" => AccessRest) ELSE AccessRest

LEMMA AccessPartStart == Init => AccessPart
BY DEF Init, Access!Init, AccessRest, AccessPart, Inside

LEMMA AccessPartStep ==
  MappedInv /\ CounterInv /\ CounterInv' /\ AccessPart /\ [Next]_vars =>
    AccessPart' /\ (Inside("access") => Access!FetchesOne)
<1> SUFFICES ASSUME MappedInv, CounterInv, CounterInv', AccessPart, [Next]_vars
             PROVE  AccessPart' /\ (Inside("access") => Access!FetchesOne)
    OBVIOUS
<1>1. CASE AccessRuns
  <2>1. Inside("access") /\ Inside("access")' /\ Access!Run
        BY <1>1, RunsInside DEF RunsOf, Benchmarks, AccessRuns
  <2>2. AccessInv' /\ Access!FetchesOne
        BY <2>1, AccessGoesOn, EachEntryFetchesOne DEF AccessPart, Access!Next
  <2>3. pc' = "over" => AccessRest'
        BY <2>1 DEF Access!Run, Access!Begin, Access!Setup, Access!Element, Access!NextPass,
           Access!NextLoop, Access!NextRow, Access!Return, AccessRest, Access!NoLines
  <2> QED
      BY <2>1, <2>2, <2>3 DEF AccessPart
<1>2. CASE ~ AccessRuns
  <2>1. /\ UNCHANGED ofAccess
        /\ Enters("access") \/ Leaves("access") \/ Waits("access") \/ Away("access")
        BY <1>2, PartStep DEF RunsOf, Untouched, Benchmarks
  <2>2. AccessRest' <=> AccessRest
        BY <2>1 DEF AccessRest, ofAccess, Access!NoLines
  <2>3. CASE Enters("access")
    <3>1. /\ AccessRest /\ Inside("access")' /\ pc' = "begin" /\ i' = 0 /\ iter' = 0
          /\ ~ Inside("access")
          BY <2>3 DEF AccessPart, Enters
    <3>2. (Access!Init => AccessInv)'
          BY AccessStarts, PTL
    <3>3. Access!Init'
          BY <2>1, <3>1 DEF AccessRest, ofAccess, Access!Init, Access!NoLines
    <3> QED
        BY <2>2, <3>1, <3>2, <3>3 DEF AccessPart
  <2>4. CASE Leaves("access") \/ Away("access")
    <3>1. Inside("access") => pc = "over"
          BY <2>4 DEF Leaves, Away
    <3> QED
        BY <2>2, <2>4, <3>1 DEF AccessPart, Leaves, Away, Access!FetchesOne
  <2>5. CASE Waits("access")
    <3>1. [Access!Next]_Access!vars /\ AccessInv
          BY <2>1, <2>5 DEF Waits, ofAccess, Access!vars, Access!locals, AccessPart
    <3>2. AccessInv' /\ Access!FetchesOne
          BY <3>1, AccessGoesOn, EachEntryFetchesOne
    <3> QED
        BY <2>2, <2>5, <3>2 DEF AccessPart, Waits
  <2> QED
      BY <2>1, <2>3, <2>4, <2>5
<1> QED
    BY <1>1, <1>2

LEMMA AccessPartAlways == Spec => []AccessPart
BY AccessPartStart, AccessPartStep, MappedAlways, CounterAlways, PTL DEF Spec

\* Two fields of every element cost the first test of access_patterns.h exactly a
\* line per element in AoS, and in SoA the lines of two dense arrays: a quarter of
\* that and their ends, wherever the allocator puts them.
THEOREM TwoFieldsCostALine == Spec => []SubsetCostsALine
<1>1. AccessPart => SubsetCostsALine
      BY SubsetShows DEF AccessPart, SubsetCostsALine
<1> QED
    BY <1>1, AccessPartAlways, PTL

\* The full reads of access_patterns.h: no step of the loop over AoS entries
\* fetches more than one line it has not had, but for the first entry's two.
THEOREM EntriesFetchOnce == Spec => OneFetchPerEntry
<1>1. MappedInv /\ CounterInv /\ CounterInv' /\ AccessPart /\ [Next]_vars
        => [Inside("access") => Access!FetchesOne]_vars
      BY AccessPartStep
<1> QED
    BY <1>1, AccessPartAlways, MappedAlways, CounterAlways, PTL DEF Spec, OneFetchPerEntry

-----------------------------------------------------------------------------
\* One more bit: p is the weight of the bit, and l what the bits below it make.
LEMMA BitStep ==
  ASSUME NEW x \in Nat, NEW v \in Nat, NEW p \in {1, 2, 4, 8, 16, 32, 64, 128}, NEW l \in Nat,
         l <= (x % p) + (v % p)
  PROVE  /\ l + ((x \div p + v \div p) % 2) * p \in Nat
         /\ l + ((x \div p + v \div p) % 2) * p <= (x % (2 * p)) + (v % (2 * p))
<1>1. \A y \in Nat : /\ (y % (2 * p)) = (y % p) + ((y \div p) % 2) * p
                     /\ y \div p \in Nat /\ (y \div p) % 2 \in {0, 1}
  <2>1. ASSUME NEW y \in Nat
        PROVE  /\ (y % (2 * 1)) = (y % 1) + ((y \div 1) % 2) * 1
               /\ (y % (2 * 2)) = (y % 2) + ((y \div 2) % 2) * 2
               /\ (y % (2 * 4)) = (y % 4) + ((y \div 4) % 2) * 4
               /\ (y % (2 * 8)) = (y % 8) + ((y \div 8) % 2) * 8
        OBVIOUS
  <2>2. ASSUME NEW y \in Nat
        PROVE  /\ (y % (2 * 16)) = (y % 16) + ((y \div 16) % 2) * 16
               /\ (y % (2 * 32)) = (y % 32) + ((y \div 32) % 2) * 32
               /\ (y % (2 * 64)) = (y % 64) + ((y \div 64) % 2) * 64
               /\ (y % (2 * 128)) = (y % 128) + ((y \div 128) % 2) * 128
        OBVIOUS
  <2>3. \A y \in Nat : y \div p \in Nat /\ (y \div p) % 2 \in {0, 1}
        OBVIOUS
  <2>4. ASSUME NEW y \in Nat PROVE (y % (2 * p)) = (y % p) + ((y \div p) % 2) * p
    <3>1. CASE p = 1
          BY <2>1, <3>1
    <3>2. CASE p = 2
          BY <2>1, <3>2
    <3>3. CASE p = 4
          BY <2>1, <3>3
    <3>4. CASE p = 8
          BY <2>1, <3>4
    <3>5. CASE p = 16
          BY <2>2, <3>5
    <3>6. CASE p = 32
          BY <2>2, <3>6
    <3>7. CASE p = 64
          BY <2>2, <3>7
    <3>8. CASE p = 128
          BY <2>2, <3>8
    <3> QED
        BY <3>1, <3>2, <3>3, <3>4, <3>5, <3>6, <3>7, <3>8
  <2> QED
      BY <2>3, <2>4, Zenon
<1> DEFINE a == x \div p
           b == v \div p
           c == (a + b) % 2
           d == (a % 2)
           e == (b % 2)
<1>2. /\ a \in Nat /\ b \in Nat /\ d \in {0, 1} /\ e \in {0, 1}
      /\ (x % (2 * p)) = (x % p) + d * p /\ (v % (2 * p)) = (v % p) + e * p
  <2>1. /\ (x % (2 * p)) = (x % p) + ((x \div p) % 2) * p
        /\ x \div p \in Nat /\ (x \div p) % 2 \in {0, 1}
        BY <1>1, Zenon
  <2>2. /\ (v % (2 * p)) = (v % p) + ((v \div p) % 2) * p
        /\ v \div p \in Nat /\ (v \div p) % 2 \in {0, 1}
        BY <1>1, Zenon
  <2> QED
      BY <2>1, <2>2, Zenon
<1> HIDE DEF a, b
<1>3. c \in {0, 1} /\ c <= d + e
      BY <1>2
<1>4. (x % p) \in Nat /\ (v % p) \in Nat /\ p \in Nat
      OBVIOUS
<1> HIDE DEF c, d, e
<1>5. c * p \in Nat /\ d * p \in Nat /\ e * p \in Nat /\ c * p <= d * p + e * p
  <2>1. /\ c * p = IF c = 0 THEN 0 ELSE p
        /\ d * p = IF d = 0 THEN 0 ELSE p
        /\ e * p = IF e = 0 THEN 0 ELSE p
        BY <1>2, <1>3
  <2> QED
      BY <1>2, <1>3, <1>4, <2>1
<1> DEFINE xp == (x % p)
           vp == (v % p)
           xq == (x % (2 * p))
           vq == (v % (2 * p))
           cp == c * p
           dp == d * p
           ep == e * p
<1>6. /\ xp \in Nat /\ vp \in Nat /\ cp \in Nat /\ dp \in Nat /\ ep \in Nat /\ cp <= dp + ep
      /\ xq = xp + dp /\ vq = vp + ep /\ l <= xp + vp
      BY <1>2, <1>4, <1>5
<1> HIDE DEF xp, vp, xq, vq, cp, dp, ep
<1>7. l + cp \in Nat /\ l + cp <= xq + vq
      BY <1>6
<1> QED
    BY <1>7, Zenon DEF a, b, c, cp, xq, vq

\* An exclusive or with eight bits never exceeds the sum.
LEMMA XorBound ==
  ASSUME NEW x \in Nat, NEW v \in 0 .. 255
  PROVE  Branch!Xor(x, v) \in Nat /\ Branch!Xor(x, v) <= x + v
<1> DEFINE b(p) == ((x \div p + v \div p) % 2) * p
           l1 == 0 + b(1)
           l2 == l1 + b(2)
           l3 == l2 + b(4)
           l4 == l3 + b(8)
           l5 == l4 + b(16)
           l6 == l5 + b(32)
           l7 == l6 + b(64)
           l8 == l7 + b(128)
           Low == [k \in 0 .. 8 |->
                     IF k = 0 THEN 0 ELSE IF k = 1 THEN l1 ELSE IF k = 2 THEN l2
                     ELSE IF k = 3 THEN l3 ELSE IF k = 4 THEN l4 ELSE IF k = 5 THEN l5
                     ELSE IF k = 6 THEN l6 ELSE IF k = 7 THEN l7 ELSE l8]
<1> DEFINE w(k) == 2 ^ k
           IsLow(f) == f = [k \in 0 .. 8 |->
                              IF k = 0 THEN 0
                              ELSE f[k - 1] + ((x \div w(k - 1) + v \div w(k - 1)) % 2) * w(k - 1)]
           low == CHOOSE f : IsLow(f)
<1>1. Branch!Xor(x, v) = (x \div 256) * 256 + low[8]
      BY Zenon DEF Branch!Xor
<1>2. IsLow(Low)
  <2>1. ASSUME NEW k \in 0 .. 8
        PROVE  Low[k] = IF k = 0 THEN 0
                        ELSE Low[k - 1] + ((x \div w(k - 1) + v \div w(k - 1)) % 2) * w(k - 1)
    <3>1. /\ w(0) = 1 /\ w(1) = 2 /\ w(2) = 4 /\ w(3) = 8
          /\ w(4) = 16 /\ w(5) = 32 /\ w(6) = 64 /\ w(7) = 128
          OBVIOUS
    <3>2. /\ Low[0] = 0 /\ Low[1] = l1 /\ Low[2] = l2 /\ Low[3] = l3 /\ Low[4] = l4
          /\ Low[5] = l5 /\ Low[6] = l6 /\ Low[7] = l7 /\ Low[8] = l8
          OBVIOUS
    <3>3. k \in {0, 1, 2, 3, 4, 5, 6, 7, 8}
          OBVIOUS
    <3>4. /\ 1 - 1 = 0 /\ 2 - 1 = 1 /\ 3 - 1 = 2 /\ 4 - 1 = 3
          /\ 5 - 1 = 4 /\ 6 - 1 = 5 /\ 7 - 1 = 6 /\ 8 - 1 = 7
          OBVIOUS
    <3> HIDE DEF Low, w, l1, l2, l3, l4, l5, l6, l7, l8
    <3>5. CASE k = 0
          BY <3>2, <3>5
    <3>6. CASE k = 1
      <4>1. l1 = Low[k - 1] + ((x \div w(k - 1) + v \div w(k - 1)) % 2) * w(k - 1)
            BY <3>1, <3>2, <3>4, <3>6, Zenon DEF l1
      <4> QED
          BY <3>2, <3>6, <4>1
    <3>7. CASE k = 2
      <4>1. l2 = Low[k - 1] + ((x \div w(k - 1) + v \div w(k - 1)) % 2) * w(k - 1)
            BY <3>1, <3>2, <3>4, <3>7, Zenon DEF l2
      <4> QED
          BY <3>2, <3>7, <4>1
    <3>8. CASE k = 3
      <4>1. l3 = Low[k - 1] + ((x \div w(k - 1) + v \div w(k - 1)) % 2) * w(k - 1)
            BY <3>1, <3>2, <3>4, <3>8, Zenon DEF l3
      <4> QED
          BY <3>2, <3>8, <4>1
    <3>9. CASE k = 4
      <4>1. l4 = Low[k - 1] + ((x \div w(k - 1) + v \div w(k - 1)) % 2) * w(k - 1)
            BY <3>1, <3>2, <3>4, <3>9, Zenon DEF l4
      <4> QED
          BY <3>2, <3>9, <4>1
    <3>10. CASE k = 5
      <4>1. l5 = Low[k - 1] + ((x \div w(k - 1) + v \div w(k - 1)) % 2) * w(k - 1)
            BY <3>1, <3>2, <3>4, <3>10, Zenon DEF l5
      <4> QED
          BY <3>2, <3>10, <4>1
    <3>11. CASE k = 6
      <4>1. l6 = Low[k - 1] + ((x \div w(k - 1) + v \div w(k - 1)) % 2) * w(k - 1)
            BY <3>1, <3>2, <3>4, <3>11, Zenon DEF l6
      <4> QED
          BY <3>2, <3>11, <4>1
    <3>12. CASE k = 7
      <4>1. l7 = Low[k - 1] + ((x \div w(k - 1) + v \div w(k - 1)) % 2) * w(k - 1)
            BY <3>1, <3>2, <3>4, <3>12, Zenon DEF l7
      <4> QED
          BY <3>2, <3>12, <4>1
    <3>13. CASE k = 8
      <4>1. l8 = Low[k - 1] + ((x \div w(k - 1) + v \div w(k - 1)) % 2) * w(k - 1)
            BY <3>1, <3>2, <3>4, <3>13, Zenon DEF l8
      <4> QED
          BY <3>2, <3>13, <4>1
    <3> QED
        BY <3>3, <3>5, <3>6, <3>7, <3>8, <3>9, <3>10, <3>11, <3>12, <3>13, Zenon
  <2> QED
      BY <2>1
<1> HIDE DEF Low, l1, l2, l3, l4, l5, l6, l7, l8
<1>3. IsLow(low)
      BY <1>2
<1> HIDE DEF low
<1>4. /\ low[0] = 0 /\ low[1] = low[0] + b(1) /\ low[2] = low[1] + b(2) /\ low[3] = low[2] + b(4)
      /\ low[4] = low[3] + b(8) /\ low[5] = low[4] + b(16) /\ low[6] = low[5] + b(32)
      /\ low[7] = low[6] + b(64) /\ low[8] = low[7] + b(128)
      BY <1>3
<1>5. v \in Nat /\ (x % 1) = 0 /\ (v % 1) = 0 /\ (v % 256) = v
      OBVIOUS
<1>6. \A p \in {1, 2, 4, 8, 16, 32, 64, 128} : \A l \in Nat :
        l <= (x % p) + (v % p) => l + b(p) \in Nat /\ l + b(p) <= (x % (2 * p)) + (v % (2 * p))
      BY <1>5, BitStep, Zenon
<1> HIDE DEF b
<1>7. low[1] \in Nat /\ low[1] <= (x % 2) + (v % 2)
      BY <1>4, <1>5, <1>6
<1>8. low[2] \in Nat /\ low[2] <= (x % 4) + (v % 4)
      BY <1>4, <1>6, <1>7
<1>9. low[3] \in Nat /\ low[3] <= (x % 8) + (v % 8)
      BY <1>4, <1>6, <1>8
<1>10. low[4] \in Nat /\ low[4] <= (x % 16) + (v % 16)
       BY <1>4, <1>6, <1>9
<1>11. low[5] \in Nat /\ low[5] <= (x % 32) + (v % 32)
       BY <1>4, <1>6, <1>10
<1>12. low[6] \in Nat /\ low[6] <= (x % 64) + (v % 64)
       BY <1>4, <1>6, <1>11
<1>13. low[7] \in Nat /\ low[7] <= (x % 128) + (v % 128)
       BY <1>4, <1>6, <1>12
<1>14. low[8] \in Nat /\ low[8] <= (x % 256) + (v % 256)
       BY <1>4, <1>6, <1>13
<1> QED
    BY <1>1, <1>5, <1>14

-----------------------------------------------------------------------------
\* How many of the first m elements of d are on the hot path.
\* An element of the hot path, by any of the four copies of the threshold.
Hot(v) == v >= 128

LEMMA CopiesAgree ==
  ASSUME loop \in Branch!Loops, NEW v
  PROVE  Branch!Above(v) = Hot(v) /\ Branch!AboveMask(v) = Hot(v)
BY DEF Branch!Loops, Branch!Above, Branch!AboveUnsorted, Branch!AboveSorted, Branch!AboveBranchy,
       Branch!AboveMask, Hot

HotOnes(d, m) == {k \in 0 .. m - 1 : Hot(d[k])}
Highs(d, m)   == Cardinality(HotOnes(d, m))

LEMMA BranchAssumed ==
  /\ N \in Nat \ {0} /\ ITERATIONS \in Nat \ {0} /\ Values \subseteq 0 .. 255
  /\ Branch!Elements = 0 .. N - 1
BY SuiteAssumption DEF Branch!BranchAssumption, Branch!Elements

LEMMA BranchCount == ASSUME NEW S PROVE Branch!Cardinality(S) = Cardinality(S)
BY DEF Branch!Cardinality, Cardinality

LEMMA HighsType ==
  ASSUME NEW d, NEW m \in Nat
  PROVE  IsFiniteSet(HotOnes(d, m)) /\ Highs(d, m) \in Nat
<1>1. IsFiniteSet(0 .. m - 1)
      BY FS_Interval
<1>2. HotOnes(d, m) \subseteq 0 .. m - 1
      BY DEF HotOnes
<1>3. IsFiniteSet(HotOnes(d, m))
      BY <1>1, <1>2, FS_Subset, Zenon
<1> QED
    BY <1>3, FS_CardinalityType DEF Highs

LEMMA NoHighs == ASSUME NEW d PROVE Highs(d, 0) = 0
<1>1. HotOnes(d, 0) = {}
      BY DEF HotOnes
<1> QED
    BY <1>1, FS_EmptySet DEF Highs

LEMMA OneMoreHigh ==
  ASSUME NEW d, NEW m \in Nat
  PROVE  Highs(d, m + 1) = IF Hot(d[m]) THEN Highs(d, m) + 1 ELSE Highs(d, m)
<1>1. HotOnes(d, m + 1) = IF Hot(d[m]) THEN HotOnes(d, m) \cup {m} ELSE HotOnes(d, m)
  <2>1. 0 .. (m + 1) - 1 = (0 .. m - 1) \cup {m}
        OBVIOUS
  <2> QED
      BY <2>1 DEF HotOnes
<1>2. m \notin HotOnes(d, m)
      BY DEF HotOnes
<1>3. IsFiniteSet(HotOnes(d, m))
      BY HighsType
<1>4. Cardinality(HotOnes(d, m) \cup {m}) = Cardinality(HotOnes(d, m)) + 1
  <2>1. Cardinality(HotOnes(d, m) \cup {m})
          = IF m \in HotOnes(d, m) THEN Cardinality(HotOnes(d, m))
                                   ELSE Cardinality(HotOnes(d, m)) + 1
        BY <1>3, FS_AddElement, Zenon
  <2> QED
      BY <1>2, <2>1
<1> QED
    BY <1>1, <1>4 DEF Highs

\* Arrays that hold each value as often have as many elements on the hot path.
LEMMA NoFewerHighs ==
  ASSUME NEW s \in [Branch!Elements -> Values], NEW d \in [Branch!Elements -> Values],
         \A v \in Values : Cardinality({k \in Branch!Elements : s[k] = v})
                             = Cardinality({k \in Branch!Elements : d[k] = v})
  PROVE  Highs(s, N) <= Highs(d, N)
<1> DEFINE of(f, v) == {k \in Branch!Elements : f[k] = v}
           move(v) == CHOOSE f : f \in Bijection(of(s, v), of(d, v))
           A == HotOnes(s, N)
           B == HotOnes(d, N)
           M == [k \in A |-> move(s[k])[k]]
<1>0. IsFiniteSet(Branch!Elements)
      BY BranchAssumed, FS_Interval
<1>1. /\ A = {k \in Branch!Elements : Hot(s[k])}
      /\ B = {k \in Branch!Elements : Hot(d[k])}
      BY BranchAssumed DEF HotOnes
<1>2. ASSUME NEW v \in Values PROVE move(v) \in Bijection(of(s, v), of(d, v))
  <2>1. /\ IsFiniteSet(of(s, v)) /\ IsFiniteSet(of(d, v))
        /\ Cardinality(of(s, v)) = Cardinality(of(d, v))
        BY <1>0, FS_Subset
  <2>2. ExistsBijection(of(s, v), of(d, v))
        BY <2>1, FS_SameCardinalityBij, Zenon
  <2> QED
      BY <2>2 DEF ExistsBijection
<1> HIDE DEF move, A, B
<1>3. ASSUME NEW k \in A
      PROVE  /\ s[k] \in Values /\ M[k] = move(s[k])[k] /\ k \in of(s, s[k])
             /\ M[k] \in B /\ d[M[k]] = s[k]
  <2>1. k \in Branch!Elements /\ Hot(s[k]) /\ s[k] \in Values
        BY <1>1
  <2>2. move(s[k]) \in [of(s, s[k]) -> of(d, s[k])] /\ k \in of(s, s[k])
        BY <1>2, <2>1 DEF Bijection, Injection
  <2>3. M[k] = move(s[k])[k]
        OBVIOUS
  <2>4. M[k] \in of(d, s[k])
        BY <2>2, <2>3
  <2> QED
      BY <1>1, <2>1, <2>2, <2>3, <2>4
<1>4. M \in [A -> B]
      BY <1>3
<1>5. ASSUME NEW k \in A, NEW l \in A, M[k] = M[l] PROVE k = l
  <2>1. s[k] = s[l] /\ k \in of(s, s[k]) /\ l \in of(s, s[k]) /\ s[k] \in Values
        BY <1>3, <1>5
  <2>2. move(s[k])[k] = move(s[k])[l]
        BY <1>3, <1>5, <2>1
  <2>3. IsInjective(move(s[k])) /\ DOMAIN move(s[k]) = of(s, s[k])
        BY <1>2, <2>1 DEF Bijection, Injection
  <2> HIDE DEF of
  <2> QED
      BY <2>1, <2>2, <2>3 DEF IsInjective
<1>6. IsFiniteSet(A) /\ IsFiniteSet(B)
      BY BranchAssumed, HighsType DEF A, B
<1> HIDE DEF M
<1>7. M \in Injection(A, B)
  <2>1. DOMAIN M = A
        BY <1>4
  <2> QED
      BY <1>4, <1>5, <2>1 DEF Injection, IsInjective
<1>8. Cardinality(A) <= Cardinality(B)
      BY <1>6, <1>7, FS_Injection
<1> QED
    BY <1>8 DEF Highs, A, B

LEMMA SameHighs ==
  ASSUME NEW s \in [Branch!Elements -> Values], NEW d \in [Branch!Elements -> Values],
         \A v \in Values : Branch!Cardinality({k \in Branch!Elements : s[k] = v})
                             = Branch!Cardinality({k \in Branch!Elements : d[k] = v})
  PROVE  Highs(s, N) = Highs(d, N)
<1>1. \A v \in Values : Cardinality({k \in Branch!Elements : s[k] = v})
                          = Cardinality({k \in Branch!Elements : d[k] = v})
      BY BranchCount
<1>2. Highs(s, N) <= Highs(d, N) /\ Highs(d, N) <= Highs(s, N)
      BY <1>1, NoFewerHighs
<1>3. Highs(s, N) \in Nat /\ Highs(d, N) \in Nat
      BY BranchAssumed, HighsType
<1> QED
    BY <1>2, <1>3

-----------------------------------------------------------------------------
\* What the branchless kernel adds for a value, and its sums over the elements.
Cost(v) == IF Hot(v) THEN v * 3 + 1 ELSE v

Totals(P, d) ==
  P \in [0 .. N -> Nat] /\ P[0] = 0 /\ \A k \in 0 .. N - 1 : P[k + 1] = P[k] + Cost(d[k])

\* A sum with n elements behind it: at most the total, and the total if all were hot.
UpTo(s, h, total, n) == s <= total /\ (h = n => s = total)

\* The loops whose clock has been stopped.
Before   == [unsorted |-> {}, sorted |-> {"unsorted"}, branchy |-> {"unsorted", "sorted"},
             branchless |-> {"unsorted", "sorted", "branchy"}]
Measured == Before[loop] \cup (IF pc \in {"sort", "redraw", "mask", "returned"} THEN {loop} ELSE {})

Seen == iter * N + i

BranchShape ==
  /\ pc \in {"begin", "pass", "sort", "redraw", "mask", "returned", "over"}
  /\ loop \in Branch!Loops /\ i \in 0 .. N /\ iter \in 0 .. ITERATIONS - 1
  /\ pc \in {"begin", "over", "sort"} => loop = "unsorted"
  /\ pc = "redraw" => loop = "sorted"
  /\ pc = "mask" => loop = "branchy"
  /\ pc = "returned" => loop = "branchless"
  /\ pc # "pass" => i = 0 /\ iter = 0
  /\ i = 0 /\ iter = 0 => sum = 0 /\ hot = 0 /\ switches = 0 /\ taken = Null
  /\ IF pc \in {"begin", "over"} THEN data = <<>> /\ drawn = <<>>
     ELSE data \in [Branch!Elements -> Values] /\ drawn \in [Branch!Elements -> Values]
  /\ sum \in Nat /\ hot \in Nat /\ switches \in Nat /\ taken \in BOOLEAN \cup {Null}
  /\ DOMAIN results = Branch!Loops

\* The hot path is taken for the high values, which every array holds as often.
HotCounts ==
  /\ Highs(data, N) = Highs(drawn, N)
  /\ pc = "pass" => hot = iter * Highs(data, N) + Highs(data, i) /\ hot <= Seen
  /\ \A l \in Measured : results[l].hot = ITERATIONS * Highs(drawn, N)

\* Of the elements seen each but the first may have been a switch; in ascending
\* data there is one upwards in a pass, and one back at its beginning.
SwitchCounts ==
  /\ pc = "pass" /\ Seen > 0 => switches < Seen
  /\ pc = "pass" /\ loop = "sorted" =>
       /\ \A k \in 1 .. N - 1 : data[k - 1] <= data[k]
       /\ i > 0 => taken = Hot(data[i - 1])
       /\ i > 0 => switches <= IF taken THEN 2 * iter + 1 ELSE 2 * iter
       /\ i = 0 /\ iter > 0 => switches <= 2 * iter - 1
  /\ IF "sorted" \in Measured THEN results["sorted"].switches <= 2 * ITERATIONS - 1
     ELSE results["sorted"] = Null

\* The kernels of the second test add the same elements.
SumCounts ==
  /\ loop \in {"branchy", "branchless"} => data = drawn
  /\ "branchy" \in Measured => results["branchy"].sum \in Nat
  /\ \A P : Totals(P, drawn) =>
       /\ pc = "pass" /\ loop = "branchy" => UpTo(sum, hot, iter * P[N] + P[i], Seen)
       /\ pc = "pass" /\ loop = "branchless" => sum = iter * P[N] + P[i]
       /\ "branchy" \in Measured =>
            UpTo(results["branchy"].sum, results["branchy"].hot, ITERATIONS * P[N], N * ITERATIONS)
       /\ "branchless" \in Measured => results["branchless"].sum = ITERATIONS * P[N]

BranchInv == BranchShape /\ HotCounts /\ SwitchCounts /\ SumCounts

-----------------------------------------------------------------------------
LEMMA Times ==
  ASSUME NEW a \in Nat, NEW m \in Nat
  PROVE  a * m \in Nat /\ (a + 1) * m = a * m + m /\ 0 * m = 0 /\ a * m = m * a
OBVIOUS

\* Before anything is seen the counts are what they should be.
LEMMA NothingSeen ==
  ASSUME i = 0, iter = 0
  PROVE  /\ Seen = 0 /\ iter * Highs(data, N) + Highs(data, i) = 0
         /\ \A P : Totals(P, drawn) => iter * P[N] + P[i] = 0
<1>1. Highs(data, N) \in Nat /\ Highs(data, 0) = 0 /\ N \in Nat
      BY BranchAssumed, HighsType, NoHighs
<1>2. iter * Highs(data, N) = 0 /\ iter * N = 0
      BY <1>1
<1>3. ASSUME NEW P, Totals(P, drawn) PROVE iter * P[N] + P[i] = 0
  <2>1. P[N] \in Nat /\ P[0] = 0
        BY <1>1, <1>3 DEF Totals
  <2> QED
      BY <2>1
<1> QED
    BY <1>1, <1>2, <1>3 DEF Seen

LEMMA BranchStarts == Branch!Init => BranchInv
<1> SUFFICES ASSUME Branch!Init PROVE BranchInv
    OBVIOUS
<1>1. Measured = {} /\ pc = "begin" /\ loop = "unsorted" /\ results["sorted"] = Null
      BY DEF Branch!Init, Measured, Before, Branch!NoResults, Branch!Loops
<1>2. BranchShape
      BY BranchAssumed DEF Branch!Init, BranchShape, Branch!Loops, Branch!NoResults
<1>3. HotCounts
      BY <1>1 DEF Branch!Init, HotCounts
<1>4. SwitchCounts /\ SumCounts
      BY <1>1 DEF SwitchCounts, SumCounts
<1> QED
    BY <1>2, <1>3, <1>4 DEF BranchInv

\* A loop begins: nothing has been seen, and the results are of the same loops.
LEMMA LoopBegins ==
  ASSUME BranchInv, pc' = "pass", UNCHANGED <<i, iter, sum, hot, taken, switches, results>>,
         pc \in {"begin", "sort", "redraw", "mask"},
         loop' = [begin |-> "unsorted", sort |-> "sorted", redraw |-> "branchy",
                  mask |-> "branchless"][pc],
         pc # "begin" => drawn' = drawn,
         drawn' \in [Branch!Elements -> Values], data' \in [Branch!Elements -> Values],
         Highs(data', N) = Highs(drawn', N),
         pc = "sort" => \A k \in 1 .. N - 1 : data'[k - 1] <= data'[k],
         pc \in {"redraw", "mask"} => data' = drawn'
  PROVE  BranchInv'
<1>1. /\ loop' \in Branch!Loops /\ Measured' = Measured /\ i = 0 /\ iter = 0
      /\ loop' = "unsorted" <=> pc = "begin"
      /\ loop' = "sorted" <=> pc = "sort"
      /\ loop' = "branchy" <=> pc = "redraw"
      /\ loop' = "branchless" <=> pc = "mask"
      BY DEF BranchInv, BranchShape, Measured, Before, Branch!Loops
<1>2. sum = 0 /\ hot = 0 /\ switches = 0 /\ taken = Null
      BY <1>1 DEF BranchInv, BranchShape
<1>3. (i = 0 /\ iter = 0 =>
         /\ Seen = 0 /\ iter * Highs(data, N) + Highs(data, i) = 0
         /\ \A P : Totals(P, drawn) => iter * P[N] + P[i] = 0)'
      BY NothingSeen, PTL
<1>4. /\ Seen' = 0 /\ iter' * Highs(data', N) + Highs(data', i') = 0
      /\ \A P : Totals(P, drawn') => iter' * P[N] + P[i'] = 0
      BY <1>1, <1>3
<1>5. BranchShape'
      BY <1>1, <1>2 DEF BranchInv, BranchShape
<1>6. pc = "begin" => Measured' = {}
      BY <1>1 DEF BranchInv, BranchShape, Measured, Before
<1>7. HotCounts'
  <2>1. \A l \in Measured' : results'[l].hot = ITERATIONS * Highs(drawn', N)
        BY <1>1, <1>6 DEF BranchInv, HotCounts
  <2> QED
      BY <1>2, <1>4, <2>1 DEF HotCounts
<1>8. SwitchCounts'
      BY <1>1, <1>2, <1>4 DEF BranchInv, SwitchCounts
<1>9. SumCounts'
  <2>1. ASSUME NEW P, Totals(P, drawn')
        PROVE  /\ "branchy" \in Measured' =>
                    UpTo(results'["branchy"].sum, results'["branchy"].hot, ITERATIONS * P[N],
                         N * ITERATIONS)
               /\ "branchless" \in Measured' => results'["branchless"].sum = ITERATIONS * P[N]
        BY <1>1, <1>6, <2>1 DEF BranchInv, SumCounts
  <2>2. UpTo(0, 0, 0, 0)
        BY DEF UpTo
  <2> QED
      BY <1>1, <1>2, <1>4, <1>6, <2>1, <2>2 DEF BranchInv, SumCounts
<1> QED
    BY <1>5, <1>7, <1>8, <1>9 DEF BranchInv

LEMMA CostIsNatural == ASSUME NEW v \in Values PROVE Cost(v) \in Nat
BY BranchAssumed DEF Cost

\* The value of an element, and what the kernels make of it.
LEMMA KernelBound ==
  ASSUME loop \in Branch!Loops, NEW v \in Values, NEW s \in Nat
  PROVE  /\ v \in Nat /\ Cost(v) \in Nat /\ Branch!Branchless(v, s) = s + Cost(v)
         /\ Branch!Branchy(v, s) \in Nat /\ Branch!Branchy(v, s) <= s + Cost(v)
         /\ Hot(v) => Branch!Branchy(v, s) = s + Cost(v)
         /\ Hot(v) \in BOOLEAN
<1>1. v \in 0 .. 255
      BY BranchAssumed
<1>2. Branch!Xor(s, v) \in Nat /\ Branch!Xor(s, v) <= s + v
      BY <1>1, XorBound
<1>5. Branch!Above(v) = Hot(v) /\ Branch!AboveMask(v) = Hot(v)
      BY CopiesAgree
<1>6. Branch!Branchless(v, s) = s + Cost(v)
      BY DEF Cost, Branch!Branchless, Branch!AboveMask, Hot
<1>3. CASE Hot(v)
  <2>1. Branch!Branchy(v, s) = s + v * 3 + 1
        BY <1>3, <1>5, Zenon DEF Branch!Branchy, Branch!hot_path
  <2> QED
      BY <1>1, <1>3, <1>6, <2>1 DEF Cost
<1>4. CASE ~ Hot(v)
  <2>1. Branch!Branchy(v, s) = Branch!Xor(s, v)
        BY <1>4, <1>5, Zenon DEF Branch!Branchy, Branch!cold_path
  <2> QED
      BY <1>1, <1>2, <1>4, <1>6, <2>1 DEF Cost, Hot
<1> QED
    BY <1>3, <1>4 DEF Hot

LEMMA ElementStep == BranchInv /\ Branch!Element => BranchInv'
<1> SUFFICES ASSUME BranchInv, Branch!Element PROVE BranchInv'
    OBVIOUS
<1> DEFINE v == data[i]
           up == Hot(v)
<1>0. Branch!Above(v) = up
      BY CopiesAgree DEF BranchInv, BranchShape
<1>1. /\ pc = "pass" /\ i < N /\ i' = i + 1
      /\ UNCHANGED <<pc, iter, loop, drawn, data, results>>
      /\ sum' = IF loop = "branchless" THEN Branch!Branchless(v, sum) ELSE Branch!Branchy(v, sum)
      /\ hot' = IF up THEN hot + 1 ELSE hot
      /\ switches' = IF taken \in {Null, up} THEN switches ELSE switches + 1
      /\ taken' = up
      BY <1>0 DEF Branch!Element
<1>2. /\ i \in 0 .. N - 1 /\ iter \in 0 .. ITERATIONS - 1 /\ N \in Nat \ {0}
      /\ data \in [Branch!Elements -> Values] /\ Branch!Elements = 0 .. N - 1
      /\ sum \in Nat /\ hot \in Nat /\ switches \in Nat /\ i' \in 1 .. N /\ iter \in Nat
      /\ loop \in Branch!Loops
      BY <1>1, BranchAssumed DEF BranchInv, BranchShape
<1>3. v \in Values /\ up \in BOOLEAN
      BY <1>2, KernelBound
<1>10. /\ Cost(v) \in Nat /\ Branch!Branchless(v, sum) = sum + Cost(v)
       /\ Branch!Branchy(v, sum) \in Nat /\ Branch!Branchy(v, sum) <= sum + Cost(v)
       /\ up => Branch!Branchy(v, sum) = sum + Cost(v)
       BY <1>2, <1>3, KernelBound, Zenon
<1>4. Measured' = Measured /\ Seen \in Nat /\ Seen' = Seen + 1
  <2>1. iter * N \in Nat
        BY <1>2
  <2> QED
      BY <1>1, <1>2, <2>1 DEF Measured, Seen
<1>5. /\ sum' \in Nat /\ hot' \in Nat /\ switches' \in Nat /\ taken' \in BOOLEAN
  <2>1. sum' \in Nat
        BY <1>1, <1>2, <1>10
  <2>2. taken' \in BOOLEAN
        BY <1>1, <1>3, Zenon
  <2> QED
      BY <1>1, <1>2, <2>1, <2>2
<1> HIDE DEF up, v
<1>6. BranchShape'
      BY <1>1, <1>2, <1>5 DEF BranchInv, BranchShape
<1>7. HotCounts'
  <2> DEFINE done == iter * Highs(data, N)
  <2>1. done \in Nat /\ Highs(data, i) \in Nat
        BY <1>2, HighsType
  <2>2. Highs(data, i + 1) = IF up THEN Highs(data, i) + 1 ELSE Highs(data, i)
    <3>1. i \in Nat
          BY <1>2
    <3> QED
        BY <3>1, OneMoreHigh, Zenon DEF up, v
  <2>3. hot = done + Highs(data, i) /\ hot <= Seen
        BY <1>1 DEF BranchInv, HotCounts
  <2> HIDE DEF done
  <2>4. hot' = done + Highs(data, i + 1) /\ hot' <= Seen'
        BY <1>1, <1>2, <1>4, <2>1, <2>2, <2>3
  <2> QED
      BY <1>1, <1>4, <2>4 DEF BranchInv, HotCounts, done
<1>8. SwitchCounts'
  <2>1. switches' < Seen'
    <3>1. CASE Seen = 0
      <4>1. i = 0 /\ iter = 0
        <5>1. iter * N = IF iter = 0 THEN 0 ELSE (iter - 1) * N + N
              BY <1>2
        <5>2. iter = 0 \/ (iter - 1) * N \in Nat
              BY <1>2
        <5> QED
            BY <1>2, <3>1, <5>1, <5>2 DEF Seen
      <4>2. taken = Null /\ switches = 0
            BY <4>1 DEF BranchInv, BranchShape
      <4> QED
          BY <1>1, <1>4, <3>1, <4>2
    <3>2. CASE Seen > 0
      <4>1. switches < Seen
            BY <1>1, <3>2 DEF BranchInv, SwitchCounts
      <4> QED
          BY <1>1, <1>2, <1>4, <4>1
    <3> QED
        BY <1>4, <3>1, <3>2
  <2>2. ASSUME loop = "sorted"
        PROVE  switches' <= IF up THEN 2 * iter + 1 ELSE 2 * iter
    <3>1. /\ \A k \in 1 .. N - 1 : data[k - 1] <= data[k]
          /\ i > 0 => taken = Hot(data[i - 1])
          /\ i > 0 => switches <= IF taken THEN 2 * iter + 1 ELSE 2 * iter
          /\ i = 0 /\ iter > 0 => switches <= 2 * iter - 1
          BY <1>1, <2>2 DEF BranchInv, SwitchCounts
    <3>2. CASE i = 0 /\ iter = 0
          BY <1>1, <1>2, <3>2 DEF BranchInv, BranchShape
    <3>3. CASE i = 0 /\ iter > 0
          BY <1>1, <1>2, <3>1, <3>3
    <3>4. CASE i > 0
      <4>1. i \in 1 .. N - 1 /\ i - 1 \in 0 .. N - 1
            BY <1>2, <3>4
      <4>2. data[i - 1] <= data[i] /\ data[i - 1] \in Nat /\ data[i] \in Nat
            BY <1>2, <3>1, <4>1, KernelBound
      <4>3. taken => up
        <5>1. Hot(data[i - 1]) => Hot(data[i])
              BY <4>2 DEF Hot
        <5> QED
            BY <3>1, <3>4, <5>1, Zenon DEF up, v
      <4>4. taken \in BOOLEAN
            BY <3>1, <3>4 DEF Hot
      <4>5. CASE taken
            BY <1>1, <1>2, <3>1, <3>4, <4>3, <4>5
      <4>6. CASE ~ taken
            BY <1>1, <1>2, <1>3, <3>1, <3>4, <4>4, <4>6
      <4> QED
          BY <4>5, <4>6
    <3> QED
        BY <1>2, <3>2, <3>3, <3>4
  <2>3. i' > 0 /\ i' - 1 = i
        BY <1>1, <1>2
  <2> QED
      BY <1>1, <1>4, <2>1, <2>2, <2>3 DEF BranchInv, SwitchCounts, up, v
<1>9. SumCounts'
  <2>1. ASSUME NEW P, Totals(P, drawn), loop \in {"branchy", "branchless"}
        PROVE  /\ loop = "branchy" => UpTo(sum', hot', iter * P[N] + P[i + 1], Seen')
               /\ loop = "branchless" => sum' = iter * P[N] + P[i + 1]
    <3> DEFINE done == iter * P[N]
               c == Cost(v)
    <3>1. data = drawn
          BY <2>1 DEF BranchInv, SumCounts
    <3>2. P[N] \in Nat /\ P[i] \in Nat /\ P[i + 1] = P[i] + c
          BY <1>2, <2>1, <3>1 DEF Totals, v
    <3>3. done \in Nat /\ c \in Nat
          BY <1>2, <1>10, <3>2
    <3>4. /\ loop = "branchy" => UpTo(sum, hot, done + P[i], Seen)
          /\ loop = "branchless" => sum = done + P[i]
          BY <1>1, <2>1 DEF BranchInv, SumCounts
    <3>5. /\ loop = "branchless" => sum' = sum + c
          /\ loop = "branchy" => sum' \in Nat /\ sum' <= sum + c /\ (up => sum' = sum + c)
          BY <1>1, <1>2, <1>10
    <3>6. hot <= Seen
          BY <1>1 DEF BranchInv, HotCounts
    <3> HIDE DEF done, c
    <3>7. ASSUME loop = "branchy" PROVE UpTo(sum', hot', done + P[i + 1], Seen')
      <4>1. sum <= done + P[i] /\ (hot = Seen => sum = done + P[i])
            BY <3>4, <3>7 DEF UpTo
      <4>2. sum' \in Nat /\ sum' <= sum + c
            BY <3>5, <3>7
      <4>3. sum' <= done + P[i + 1]
            BY <1>2, <3>2, <3>3, <4>1, <4>2
      <4>4. CASE up
        <5>1. hot' = hot + 1 /\ sum' = sum + c
          <6>1. hot' = hot + 1
                BY <1>1, <4>4, Zenon
          <6>2. sum' = sum + c
                BY <3>5, <3>7, <4>4, Zenon
          <6> QED
              BY <6>1, <6>2
        <5>2. hot' = Seen' => sum' = done + P[i + 1]
          <6>1. SUFFICES ASSUME hot' = Seen' PROVE sum' = done + P[i + 1]
                OBVIOUS
          <6>2. hot = Seen
                BY <1>2, <1>4, <5>1, <6>1
          <6>3. sum = done + P[i]
                BY <4>1, <6>2
          <6>4. sum' = (done + P[i]) + c
                BY <5>1, <6>3
          <6> QED
              BY <3>2, <3>3, <6>4
        <5> QED
            BY <4>3, <5>2 DEF UpTo
      <4>5. CASE ~ up
        <5>1. hot' = hot
              BY <1>1, <4>5
        <5>2. hot' # Seen'
              BY <1>2, <1>4, <3>6, <5>1
        <5> QED
            BY <4>3, <5>2 DEF UpTo
      <4> QED
          BY <4>4, <4>5
    <3>8. loop = "branchless" => sum' = done + P[i + 1]
          BY <1>2, <3>2, <3>3, <3>4, <3>5
    <3> QED
        BY <3>7, <3>8 DEF done
  <2> QED
      BY <1>1, <1>4, <2>1 DEF BranchInv, SumCounts
<1> QED
    BY <1>6, <1>7, <1>8, <1>9 DEF BranchInv

LEMMA NextPassStep == BranchInv /\ Branch!NextPass => BranchInv'
<1> SUFFICES ASSUME BranchInv, Branch!NextPass PROVE BranchInv'
    OBVIOUS
<1>1. /\ pc = "pass" /\ i = N /\ iter + 1 < ITERATIONS /\ iter' = iter + 1 /\ i' = 0
      /\ UNCHANGED <<pc, loop, drawn, data, sum, hot, taken, switches, results>>
      BY DEF Branch!NextPass, Branch!locals
<1>2. /\ N \in Nat \ {0} /\ ITERATIONS \in Nat /\ iter \in Nat /\ iter' \in 0 .. ITERATIONS - 1
      /\ iter' # 0 /\ Measured' = Measured
      BY <1>1, BranchAssumed DEF BranchInv, BranchShape, Measured
<1>3. Seen' = Seen /\ Seen \in Nat
  <2>1. (iter + 1) * N = iter * N + N /\ iter * N \in Nat
        BY <1>2, Times
  <2> QED
      BY <1>1, <1>2, <2>1 DEF Seen
<1>4. BranchShape'
      BY <1>1, <1>2 DEF BranchInv, BranchShape
<1>5. HotCounts'
  <2> DEFINE h == Highs(data, N)
  <2>1. h \in Nat /\ Highs(data, 0) = 0
        BY <1>2, HighsType, NoHighs
  <2>2. hot = iter * h + h
        BY <1>1 DEF BranchInv, HotCounts
  <2>3. iter * h \in Nat /\ (iter + 1) * h = iter * h + h
        BY <1>2, <2>1, Times
  <2> HIDE DEF h
  <2>4. hot' = iter' * h + Highs(data, 0)
        BY <1>1, <1>2, <2>1, <2>2, <2>3
  <2> QED
      BY <1>1, <1>2, <1>3, <2>4 DEF BranchInv, HotCounts, h
<1>6. SwitchCounts'
  <2>1. loop = "sorted" => switches <= 2 * (iter + 1) - 1
        BY <1>1, <1>2 DEF BranchInv, SwitchCounts, BranchShape
  <2> QED
      BY <1>1, <1>2, <1>3, <2>1 DEF BranchInv, SwitchCounts
<1>7. SumCounts'
  <2>1. ASSUME NEW P, Totals(P, drawn) PROVE iter' * P[N] + P[0] = iter * P[N] + P[N]
    <3>1. P[N] \in Nat /\ P[0] = 0
          BY <1>2, <2>1 DEF Totals
    <3>2. iter * P[N] \in Nat /\ (iter + 1) * P[N] = iter * P[N] + P[N]
          BY <1>2, <3>1, Times
    <3> QED
        BY <1>1, <3>1, <3>2
  <2> QED
      BY <1>1, <1>2, <1>3, <2>1 DEF BranchInv, SumCounts
<1> QED
    BY <1>4, <1>5, <1>6, <1>7 DEF BranchInv

LEMMA StopClockStep == BranchInv /\ Branch!StopClock => BranchInv'
<1> SUFFICES ASSUME BranchInv, Branch!StopClock PROVE BranchInv'
    OBVIOUS
<1> DEFINE new == [sum |-> sum, hot |-> hot, switches |-> switches]
<1>1. /\ pc = "pass" /\ i = N /\ iter + 1 = ITERATIONS /\ iter' = 0 /\ i' = 0
      /\ sum' = 0 /\ hot' = 0 /\ switches' = 0 /\ taken' = Null
      /\ UNCHANGED <<loop, drawn, data>> /\ results' = [results EXCEPT ![loop] = new]
      /\ pc' = [unsorted |-> "sort", sorted |-> "redraw",
                 branchy |-> "mask", branchless |-> "returned"][loop]
      BY DEF Branch!StopClock
<1>2. /\ N \in Nat \ {0} /\ ITERATIONS \in Nat \ {0} /\ iter \in Nat /\ loop \in Branch!Loops
      /\ DOMAIN results = Branch!Loops /\ sum \in Nat
      BY <1>1, BranchAssumed DEF BranchInv, BranchShape
<1>3. /\ pc' \in {"sort", "redraw", "mask", "returned"}
      /\ pc' = "sort" <=> loop = "unsorted"
      /\ pc' = "redraw" <=> loop = "sorted"
      /\ pc' = "mask" <=> loop = "branchy"
      /\ pc' = "returned" <=> loop = "branchless"
      BY <1>1, <1>2 DEF Branch!Loops
<1>4. Measured' = Measured \cup {loop} /\ loop \notin Measured
      BY <1>1, <1>2, <1>3 DEF Measured, Before, Branch!Loops
<1>5. /\ results'[loop] = new /\ DOMAIN results' = Branch!Loops
      /\ \A l \in Branch!Loops : l # loop => results'[l] = results[l]
      BY <1>1, <1>2
<1>6. Measured \subseteq Branch!Loops
      BY <1>1, <1>2 DEF Measured, Before, Branch!Loops
<1>7. Seen = N * ITERATIONS
  <2>1. (iter + 1) * N = iter * N + N /\ iter * N \in Nat /\ ITERATIONS * N = N * ITERATIONS
        BY <1>2, Times
  <2> QED
      BY <1>1, <1>2, <2>1 DEF Seen
<1>8. BranchShape'
      BY <1>1, <1>2, <1>3, <1>5 DEF BranchInv, BranchShape, Branch!Loops
<1>9. HotCounts'
  <2> DEFINE h == Highs(data, N)
  <2>1. h = Highs(drawn, N) /\ h \in Nat
        BY <1>2, HighsType DEF BranchInv, HotCounts
  <2>2. hot = iter * h + h
        BY <1>1 DEF BranchInv, HotCounts
  <2>3. iter * h \in Nat /\ (iter + 1) * h = iter * h + h
        BY <1>2, <2>1, Times
  <2> HIDE DEF h
  <2>4. hot = ITERATIONS * h
        BY <1>1, <2>2, <2>3
  <2>5. \A l \in Measured' : results'[l].hot = ITERATIONS * Highs(drawn, N)
        BY <1>4, <1>5, <1>6, <2>1, <2>4 DEF BranchInv, HotCounts
  <2> QED
      BY <1>1, <1>3, <2>5 DEF BranchInv, HotCounts
<1>10. SwitchCounts'
  <2>1. ASSUME loop = "sorted" PROVE new.switches <= 2 * ITERATIONS - 1
    <3>1. switches <= IF taken THEN 2 * iter + 1 ELSE 2 * iter
          BY <1>1, <1>2, <2>1 DEF BranchInv, SwitchCounts
    <3>2. switches \in Nat
          BY DEF BranchInv, BranchShape
    <3> QED
        BY <1>1, <1>2, <3>1, <3>2
  <2>2. "sorted" \in Branch!Loops
        BY DEF Branch!Loops
  <2> QED
      BY <1>3, <1>4, <1>5, <2>1, <2>2 DEF BranchInv, SwitchCounts
<1>11. SumCounts'
  <2>1. "branchy" \in Branch!Loops /\ "branchless" \in Branch!Loops
        BY DEF Branch!Loops
  <2>2. "branchy" \in Measured' => results'["branchy"].sum \in Nat
        BY <1>2, <1>4, <1>5, <2>1 DEF BranchInv, SumCounts
  <2>3. ASSUME NEW P, Totals(P, drawn)
        PROVE  /\ "branchy" \in Measured' =>
                    UpTo(results'["branchy"].sum, results'["branchy"].hot, ITERATIONS * P[N],
                         N * ITERATIONS)
               /\ "branchless" \in Measured' => results'["branchless"].sum = ITERATIONS * P[N]
    <3>1. P[N] \in Nat
          BY <1>2, <2>3 DEF Totals
    <3>2. iter * P[N] \in Nat /\ (iter + 1) * P[N] = iter * P[N] + P[N]
          BY <1>2, <3>1, Times
    <3>3. iter * P[N] + P[i] = ITERATIONS * P[N]
          BY <1>1, <3>2
    <3>4. /\ loop = "branchy" => UpTo(sum, hot, ITERATIONS * P[N], N * ITERATIONS)
          /\ loop = "branchless" => sum = ITERATIONS * P[N]
          BY <1>1, <1>7, <2>3, <3>3 DEF BranchInv, SumCounts
    <3>5. /\ "branchy" \in Measured =>
               UpTo(results["branchy"].sum, results["branchy"].hot, ITERATIONS * P[N],
                    N * ITERATIONS)
          /\ "branchless" \in Measured => results["branchless"].sum = ITERATIONS * P[N]
          BY <2>3 DEF BranchInv, SumCounts
    <3> QED
        BY <1>4, <1>5, <2>1, <3>4, <3>5
  <2> QED
      BY <1>1, <1>3, <2>2, <2>3 DEF BranchInv, SumCounts
<1> QED
    BY <1>8, <1>9, <1>10, <1>11 DEF BranchInv

LEMMA BranchGoesOn == BranchInv /\ [Branch!Run]_Branch!vars => BranchInv'
<1> SUFFICES ASSUME BranchInv, [Branch!Run]_Branch!vars PROVE BranchInv'
    OBVIOUS
<1>1. CASE Branch!Begin
  <2>1. /\ pc = "begin" /\ pc' = "pass" /\ data' = drawn' /\ drawn' \in [Branch!Elements -> Values]
        /\ UNCHANGED <<i, iter, loop, sum, hot, taken, switches, results>>
        BY <1>1 DEF Branch!Begin
  <2>2. loop' = "unsorted"
        BY <2>1 DEF BranchInv, BranchShape
  <2> QED
      BY <2>1, <2>2, LoopBegins
<1>2. CASE Branch!Sort
  <2>1. /\ pc = "sort" /\ pc' = "pass" /\ loop' = "sorted"
        /\ UNCHANGED <<i, iter, drawn, sum, hot, taken, switches, results>>
        /\ data' \in [Branch!Elements -> Values]
        /\ \A k \in 1 .. N - 1 : data'[k - 1] <= data'[k]
        /\ \A v \in Values : Branch!Cardinality({k \in Branch!Elements : data'[k] = v})
                               = Branch!Cardinality({k \in Branch!Elements : data[k] = v})
        BY <1>2 DEF Branch!Sort, Branch!NextLoop
  <2>2. drawn \in [Branch!Elements -> Values] /\ data \in [Branch!Elements -> Values]
        BY <2>1 DEF BranchInv, BranchShape
  <2>3. Highs(data', N) = Highs(data, N)
        BY <2>1, <2>2, SameHighs
  <2>4. Highs(data', N) = Highs(drawn', N)
        BY <2>1, <2>3 DEF BranchInv, HotCounts
  <2> QED
      BY <2>1, <2>2, <2>4, LoopBegins
<1>3. CASE Branch!Redraw
  <2>1. /\ pc = "redraw" /\ pc' = "pass" /\ loop' = "branchy" /\ data' = drawn
        /\ UNCHANGED <<i, iter, drawn, sum, hot, taken, switches, results>>
        BY <1>3 DEF Branch!Redraw, Branch!NextLoop
  <2>2. drawn \in [Branch!Elements -> Values]
        BY <2>1 DEF BranchInv, BranchShape
  <2> QED
      BY <2>1, <2>2, LoopBegins
<1>4. CASE Branch!Mask
  <2>1. /\ pc = "mask" /\ pc' = "pass" /\ loop' = "branchless"
        /\ UNCHANGED <<i, iter, drawn, data, sum, hot, taken, switches, results>>
        BY <1>4 DEF Branch!Mask, Branch!NextLoop
  <2>2. drawn \in [Branch!Elements -> Values] /\ data = drawn
        BY <2>1 DEF BranchInv, BranchShape, SumCounts
  <2> QED
      BY <2>1, <2>2, LoopBegins
<1>5. CASE Branch!Return
  <2>1. /\ pc = "returned" /\ pc' = "over" /\ loop' = "unsorted" /\ drawn' = <<>> /\ data' = <<>>
        /\ results' = Branch!NoResults /\ UNCHANGED <<i, iter, sum, hot, taken, switches>>
        BY <1>5 DEF Branch!Return
  <2>2. i = 0 /\ iter = 0 /\ "unsorted" \in Branch!Loops /\ results'["sorted"] = Null
        BY <2>1 DEF BranchInv, BranchShape, Branch!Loops, Branch!NoResults
  <2>3. Measured' = {}
        BY <2>1 DEF Measured, Before
  <2>4. BranchShape'
        BY <2>1, <2>2 DEF BranchInv, BranchShape, Branch!NoResults
  <2>5. HotCounts' /\ SwitchCounts' /\ SumCounts'
        BY <2>1, <2>2, <2>3 DEF HotCounts, SwitchCounts, SumCounts
  <2> QED
      BY <2>4, <2>5 DEF BranchInv
<1>6. CASE UNCHANGED Branch!vars
  <2>1. UNCHANGED <<pc, i, iter, loop, drawn, data, sum, hot, taken, switches, results>>
        BY <1>6 DEF Branch!vars, Branch!locals
  <2>2. Measured' = Measured /\ Seen' = Seen
        BY <2>1 DEF Measured, Seen
  <2>3. BranchShape' /\ HotCounts' /\ SwitchCounts'
        BY <2>1, <2>2 DEF BranchInv, BranchShape, HotCounts, SwitchCounts
  <2>4. SumCounts'
        BY <2>1, <2>2 DEF BranchInv, SumCounts
  <2> QED
      BY <2>3, <2>4 DEF BranchInv
<1> QED
    BY <1>1, <1>2, <1>3, <1>4, <1>5, <1>6, ElementStep, NextPassStep, StopClockStep DEF Branch!Run

-----------------------------------------------------------------------------
\* The sums over the elements exist, whatever their number.
LEMMA TotalsExist ==
  ASSUME NEW d \in [Branch!Elements -> Values]
  PROVE  \E P : Totals(P, d)
<1> DEFINE Sums(P, m) == /\ P \in [0 .. m -> Nat] /\ P[0] = 0
                         /\ \A k \in 0 .. m - 1 : P[k + 1] = P[k] + Cost(d[k])
           T == {m \in Nat : m <= N => \E P : Sums(P, m)}
<1>0. N \in Nat /\ Branch!Elements = 0 .. N - 1
      BY BranchAssumed
<1>1. 0 \in T
  <2>1. Sums([k \in 0 .. 0 |-> 0], 0)
        OBVIOUS
  <2> QED
      BY <2>1, Zenon
<1>2. ASSUME NEW m \in Nat, m \in T PROVE m + 1 \in T
  <2>1. SUFFICES ASSUME m + 1 <= N PROVE \E P : Sums(P, m + 1)
    <3> HIDE DEF Sums
    <3> QED
        OBVIOUS
  <2>2. PICK P : Sums(P, m)
    <3>1. m <= N
          BY <1>0, <2>1
    <3> QED
        BY <1>2, <3>1, Zenon
  <2>3. Cost(d[m]) \in Nat
    <3>1. d[m] \in Values
          BY <1>0, <2>1
    <3> QED
        BY <3>1, CostIsNatural, Zenon
  <2> DEFINE c == Cost(d[m])
             Q == [k \in 0 .. m + 1 |-> IF k = m + 1 THEN P[m] + c ELSE P[k]]
  <2>4. m \in Nat /\ P \in [0 .. m -> Nat] /\ P[m] \in Nat
        BY <2>2
  <2> HIDE DEF c
  <2>5. Q \in [0 .. m + 1 -> Nat] /\ Q[0] = 0
    <3>1. c \in Nat
          BY <2>3 DEF c
    <3> QED
        BY <2>2, <2>4, <3>1
  <2>6. ASSUME NEW k \in 0 .. m PROVE Q[k + 1] = Q[k] + Cost(d[k])
    <3>1. Q[k] = P[k]
          BY <2>4
    <3>2. CASE k = m
      <4>1. Q[k + 1] = P[m] + c
            BY <2>4, <3>2
      <4> QED
          BY <3>1, <3>2, <4>1 DEF c
    <3>3. CASE k # m
      <4>1. k \in 0 .. m - 1 /\ Q[k + 1] = P[k + 1]
            BY <2>4, <3>3
      <4> QED
          BY <2>2, <3>1, <4>1
    <3> QED
        BY <3>2, <3>3
  <2>7. (m + 1) - 1 = m
        BY <2>4
  <2> HIDE DEF Q
  <2> QED
      BY <2>5, <2>6, <2>7
<1>3. T \in SUBSET Nat
      OBVIOUS
<1> HIDE DEF T
<1>4. T = Nat
      BY <1>1, <1>2, <1>3, Induction, Zenon
<1>5. \E P : Sums(P, N)
  <2>1. N \in T /\ N <= N
        BY <1>0, <1>4
  <2> HIDE DEF Sums
  <2> QED
      BY <2>1 DEF T
<1> QED
    BY <1>5 DEF Totals

LEMMA WorkIsTheSame == BranchInv => Branch!SameWork
<1>1. BranchInv /\ pc = "returned" => Measured = Branch!Loops
      BY DEF BranchInv, BranchShape, Measured, Before, Branch!Loops
<1>2. "unsorted" \in Branch!Loops
      BY DEF Branch!Loops
<1> QED
    BY <1>1, <1>2 DEF BranchInv, HotCounts, Branch!SameWork

LEMMA SortedHasFewSwitches == BranchInv => Branch!SortedIsPredictable
BY DEF BranchInv, SwitchCounts, Branch!SortedIsPredictable

LEMMA MaskBounds == BranchInv => Branch!MaskedBoundsBranchy
<1> SUFFICES ASSUME BranchInv, pc = "returned" PROVE Branch!MaskedBoundsBranchy
    BY DEF Branch!MaskedBoundsBranchy
<1>1. "branchy" \in Measured /\ "branchless" \in Measured
      BY DEF BranchInv, BranchShape, Measured, Before, Branch!Loops
<1>2. drawn \in [Branch!Elements -> Values]
      BY DEF BranchInv, BranchShape
<1>3. PICK P : Totals(P, drawn)
      BY <1>2, TotalsExist
<1>4. /\ UpTo(results["branchy"].sum, results["branchy"].hot, ITERATIONS * P[N], N * ITERATIONS)
      /\ results["branchless"].sum = ITERATIONS * P[N]
      BY <1>1, <1>3 DEF BranchInv, SumCounts
<1>5. ITERATIONS * P[N] \in Nat /\ results["branchy"].sum \in Nat
  <2>1. P[N] \in Nat /\ ITERATIONS \in Nat
        BY <1>3, BranchAssumed DEF Totals
  <2>2. ITERATIONS * P[N] \in Nat
        BY <2>1, Times
  <2> QED
      BY <1>1, <2>2 DEF BranchInv, SumCounts
<1> QED
    BY <1>4, <1>5 DEF UpTo, Branch!MaskedBoundsBranchy

LEMMA BranchTypes == BranchInv => Branch!TypeOK
<1> SUFFICES ASSUME BranchInv PROVE Branch!TypeOK
    OBVIOUS
<1>1. /\ N \in Nat \ {0} /\ ITERATIONS \in Nat \ {0} /\ N * ITERATIONS \in Nat \ {0}
  <2>1. N \in Nat \ {0} /\ ITERATIONS \in Nat \ {0}
        BY BranchAssumed
  <2>2. (ITERATIONS - 1) \in Nat /\ (ITERATIONS - 1) + 1 = ITERATIONS
        BY <2>1
  <2>3. (ITERATIONS - 1) * N \in Nat /\ ITERATIONS * N = (ITERATIONS - 1) * N + N
        BY <2>1, <2>2, Times
  <2>4. ITERATIONS * N = N * ITERATIONS
        BY <2>1
  <2> QED
      BY <2>1, <2>3, <2>4
<1>2. /\ i \in 0 .. N /\ iter \in 0 .. ITERATIONS - 1 /\ hot \in Nat /\ switches \in Nat
      /\ i = 0 /\ iter = 0 => hot = 0 /\ switches = 0
      /\ pc # "pass" => i = 0 /\ iter = 0
      BY DEF BranchInv, BranchShape
<1>3. Seen \in 0 .. N * ITERATIONS
  <2>1. PICK r \in Nat : ITERATIONS = iter + 1 + r
    <3>1. ITERATIONS - 1 - iter \in Nat /\ ITERATIONS = iter + 1 + (ITERATIONS - 1 - iter)
          BY <1>1, <1>2
    <3> QED
        BY <3>1
  <2>2. iter \in Nat /\ iter * N \in Nat /\ r * N \in Nat
        BY <1>1, <1>2, <2>1
  <2>3. N * ITERATIONS = iter * N + N + r * N
        BY <1>1, <2>1, <2>2
  <2> QED
      BY <1>1, <1>2, <2>2, <2>3 DEF Seen
<1>4. hot \in 0 .. N * ITERATIONS
  <2>1. pc = "pass" => hot <= Seen
        BY DEF BranchInv, HotCounts
  <2> QED
      BY <1>1, <1>2, <1>3, <2>1
<1>5. switches \in 0 .. N * ITERATIONS - 1
  <2>1. CASE i = 0 /\ iter = 0
        BY <1>1, <1>2, <2>1
  <2>2. CASE ~ (i = 0 /\ iter = 0)
    <3>1. pc = "pass"
          BY <1>2, <2>2
    <3>2. Seen > 0
      <4>1. iter \in Nat /\ N \in Nat \ {0} /\ i \in Nat
            BY <1>1, <1>2
      <4>2. iter * N \in Nat /\ (iter # 0 => iter * N # 0)
        <5>1. CASE iter = 0
              BY <1>1, <5>1
        <5>2. CASE iter # 0
          <6>1. (iter - 1) \in Nat /\ (iter - 1) + 1 = iter
                BY <4>1, <5>2
          <6>2. (iter - 1) * N \in Nat /\ iter * N = (iter - 1) * N + N
                BY <4>1, <6>1, Times
          <6> QED
              BY <4>1, <6>2
        <5> QED
            BY <5>1, <5>2
      <4> QED
          BY <2>2, <4>1, <4>2 DEF Seen
    <3>3. switches < Seen
          BY <3>1, <3>2 DEF BranchInv, SwitchCounts
    <3> QED
        BY <1>1, <1>2, <1>3, <3>3
  <2> QED
      BY <2>1, <2>2
<1>6. /\ pc \in {"begin", "pass", "sort", "redraw", "mask", "returned", "over"}
      /\ loop \in Branch!Loops /\ taken \in BOOLEAN \cup {Null}
      /\ data = <<>> \/ data \in [Branch!Elements -> Values]
      BY DEF BranchInv, BranchShape
<1> QED
    BY <1>2, <1>4, <1>5, <1>6 DEF Branch!TypeOK

-----------------------------------------------------------------------------
BranchRest ==
  /\ loop = "unsorted" /\ drawn = <<>> /\ data = <<>> /\ results = Branch!NoResults
  /\ sum = 0 /\ hot = 0 /\ taken = Null /\ switches = 0

BranchPart ==
  IF Inside("branch") THEN BranchInv /\ (pc = "over" => BranchRest) ELSE BranchRest

LEMMA BranchPartStart == Init => BranchPart
BY DEF Init, Branch!Init, BranchRest, BranchPart, Inside

LEMMA BranchPartStep ==
  MappedInv /\ CounterInv /\ CounterInv' /\ BranchPart /\ [Next]_vars => BranchPart'
<1> SUFFICES ASSUME MappedInv, CounterInv, CounterInv', BranchPart, [Next]_vars PROVE BranchPart'
    OBVIOUS
<1>1. CASE BranchRuns
  <2>1. Inside("branch") /\ Inside("branch")' /\ Branch!Run
        BY <1>1, RunsInside DEF RunsOf, Benchmarks, BranchRuns
  <2>2. BranchInv'
        BY <2>1, BranchGoesOn DEF BranchPart
  <2>3. pc' = "over" => BranchRest'
    <3>1. ASSUME pc' = "over" PROVE Branch!Return
          BY <2>1, <3>1 DEF Branch!Run, Branch!Begin, Branch!Element, Branch!NextPass,
             Branch!StopClock,
             Branch!NextLoop, Branch!Sort, Branch!Redraw, Branch!Mask, BranchPart,
             BranchInv, BranchShape, Branch!Loops
    <3>2. Branch!Return => i = 0 /\ iter = 0
          BY <2>1 DEF Branch!Return, BranchPart, BranchInv, BranchShape
    <3> QED
        BY <2>1, <3>1, <3>2 DEF Branch!Return, BranchPart, BranchInv, BranchShape, BranchRest,
           Branch!NoResults
  <2> QED
      BY <2>1, <2>2, <2>3 DEF BranchPart
<1>2. CASE ~ BranchRuns
  <2>1. /\ UNCHANGED ofBranch
        /\ Enters("branch") \/ Leaves("branch") \/ Waits("branch") \/ Away("branch")
        BY <1>2, PartStep DEF RunsOf, Untouched, Benchmarks
  <2>2. BranchRest' <=> BranchRest
        BY <2>1 DEF BranchRest, ofBranch, Branch!NoResults
  <2>3. CASE Enters("branch")
    <3>1. BranchRest /\ Inside("branch")' /\ pc' = "begin" /\ i' = 0 /\ iter' = 0
          BY <2>3 DEF BranchPart, Enters
    <3>2. (Branch!Init => BranchInv)'
          BY BranchStarts, PTL
    <3>3. Branch!Init'
          BY <2>1, <3>1 DEF BranchRest, ofBranch, Branch!Init, Branch!NoResults
    <3> QED
        BY <2>2, <3>1, <3>2, <3>3 DEF BranchPart
  <2>4. CASE Leaves("branch") \/ Away("branch")
        BY <2>2, <2>4 DEF BranchPart, Leaves, Away
  <2>5. CASE Waits("branch")
    <3>1. UNCHANGED Branch!vars /\ BranchInv
          BY <2>1, <2>5 DEF Waits, ofBranch, Branch!vars, Branch!locals, BranchPart
    <3>2. BranchInv'
          BY <3>1, BranchGoesOn
    <3> QED
        BY <2>2, <2>5, <3>2 DEF BranchPart, Waits
  <2> QED
      BY <2>1, <2>3, <2>4, <2>5
<1> QED
    BY <1>1, <1>2

LEMMA BranchPartAlways == Spec => []BranchPart
BY BranchPartStart, BranchPartStep, MappedAlways, CounterAlways, PTL DEF Spec

\* The four loops of branch_prediction.h take the hot path for as many elements,
\* whatever is drawn: the sort and the second generator change the order only.
THEOREM LoopsDoTheSameWork == Spec => []SameWork
<1>1. BranchPart => SameWork
      BY WorkIsTheSame DEF BranchPart, SameWork
<1> QED
    BY <1>1, BranchPartAlways, PTL

\* Over sorted data the branch of the first test changes direction at most twice
\* a pass, less one, however long the vector and however many the passes.
THEOREM SortedPassesSwitchTwice == Spec => []SortedIsPredictable
<1>1. BranchPart => SortedIsPredictable
      BY SortedHasFewSwitches DEF BranchPart, SortedIsPredictable
<1> QED
    BY <1>1, BranchPartAlways, PTL

\* The branchless kernel's sum is never less than the branchy one's, and the same
\* when no element is cold: an exclusive or adds at most the value.
THEOREM MaskIsAnUpperBound == Spec => []MaskedBoundsBranchy
<1>1. BranchPart => MaskedBoundsBranchy
      BY MaskBounds DEF BranchPart, MaskedBoundsBranchy
<1> QED
    BY <1>1, BranchPartAlways, PTL

-----------------------------------------------------------------------------
\* What main() has dealt with.
MainTyped ==
  /\ main \in {"start", "dispatch", "inside", "done", "terminated"}
  /\ at \in 0 .. Len(Parts) /\ (main = "inside" => at < Len(Parts))
  /\ ran \in Seq({Parts[k] : k \in 1 .. Len(Parts)}) /\ Len(ran) <= at

LEMMA PartsAreNine == Len(Parts) = 9
BY DEF Parts

LEMMA MainTypedStart == Init => MainTyped
BY PartsAreNine DEF Init, MainTyped

LEMMA MainTypedStep == MainTyped /\ [Next]_vars => MainTyped'
<1> SUFFICES ASSUME MainTyped, [Next]_vars PROVE MainTyped'
    OBVIOUS
<1> USE PartsAreNine
<1>1. CASE Usage \/ Start \/ Skip \/ Call \/ Finish \/ Terminate
  <2>1. /\ main' \in {"dispatch", "inside", "done", "terminated"} /\ ran' = ran
        /\ \/ at' = at /\ (main' = "inside" => at < Len(Parts))
           \/ main' = "dispatch" /\ at' = at + 1 /\ at < Len(Parts)
        BY <1>1 DEF Usage, Start, Skip, Call, Finish, Terminate
  <2>2. at' \in 0 .. 9 /\ (main' = "inside" => at' < 9) /\ Len(ran') <= at'
    <3>1. Len(ran) \in Nat /\ at \in 0 .. 9 /\ Len(ran) <= at
          BY DEF MainTyped
    <3> QED
        BY <2>1, <3>1
  <2> QED
      BY <2>1, <2>2 DEF MainTyped
<1>2. CASE Back
  <2> DEFINE All == {Parts[k] : k \in 1 .. Len(Parts)}
  <2>1. main = "inside" /\ main' = "dispatch" /\ at' = at + 1 /\ ran' = Append(ran, Part)
        BY <1>2 DEF Back
  <2>2. at \in 0 .. 8 /\ ran \in Seq(All) /\ Len(ran) <= at /\ Part = Parts[at + 1]
        BY <2>1 DEF MainTyped, Part
  <2>3. Part \in All /\ at + 1 \in 0 .. 9
        BY <2>2
  <2> HIDE DEF All
  <2>4. ran' \in Seq(All) /\ Len(ran') = Len(ran) + 1 /\ Len(ran) \in Nat
        BY <2>1, <2>2, <2>3
  <2>5. Len(ran') <= at'
        BY <2>1, <2>2, <2>4
  <2> QED
      BY <2>1, <2>3, <2>4, <2>5 DEF MainTyped, All
<1>3. CASE UNCHANGED <<main, at, ran>>
      BY <1>3 DEF MainTyped
<1>4. CASE TlbRuns \/ NumaRuns \/ BranchRuns \/ AccessRuns \/ SequentialRuns \/ ListRuns
             \/ StridedRuns \/ Environment \/ Elsewhere \/ UNCHANGED vars
      BY <1>3, <1>4 DEF TlbRuns, NumaRuns, BranchRuns, AccessRuns, SequentialRuns, ListRuns,
         StridedRuns, Environment, Elsewhere, Unmapping, args, vars
<1> QED
    BY <1>1, <1>2, <1>4 DEF Next, Run, Ended

LEMMA MainTypedAlways == Spec => []MainTyped
BY MainTypedStart, MainTypedStep, PTL DEF Spec

-----------------------------------------------------------------------------
\* What the TLB benchmark touches and says, which no other part changes.
TlbTyped ==
  present \subseteq BufferPages /\ said \in {"nothing", "error", "estimate", "penalty"}

LEMMA TlbTypedStart == Init => TlbTyped
BY DEF Init, Tlb!Init, TlbTyped

LEMMA TlbTypedStep == TlbPart /\ TlbTyped /\ [Next]_vars => TlbTyped'
<1> SUFFICES ASSUME TlbPart, TlbTyped, [Next]_vars PROVE TlbTyped'
    OBVIOUS
<1>1. CASE TlbRuns
  <2>1. Inside("tlb") /\ Tlb!Run /\ TlbInv
        BY <1>1 DEF TlbRuns, TlbPart
  <2>2. CASE Tlb!Warmup \/ Tlb!Measure
    <3>1. /\ pc \in {"warmup", "measure"} /\ i < NUM_ACCESSES /\ i \in 0 .. NUM_ACCESSES
          /\ NUM_ACCESSES \in Nat
          /\ present' = present \cup {indices[i + 1]} /\ said' = said
          BY <2>1, <2>2, TlbAssumed DEF Tlb!Warmup, Tlb!Measure, Tlb!Read, TlbInv, ReadInv,
             Tlb!TlbAssumption
    <3>2. indices[i + 1] \in BufferPages
      <4>1. i + 1 \in 1 .. NUM_ACCESSES
            BY <3>1
      <4> QED
          BY <2>1, <3>1, <4>1 DEF TlbInv, ReadInv
    <3> QED
        BY <3>1, <3>2 DEF TlbTyped
  <2>3. CASE ~ (Tlb!Warmup \/ Tlb!Measure)
        BY <2>1, <2>3 DEF TlbTyped, Tlb!Run, Tlb!Begin, Tlb!Map, Tlb!MapFails, Tlb!Touch,
           Tlb!StartClock, Tlb!StopClock, Tlb!UnmapRegular, Tlb!UnmapHuge, Tlb!Return
  <2> QED
      BY <2>2, <2>3
<1>2. CASE ~ TlbRuns
  <2>1. UNCHANGED ofTlb
        BY <1>2, LocalsStay DEF RunsOf, Untouched, Benchmarks
  <2> QED
      BY <2>1 DEF ofTlb, TlbTyped
<1> QED
    BY <1>1, <1>2

LEMMA TlbTypedAlways == Spec => []TlbTyped
BY TlbTypedStart, TlbTypedStep, TlbPartAlways, PTL DEF Spec

-----------------------------------------------------------------------------
\* The NUMA benchmark stays on the first four nodes, and its buffer on the nodes
\* this process may use.
NumaClean ==
  /\ machine = Null /\ num_nodes = 0 /\ node = 0 /\ bound = Null /\ placed = {} /\ skipped = {}

NumaTyped ==
  /\ pc \notin {"begin", "over"} => machine \in Machines
  /\ num_nodes \in Nat /\ node \in 0 .. 4
  /\ pc = "bind" \/ (Numa!Comparing /\ pc \in {"touch", "measure"}) => node < 4
  /\ bound = Null \/ bound \subseteq machine.allowed
  /\ placed \subseteq machine.allowed /\ skipped \subseteq 0 .. 3

NumaTypedPart ==
  IF Inside("numa") THEN NumaTyped /\ (pc \in {"begin", "over"} => NumaClean) ELSE NumaClean

LEMMA CountedType == ASSUME NEW m \in Machines PROVE Numa!Counted(m) \in Nat
<1>1. m.online \in SUBSET Nat
      BY SuiteAssumption DEF Numa!NodesAssumption
<1>2. CASE Numa!RangeEnds(m.online) = {}
      BY <1>2 DEF Numa!Counted
<1>3. CASE Numa!RangeEnds(m.online) # {}
  <2> DEFINE R == Numa!RangeEnds(m.online)
  <2>1. R \in SUBSET Nat /\ R # {}
        BY <1>1, <1>3 DEF Numa!RangeEnds
  <2> HIDE DEF R
  <2>2. \E k \in R : \A l \in R : k <= l
        BY <2>1, LeastElement
  <2>3. (CHOOSE k \in R : \A l \in R : k <= l) \in R
        BY <2>2
  <2>4. Numa!AfterDash(m.online) \in Nat
        BY <2>1, <2>3 DEF Numa!AfterDash, R
  <2> QED
      BY <2>4 DEF Numa!Counted
<1> QED
    BY <1>2, <1>3

LEMMA NumaTypedRun ==
  NumaTyped /\ (pc = "begin" => NumaClean) /\ Numa!Run => NumaTyped'
<1> SUFFICES ASSUME NumaTyped, pc = "begin" => NumaClean, Numa!Run PROVE NumaTyped'
    OBVIOUS
<1> USE DEF NumaTyped
<1>1. CASE Numa!Begin
      BY <1>1 DEF Numa!Begin, NumaClean
<1>2. CASE Numa!detect_numa_nodes
  <2>1. /\ pc = "detect" /\ pc' \in {"returned", "map"} /\ num_nodes' = Numa!Counted(machine)
        /\ UNCHANGED <<machine, node, bound, placed, rows, skipped>>
        BY <1>2 DEF Numa!detect_numa_nodes
  <2>2. num_nodes' \in Nat
        BY <2>1, CountedType
  <2> QED
      BY <2>1, <2>2
<1>3. CASE Numa!Map
  <2>1. /\ pc = "map" /\ (Numa!Comparing => node < 4) /\ bound' = Null /\ placed' = {}
        /\ pc' = IF Numa!Comparing THEN "bind" ELSE "touch"
        /\ UNCHANGED <<machine, num_nodes, node, rows, skipped>>
        BY <1>3 DEF Numa!Map, Numa!InLoop
  <2> QED
      BY <2>1 DEF Numa!Comparing
<1>4. CASE Numa!MapFails
  <2>1. /\ pc = "map" /\ pc' \in {"map", "returned"}
        /\ UNCHANGED <<machine, num_nodes, bound, placed, rows>>
        /\ \/ node < 4 /\ node' = node + 1 /\ skipped' = skipped \cup {node}
           \/ UNCHANGED <<node, skipped>>
        BY <1>4 DEF Numa!MapFails, Numa!InLoop
  <2>2. node' \in 0 .. 4 /\ skipped' \subseteq 0 .. 3
    <3>1. CASE node < 4 /\ node' = node + 1 /\ skipped' = skipped \cup {node}
      <4>1. node \in 0 .. 3
            BY <3>1
      <4> QED
          BY <3>1, <4>1
    <3>2. CASE UNCHANGED <<node, skipped>>
          BY <3>2
    <3> QED
        BY <2>1, <3>1, <3>2
  <2>3. /\ pc' \notin {"bind", "touch", "measure"} /\ num_nodes' = num_nodes
        /\ machine' = machine /\ bound' = bound /\ placed' = placed
        BY <2>1
  <2> QED
      BY <2>1, <2>2, <2>3
<1>5. CASE Numa!LoopEnds
      BY <1>5 DEF Numa!LoopEnds
<1>6. CASE Numa!Bind
  <2>1. /\ pc = "bind" /\ pc' = "touch" /\ bound' = Numa!Policy
        /\ UNCHANGED <<machine, num_nodes, node, placed, rows, skipped>>
        BY <1>6 DEF Numa!Bind
  <2>2. Numa!Policy \subseteq machine.allowed
        BY DEF Numa!Policy, Numa!MaskedNodes
  <2> QED
      BY <2>1, <2>2
<1>7. CASE Numa!BindFails
  <2>1. /\ pc = "bind" /\ pc' = "map" /\ node' = node + 1
        /\ skipped' \subseteq skipped \cup {node}
        /\ UNCHANGED <<machine, num_nodes, bound, placed, rows>>
        BY <1>7 DEF Numa!BindFails
  <2>2. node \in 0 .. 3
        BY <2>1
  <2>3. node' \in 0 .. 4 /\ skipped' \subseteq 0 .. 3
        BY <2>1, <2>2
  <2> QED
      BY <2>1, <2>3
<1>8. CASE Numa!Touch
  <2>1. /\ pc = "touch" /\ pc' = "measure"
        /\ \E k \in IF bound = Null THEN machine.allowed ELSE bound : placed' = {k}
        /\ UNCHANGED <<machine, num_nodes, node, bound, rows, skipped>>
        BY <1>8 DEF Numa!Touch
  <2>2. placed' \subseteq machine.allowed
        BY <2>1
  <2> QED
      BY <2>1, <2>2 DEF Numa!Comparing
<1>9. CASE Numa!Measure
  <2>1. /\ pc = "measure" /\ pc' \in {"map", "returned"}
        /\ (Numa!Comparing /\ node' = node + 1) \/ node' = node
        /\ UNCHANGED <<machine, num_nodes, bound, placed, skipped>>
        BY <1>9 DEF Numa!Measure
  <2> QED
      BY <2>1
<1>10. CASE Numa!Return
       BY <1>10 DEF Numa!Return
<1> QED
    BY <1>1, <1>2, <1>3, <1>4, <1>5, <1>6, <1>7, <1>8, <1>9, <1>10 DEF Numa!Run

LEMMA NumaTypedStart == Init => NumaTypedPart
BY DEF Init, Numa!Init, NumaTypedPart, NumaClean, Inside

LEMMA NumaTypedStep ==
  MappedInv /\ CounterInv /\ CounterInv' /\ NumaTypedPart /\ [Next]_vars => NumaTypedPart'
<1> SUFFICES ASSUME MappedInv, CounterInv, CounterInv', NumaTypedPart, [Next]_vars
             PROVE  NumaTypedPart'
    OBVIOUS
<1>1. CASE NumaRuns
  <2>1. Inside("numa") /\ Inside("numa")' /\ Numa!Run
        BY <1>1, RunsInside DEF RunsOf, Benchmarks, NumaRuns
  <2>2. NumaTyped'
        BY <2>1, NumaTypedRun DEF NumaTypedPart
  <2>3. pc' \in {"begin", "over"} => NumaClean'
        BY <2>1 DEF Numa!Run, Numa!Begin, Numa!detect_numa_nodes, Numa!Map, Numa!MapFails,
           Numa!LoopEnds, Numa!Bind, Numa!BindFails, Numa!Touch, Numa!Measure, Numa!Return,
           NumaClean
  <2> QED
      BY <2>1, <2>2, <2>3 DEF NumaTypedPart
<1>2. CASE ~ NumaRuns
  <2>1. /\ UNCHANGED ofNuma
        /\ Enters("numa") \/ Leaves("numa") \/ Waits("numa") \/ Away("numa")
        BY <1>2, PartStep DEF RunsOf, Untouched, Benchmarks
  <2>2. NumaClean' <=> NumaClean
        BY <2>1 DEF NumaClean, ofNuma
  <2>3. CASE Enters("numa")
        BY <2>2, <2>3 DEF Enters, NumaTypedPart, NumaTyped, NumaClean
  <2>4. CASE Leaves("numa") \/ Away("numa")
        BY <2>2, <2>4 DEF NumaTypedPart, Leaves, Away
  <2>5. CASE Waits("numa")
    <3>1. NumaTyped /\ UNCHANGED <<pc, ofNuma>>
          BY <2>1, <2>5 DEF NumaTypedPart, Waits
    <3>2. NumaTyped'
          BY <3>1 DEF ofNuma, NumaTyped, Numa!Comparing
    <3> QED
        BY <2>2, <2>5, <3>2 DEF NumaTypedPart, Waits
  <2> QED
      BY <2>1, <2>3, <2>4, <2>5
<1> QED
    BY <1>1, <1>2

LEMMA NumaTypedAlways == Spec => []NumaTypedPart
BY NumaTypedStart, NumaTypedStep, MappedAlways, CounterAlways, PTL DEF Spec

-----------------------------------------------------------------------------
\* Every variable of main() and of the benchmark it is in has its type, whichever
\* ran before.
THEOREM SuiteTypeCorrect == Spec => []TypeOK
<1>1. ASSUME MappedInv, MainTyped, TlbPart, TlbTyped, NumaTypedPart, BranchPart, AccessPart,
             SweepPart, ListPart, StridedPart
      PROVE  TypeOK
  <2>0. /\ main \in {"start", "dispatch", "inside", "done", "terminated"}
        /\ at \in 0 .. Len(Parts) /\ Len(ran) <= at
        BY <1>1 DEF MainTyped
  <2>1. ASSUME Inside("tlb") PROVE Tlb!TypeOK
    <3>1. TlbInv /\ TlbTyped /\ PoolInv
          BY <1>1, <2>1 DEF TlbPart, MappedInv
    <3>2. Tlb!PagesType /\ Tlb!HugePagesLeft >= 0
          BY <3>1 DEF PoolInv, Tlb!PagesType, Tlb!HugePagesLeft, HugePagesLeft, Tlb!Kinds, Kinds
    <3> QED
        BY <3>1, <3>2 DEF TlbInv, MapInv, ReadInv, TlbTyped, Tlb!TypeOK
  <2>2. ASSUME Inside("numa") PROVE Numa!TypeOK
    <3>1. NumaTyped /\ (pc \in {"begin", "over"} => NumaClean) /\ NumaHolds /\ PoolInv
          BY <1>1, <2>2 DEF NumaTypedPart, MappedInv, Holds
    <3>2. Numa!PagesType
          BY <3>1 DEF PoolInv, Numa!PagesType, Numa!Kinds, Kinds
    <3> QED
        BY <3>1, <3>2 DEF NumaTyped, NumaClean, NumaHolds, Numa!TypeOK
  <2>3. Inside("branch") => Branch!TypeOK
        BY <1>1, BranchTypes DEF BranchPart
  <2>4. Inside("access") => Access!TypeOK
        BY <1>1 DEF AccessPart, AccessInv, AccessShape, AtLines, Access!TypeOK
  <2>5. Inside("sequential and random") => Sequential!TypeOK
        BY <1>1 DEF SweepPart, SweepInv, StridedElements, Sequential!TypeOK
  <2>6. Inside("list") => List!TypeOK
        BY <1>1 DEF ListPart, ListInv, ListShape, Ring, Walking, List!TypeOK
  <2>7. Inside("strided") => Strided!TypeOK
        BY <1>1 DEF StridedPart, StridedInv, WalkInv, StridedShape, StridedElements, Strided!TypeOK
  <2> QED
      BY <2>0, <2>1, <2>2, <2>3, <2>4, <2>5, <2>6, <2>7 DEF TypeOK
<1> QED
    BY <1>1, MappedAlways, MainTypedAlways, TlbPartAlways, TlbTypedAlways, NumaTypedAlways,
       BranchPartAlways, AccessPartAlways, SweepPartAlways, ListPartAlways, StridedPartAlways, PTL

-----------------------------------------------------------------------------
\* The p-th part is one of those that the argument w names.
Wanted(w, p) == w \in {"all", Parts[p].arg}

\* What has returned was asked for, what was asked for has returned, and in the
\* order of main(): for the first m parts.
RanOf(m) ==
  /\ \A k \in 1 .. Len(ran) : \E p \in 1 .. m : ran[k] = Parts[p] /\ Wanted(which, p)
  /\ \A p \in 1 .. m : Wanted(which, p) => \E k \in 1 .. Len(ran) : ran[k] = Parts[p]
  /\ \A j, k \in 1 .. Len(ran) : \A p, q \in 1 .. Len(Parts) :
       j < k /\ ran[j] = Parts[p] /\ ran[k] = Parts[q] => p < q

RanWhatWasAsked == main = "done" => RanOf(Len(Parts))

MainOrder ==
  /\ main = "start" => at = 0
  /\ main = "inside" => Wanted(which, at + 1)
  /\ main = "done" => at = Len(Parts) \/ (at = 0 /\ which \in Help)
  /\ RanOf(at)

LEMMA PartsDiffer ==
  ASSUME NEW p \in 1 .. Len(Parts), NEW q \in 1 .. Len(Parts), Parts[p] = Parts[q]
  PROVE  p = q
<1>1. Len(Parts) = 9
      BY PartsAreNine
<1>2. /\ Parts[1].run = "tlb" /\ Parts[2].run = "sharing and hierarchy"
      /\ Parts[3].run = "sequential and random" /\ Parts[4].run = "numa"
      /\ Parts[5].run = "branch" /\ Parts[6].run = "access" /\ Parts[7].run = "list"
      /\ Parts[8].run = "strided" /\ Parts[9].run = "allocators"
      BY DEF Parts
<1>3. p \in {1, 2, 3, 4, 5, 6, 7, 8, 9} /\ q \in {1, 2, 3, 4, 5, 6, 7, 8, 9}
      BY <1>1
<1>4. Parts[p].run = Parts[q].run
      OBVIOUS
<1> DEFINE f(k) == Parts[k].run
           g(r) == CASE r = "tlb" -> 1 [] r = "sharing and hierarchy" -> 2
                     [] r = "sequential and random" -> 3 [] r = "numa" -> 4 [] r = "branch" -> 5
                     [] r = "access" -> 6 [] r = "list" -> 7 [] r = "strided" -> 8
                     [] r = "allocators" -> 9
<1>5. f(p) = f(q)
      BY <1>4
<1>6. \A k \in {1, 2, 3, 4, 5, 6, 7, 8, 9} : k = g(f(k))
      BY <1>2
<1>7. p = g(f(p)) /\ q = g(f(q))
  <2> HIDE DEF f, g
  <2> QED
      BY <1>3, <1>6
<1>8. g(f(p)) = g(f(q))
      BY <1>5
<1> HIDE DEF f, g
<1> QED
    BY <1>7, <1>8

LEMMA HelpNamesNoPart ==
  ASSUME NEW w \in Help, NEW p \in 1 .. Len(Parts) PROVE ~ Wanted(w, p)
<1>1. p \in {1, 2, 3, 4, 5, 6, 7, 8, 9} /\ w \in {"-h", "--help"}
      BY PartsAreNine DEF Help
<1>2. /\ Parts[1].arg = "tlb" /\ Parts[2].arg = "cache" /\ Parts[3].arg = "cache"
      /\ Parts[4].arg = "numa" /\ Parts[5].arg = "branch" /\ Parts[6].arg = "access"
      /\ Parts[7].arg = "prefetch" /\ Parts[8].arg = "prefetch" /\ Parts[9].arg = "alloc"
      BY DEF Parts
<1> QED
    BY <1>1, <1>2 DEF Wanted

LEMMA MainOrderStart == Init => MainOrder
BY PartsAreNine DEF Init, MainOrder, RanOf

LEMMA MainOrderStep == MainTyped /\ MainOrder /\ [Next]_vars => MainOrder'
<1> SUFFICES ASSUME MainTyped, MainOrder, [Next]_vars PROVE MainOrder'
    OBVIOUS
<1> USE PartsAreNine
<1>0. at \in 0 .. 9 /\ Len(ran) \in Nat
      BY DEF MainTyped
<1>1. CASE Usage \/ Start \/ Call \/ Finish \/ Terminate
  <2>1. /\ UNCHANGED <<which, at, ran>>
        /\ main' \in {"dispatch", "inside", "done", "terminated"}
        /\ main' = "done" => (main = "start" /\ which \in Help) \/ at = Len(Parts)
        /\ main' = "inside" => Wanted(which, at + 1)
        BY <1>1 DEF Usage, Start, Call, Finish, Terminate, OnlyMain, Asked, Part, Wanted
  <2> QED
      BY <2>1 DEF MainOrder, RanOf
<1>2. CASE Skip
  <2>1. /\ UNCHANGED <<which, main, ran>> /\ main = "dispatch" /\ at' = at + 1 /\ at \in 0 .. 8
        /\ ~ Wanted(which, at + 1)
        BY <1>0, <1>2 DEF Skip, OnlyMain, Asked, Part, Wanted
  <2>2. 1 .. at + 1 = (1 .. at) \cup {at + 1}
        BY <2>1
  <2>3. RanOf(at)
        BY DEF MainOrder
  <2>4. RanOf(at + 1)
        BY <2>1, <2>2, <2>3 DEF RanOf
  <2>5. RanOf(at)'
        BY <2>1, <2>4 DEF RanOf
  <2> QED
      BY <2>1, <2>5 DEF MainOrder
<1>3. CASE Back
  <2> DEFINE new == Parts[at + 1]
             m == Len(ran)
  <2>1. /\ which' = which /\ main = "inside" /\ main' = "dispatch" /\ at' = at + 1
        /\ ran' = Append(ran, new)
        BY <1>3 DEF Back, OnlyMain, Part
  <2>2. at \in 0 .. 8 /\ Wanted(which, at + 1) /\ RanOf(at)
        BY <1>0, <2>1 DEF MainOrder, MainTyped
  <2>3. /\ Len(ran') = m + 1 /\ ran'[m + 1] = new
        /\ \A k \in 1 .. m : ran'[k] = ran[k]
        BY <2>1 DEF MainTyped
  <2>4. m \in Nat /\ 1 .. at' = (1 .. at) \cup {at + 1} /\ 1 .. Len(ran') = (1 .. m) \cup {m + 1}
        BY <1>0, <2>1, <2>2, <2>3
  <2> HIDE DEF m
  <2>5. ASSUME NEW k \in 1 .. Len(ran')
        PROVE  \E p \in 1 .. at' : ran'[k] = Parts[p] /\ Wanted(which, p)
    <3>1. CASE k = m + 1
          BY <2>2, <2>3, <2>4, <3>1
    <3>2. CASE k \in 1 .. m
          BY <2>2, <2>3, <2>4, <3>2 DEF RanOf, m
    <3> QED
        BY <2>4, <3>1, <3>2
  <2>6. ASSUME NEW p \in 1 .. at', Wanted(which, p)
        PROVE  \E k \in 1 .. Len(ran') : ran'[k] = Parts[p]
    <3>1. CASE p = at + 1
          BY <2>3, <2>4, <3>1
    <3>2. CASE p \in 1 .. at
          BY <2>2, <2>3, <2>4, <2>6, <3>2 DEF RanOf, m
    <3> QED
        BY <2>4, <3>1, <3>2
  <2>7. ASSUME NEW j \in 1 .. Len(ran'), NEW k \in 1 .. Len(ran'),
               NEW p \in 1 .. Len(Parts), NEW q \in 1 .. Len(Parts),
               j < k, ran'[j] = Parts[p], ran'[k] = Parts[q]
        PROVE  p < q
    <3>1. j \in 1 .. m
          BY <2>4, <2>7
    <3>2. ran[j] = Parts[p]
          BY <2>3, <2>7, <3>1
    <3>3. CASE k = m + 1
      <4>1. Parts[q] = Parts[at + 1] /\ at + 1 \in 1 .. Len(Parts)
            BY <2>2, <2>3, <2>7, <3>3
      <4>2. q = at + 1
            BY <4>1, PartsDiffer
      <4>3. PICK r \in 1 .. at : ran[j] = Parts[r]
            BY <2>2, <3>1 DEF RanOf, m
      <4>4. r \in 1 .. Len(Parts)
            BY <2>2
      <4>5. p = r
            BY <3>2, <4>3, <4>4, PartsDiffer
      <4> QED
          BY <2>2, <4>2, <4>5
    <3>4. CASE k \in 1 .. m
      <4>1. ran[k] = Parts[q]
            BY <2>3, <2>7, <3>4
      <4> QED
          BY <2>2, <2>7, <3>1, <3>2, <3>4, <4>1 DEF RanOf, m
    <3> QED
        BY <2>4, <3>3, <3>4
  <2>8. RanOf(at)'
        BY <2>1, <2>5, <2>6, <2>7 DEF RanOf
  <2> QED
      BY <2>1, <2>8 DEF MainOrder
<1>4. CASE UNCHANGED <<which, main, at, ran>>
      BY <1>4 DEF MainOrder, RanOf
<1>5. CASE TlbRuns \/ NumaRuns \/ BranchRuns \/ AccessRuns \/ SequentialRuns \/ ListRuns
             \/ StridedRuns \/ Environment \/ Elsewhere \/ UNCHANGED vars
      BY <1>4, <1>5 DEF TlbRuns, NumaRuns, BranchRuns, AccessRuns, SequentialRuns, ListRuns,
         StridedRuns, Environment, Elsewhere, OnlyMain, Unmapping, args, vars
<1> QED
    BY <1>1, <1>2, <1>3, <1>5 DEF Next, Run, Ended

\* When main() returns it has run every part that was asked for, no other, and in
\* its order: what is safety of RunsWhatWasAsked.
THEOREM NothingElseIsRun == Spec => []RanWhatWasAsked
<1>1. MainOrder => RanWhatWasAsked
  <2> SUFFICES ASSUME MainOrder, main = "done" PROVE RanOf(Len(Parts))
      BY DEF RanWhatWasAsked
  <2>1. CASE at = Len(Parts)
        BY <2>1 DEF MainOrder
  <2>2. CASE at = 0 /\ which \in Help
    <3>1. \A p \in 1 .. Len(Parts) : ~ Wanted(which, p)
          BY <2>2, HelpNamesNoPart
    <3>2. RanOf(0) /\ 1 .. 0 = {}
          BY <2>2 DEF MainOrder
    <3> QED
        BY <3>1, <3>2 DEF RanOf
  <2> QED
      BY <2>1, <2>2 DEF MainOrder
<1> QED
    BY <1>1, MainOrderStart, MainOrderStep, MainTypedAlways, PTL DEF Spec
=============================================================================
