--------------------------- MODULE PrefetchProofs ---------------------------
(***************************************************************************)
(* What hardware and software prefetching are measured with, in the suite: *)
(* for every length of the vector, every list of strides, every order of   *)
(* the nodes and every number of reads.  Strided: both loops of a row read *)
(* the same elements, and a stride that divides the length goes round a    *)
(* circle.  Sequential and random: the loop in order sweeps the vector     *)
(* evenly.  List: the links are one ring, the three walks are the same,    *)
(* and each prefetch is of the node processed that many steps later.       *)
(***************************************************************************)
EXTENDS SuiteProofs

StridedElements == 0 .. Length - 1

\* s goes round the vector from element 0, d elements at a time.
StridePath(s, d) ==
  /\ Len(s) > 0 => s[1] = 0
  /\ \A k \in 1 .. Len(s) - 1 : s[k + 1] = (s[k] + d) % Length

\* The element such a walk comes to next.
Ahead(s, d) == IF Len(s) = 0 THEN 0 ELSE (s[Len(s)] + d) % Length

PlainWalk    == walked[FALSE]
PrefetchWalk == walked[TRUE]

StridedShape ==
  /\ pc \in {"begin", "walk", "row", "over"}
  /\ i \in 0 .. STRIDED_ACCESSES /\ nth \in DOMAIN strides
  /\ prefetching \in BOOLEAN /\ idx \in StridedElements
  /\ walked \in [BOOLEAN -> Seq(StridedElements)]
  /\ hinted \in Seq(StridedElements)

\* Each loop steps from element 0, and idx is the element its next read is of.
Walks ==
  /\ StridePath(PlainWalk, Strided!stride) /\ StridePath(PrefetchWalk, Strided!stride)
  /\ ~ prefetching => /\ Len(PlainWalk) = i /\ PrefetchWalk = <<>>
                      /\ idx = Ahead(PlainWalk, Strided!stride)
  /\ prefetching => /\ Len(PlainWalk) = STRIDED_ACCESSES /\ Len(PrefetchWalk) = i
                    /\ idx = Ahead(PrefetchWalk, Strided!stride)
  /\ pc = "row" => prefetching /\ i = STRIDED_ACCESSES

\* The second loop repeats the first so far, and its hints run one ahead.
Repeats ==
  /\ \A k \in 1 .. Len(PrefetchWalk) : PrefetchWalk[k] = PlainWalk[k]
  /\ Len(hinted) = Len(PrefetchWalk)
  /\ \A k \in 1 .. Len(hinted) : hinted[k] = (PrefetchWalk[k] + Strided!stride) % Length

WalkInv == StridedShape /\ Walks /\ Repeats

-----------------------------------------------------------------------------
LEMMA StepInVector ==
  ASSUME Strided!StridesAssumption, NEW x \in StridedElements, NEW k \in DOMAIN strides
  PROVE  strides[k] \in Nat \ {0} /\ (x + strides[k]) % Length \in StridedElements
<1>1. strides[k] \in Nat \ {0}
      BY DEF Strided!StridesAssumption
<1> QED
    BY <1>1 DEF Strided!StridesAssumption, StridedElements

\* A walk grows by the element it comes to next.
LEMMA PathGrows ==
  ASSUME NEW s \in Seq(StridedElements), NEW d \in Nat, StridePath(s, d),
         NEW x \in StridedElements, x = Ahead(s, d)
  PROVE  /\ Append(s, x) \in Seq(StridedElements)
         /\ Len(Append(s, x)) = Len(s) + 1
         /\ \A k \in 1 .. Len(s) : Append(s, x)[k] = s[k]
         /\ Append(s, x)[Len(s) + 1] = x
         /\ StridePath(Append(s, x), d)
         /\ Ahead(Append(s, x), d) = (x + d) % Length
<1> DEFINE t == Append(s, x)
<1>1. Len(s) \in Nat
      OBVIOUS
<1>2. /\ t \in Seq(StridedElements) /\ Len(t) = Len(s) + 1
      /\ \A k \in 1 .. Len(s) : t[k] = s[k]
      /\ t[Len(s) + 1] = x
      OBVIOUS
<1> HIDE DEF t
<1>3. t[1] = 0
  <2>1. CASE Len(s) = 0
        BY <1>2, <2>1 DEF Ahead
  <2>2. CASE Len(s) > 0
        BY <1>1, <1>2, <2>2 DEF StridePath
  <2> QED
      BY <1>1, <2>1, <2>2
<1>4. ASSUME NEW k \in 1 .. Len(t) - 1
      PROVE  t[k + 1] = (t[k] + d) % Length
  <2>1. CASE k = Len(s)
        BY <1>1, <1>2, <2>1 DEF Ahead
  <2>2. CASE k # Len(s)
    <3>1. k \in 1 .. Len(s) - 1 /\ k + 1 \in 1 .. Len(s) /\ k \in 1 .. Len(s)
          BY <1>1, <1>2, <2>2
    <3>2. s[k + 1] = (s[k] + d) % Length
          BY <3>1 DEF StridePath
    <3> QED
        BY <1>2, <3>1, <3>2
  <2> QED
      BY <2>1, <2>2
<1>5. StridePath(t, d)
      BY <1>3, <1>4 DEF StridePath
<1>6. Ahead(t, d) = (x + d) % Length
      BY <1>1, <1>2 DEF Ahead
<1> QED
    BY <1>2, <1>5, <1>6 DEF t

\* Two walks that agree so far come to the same element.
LEMMA SameNext ==
  ASSUME NEW s \in Seq(StridedElements), NEW t \in Seq(StridedElements), NEW d \in Nat,
         StridePath(t, d), Len(s) < Len(t), \A k \in 1 .. Len(s) : s[k] = t[k]
  PROVE  Ahead(s, d) = t[Len(s) + 1]
<1>1. Len(s) \in Nat /\ Len(t) \in Nat
      OBVIOUS
<1>2. CASE Len(s) = 0
      BY <1>1, <1>2 DEF StridePath, Ahead
<1>3. CASE Len(s) > 0
  <2>1. Len(s) \in 1 .. Len(t) - 1 /\ Len(s) \in 1 .. Len(s)
        BY <1>1, <1>3
  <2>2. t[Len(s) + 1] = (t[Len(s)] + d) % Length
        BY <2>1 DEF StridePath
  <2> QED
      BY <1>3, <2>1, <2>2 DEF Ahead
<1> QED
    BY <1>1, <1>2, <1>3

LEMMA Zero ==
  ASSUME Strided!StridesAssumption
  PROVE  0 \in StridedElements /\ 0 \in 0 .. STRIDED_ACCESSES
BY DEF Strided!StridesAssumption, StridedElements

\* No element has been read by either loop of a row.
LEMMA NothingRead ==
  ASSUME Strided!StridesAssumption, walked = Strided!NoReads, hinted = <<>>, idx = 0, i = 0,
         prefetching = FALSE, nth \in DOMAIN strides,
         pc \in {"begin", "walk", "over"}
  PROVE  WalkInv
<1>1. /\ walked \in [BOOLEAN -> Seq(StridedElements)] /\ PlainWalk = <<>> /\ PrefetchWalk = <<>>
      BY DEF Strided!NoReads, PlainWalk, PrefetchWalk
<1>2. Len(<<>>) = 0 /\ <<>> \in Seq(StridedElements)
      OBVIOUS
<1>3. StridedShape
      BY <1>1, <1>2, Zero DEF StridedShape
<1>4. StridePath(<<>>, Strided!stride) /\ Ahead(<<>>, Strided!stride) = 0
      BY <1>2 DEF StridePath, Ahead
<1>5. Walks
      BY <1>1, <1>2, <1>4 DEF Walks
<1>6. Repeats
      BY <1>1, <1>2 DEF Repeats
<1> QED
    BY <1>3, <1>5, <1>6 DEF WalkInv

LEMMA WalkStart == ASSUME Strided!StridesAssumption PROVE Strided!Init => WalkInv
<1>1. 1 \in DOMAIN strides
      BY DEF Strided!StridesAssumption
<1> QED
    BY <1>1, NothingRead DEF Strided!Init

LEMMA StridedReadStep == ASSUME Strided!StridesAssumption PROVE WalkInv /\ Strided!Read => WalkInv'
<1> SUFFICES ASSUME WalkInv, Strided!Read PROVE WalkInv'
    OBVIOUS
<1>1. /\ pc = "walk" /\ i < STRIDED_ACCESSES /\ i' = i + 1 /\ idx' = Strided!Step
      /\ walked' = [walked EXCEPT ![prefetching] = Append(@, idx)]
      /\ hinted' = IF prefetching THEN Append(hinted, Strided!Step) ELSE hinted
      /\ pc' = pc /\ nth' = nth /\ (prefetching' = prefetching)
      BY DEF Strided!Read
<1>2. /\ prefetching \in BOOLEAN /\ idx \in StridedElements /\ i \in Nat /\ STRIDED_ACCESSES \in Nat
      /\ walked \in [BOOLEAN -> Seq(StridedElements)]
      BY DEF WalkInv, StridedShape, Strided!StridesAssumption
<1>3. /\ PlainWalk \in Seq(StridedElements) /\ PrefetchWalk \in Seq(StridedElements)
      /\ hinted \in Seq(StridedElements)
      BY <1>2 DEF WalkInv, StridedShape, PlainWalk, PrefetchWalk
<1>4. /\ Strided!stride \in Nat \ {0} /\ Strided!Step \in StridedElements
      /\ Strided!Step = (idx + Strided!stride) % Length
      BY StepInVector DEF WalkInv, StridedShape, Strided!Step, Strided!stride
<1>5. Strided!stride' = Strided!stride
      BY <1>1 DEF Strided!stride
<1>6. i' \in 0 .. STRIDED_ACCESSES
      BY <1>1, <1>2
<1>7. CASE prefetching = FALSE
  <2>1. /\ Len(PlainWalk) = i /\ PrefetchWalk = <<>> /\ idx = Ahead(PlainWalk, Strided!stride)
        /\ StridePath(PlainWalk, Strided!stride) /\ StridePath(PrefetchWalk, Strided!stride)
        /\ Len(hinted) = 0
        BY <1>7 DEF WalkInv, Walks, Repeats
  <2>2. /\ walked' = [walked EXCEPT ![FALSE] = Append(walked[FALSE], idx)]
        /\ hinted' = hinted /\ prefetching' = FALSE
        BY <1>1, <1>7
  <2>3. PlainWalk' = Append(PlainWalk, idx) /\ PrefetchWalk' = PrefetchWalk
        BY <1>2, <2>2 DEF PlainWalk, PrefetchWalk
  <2>4. /\ PlainWalk' \in Seq(StridedElements) /\ Len(PlainWalk') = i + 1
        /\ StridePath(PlainWalk', Strided!stride)
        /\ Ahead(PlainWalk', Strided!stride) = Strided!Step
        BY <1>2, <1>3, <1>4, <2>1, <2>3, PathGrows
  <2>5. walked' \in [BOOLEAN -> Seq(StridedElements)]
        BY <1>2, <1>3, <2>2, <2>4, <2>3 DEF PlainWalk
  <2>6. StridedShape'
        BY <1>1, <1>3, <1>4, <1>6, <2>2, <2>5 DEF WalkInv, StridedShape
  <2>7. Walks'
        BY <1>1, <1>5, <2>1, <2>2, <2>3, <2>4 DEF Walks
  <2>8. Repeats'
        BY <2>1, <2>2, <2>3 DEF Repeats
  <2> QED
      BY <2>6, <2>7, <2>8 DEF WalkInv
<1>8. CASE prefetching = TRUE
  <2>1. /\ Len(PlainWalk) = STRIDED_ACCESSES /\ Len(PrefetchWalk) = i
        /\ idx = Ahead(PrefetchWalk, Strided!stride)
        /\ StridePath(PlainWalk, Strided!stride) /\ StridePath(PrefetchWalk, Strided!stride)
        /\ Len(hinted) = i
        BY <1>8 DEF WalkInv, Walks, Repeats
  <2>2. /\ walked' = [walked EXCEPT ![TRUE] = Append(walked[TRUE], idx)]
        /\ hinted' = Append(hinted, Strided!Step) /\ prefetching' = TRUE
        BY <1>1, <1>8
  <2>3. PrefetchWalk' = Append(PrefetchWalk, idx) /\ PlainWalk' = PlainWalk
        BY <1>2, <2>2 DEF PlainWalk, PrefetchWalk
  <2>4. /\ PrefetchWalk' \in Seq(StridedElements) /\ Len(PrefetchWalk') = i + 1
        /\ StridePath(PrefetchWalk', Strided!stride)
        /\ Ahead(PrefetchWalk', Strided!stride) = Strided!Step
        /\ \A k \in 1 .. i : PrefetchWalk'[k] = PrefetchWalk[k]
        /\ PrefetchWalk'[i + 1] = idx
        BY <1>2, <1>3, <1>4, <2>1, <2>3, PathGrows
  <2>5. walked' \in [BOOLEAN -> Seq(StridedElements)]
        BY <1>2, <1>3, <2>2, <2>4, <2>3 DEF PrefetchWalk
  <2>6. /\ hinted' \in Seq(StridedElements) /\ Len(hinted') = i + 1 /\ hinted'[i + 1] = Strided!Step
        /\ \A k \in 1 .. i : hinted'[k] = hinted[k]
    <3>1. /\ Append(hinted, Strided!Step) \in Seq(StridedElements)
          /\ Len(Append(hinted, Strided!Step)) = Len(hinted) + 1
          /\ Append(hinted, Strided!Step)[Len(hinted) + 1] = Strided!Step
          /\ \A k \in 1 .. Len(hinted) : Append(hinted, Strided!Step)[k] = hinted[k]
          BY <1>3, <1>4
    <3> QED
        BY <2>1, <2>2, <3>1
  <2>7. StridedShape'
        BY <1>1, <1>4, <1>6, <2>2, <2>5, <2>6 DEF WalkInv, StridedShape
  <2>8. Walks'
    <3>1. pc' # "row" /\ Len(PlainWalk') = STRIDED_ACCESSES
          BY <1>1, <2>1, <2>3
    <3> QED
        BY <1>1, <1>5, <2>1, <2>2, <2>3, <2>4, <3>1 DEF Walks
  <2>9. idx = PlainWalk[i + 1]
    <3>1. \A k \in 1 .. Len(PrefetchWalk) : PrefetchWalk[k] = PlainWalk[k]
          BY DEF WalkInv, Repeats
    <3> QED
        BY <1>1, <1>3, <1>4, <2>1, <3>1, SameNext
  <2>10. Repeats'
    <3>1. ASSUME NEW k \in 1 .. i + 1
          PROVE  /\ PrefetchWalk'[k] = PlainWalk'[k]
                 /\ hinted'[k] = (PrefetchWalk'[k] + Strided!stride') % Length
      <4>1. CASE k = i + 1
            BY <1>4, <1>5, <2>3, <2>4, <2>6, <2>9, <4>1
      <4>2. CASE k # i + 1
        <5>1. k \in 1 .. i
              BY <1>2, <4>2
        <5>2. /\ PrefetchWalk[k] = PlainWalk[k]
              /\ hinted[k] = (PrefetchWalk[k] + Strided!stride) % Length
              BY <2>1, <5>1 DEF WalkInv, Repeats
        <5> QED
            BY <1>5, <2>3, <2>4, <2>6, <5>1, <5>2
      <4> QED
          BY <4>1, <4>2
    <3> QED
        BY <2>4, <2>6, <3>1 DEF Repeats
  <2> QED
      BY <2>7, <2>8, <2>10 DEF WalkInv
<1> QED
    BY <1>2, <1>7, <1>8

LEMMA WalkStep ==
  ASSUME Strided!StridesAssumption
  PROVE  WalkInv /\ [Strided!Next]_Strided!vars => WalkInv'
<1> SUFFICES ASSUME WalkInv, [Strided!Next]_Strided!vars PROVE WalkInv'
    OBVIOUS
<1> USE DEF WalkInv
<1>1. CASE Strided!Begin \/ Strided!StopClock \/ UNCHANGED Strided!vars
  <2>1. /\ UNCHANGED <<i, Strided!locals>>
        /\ pc' = pc \/ pc' = "walk" \/ (pc' = "row" /\ i = STRIDED_ACCESSES /\ prefetching)
        BY <1>1 DEF Strided!Begin, Strided!StopClock, Strided!vars
  <2>2. /\ UNCHANGED <<i, nth, prefetching, idx, walked, hinted>>
        /\ Strided!stride' = Strided!stride /\ PlainWalk' = PlainWalk
        /\ PrefetchWalk' = PrefetchWalk
        BY <2>1 DEF Strided!locals, Strided!stride, PlainWalk, PrefetchWalk
  <2>3. StridedShape'
        BY <2>1, <2>2 DEF StridedShape
  <2>4. Walks'
        BY <2>1, <2>2 DEF Walks
  <2>5. Repeats'
        BY <2>2 DEF Repeats
  <2> QED
      BY <2>3, <2>4, <2>5
<1>2. CASE Strided!Read
      BY <1>2, StridedReadStep
<1>3. CASE Strided!SecondLoop
  <2>1. /\ pc = "walk" /\ i = STRIDED_ACCESSES /\ ~ prefetching
        /\ prefetching' = TRUE /\ idx' = 0 /\ i' = 0
        /\ UNCHANGED <<pc, nth, walked, hinted>>
        /\ Strided!stride' = Strided!stride /\ PlainWalk' = PlainWalk
        /\ PrefetchWalk' = PrefetchWalk
        BY <1>3 DEF Strided!SecondLoop, Strided!stride, PlainWalk, PrefetchWalk
  <2>2. /\ PrefetchWalk = <<>> /\ Len(PlainWalk) = STRIDED_ACCESSES
        /\ StridePath(PlainWalk, Strided!stride) /\ StridePath(PrefetchWalk, Strided!stride)
        BY <2>1 DEF Walks
  <2>3. Len(<<>>) = 0 /\ Ahead(<<>>, Strided!stride) = 0
        BY DEF Ahead
  <2>4. StridedShape'
        BY <2>1, Zero DEF StridedShape
  <2>5. Walks'
        BY <2>1, <2>2, <2>3 DEF Walks
  <2>6. Repeats'
        BY <2>1 DEF Repeats
  <2> QED
      BY <2>4, <2>5, <2>6
<1>4. CASE Strided!NextStride
  <2>1. /\ nth' \in DOMAIN strides /\ pc' \in {"walk", "over"}
        /\ prefetching' = FALSE /\ idx' = 0 /\ i' = 0
        /\ walked' = Strided!NoReads /\ hinted' = <<>>
    <3>1. 1 \in DOMAIN strides /\ DOMAIN strides = 1 .. Len(strides) /\ Len(strides) \in Nat
          BY DEF Strided!StridesAssumption
    <3> QED
        BY <1>4, <3>1 DEF Strided!NextStride, StridedShape
  <2>2. /\ walked' \in [BOOLEAN -> Seq(StridedElements)] /\ PlainWalk' = <<>>
        /\ PrefetchWalk' = <<>>
        BY <2>1 DEF Strided!NoReads, PlainWalk, PrefetchWalk
  <2>3. /\ Len(<<>>) = 0 /\ <<>> \in Seq(StridedElements)
        /\ StridePath(<<>>, Strided!stride') /\ Ahead(<<>>, Strided!stride') = 0
        BY DEF StridePath, Ahead
  <2>4. StridedShape'
        BY <2>1, <2>2, <2>3, Zero DEF StridedShape
  <2>5. Walks'
        BY <2>1, <2>2, <2>3 DEF Walks
  <2>6. Repeats'
        BY <2>1, <2>2, <2>3 DEF Repeats
  <2> QED
      BY <2>4, <2>5, <2>6
<1> QED
    BY <1>1, <1>2, <1>3, <1>4 DEF Strided!Next, Strided!Run, Strided!Over

LEMMA Inductive == ASSUME Strided!StridesAssumption PROVE Strided!Spec => []WalkInv
BY WalkStart, WalkStep, PTL DEF Strided!Spec

\* No read is outside the vector.
THEOREM TypeCorrect == ASSUME Strided!StridesAssumption PROVE Strided!Spec => []Strided!TypeOK
<1>1. WalkInv => Strided!TypeOK
      BY DEF WalkInv, StridedShape, Strided!TypeOK, StridedElements
<1> QED
    BY <1>1, Inductive, PTL

LEMMA WalksAlike == ASSUME Strided!StridesAssumption PROVE WalkInv => Strided!SameReads
<1> SUFFICES ASSUME WalkInv PROVE Strided!SameReads
    OBVIOUS
<1>1. /\ PrefetchWalk \in Seq(StridedElements) /\ PlainWalk \in Seq(StridedElements)
      /\ hinted \in Seq(StridedElements)
      BY DEF WalkInv, StridedShape, PlainWalk, PrefetchWalk
<1>2. ASSUME NEW k \in DOMAIN hinted, k + 1 \in DOMAIN PrefetchWalk
      PROVE  hinted[k] = PrefetchWalk[k + 1]
  <2>1. k \in 1 .. Len(hinted) /\ k \in 1 .. Len(PrefetchWalk) - 1
        BY <1>1, <1>2
  <2> QED
      BY <2>1 DEF WalkInv, Repeats, Walks, StridePath
<1>3. ASSUME pc = "row"
      PROVE  PrefetchWalk = PlainWalk /\ Len(PrefetchWalk) = STRIDED_ACCESSES
  <2>1. Len(PrefetchWalk) = STRIDED_ACCESSES /\ Len(PlainWalk) = STRIDED_ACCESSES
        BY <1>3 DEF WalkInv, Walks
  <2>2. \A k \in 1 .. Len(PrefetchWalk) : PrefetchWalk[k] = PlainWalk[k]
        BY DEF WalkInv, Repeats
  <2> QED
      BY <1>1, <2>1, <2>2, SeqEqual
<1> QED
    BY <1>2, <1>3 DEF Strided!SameReads, PlainWalk, PrefetchWalk

\* The plain loop and the prefetching loop read the same elements.
THEOREM BothLoopsReadTheSame ==
  ASSUME Strided!StridesAssumption
  PROVE  Strided!Spec => []Strided!SameReads
BY WalksAlike, Inductive, PTL
-----------------------------------------------------------------------------
(***************************************************************************)
(* A stride d that divides the length meets Length \div d elements: the    *)
(* k-th read is of element d * ((k - 1) % (Length \div d)).                *)
(***************************************************************************)
Circle(s, d) ==
  \A k \in 1 .. Len(s) : s[k] = d * ((k - 1) % (Length \div d))

CircleInv ==
  Length % Strided!stride = 0 =>
    Circle(PlainWalk, Strided!stride) /\ Circle(PrefetchWalk, Strided!stride)

LEMMA RestInRange ==
  ASSUME NEW n \in Nat, NEW q \in Nat \ {0}
  PROVE  n % q \in 0 .. q - 1
OBVIOUS

LEMMA QuotientAndRest ==
  ASSUME NEW n \in Nat, NEW q \in Nat \ {0}, NEW c, c = n \div q, NEW r, r = n % q
  PROVE  n = q * c + r
OBVIOUS

LEMMA RestIsUnique ==
  ASSUME NEW q \in Nat \ {0}, NEW c \in Nat, NEW r \in 0 .. q - 1
  PROVE  (q * c + r) % q = r
OBVIOUS

LEMMA NextRest ==
  ASSUME NEW n \in Nat, NEW q \in Nat \ {0}
  PROVE  (n + 1) % q = IF (n % q) + 1 = q THEN 0 ELSE (n % q) + 1
<1> DEFINE c == n \div q
           r == n % q
<1>0. n \div q \in Nat
      OBVIOUS
<1>1. c \in Nat /\ r \in 0 .. q - 1
      BY <1>0
<1>4. c = n \div q /\ r = n % q
      OBVIOUS
<1> HIDE DEF c, r
<1>5. n = q * c + r
      BY <1>4, QuotientAndRest
<1>2. CASE r + 1 = q
  <2>1. n + 1 = q * (c + 1) + 0
        BY <1>1, <1>2, <1>5
  <2>2. (q * (c + 1) + 0) % q = 0
        BY <1>1, RestIsUnique
  <2> QED
      BY <1>2, <2>1, <2>2 DEF r
<1>3. CASE r + 1 # q
  <2>1. n + 1 = q * c + (r + 1) /\ r + 1 \in 0 .. q - 1
        BY <1>1, <1>3, <1>5
  <2>2. (q * c + (r + 1)) % q = r + 1
        BY <1>1, <2>1, RestIsUnique
  <2> QED
      BY <1>3, <2>1, <2>2 DEF r
<1> QED
    BY <1>2, <1>3

\* One more step of d on the circle of q elements.
LEMMA RoundTheCircle ==
  ASSUME NEW d \in Nat \ {0}, NEW q \in Nat \ {0}, NEW n \in Nat
  PROVE  (d * (n % q) + d) % (d * q) = d * ((n + 1) % q)
<1> DEFINE r == n % q
<1>1. r \in 0 .. q - 1
      BY RestInRange
<1>2. (n + 1) % q = IF r + 1 = q THEN 0 ELSE r + 1
      BY NextRest
<1> HIDE DEF r
<1>3. d * q \in Nat \ {0}
      OBVIOUS
<1>4. CASE r + 1 = q
  <2>1. d * r + d = d * q
        BY <1>1, <1>4
  <2>2. (d * q) % (d * q) = 0
        BY <1>3
  <2>3. d * 0 = 0
        OBVIOUS
  <2> QED
      BY <1>2, <1>4, <2>1, <2>2, <2>3 DEF r
<1>5. CASE r + 1 # q
  <2>1. r + 1 < q
        BY <1>1, <1>5
  <2>2. d * r + d = d * (r + 1) /\ d * (r + 1) \in Nat /\ d * (r + 1) < d * q
        BY <1>1, <2>1
  <2>3. (d * (r + 1)) % (d * q) = d * (r + 1)
        BY <1>3, <2>2
  <2> QED
      BY <1>2, <1>5, <2>2, <2>3 DEF r
<1> QED
    BY <1>4, <1>5

LEMMA Divides ==
  ASSUME NEW n \in Nat \ {0}, NEW d \in Nat \ {0}, n % d = 0
  PROVE  n \div d \in Nat \ {0} /\ n = d * (n \div d)
OBVIOUS

\* A walk round the circle stays on it.
LEMMA CircleGrows ==
  ASSUME Strided!StridesAssumption,
         NEW s \in Seq(StridedElements), NEW d \in Nat \ {0}, Length % d = 0,
         Circle(s, d), NEW x, x = Ahead(s, d)
  PROVE  Circle(Append(s, x), d)
<1> DEFINE q == Length \div d
           t == Append(s, x)
           n == Len(s)
<1>1. q \in Nat \ {0} /\ Length = d * q
      BY Divides DEF Strided!StridesAssumption
<1>2. /\ n \in Nat /\ Len(t) = n + 1 /\ t[n + 1] = x
      /\ \A k \in 1 .. n : t[k] = s[k]
      OBVIOUS
<1> HIDE DEF q, t
<1>3. x = d * (n % q)
  <2>1. CASE n = 0
    <3>1. 0 % q = 0
          BY <1>1
    <3>2. d * 0 = 0
          OBVIOUS
    <3> QED
        BY <2>1, <3>1, <3>2 DEF Ahead
  <2>2. CASE n > 0
    <3> DEFINE m == n - 1
    <3>1. m \in Nat /\ n \in 1 .. n /\ m + 1 = n
          BY <1>2, <2>2
    <3>2. s[n] = d * (m % q)
          BY <3>1 DEF Circle, q
    <3> HIDE DEF m
    <3>3. (d * (m % q) + d) % (d * q) = d * ((m + 1) % q)
      <4>1. d \in Nat \ {0} /\ q \in Nat \ {0} /\ m \in Nat
            BY <1>1, <3>1
      <4> QED
          BY <4>1, RoundTheCircle, Zenon
    <3>4. x = (s[n] + d) % Length
          BY <2>2 DEF Ahead
    <3> QED
        BY <1>1, <3>1, <3>2, <3>3, <3>4
  <2> QED
      BY <1>2, <2>1, <2>2
<1>4. ASSUME NEW k \in 1 .. n + 1 PROVE t[k] = d * ((k - 1) % q)
  <2>1. CASE k = n + 1
    <3>1. k - 1 = n
          BY <1>2, <2>1
    <3> QED
        BY <1>2, <1>3, <2>1, <3>1
  <2>2. CASE k # n + 1
    <3>1. k \in 1 .. n
          BY <1>2, <2>2
    <3> QED
        BY <1>2, <3>1 DEF Circle, q
  <2> QED
      BY <2>1, <2>2
<1> QED
    BY <1>2, <1>4 DEF Circle, q, t

LEMMA CircleStep ==
  ASSUME Strided!StridesAssumption
  PROVE  WalkInv /\ CircleInv /\ [Strided!Next]_Strided!vars => CircleInv'
<1> SUFFICES ASSUME WalkInv, CircleInv, [Strided!Next]_Strided!vars PROVE CircleInv'
    OBVIOUS
<1>1. CASE Strided!Begin \/ Strided!StopClock \/ Strided!SecondLoop \/ UNCHANGED Strided!vars
  <2>1. Strided!stride' = Strided!stride /\ PlainWalk' = PlainWalk /\ PrefetchWalk' = PrefetchWalk
        BY <1>1 DEF Strided!Begin, Strided!StopClock, Strided!SecondLoop, Strided!vars,
           Strided!locals, Strided!stride, PlainWalk, PrefetchWalk
  <2> QED
      BY <2>1 DEF CircleInv
<1>2. CASE Strided!NextStride
  <2>1. PlainWalk' = <<>> /\ PrefetchWalk' = <<>>
        BY <1>2 DEF Strided!NextStride, Strided!NoReads, PlainWalk, PrefetchWalk
  <2> QED
      BY <2>1 DEF CircleInv, Circle
<1>3. CASE Strided!Read
  <2>1. /\ walked' = [walked EXCEPT ![prefetching] = Append(@, idx)] /\ nth' = nth
        /\ walked \in [BOOLEAN -> Seq(StridedElements)] /\ prefetching \in BOOLEAN
        BY <1>3 DEF Strided!Read, WalkInv, StridedShape
  <2>2. Strided!stride' = Strided!stride /\ Strided!stride \in Nat \ {0}
        BY <2>1, StepInVector DEF Strided!stride, WalkInv, StridedShape
  <2>3. PlainWalk \in Seq(StridedElements) /\ PrefetchWalk \in Seq(StridedElements)
        BY <2>1 DEF PlainWalk, PrefetchWalk
  <2>4. SUFFICES ASSUME Length % Strided!stride = 0
                 PROVE  Circle(PlainWalk', Strided!stride) /\ Circle(PrefetchWalk', Strided!stride)
        BY <2>2 DEF CircleInv
  <2>5. Circle(PlainWalk, Strided!stride) /\ Circle(PrefetchWalk, Strided!stride)
        BY <2>4 DEF CircleInv
  <2>6. CASE prefetching = FALSE
    <3>1. walked' = [walked EXCEPT ![FALSE] = Append(walked[FALSE], idx)]
          BY <2>1, <2>6
    <3>2. PlainWalk' = Append(PlainWalk, idx) /\ PrefetchWalk' = PrefetchWalk
          BY <2>1, <3>1 DEF PlainWalk, PrefetchWalk
    <3>3. idx = Ahead(PlainWalk, Strided!stride)
          BY <2>6 DEF WalkInv, Walks
    <3> QED
        BY <2>2, <2>3, <2>4, <2>5, <3>2, <3>3, CircleGrows
  <2>7. CASE prefetching = TRUE
    <3>1. walked' = [walked EXCEPT ![TRUE] = Append(walked[TRUE], idx)]
          BY <2>1, <2>7
    <3>2. PrefetchWalk' = Append(PrefetchWalk, idx) /\ PlainWalk' = PlainWalk
          BY <2>1, <3>1 DEF PlainWalk, PrefetchWalk
    <3>3. idx = Ahead(PrefetchWalk, Strided!stride)
          BY <2>7 DEF WalkInv, Walks
    <3> QED
        BY <2>2, <2>3, <2>4, <2>5, <3>2, <3>3, CircleGrows
  <2> QED
      BY <2>1, <2>6, <2>7
<1> QED
    BY <1>1, <1>2, <1>3 DEF Strided!Next, Strided!Run, Strided!Over

\* Numbers one apart have the same rest when the numbers themselves have.
LEMMA SameRest ==
  ASSUME NEW q \in Nat \ {0}, NEW k \in Nat \ {0}, NEW l \in Nat \ {0}
  PROVE  (k - 1) % q = (l - 1) % q <=> k % q = l % q
<1>1. k - 1 \in Nat /\ l - 1 \in Nat /\ (k - 1) + 1 = k /\ (l - 1) + 1 = l
      OBVIOUS
<1>2. \A n \in Nat : (n + 1) % q = IF (n % q) + 1 = q THEN 0 ELSE (n % q) + 1
      BY NextRest
<1>3. k % q = IF ((k - 1) % q) + 1 = q THEN 0 ELSE ((k - 1) % q) + 1
      BY <1>1, <1>2, Zenon
<1>4. l % q = IF ((l - 1) % q) + 1 = q THEN 0 ELSE ((l - 1) % q) + 1
      BY <1>1, <1>2, Zenon
<1>5. (k - 1) % q \in 0 .. q - 1 /\ (l - 1) % q \in 0 .. q - 1
      BY <1>1, RestInRange
<1> QED
    BY <1>3, <1>4, <1>5

LEMMA SameProduct ==
  ASSUME NEW d \in Nat \ {0}, NEW a \in Nat, NEW c \in Nat, d * a = d * c
  PROVE  a = c
OBVIOUS

LEMMA CirclesRepeat ==
  ASSUME Strided!StridesAssumption PROVE WalkInv /\ CircleInv => Strided!SmallCircle
<1> SUFFICES ASSUME WalkInv, CircleInv PROVE Strided!SmallCircle
    OBVIOUS
<1> SUFFICES ASSUME Length % Strided!stride = 0, NEW p \in BOOLEAN,
                    NEW k \in DOMAIN walked[p], NEW l \in DOMAIN walked[p]
             PROVE  walked[p][k] = walked[p][l]
                      <=> k % (Length \div Strided!stride) = l % (Length \div Strided!stride)
    BY DEF Strided!SmallCircle
<1> DEFINE q == Length \div Strided!stride
<1>1. Strided!stride \in Nat \ {0}
      BY StepInVector DEF WalkInv, StridedShape, Strided!stride
<1>2. q \in Nat \ {0}
      BY <1>1, Divides DEF Strided!StridesAssumption
<1>3. Circle(walked[p], Strided!stride)
  <2>1. Circle(PlainWalk, Strided!stride) /\ Circle(PrefetchWalk, Strided!stride)
        BY DEF CircleInv
  <2>2. CASE p = TRUE
        BY <2>1, <2>2 DEF PrefetchWalk
  <2>3. CASE p = FALSE
        BY <2>1, <2>3 DEF PlainWalk
  <2> QED
      BY <2>2, <2>3
<1>4. walked[p] \in Seq(StridedElements)
      BY DEF WalkInv, StridedShape
<1>5. k \in 1 .. Len(walked[p]) /\ l \in 1 .. Len(walked[p]) /\ Len(walked[p]) \in Nat
      BY <1>4
<1>6. walked[p][k] = Strided!stride * ((k - 1) % q) /\ walked[p][l] = Strided!stride * ((l - 1) % q)
      BY <1>3, <1>5 DEF Circle
<1> HIDE DEF q
<1>7. k \in Nat \ {0} /\ l \in Nat \ {0} /\ k - 1 \in Nat /\ l - 1 \in Nat
      BY <1>5
<1>8. (k - 1) % q \in Nat /\ (l - 1) % q \in Nat
      BY <1>2, <1>7, RestInRange
<1>9. walked[p][k] = walked[p][l] <=> (k - 1) % q = (l - 1) % q
      BY <1>1, <1>6, <1>8, SameProduct
<1>10. (k - 1) % q = (l - 1) % q <=> k % q = l % q
       BY <1>2, <1>7, SameRest
<1>11. walked[p][k] = walked[p][l] <=> k % q = l % q
       BY <1>9, <1>10
<1> QED
    BY <1>11 DEF q

\* The two together are inductive, also for a composition that takes the steps
\* of this benchmark among others.
StridedInv == WalkInv /\ CircleInv

LEMMA StridedStarts == ASSUME Strided!StridesAssumption PROVE Strided!Init => StridedInv
<1>1. Strided!Init => WalkInv
      BY WalkStart
<1>2. Strided!Init => CircleInv
      BY DEF Strided!Init, Strided!NoReads, CircleInv, Circle, PlainWalk, PrefetchWalk
<1> QED
    BY <1>1, <1>2 DEF StridedInv

LEMMA StridedGoesOn ==
  ASSUME Strided!StridesAssumption
  PROVE  StridedInv /\ [Strided!Next]_Strided!vars => StridedInv'
BY WalkStep, CircleStep DEF StridedInv

LEMMA StridedShows ==
  ASSUME Strided!StridesAssumption
  PROVE  StridedInv => Strided!SameReads /\ Strided!SmallCircle
BY WalksAlike, CirclesRepeat DEF StridedInv

\* A stride that divides the length meets the same few elements over and over.
THEOREM StridesGoRoundCircles ==
  ASSUME Strided!StridesAssumption
  PROVE  Strided!Spec => []Strided!SmallCircle
BY StridedStarts, StridedGoesOn, StridedShows, PTL DEF Strided!Spec
-----------------------------------------------------------------------------
StridedRest ==
  /\ nth = 1 /\ prefetching = FALSE /\ idx = 0
  /\ walked = Strided!NoReads /\ hinted = <<>>

StridedPart ==
  IF Inside("strided") THEN StridedInv /\ (pc = "over" => StridedRest) ELSE StridedRest

LEMMA StridedAssumed == Strided!StridesAssumption
BY SuiteAssumption

LEMMA StridedPartStart == Init => StridedPart
BY DEF Init, Strided!Init, StridedRest, StridedPart, Inside

LEMMA StridedPartStep ==
  MappedInv /\ CounterInv /\ CounterInv' /\ StridedPart /\ [Next]_vars => StridedPart'
<1> SUFFICES ASSUME MappedInv, CounterInv, CounterInv', StridedPart, [Next]_vars
             PROVE  StridedPart'
    OBVIOUS
<1>1. CASE StridedRuns
  <2>1. Inside("strided") /\ Inside("strided")' /\ Strided!Run
        BY <1>1, RunsInside DEF RunsOf, Benchmarks, StridedRuns
  <2>2. StridedInv'
        BY <2>1, StridedAssumed, StridedGoesOn DEF StridedPart, Strided!Next
  <2>3. pc' = "over" => StridedRest'
        BY <2>1 DEF Strided!Run, Strided!Begin, Strided!Read, Strided!SecondLoop,
           Strided!StopClock, Strided!NextStride, StridedRest
  <2> QED
      BY <2>1, <2>2, <2>3 DEF StridedPart
<1>2. CASE ~ StridedRuns
  <2>1. /\ UNCHANGED ofStrided
        /\ Enters("strided") \/ Leaves("strided") \/ Waits("strided") \/ Away("strided")
        BY <1>2, PartStep DEF RunsOf, Untouched, Benchmarks
  <2>2. StridedRest' <=> StridedRest
        BY <2>1 DEF StridedRest, ofStrided, Strided!NoReads
  <2>3. CASE Enters("strided")
    <3>1. StridedRest /\ Inside("strided")' /\ pc' = "begin" /\ i' = 0
          BY <2>3 DEF StridedPart, Enters
    <3>2. UNCHANGED <<nth, prefetching, idx, walked, hinted>>
          BY <2>1 DEF ofStrided
    <3>3. (Strided!Init => StridedInv)'
          BY StridedAssumed, StridedStarts, PTL
    <3>4. Strided!Init'
          BY <3>1, <3>2 DEF StridedRest, Strided!Init, Strided!NoReads
    <3> QED
        BY <2>2, <3>1, <3>3, <3>4 DEF StridedPart
  <2>4. CASE Leaves("strided") \/ Away("strided")
        BY <2>2, <2>4 DEF StridedPart, Leaves, Away
  <2>5. CASE Waits("strided")
    <3>1. [Strided!Next]_Strided!vars /\ StridedInv
          BY <2>1, <2>5 DEF Waits, ofStrided, Strided!vars, Strided!locals, StridedPart
    <3>2. StridedInv'
          BY <3>1, StridedAssumed, StridedGoesOn
    <3> QED
        BY <2>2, <2>5, <3>2 DEF StridedPart, Waits
  <2> QED
      BY <2>1, <2>3, <2>4, <2>5
<1> QED
    BY <1>1, <1>2

LEMMA StridedPartAlways == Spec => []StridedPart
BY StridedPartStart, StridedPartStep, MappedAlways, CounterAlways, PTL DEF Spec

\* The two loops of a stride read the same elements in the suite, too.
THEOREM SuiteReadsTheSame == Spec => []SameReads
<1>1. StridedPart => SameReads
      BY StridedAssumed, StridedShows DEF StridedPart, SameReads
<1> QED
    BY <1>1, StridedPartAlways, PTL

\* And each stride goes round its circle of Length / stride elements.
THEOREM SuiteGoesRoundCircles == Spec => []SmallCircle
<1>1. StridedPart => SmallCircle
      BY StridedAssumed, StridedShows DEF StridedPart, SmallCircle
<1> QED
    BY <1>1, StridedPartAlways, PTL

-----------------------------------------------------------------------------
Sweep(s) == \A k \in 1 .. Len(s) : s[k] = (k - 1) % Length

SweepInv ==
  /\ pc \in {"begin", "sequential", "random", "returned", "over"}
  /\ i \in 0 .. ACCESSES
  /\ inorder \in Seq(StridedElements) /\ jumping \in Seq(StridedElements) /\ Sweep(inorder)
  /\ pc \in {"begin", "over"} => i = 0 /\ inorder = <<>>
  /\ pc \in {"begin", "sequential", "over"} => Len(inorder) = i /\ jumping = <<>>
  /\ pc = "random" => /\ Len(inorder) = ACCESSES /\ Len(jumping) = i
                      /\ random_indices \in [0 .. ACCESSES - 1 -> StridedElements]
  /\ pc = "returned" => i = 0 /\ Len(inorder) = ACCESSES /\ Len(jumping) = ACCESSES

LEMMA SequentialAssumed == Length \in Nat \ {0} /\ ACCESSES \in Nat
BY SuiteAssumption DEF Sequential!ReadsAssumption

LEMMA SweepStarts == Sequential!Init => SweepInv
<1> SUFFICES ASSUME Sequential!Init PROVE SweepInv
    OBVIOUS
<1>1. <<>> \in Seq(StridedElements) /\ Len(<<>>) = 0
      OBVIOUS
<1> QED
    BY <1>1, SequentialAssumed DEF Sequential!Init, SweepInv, Sweep

LEMMA SweepReadStep == SweepInv /\ Sequential!Sequential => SweepInv'
<1> SUFFICES ASSUME SweepInv, Sequential!Sequential PROVE SweepInv'
    OBVIOUS
<1>1. /\ pc = "sequential" /\ pc' = "sequential" /\ i < ACCESSES /\ i' = i + 1
      /\ inorder' = Append(inorder, i % Length) /\ jumping' = jumping /\ jumping = <<>>
      /\ inorder \in Seq(StridedElements) /\ Len(inorder) = i /\ Sweep(inorder)
      BY DEF Sequential!Sequential, Sequential!Position, SweepInv
<1>2. i \in Nat /\ i' \in 0 .. ACCESSES
      BY <1>1, SequentialAssumed DEF SweepInv
<1>3. i % Length \in StridedElements
      BY <1>2, SequentialAssumed, RestInRange DEF StridedElements
<1>4. /\ inorder' \in Seq(StridedElements) /\ Len(inorder') = i + 1
      /\ inorder'[i + 1] = i % Length /\ \A k \in 1 .. i : inorder'[k] = inorder[k]
  <2> DEFINE e == i % Length
  <2>1. e \in StridedElements /\ inorder' = Append(inorder, e) /\ inorder \in Seq(StridedElements)
        BY <1>1, <1>3
  <2> HIDE DEF e
  <2>2. /\ Append(inorder, e) \in Seq(StridedElements) /\ Len(Append(inorder, e)) = Len(inorder) + 1
        /\ Append(inorder, e)[Len(inorder) + 1] = e
        /\ \A k \in 1 .. Len(inorder) : Append(inorder, e)[k] = inorder[k]
        BY <2>1
  <2> QED
      BY <1>1, <2>1, <2>2 DEF e
<1>5. ASSUME NEW k \in 1 .. i + 1 PROVE inorder'[k] = (k - 1) % Length
  <2>1. CASE k = i + 1
    <3>1. k - 1 = i
          BY <1>2, <2>1
    <3> QED
        BY <1>4, <2>1, <3>1
  <2>2. CASE k # i + 1
    <3>1. k \in 1 .. i
          BY <1>2, <2>2
    <3> QED
        BY <1>1, <1>4, <3>1 DEF Sweep
  <2> QED
      BY <2>1, <2>2
<1>6. Sweep(inorder)'
      BY <1>4, <1>5 DEF Sweep
<1> QED
    BY <1>1, <1>2, <1>4, <1>6 DEF SweepInv

LEMMA SweepJumpStep == SweepInv /\ Sequential!Random => SweepInv'
<1> SUFFICES ASSUME SweepInv, Sequential!Random PROVE SweepInv'
    OBVIOUS
<1>1. /\ pc = "random" /\ pc' = "random" /\ i < ACCESSES /\ i' = i + 1
      /\ jumping' = Append(jumping, random_indices[i]) /\ UNCHANGED <<inorder, random_indices>>
      /\ jumping \in Seq(StridedElements) /\ Len(jumping) = i
      /\ random_indices \in [0 .. ACCESSES - 1 -> StridedElements]
      BY DEF Sequential!Random, SweepInv
<1>2. i \in 0 .. ACCESSES - 1 /\ i' \in 0 .. ACCESSES
      BY <1>1, SequentialAssumed DEF SweepInv
<1>3. random_indices[i] \in StridedElements
      BY <1>1, <1>2
<1>4. jumping' \in Seq(StridedElements) /\ Len(jumping') = i + 1
      BY <1>1, <1>3
<1>5. Sweep(inorder)'
      BY <1>1 DEF SweepInv, Sweep
<1> QED
    BY <1>1, <1>2, <1>4, <1>5 DEF SweepInv

LEMMA SweepGoesOn == SweepInv /\ (Sequential!Run \/ UNCHANGED Sequential!vars) => SweepInv'
<1> SUFFICES ASSUME SweepInv, Sequential!Run \/ UNCHANGED Sequential!vars PROVE SweepInv'
    OBVIOUS
<1>0. <<>> \in Seq(StridedElements) /\ Len(<<>>) = 0 /\ ACCESSES \in Nat
      BY SequentialAssumed
<1>1. CASE Sequential!Begin \/ UNCHANGED Sequential!vars
      BY <1>1 DEF Sequential!Begin, Sequential!vars, Sequential!locals, SweepInv, Sweep
<1>2. CASE Sequential!Sequential
      BY <1>2, SweepReadStep
<1>3. CASE Sequential!Draw
  <2>1. /\ pc = "sequential" /\ pc' = "random" /\ i = ACCESSES /\ i' = 0
        /\ random_indices' \in [0 .. ACCESSES - 1 -> StridedElements]
        /\ UNCHANGED <<inorder, jumping>>
        BY <1>3 DEF Sequential!Draw, StridedElements
  <2>2. Sweep(inorder)'
        BY <2>1 DEF SweepInv, Sweep
  <2> QED
      BY <1>0, <2>1, <2>2 DEF SweepInv
<1>4. CASE Sequential!Random
      BY <1>4, SweepJumpStep
<1>5. CASE Sequential!StopClock
  <2>1. /\ pc = "random" /\ pc' = "returned" /\ i = ACCESSES /\ i' = 0
        /\ UNCHANGED <<inorder, jumping>>
        BY <1>5 DEF Sequential!StopClock, Sequential!locals
  <2>2. Sweep(inorder)'
        BY <2>1 DEF SweepInv, Sweep
  <2> QED
      BY <1>0, <2>1, <2>2 DEF SweepInv
<1>6. CASE Sequential!Return
  <2>1. /\ pc = "returned" /\ pc' = "over" /\ inorder' = <<>> /\ jumping' = <<>> /\ i' = i
        BY <1>6 DEF Sequential!Return
  <2> QED
      BY <1>0, <2>1 DEF SweepInv, Sweep
<1> QED
    BY <1>1, <1>2, <1>3, <1>4, <1>5, <1>6 DEF Sequential!Run

-----------------------------------------------------------------------------
LEMMA Division ==
  ASSUME NEW n \in Nat, NEW q \in Nat \ {0}, NEW r, n % q = r
  PROVE  \E c \in Nat : n = q * c + r
<1> DEFINE c == n \div q
<1>1. c \in Nat /\ c = n \div q
      OBVIOUS
<1>2. r = n % q
      OBVIOUS
<1> HIDE DEF c
<1>3. n = q * c + r
      BY <1>1, <1>2, QuotientAndRest
<1> QED
    BY <1>1, <1>3

LEMMA SequentialCount ==
  ASSUME NEW S PROVE Sequential!Cardinality(S) = Cardinality(S)
BY DEF Sequential!Cardinality, Cardinality

\* To each read of a belongs one of b before it: in the same round, or where b is
\* the later element in the round before.  Only the first of a may have none.
LEMMA SweepIsEven ==
  ASSUME NEW s \in Seq(StridedElements), Sweep(s),
         NEW a \in StridedElements, NEW b \in StridedElements,
         NEW A, A = {k \in DOMAIN s : s[k] = a}, NEW B, B = {k \in DOMAIN s : s[k] = b}
  PROVE  /\ IsFiniteSet(A) /\ IsFiniteSet(B)
         /\ Cardinality(A) <= Cardinality(B) + 1
<1> DEFINE m == Len(s)
<1>0. Length \in Nat \ {0} /\ a \in 0 .. Length - 1 /\ b \in 0 .. Length - 1
      BY SequentialAssumed DEF StridedElements
<1>1. m \in Nat /\ DOMAIN s = 1 .. m
      OBVIOUS
<1>2. IsFiniteSet(1 .. m) /\ A \in SUBSET (1 .. m) /\ B \in SUBSET (1 .. m)
      BY <1>1, FS_Interval
<1>3. IsFiniteSet(A) /\ IsFiniteSet(B)
      BY <1>2, FS_Subset
<1>4. Cardinality(A) \in Nat /\ Cardinality(B) \in Nat
      BY <1>3, FS_CardinalityType
<1>5. /\ A = {k \in 1 .. m : (k - 1) % Length = a}
      /\ B = {k \in 1 .. m : (k - 1) % Length = b}
      BY <1>1 DEF Sweep
<1> HIDE DEF m
<1>9. ASSUME NEW k \in A PROVE \E q \in Nat : k - 1 = Length * q + a
  <2>1. k - 1 \in Nat /\ (k - 1) % Length = a
        BY <1>1, <1>5
  <2> QED
      BY <1>0, <2>1, Division, Zenon
\* Reads of a are moved to reads of b, c elements before them.
<1>6. ASSUME NEW c \in Nat, NEW C \in SUBSET A,
             \A k \in C : k - c \in 1 .. m /\ (k - c - 1) % Length = b
      PROVE  Cardinality(C) <= Cardinality(B)
  <2> DEFINE move == [k \in C |-> k - c]
  <2>1. \A k \in C : k \in Int
        BY <1>2, <1>6
  <2>2. move \in [C -> B]
        BY <1>5, <1>6
  <2>3. move \in Injection(C, B)
        BY <2>1, <2>2 DEF Injection, IsInjective
  <2> QED
      BY <1>3, <2>3, FS_Injection
<1>7. CASE b <= a
  <2>1. ASSUME NEW k \in A PROVE k - (a - b) \in 1 .. m /\ (k - (a - b) - 1) % Length = b
    <3>1. k \in 1 .. m /\ k - 1 \in Nat
          BY <1>1, <1>5
    <3>2. PICK q \in Nat : k - 1 = Length * q + a
          BY <1>9
    <3>3. Length * q \in Nat
          BY <1>0, <3>2
    <3>4. k - (a - b) - 1 = Length * q + b
          BY <1>0, <3>1, <3>2, <3>3
    <3>5. (Length * q + b) % Length = b
          BY <1>0, <3>2, RestIsUnique, Zenon
    <3>6. k - (a - b) \in 1 .. m
          BY <1>0, <1>1, <1>7, <3>1, <3>3, <3>4
    <3> QED
        BY <3>4, <3>5, <3>6
  <2>2. a - b \in Nat
        BY <1>0, <1>7
  <2>3. Cardinality(A) <= Cardinality(B)
        BY <1>6, <2>1, <2>2
  <2> QED
      BY <1>3, <1>4, <2>3
<1>8. CASE a < b
  <2> DEFINE c == Length - (b - a)
             C == A \ {a + 1}
  <2>1. ASSUME NEW k \in C PROVE k - c \in 1 .. m /\ (k - c - 1) % Length = b
    <3>0. k \in 1 .. m /\ k # a + 1
          BY <1>5
    <3>1. k - 1 \in Nat
          BY <1>1, <3>0
    <3>2. PICK q \in Nat : k - 1 = Length * q + a
          BY <1>9
    <3>3. q # 0
      <4>1. Length * 0 = 0
            BY <1>0
      <4> QED
          BY <1>0, <3>0, <3>1, <3>2, <4>1
    <3>4. PICK p \in Nat : q = p + 1
      <4>1. q - 1 \in Nat /\ q = (q - 1) + 1
            BY <3>2, <3>3
      <4> QED
          BY <4>1
    <3>5. Length * q = Length * p + Length /\ Length * p \in Nat
          BY <1>0, <3>4
    <3>6. k - c - 1 = Length * p + b
          BY <1>0, <3>0, <3>2, <3>5
    <3>7. (Length * p + b) % Length = b
          BY <1>0, <3>4, RestIsUnique, Zenon
    <3>8. k - c \in 1 .. m
          BY <1>0, <1>1, <1>8, <3>0, <3>5, <3>6
    <3> QED
        BY <3>6, <3>7, <3>8
  <2>2. c \in Nat /\ C \in SUBSET A
        BY <1>0, <1>8
  <2> HIDE DEF c
  <2>3. Cardinality(C) <= Cardinality(B)
        BY <1>6, <2>1, <2>2
  <2>4. IsFiniteSet(C) /\ Cardinality(A) <= Cardinality(C) + 1
    <3>1. /\ IsFiniteSet(A \ {a + 1})
          /\ Cardinality(A \ {a + 1})
               = IF a + 1 \in A THEN Cardinality(A) - 1 ELSE Cardinality(A)
          BY <1>3, FS_RemoveElement, Zenon
    <3> QED
        BY <1>4, <3>1
  <2>5. Cardinality(C) \in Nat
        BY <2>4, FS_CardinalityType
  <2> QED
      BY <1>3, <1>4, <2>3, <2>4, <2>5
<1> QED
    BY <1>0, <1>7, <1>8

LEMMA SweepShows == SweepInv => Sequential!EvenSweep
<1> SUFFICES ASSUME SweepInv PROVE Sequential!EvenSweep
    OBVIOUS
<1>1. /\ inorder \in Seq(StridedElements) /\ jumping \in Seq(StridedElements) /\ Sweep(inorder)
      BY DEF SweepInv
<1>2. ASSUME NEW a \in StridedElements, NEW b \in StridedElements
      PROVE  Sequential!Reads(a) <= Sequential!Reads(b) + 1
  <2> DEFINE A == {k \in DOMAIN inorder : inorder[k] = a}
             B == {k \in DOMAIN inorder : inorder[k] = b}
  <2>1. Cardinality(A) <= Cardinality(B) + 1
        BY <1>1, SweepIsEven
  <2>2. Sequential!Reads(a) = Cardinality(A) /\ Sequential!Reads(b) = Cardinality(B)
        BY SequentialCount DEF Sequential!Reads
  <2> QED
      BY <2>1, <2>2
<1>3. ASSUME pc = "returned", ACCESSES >= Length, NEW k \in DOMAIN jumping
      PROVE  Sequential!Reads(jumping[k]) > 0
  <2> DEFINE a == jumping[k]
             A == {l \in DOMAIN inorder : inorder[l] = a}
  <2>1. a \in 0 .. Length - 1 /\ a \in StridedElements
    <3>1. jumping[k] \in StridedElements
          BY <1>1, <1>3
    <3> QED
        BY <3>1 DEF StridedElements
  <2>2. Len(inorder) = ACCESSES /\ DOMAIN inorder = 1 .. ACCESSES
        BY <1>1, <1>3 DEF SweepInv
  <2> HIDE DEF a
  <2>3. a + 1 \in 1 .. ACCESSES /\ (a + 1) - 1 = a /\ a % Length = a
        BY <1>3, <2>1, SequentialAssumed
  <2>4. a + 1 \in A
        BY <1>1, <2>2, <2>3 DEF Sweep
  <2>5. IsFiniteSet(A)
        BY <1>1, <2>1, SweepIsEven
  <2>6. Cardinality(A) \in Nat /\ Cardinality(A) # 0
        BY <2>4, <2>5, FS_CardinalityType, FS_EmptySet
  <2>7. Cardinality(A) > 0
        BY <2>6
  <2> QED
      BY <2>7, SequentialCount DEF Sequential!Reads, a
<1>4. pc = "returned" => Len(jumping) = Len(inorder)
      BY DEF SweepInv
<1> QED
    BY <1>2, <1>3, <1>4 DEF Sequential!EvenSweep, StridedElements

SweepRest == random_indices = <<>> /\ inorder = <<>> /\ jumping = <<>>

SweepPart ==
  IF Inside("sequential and random") THEN SweepInv /\ (pc = "over" => SweepRest) ELSE SweepRest

LEMMA SweepPartStart == Init => SweepPart
BY DEF Init, Sequential!Init, SweepRest, SweepPart, Inside

LEMMA SweepPartStep ==
  MappedInv /\ CounterInv /\ CounterInv' /\ SweepPart /\ [Next]_vars => SweepPart'
<1> SUFFICES ASSUME MappedInv, CounterInv, CounterInv', SweepPart, [Next]_vars PROVE SweepPart'
    OBVIOUS
<1> DEFINE part == "sequential and random"
<1>1. CASE SequentialRuns
  <2>1. Inside(part) /\ Inside(part)' /\ Sequential!Run
        BY <1>1, RunsInside DEF RunsOf, Benchmarks, SequentialRuns
  <2>2. SweepInv'
        BY <2>1, SweepGoesOn DEF SweepPart
  <2>3. pc' = "over" => SweepRest'
        BY <2>1 DEF Sequential!Run, Sequential!Begin, Sequential!Sequential, Sequential!Draw,
           Sequential!Random, Sequential!StopClock, Sequential!Return, SweepRest
  <2> QED
      BY <2>1, <2>2, <2>3 DEF SweepPart
<1>2. CASE ~ SequentialRuns
  <2>1. /\ UNCHANGED ofSequential
        /\ Enters(part) \/ Leaves(part) \/ Waits(part) \/ Away(part)
        BY <1>2, PartStep DEF RunsOf, Untouched, Benchmarks
  <2>2. SweepRest' <=> SweepRest
        BY <2>1 DEF SweepRest, ofSequential
  <2>3. CASE Enters(part)
    <3>1. SweepRest /\ Inside(part)' /\ pc' = "begin" /\ i' = 0
          BY <2>3 DEF SweepPart, Enters
    <3>2. (Sequential!Init => SweepInv)'
          BY SweepStarts, PTL
    <3>3. Sequential!Init'
          BY <2>1, <3>1 DEF SweepRest, ofSequential, Sequential!Init
    <3> QED
        BY <2>2, <3>1, <3>2, <3>3 DEF SweepPart
  <2>4. CASE Leaves(part) \/ Away(part)
        BY <2>2, <2>4 DEF SweepPart, Leaves, Away
  <2>5. CASE Waits(part)
    <3>1. UNCHANGED Sequential!vars /\ SweepInv
          BY <2>1, <2>5 DEF Waits, ofSequential, Sequential!vars, Sequential!locals, SweepPart
    <3>2. SweepInv'
          BY <3>1, SweepGoesOn
    <3> QED
        BY <2>2, <2>5, <3>2 DEF SweepPart, Waits
  <2> QED
      BY <2>1, <2>3, <2>4, <2>5
<1> QED
    BY <1>1, <1>2

LEMMA SweepPartAlways == Spec => []SweepPart
BY SweepPartStart, SweepPartStep, MappedAlways, CounterAlways, PTL DEF Spec

\* The index of the sequential loop goes round: no element is read twice more than
\* another, and the random loop of cache_lines.h makes as many reads and, where
\* they suffice for a round, of elements read before.
THEOREM SweepsAreEven == Spec => []EvenSweep
<1>1. SweepPart => EvenSweep
      BY SweepShows DEF SweepPart, EvenSweep
<1> QED
    BY <1>1, SweepPartAlways, PTL

-----------------------------------------------------------------------------
\* Each node up to the m-th of the order points to the one after it.
Linked(m) == \A j \in 0 .. m - 1 : next[order[j]] = order[j + 1]

\* A walk round the ring from the first node of the order, the node it comes to
\* next, and the node d steps from x.
GoesRound(s, first, link) ==
  /\ Len(s) > 0 => s[1] = first
  /\ \A k \in 1 .. Len(s) - 1 : s[k + 1] = link[s[k]]

ComesTo(s, first, link) == IF Len(s) = 0 THEN first ELSE link[s[Len(s)]]

Target(d, x, link) == IF d = 0 THEN Null ELSE IF d = 1 THEN link[x] ELSE link[link[x]]

Walking == pc \in {"warmup", "measure", "returned"}

ListShape ==
  /\ pc \in {"begin", "link", "warmup", "measure", "returned", "over"}
  /\ i \in Nat /\ ahead \in List!Distance
  /\ walk \in [List!Distance -> Seq(List!Nodes)]
  /\ fetched \in Seq(List!Nodes \cup {Null})
  /\ pc \notin {"begin", "over"} =>
       /\ nodes_at \in {0, 16, 32, 48} /\ order \in [List!Nodes -> List!Nodes]
       /\ \A a, b \in List!Nodes : order[a] = order[b] => a = b
  /\ ~ Walking => current = Null /\ ahead = 0 /\ walk = List!NoWalks /\ fetched = <<>>

\* What has been linked: in the end every node, and the last to the first.
Ring ==
  /\ pc = "begin" => i = 0
  /\ pc = "link" => /\ i \in 0 .. NUM_NODES - 1 /\ Linked(i)
                    /\ next \in [List!Nodes -> List!Nodes \cup {Null}]
  /\ Walking => /\ next \in [List!Nodes -> List!Nodes] /\ current \in List!Nodes
                /\ Linked(NUM_NODES - 1) /\ next[order[NUM_NODES - 1]] = order[0]

\* The walks go round the ring, and what the current one has prefetched.
RingWalks ==
  /\ \A d \in List!Distance : /\ GoesRound(walk[d], order[0], next)
                              /\ d < ahead => Len(walk[d]) = TRAVERSALS
                              /\ d > ahead => walk[d] = <<>>
  /\ pc = "warmup" => walk[ahead] = <<>>
  /\ pc = "measure" => /\ i <= TRAVERSALS /\ Len(walk[ahead]) = i
                       /\ current = ComesTo(walk[ahead], order[0], next)
  /\ pc = "returned" => ahead = 2 /\ Len(walk[ahead]) = TRAVERSALS
  /\ Len(fetched) = Len(walk[ahead])
  /\ \A k \in 1 .. Len(fetched) : fetched[k] = Target(ahead, walk[ahead][k], next)

ListInv == ListShape /\ Ring /\ RingWalks

-----------------------------------------------------------------------------
LEMMA ListAssumed ==
  /\ NUM_NODES \in Nat \ {0} /\ TRAVERSALS \in Nat /\ LIST_WARMUP \in Nat /\ Null \notin Nat
  /\ 0 \in List!Nodes /\ NUM_NODES - 1 \in List!Nodes
BY SuiteAssumption DEF List!ListAssumption, List!Nodes

\* An order of all the nodes meets each of them.
LEMMA OrderMeetsAll ==
  ASSUME order \in [List!Nodes -> List!Nodes],
         \A a, b \in List!Nodes : order[a] = order[b] => a = b,
         NEW x \in List!Nodes
  PROVE  \E j \in List!Nodes : order[j] = x
<1>1. IsFiniteSet(List!Nodes)
      BY ListAssumed, FS_Interval DEF List!Nodes
<1>2. order \in Injection(List!Nodes, List!Nodes)
      BY DEF Injection, IsInjective
<1>3. order \in Surjection(List!Nodes, List!Nodes)
      BY <1>1, <1>2, FS_Injection
<1> QED
    BY <1>3 DEF Surjection

LEMMA NoWalksAtAll ==
  /\ List!NoWalks \in [List!Distance -> Seq(List!Nodes)]
  /\ \A d \in List!Distance : List!NoWalks[d] = <<>>
  /\ <<>> \in Seq(List!Nodes \cup {Null}) /\ Len(<<>>) = 0
  /\ GoesRound(<<>>, order[0], next) /\ ComesTo(<<>>, order[0], next) = order[0]
BY DEF List!NoWalks, GoesRound, ComesTo

LEMMA NoWalkYet ==
  ASSUME walk = List!NoWalks, fetched = <<>>, ahead = 0, ~ Walking
  PROVE  RingWalks
<1>1. 0 \in List!Distance /\ walk[0] = <<>>
      BY NoWalksAtAll DEF List!Distance
<1> QED
    BY <1>1, NoWalksAtAll DEF RingWalks, Walking, List!Distance

LEMMA ListStarts == List!Init => ListInv
<1> SUFFICES ASSUME List!Init PROVE ListInv
    OBVIOUS
<1>1. ~ Walking /\ pc = "begin"
      BY DEF List!Init, Walking
<1>2. ListShape
      BY <1>1, NoWalksAtAll DEF List!Init, ListShape, List!Distance
<1>3. Ring
      BY <1>1 DEF List!Init, Ring
<1>4. RingWalks
      BY <1>1, NoWalkYet DEF List!Init
<1> QED
    BY <1>2, <1>3, <1>4 DEF ListInv

LEMMA LinkStep == ListInv /\ List!Link => ListInv'
<1> SUFFICES ASSUME ListInv, List!Link PROVE ListInv'
    OBVIOUS
<1>1. /\ pc = "link" /\ pc' = "link" /\ i < NUM_NODES - 1 /\ i' = i + 1
      /\ next' = [next EXCEPT ![order[i]] = order[i + 1]]
      /\ UNCHANGED <<nodes_at, order, ahead, current, walk, fetched>>
      BY DEF List!Link, List!log
<1>2. ~ Walking /\ ~ Walking'
      BY <1>1 DEF Walking
<1>3. /\ i \in List!Nodes /\ i + 1 \in List!Nodes /\ i' \in 0 .. NUM_NODES - 1
      /\ order[i] \in List!Nodes /\ order[i + 1] \in List!Nodes
      BY <1>1, ListAssumed DEF ListInv, ListShape, Ring, List!Nodes
<1>4. next \in [List!Nodes -> List!Nodes \cup {Null}]
      BY <1>1 DEF ListInv, Ring
<1>5. next' \in [List!Nodes -> List!Nodes \cup {Null}]
      BY <1>1, <1>3, <1>4
<1>6. ASSUME NEW j \in 0 .. i' - 1 PROVE next'[order'[j]] = order'[j + 1]
  <2>1. j \in 0 .. i /\ j \in List!Nodes
        BY <1>1, <1>3, ListAssumed DEF List!Nodes
  <2>2. order[j] \in List!Nodes
        BY <1>1, <2>1 DEF ListInv, ListShape
  <2>3. CASE j = i
        BY <1>1, <1>3, <1>4, <2>3
  <2>4. CASE j # i
    <3>1. order[j] # order[i] /\ j \in 0 .. i - 1
          BY <1>1, <1>3, <2>1, <2>4 DEF ListInv, ListShape
    <3>2. next[order[j]] = order[j + 1]
          BY <1>1, <3>1 DEF ListInv, Ring, Linked
    <3> QED
        BY <1>1, <1>4, <2>2, <3>1, <3>2
  <2> QED
      BY <2>3, <2>4
<1>7. Linked(i)'
      BY <1>6 DEF Linked
<1>8. ListShape'
      BY <1>1, <1>2, <1>3, ListAssumed DEF ListInv, ListShape
<1>9. Ring'
      BY <1>1, <1>2, <1>3, <1>5, <1>7 DEF Ring
<1>10. RingWalks'
  <2>1. walk = List!NoWalks /\ fetched = <<>> /\ ahead = 0
        BY <1>2 DEF ListInv, ListShape
  <2>2. (walk = List!NoWalks /\ fetched = <<>> /\ ahead = 0 /\ ~ Walking => RingWalks)'
        BY NoWalkYet, PTL
  <2>3. walk' = List!NoWalks /\ fetched' = <<>> /\ ahead' = 0
        BY <1>1, <2>1
  <2> QED
      BY <1>2, <2>2, <2>3
<1> QED
    BY <1>8, <1>9, <1>10 DEF ListInv

LEMMA CloseStep == ListInv /\ List!Close => ListInv'
<1> SUFFICES ASSUME ListInv, List!Close PROVE ListInv'
    OBVIOUS
<1> DEFINE last == NUM_NODES - 1
<1>1. /\ pc = "link" /\ pc' = "warmup" /\ i = last /\ i' = 0 /\ current' = order[0]
      /\ next' = [next EXCEPT ![order[last]] = order[0]]
      /\ UNCHANGED <<nodes_at, order, ahead, walk, fetched>>
      BY DEF List!Close, List!log
<1>2. ~ Walking /\ Walking'
      BY <1>1 DEF Walking
<1>3. /\ order \in [List!Nodes -> List!Nodes]
      /\ \A a, b \in List!Nodes : order[a] = order[b] => a = b
      /\ next \in [List!Nodes -> List!Nodes \cup {Null}] /\ Linked(last)
      /\ ahead = 0 /\ walk = List!NoWalks /\ fetched = <<>>
      BY <1>1, <1>2 DEF ListInv, ListShape, Ring
<1>4. /\ 0 \in List!Nodes /\ last \in List!Nodes /\ order[0] \in List!Nodes
      /\ order[last] \in List!Nodes
      BY <1>3, ListAssumed
<1>5. next'[order[last]] = order[0]
      BY <1>1, <1>3, <1>4
<1>6. ASSUME NEW j \in 0 .. last - 1
      PROVE  /\ next'[order[j]] = order[j + 1] /\ order[j + 1] \in List!Nodes
  <2>1. j \in List!Nodes /\ j + 1 \in List!Nodes /\ j # last
        BY <1>4, ListAssumed DEF List!Nodes
  <2>2. order[j] # order[last] /\ order[j] \in List!Nodes /\ order[j + 1] \in List!Nodes
        BY <1>3, <1>4, <2>1
  <2>3. next[order[j]] = order[j + 1]
        BY <1>3 DEF Linked
  <2> QED
      BY <1>1, <1>3, <2>2, <2>3
<1>7. ASSUME NEW x \in List!Nodes PROVE next'[x] \in List!Nodes
  <2>1. PICK j \in List!Nodes : order[j] = x
        BY <1>3, OrderMeetsAll
  <2>2. j = last \/ j \in 0 .. last - 1
        BY ListAssumed DEF List!Nodes
  <2> QED
      BY <1>4, <1>5, <1>6, <2>1, <2>2
<1>8. next' \in [List!Nodes -> List!Nodes]
  <2>1. DOMAIN next' = List!Nodes /\ next' = [x \in List!Nodes |-> next'[x]]
        BY <1>1, <1>3
  <2> QED
      BY <1>7, <2>1
<1>9. Linked(last)'
      BY <1>1, <1>6 DEF Linked
<1>10. ListShape'
       BY <1>1, <1>2, <1>3 DEF ListInv, ListShape
<1>11. Ring'
       BY <1>1, <1>2, <1>4, <1>5, <1>8, <1>9 DEF Ring
<1>12. RingWalks'
  <2>1. walk'[ahead'] = <<>> /\ \A d \in List!Distance : walk'[d] = <<>> /\ ~ (d < ahead')
        BY <1>1, <1>3, NoWalksAtAll DEF List!Distance
  <2>2. (GoesRound(<<>>, order[0], next))'
        BY NoWalksAtAll, PTL
  <2> QED
      BY <1>1, <1>3, <2>1, <2>2, NoWalksAtAll DEF RingWalks, GoesRound
<1> QED
    BY <1>10, <1>11, <1>12 DEF ListInv

\* The list does not change while it is walked.
LEMMA ListStays ==
  ASSUME ListInv, Walking, UNCHANGED <<nodes_at, order, next>>
  PROVE  /\ next \in [List!Nodes -> List!Nodes] /\ order[0] \in List!Nodes
         /\ (Linked(NUM_NODES - 1))' /\ (next[order[NUM_NODES - 1]] = order[0])'
<1>1. order \in [List!Nodes -> List!Nodes]
      BY DEF ListInv, ListShape, Walking
<1>2. order[0] \in List!Nodes
      BY <1>1, ListAssumed
<1> QED
    BY <1>2 DEF ListInv, Ring, Linked, GoesRound

LEMMA WarmupStep == ListInv /\ (List!Warmup \/ List!StartClock) => ListInv'
<1> SUFFICES ASSUME ListInv, List!Warmup \/ List!StartClock PROVE ListInv'
    OBVIOUS
<1>1. /\ pc = "warmup" /\ pc' \in {"warmup", "measure"} /\ i' \in Nat
      /\ pc' = "measure" => i' = 0 /\ current' = order[0]
      /\ current' \in {next[current], order[0]}
      /\ UNCHANGED <<nodes_at, order, next, ahead, walk, fetched>>
      BY DEF List!Warmup, List!StartClock, List!list, List!log, ListInv, ListShape
<1>2. Walking /\ Walking'
      BY <1>1 DEF Walking
<1>3. /\ next \in [List!Nodes -> List!Nodes] /\ order[0] \in List!Nodes
      /\ (Linked(NUM_NODES - 1))' /\ (next[order[NUM_NODES - 1]] = order[0])'
      BY <1>1, <1>2, ListStays
<1>4. current \in List!Nodes /\ current' \in List!Nodes
      BY <1>1, <1>2, <1>3 DEF ListInv, Ring
<1>5. ListShape'
      BY <1>1, <1>2 DEF ListInv, ListShape
<1>6. Ring'
      BY <1>1, <1>2, <1>3, <1>4 DEF Ring
<1>7. RingWalks'
  <2>1. /\ \A d \in List!Distance : /\ GoesRound(walk[d], order[0], next)
                                    /\ d < ahead => Len(walk[d]) = TRAVERSALS
                                    /\ d > ahead => walk[d] = <<>>
        /\ walk[ahead] = <<>> /\ Len(walk[ahead]) = 0
        /\ Len(fetched) = Len(walk[ahead])
        BY <1>1, NoWalksAtAll DEF ListInv, RingWalks
  <2>2. \A d \in List!Distance : GoesRound(walk[d], order[0], next)' 
        BY <1>1, <1>3, <2>1
  <2>3. pc' = "measure" => /\ i' <= TRAVERSALS /\ Len(walk'[ahead']) = i'
                           /\ current' = ComesTo(walk[ahead], order[0], next)'
        BY <1>1, <2>1, ListAssumed DEF ComesTo
  <2>4. \A k \in 1 .. Len(fetched') : fetched'[k] = Target(ahead, walk[ahead][k], next)'
        BY <1>1, <2>1
  <2> QED
      BY <1>1, <2>1, <2>2, <2>3, <2>4 DEF RingWalks
<1> QED
    BY <1>5, <1>6, <1>7 DEF ListInv

\* A walk grows by the node it comes to next.
LEMMA RoundGrows ==
  ASSUME NEW s \in Seq(List!Nodes), NEW x \in List!Nodes,
         GoesRound(s, order[0], next), x = ComesTo(s, order[0], next)
  PROVE  /\ Append(s, x) \in Seq(List!Nodes) /\ Len(Append(s, x)) = Len(s) + 1
         /\ \A k \in 1 .. Len(s) : Append(s, x)[k] = s[k]
         /\ Append(s, x)[Len(s) + 1] = x
         /\ GoesRound(Append(s, x), order[0], next)
         /\ ComesTo(Append(s, x), order[0], next) = next[x]
<1> DEFINE t == Append(s, x)
<1>1. Len(s) \in Nat
      OBVIOUS
<1>2. /\ t \in Seq(List!Nodes) /\ Len(t) = Len(s) + 1
      /\ \A k \in 1 .. Len(s) : t[k] = s[k]
      /\ t[Len(s) + 1] = x
      OBVIOUS
<1> HIDE DEF t
<1>3. t[1] = order[0]
  <2>1. CASE Len(s) = 0
        BY <1>2, <2>1 DEF ComesTo
  <2>2. CASE Len(s) > 0
        BY <1>1, <1>2, <2>2 DEF GoesRound
  <2> QED
      BY <1>1, <2>1, <2>2
<1>4. ASSUME NEW k \in 1 .. Len(t) - 1 PROVE t[k + 1] = next[t[k]]
  <2>1. CASE k = Len(s)
        BY <1>1, <1>2, <2>1 DEF ComesTo
  <2>2. CASE k # Len(s)
    <3>1. k \in 1 .. Len(s) - 1 /\ k + 1 \in 1 .. Len(s) /\ k \in 1 .. Len(s)
          BY <1>1, <1>2, <2>2
    <3>2. s[k + 1] = next[s[k]]
          BY <3>1 DEF GoesRound
    <3> QED
        BY <1>2, <3>1, <3>2
  <2> QED
      BY <2>1, <2>2
<1>5. GoesRound(t, order[0], next)
      BY <1>3, <1>4 DEF GoesRound
<1>6. ComesTo(t, order[0], next) = next[x]
      BY <1>1, <1>2 DEF ComesTo
<1> QED
    BY <1>2, <1>5, <1>6 DEF t

\* What a step at node x prefetches.
LEMMA FetchIsTarget ==
  ASSUME ahead \in List!Distance, current \in List!Nodes, next \in [List!Nodes -> List!Nodes]
  PROVE  /\ List!Fetch = Target(ahead, current, next)
         /\ List!Fetch \in List!Nodes \cup {Null}
<1>1. next[current] \in List!Nodes /\ next[next[current]] \in List!Nodes
      OBVIOUS
<1>2. next[current] # Null
      BY <1>1, ListAssumed DEF List!Nodes
<1> QED
    BY <1>1, <1>2 DEF List!Fetch, Target, List!Distance

LEMMA MeasureStep == ListInv /\ List!Measure => ListInv'
<1> SUFFICES ASSUME ListInv, List!Measure PROVE ListInv'
    OBVIOUS
<1>1. /\ pc = "measure" /\ pc' = "measure" /\ i < TRAVERSALS /\ i' = i + 1
      /\ walk' = [walk EXCEPT ![ahead] = Append(walk[ahead], current)]
      /\ fetched' = Append(fetched, List!Fetch) /\ current' = next[current]
      /\ UNCHANGED <<nodes_at, order, next, ahead>>
      BY DEF List!Measure, List!list
<1>2. Walking /\ Walking'
      BY <1>1 DEF Walking
<1>3. /\ next \in [List!Nodes -> List!Nodes] /\ order[0] \in List!Nodes
      /\ (Linked(NUM_NODES - 1))' /\ (next[order[NUM_NODES - 1]] = order[0])'
      BY <1>1, <1>2, ListStays
<1>4. /\ current \in List!Nodes /\ ahead \in List!Distance /\ i \in Nat
      /\ walk \in [List!Distance -> Seq(List!Nodes)] /\ fetched \in Seq(List!Nodes \cup {Null})
      BY <1>2 DEF ListInv, ListShape, Ring
<1>5. current' \in List!Nodes
      BY <1>1, <1>3, <1>4
<1> DEFINE s == walk[ahead]
           t == Append(s, current)
<1>6. /\ s \in Seq(List!Nodes) /\ GoesRound(s, order[0], next) /\ Len(s) = i
      /\ current = ComesTo(s, order[0], next)
      /\ Len(fetched) = i
      /\ \A k \in 1 .. Len(fetched) : fetched[k] = Target(ahead, s[k], next)
      BY <1>1, <1>4 DEF ListInv, RingWalks
<1> HIDE DEF s
<1>7. /\ t \in Seq(List!Nodes) /\ Len(t) = i + 1 /\ t[i + 1] = current
      /\ \A k \in 1 .. i : t[k] = s[k]
      /\ GoesRound(t, order[0], next) /\ ComesTo(t, order[0], next) = next[current]
      BY <1>4, <1>6, RoundGrows
<1>8. List!Fetch = Target(ahead, current, next) /\ List!Fetch \in List!Nodes \cup {Null}
      BY <1>3, <1>4, FetchIsTarget
<1>9. /\ fetched' \in Seq(List!Nodes \cup {Null}) /\ Len(fetched') = i + 1
      /\ fetched'[i + 1] = List!Fetch /\ \A k \in 1 .. i : fetched'[k] = fetched[k]
  <2>1. /\ Append(fetched, List!Fetch) \in Seq(List!Nodes \cup {Null})
        /\ Len(Append(fetched, List!Fetch)) = Len(fetched) + 1
        /\ Append(fetched, List!Fetch)[Len(fetched) + 1] = List!Fetch
        /\ \A k \in 1 .. Len(fetched) : Append(fetched, List!Fetch)[k] = fetched[k]
        BY <1>4, <1>8
  <2> QED
      BY <1>1, <1>6, <2>1
<1> HIDE DEF t
<1>10. /\ walk' \in [List!Distance -> Seq(List!Nodes)] /\ walk'[ahead'] = t
       /\ \A d \in List!Distance : d # ahead => walk'[d] = walk[d]
  <2>1. walk' = [walk EXCEPT ![ahead] = t] /\ ahead' = ahead
        BY <1>1 DEF s, t
  <2> QED
      BY <1>4, <1>7, <2>1
<1>11. ListShape'
       BY <1>1, <1>2, <1>4, <1>9, <1>10 DEF ListInv, ListShape
<1>12. Ring'
       BY <1>1, <1>2, <1>3, <1>5 DEF Ring
<1>13. RingWalks'
  <2>1. ASSUME NEW d \in List!Distance
        PROVE  /\ GoesRound(walk[d], order[0], next)'
               /\ d < ahead' => Len(walk'[d]) = TRAVERSALS
               /\ d > ahead' => walk'[d] = <<>>
    <3>1. CASE d = ahead
      <4>1. GoesRound(walk[d], order[0], next)' 
            BY <1>1, <1>3, <1>7, <1>10, <3>1
      <4>2. ahead' = ahead /\ ~ (ahead < ahead) /\ ~ (ahead > ahead)
            BY <1>1, <1>4 DEF List!Distance
      <4> QED
          BY <3>1, <4>1, <4>2
    <3>2. CASE d # ahead
      <4>1. walk'[d] = walk[d] /\ ahead' = ahead
            BY <1>1, <1>10, <3>2
      <4>2. /\ GoesRound(walk[d], order[0], next)
            /\ d < ahead => Len(walk[d]) = TRAVERSALS
            /\ d > ahead => walk[d] = <<>>
            BY DEF ListInv, RingWalks
      <4> QED
          BY <1>1, <4>1, <4>2
    <3> QED
        BY <3>1, <3>2
  <2>2. /\ i' <= TRAVERSALS /\ Len(walk'[ahead']) = i'
        /\ current' = ComesTo(walk[ahead], order[0], next)'
        BY <1>1, <1>4, <1>7, <1>10, ListAssumed DEF ComesTo
  <2>3. ASSUME NEW k \in 1 .. i + 1 PROVE fetched'[k] = Target(ahead, walk[ahead][k], next)'
    <3>1. CASE k = i + 1
          BY <1>1, <1>7, <1>8, <1>9, <1>10, <3>1 DEF Target
    <3>2. CASE k # i + 1
      <4>1. k \in 1 .. i
            BY <1>4, <3>2
      <4>2. fetched[k] = Target(ahead, s[k], next) /\ t[k] = s[k] /\ fetched'[k] = fetched[k]
            BY <1>6, <1>7, <1>9, <4>1
      <4>3. walk'[ahead'][k] = t[k] /\ ahead' = ahead /\ next' = next
            BY <1>1, <1>10
      <4> QED
          BY <4>2, <4>3
    <3> QED
        BY <3>1, <3>2
  <2> QED
      BY <1>1, <1>7, <1>9, <1>10, <2>1, <2>2, <2>3 DEF RingWalks
<1> QED
    BY <1>11, <1>12, <1>13 DEF ListInv

LEMMA NextWalkStep == ListInv /\ (List!NextWalk \/ List!Finish) => ListInv'
<1> SUFFICES ASSUME ListInv, List!NextWalk \/ List!Finish PROVE ListInv'
    OBVIOUS
<1>1. /\ pc = "measure" /\ i = TRAVERSALS /\ i' = 0
      /\ UNCHANGED <<nodes_at, order, next, walk>>
      BY DEF List!NextWalk, List!Finish, List!locals, List!list, List!log
<1>2. \/ /\ ahead < 2 /\ ahead' = ahead + 1 /\ pc' = "warmup" /\ current' = order[0]
         /\ fetched' = <<>>
      \/ /\ ahead = 2 /\ ahead' = 2 /\ pc' = "returned"
         /\ UNCHANGED <<current, fetched>>
      BY DEF List!NextWalk, List!Finish, List!locals, List!log
<1>3. Walking /\ Walking'
      BY <1>1, <1>2 DEF Walking
<1>4. /\ next \in [List!Nodes -> List!Nodes] /\ order[0] \in List!Nodes
      /\ (Linked(NUM_NODES - 1))' /\ (next[order[NUM_NODES - 1]] = order[0])'
      BY <1>1, <1>3, ListStays
<1>5. current \in List!Nodes /\ ahead \in List!Distance
      BY <1>3 DEF ListInv, ListShape, Ring
<1>6. current' \in List!Nodes /\ ahead' \in List!Distance
      BY <1>2, <1>4, <1>5 DEF List!Distance
<1>7. ListShape'
      BY <1>1, <1>2, <1>3, <1>6, NoWalksAtAll DEF ListInv, ListShape
<1>8. Ring'
      BY <1>1, <1>2, <1>3, <1>4, <1>6 DEF Ring
<1>9. RingWalks'
  <2>1. /\ \A d \in List!Distance : /\ GoesRound(walk[d], order[0], next)
                                    /\ d < ahead => Len(walk[d]) = TRAVERSALS
                                    /\ d > ahead => walk[d] = <<>>
        /\ Len(walk[ahead]) = TRAVERSALS
        /\ Len(fetched) = Len(walk[ahead])
        /\ \A k \in 1 .. Len(fetched) : fetched[k] = Target(ahead, walk[ahead][k], next)
        BY <1>1 DEF ListInv, RingWalks
  <2>2. \A d \in List!Distance : GoesRound(walk[d], order[0], next)' 
        BY <1>1, <1>4, <2>1
  <2>3. ASSUME NEW d \in List!Distance
        PROVE  /\ d < ahead' => Len(walk'[d]) = TRAVERSALS
               /\ d > ahead' => walk'[d] = <<>>
        BY <1>1, <1>2, <1>5, <2>1 DEF List!Distance
  <2>4. CASE pc' = "warmup"
    <3>1. walk'[ahead'] = <<>> /\ fetched' = <<>>
          BY <1>1, <1>2, <1>5, <2>1, <2>4 DEF List!Distance
    <3> QED
        BY <2>2, <2>3, <2>4, <3>1, NoWalksAtAll DEF RingWalks
  <2>5. CASE pc' = "returned"
    <3>1. ahead' = ahead /\ fetched' = fetched /\ walk' = walk /\ next' = next /\ ahead = 2
          BY <1>1, <1>2, <2>5
    <3> QED
        BY <2>1, <2>2, <2>3, <2>5, <3>1 DEF RingWalks, Target
  <2> QED
      BY <1>2, <2>4, <2>5
<1> QED
    BY <1>7, <1>8, <1>9 DEF ListInv

LEMMA ListGoesOn == ListInv /\ [List!Next]_List!vars => ListInv'
<1> SUFFICES ASSUME ListInv, [List!Next]_List!vars PROVE ListInv'
    OBVIOUS
<1>0. (walk = List!NoWalks /\ fetched = <<>> /\ ahead = 0 /\ ~ Walking => RingWalks)'
      BY NoWalkYet, PTL
<1>1. CASE List!Begin
  <2>1. /\ pc = "begin" /\ pc' = "link" /\ nodes_at' \in {0, 16, 32, 48}
        /\ order' \in {p \in [List!Nodes -> List!Nodes] :
                         \A a, b \in List!Nodes : p[a] = p[b] => a = b}
        /\ next' = [x \in List!Nodes |-> Null]
        /\ UNCHANGED <<i, ahead, current, walk, fetched>>
        BY <1>1 DEF List!Begin, List!log
  <2>2. ~ Walking /\ ~ Walking'
        BY <2>1 DEF Walking
  <2>3. i = 0 /\ ahead = 0 /\ walk = List!NoWalks /\ fetched = <<>>
        BY <2>1, <2>2 DEF ListInv, ListShape, Ring
  <2>4. ListShape'
        BY <2>1, <2>2 DEF ListInv, ListShape
  <2>5. Ring'
        BY <2>1, <2>2, <2>3, ListAssumed DEF Ring, Linked
  <2> QED
      BY <1>0, <2>1, <2>2, <2>3, <2>4, <2>5 DEF ListInv
<1>2. CASE List!Link
      BY <1>2, LinkStep
<1>3. CASE List!Close
      BY <1>3, CloseStep
<1>4. CASE List!Warmup \/ List!StartClock
      BY <1>4, WarmupStep
<1>5. CASE List!Measure
      BY <1>5, MeasureStep
<1>6. CASE List!NextWalk \/ List!Finish
      BY <1>6, NextWalkStep
<1>7. CASE List!Return
  <2>1. /\ pc' = "over" /\ walk' = List!NoWalks /\ fetched' = <<>> /\ ahead' = 0
        /\ current' = Null /\ i' = i
        BY <1>7 DEF List!Return
  <2>2. ~ Walking'
        BY <2>1 DEF Walking
  <2>3. ListShape'
        BY <2>1, <2>2, NoWalksAtAll DEF ListInv, ListShape, List!Distance
  <2>4. Ring'
        BY <2>1, <2>2 DEF Ring
  <2> QED
      BY <1>0, <2>1, <2>2, <2>3, <2>4 DEF ListInv
<1>8. CASE UNCHANGED List!vars
      BY <1>8 DEF List!vars, List!locals, List!list, List!log, ListInv, ListShape, Ring, RingWalks,
         Linked, GoesRound, ComesTo, Target, Walking
<1> QED
    BY <1>1, <1>2, <1>3, <1>4, <1>5, <1>6, <1>7, <1>8 DEF List!Next, List!Run, List!Over
-----------------------------------------------------------------------------
\* A set closed under the links that has the j-th node of the order has all
\* nodes behind it.
LEMMA ClosedHasTheRest ==
  ASSUME order \in [List!Nodes -> List!Nodes], Linked(NUM_NODES - 1),
         NEW S \in SUBSET List!Nodes, \A x \in S : next[x] \in S,
         NEW j \in List!Nodes, order[j] \in S
  PROVE  \A l \in j .. NUM_NODES - 1 : order[l] \in S
<1> DEFINE T == {k \in Nat : j + k <= NUM_NODES - 1 => order[j + k] \in S}
<1>0. j \in Nat
      BY DEF List!Nodes
<1>1. 0 \in T
      BY <1>0
<1>2. ASSUME NEW k \in T PROVE k + 1 \in T
  <2>1. SUFFICES ASSUME j + k + 1 <= NUM_NODES - 1 PROVE order[j + k + 1] \in S
        BY <1>0
  <2>2. order[j + k] \in S /\ j + k \in 0 .. (NUM_NODES - 1) - 1
        BY <1>0, <2>1, ListAssumed
  <2>3. next[order[j + k]] = order[j + k + 1]
        BY <2>2 DEF Linked
  <2> QED
      BY <2>2, <2>3
<1>3. T \in SUBSET Nat
      OBVIOUS
<1> HIDE DEF T
<1>4. T = Nat
      BY <1>1, <1>2, <1>3, Induction
<1>5. ASSUME NEW l \in j .. NUM_NODES - 1 PROVE order[l] \in S
  <2>1. l - j \in Nat /\ j + (l - j) = l /\ l <= NUM_NODES - 1
        BY <1>0, ListAssumed
  <2>2. l - j \in T
        BY <1>4, <2>1
  <2> QED
      BY <2>1, <2>2 DEF T
<1> QED
    BY <1>5

LEMMA RingIsOne == ListInv => List!OneRing
<1> SUFFICES ASSUME ListInv, Walking,
                    NEW S \in SUBSET List!Nodes, S # {}, \A x \in S : next[x] \in S
             PROVE  S = List!Nodes
    BY DEF List!OneRing, Walking
<1>1. /\ order \in [List!Nodes -> List!Nodes]
      /\ \A a, b \in List!Nodes : order[a] = order[b] => a = b
      /\ Linked(NUM_NODES - 1) /\ next[order[NUM_NODES - 1]] = order[0]
      BY DEF ListInv, ListShape, Ring, Walking
<1>2. \A x \in List!Nodes : \E j \in List!Nodes : order[j] = x
      BY <1>1, OrderMeetsAll
<1>3. PICK j \in List!Nodes : order[j] \in S
      BY <1>2
<1>4. order[NUM_NODES - 1] \in S
  <2>1. NUM_NODES - 1 \in j .. NUM_NODES - 1
        BY ListAssumed DEF List!Nodes
  <2> QED
      BY <1>1, <1>3, <2>1, ClosedHasTheRest
<1>5. order[0] \in S
      BY <1>1, <1>4
<1>6. \A l \in 0 .. NUM_NODES - 1 : order[l] \in S
      BY <1>1, <1>5, ListAssumed, ClosedHasTheRest
<1>7. List!Nodes = 0 .. NUM_NODES - 1
      BY DEF List!Nodes
<1> QED
    BY <1>2, <1>6, <1>7

\* Two walks of one length round the same ring are the same.
LEMMA RoundsAreAlike ==
  ASSUME NEW s \in Seq(List!Nodes), NEW t \in Seq(List!Nodes), Len(s) = Len(t),
         GoesRound(s, order[0], next), GoesRound(t, order[0], next)
  PROVE  s = t
<1> DEFINE T == {k \in Nat : k + 1 <= Len(s) => s[k + 1] = t[k + 1]}
<1>0. Len(s) \in Nat
      OBVIOUS
<1>1. 0 \in T
      BY <1>0 DEF GoesRound
<1>2. ASSUME NEW k \in T PROVE k + 1 \in T
  <2>1. SUFFICES ASSUME k + 2 <= Len(s) PROVE s[k + 2] = t[k + 2]
        OBVIOUS
  <2>2. k + 1 \in 1 .. Len(s) - 1 /\ k + 1 <= Len(s) /\ (k + 1) + 1 = k + 2
        BY <1>0, <2>1
  <2>3. s[k + 1] = t[k + 1] /\ s[k + 2] = next[s[k + 1]] /\ t[k + 2] = next[t[k + 1]]
        BY <2>2 DEF GoesRound
  <2> QED
      BY <2>3
<1>3. T \in SUBSET Nat
      OBVIOUS
<1> HIDE DEF T
<1>4. T = Nat
      BY <1>1, <1>2, <1>3, Induction
<1>5. ASSUME NEW k \in 1 .. Len(s) PROVE s[k] = t[k]
  <2>1. k - 1 \in T /\ (k - 1) + 1 = k /\ k <= Len(s)
        BY <1>0, <1>4
  <2> QED
      BY <2>1 DEF T
<1> QED
    BY <1>5, SeqEqual

LEMMA WalksAreAlike == ListInv => List!SameWalks
<1> SUFFICES ASSUME ListInv, pc = "returned"
             PROVE  /\ \A d \in List!Distance : walk[d] = walk[0]
                    /\ Len(walk[0]) = TRAVERSALS
    BY DEF List!SameWalks
<1>1. \A d \in List!Distance : /\ walk[d] \in Seq(List!Nodes) /\ Len(walk[d]) = TRAVERSALS
                               /\ GoesRound(walk[d], order[0], next)
      BY DEF ListInv, ListShape, RingWalks, List!Distance
<1>2. 0 \in List!Distance
      BY DEF List!Distance
<1> QED
    BY <1>1, <1>2, RoundsAreAlike

-----------------------------------------------------------------------------
\* The eight members of a node end every eight bytes, and it is a line long.
LEMMA NodeLayout ==
  /\ List!OffsetOf(List!Node, 1) = 0 /\ List!OffsetOf(List!Node, 2) = 8
  /\ List!SizeOf(List!Node, 8) = 64
<1> DEFINE Ends == [k \in 0 .. 8 |-> 8 * k]
<1>1. Len(List!Node) = 8 /\ \A k \in 1 .. 8 : List!Node[k] = 8
      BY DEF List!Node
<1>2. ASSUME NEW k \in 0 .. 8
      PROVE  Ends[k] = IF k = 0 THEN 0
                       ELSE List!RoundUp(Ends[k - 1], List!Node[k]) + List!Node[k]
  <2>1. CASE k = 0
        BY <2>1
  <2>2. CASE k # 0
    <3>1. k \in 1 .. 8 /\ k - 1 \in 0 .. 8 /\ List!Node[k] = 8
          BY <1>1, <2>2
    <3>2. Ends[k - 1] = 8 * (k - 1) /\ Ends[k] = 8 * k
          BY <3>1
    <3>3. ((8 * (k - 1) + 8 - 1) \div 8) * 8 + 8 = 8 * k
          BY <3>1
    <3> QED
        BY <2>2, <3>1, <3>2, <3>3 DEF List!RoundUp
  <2> QED
      BY <2>1, <2>2
<1>3. Ends = [k \in 0 .. Len(List!Node) |->
                IF k = 0 THEN 0 ELSE List!RoundUp(Ends[k - 1], List!Node[k]) + List!Node[k]]
      BY <1>1, <1>2
<1> HIDE DEF Ends
<1>4. \A e : e = [k \in 0 .. Len(List!Node) |->
                    IF k = 0 THEN 0 ELSE List!RoundUp(e[k - 1], List!Node[k]) + List!Node[k]]
               => List!MemberEnds(List!Node)
                    = [k \in 0 .. Len(List!Node) |->
                         IF k = 0 THEN 0
                         ELSE List!RoundUp(List!MemberEnds(List!Node)[k - 1], List!Node[k])
                                + List!Node[k]]
      BY DEF List!MemberEnds
<1> DEFINE M == List!MemberEnds(List!Node)
<1>5. M = [k \in 0 .. 8 |->
             IF k = 0 THEN 0 ELSE List!RoundUp(M[k - 1], List!Node[k]) + List!Node[k]]
      BY <1>1, <1>3, <1>4
<1> HIDE DEF M
<1>6. M[0] = 0
      BY <1>5
<1>7. ASSUME NEW k \in 0 .. 7, M[k] = 8 * k PROVE M[k + 1] = 8 * (k + 1)
  <2>1. k + 1 \in 0 .. 8 /\ k + 1 # 0 /\ (k + 1) - 1 = k /\ k + 1 \in 1 .. 8
        BY <1>7
  <2>2. M[k + 1] = List!RoundUp(M[k], 8) + 8
        BY <1>1, <1>5, <2>1
  <2>3. ((8 * k + 8 - 1) \div 8) * 8 + 8 = 8 * (k + 1)
        OBVIOUS
  <2> QED
      BY <1>7, <2>2, <2>3 DEF List!RoundUp
<1>8. M[1] = 8 /\ M[2] = 16
  <2>1. M[0 + 1] = 8 * (0 + 1)
        BY <1>6, <1>7
  <2>2. M[1 + 1] = 8 * (1 + 1)
        BY <1>7, <2>1
  <2> QED
      BY <2>1, <2>2
<1>9. M[8] = 64
  <2>3. M[2 + 1] = 8 * (2 + 1)
        BY <1>7, <1>8
  <2>4. M[3 + 1] = 8 * (3 + 1)
        BY <1>7, <2>3
  <2>5. M[4 + 1] = 8 * (4 + 1)
        BY <1>7, <2>4
  <2>6. M[5 + 1] = 8 * (5 + 1)
        BY <1>7, <2>5
  <2>7. M[6 + 1] = 8 * (6 + 1)
        BY <1>7, <2>6
  <2>8. M[7 + 1] = 8 * (7 + 1)
        BY <1>7, <2>7
  <2> QED
      BY <2>8
<1>10. (64 + 8 - 1) \div 8 = 8
       OBVIOUS
<1> QED
    BY <1>1, <1>8, <1>9, <1>10 DEF M, List!OffsetOf, List!SizeOf, List!RoundUp

\* What a step reads of a node is on the line a prefetch of it brings in.
LEMMA ReadsAreFetched ==
  ASSUME nodes_at \in {0, 16, 32, 48}, NEW x \in List!Nodes
  PROVE  List!LinesRead(x) \subseteq List!LineFetched(x)
<1>1. x \in Nat
      BY DEF List!Nodes
<1>2. List!AddressOf(x) = nodes_at + x * 64 /\ List!Node[1] = 8 /\ List!Node[2] = 8
      BY NodeLayout DEF List!AddressOf, List!Node
<1> DEFINE a == nodes_at + x * 64
<1>3. /\ a \div 64 = x /\ (a + 0) \div 64 = x /\ (a + 8) \div 64 = x
      /\ (a + 1 - 1) \div 64 = x /\ (a + 0 + 8 - 1) \div 64 = x /\ (a + 8 + 8 - 1) \div 64 = x
      BY <1>1
<1> HIDE DEF a
<1>4. List!AddressOf(x) = a
      BY <1>2 DEF a
<1>5. List!LineFetched(x) = x .. x
      BY <1>3, <1>4 DEF List!LineFetched, List!Lines, List!CACHE_LINE_SIZE
<1>6. List!LinesRead(x) = (x .. x) \cup (x .. x)
      BY <1>2, <1>3, <1>4, NodeLayout DEF List!LinesRead, List!Lines, List!CACHE_LINE_SIZE
<1> QED
    BY <1>5, <1>6

LEMMA FetchesAreUsed == ListInv => List!PrefetchesAreUsed
<1> SUFFICES ASSUME ListInv, ahead > 0, NEW s \in DOMAIN fetched, s + ahead <= Len(walk[ahead])
             PROVE  /\ fetched[s] = walk[ahead][s + ahead]
                    /\ List!LinesRead(fetched[s]) \subseteq List!LineFetched(fetched[s])
    BY DEF List!PrefetchesAreUsed
<1>1. ahead \in {1, 2} /\ ahead \in List!Distance /\ Walking
      BY DEF ListInv, ListShape, List!Distance
<1> DEFINE w == walk[ahead]
<1>2. /\ w \in Seq(List!Nodes) /\ GoesRound(w, order[0], next)
      /\ fetched \in Seq(List!Nodes \cup {Null})
      /\ Len(fetched) = Len(w)
      /\ \A k \in 1 .. Len(fetched) : fetched[k] = Target(ahead, w[k], next)
      BY <1>1 DEF ListInv, ListShape, RingWalks
<1>3. nodes_at \in {0, 16, 32, 48}
      BY <1>1 DEF ListInv, ListShape, Walking
<1>4. s + ahead <= Len(w)
      OBVIOUS
<1> HIDE DEF w
<1>5. s \in 1 .. Len(w) - 1 /\ (ahead = 2 => s + 1 \in 1 .. Len(w) - 1) /\ s + ahead \in 1 .. Len(w)
      BY <1>1, <1>2, <1>4
<1>6. fetched[s] = Target(ahead, w[s], next) /\ w[s + 1] = next[w[s]]
      BY <1>2, <1>5 DEF GoesRound
<1>7. fetched[s] = w[s + ahead]
  <2>1. CASE ahead = 1
        BY <1>6, <2>1 DEF Target
  <2>2. CASE ahead = 2
    <3>1. w[(s + 1) + 1] = next[w[s + 1]] /\ (s + 1) + 1 = s + 2
          BY <1>2, <1>5, <2>2 DEF GoesRound
    <3> QED
        BY <1>6, <2>2, <3>1 DEF Target
  <2> QED
      BY <1>1, <2>1, <2>2
<1>8. w[s + ahead] \in List!Nodes
      BY <1>2, <1>5
<1> QED
    BY <1>3, <1>7, <1>8, ReadsAreFetched DEF w
-----------------------------------------------------------------------------
ListRest ==
  /\ nodes_at = 0 /\ order = <<>> /\ next = <<>> /\ ahead = 0 /\ current = Null
  /\ walk = List!NoWalks /\ fetched = <<>> /\ loaded = <<>>

ListPart == IF Inside("list") THEN ListInv /\ (pc = "over" => ListRest) ELSE ListRest

LEMMA ListPartStart == Init => ListPart
BY DEF Init, List!Init, ListRest, ListPart, Inside

LEMMA ListPartStep ==
  MappedInv /\ CounterInv /\ CounterInv' /\ ListPart /\ [Next]_vars => ListPart'
<1> SUFFICES ASSUME MappedInv, CounterInv, CounterInv', ListPart, [Next]_vars PROVE ListPart'
    OBVIOUS
<1>1. CASE ListRuns
  <2>1. Inside("list") /\ Inside("list")' /\ List!Run
        BY <1>1, RunsInside DEF RunsOf, Benchmarks, ListRuns
  <2>2. ListInv'
        BY <2>1, ListGoesOn DEF ListPart, List!Next
  <2>3. pc' = "over" => ListRest'
        BY <2>1 DEF List!Run, List!Begin, List!Link, List!Close, List!Warmup, List!StartClock,
           List!Measure, List!NextWalk, List!Finish, List!Return, ListRest, List!NoWalks
  <2> QED
      BY <2>1, <2>2, <2>3 DEF ListPart
<1>2. CASE ~ ListRuns
  <2>1. /\ UNCHANGED ofList
        /\ Enters("list") \/ Leaves("list") \/ Waits("list") \/ Away("list")
        BY <1>2, PartStep DEF RunsOf, Untouched, Benchmarks
  <2>2. ListRest' <=> ListRest
        BY <2>1 DEF ListRest, ofList, List!NoWalks
  <2>3. CASE Enters("list")
    <3>1. ListRest /\ Inside("list")' /\ pc' = "begin" /\ i' = 0
          BY <2>3 DEF ListPart, Enters
    <3>2. (List!Init => ListInv)'
          BY ListStarts, PTL
    <3>3. List!Init'
          BY <2>1, <3>1 DEF ListRest, ofList, List!Init, List!NoWalks
    <3> QED
        BY <2>2, <3>1, <3>2, <3>3 DEF ListPart
  <2>4. CASE Leaves("list") \/ Away("list")
        BY <2>2, <2>4 DEF ListPart, Leaves, Away
  <2>5. CASE Waits("list")
    <3>1. [List!Next]_List!vars /\ ListInv
          BY <2>1, <2>5 DEF Waits, ofList, List!vars, List!locals, List!list, List!log, ListPart
    <3>2. ListInv'
          BY <3>1, ListGoesOn
    <3> QED
        BY <2>2, <2>5, <3>2 DEF ListPart, Waits
  <2> QED
      BY <2>1, <2>3, <2>4, <2>5
<1> QED
    BY <1>1, <1>2

LEMMA ListPartAlways == Spec => []ListPart
BY ListPartStart, ListPartStep, MappedAlways, CounterAlways, PTL DEF Spec

\* The links of build_list are one ring of all the nodes, in whatever order the
\* shuffle has left them.
THEOREM LinksAreOneRing == Spec => []OneRing
<1>1. ListPart => OneRing
      BY RingIsOne DEF ListPart, OneRing
<1> QED
    BY <1>1, ListPartAlways, PTL

\* The three walks of the list, without, with and with a longer prefetch, process
\* the same nodes in the same order: their times differ in the prefetches only.
THEOREM WalksAreTheSame == Spec => []SameWalks
<1>1. ListPart => SameWalks
      BY WalksAreAlike DEF ListPart, SameWalks
<1> QED
    BY <1>1, ListPartAlways, PTL

\* No prefetch is wasted: it is of the node processed that many steps later, and
\* of all that the step reads of it.
THEOREM NoPrefetchIsWasted == Spec => []PrefetchesAreUsed
<1>1. ListPart => PrefetchesAreUsed
      BY FetchesAreUsed DEF ListPart, PrefetchesAreUsed
<1> QED
    BY <1>1, ListPartAlways, PTL
=============================================================================
