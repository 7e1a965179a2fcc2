--------------------------- MODULE BackfillProofs ---------------------------
(***************************************************************************)
(* What one page of older lines is, for any content, block size, budget    *)
(* and page size (ReadLinesBefore).                                        *)
(***************************************************************************)
EXTENDS Backfill, FiniteSetTheorems, WellFoundedInduction, TLAPS

LEMMA LeastExists ==
  ASSUME NEW S \in SUBSET Nat, S # {}
  PROVE  \E x \in S : \A y \in S : x <= y
<1>1. \E x \in S : \A y \in S : ~ (<<y, x>> \in OpToRel(<, Nat))
  BY WFMin, NatLessThanWellFounded, Zenon
<1>2. PICK x \in S : \A y \in S : ~ (<<y, x>> \in OpToRel(<, Nat))
  BY <1>1
<1>3. \A y \in S : <<y, x>> \in OpToRel(<, Nat) <=> y < x
  BY DEF OpToRel
<1>4. ASSUME NEW y \in S PROVE x <= y
  <2>1. ~ (y < x)
    BY <1>2, <1>3
  <2>2. x \in Nat /\ y \in Nat
    OBVIOUS
  <2> QED BY <2>1, <2>2
<1> QED BY <1>4

(* The block boundaries of a scan that ends at end, as in ScanStop.        *)
Boundary(end, k) == IF k * ScanBlock < end THEN end - k * ScanBlock ELSE 0

Suffices(content, end, limit, k) ==
  \/ Boundary(end, k) = 0
  \/ Cardinality(Newlines(content, Boundary(end, k), end)) > limit
  \/ end - Boundary(end, k) >= MaxScan

LEMMA BoundaryType ==
  ASSUME NEW end \in Nat, NEW k \in Nat
  PROVE  /\ Boundary(end, k) \in 0 .. end
         /\ k >= end => Boundary(end, k) = 0
<1>1. k * ScanBlock \in Nat /\ k * ScanBlock >= k
  <2>1. ScanBlock \in Nat /\ ScanBlock >= 1
    BY ScanAssumption
  <2>2. k * ScanBlock \in Nat
    BY <2>1
  <2>3. k * ScanBlock = k + k * (ScanBlock - 1) /\ k * (ScanBlock - 1) >= 0
    BY <2>1
  <2> QED BY <2>1, <2>2, <2>3
<1> DEFINE m == k * ScanBlock
<1> HIDE DEF m
<1>2. m \in Nat /\ m >= k
  BY <1>1 DEF m
<1>3. Boundary(end, k) = IF m < end THEN end - m ELSE 0
  BY DEF Boundary, m
<1> QED BY <1>2, <1>3

(* Some boundary suffices, and the scan stops at the first that does.      *)
LEMMA FirstBoundary ==
  ASSUME NEW content, NEW end \in Nat, NEW limit
  PROVE  \E k \in 0 .. end : /\ ScanStop(content, end, limit) = Boundary(end, k)
                             /\ Suffices(content, end, limit, k)
                             /\ \A j \in 0 .. (k - 1) : ~ Suffices(content, end, limit, j)
<1> DEFINE E(k) == Suffices(content, end, limit, k)
           first(k) == E(k) /\ \A j \in 0 .. (k - 1) : ~ E(j)
           S == {k \in 0 .. end : E(k)}
           c == CHOOSE k \in 0 .. end : first(k)
<1>1. end \in S
  BY BoundaryType DEF Suffices
<1>2. \E x \in S : \A y \in S : x <= y
  <2>1. S \in SUBSET Nat /\ S # {}
    BY <1>1
  <2> HIDE DEF S
  <2> QED BY <2>1, LeastExists
<1>3. PICK x \in S : \A y \in S : x <= y
  BY <1>2
<1>4. x \in 0 .. end /\ first(x)
  BY <1>3
<1> HIDE DEF S, first
<1>5. c \in 0 .. end /\ first(c)
  BY <1>4, Zenon
<1> HIDE DEF c
<1>6. ScanStop(content, end, limit) = Boundary(end, c)
  BY DEF ScanStop, c, first, Suffices, Boundary, Zenon
<1> QED BY <1>5, <1>6 DEF first

(* Where a scan stops, and what then is true.                              *)
LEMMA ScanStops ==
  ASSUME NEW content, NEW end \in Nat, NEW limit, NEW pos, pos = ScanStop(content, end, limit)
  PROVE  /\ pos \in 0 .. end
         /\ \/ pos = 0
            \/ Cardinality(Newlines(content, pos, end)) > limit
            \/ end - pos >= MaxScan
<1>1. PICK k \in 0 .. end : pos = Boundary(end, k) /\ Suffices(content, end, limit, k)
  BY FirstBoundary
<1>2. pos \in 0 .. end
  BY <1>1, BoundaryType
<1> QED BY <1>1, <1>2 DEF Suffices

(* The region a page is cut from begins a line: at the start of the file,  *)
(* or after the first newline of what was scanned.                         *)
Heads(content, pos, before) ==
  IF pos = 0 THEN {0}
  ELSE {o + 1 : o \in {n \in Newlines(content, pos, before) : \A m \in Newlines(content, pos, before) : n <= m}}

LEMMA HeadStartsLine ==
  ASSUME NEW content, NEW before \in Nat, NEW pos \in 0 .. before,
         NEW h \in Heads(content, pos, before)
  PROVE  h \in pos .. before /\ StartsLine(content, h)
<1>1. CASE pos = 0
  BY <1>1 DEF Heads, StartsLine
<1>2. CASE pos # 0
  <2>1. PICK n \in Newlines(content, pos, before) : h = n + 1
    BY <1>2 DEF Heads
  <2>2. n \in pos .. (before - 1) /\ NewlineAt(content, n)
    BY DEF Newlines
  <2>3. n \in Nat /\ h - 1 = n /\ h \in pos .. before
    BY <2>1, <2>2
  <2> QED BY <2>2, <2>3 DEF StartsLine
<1> QED BY <1>1, <1>2

LEMMA OneHead ==
  ASSUME NEW content, NEW before \in Nat, NEW pos \in 0 .. before,
         NEW g \in Heads(content, pos, before), NEW h \in Heads(content, pos, before)
  PROVE  g = h
<1>1. CASE pos = 0
  BY <1>1 DEF Heads
<1>2. CASE pos # 0
  <2> DEFINE N == Newlines(content, pos, before)
  <2>1. PICK n \in N : g = n + 1 /\ \A m \in N : n <= m
    BY <1>2 DEF Heads
  <2>2. PICK k \in N : h = k + 1 /\ \A m \in N : k <= m
    BY <1>2 DEF Heads
  <2>3. n \in Nat /\ k \in Nat
    BY DEF Newlines
  <2> HIDE DEF N
  <2>4. n <= k /\ k <= n
    BY <2>1, <2>2
  <2> QED BY <2>1, <2>2, <2>3, <2>4
<1> QED BY <1>1, <1>2

(* Before a place where a line begins, every line is complete.             *)
LEMMA CompleteLines ==
  ASSUME NEW content, NEW before \in Nat, StartsLine(content, before),
         NEW h \in 0 .. before, StartsLine(content, h)
  PROVE  LinesIn(content, h, before) = {o \in h .. (before - 1) : StartsLine(content, o)}
<1>1. ASSUME NEW o \in h .. (before - 1) PROVE Newlines(content, o, before) # {}
  <2>1. before # 0 /\ before - 1 \in o .. (before - 1)
    OBVIOUS
  <2>2. NewlineAt(content, before - 1)
    BY <2>1 DEF StartsLine
  <2> QED BY <2>1, <2>2 DEF Newlines
<1>2. ASSUME NEW o \in h .. (before - 1)
      PROVE  (o = h \/ NewlineAt(content, o - 1)) <=> StartsLine(content, o)
  <2>1. o = 0 => o = h
    OBVIOUS
  <2> QED BY <2>1 DEF StartsLine
<1> QED BY <1>1, <1>2 DEF LinesIn

(* The newest lines are all the lines from one of them on.                 *)
LEMMA LastLinesClosed ==
  ASSUME NEW a \in Nat, NEW b \in Nat, NEW lines \in SUBSET (a .. b), NEW limit \in Nat,
         NEW o \in LastLines(lines, limit), NEW p \in lines, o < p
  PROVE  p \in LastLines(lines, limit)
<1> DEFINE from(x) == {q \in lines : q >= x}
<1>1. from(p) \in SUBSET from(o)
  <2> SUFFICES ASSUME NEW q \in lines, q >= p
               PROVE  q >= o
    OBVIOUS
  <2>1. q \in Nat /\ p \in Nat /\ o \in Nat
    BY DEF LastLines
  <2> QED BY <2>1
<1>2. IsFiniteSet(from(o)) /\ IsFiniteSet(from(p))
  <2>1. IsFiniteSet(a .. b)
    BY FS_Interval
  <2>2. from(o) \in SUBSET (a .. b) /\ from(p) \in SUBSET (a .. b)
    OBVIOUS
  <2> HIDE DEF from
  <2> QED BY <2>1, <2>2, FS_Subset
<1>3. /\ Cardinality(from(p)) <= Cardinality(from(o))
      /\ Cardinality(from(p)) \in Nat /\ Cardinality(from(o)) \in Nat
  <2> HIDE DEF from
  <2> QED BY <1>1, <1>2, FS_Subset, FS_CardinalityType
<1>4. Cardinality(from(o)) <= limit
  BY DEF LastLines
<1>5. Cardinality(from(p)) <= limit
  BY <1>3, <1>4
<1> QED BY <1>5 DEF LastLines

LEMMA PageLinesOf ==
  ASSUME NEW content, NEW before \in Nat, NEW limit, NEW pos, pos = ScanStop(content, before, limit)
  PROVE  /\ ReadLinesBefore(content, before, limit).lines
              = UNION {LastLines(LinesIn(content, h, before), limit) : h \in Heads(content, pos, before)}
         /\ ReadLinesBefore(content, before, limit).atStart
              = (before = 0 \/ 0 \in ReadLinesBefore(content, before, limit).lines)
BY DEF ReadLinesBefore, Heads

(* Offsets and a flag, whatever was asked.                                 *)
LEMMA PageType ==
  ASSUME NEW content, NEW before \in Nat, NEW limit
  PROVE  /\ ReadLinesBefore(content, before, limit).lines \in SUBSET Nat
         /\ ReadLinesBefore(content, before, limit).atStart \in BOOLEAN
<1> DEFINE pos == ScanStop(content, before, limit)
<1>1. pos \in 0 .. before
  BY ScanStops
<1> HIDE DEF pos
<1>2. \A h \in Heads(content, pos, before) : h \in Nat
  BY <1>1, HeadStartsLine
<1>3. \A h \in Nat : LastLines(LinesIn(content, h, before), limit) \subseteq Nat
  BY DEF LastLines, LinesIn
<1>4. /\ ReadLinesBefore(content, before, limit).lines
             = UNION {LastLines(LinesIn(content, h, before), limit) : h \in Heads(content, pos, before)}
      /\ ReadLinesBefore(content, before, limit).atStart
             = (before = 0 \/ 0 \in ReadLinesBefore(content, before, limit).lines)
  BY PageLinesOf DEF pos
<1>5. UNION {LastLines(LinesIn(content, h, before), limit) : h \in Heads(content, pos, before)} \in SUBSET Nat
  BY <1>2, <1>3
<1> QED BY <1>4, <1>5

(* One page: lines before the place asked about, none of them in part, and *)
(* none left out between the first of them and that place, wherever blocks *)
(* and budget end; and it is said to reach the start only if it does.      *)
THEOREM PageClosesUp ==
  ASSUME NEW content, NEW before \in Nat, StartsLine(content, before), NEW limit \in Nat,
         NEW page, page = ReadLinesBefore(content, before, limit)
  PROVE  /\ page.lines \subseteq {o \in 0 .. (before - 1) : StartsLine(content, o)}
         /\ \A o \in page.lines : \A p \in o .. (before - 1) : StartsLine(content, p) => p \in page.lines
         /\ page.atStart = (before = 0 \/ 0 \in page.lines)
<1> DEFINE pos == ScanStop(content, before, limit)
           all(h) == {o \in h .. (before - 1) : StartsLine(content, o)}
<1>1. pos \in 0 .. before
  BY ScanStops
<1>2. /\ page.lines = UNION {LastLines(LinesIn(content, h, before), limit) : h \in Heads(content, pos, before)}
      /\ page.atStart = (before = 0 \/ 0 \in page.lines)
  BY PageLinesOf
<1> HIDE DEF pos
<1>3. ASSUME NEW h \in Heads(content, pos, before)
      PROVE  h \in 0 .. before /\ LinesIn(content, h, before) = all(h)
  <2>1. h \in pos .. before /\ StartsLine(content, h)
    BY <1>1, HeadStartsLine
  <2>2. h \in 0 .. before
    BY <1>1, <2>1
  <2> QED BY <2>1, <2>2, CompleteLines
<1>4. ASSUME NEW o \in page.lines
      PROVE  \E h \in Heads(content, pos, before) : o \in LastLines(all(h), limit)
  <2>1. PICK h \in Heads(content, pos, before) : o \in LastLines(LinesIn(content, h, before), limit)
    BY <1>2
  <2> QED BY <1>3, <2>1
<1>5. ASSUME NEW h \in Heads(content, pos, before) PROVE LastLines(all(h), limit) \subseteq page.lines
  BY <1>2, <1>3
<1>6. ASSUME NEW o \in page.lines
      PROVE  /\ o \in 0 .. (before - 1) /\ StartsLine(content, o)
             /\ \A p \in o .. (before - 1) : StartsLine(content, p) => p \in page.lines
  <2>1. PICK h \in Heads(content, pos, before) : o \in LastLines(all(h), limit)
    BY <1>4
  <2>2. h \in 0 .. before
    BY <1>3
  <2>3. o \in all(h)
    BY <2>1 DEF LastLines
  <2>4. o \in 0 .. (before - 1) /\ StartsLine(content, o) /\ h <= o
    BY <2>2, <2>3
  <2>5. ASSUME NEW p \in o .. (before - 1), StartsLine(content, p) PROVE p \in page.lines
    <3>1. p \in all(h)
      BY <2>2, <2>4, <2>5
    <3>2. p = o \/ o < p
      BY <2>4
    <3>3. all(h) \in SUBSET (h .. before) /\ h \in Nat
      BY <2>2
    <3>4. p \in LastLines(all(h), limit)
      <4> HIDE DEF all
      <4> QED BY <2>1, <3>1, <3>2, <3>3, LastLinesClosed
    <3> QED BY <1>5, <3>4
  <2> QED BY <2>4, <2>5
<1> QED BY <1>2, <1>6

(* A scan spends its budget and at most one more block.                    *)
THEOREM ScanBounded ==
  ASSUME NEW content, NEW end \in Nat, NEW limit
  PROVE  end - ScanStop(content, end, limit) < MaxScan + ScanBlock
<1>1. PICK k \in 0 .. end : /\ ScanStop(content, end, limit) = Boundary(end, k)
                            /\ \A j \in 0 .. (k - 1) : ~ Suffices(content, end, limit, j)
  BY FirstBoundary
<1>2. ScanBlock \in Nat /\ ScanBlock >= 1 /\ MaxScan \in Nat /\ MaxScan >= 1
  BY ScanAssumption
<1>3. CASE k = 0
  <2>1. Boundary(end, k) = end
    BY <1>2, <1>3 DEF Boundary
  <2> QED BY <1>1, <1>2, <2>1
<1>4. CASE k # 0
  <2> DEFINE m == (k - 1) * ScanBlock
  <2>1. k - 1 \in 0 .. (k - 1) /\ k - 1 \in Nat
    BY <1>4
  <2>2. m \in Nat /\ k * ScanBlock = m + ScanBlock
    BY <1>2, <2>1
  <2>3. Boundary(end, k - 1) # 0 /\ ~ (end - Boundary(end, k - 1) >= MaxScan)
    BY <1>1, <2>1 DEF Suffices
  <2>4. Boundary(end, k - 1) = (IF m < end THEN end - m ELSE 0)
    BY DEF Boundary
  <2>5. Boundary(end, k) = (IF m + ScanBlock < end THEN end - (m + ScanBlock) ELSE 0)
    BY <2>2 DEF Boundary
  <2>6. m \in Nat
    BY <2>2
  <2> HIDE DEF m
  <2>7. m < end /\ m < MaxScan
    BY <1>2, <2>3, <2>4, <2>6
  <2>8. end - Boundary(end, k) <= m + ScanBlock
    BY <1>2, <2>5, <2>6
  <2>9. Boundary(end, k) \in 0 .. end
    BY <1>1, BoundaryType
  <2> QED BY <1>1, <1>2, <2>6, <2>7, <2>8, <2>9
<1> QED BY <1>3, <1>4

LEMMA GreatestExists ==
  ASSUME NEW b \in Nat, NEW S \in SUBSET (0 .. b), S # {}
  PROVE  \E x \in S : \A y \in S : y <= x
<1> DEFINE T == {n \in Nat : \A y \in S : y <= n}
<1>1. T \in SUBSET Nat /\ b \in T
  OBVIOUS
<1>2. \E x \in T : \A y \in T : x <= y
  <2> HIDE DEF T
  <2> QED BY <1>1, LeastExists
<1>3. PICK n \in T : \A y \in T : n <= y
  BY <1>2
<1>4. n \in S
  <2> SUFFICES ASSUME n \notin S
               PROVE  FALSE
    OBVIOUS
  <2>1. n \in Nat /\ \A y \in S : y <= n /\ y # n /\ y \in Nat
    OBVIOUS
  <2>2. \A y \in S : y <= n - 1
    BY <2>1
  <2>3. n # 0
    <3>1. PICK y \in S : TRUE
      OBVIOUS
    <3>2. y \in Nat /\ y <= n /\ y # n
      BY <2>1
    <3> QED BY <2>1, <3>2
  <2>4. n - 1 \in T
    BY <2>1, <2>2, <2>3
  <2> QED BY <1>3, <2>1, <2>4
<1> QED BY <1>4

(* The newest limit lines are no more than that, and fewer only if there   *)
(* are no others.                                                          *)
LEMMA LastLinesCount ==
  ASSUME NEW b \in Nat, NEW lines \in SUBSET (0 .. b), NEW limit \in Nat
  PROVE  /\ IsFiniteSet(LastLines(lines, limit))
         /\ Cardinality(LastLines(lines, limit)) <= limit
         /\ LastLines(lines, limit) = lines \/ Cardinality(LastLines(lines, limit)) >= limit
<1> DEFINE last == LastLines(lines, limit)
           from(x) == {q \in lines : q >= x}
<1>1. IsFiniteSet(lines) /\ last \in SUBSET lines
  <2>1. IsFiniteSet(0 .. b)
    BY FS_Interval
  <2> QED BY <2>1, FS_Subset DEF LastLines
<1>2. \A o \in last : \A p \in lines : o < p => p \in last
  BY LastLinesClosed
<1>3. \A o \in lines : o \in last <=> Cardinality(from(o)) <= limit
  BY DEF LastLines
<1>4. lines \subseteq Nat
  OBVIOUS
<1> HIDE DEF last
<1>5. IsFiniteSet(last) /\ Cardinality(last) \in Nat
  BY <1>1, FS_Subset, FS_CardinalityType
<1>6. Cardinality(last) <= limit
  <2>1. CASE last = {}
    BY <2>1, FS_EmptySet
  <2>2. CASE last # {}
    <3>1. PICK x \in last : \A y \in last : x <= y
      BY <1>1, <1>4, <2>2, LeastExists
    <3>2. ASSUME NEW q \in lines, q >= x PROVE q \in last
      <4>1. q \in Nat /\ x \in Nat /\ (q = x \/ x < q)
        BY <1>1, <1>4, <3>1, <3>2
      <4> QED BY <1>2, <3>1, <4>1
    <3>3. ASSUME NEW q \in last PROVE q \in lines /\ q >= x
      BY <1>1, <1>4, <3>1
    <3>4. from(x) = last
      BY <3>2, <3>3
    <3> QED BY <1>1, <1>3, <3>4
  <2> QED BY <2>1, <2>2
<1>7. CASE last # lines
  <2>1. lines \ last \in SUBSET (0 .. b) /\ lines \ last # {}
    BY <1>1, <1>7
  <2>2. PICK g \in lines \ last : \A y \in lines \ last : y <= g
    BY <2>1, GreatestExists
  <2>3. from(g) = last \cup {g}
    <3>1. ASSUME NEW q \in lines, q >= g PROVE q \in last \cup {g}
      BY <1>4, <2>2, <3>1
    <3>2. ASSUME NEW q \in last PROVE q >= g
      <4>1. ~ (q < g)
        BY <1>2, <2>2
      <4> QED BY <1>1, <1>4, <2>2, <4>1
    <3>3. g >= g
      BY <1>4, <2>2
    <3> QED BY <1>1, <2>2, <3>1, <3>2, <3>3
  <2>4. Cardinality(last \cup {g}) = Cardinality(last) + 1
    BY <1>5, <2>2, FS_AddElement
  <2>5. ~ (Cardinality(last) + 1 <= limit)
    BY <1>3, <2>2, <2>3, <2>4
  <2> QED BY <1>5, <1>6, <2>5 DEF last
<1> QED BY <1>5, <1>6, <1>7 DEF last

(* A page has as many lines as were asked for, unless it reaches the start *)
(* of the file or the scan's budget is spent: a short page, and an empty   *)
(* one in particular, means that there is nothing older but when a line is *)
(* longer than the budget.                                                 *)
THEOREM PageIsFull ==
  ASSUME NEW content, NEW before \in Nat, StartsLine(content, before), NEW limit \in Nat,
         NEW page, page = ReadLinesBefore(content, before, limit)
  PROVE  /\ Cardinality(page.lines) <= limit
         /\ \/ Cardinality(page.lines) = limit
            \/ page.atStart
            \/ before - ScanStop(content, before, limit) >= MaxScan
<1> DEFINE pos == ScanStop(content, before, limit)
           breaks == Newlines(content, pos, before)
           all(h) == {o \in h .. (before - 1) : StartsLine(content, o)}
<1>1. /\ pos \in 0 .. before
      /\ pos = 0 \/ Cardinality(breaks) > limit \/ before - pos >= MaxScan
  BY ScanStops
<1>2. /\ page.lines = UNION {LastLines(LinesIn(content, h, before), limit) : h \in Heads(content, pos, before)}
      /\ page.atStart = (before = 0 \/ 0 \in page.lines)
  BY PageLinesOf
<1> HIDE DEF pos
<1>3. ASSUME NEW h \in Heads(content, pos, before)
      PROVE  /\ h \in 0 .. before /\ h >= pos
             /\ page.lines = LastLines(all(h), limit)
  <2>1. h \in pos .. before /\ StartsLine(content, h)
    BY <1>1, HeadStartsLine
  <2>2. h \in 0 .. before /\ h >= pos
    BY <1>1, <2>1
  <2>3. LinesIn(content, h, before) = all(h)
    BY <2>1, <2>2, CompleteLines
  <2>4. \A g \in Heads(content, pos, before) : g = h
    BY <1>1, OneHead
  <2>5. page.lines = LastLines(LinesIn(content, h, before), limit)
    BY <1>2, <2>4
  <2> QED BY <2>2, <2>3, <2>5
<1>4. CASE Heads(content, pos, before) = {}
  <2>1. pos # 0 /\ breaks = {}
    <3>1. pos # 0
      BY <1>4 DEF Heads
    <3>2. breaks \in SUBSET Nat
      BY <1>1 DEF Newlines
    <3>3. ~ \E n \in breaks : \A m \in breaks : n <= m
      BY <1>4, <3>1 DEF Heads
    <3> HIDE DEF breaks
    <3> QED BY <3>1, <3>2, <3>3, LeastExists
  <2>2. Cardinality(breaks) = 0 /\ page.lines = {}
    BY <1>2, <1>4, <2>1, FS_EmptySet
  <2>3. Cardinality(page.lines) = 0
    BY <2>2, FS_EmptySet
  <2> HIDE DEF breaks
  <2>4. before - pos >= MaxScan
    BY <1>1, <2>1, <2>2
  <2> QED BY <2>3, <2>4 DEF pos
<1>5. CASE Heads(content, pos, before) # {}
  <2>1. PICK h : h \in Heads(content, pos, before)
    BY <1>5
  <2>2. /\ h \in 0 .. before /\ h >= pos
        /\ page.lines = LastLines(all(h), limit)
    BY <1>3, <2>1
  <2>3. all(h) \in SUBSET (0 .. before)
    BY <2>2
  <2>4. /\ IsFiniteSet(page.lines) /\ Cardinality(page.lines) <= limit
        /\ page.lines = all(h) \/ Cardinality(page.lines) >= limit
    <3> HIDE DEF all
    <3> QED BY <2>2, <2>3, LastLinesCount
  <2>5. Cardinality(page.lines) \in Nat
    BY <2>4, FS_CardinalityType
  <2>6. CASE Cardinality(page.lines) >= limit
    BY <2>4, <2>5, <2>6
  <2>7. CASE page.lines = all(h) /\ pos = 0
    <3>1. h = 0
      BY <2>1, <2>7 DEF Heads
    <3>2. before # 0 => 0 \in all(h)
      BY <3>1 DEF StartsLine
    <3> QED BY <1>2, <2>4, <2>7, <3>2
  <2>8. CASE page.lines = all(h) /\ pos # 0 /\ Cardinality(breaks) > limit
    <3> DEFINE rest == breaks \ {before - 1}
               f == [n \in rest |-> n + 1]
    <3>1. IsFiniteSet(breaks)
      <4>1. breaks \in SUBSET (pos .. (before - 1)) /\ IsFiniteSet(pos .. (before - 1))
        BY <1>1, FS_Interval DEF Newlines
      <4> QED BY <4>1, FS_Subset
    <3>2. Cardinality(rest) >= limit /\ Cardinality(rest) \in Nat
      <4>1. Cardinality(breaks) \in Nat
        BY <3>1, FS_CardinalityType
      <4>2. Cardinality(rest) = Cardinality(breaks) \/ Cardinality(rest) = Cardinality(breaks) - 1
        BY <3>1, FS_RemoveElement
      <4>3. IsFiniteSet(rest)
        BY <3>1, FS_RemoveElement
      <4>4. Cardinality(rest) \in Nat
        BY <4>3, FS_CardinalityType
      <4> HIDE DEF rest, breaks
      <4> QED BY <2>8, <4>1, <4>2, <4>4
    <3>3. ASSUME NEW n \in rest PROVE n + 1 \in all(h)
      <4>1. n \in pos .. (before - 1) /\ n # before - 1 /\ NewlineAt(content, n)
        BY DEF Newlines
      <4>2. PICK m \in breaks : h = m + 1 /\ \A k \in breaks : m <= k
        BY <2>1, <2>8 DEF Heads
      <4>3. m \in Nat /\ n \in Nat /\ m <= n
        BY <1>1, <4>2 DEF Newlines
      <4>4. n + 1 \in h .. (before - 1) /\ (n + 1) - 1 = n
        BY <1>1, <4>1, <4>2, <4>3
      <4> QED BY <4>1, <4>4 DEF StartsLine
    <3>4. rest \subseteq Nat
      BY <1>1 DEF Newlines
    <3> HIDE DEF rest, all
    <3>5. f \in Injection(rest, all(h))
      <4>1. f \in [rest -> all(h)]
        BY <3>3
      <4>2. \A m, n \in rest : f[m] = f[n] => m = n
        BY <3>4
      <4> QED BY <4>1, <4>2 DEF Injection, IsInjective
    <3>6. Cardinality(rest) <= Cardinality(page.lines)
      BY <2>4, <2>8, <3>5, FS_Injection
    <3> QED BY <2>4, <2>5, <3>2, <3>6
  <2> QED BY <1>1, <2>4, <2>6, <2>7, <2>8 DEF pos
<1> QED BY <1>4, <1>5
=============================================================================
