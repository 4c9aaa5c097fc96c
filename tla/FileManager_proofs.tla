--------------------------- MODULE FileManager_proofs ---------------------------
(***************************************************************************)
(* Proofs about FileManager for tables with unrelated names: any number of *)
(* tables, of sequence numbers and of files.                               *)
(***************************************************************************)
EXTENDS FileManager, FiniteSetTheorems, SequenceTheorems, WellFoundedInduction, TLAPS

\* A set of natural numbers that is not empty has a least element.
LEMMA LeastNumber ==
  ASSUME NEW S \in SUBSET Nat, S # {}
  PROVE  \E x \in S : \A y \in S : x <= y
<1> DEFINE LessPairs == {ss \in Nat \X Nat : ss[1] < ss[2]}
<1>1. IsWellFoundedOn(LessPairs, Nat)
  BY NatLessThanWellFounded DEF OpToRel
<1>2. PICK x \in S : \A y \in S : <<y, x>> \notin LessPairs
  BY <1>1, WFMin
<1>3. \A y \in S : x <= y
  <2> TAKE y \in S
  <2>1. <<y, x>> \in Nat \X Nat /\ <<y, x>>[1] = y /\ <<y, x>>[2] = x
    OBVIOUS
  <2>2. ~(y < x)
    BY <1>2, <2>1
  <2> QED
    BY <2>2
<1> QED
  BY <1>3
-----------------------------------------------------------------------------
(* The order of a log comes back from its numbers.                         *)

Unrelated == \A t \in Table : SharesPrefix[t] = {t}

\* A number that has gone round at most once.
Wrapped(n) == IF n < MaxFiles THEN n ELSE n - MaxFiles

Numbered(t, k, n) == [table |-> t, kind |-> k, number |-> n]

\* The files of a log from its first number on.
Run(s, t, k, first) == \A i \in 1 .. Len(s) : s[i] = Numbered(t, k, Wrapped(first + i - 1))

Ascending(s, n) == \A i, j \in 1 .. n : i < j => s[i].number < s[j].number

\* A short run has each number once, and the next one not at all.
LEMMA RunDistinct ==
  ASSUME NEW t, NEW k, NEW s, Len(s) \in Nat, Len(s) < MaxFiles,
         NEW first \in Number, Run(s, t, k, first)
  PROVE  /\ \A i, j \in 1 .. Len(s) : s[i].number = s[j].number => i = j
         /\ \A i \in 1 .. Len(s) : /\ s[i].table = t /\ s[i].kind = k
                                   /\ s[i].number = Wrapped(first + i - 1)
                                   /\ s[i].number \in Number
                                   /\ s[i].number # Wrapped(first + Len(s))
<1>1. \A i \in 1 .. Len(s) : /\ s[i].table = t /\ s[i].kind = k
                             /\ s[i].number = Wrapped(first + i - 1)
  <2> TAKE i \in 1 .. Len(s)
  <2>1. s[i] = Numbered(t, k, Wrapped(first + i - 1))
    BY DEF Run
  <2> HIDE DEF Run
  <2> DEFINE w == Wrapped(first + i - 1)
  <2>2. s[i] = Numbered(t, k, w)
    BY <2>1
  <2> HIDE DEF w
  <2>3. s[i].table = t /\ s[i].kind = k /\ s[i].number = w
    BY <2>2 DEF Numbered
  <2> QED
    BY <2>3 DEF w
<1>2. \A i, j \in 1 .. MaxFiles : Wrapped(first + i - 1) = Wrapped(first + j - 1) => i = j
  <2> TAKE i, j \in 1 .. MaxFiles
  <2>1. MaxFiles \in Nat /\ first \in Nat /\ first < MaxFiles /\ i \in Nat /\ j \in Nat
    BY FilesAssumption DEF Number
  <2> QED
    BY <2>1 DEF Wrapped
<1>3. \A i \in 1 .. Len(s) : Wrapped(first + i - 1) \in Number
  BY FilesAssumption DEF Wrapped, Number
<1>4. \A i \in 1 .. Len(s) : Wrapped(first + i - 1) # Wrapped(first + (Len(s) + 1) - 1)
  BY <1>2, FilesAssumption
<1>5. \A i, j \in 1 .. Len(s) : s[i].number = s[j].number => i = j
  <2>1. \A i \in 1 .. Len(s) : i \in 1 .. MaxFiles
    BY FilesAssumption
  <2> QED
    BY <1>1, <1>2, <2>1
<1>6. Len(s) + 1 - 1 = Len(s) /\ first + (Len(s) + 1) - 1 = first + Len(s)
  BY DEF Number
<1> QED
  BY <1>1, <1>3, <1>4, <1>5, <1>6

\* There is one way to put files in the order of their numbers.
LEMMA UniqueOrder ==
  ASSUME NEW n \in Nat, NEW S \in SUBSET File, NEW s \in [1 .. n -> S], NEW u \in [1 .. n -> S],
         Ascending(s, n), Ascending(u, n),
         \A f \in S : \E i \in 1 .. n : s[i] = f,
         \A f \in S : \E i \in 1 .. n : u[i] = f
  PROVE  s = u
<1> DEFINE D == {i \in 1 .. n : s[i] # u[i]}
<1>1. CASE D = {}
  <2>1. \A i \in 1 .. n : s[i] = u[i]
    BY <1>1
  <2> QED
    BY <2>1
<1>2. CASE D # {}
  <2>0. \A a, b \in Nat : ~(a < b /\ b < a)
    OBVIOUS
  <2>1. D \in SUBSET Nat
    OBVIOUS
  <2>2. PICK d \in D : \A e \in D : d <= e
    BY <1>2, <2>1, LeastNumber
  <2>3. PICK i \in 1 .. n : s[i] = u[d]
    OBVIOUS
  <2>4. PICK j \in 1 .. n : u[j] = s[d]
    OBVIOUS
  <2>5. \A e \in 1 .. n : e < d => s[e] = u[e]
    BY <2>2
  <2>6. \A e \in 1 .. n : s[e].number \in Nat /\ u[e].number \in Nat
    <3>1. \A f \in S : f.number \in Nat
      BY FilesAssumption DEF File, Number
    <3> QED
      BY <3>1
  <2>7. i > d
    <3>1. i # d
      BY <2>3
    <3>2. CASE i < d
      <4>1. u[i] = u[d]
        BY <2>3, <2>5, <3>2
      <4>2. u[i].number < u[d].number
        BY <3>2 DEF Ascending
      <4>3. d \in 1 .. n
        OBVIOUS
      <4>4. u[i].number = u[d].number
        BY <4>1
      <4>5. u[d].number \in Nat /\ ~(u[d].number < u[d].number)
        BY <2>0, <2>6, <4>3, Zenon
      <4> QED
        BY <4>2, <4>4, <4>5
    <3> QED
      BY <3>1, <3>2
  <2>8. j > d
    <3>1. j # d
      BY <2>4
    <3>2. CASE j < d
      <4>1. s[j] = s[d]
        BY <2>4, <2>5, <3>2
      <4>2. s[j].number < s[d].number
        BY <3>2 DEF Ascending
      <4>3. d \in 1 .. n
        OBVIOUS
      <4>4. s[j].number = s[d].number
        BY <4>1
      <4>5. s[d].number \in Nat /\ ~(s[d].number < s[d].number)
        BY <2>0, <2>6, <4>3, Zenon
      <4> QED
        BY <4>2, <4>4, <4>5
    <3> QED
      BY <3>1, <3>2
  <2>9. s[d].number < s[i].number /\ u[d].number < u[j].number
    BY <2>7, <2>8 DEF Ascending
  <2>10. s[i].number = u[d].number /\ u[j].number = s[d].number
    BY <2>3, <2>4
  <2>11. d \in 1 .. n
    OBVIOUS
  <2>12. s[d].number \in Nat /\ u[d].number \in Nat
    BY <2>6, <2>11
  <2>13. s[d].number < u[d].number /\ u[d].number < s[d].number
    BY <2>9, <2>10
  <2>14. ~(s[d].number < u[d].number /\ u[d].number < s[d].number)
    BY <2>0, <2>12, Zenon
  <2> QED
    BY <2>13, <2>14
<1> QED
  BY <1>1, <1>2

\* Sorting the files of a short run, in whatever order the directory gives them.
LEMMA SortedRun ==
  ASSUME NEW t \in Table, NEW k \in Kind, NEW u \in Seq(File), Len(u) < MaxFiles,
         NEW first \in Number, Run(u, t, k, first), NEW s \in Sorted(Range(u))
  PROVE  /\ s \in [1 .. Len(u) -> Range(u)]
         /\ Ascending(s, Len(u))
         /\ \A f \in Range(u) : \E i \in 1 .. Len(u) : s[i] = f
<1> DEFINE n == Len(u)
<1>1. n \in Nat /\ DOMAIN u = 1 .. n
  OBVIOUS
<1>2. \A i, j \in 1 .. n : u[i] = u[j] => i = j
  BY <1>1, RunDistinct
<1>3. u \in [1 .. n -> Range(u)]
  BY <1>1 DEF Range
<1>4. u \in Bijection(1 .. n, Range(u))
  BY <1>1, <1>2, <1>3 DEF Bijection, Injection, Surjection, Range, IsInjective
<1>5. IsFiniteSet(1 .. n) /\ Cardinality(1 .. n) = n
  <2>1. n \in Int /\ 1 \in Int
    BY <1>1
  <2>2. IsFiniteSet(1 .. n) /\ Cardinality(1 .. n) = IF 1 > n THEN 0 ELSE n - 1 + 1
    BY ZenonT(20), <2>1, FS_Interval
  <2> QED
    BY <1>1, <2>2
<1>6. IsFiniteSet(Range(u)) /\ Cardinality(Range(u)) = n
  BY <1>4, <1>5, FS_Bijection DEF ExistsBijection
<1>7. /\ s \in [1 .. n -> Range(u)]
      /\ \A i, j \in 1 .. n : i < j => s[i] # s[j] /\ s[i].number <= s[j].number
  BY <1>6 DEF Sorted
<1>8. s \in Injection(1 .. n, Range(u))
  <2>1. \A i, j \in 1 .. n : s[i] = s[j] => i = j
    BY <1>1, <1>7
  <2> QED
    BY <1>7, <2>1 DEF Injection, IsInjective
<1>9. s \in Surjection(1 .. n, Range(u))
  BY <1>5, <1>6, <1>8, FS_Injection
<1>10. \A f \in Range(u) : \E i \in 1 .. n : s[i] = f
  BY <1>9 DEF Surjection
<1>11. Ascending(s, n)
  <2> SUFFICES ASSUME NEW i \in 1 .. n, NEW j \in 1 .. n, i < j
               PROVE  s[i].number < s[j].number
    BY DEF Ascending
  <2>1. PICK a \in 1 .. n : s[i] = u[a]
    BY <1>1, <1>7 DEF Range
  <2>2. PICK b \in 1 .. n : s[j] = u[b]
    BY <1>1, <1>7 DEF Range
  <2>3. a # b
    BY <1>7, <2>1, <2>2
  <2>4. s[i].number # s[j].number /\ s[i].number \in Number /\ s[j].number \in Number
    BY <1>1, <2>1, <2>2, <2>3, RunDistinct
  <2> QED
    BY <1>7, <2>4, FilesAssumption DEF Number
<1> QED
  BY <1>7, <1>10, <1>11

\* The first gap is the least one.
LEMMA FirstGapLeast ==
  ASSUME NEW s, Len(s) \in Nat, Gaps(s) # {}
  PROVE  FirstGap(s) \in Gaps(s) /\ \A h \in Gaps(s) : FirstGap(s) <= h
<1>1. Gaps(s) \in SUBSET Nat
  BY DEF Gaps
<1>2. \E g \in Gaps(s) : \A h \in Gaps(s) : g <= h
  BY <1>1, LeastNumber
<1> QED
  BY <1>2 DEF FirstGap

\* Rotating a sequence.
LEMMA RotatedFacts ==
  ASSUME NEW s \in Seq(File), NEW g \in 1 .. Len(s)
  PROVE  /\ RotatedAt(s, g) \in Seq(File) /\ Len(RotatedAt(s, g)) = Len(s)
         /\ \A i \in 1 .. Len(s) :
              RotatedAt(s, g)[i] = IF i <= Len(s) - g THEN s[i + g] ELSE s[i - (Len(s) - g)]
<1> DEFINE n == Len(s)  a == SubSeq(s, g + 1, n)  b == SubSeq(s, 1, g)
<1>1. n \in Nat /\ \A i \in 1 .. n : s[i] \in File
  OBVIOUS
<1>2. /\ a \in Seq(File) /\ Len(a) = n - g
      /\ \A i \in 1 .. n - g : a[i] = s[i + g]
  <2>1. /\ a \in Seq(File) /\ Len(a) = IF g + 1 <= n THEN n - (g + 1) + 1 ELSE 0
        /\ \A i \in 1 .. n - (g + 1) + 1 : a[i] = s[(g + 1) + i - 1]
    BY <1>1, SubSeqProperties
  <2>2. \A i \in 1 .. n - g : (g + 1) + i - 1 = i + g /\ i \in 1 .. n - (g + 1) + 1
    BY <1>1
  <2> QED
    BY <1>1, <2>1, <2>2
<1>3. /\ b \in Seq(File) /\ Len(b) = g
      /\ \A i \in 1 .. g : b[i] = s[i]
  <2>1. /\ b \in Seq(File) /\ Len(b) = IF 1 <= g THEN g - 1 + 1 ELSE 0
        /\ \A i \in 1 .. g - 1 + 1 : b[i] = s[1 + i - 1]
    BY <1>1, SubSeqProperties
  <2>2. \A i \in 1 .. g : 1 + i - 1 = i /\ i \in 1 .. g - 1 + 1
    BY <1>1
  <2> QED
    BY <1>1, <2>1, <2>2
<1> HIDE DEF a, b
<1>4. /\ a \o b \in Seq(File) /\ Len(a \o b) = (n - g) + g
      /\ \A i \in 1 .. (n - g) + g : (a \o b)[i] = IF i <= n - g THEN a[i] ELSE b[i - (n - g)]
  <2>1. /\ a \o b \in Seq(File) /\ Len(a \o b) = Len(a) + Len(b)
        /\ \A i \in 1 .. Len(a) + Len(b) : (a \o b)[i] = IF i <= Len(a) THEN a[i] ELSE b[i - Len(a)]
    BY <1>2, <1>3, ConcatProperties
  <2> QED
    BY <1>2, <1>3, <2>1
<1>5. (n - g) + g = n
  BY <1>1
<1>6. \A i \in 1 .. n : (a \o b)[i] = IF i <= n - g THEN s[i + g] ELSE s[i - (n - g)]
  <2> TAKE i \in 1 .. n
  <2>1. CASE i <= n - g
    BY <1>1, <1>2, <1>4, <1>5, <2>1
  <2>2. CASE ~(i <= n - g)
    <3>1. i - (n - g) \in 1 .. g
      BY <1>1, <2>2
    <3> QED
      BY <1>1, <1>3, <1>4, <1>5, <2>2, <3>1
  <2> QED
    BY <2>1, <2>2
<1> QED
  BY <1>4, <1>5, <1>6 DEF RotatedAt, a, b

\* Whatever the gaps, ordering gives files.
LEMMA OrderedType ==
  ASSUME NEW s \in Seq(File)
  PROVE  Ordered(s) \in Seq(File)
<1>1. CASE Gaps(s) = {}
  BY <1>1 DEF Ordered
<1>2. CASE Gaps(s) # {}
  <2>1. FirstGap(s) \in 1 .. Len(s)
    BY <1>2, FirstGapLeast DEF Gaps
  <2> QED
    BY <2>1, RotatedFacts DEF Ordered
<1> QED
  BY <1>1, <1>2

\* A run that has not gone round is in order as it is.
LEMMA OrderedStraight ==
  ASSUME NEW t \in Table, NEW k \in Kind, NEW u \in Seq(File), Len(u) < MaxFiles,
         NEW first \in Number, Run(u, t, k, first), NEW s \in Sorted(Range(u)),
         first + Len(u) <= MaxFiles
  PROVE  Ordered(s) = u
<1> DEFINE n == Len(u)
<1>1. n \in Nat /\ first \in Nat /\ MaxFiles \in Nat
  BY FilesAssumption DEF Number
<1>2. \A i \in 1 .. n : u[i].number = first + i - 1
  BY <1>1, RunDistinct DEF Wrapped
<1>3. u \in [1 .. n -> Range(u)] /\ \A f \in Range(u) : \E i \in 1 .. n : u[i] = f
  BY DEF Range
<1>4. Ascending(u, n)
  BY <1>1, <1>2 DEF Ascending
<1>5. Range(u) \in SUBSET File
  BY DEF Range
<1>6. /\ s \in [1 .. n -> Range(u)] /\ Ascending(s, n)
      /\ \A f \in Range(u) : \E i \in 1 .. n : s[i] = f
  BY SortedRun
<1>7. s = u
  BY <1>1, <1>3, <1>4, <1>5, <1>6, UniqueOrder
<1>8. Gaps(u) = {}
  <2> SUFFICES ASSUME NEW i \in 1 .. n - 1 PROVE ~(u[i + 1].number - u[i].number > 1)
    BY DEF Gaps
  <2>1. u[i + 1].number = first + (i + 1) - 1 /\ u[i].number = first + i - 1
    BY <1>1, <1>2
  <2> QED
    BY <1>1, <2>1
<1> QED
  BY <1>7, <1>8 DEF Ordered

\* A run that has gone round is sorted from its number 0 on, with one gap behind its
\* last file, where it is put together again.
LEMMA OrderedRound ==
  ASSUME NEW t \in Table, NEW k \in Kind, NEW u \in Seq(File), Len(u) < MaxFiles,
         NEW first \in Number, Run(u, t, k, first), NEW s \in Sorted(Range(u)),
         first + Len(u) > MaxFiles
  PROVE  Ordered(s) = u
<1> DEFINE n == Len(u)
           w == MaxFiles - first
           r == n - w
           v == [i \in 1 .. n |-> IF i <= r THEN u[i + w] ELSE u[i - r]]
<1>1. /\ n \in Nat /\ first \in Nat /\ MaxFiles \in Nat /\ w \in Nat /\ r \in Nat
      /\ 1 <= w /\ 1 <= r /\ r + w = n /\ w + first = MaxFiles /\ n < MaxFiles
  BY FilesAssumption DEF Number
<1> HIDE DEF w, r
<1>2. \A i \in 1 .. n : u[i].number = IF i <= w THEN first + i - 1 ELSE i - w - 1
  <2> TAKE i \in 1 .. n
  <2>1. u[i].number = Wrapped(first + i - 1)
    BY <1>1, RunDistinct
  <2> QED
    BY <1>1, <2>1 DEF Wrapped
<1>3. \A i \in 1 .. n : /\ i <= r => i + w \in 1 .. n /\ ~(i + w <= w) /\ (i + w) - w - 1 = i - 1
                        /\ ~(i <= r) => i - r \in 1 .. n /\ i - r <= w
  BY <1>1
<1>4. \A i \in 1 .. n : v[i].number = IF i <= r THEN i - 1 ELSE first + (i - r) - 1
  <2> TAKE i \in 1 .. n
  <2>1. CASE i <= r
    <3>1. i + w \in 1 .. n /\ ~(i + w <= w) /\ (i + w) - w - 1 = i - 1
      BY <1>1, <1>3, <2>1
    <3>2. v[i] = u[i + w]
      BY <2>1
    <3>3. u[i + w].number = (i + w) - w - 1
      BY <1>2, <3>1
    <3> QED
      BY <2>1, <3>1, <3>2, <3>3
  <2>2. CASE ~(i <= r)
    <3>1. i - r \in 1 .. n /\ i - r <= w
      BY <1>1, <1>3, <2>2
    <3>2. v[i] = u[i - r]
      BY <2>2
    <3>3. u[i - r].number = first + (i - r) - 1
      BY <1>2, <3>1
    <3> QED
      BY <2>2, <3>2, <3>3
  <2> QED
    BY <2>1, <2>2
<1>5. v \in [1 .. n -> Range(u)]
  <2>1. \A i \in 1 .. n : u[i] \in Range(u)
    BY DEF Range
  <2>2. \A i \in 1 .. n : (IF i <= r THEN u[i + w] ELSE u[i - r]) \in Range(u)
    BY <1>1, <1>3, <2>1
  <2> QED
    BY <2>2
<1>6. \A f \in Range(u) : \E i \in 1 .. n : v[i] = f
  <2> TAKE f \in Range(u)
  <2>1. PICK j \in 1 .. n : f = u[j]
    BY DEF Range
  <2>2. CASE j <= w
    <3>1. j + r \in 1 .. n /\ ~(j + r <= r) /\ (j + r) - r = j
      BY <1>1, <2>2
    <3> QED
      BY <2>1, <3>1
  <2>3. CASE ~(j <= w)
    <3>1. j - w \in 1 .. n /\ j - w <= r /\ (j - w) + w = j
      BY <1>1, <2>3
    <3> QED
      BY <2>1, <3>1
  <2> QED
    BY <2>2, <2>3
<1> HIDE DEF v
<1>7. Ascending(v, n)
  BY <1>1, <1>4 DEF Ascending
<1>8. Range(u) \in SUBSET File
  BY DEF Range
<1>9. /\ s \in [1 .. n -> Range(u)] /\ Ascending(s, n)
      /\ \A f \in Range(u) : \E i \in 1 .. n : s[i] = f
  BY SortedRun
<1>10. s = v
  <2>1. n \in Nat
    BY <1>1
  <2> QED
    BY ZenonT(30), <2>1, <1>5, <1>6, <1>7, <1>8, <1>9, UniqueOrder
<1>11. v \in Seq(File) /\ Len(v) = n
  BY <1>1, <1>5, <1>8
<1>12. r \in Gaps(v)
  <2>1. v[r].number = r - 1 /\ v[r + 1].number = first
    BY <1>1, <1>4
  <2> QED
    BY <1>1, <1>11, <2>1 DEF Gaps
<1>13. \A g \in Gaps(v) : g = r
  <2> SUFFICES ASSUME NEW g \in 1 .. n - 1, g # r PROVE ~(v[g + 1].number - v[g].number > 1)
    BY <1>11 DEF Gaps
  <2>1. CASE g < r
    BY <1>1, <1>4, <2>1
  <2>2. CASE g > r
    BY <1>1, <1>4, <2>2
  <2> QED
    BY <1>1, <2>1, <2>2
<1>14. FirstGap(v) = r
  BY <1>1, <1>11, <1>12, <1>13, FirstGapLeast
<1>15. Ordered(v) = RotatedAt(v, r)
  <2>1. Len(v) # MaxFiles /\ Gaps(v) # {}
    BY <1>1, <1>11, <1>12
  <2> QED
    BY <1>14, <2>1 DEF Ordered
<1>16. /\ RotatedAt(v, r) \in Seq(File) /\ Len(RotatedAt(v, r)) = n
       /\ \A i \in 1 .. n : RotatedAt(v, r)[i] = IF i <= w THEN v[i + r] ELSE v[i - w]
  <2>1. r \in 1 .. Len(v) /\ Len(v) - r = w
    BY <1>1, <1>11
  <2> QED
    BY <1>11, <2>1, RotatedFacts
<1>17. \A i \in 1 .. n : RotatedAt(v, r)[i] = u[i]
  <2> TAKE i \in 1 .. n
  <2>1. CASE i <= w
    <3>1. i + r \in 1 .. n /\ ~(i + r <= r) /\ (i + r) - r = i
      BY <1>1, <2>1
    <3> QED
      BY <1>16, <2>1, <3>1 DEF v
  <2>2. CASE ~(i <= w)
    <3>1. i - w \in 1 .. n /\ i - w <= r /\ (i - w) + w = i
      BY <1>1, <2>2
    <3> QED
      BY <1>16, <2>2, <3>1 DEF v
  <2> QED
    BY <2>1, <2>2
<1> QED
  BY <1>10, <1>15, <1>16, <1>17

\* So the manager orders the files of a short run as they were made.
LEMMA OrderedRun ==
  ASSUME NEW t \in Table, NEW k \in Kind, NEW u \in Seq(File), Len(u) < MaxFiles,
         NEW first \in Number, Run(u, t, k, first), NEW s \in Sorted(Range(u))
  PROVE  Ordered(s) = u
<1>1. first + Len(u) \in Nat /\ MaxFiles \in Nat
  BY FilesAssumption DEF Number
<1> QED
  BY <1>1, OrderedStraight, OrderedRound
-----------------------------------------------------------------------------
(* What every step keeps: the directory holds the files made, the value    *)
(* files are at most one log file short unless a pair was torn, short logs *)
(* are runs from one number on, and managers show them.                    *)

Short(t, k) == Len(made[t][k]) < MaxFiles

DiskIsMade ==
  \A t \in Table, k \in Kind : {f \in disk : f.kind = k /\ f.table = t} = Range(made[t][k])

Lengths ==
  \A t \in Table :
    /\ Len(made[t]["vs"]) <= Len(made[t]["ls"])
    /\ t \in half => Len(made[t]["vs"]) < Len(made[t]["ls"])
    /\ t \notin torn => Len(made[t]["ls"]) = Len(made[t]["vs"]) + IF t \in half THEN 1 ELSE 0

RunsFrom(t, first) ==
  /\ made[t]["vs"] = <<>> => first = 0
  /\ \A k \in Kind : Short(t, k) => Run(made[t][k], t, k, first)

Runs == \A t \in Table : \E first \in Number : RunsFrom(t, first)

Shown == \A t \in up, k \in Kind : Short(t, k) => files[t][k] = made[t][k]

FileInv == DiskIsMade /\ Lengths /\ Runs /\ Shown

\* The pairs an earlier program left are two runs.
LEMMA PairsRun ==
  ASSUME NEW t \in Table, NEW first \in Number, NEW n \in 0 .. MaxFiles - 1, NEW k \in Kind
  PROVE  /\ Pairs(t, first, n)[k] \in Seq(File) /\ Len(Pairs(t, first, n)[k]) = n
         /\ Run(Pairs(t, first, n)[k], t, k, first)
<1> DEFINE s == Pairs(t, first, n)[k]
<1>1. s = [i \in 1 .. n |-> Numbered(t, k, (first + i - 1) % MaxFiles)]
  BY DEF Pairs, Numbered
<1>2. \A i \in 1 .. n : (first + i - 1) % MaxFiles = Wrapped(first + i - 1)
  BY FilesAssumption DEF Wrapped, Number
<1>3. \A i \in 1 .. n : Wrapped(first + i - 1) \in Number
  BY FilesAssumption DEF Wrapped, Number
<1>4. \A i \in 1 .. n : Numbered(t, k, Wrapped(first + i - 1)) \in File
  BY <1>3 DEF File, Numbered
<1>5. n \in Nat
  BY FilesAssumption
<1> HIDE DEF s
<1>6. s = [i \in 1 .. n |-> Numbered(t, k, Wrapped(first + i - 1))]
  BY <1>1, <1>2
<1>7. s \in [1 .. n -> File]
  BY <1>4, <1>6
<1>8. s \in Seq(File) /\ Len(s) = n
  BY <1>5, <1>7
<1>9. Run(s, t, k, first)
  BY <1>6, <1>8 DEF Run
<1> QED
  BY <1>8, <1>9 DEF s

\* The first state.
LEMMA InitInv == Init => TypeOK /\ FileInv
<1> SUFFICES ASSUME Init PROVE TypeOK /\ FileInv
  OBVIOUS
<1>1. PICK first \in [Table -> Number], n \in [Table -> 0 .. MaxFiles - 1] :
        made = [t \in Table |-> Pairs(t, first[t], n[t])]
  BY DEF Init
<1>2. \A t \in Table, k \in Kind : /\ made[t][k] \in Seq(File) /\ Len(made[t][k]) = n[t]
                                   /\ Run(made[t][k], t, k, first[t])
  BY <1>1, PairsRun
<1>3. made \in [Table -> [Kind -> Seq(File)]]
  <2>1. \A t \in Table : Pairs(t, first[t], n[t]) = [k \in Kind |-> Pairs(t, first[t], n[t])[k]]
    BY DEF Pairs
  <2>2. \A t \in Table : Pairs(t, first[t], n[t]) \in [Kind -> Seq(File)]
    BY <1>1, <1>2, <2>1
  <2> QED
    BY <1>1, <2>2
<1>4. disk = UNION {Range(made[t][k]) : t \in Table, k \in Kind}
  BY DEF Init
<1>5. \A t \in Table, k \in Kind : \A f \in Range(made[t][k]) :
        f \in File /\ f.table = t /\ f.kind = k
  <2> TAKE t \in Table, k \in Kind
  <2> TAKE f \in Range(made[t][k])
  <2>1. PICK i \in 1 .. Len(made[t][k]) : f = made[t][k][i]
    BY <1>2 DEF Range
  <2>2. f = Numbered(t, k, Wrapped(first[t] + i - 1))
    BY <1>2, <2>1 DEF Run
  <2>3. f.table = t /\ f.kind = k
    BY <2>2 DEF Numbered
  <2> QED
    BY <1>2, <2>1, <2>3
<1>6. TypeOK
  <2>1. disk \subseteq File
    BY <1>4, <1>5
  <2>2. files \in [Table -> [Kind -> Seq(File)]]
    BY DEF Init, NoFiles
  <2> QED
    BY <1>3, <2>1, <2>2 DEF TypeOK, Init
<1>7. DiskIsMade
  BY <1>4, <1>5 DEF DiskIsMade
<1>8. Lengths
  <2>1. \A t \in Table : /\ Len(made[t]["vs"]) \in Nat
                         /\ Len(made[t]["ls"]) = Len(made[t]["vs"])
    BY <1>2, FilesAssumption DEF Kind
  <2>2. half = {}
    BY DEF Init
  <2> QED
    BY <2>1, <2>2 DEF Lengths
<1>9. Runs
  <2> SUFFICES ASSUME NEW t \in Table PROVE \E f \in Number : RunsFrom(t, f)
    BY DEF Runs
  <2>1. CASE n[t] = 0
    <3>1. 0 \in Number /\ \A k \in Kind : Run(made[t][k], t, k, 0)
      BY <1>2, <2>1, FilesAssumption DEF Run, Number
    <3> QED
      BY <3>1 DEF RunsFrom
  <2>2. CASE n[t] # 0
    <3>1. made[t]["vs"] # <<>>
      BY <1>2, <2>2 DEF Kind
    <3> QED
      BY <1>2, <3>1 DEF RunsFrom
  <2> QED
    BY <2>1, <2>2
<1>10. Shown
  BY DEF Shown, Init
<1> QED
  BY <1>6, <1>7, <1>8, <1>9, <1>10 DEF FileInv

-----------------------------------------------------------------------------
(* Adding a file.                                                          *)

Added(t, k) == Numbered(t, k, NextNumber(files[t][k]))

\* What addLsFile and addVsFile do to the directory and the lists.
LEMMA AddFacts ==
  ASSUME TypeOK, NEW t \in Table, NEW k \in Kind, AddFile(t, k)
  PROVE  /\ Added(t, k) \in File /\ disk' = disk \cup {Added(t, k)}
         /\ made' \in [Table -> [Kind -> Seq(File)]] /\ files' \in [Table -> [Kind -> Seq(File)]]
         /\ \A u \in Table, j \in Kind :
              /\ made'[u][j] = IF u = t /\ j = k THEN Append(made[t][k], Added(t, k)) ELSE made[u][j]
              /\ files'[u][j] = IF u = t /\ j = k THEN Append(files[t][k], Added(t, k)) ELSE files[u][j]
<1> DEFINE f == Added(t, k)
<1>1. /\ disk' = disk \cup {f} /\ files' = [files EXCEPT ![t][k] = Append(@, f)]
      /\ made' = [made EXCEPT ![t][k] = Append(@, f)]
  BY DEF AddFile, Added, Numbered
<1>2. f \in File
  <2>1. files[t][k] \in Seq(File)
    BY DEF TypeOK
  <2>2. NextNumber(files[t][k]) \in Number
    <3>1. CASE files[t][k] = <<>>
      BY <3>1, FilesAssumption DEF NextNumber, Number
    <3>2. CASE files[t][k] # <<>>
      <4>1. files[t][k][Len(files[t][k])] \in File
        BY <2>1, <3>2
      <4>2. files[t][k][Len(files[t][k])].number \in Number
        BY <4>1 DEF File
      <4> QED
        BY <3>2, <4>2, FilesAssumption DEF NextNumber, Number
    <3> QED
      BY <3>1, <3>2
  <2> QED
    BY <2>2 DEF Added, Numbered, File
<1> HIDE DEF f
<1>3. /\ Append(made[t][k], f) \in Seq(File) /\ Append(files[t][k], f) \in Seq(File)
      /\ made \in [Table -> [Kind -> Seq(File)]] /\ files \in [Table -> [Kind -> Seq(File)]]
  BY <1>2, AppendProperties DEF TypeOK
<1>4. /\ made' \in [Table -> [Kind -> Seq(File)]]
      /\ \A u \in Table, j \in Kind :
            made'[u][j] = IF u = t /\ j = k THEN Append(made[t][k], f) ELSE made[u][j]
  BY <1>1, <1>3
<1>5. /\ files' \in [Table -> [Kind -> Seq(File)]]
      /\ \A u \in Table, j \in Kind :
            files'[u][j] = IF u = t /\ j = k THEN Append(files[t][k], f) ELSE files[u][j]
  BY <1>1, <1>3
<1> QED
  BY <1>1, <1>2, <1>4, <1>5 DEF f

\* A short log goes on with the next number.
LEMMA AddedNumber ==
  ASSUME TypeOK, Shown, NEW t \in up, NEW k \in Kind, Short(t, k),
         NEW first \in Number, Run(made[t][k], t, k, first), made[t][k] = <<>> => first = 0
  PROVE  Added(t, k) = Numbered(t, k, Wrapped(first + Len(made[t][k])))
<1> DEFINE s == made[t][k]  n == Len(s)
<1>1. s \in Seq(File) /\ n \in Nat /\ n < MaxFiles /\ files[t][k] = s
  BY DEF TypeOK, Shown, Short
<1>2. CASE s = <<>>
  BY <1>1, <1>2, FilesAssumption DEF Added, NextNumber, Wrapped
<1>3. CASE s # <<>>
  <2>1. n \in 1 .. n
    BY <1>1, <1>3
  <2>2. s[n].number = Wrapped(first + n - 1)
    BY <1>1, <2>1, RunDistinct
  <2>3. NextNumber(s) = IF s[n].number = MaxFiles - 1 THEN 0 ELSE s[n].number + 1
    BY <1>3 DEF NextNumber
  <2>4. NextNumber(s) = Wrapped(first + n)
    BY <1>1, <2>1, <2>2, <2>3, FilesAssumption DEF Wrapped, Number
  <2> QED
    BY <1>1, <2>4 DEF Added
<1> QED
  BY <1>2, <1>3

\* A run with its next file is a run.
LEMMA RunGoesOn ==
  ASSUME NEW t, NEW k, NEW s \in Seq(File), NEW first \in Number, NEW f \in File,
         Run(s, t, k, first), f = Numbered(t, k, Wrapped(first + Len(s)))
  PROVE  Run(Append(s, f), t, k, first)
<1>1. /\ Len(Append(s, f)) = Len(s) + 1 /\ Append(s, f)[Len(s) + 1] = f
      /\ \A i \in 1 .. Len(s) : Append(s, f)[i] = s[i]
  BY AppendProperties
<1>2. Len(s) \in Nat /\ first \in Int /\ first + Len(s) = first + (Len(s) + 1) - 1
  BY FilesAssumption DEF Number
<1> SUFFICES ASSUME NEW i \in 1 .. Len(s) + 1
             PROVE  Append(s, f)[i] = Numbered(t, k, Wrapped(first + i - 1))
  BY <1>1 DEF Run
<1>3. CASE i \in 1 .. Len(s)
  BY <1>1, <1>3 DEF Run
<1>4. CASE i = Len(s) + 1
  BY <1>1, <1>2, <1>4
<1> QED
  BY <1>2, <1>3, <1>4

\* The runs after adding a file, and the list of the manager.
LEMMA AddKeepsRuns ==
  ASSUME TypeOK, FileInv, NEW t \in Table, NEW k \in Kind, AddFile(t, k)
  PROVE  Runs' /\ Shown'
<1> DEFINE f == Added(t, k)
<1>1. /\ f \in File
      /\ \A u \in Table, j \in Kind :
           /\ made'[u][j] = IF u = t /\ j = k THEN Append(made[t][k], f) ELSE made[u][j]
           /\ files'[u][j] = IF u = t /\ j = k THEN Append(files[t][k], f) ELSE files[u][j]
  BY AddFacts
<1>2. t \in up /\ up' = up /\ up \subseteq Table
  BY DEF AddFile, TypeOK
<1>3. made[t][k] \in Seq(File) /\ Len(made[t][k]) \in Nat
  BY DEF TypeOK
<1>4. Append(made[t][k], f) # <<>> /\ Len(Append(made[t][k], f)) = Len(made[t][k]) + 1
  BY <1>1, <1>3, AppendProperties
<1> HIDE DEF f
<1>5. Short(t, k)' => Short(t, k)
  <2>1. Len(made'[t][k]) = Len(made[t][k]) + 1
    BY <1>1, <1>4
  <2> QED
    BY <1>3, <2>1, FilesAssumption DEF Short
<1>6. Shown'
  BY <1>1, <1>2, <1>5 DEF FileInv, Shown, Short
<1>7. Runs'
  <2> SUFFICES ASSUME NEW u \in Table PROVE \E first \in Number : RunsFrom(u, first)'
    BY DEF Runs
  <2>1. PICK first \in Number : RunsFrom(u, first)
    BY DEF FileInv, Runs
  <2>2. made'[u]["vs"] = <<>> => made[u]["vs"] = <<>>
    BY <1>1, <1>4 DEF Kind
  <2>3. ASSUME NEW j \in Kind, Short(u, j)' PROVE Run(made'[u][j], u, j, first)
    <3>1. CASE u # t \/ j # k
      BY <1>1, <2>1, <2>3, <3>1 DEF RunsFrom, Short
    <3>2. CASE u = t /\ j = k
      <4>1. Short(t, k) /\ Run(made[t][k], t, k, first)
        BY <1>5, <2>1, <2>3, <3>2 DEF RunsFrom
      <4>2. made[t][k] = <<>> => made[t]["vs"] = <<>>
        <5>1. made[t]["vs"] \in Seq(File) /\ Len(made[t]["vs"]) <= Len(made[t]["ls"])
          BY DEF TypeOK, Kind, FileInv, Lengths
        <5>2. made[t]["ls"] = <<>> => made[t]["vs"] = <<>>
          BY <5>1
        <5> QED
          BY <5>2 DEF Kind
      <4>3. f = Numbered(t, k, Wrapped(first + Len(made[t][k])))
        BY <1>2, <2>1, <3>2, <4>1, <4>2, AddedNumber DEF f, FileInv, RunsFrom
      <4>4. Run(Append(made[t][k], f), t, k, first)
        BY <1>1, <1>3, <4>1, <4>3, RunGoesOn
      <4> QED
        BY <1>1, <3>2, <4>4
    <3> QED
      BY <3>1, <3>2
  <2>4. RunsFrom(u, first)'
    BY <2>1, <2>2, <2>3 DEF RunsFrom
  <2> QED
    BY <2>4
<1> QED
  BY <1>6, <1>7

\* The directory after adding a file.
LEMMA AddKeepsDisk ==
  ASSUME TypeOK, DiskIsMade, NEW t \in Table, NEW k \in Kind, AddFile(t, k)
  PROVE  DiskIsMade'
<1> DEFINE f == Added(t, k)
<1>1. /\ f \in File /\ disk' = disk \cup {f}
      /\ \A u \in Table, j \in Kind :
           made'[u][j] = IF u = t /\ j = k THEN Append(made[t][k], f) ELSE made[u][j]
  BY AddFacts
<1>2. f.table = t /\ f.kind = k
  BY DEF Added, Numbered
<1>3. made[t][k] \in Seq(File) /\ Len(made[t][k]) \in Nat
  BY DEF TypeOK
<1> HIDE DEF f
<1>4. Range(Append(made[t][k], f)) = Range(made[t][k]) \cup {f}
  <2>1. /\ Append(made[t][k], f) \in Seq(File)
        /\ Len(Append(made[t][k], f)) = Len(made[t][k]) + 1
        /\ Append(made[t][k], f)[Len(made[t][k]) + 1] = f
        /\ \A i \in 1 .. Len(made[t][k]) : Append(made[t][k], f)[i] = made[t][k][i]
    BY <1>1, <1>3, AppendProperties
  <2>2. /\ DOMAIN made[t][k] = 1 .. Len(made[t][k])
        /\ DOMAIN Append(made[t][k], f) = 1 .. Len(made[t][k]) + 1
    BY <1>3, <2>1
  <2>3. \A i \in 1 .. Len(made[t][k]) + 1 : i \in 1 .. Len(made[t][k]) \/ i = Len(made[t][k]) + 1
    BY <1>3
  <2>4. Range(Append(made[t][k], f)) \subseteq Range(made[t][k]) \cup {f}
    BY <2>1, <2>2, <2>3 DEF Range
  <2>5. f \in Range(Append(made[t][k], f))
    BY <1>3, <2>1, <2>2 DEF Range
  <2>6. Range(made[t][k]) \subseteq Range(Append(made[t][k], f))
    <3>1. \A i \in 1 .. Len(made[t][k]) : i \in 1 .. Len(made[t][k]) + 1
      BY <1>3
    <3> QED
      BY <2>1, <2>2, <3>1 DEF Range
  <2> QED
    BY <2>4, <2>5, <2>6
<1> SUFFICES ASSUME NEW u \in Table, NEW j \in Kind
             PROVE  {g \in disk' : g.kind = j /\ g.table = u} = Range(made'[u][j])
  BY DEF DiskIsMade
<1>5. {g \in disk : g.kind = j /\ g.table = u} = Range(made[u][j])
  BY DEF DiskIsMade
<1>6. CASE u = t /\ j = k
  BY <1>1, <1>2, <1>4, <1>5, <1>6
<1>7. CASE u # t \/ j # k
  BY <1>1, <1>2, <1>5, <1>7
<1> QED
  BY <1>6, <1>7
-----------------------------------------------------------------------------
(* Starting a manager.                                                     *)

\* With unrelated names getFilePaths finds the files made for the table.
LEMMA FoundMade ==
  ASSUME Unrelated, DiskIsMade, NEW t \in Table, NEW k \in Kind
  PROVE  Found(t, k) = Range(made[t][k])
<1>1. SharesPrefix[t] = {t}
  BY DEF Unrelated
<1>2. Found(t, k) = {f \in disk : f.kind = k /\ f.table = t}
  BY <1>1 DEF Found
<1> QED
  BY <1>2 DEF DiskIsMade

\* Sorting the files of a log gives a list of files.
LEMMA SortedType ==
  ASSUME NEW u \in Seq(File), NEW s \in Sorted(Range(u))
  PROVE  s \in Seq(File)
<1>1. IsFiniteSet(1 .. Len(u))
  BY FS_Interval
<1>2. u \in Surjection(1 .. Len(u), Range(u))
  BY DEF Surjection, Range
<1>3. IsFiniteSet(Range(u))
  BY <1>1, <1>2, FS_Surjection
<1>4. Cardinality(Range(u)) \in Nat
  BY <1>3, FS_CardinalityType
<1>5. Range(u) \subseteq File
  BY DEF Range
<1>6. s \in [1 .. Cardinality(Range(u)) -> Range(u)]
  BY DEF Sorted
<1> QED
  BY <1>4, <1>5, <1>6

\* What initialize lists: files, and all of a short log in its order.
LEMMA Listed ==
  ASSUME Unrelated, TypeOK, FileInv, NEW t \in Table, NEW k \in Kind,
         NEW s \in Sorted(Found(t, k))
  PROVE  Ordered(s) \in Seq(File) /\ (Short(t, k) => Ordered(s) = made[t][k])
<1>1. made[t][k] \in Seq(File) /\ s \in Sorted(Range(made[t][k]))
  BY FoundMade DEF TypeOK, FileInv
<1>2. Ordered(s) \in Seq(File)
  BY <1>1, SortedType, OrderedType
<1>3. ASSUME Short(t, k) PROVE Ordered(s) = made[t][k]
  <2>1. PICK first \in Number : Run(made[t][k], t, k, first)
    BY <1>3 DEF FileInv, Runs, RunsFrom
  <2> QED
    BY <1>1, <1>3, <2>1, OrderedRun DEF Short
<1> QED
  BY <1>2, <1>3

\* What initialize does to the lists.
LEMMA InitializeFacts ==
  ASSUME Unrelated, TypeOK, FileInv, NEW t \in Table, Initialize(t)
  PROVE  /\ files' \in [Table -> [Kind -> Seq(File)]]
         /\ \A u \in Table : u # t => files'[u] = files[u]
         /\ \A k \in Kind : Short(t, k) => files'[t][k] = made[t][k]
<1>1. PICK ls \in Sorted(Found(t, "ls")), vs \in Sorted(Found(t, "vs")) :
        files' = [files EXCEPT ![t] =
                    [k \in Kind |-> IF k = "ls" THEN Ordered(ls) ELSE Ordered(vs)]]
  BY DEF Initialize
<1>2. /\ Ordered(ls) \in Seq(File) /\ (Short(t, "ls") => Ordered(ls) = made[t]["ls"])
      /\ Ordered(vs) \in Seq(File) /\ (Short(t, "vs") => Ordered(vs) = made[t]["vs"])
  BY Listed DEF Kind
<1>3. files \in [Table -> [Kind -> Seq(File)]]
  BY DEF TypeOK
<1>4. files' \in [Table -> [Kind -> Seq(File)]] /\ \A u \in Table : u # t => files'[u] = files[u]
  BY <1>1, <1>2, <1>3
<1>5. \A k \in Kind : files'[t][k] = IF k = "ls" THEN Ordered(ls) ELSE Ordered(vs)
  BY <1>1, <1>3
<1> QED
  BY <1>2, <1>4, <1>5 DEF Kind

\* Managers that go.
LEMMA DroppedFacts ==
  ASSUME TypeOK, NEW t \in Table
  PROVE  /\ [files EXCEPT ![t] = NoFiles] \in [Table -> [Kind -> Seq(File)]]
         /\ [u \in Table |-> NoFiles] \in [Table -> [Kind -> Seq(File)]]
         /\ \A u \in Table : u # t => [files EXCEPT ![t] = NoFiles][u] = files[u]
BY DEF TypeOK, NoFiles
-----------------------------------------------------------------------------
(* The invariant.                                                          *)

\* Every step keeps the types.
LEMMA NextTypeOK == Unrelated /\ TypeOK /\ FileInv /\ [Next]_vars => TypeOK'
<1> SUFFICES ASSUME Unrelated, TypeOK, FileInv, [Next]_vars PROVE TypeOK'
  OBVIOUS
<1>1. CASE UNCHANGED vars
  BY <1>1 DEF vars, TypeOK
<1>2. ASSUME NEW t \in Table, Initialize(t) PROVE TypeOK'
  <2>1. files' \in [Table -> [Kind -> Seq(File)]]
    BY <1>2, InitializeFacts
  <2> QED
    BY <1>2, <2>1 DEF Initialize, TypeOK
<1>3. ASSUME NEW t \in Table, AddLsFile(t) \/ AddVsFile(t) PROVE TypeOK'
  <2>1. PICK k \in Kind : AddFile(t, k)
    BY <1>3 DEF AddLsFile, AddVsFile, Kind
  <2>2. /\ made' \in [Table -> [Kind -> Seq(File)]] /\ files' \in [Table -> [Kind -> Seq(File)]]
        /\ disk' \subseteq File
    BY <2>1, AddFacts DEF TypeOK
  <2>3. UNCHANGED <<up, torn>> /\ half' \subseteq up
    BY <1>3 DEF AddLsFile, AddVsFile, AddFile, TypeOK
  <2> QED
    BY <2>2, <2>3 DEF TypeOK
<1>4. ASSUME NEW t \in Table, Destroy(t) PROVE TypeOK'
  <2>1. files' \in [Table -> [Kind -> Seq(File)]]
    BY <1>4, DroppedFacts DEF Destroy
  <2> QED
    BY <1>4, <2>1 DEF Destroy, TypeOK
<1>5. CASE Crash
  <2>1. files' \in [Table -> [Kind -> Seq(File)]]
    BY <1>5 DEF Crash, NoFiles
  <2> QED
    BY <1>5, <2>1 DEF Crash, TypeOK
<1> QED
  BY <1>1, <1>2, <1>3, <1>4, <1>5 DEF Next

\* A pair begun and a pair completed.
LEMMA AddKeepsLengths ==
  ASSUME TypeOK, Lengths, NEW t \in Table, AddLsFile(t) \/ AddVsFile(t)
  PROVE  Lengths'
<1>1. PICK k \in Kind : /\ AddFile(t, k) /\ half' = IF k = "ls" THEN half \cup {t} ELSE half \ {t}
                        /\ k = "ls" <=> t \notin half
  BY DEF AddLsFile, AddVsFile, Kind
<1>2. /\ Added(t, k) \in File
      /\ \A u \in Table, j \in Kind :
           made'[u][j] = IF u = t /\ j = k THEN Append(made[t][k], Added(t, k)) ELSE made[u][j]
  BY <1>1, AddFacts
<1>3. \A u \in Table, j \in Kind : made[u][j] \in Seq(File) /\ Len(made[u][j]) \in Nat
  BY DEF TypeOK
<1>4. Len(Append(made[t][k], Added(t, k))) = Len(made[t][k]) + 1
  BY <1>2, <1>3, AppendProperties
<1>5. /\ Len(made'[t][k]) = Len(made[t][k]) + 1
      /\ \A u \in Table, j \in Kind : u # t \/ j # k => Len(made'[u][j]) = Len(made[u][j])
  <2>1. made'[t][k] = Append(made[t][k], Added(t, k))
    BY <1>2
  <2>2. \A u \in Table, j \in Kind : u # t \/ j # k => made'[u][j] = made[u][j]
    BY <1>2
  <2> QED
    BY <1>4, <2>1, <2>2
<1>6. torn' = torn
  BY <1>1 DEF AddFile
<1> SUFFICES ASSUME NEW u \in Table
             PROVE  /\ Len(made'[u]["vs"]) <= Len(made'[u]["ls"])
                    /\ u \in half' => Len(made'[u]["vs"]) < Len(made'[u]["ls"])
                    /\ u \notin torn => Len(made'[u]["ls"]) =
                                           Len(made'[u]["vs"]) + IF u \in half' THEN 1 ELSE 0
  BY <1>6 DEF Lengths
<1>7. /\ "ls" \in Kind /\ "vs" \in Kind
      /\ Len(made[u]["vs"]) \in Nat /\ Len(made[u]["ls"]) \in Nat
  BY <1>3 DEF Kind
<1>8. /\ Len(made[u]["vs"]) <= Len(made[u]["ls"])
      /\ u \in half => Len(made[u]["vs"]) < Len(made[u]["ls"])
      /\ u \notin torn => Len(made[u]["ls"]) = Len(made[u]["vs"]) + IF u \in half THEN 1 ELSE 0
  BY DEF Lengths
<1>9. CASE u # t
  <2>1. /\ Len(made'[u]["vs"]) = Len(made[u]["vs"]) /\ Len(made'[u]["ls"]) = Len(made[u]["ls"])
        /\ u \in half' <=> u \in half
    BY <1>1, <1>5, <1>7, <1>9
  <2> QED
    BY <1>8, <2>1
<1>10. CASE u = t /\ k = "ls"
  <2>1. /\ Len(made'[u]["ls"]) = Len(made[u]["ls"]) + 1
        /\ Len(made'[u]["vs"]) = Len(made[u]["vs"])
        /\ u \in half' /\ u \notin half
    BY <1>1, <1>5, <1>7, <1>10
  <2>2. u \notin torn => Len(made[u]["ls"]) = Len(made[u]["vs"])
    BY <1>7, <1>8, <2>1
  <2>3. Len(made'[u]["vs"]) < Len(made'[u]["ls"])
    BY <1>7, <1>8, <2>1
  <2>4. u \notin torn => Len(made'[u]["ls"]) = Len(made'[u]["vs"]) + 1
    BY ZenonT(20), <2>1, <2>2
  <2> QED
    BY <1>7, <2>1, <2>3, <2>4
<1>11. CASE u = t /\ k = "vs"
  <2>1. /\ Len(made'[u]["vs"]) = Len(made[u]["vs"]) + 1
        /\ Len(made'[u]["ls"]) = Len(made[u]["ls"])
        /\ u \notin half' /\ u \in half
    BY <1>1, <1>5, <1>7, <1>11
  <2>2. Len(made[u]["vs"]) < Len(made[u]["ls"])
    BY <1>8, <2>1
  <2>3. u \notin torn => Len(made[u]["ls"]) = Len(made[u]["vs"]) + 1
    BY <1>8, <2>1
  <2>4. Len(made'[u]["vs"]) <= Len(made'[u]["ls"])
    BY <1>7, <2>1, <2>2
  <2>5. u \notin torn => Len(made'[u]["ls"]) = Len(made'[u]["vs"]) + 0
    BY <1>7, <2>1, <2>3
  <2> QED
    BY <2>1, <2>4, <2>5
<1> QED
  BY <1>9, <1>10, <1>11 DEF Kind

\* Every step keeps the invariant.
LEMMA NextFileInv == Unrelated /\ TypeOK /\ FileInv /\ [Next]_vars => FileInv'
<1> SUFFICES ASSUME Unrelated, TypeOK, FileInv, [Next]_vars PROVE FileInv'
  OBVIOUS
<1> USE DEF FileInv
<1>1. CASE UNCHANGED vars
  BY <1>1 DEF vars, DiskIsMade, Lengths, Runs, RunsFrom, Shown, Short
<1>2. ASSUME NEW t \in Table, Initialize(t) PROVE FileInv'
  <2>1. DiskIsMade' /\ Lengths' /\ Runs'
    BY <1>2 DEF Initialize, DiskIsMade, Lengths, Runs, RunsFrom, Short
  <2>2. UNCHANGED made /\ up' = up \cup {t} /\ up \subseteq Table
    BY <1>2 DEF Initialize, TypeOK
  <2>3. /\ \A u \in Table : u # t => files'[u] = files[u]
        /\ \A k \in Kind : Short(t, k) => files'[t][k] = made[t][k]
    BY <1>2, InitializeFacts
  <2>4. Shown'
    <3> SUFFICES ASSUME NEW u \in up', NEW k \in Kind, Short(u, k)'
                 PROVE  files'[u][k] = made'[u][k]
      BY DEF Shown
    <3>1. Short(u, k)
      BY <2>2 DEF Short
    <3>2. CASE u = t
      BY <2>2, <2>3, <3>1, <3>2
    <3>3. CASE u # t
      BY <2>2, <2>3, <3>1, <3>3 DEF Shown
    <3> QED
      BY <3>2, <3>3
  <2> QED
    BY <2>1, <2>4
<1>3. ASSUME NEW t \in Table, AddLsFile(t) \/ AddVsFile(t) PROVE FileInv'
  <2>1. PICK k \in Kind : AddFile(t, k)
    BY <1>3 DEF AddLsFile, AddVsFile, Kind
  <2> QED
    BY <1>3, <2>1, AddKeepsDisk, AddKeepsLengths, AddKeepsRuns
<1>4. ASSUME NEW t \in Table, Destroy(t) PROVE FileInv'
  <2>1. DiskIsMade' /\ Lengths' /\ Runs'
    BY <1>4 DEF Destroy, DiskIsMade, Lengths, Runs, RunsFrom, Short
  <2>2. /\ UNCHANGED made /\ up' = up \ {t} /\ up \subseteq Table
        /\ \A u \in Table : u # t => files'[u] = files[u]
    BY <1>4, DroppedFacts DEF Destroy, TypeOK
  <2>3. Shown'
    BY <2>2 DEF Shown, Short
  <2> QED
    BY <2>1, <2>3
<1>5. CASE Crash
  <2>1. DiskIsMade' /\ Runs' /\ Shown'
    BY <1>5 DEF Crash, DiskIsMade, Runs, RunsFrom, Shown, Short
  <2>2. Lengths'
    BY <1>5 DEF Crash, Lengths
  <2> QED
    BY <2>1, <2>2
<1> QED
  BY <1>1, <1>2, <1>3, <1>4, <1>5 DEF Next

\* So it always holds.
LEMMA InvAlways ==
  ASSUME Unrelated
  PROVE  Spec => [](TypeOK /\ FileInv)
<1>1. TypeOK /\ FileInv /\ [Next]_vars => (TypeOK /\ FileInv)'
  BY NextTypeOK, NextFileInv
<1> QED
  BY <1>1, InitInv, PTL DEF Spec

\* The manager's state keeps its types, for tables with unrelated names.
THEOREM FileTypes ==
  ASSUME Unrelated
  PROVE  Spec => []TypeOK
BY InvAlways, PTL
-----------------------------------------------------------------------------
(* What the lists of a manager are good for.                               *)

\* The two short logs of a table and their lists.
LEMMA BelowFacts ==
  ASSUME TypeOK, FileInv, NEW t \in up, Below(t)
  PROVE  /\ t \in Table
         /\ \A k \in Kind : /\ files[t][k] = made[t][k] /\ files[t][k] \in Seq(File)
                            /\ Len(files[t][k]) \in Nat /\ Len(files[t][k]) < MaxFiles
         /\ \E first \in Number : \A k \in Kind : Run(files[t][k], t, k, first)
<1>1. t \in Table
  BY DEF TypeOK
<1>2. \A k \in Kind : Short(t, k)
  BY DEF Below, Short
<1>3. \A k \in Kind : /\ files[t][k] = made[t][k] /\ made[t][k] \in Seq(File)
                      /\ Len(made[t][k]) < MaxFiles
  BY <1>1, <1>2 DEF FileInv, Shown, TypeOK, Short
<1>4. PICK first \in Number : RunsFrom(t, first)
  BY <1>1 DEF FileInv, Runs
<1>5. \A k \in Kind : Run(files[t][k], t, k, first)
  BY <1>2, <1>3, <1>4 DEF RunsFrom
<1> QED
  BY <1>1, <1>3, <1>5

\* Below the full number of files each one is found by its number.
THEOREM AlwaysFound ==
  ASSUME Unrelated
  PROVE  Spec => []FoundByNumber
<1>1. ASSUME TypeOK, FileInv PROVE FoundByNumber
  <2> SUFFICES ASSUME NEW t \in up, NEW k \in Kind, Below(t), NEW i \in DOMAIN files[t][k]
               PROVE  /\ files[t][k][i].table = t
                      /\ i \in Lookup(files[t][k], files[t][k][i].number)
                      /\ \A j \in Lookup(files[t][k], files[t][k][i].number) : i <= j
    BY DEF FoundByNumber
  <2> DEFINE s == files[t][k]
  <2>1. /\ s \in Seq(File) /\ Len(s) \in Nat /\ Len(s) < MaxFiles
        /\ \E first \in Number : Run(s, t, k, first)
    BY <1>1, BelowFacts
  <2> HIDE DEF s
  <2>2. PICK first \in Number : Run(s, t, k, first)
    BY <2>1
  <2>3. i \in 1 .. Len(s) /\ DOMAIN s = 1 .. Len(s)
    BY <2>1 DEF s
  <2>4. /\ \A j \in 1 .. Len(s) : s[j].number = s[i].number => j = i
        /\ s[i].table = t
    BY <2>1, <2>2, <2>3, RunDistinct
  <2>5. Lookup(s, s[i].number) = {i}
    BY <2>3, <2>4 DEF Lookup
  <2> QED
    BY <2>3, <2>4, <2>5 DEF s
<1> QED
  BY <1>1, InvAlways, PTL

\* Value files may fall behind the log files and never out of step with them.
THEOREM ValuesAlwaysFollow ==
  ASSUME Unrelated
  PROVE  Spec => []ValuesFollowLogs
<1>1. ASSUME TypeOK, FileInv PROVE ValuesFollowLogs
  <2> SUFFICES ASSUME NEW t \in up, Below(t)
               PROVE  /\ Len(files[t]["vs"]) <= Len(files[t]["ls"])
                      /\ \A i \in DOMAIN files[t]["vs"] :
                           files[t]["vs"][i].number = files[t]["ls"][i].number
    BY DEF ValuesFollowLogs
  <2> DEFINE vs == files[t]["vs"]  ls == files[t]["ls"]
  <2>1. /\ vs \in Seq(File) /\ Len(vs) \in Nat /\ Len(vs) < MaxFiles /\ vs = made[t]["vs"]
        /\ ls \in Seq(File) /\ Len(ls) \in Nat /\ Len(ls) < MaxFiles /\ ls = made[t]["ls"]
        /\ \E first \in Number : Run(vs, t, "vs", first) /\ Run(ls, t, "ls", first)
    BY <1>1, BelowFacts DEF Kind
  <2>2. Len(vs) <= Len(ls)
    BY <1>1, <2>1, BelowFacts DEF FileInv, Lengths
  <2> HIDE DEF vs, ls
  <2>3. PICK first \in Number : Run(vs, t, "vs", first) /\ Run(ls, t, "ls", first)
    BY <2>1
  <2>4. /\ \A i \in 1 .. Len(vs) : vs[i].number = Wrapped(first + i - 1)
        /\ \A i \in 1 .. Len(ls) : ls[i].number = Wrapped(first + i - 1)
    BY <2>1, <2>3, RunDistinct
  <2>5. \A i \in DOMAIN vs : vs[i].number = ls[i].number
    <3> TAKE i \in DOMAIN vs
    <3>1. i \in 1 .. Len(vs) /\ i \in 1 .. Len(ls)
      BY <2>1, <2>2
    <3> QED
      BY <2>4, <3>1
  <2> QED
    BY <2>2, <2>5 DEF vs, ls
<1> QED
  BY <1>1, InvAlways, PTL

\* The assertions of validate() hold between two pairs unless one was torn.
THEOREM AlwaysValid ==
  ASSUME Unrelated
  PROVE  Spec => []ValidUnlessTorn
<1>1. ASSUME TypeOK, FileInv PROVE ValidUnlessTorn
  <2> SUFFICES ASSUME NEW t \in up, t \notin half, t \notin torn, Below(t) PROVE Validate(t)
    BY DEF ValidUnlessTorn
  <2> DEFINE vs == files[t]["vs"]  ls == files[t]["ls"]
  <2>1. /\ vs \in Seq(File) /\ Len(vs) \in Nat /\ Len(vs) < MaxFiles /\ vs = made[t]["vs"]
        /\ ls \in Seq(File) /\ Len(ls) \in Nat /\ Len(ls) < MaxFiles /\ ls = made[t]["ls"]
        /\ \E first \in Number : Run(vs, t, "vs", first) /\ Run(ls, t, "ls", first)
        /\ t \in Table
    BY <1>1, BelowFacts DEF Kind
  <2>2. Len(ls) = Len(vs) + 0
    BY <1>1, <2>1 DEF FileInv, Lengths
  <2> HIDE DEF vs, ls
  <2>3. PICK first \in Number : Run(vs, t, "vs", first) /\ Run(ls, t, "ls", first)
    BY <2>1
  <2>4. /\ \A i \in 1 .. Len(vs) : vs[i].number = Wrapped(first + i - 1)
        /\ \A i \in 1 .. Len(ls) : ls[i].number = Wrapped(first + i - 1)
    BY <2>1, <2>3, RunDistinct
  <2>5. Len(ls) = Len(vs) /\ \A i \in DOMAIN ls : ls[i].number = vs[i].number
    BY SMTT(20), <2>1, <2>2, <2>4
  <2>6. \A i \in 1 .. Len(ls) - 1 : ls[i + 1].number = Consecutive(ls[i].number)
    <3> TAKE i \in 1 .. Len(ls) - 1
    <3>1. i \in 1 .. Len(ls) /\ i + 1 \in 1 .. Len(ls) /\ first + (i + 1) - 1 = first + i
      BY SMTT(20), <2>1, FilesAssumption DEF Number
    <3>2. ls[i].number = Wrapped(first + i - 1) /\ ls[i + 1].number = Wrapped(first + (i + 1) - 1)
      BY <2>4, <3>1
    <3>3. Wrapped(first + i) = Consecutive(Wrapped(first + i - 1))
      <4>1. i \in Nat /\ i < MaxFiles /\ first \in 0 .. MaxFiles - 1 /\ MaxFiles \in Nat
        BY <2>1, <3>1, FilesAssumption DEF Number
      <4>2. CASE first + i < MaxFiles
        BY <4>1, <4>2 DEF Wrapped, Consecutive
      <4>3. CASE first + i = MaxFiles
        BY <4>1, <4>3 DEF Wrapped, Consecutive
      <4>4. CASE first + i > MaxFiles
        BY <4>1, <4>4 DEF Wrapped, Consecutive
      <4> QED
        BY <4>1, <4>2, <4>3, <4>4
    <3> QED
      BY <3>1, <3>2, <3>3
  <2> QED
    BY <2>5, <2>6 DEF Validate, vs, ls
<1> QED
  BY <1>1, InvAlways, PTL
-----------------------------------------------------------------------------
(* The manager implements the log of files.                                *)

\* A file goes to the end of the log, and to a short one under a new name.
LEMMA AddIsAdd ==
  ASSUME TypeOK, FileInv, NEW t \in Table, NEW k \in Kind, AddFile(t, k)
  PROVE  Log!Add(t, k)
<1> DEFINE f == Added(t, k)
<1>1. /\ t \in up /\ UNCHANGED up /\ files' = [files EXCEPT ![t][k] = Append(@, f)]
      /\ made' = [made EXCEPT ![t][k] = Append(@, f)]
  BY DEF AddFile, Added, Numbered
<1>2. f \in File
  BY AddFacts
<1>3. made[t][k] \in Seq(File) /\ Len(made[t][k]) \in Nat
  BY DEF TypeOK
<1>4. ASSUME Short(t, k) PROVE f \notin Log!InUse(t, k)
  <2>1. PICK first \in Number : RunsFrom(t, first)
    BY DEF FileInv, Runs
  <2>2. Run(made[t][k], t, k, first)
    BY <1>4, <2>1 DEF RunsFrom
  <2>3. made[t][k] = <<>> => first = 0
    <3>1. made[t]["vs"] \in Seq(File) /\ Len(made[t]["vs"]) <= Len(made[t]["ls"])
      BY DEF TypeOK, Kind, FileInv, Lengths
    <3>2. made[t]["ls"] = <<>> => made[t]["vs"] = <<>>
      BY <3>1
    <3> QED
      BY <2>1, <3>2 DEF Kind, RunsFrom
  <2>4. f = Numbered(t, k, Wrapped(first + Len(made[t][k])))
    BY <1>1, <1>4, <2>2, <2>3, AddedNumber DEF FileInv
  <2>5. f.number = Wrapped(first + Len(made[t][k]))
    BY <2>4 DEF Numbered
  <2> HIDE DEF f
  <2>6. \A i \in 1 .. Len(made[t][k]) : made[t][k][i].number # f.number
    BY <1>3, <1>4, <2>2, <2>5, RunDistinct DEF Short
  <2> QED
    BY <1>3, <2>6 DEF Log!InUse
<1>5. Log!Full(t, k) \/ f \notin Log!InUse(t, k)
  BY <1>3, <1>4, FilesAssumption DEF Log!Full, Short
<1> QED
  BY <1>1, <1>2, <1>5 DEF Log!Add

\* The steps of the manager are steps of the log.
LEMMA StepIsLogStep ==
  Unrelated /\ TypeOK /\ FileInv /\ [Next]_vars => [Log!LogNext]_(Log!logVars)
<1> SUFFICES ASSUME Unrelated, TypeOK, FileInv, [Next]_vars
             PROVE  Log!LogNext \/ UNCHANGED Log!logVars
  OBVIOUS
<1>1. CASE UNCHANGED vars
  BY <1>1 DEF vars, Log!logVars
<1>2. ASSUME NEW t \in Table, Initialize(t) PROVE Log!LogNext
  <2>1. /\ t \notin up /\ up' = up \cup {t} /\ UNCHANGED made
    BY <1>2 DEF Initialize
  <2>2. /\ \A u \in Table : u # t => files'[u] = files[u]
        /\ \A k \in Kind : Short(t, k) => files'[t][k] = made[t][k]
    BY <1>2, InitializeFacts
  <2>3. \A k \in Kind : Log!Full(t, k) \/ Short(t, k)
    BY FilesAssumption DEF Log!Full, Short, TypeOK
  <2>4. Log!Start(t)
    BY <2>1, <2>2, <2>3 DEF Log!Start
  <2> QED
    BY <2>4 DEF Log!LogNext
<1>3. ASSUME NEW t \in Table, AddLsFile(t) \/ AddVsFile(t) PROVE Log!LogNext
  <2>1. PICK k \in Kind : AddFile(t, k)
    BY <1>3 DEF AddLsFile, AddVsFile, Kind
  <2> QED
    BY <2>1, AddIsAdd DEF Log!LogNext
<1>4. ASSUME NEW t \in Table, Destroy(t) PROVE Log!LogNext
  <2>1. /\ up' = up \ {t} /\ UNCHANGED made
        /\ files' = [u \in Table |-> IF u \in {t} THEN [k \in Kind |-> <<>>] ELSE files[u]]
    BY <1>4 DEF Destroy, TypeOK, NoFiles
  <2>2. Log!Close({t})
    BY <2>1 DEF Log!Close
  <2> QED
    BY <2>2 DEF Log!LogNext
<1>5. CASE Crash
  <2>1. /\ up' = up \ Table /\ UNCHANGED made
        /\ files' = [u \in Table |-> IF u \in Table THEN [k \in Kind |-> <<>>] ELSE files[u]]
    BY <1>5 DEF Crash, TypeOK, NoFiles
  <2>2. Log!Close(Table)
    BY <2>1 DEF Log!Close
  <2> QED
    BY <2>2 DEF Log!LogNext
<1> QED
  BY <1>1, <1>2, <1>3, <1>4, <1>5 DEF Next

\* The first state of the manager is one of the log.
LEMMA InitIsLogInit == Init => Log!LogInit
<1> SUFFICES ASSUME Init PROVE Log!LogInit
  OBVIOUS
<1>1. PICK first \in [Table -> Number], n \in [Table -> 0 .. MaxFiles - 1] :
        made = [t \in Table |-> Pairs(t, first[t], n[t])]
  BY DEF Init
<1>2. \A t \in Table, k \in Kind : /\ made[t][k] \in Seq(File) /\ Len(made[t][k]) = n[t]
                                   /\ Run(made[t][k], t, k, first[t])
  BY <1>1, PairsRun
<1>3. ASSUME NEW t \in Table, NEW k \in Kind, NEW i \in DOMAIN made[t][k],
             NEW j \in DOMAIN made[t][k], i # j
      PROVE  made[t][k][i] # made[t][k][j]
  <2>1. /\ Len(made[t][k]) \in Nat /\ Len(made[t][k]) < MaxFiles
        /\ i \in 1 .. Len(made[t][k]) /\ j \in 1 .. Len(made[t][k])
    BY <1>2, FilesAssumption
  <2>2. first[t] \in Number /\ Run(made[t][k], t, k, first[t])
    BY <1>2
  <2>3. made[t][k][i].number # made[t][k][j].number
    BY <1>3, <2>1, <2>2, RunDistinct
  <2> QED
    BY <2>3
<1>4. up = {} /\ files = [t \in Table |-> [k \in Kind |-> <<>>]]
  BY DEF Init, NoFiles
<1> QED
  BY <1>3, <1>4 DEF Log!LogInit

\* For any number of tables with unrelated names, of files and of crashes, a manager
\* that starts shows every log of less than MaxFiles files in the order it was made in,
\* and adds to it under names that are not in use.
THEOREM ImplementsLog ==
  ASSUME Unrelated
  PROVE  Spec => FileLogSpec
<1>1. TypeOK /\ FileInv /\ [Next]_vars => [Log!LogNext]_(Log!logVars)
  BY StepIsLogStep
<1> QED
  BY <1>1, InitIsLogInit, InvAlways, PTL DEF Spec, FileLogSpec, Log!LogSpec
=============================================================================
