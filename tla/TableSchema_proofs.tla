--------------------------- MODULE TableSchema_proofs ---------------------------
(***************************************************************************)
(* Proofs about TableSchema: the layout of a row and what a table reads    *)
(* back, for any columns, any width of sizes and any number of writes.     *)
(***************************************************************************)
EXTENDS TableSchema, SequenceTheorems, WellFoundedInduction, TLAPS

Size == 0 .. Width - 1

Column == [name : Name, size : Size, type : ColumnType, key : KeyType]

Line == [name : Name \cup {"torn", "single", "blank"}, size : Size, type : ColumnType,
         key : KeyType \cup {"torn"}]

Offsets == UNION {[D -> Size] : D \in SUBSET Name}

Schema == [columns : Seq(Column), offset : Offsets, totalSize : Size, primaryOffset : Size,
           primarySize : Size, keySizeFixed : BOOLEAN, rowSizeFixed : BOOLEAN]

\* The rows of s are as LayoutExact says, as long as their size fits.
Laid(s) ==
  LET cols == s.columns
  IN  /\ \A i \in DOMAIN cols : cols[i].name \in DOMAIN s.offset
      /\ FullSize(cols) < Width =>
           /\ s.totalSize = FullSize(cols)
           /\ Distinct(cols) =>
                \A i \in DOMAIN cols : s.offset[cols[i].name] = SizeBefore(cols, i)
           /\ PrimaryColumns(cols) # {} => \E i \in PrimaryColumns(cols) :
                s.primaryOffset = SizeBefore(cols, i) /\ s.primarySize = cols[i].size

\* What a line of the file may be when the column is to be written as the n-th of
\* the lines there are.
WrittenAs(line, column, isLast) ==
  line = LineOf(column) \/ (isLast /\ line \in TornLines(LineOf(column)))

\* The file holds the columns, or the first of them.
Holds(lines, cols) ==
  /\ Len(lines) <= Len(cols)
  /\ \A i \in 1 .. Len(lines) : WrittenAs(lines[i], cols[i], i = Len(lines))

\* The file holds all the columns.
HoldsAll(lines, cols) ==
  /\ Len(lines) = Len(cols)
  /\ \A i \in 1 .. Len(lines) : lines[i] = LineOf(cols[i])

\* A table that has read anything has the primary column of its file, if it has one.
PrimaryRead ==
  Len(schema.columns) > added /\ Plain(asked) /\ ReadsWhole(schemaFile)
    /\ PrimaryColumns(schemaFile) # {} => PrimaryColumns(schema.columns) # {}

TypeInv ==
  /\ alive \in BOOLEAN /\ m_schemaFinalized \in BOOLEAN /\ primary \in BOOLEAN
  /\ overran \in BOOLEAN /\ opened \in BOOLEAN /\ cut \in BOOLEAN
  /\ written \in 0 .. MaxWrites
  /\ schemaFile \in Seq(Line) /\ asked \in Seq(Column) /\ schema \in Schema
  /\ added \in Nat /\ added <= Len(schema.columns)
  /\ Len(schema.columns) <= MaxColumns + MaxRead

FileInv == Holds(schemaFile, asked) /\ (~cut => HoldsAll(schemaFile, asked))

OpenInv ==
  /\ primary => PrimaryColumns(schema.columns) # {}
  /\ opened => m_schemaFinalized /\ primary /\ ~overran /\ Creates(schema.columns, FALSE)
  /\ agreed => Creates(asked, FALSE)

SchemaInv == /\ TypeInv /\ Laid(schema) /\ FileInv /\ OpenInv /\ PrimaryRead
             /\ OpensWithPrefix
-----------------------------------------------------------------------------
\* A set of natural numbers with 0 and every successor is all of them.
LEMMA AllNumbers ==
  ASSUME NEW S \in SUBSET Nat, 0 \in S, \A n \in S : n + 1 \in S
  PROVE  S = Nat
<1> SUFFICES ASSUME S # Nat PROVE FALSE
  OBVIOUS
<1> DEFINE less == {ss \in Nat \X Nat : ss[1] < ss[2]}
<1>1. IsWellFoundedOn(less, Nat)
  BY NatLessThanWellFounded DEF OpToRel
<1>2. PICK x \in Nat \ S : \A y \in Nat \ S : <<y, x>> \notin less
  BY <1>1, WFMin
<1>3. x - 1 \in S
  <2>1. x \in Nat \ {0} /\ x - 1 \in Nat /\ x - 1 < x
    BY <1>2
  <2>2. <<x - 1, x>> \in Nat \X Nat /\ <<x - 1, x>>[1] = x - 1 /\ <<x - 1, x>>[2] = x
    BY <2>1
  <2> QED
    BY <1>2, <2>1, <2>2
<1>4. (x - 1) + 1 = x
  BY <1>2
<1> QED
  BY <1>2, <1>3, <1>4

\* What holds at 0, and at n + 1 whenever it holds at n, holds up to N.
LEMMA UpTo ==
  ASSUME NEW N \in Nat, NEW S \in SUBSET (0 .. N), 0 \in S,
         \A n \in 1 .. N : n - 1 \in S => n \in S
  PROVE  S = 0 .. N
<1> DEFINE T == {n \in Nat : n <= N => n \in S}
<1>1. 0 \in T
  OBVIOUS
<1>2. ASSUME NEW n \in T PROVE n + 1 \in T
  <2> SUFFICES ASSUME n + 1 <= N PROVE n + 1 \in S
    OBVIOUS
  <2>1. n + 1 \in 1 .. N /\ (n + 1) - 1 = n /\ n <= N
    OBVIOUS
  <2> QED
    BY <2>1
<1>3. T = Nat
  <2> HIDE DEF T
  <2>1. T \in SUBSET Nat
    BY DEF T
  <2> QED
    BY <1>1, <1>2, <2>1, AllNumbers
<1>4. \A n \in 0 .. N : n \in T
  <2> HIDE DEF T
  <2> QED
    BY <1>3
<1>5. \A n \in 0 .. N : n \in S
  BY <1>4
<1> HIDE DEF T
<1> QED
  BY <1>5

\* f goes from a by F, N times.
Iterates(f, a, N, F) == f = [n \in 0 .. N |-> IF n = 0 THEN a ELSE F[<<f[n - 1], n>>]]

\* A loop of N rounds has a result.
LEMMA IterationExists ==
  ASSUME NEW V, NEW a \in V, NEW N \in Nat, NEW F \in [V \X (1 .. N) -> V]
  PROVE  \E f \in [0 .. N -> V] : Iterates(f, a, N, F)
<1> DEFINE S == {m \in 0 .. N : \E f \in [0 .. m -> V] : Iterates(f, a, m, F)}
<1>1. 0 \in S
  <2>1. PICK f : f = [n \in 0 .. 0 |-> a]
    OBVIOUS
  <2>2. f \in [0 .. 0 -> V] /\ \A n \in 0 .. 0 : n = 0
    BY <2>1
  <2>3. f = [n \in 0 .. 0 |-> IF n = 0 THEN a ELSE F[<<f[n - 1], n>>]]
    BY <2>1, <2>2
  <2> QED
    BY <2>2, <2>3 DEF Iterates
<1>2. ASSUME NEW m \in 1 .. N, m - 1 \in S PROVE m \in S
  <2>1. PICK f \in [0 .. m - 1 -> V] : Iterates(f, a, m - 1, F)
    BY <1>2
  <2>2. PICK v : v = F[<<f[m - 1], m>>]
    OBVIOUS
  <2>3. m - 1 \in 0 .. m - 1 /\ f[m - 1] \in V /\ v \in V
    <3>1. m - 1 \in 0 .. m - 1
      OBVIOUS
    <3>2. <<f[m - 1], m>> \in V \X (1 .. N)
      BY <3>1
    <3> QED
      BY <2>2, <3>1, <3>2
  <2>4. PICK g : g = [n \in 0 .. m |-> IF n = m THEN v ELSE f[n]]
    OBVIOUS
  <2>5. \A n \in 0 .. m : n # m => n \in 0 .. m - 1 /\ g[n] = f[n]
    BY <2>4
  <2>6. g \in [0 .. m -> V] /\ m # 0 /\ g[m] = v /\ g[m - 1] = f[m - 1]
    <3>1. \A n \in 0 .. m : g[n] \in V
      <4> TAKE n \in 0 .. m
      <4> QED
        BY <2>3, <2>4, <2>5
    <3>2. m - 1 \in 0 .. m /\ m - 1 # m /\ m # 0 /\ m \in 0 .. m
      OBVIOUS
    <3> QED
      BY <2>4, <3>1, <3>2
  <2>7. ASSUME NEW n \in 0 .. m
        PROVE  g[n] = IF n = 0 THEN a ELSE F[<<g[n - 1], n>>]
    <3>1. CASE n = m
      BY <2>2, <2>6, <3>1
    <3>2. CASE n # m
      <4>1. n \in 0 .. m - 1 /\ g[n] = f[n]
        BY <2>5, <3>2
      <4>2. f[n] = IF n = 0 THEN a ELSE F[<<f[n - 1], n>>]
        BY <2>1, <4>1 DEF Iterates
      <4>3. n # 0 => n - 1 \in 0 .. m /\ n - 1 # m
        BY <4>1
      <4> QED
        BY <2>5, <4>1, <4>2, <4>3
    <3> QED
      BY <3>1, <3>2
  <2>8. Iterates(g, a, m, F)
    BY <2>4, <2>7 DEF Iterates
  <2> QED
    BY <2>6, <2>8
<1>3. S = 0 .. N
  <2> HIDE DEF S
  <2>1. S \in SUBSET (0 .. N)
    BY DEF S
  <2> QED
    BY <1>1, <1>2, <2>1, UpTo
<1> QED
  BY <1>3

\* The sizes of the first n columns, for every n.
Sums(f, cols) ==
  f = [n \in 0 .. Len(cols) |-> IF n = 0 THEN 0 ELSE f[n - 1] + cols[n].size]

LEMMA SizeTypes == Size \subseteq Nat /\ 0 \in Size /\ \A x \in Int : x % Width \in Size
BY BoundAssumption DEF Size

\* A number that fits is stored as it is.
LEMMA Stored == \A x \in Size : x % Width = x
BY BoundAssumption DEF Size

LEMMA ColumnFields ==
  \A c \in Column : /\ c.name \in Name /\ c.size \in Size /\ c.size \in Nat
                   /\ c.type \in ColumnType /\ c.key \in KeyType
BY SizeTypes DEF Column

LEMMA SumsExist ==
  ASSUME NEW cols \in Seq(Column)
  PROVE  \E f : Sums(f, cols)
<1> DEFINE F == [p \in Nat \X (1 .. Len(cols)) |-> p[1] + cols[p[2]].size]
<1>1. \A n \in 1 .. Len(cols) : cols[n].size \in Nat
  BY ColumnFields
<1>2. F \in [Nat \X (1 .. Len(cols)) -> Nat]
  <2> SUFFICES ASSUME NEW p \in Nat \X (1 .. Len(cols)) PROVE p[1] + cols[p[2]].size \in Nat
    OBVIOUS
  <2>1. p[1] \in Nat /\ p[2] \in 1 .. Len(cols)
    OBVIOUS
  <2> QED
    BY <1>1, <2>1
<1>3. \A k \in Nat, n \in 1 .. Len(cols) : F[<<k, n>>] = k + cols[n].size
  OBVIOUS
<1> HIDE DEF F
<1>4. PICK f \in [0 .. Len(cols) -> Nat] : Iterates(f, 0, Len(cols), F)
  <2>1. Len(cols) \in Nat /\ 0 \in Nat
    OBVIOUS
  <2> QED
    BY <2>1, <1>2, IterationExists
<1>5. ASSUME NEW n \in 0 .. Len(cols)
      PROVE  f[n] = IF n = 0 THEN 0 ELSE f[n - 1] + cols[n].size
  <2>1. f[n] = IF n = 0 THEN 0 ELSE F[<<f[n - 1], n>>]
    BY <1>4 DEF Iterates
  <2>2. n # 0 => n - 1 \in 0 .. Len(cols) /\ n \in 1 .. Len(cols)
    OBVIOUS
  <2> QED
    BY <1>3, <2>1, <2>2
<1> QED
  BY <1>5 DEF Sums

\* The places of columns in a row, one after the other.
LEMMA SizeBeforeIs ==
  ASSUME NEW cols \in Seq(Column)
  PROVE  /\ SizeBefore(cols, 1) = 0
         /\ \A i \in 1 .. Len(cols) + 1 : SizeBefore(cols, i) \in Nat
         /\ \A i \in 1 .. Len(cols) :
              SizeBefore(cols, i + 1) = SizeBefore(cols, i) + cols[i].size
<1> DEFINE sum[n \in 0 .. Len(cols)] == IF n = 0 THEN 0 ELSE sum[n - 1] + cols[n].size
<1>1. Sums(sum, cols)
  <2>1. sum = CHOOSE f : Sums(f, cols)
    BY Zenon DEF Sums
  <2> HIDE DEF sum
  <2> QED
    BY <2>1, SumsExist
<1>2. \A i : SizeBefore(cols, i) = sum[i - 1]
  BY Zenon DEF SizeBefore
<1> HIDE DEF sum
<1>3. sum[0] = 0 /\ \A n \in 1 .. Len(cols) : sum[n] = sum[n - 1] + cols[n].size
  BY <1>1 DEF Sums
<1>4. \A n \in 1 .. Len(cols) : cols[n].size \in Nat
  BY ColumnFields
<1>5. \A n \in 0 .. Len(cols) : sum[n] \in Nat
  <2> DEFINE S == {n \in 0 .. Len(cols) : sum[n] \in Nat}
  <2>1. 0 \in S
    BY <1>3
  <2>2. \A n \in 1 .. Len(cols) : n - 1 \in S => n \in S
    BY <1>3, <1>4
  <2>3. S \in SUBSET (0 .. Len(cols)) /\ Len(cols) \in Nat
    OBVIOUS
  <2> HIDE DEF S
  <2>4. S = 0 .. Len(cols)
    BY <2>1, <2>2, <2>3, UpTo
  <2> QED
    BY <2>4 DEF S
<1>6. \A i \in 1 .. Len(cols) + 1 : i - 1 \in 0 .. Len(cols)
  OBVIOUS
<1>7. \A i \in 1 .. Len(cols) : (i + 1) - 1 = i
  OBVIOUS
<1> QED
  BY <1>2, <1>3, <1>5, <1>6, <1>7

\* No column is put behind the end of the row.
LEMMA Inside ==
  ASSUME NEW cols \in Seq(Column)
  PROVE  /\ FullSize(cols) \in Nat
         /\ \A i \in 1 .. Len(cols) : SizeBefore(cols, i) + cols[i].size <= FullSize(cols)
<1>1. Len(cols) \in Nat /\ FullSize(cols) = SizeBefore(cols, Len(cols) + 1)
  BY DEF FullSize
<1>2. \A i \in 1 .. Len(cols) + 1 : SizeBefore(cols, i) \in Nat
  BY SizeBeforeIs
<1>3. \A i \in 1 .. Len(cols) : cols[i].size \in Nat
  BY ColumnFields
<1>4. \A i \in 1 .. Len(cols) : SizeBefore(cols, i + 1) = SizeBefore(cols, i) + cols[i].size
  BY SizeBeforeIs
<1> DEFINE S == {n \in 0 .. Len(cols) :
                   \A i \in 1 .. n : SizeBefore(cols, i + 1) <= SizeBefore(cols, n + 1)}
<1>5. 0 \in S
  BY <1>1
<1>6. ASSUME NEW n \in 1 .. Len(cols), n - 1 \in S PROVE n \in S
  <2> SUFFICES ASSUME NEW i \in 1 .. n
               PROVE  SizeBefore(cols, i + 1) <= SizeBefore(cols, n + 1)
    BY <1>1
  <2>1. SizeBefore(cols, n + 1) = SizeBefore(cols, n) + cols[n].size /\ cols[n].size \in Nat
    BY <1>3, <1>4
  <2>2. SizeBefore(cols, n) \in Nat /\ SizeBefore(cols, i + 1) \in Nat
    <3>1. n \in 1 .. Len(cols) + 1 /\ i + 1 \in 1 .. Len(cols) + 1
      BY <1>1
    <3> QED
      BY <1>2, <3>1
  <2>3. CASE i = n
    BY <2>1, <2>2, <2>3
  <2>4. CASE i # n
    <3>1. i \in 1 .. n - 1 /\ (n - 1) + 1 = n
      BY <2>4
    <3>2. SizeBefore(cols, i + 1) <= SizeBefore(cols, n)
      BY <1>6, <3>1
    <3> QED
      BY <2>1, <2>2, <3>2
  <2> QED
    BY <2>3, <2>4
<1>7. S = 0 .. Len(cols)
  <2>1. S \in SUBSET (0 .. Len(cols))
    OBVIOUS
  <2> HIDE DEF S
  <2> QED
    BY <1>1, <1>5, <1>6, <2>1, UpTo
<1>8. \A i \in 1 .. Len(cols) : SizeBefore(cols, i + 1) <= SizeBefore(cols, Len(cols) + 1)
  <2>1. Len(cols) \in S
    <3> HIDE DEF S
    <3> QED
      BY <1>1, <1>7
  <2> QED
    BY <2>1
<1> QED
  BY <1>1, <1>2, <1>4, <1>8

\* A column behind the others leaves them where they are.
LEMMA SizeBeforeAppend ==
  ASSUME NEW cols \in Seq(Column), NEW c \in Column
  PROVE  /\ \A i \in 1 .. Len(cols) + 1 : SizeBefore(Append(cols, c), i) = SizeBefore(cols, i)
         /\ FullSize(Append(cols, c)) = FullSize(cols) + c.size
<1> PICK more : more = Append(cols, c)
  OBVIOUS
<1>1. /\ more \in Seq(Column) /\ Len(more) = Len(cols) + 1 /\ Len(cols) \in Nat
      /\ more[Len(cols) + 1] = c /\ \A i \in 1 .. Len(cols) : more[i] = cols[i]
  BY AppendProperties
<1> DEFINE S == {n \in 0 .. Len(cols) : SizeBefore(more, n + 1) = SizeBefore(cols, n + 1)}
<1>2. 0 \in S
  <2>1. SizeBefore(more, 1) = 0 /\ SizeBefore(cols, 1) = 0
    BY <1>1, SizeBeforeIs
  <2> QED
    BY <1>1, <2>1
<1>3. ASSUME NEW n \in 1 .. Len(cols), n - 1 \in S PROVE n \in S
  <2>1. n \in 1 .. Len(more) /\ (n - 1) + 1 = n /\ n \in 0 .. Len(cols)
    BY <1>1
  <2>2. SizeBefore(more, n + 1) = SizeBefore(more, n) + more[n].size
    BY <1>1, <2>1, SizeBeforeIs
  <2>3. SizeBefore(cols, n + 1) = SizeBefore(cols, n) + cols[n].size
    BY SizeBeforeIs
  <2> QED
    BY <1>1, <1>3, <2>1, <2>2, <2>3
<1>4. S = 0 .. Len(cols)
  <2>1. S \in SUBSET (0 .. Len(cols))
    OBVIOUS
  <2> HIDE DEF S
  <2> QED
    BY <1>1, <1>2, <1>3, <2>1, UpTo
<1>5. \A i \in 1 .. Len(cols) + 1 : SizeBefore(more, i) = SizeBefore(cols, i)
  <2> TAKE i \in 1 .. Len(cols) + 1
  <2>1. i - 1 \in 0 .. Len(cols) /\ (i - 1) + 1 = i
    BY <1>1
  <2>2. i - 1 \in S
    <3> HIDE DEF S
    <3> QED
      BY <1>4, <2>1
  <2> QED
    BY <2>1, <2>2
<1>6. FullSize(more) = FullSize(cols) + c.size
  <2>1. Len(cols) + 1 \in 1 .. Len(more) /\ Len(cols) + 1 \in 1 .. Len(cols) + 1
    BY <1>1
  <2>2. SizeBefore(more, (Len(cols) + 1) + 1) = SizeBefore(more, Len(cols) + 1) + c.size
    BY <1>1, <2>1, SizeBeforeIs
  <2> QED
    BY <1>1, <1>5, <2>1, <2>2 DEF FullSize
<1> QED
  BY <1>5, <1>6

\* addColumn keeps the types.
LEMMA WithColumnType ==
  ASSUME NEW s \in Schema, NEW c \in Column
  PROVE  WithColumn(s, c) \in Schema
<1>1. /\ s.columns \in Seq(Column) /\ s.totalSize \in Size /\ s.primaryOffset \in Size
      /\ s.primarySize \in Size /\ s.keySizeFixed \in BOOLEAN /\ s.rowSizeFixed \in BOOLEAN
      /\ s.offset \in Offsets
  BY DEF Schema
<1>2. c.name \in Name /\ c.size \in Size
  BY ColumnFields
<1> PICK off : off = [n \in DOMAIN s.offset \cup {c.name} |->
                        IF n = c.name THEN NewOffset(s, c) ELSE s.offset[n]]
  OBVIOUS
<1>3. off \in Offsets
  <2>1. PICK D \in SUBSET Name : s.offset \in [D -> Size]
    BY <1>1 DEF Offsets
  <2>2. off \in [D \cup {c.name} -> Size]
    BY <1>1, <2>1 DEF NewOffset
  <2>3. D \cup {c.name} \in SUBSET Name
    BY <1>2
  <2> QED
    BY <2>2, <2>3 DEF Offsets
<1>4. NewTotal(s, c) \in Size
  <2>1. s.totalSize \in Nat /\ c.size \in Nat
    BY <1>1, <1>2, SizeTypes
  <2>2. s.totalSize + c.size \in Int
    BY <2>1
  <2> QED
    BY <2>2, SizeTypes DEF NewTotal
<1>5. Append(s.columns, c) \in Seq(Column)
  BY <1>1
<1> PICK t : t = WithColumn(s, c)
  OBVIOUS
<1>6. t = [columns |-> Append(s.columns, c), offset |-> off, totalSize |-> NewTotal(s, c),
           primaryOffset |-> IF c.key = "Primary" THEN NewOffset(s, c) ELSE s.primaryOffset,
           primarySize |-> IF c.key = "Primary" THEN c.size ELSE s.primarySize,
           keySizeFixed |-> s.keySizeFixed /\ (c.size # 0 \/ c.key = "None"),
           rowSizeFixed |-> s.rowSizeFixed /\ c.size # 0]
  BY DEF WithColumn
<1>7. /\ (IF c.key = "Primary" THEN NewOffset(s, c) ELSE s.primaryOffset) \in Size
      /\ (IF c.key = "Primary" THEN c.size ELSE s.primarySize) \in Size
  BY <1>1, <1>2 DEF NewOffset
<1> QED
  BY <1>3, <1>4, <1>5, <1>6, <1>7 DEF Schema

\* addColumn puts the column at the end of the row.
LEMMA WithColumnLaid ==
  ASSUME NEW s \in Schema, NEW c \in Column, Laid(s)
  PROVE  Laid(WithColumn(s, c)) /\ WithColumn(s, c).columns = Append(s.columns, c)
<1> PICK t, cols, more : t = WithColumn(s, c) /\ cols = s.columns /\ more = Append(cols, c)
  OBVIOUS
<1>1. /\ cols \in Seq(Column) /\ Len(cols) \in Nat
      /\ more \in Seq(Column) /\ Len(more) = Len(cols) + 1
      /\ more[Len(cols) + 1] = c /\ \A i \in 1 .. Len(cols) : more[i] = cols[i]
  BY AppendProperties DEF Schema
<1>2. \A i \in 1 .. Len(more) : i = Len(cols) + 1 \/ i \in 1 .. Len(cols)
  BY <1>1
<1>3. /\ t.columns = more /\ t.totalSize = (s.totalSize + c.size) % Width
      /\ DOMAIN t.offset = DOMAIN s.offset \cup {c.name}
      /\ \A n \in DOMAIN t.offset :
           t.offset[n] = IF n = c.name THEN s.totalSize ELSE s.offset[n]
      /\ t.primaryOffset = IF c.key = "Primary" THEN s.totalSize ELSE s.primaryOffset
      /\ t.primarySize = IF c.key = "Primary" THEN c.size ELSE s.primarySize
  BY DEF WithColumn, NewTotal, NewOffset
<1>4. \A i \in DOMAIN cols : cols[i].name \in DOMAIN s.offset
  BY DEF Laid
<1>5. \A i \in 1 .. Len(more) : more[i].name \in DOMAIN t.offset
  BY <1>1, <1>2, <1>3, <1>4
<1>6. ASSUME FullSize(more) < Width
      PROVE  /\ t.totalSize = FullSize(more)
             /\ Distinct(more) =>
                  \A i \in 1 .. Len(more) : t.offset[more[i].name] = SizeBefore(more, i)
             /\ PrimaryColumns(more) # {} => \E i \in PrimaryColumns(more) :
                  t.primaryOffset = SizeBefore(more, i) /\ t.primarySize = more[i].size
  <2>1. FullSize(more) = FullSize(cols) + c.size
    BY <1>1, SizeBeforeAppend
  <2>2. \A i \in 1 .. Len(cols) + 1 : SizeBefore(more, i) = SizeBefore(cols, i)
    BY <1>1, SizeBeforeAppend
  <2>3. FullSize(cols) \in Nat /\ c.size \in Nat
    BY <1>1, ColumnFields, Inside
  <2>4. FullSize(cols) < Width
    BY <1>6, <2>1, <2>3, BoundAssumption
  <2>5. /\ s.totalSize = FullSize(cols)
        /\ Distinct(cols) => \A i \in DOMAIN cols : s.offset[cols[i].name] = SizeBefore(cols, i)
        /\ PrimaryColumns(cols) # {} => \E i \in PrimaryColumns(cols) :
                s.primaryOffset = SizeBefore(cols, i) /\ s.primarySize = cols[i].size
    BY <2>4 DEF Laid
  <2>6. t.totalSize = FullSize(more)
    <3>1. FullSize(more) \in Size
      BY <1>6, <2>1, <2>3, BoundAssumption DEF Size
    <3> QED
      BY <1>3, <2>1, <2>5, <3>1, Stored
  <2>7. s.totalSize = SizeBefore(more, Len(cols) + 1)
    <3>1. Len(cols) + 1 \in 1 .. Len(cols) + 1
      BY <1>1
    <3> QED
      BY <2>2, <2>5, <3>1 DEF FullSize
  <2>8. ASSUME Distinct(more), NEW i \in 1 .. Len(more)
        PROVE  t.offset[more[i].name] = SizeBefore(more, i)
    <3>1. CASE i = Len(cols) + 1
      BY <1>1, <1>3, <2>7, <3>1
    <3>2. CASE i \in 1 .. Len(cols)
      <4>1. Distinct(cols)
        BY SMTT(20), <1>1, <1>2, <2>8 DEF Distinct
      <4>2. more[i].name # c.name
        <5>1. Len(cols) + 1 \in DOMAIN more /\ i \in DOMAIN more /\ i # Len(cols) + 1
          BY <1>1, <3>2
        <5> QED
          BY <1>1, <2>8, <5>1 DEF Distinct
      <4>3. i \in DOMAIN cols /\ i \in 1 .. Len(cols) + 1
        BY <1>1, <3>2
      <4> QED
        BY <1>1, <1>3, <1>4, <2>2, <2>5, <3>2, <4>1, <4>2, <4>3
    <3> QED
      BY <1>2, <3>1, <3>2
  <2>9. ASSUME PrimaryColumns(more) # {}
        PROVE  \E i \in PrimaryColumns(more) :
                  t.primaryOffset = SizeBefore(more, i) /\ t.primarySize = more[i].size
    <3>1. CASE c.key = "Primary"
      <4>1. Len(cols) + 1 \in PrimaryColumns(more)
        BY <1>1, <3>1 DEF PrimaryColumns
      <4> QED
        BY <1>1, <1>3, <2>7, <3>1, <4>1
    <3>2. CASE c.key # "Primary"
      <4>1. \A i \in PrimaryColumns(more) : i \in PrimaryColumns(cols)
        BY <1>1, <1>2, <3>2 DEF PrimaryColumns
      <4>2. PICK i \in PrimaryColumns(cols) :
                s.primaryOffset = SizeBefore(cols, i) /\ s.primarySize = cols[i].size
        BY <2>5, <2>9, <4>1
      <4>3. i \in 1 .. Len(cols) /\ i \in 1 .. Len(cols) + 1 /\ i \in 1 .. Len(more)
            /\ cols[i].key = "Primary"
        BY <1>1 DEF PrimaryColumns
      <4>4. i \in PrimaryColumns(more)
        BY <1>1, <4>3 DEF PrimaryColumns
      <4> QED
        BY <1>1, <1>3, <2>2, <3>2, <4>2, <4>3, <4>4
    <3> QED
      BY <3>1, <3>2
  <2> QED
    BY <2>6, <2>8, <2>9
<1>7. DOMAIN more = 1 .. Len(more)
  BY <1>1
<1> QED
  BY <1>3, <1>5, <1>6, <1>7 DEF Laid

\* more is cols with new behind it.
Joined(more, cols, new) ==
  /\ Len(more) = Len(cols) + Len(new)
  /\ \A i \in 1 .. Len(more) :
       more[i] = IF i <= Len(cols) THEN cols[i] ELSE new[i - Len(cols)]

\* Any number of columns is added one by one.
LEMMA WithColumnsIs ==
  ASSUME NEW s \in Schema, Laid(s), NEW cols \in Seq(Column)
  PROVE  LET t == WithColumns(s, cols)
         IN  t \in Schema /\ Laid(t) /\ Joined(t.columns, s.columns, cols)
<1> DEFINE with[n \in 0 .. Len(cols)] ==
             IF n = 0 THEN s ELSE WithColumn(with[n - 1], cols[n])
           Withs(f) == f = [n \in 0 .. Len(cols) |->
                              IF n = 0 THEN s ELSE WithColumn(f[n - 1], cols[n])]
           F == [p \in Schema \X (1 .. Len(cols)) |-> WithColumn(p[1], cols[p[2]])]
<1>1. WithColumns(s, cols) = with[Len(cols)] /\ with = CHOOSE f : Withs(f)
  BY Zenon DEF WithColumns
<1> HIDE DEF with
<1>2. Len(cols) \in Nat /\ s.columns \in Seq(Column) /\ Len(s.columns) \in Nat
      /\ \A n \in 1 .. Len(cols) : cols[n] \in Column
  BY DEF Schema
<1>3. \E f : Withs(f)
  <2>1. F \in [Schema \X (1 .. Len(cols)) -> Schema]
    <3> SUFFICES ASSUME NEW p \in Schema \X (1 .. Len(cols))
                 PROVE  WithColumn(p[1], cols[p[2]]) \in Schema
      OBVIOUS
    <3>1. p[1] \in Schema /\ cols[p[2]] \in Column
      BY <1>2
    <3> QED
      BY <3>1, WithColumnType
  <2>2. \A t \in Schema, n \in 1 .. Len(cols) : F[<<t, n>>] = WithColumn(t, cols[n])
    OBVIOUS
  <2> HIDE DEF F
  <2>3. PICK f \in [0 .. Len(cols) -> Schema] : Iterates(f, s, Len(cols), F)
    BY <1>2, <2>1, IterationExists
  <2>4. ASSUME NEW n \in 0 .. Len(cols)
        PROVE  f[n] = IF n = 0 THEN s ELSE WithColumn(f[n - 1], cols[n])
    <3>1. f[n] = IF n = 0 THEN s ELSE F[<<f[n - 1], n>>]
      BY <2>3 DEF Iterates
    <3>2. n # 0 => n - 1 \in 0 .. Len(cols) /\ n \in 1 .. Len(cols)
      OBVIOUS
    <3> QED
      BY <2>2, <3>1, <3>2
  <2> QED
    BY <2>4
<1>4. Withs(with)
  <2> HIDE DEF Withs
  <2> QED
    BY <1>1, <1>3
<1>5. with[0] = s /\ \A n \in 1 .. Len(cols) : with[n] = WithColumn(with[n - 1], cols[n])
  <2>1. 0 \in 0 .. Len(cols) /\ \A n \in 1 .. Len(cols) : n \in 0 .. Len(cols) /\ n # 0
    BY <1>2
  <2> QED
    BY <1>4, <2>1
<1> DEFINE OK(n) ==
      LET more == with[n].columns
      IN  /\ with[n] \in Schema /\ Laid(with[n])
          /\ Len(more) = Len(s.columns) + n
          /\ \A i \in 1 .. Len(more) : more[i] = IF i <= Len(s.columns) THEN s.columns[i]
                                                 ELSE cols[i - Len(s.columns)]
           S == {n \in 0 .. Len(cols) : OK(n)}
<1>6. 0 \in S
  BY <1>2, <1>5
<1>7. ASSUME NEW n \in 1 .. Len(cols), n - 1 \in S PROVE n \in S
  <2>1. OK(n - 1) /\ n \in 0 .. Len(cols)
    <3> HIDE DEF OK
    <3> QED
      BY <1>7
  <2> PICK t, more, c : t = with[n - 1] /\ more = t.columns /\ c = cols[n]
    OBVIOUS
  <2>2. /\ t \in Schema /\ Laid(t) /\ Len(more) = Len(s.columns) + (n - 1)
        /\ \A i \in 1 .. Len(more) : more[i] = IF i <= Len(s.columns) THEN s.columns[i]
                                               ELSE cols[i - Len(s.columns)]
    BY <2>1
  <2>3. c \in Column /\ with[n] = WithColumn(t, c) /\ more \in Seq(Column)
    BY <1>2, <1>5, <2>2 DEF Schema
  <2>4. with[n] \in Schema /\ Laid(with[n]) /\ with[n].columns = Append(more, c)
    BY ZenonT(20), <2>2, <2>3, WithColumnType, WithColumnLaid
  <2> PICK next : next = Append(more, c)
    OBVIOUS
  <2>5. /\ Len(next) = Len(more) + 1 /\ next[Len(more) + 1] = c
        /\ \A i \in 1 .. Len(more) : next[i] = more[i]
    BY <2>3, AppendProperties
  <2>6. Len(next) = Len(s.columns) + n /\ Len(next) - Len(s.columns) = n
    BY <1>2, <2>2, <2>5
  <2>7. \A i \in 1 .. Len(next) : next[i] = IF i <= Len(s.columns) THEN s.columns[i]
                                            ELSE cols[i - Len(s.columns)]
    <3> TAKE i \in 1 .. Len(next)
    <3>1. CASE i = Len(next)
      <4>1. next[i] = cols[n] /\ ~(i <= Len(s.columns)) /\ i - Len(s.columns) = n
        BY <1>2, <2>2, <2>5, <2>6, <3>1
      <4> QED
        BY <4>1
    <3>2. CASE i # Len(next)
      <4>1. i \in 1 .. Len(more)
        BY <1>2, <2>2, <2>5, <3>2
      <4> QED
        BY <2>2, <2>5, <4>1
    <3> QED
      BY <3>1, <3>2
  <2> HIDE DEF S
  <2>8. OK(n)
    BY <2>4, <2>6, <2>7
  <2> HIDE DEF OK
  <2> QED
    BY <2>1, <2>8 DEF S
<1>8. OK(Len(cols))
  <2>1. S \in SUBSET (0 .. Len(cols))
    OBVIOUS
  <2> HIDE DEF S
  <2>2. Len(cols) \in S
    BY <1>2, <1>6, <1>7, <2>1, UpTo
  <2> HIDE DEF OK
  <2> QED
    BY <2>2 DEF S
<1> QED
  BY <1>1, <1>8 DEF Joined

\* A column, and a line, is its four fields.
LEMMA Fields ==
  ASSUME NEW r, r = [f \in {"name", "size", "type", "key"} |-> r[f]]
  PROVE  r = [name |-> r.name, size |-> r.size, type |-> r.type, key |-> r.key]
OBVIOUS

LEMMA LineOfIs ==
  ASSUME NEW c \in Column
  PROVE  LineOf(c) = [name |-> c.name, size |-> c.size, type |-> TypeReadBack(c.type),
                      key |-> c.key]
<1>1. DOMAIN c = {"name", "size", "type", "key"}
  BY DEF Column
<1>2. LineOf(c) = [f \in {"name", "size", "type", "key"} |-> LineOf(c)[f]]
  BY <1>1 DEF LineOf
<1>3. LineOf(c).name = c.name /\ LineOf(c).size = c.size
      /\ LineOf(c).type = TypeReadBack(c.type) /\ LineOf(c).key = c.key
  BY <1>1 DEF LineOf
<1> QED
  BY <1>2, <1>3, Fields

LEMMA LineOfType ==
  ASSUME NEW c \in Column
  PROVE  LineOf(c) \in Column /\ LineOf(c) \in Line
<1>1. TypeReadBack(c.type) \in ColumnType
  BY ColumnFields DEF TypeReadBack, ColumnType
<1> QED
  BY <1>1, LineOfIs, ColumnFields DEF Column, Line

\* What a line that ends early may be.
LEMMA TornIs ==
  ASSUME NEW c \in Column, NEW line \in TornLines(LineOf(c))
  PROVE  /\ line \in Line
         /\ \/ line = [name |-> c.name, size |-> c.size, type |-> TypeReadBack(c.type),
                       key |-> "torn"]
            \/ line.name \in {"torn", "single"} /\ line.key = "torn"
            \/ line.name = "blank" /\ line.key = "torn" /\ c.name \in Indented
            \/ ReadsAs[c.name] = "colon"
<1> PICK l : l = LineOf(c)
  OBVIOUS
<1>1. l = [name |-> c.name, size |-> c.size, type |-> TypeReadBack(c.type), key |-> c.key]
      /\ l \in Line
  BY LineOfIs, LineOfType
<1>2. \/ line = [l EXCEPT !.key = "torn"]
      \/ \E word \in TornWords(l) : line = [l EXCEPT !.name = word, !.key = "torn"]
      \/ Malformed(l) /\ line \in Remnants
  BY DEF TornLines
<1>3. CASE line = [l EXCEPT !.key = "torn"]
  <2>1. line = [name |-> c.name, size |-> c.size, type |-> TypeReadBack(c.type), key |-> "torn"]
    BY <1>1, <1>3
  <2> QED
    BY <1>1, <2>1 DEF Line
<1>4. CASE \E word \in TornWords(l) : line = [l EXCEPT !.name = word, !.key = "torn"]
  <2> PICK word \in TornWords(l) : line = [l EXCEPT !.name = word, !.key = "torn"]
    BY <1>4
  <2>1. line = [name |-> word, size |-> c.size, type |-> TypeReadBack(c.type), key |-> "torn"]
    <3>1. line = [f \in {"name", "size", "type", "key"} |-> line[f]]
      BY <1>1
    <3>2. line.name = word /\ line.size = c.size /\ line.type = TypeReadBack(c.type)
          /\ line.key = "torn"
      BY <1>1
    <3> QED
      BY <3>1, <3>2, Fields
  <2>2. word \in {"torn", "single"} \/ (word = "blank" /\ c.name \in Indented)
    BY <1>1 DEF TornWords
  <2>3. line \in Line
    BY <1>1, <2>1, <2>2 DEF Line
  <2> QED
    BY <2>1, <2>2, <2>3
<1>5. CASE Malformed(l) /\ line \in Remnants
  <2>1. c.name \in Name /\ l.name = c.name
    BY <1>1, ColumnFields
  <2>2. ReadsAs[c.name] = "colon"
    BY <1>5, <2>1, NameAssumption DEF Malformed
  <2>3. line \in Line
    BY <1>5, RemnantAssumption DEF Line, Size
  <2> QED
    BY <2>2, <2>3
<1> QED
  BY <1>2, <1>3, <1>4, <1>5

LEMMA ColumnOfIs ==
  ASSUME NEW line \in Line
  PROVE  ColumnOf(line) = [name |-> ReadsAs[line.name], size |-> line.size,
                           type |-> line.type, key |-> KeyReadBack(line.key)]
<1>1. DOMAIN line = {"name", "size", "type", "key"}
  BY DEF Line
<1>2. ColumnOf(line) = [f \in {"name", "size", "type", "key"} |-> ColumnOf(line)[f]]
  BY <1>1 DEF ColumnOf
<1>3. ColumnOf(line).name = ReadsAs[line.name] /\ ColumnOf(line).key = KeyReadBack(line.key)
  BY <1>1 DEF ColumnOf
<1>4. ColumnOf(line).size = line.size /\ ColumnOf(line).type = line.type
  BY <1>1 DEF ColumnOf
<1> QED
  BY <1>2, <1>3, <1>4, Fields

\* What a line that is no comment says, if it can be read.
LEMMA ColumnOfType ==
  ASSUME NEW line \in Line, ~Comment(line), Readable(line)
  PROVE  ColumnOf(line) \in Column
<1>1. line.name \in Name /\ ReadsAs[line.name] \in Name
  BY NameAssumption DEF Comment, Readable, Malformed, Overruns, Line
<1>2. KeyReadBack(line.key) \in KeyType
  BY DEF KeyReadBack, KeyType
<1> QED
  BY <1>1, <1>2, ColumnOfIs, ColumnFields DEF Column, Line

\* What a file says: columns, and without comments one for each line.
LEMMA ReadColumnsIs ==
  ASSUME NEW lines \in Seq(Line)
  PROVE  /\ ReadColumns(lines) \in Seq(Column)
         /\ ReadsWhole(lines) /\ (\A i \in 1 .. Len(lines) : ~Comment(lines[i])) =>
              ReadColumns(lines) = [i \in 1 .. Len(lines) |-> ColumnOf(lines[i])]
<1> DEFINE Skips(n) == Comment(lines[n]) \/ ~ReadsWhole(SubSeq(lines, 1, n))
           Says(n, cols) == IF Skips(n) THEN cols ELSE Append(cols, ColumnOf(lines[n]))
           columns[n \in 0 .. Len(lines)] ==
             IF n = 0 THEN <<>>
             ELSE IF Comment(lines[n]) \/ ~ReadsWhole(SubSeq(lines, 1, n)) THEN columns[n - 1]
             ELSE Append(columns[n - 1], ColumnOf(lines[n]))
           Reads(f) ==
             f = [n \in 0 .. Len(lines) |->
                    IF n = 0 THEN <<>>
                    ELSE IF Comment(lines[n]) \/ ~ReadsWhole(SubSeq(lines, 1, n)) THEN f[n - 1]
                    ELSE Append(f[n - 1], ColumnOf(lines[n]))]
           F == [p \in Seq(Column) \X (1 .. Len(lines)) |-> Says(p[2], p[1])]
<1>1. ReadColumns(lines) = columns[Len(lines)] /\ columns = CHOOSE f : Reads(f)
  BY Zenon DEF ReadColumns
<1> HIDE DEF columns
<1>2. Len(lines) \in Nat /\ \A n \in 1 .. Len(lines) : lines[n] \in Line
  OBVIOUS
<1>3. \A n \in 1 .. Len(lines) : ~Skips(n) => ColumnOf(lines[n]) \in Column
  <2> SUFFICES ASSUME NEW n \in 1 .. Len(lines), ~Skips(n)
               PROVE  ColumnOf(lines[n]) \in Column
    OBVIOUS
  <2>1. n \in DOMAIN SubSeq(lines, 1, n) /\ SubSeq(lines, 1, n)[n] = lines[n]
    OBVIOUS
  <2>2. Readable(lines[n])
    BY <2>1 DEF ReadsWhole
  <2> QED
    BY <1>2, <2>2, ColumnOfType
<1>4. ASSUME NEW n \in 1 .. Len(lines), NEW cols \in Seq(Column)
      PROVE  Says(n, cols) \in Seq(Column)
  <2> HIDE DEF Skips
  <2>1. CASE Skips(n)
    BY <2>1
  <2>2. CASE ~Skips(n)
    BY <1>3, <2>2
  <2> QED
    BY <2>1, <2>2
<1>5. \E f : Reads(f)
  <2>1. F \in [Seq(Column) \X (1 .. Len(lines)) -> Seq(Column)]
    <3> HIDE DEF Says
    <3> QED
      BY <1>4
  <2>2. \A cols \in Seq(Column), n \in 1 .. Len(lines) : F[<<cols, n>>] = Says(n, cols)
    <3> HIDE DEF Says
    <3> QED
      OBVIOUS
  <2> HIDE DEF F
  <2>3. PICK f \in [0 .. Len(lines) -> Seq(Column)] : Iterates(f, <<>>, Len(lines), F)
    <3>1. <<>> \in Seq(Column)
      OBVIOUS
    <3> QED
      BY <1>2, <2>1, <3>1, IterationExists
  <2>4. ASSUME NEW n \in 0 .. Len(lines)
        PROVE  f[n] = IF n = 0 THEN <<>> ELSE Says(n, f[n - 1])
    <3> HIDE DEF Says
    <3>1. f[n] = IF n = 0 THEN <<>> ELSE F[<<f[n - 1], n>>]
      BY <2>3 DEF Iterates
    <3>2. n # 0 => n - 1 \in 0 .. Len(lines) /\ n \in 1 .. Len(lines)
      OBVIOUS
    <3> QED
      BY <2>2, <2>3, <3>1, <3>2
  <2> QED
    BY <2>4
<1>6. Reads(columns)
  <2> HIDE DEF Reads
  <2> QED
    BY <1>1, <1>5
<1>7. columns[0] = <<>> /\ \A n \in 1 .. Len(lines) : columns[n] = Says(n, columns[n - 1])
  <2>1. 0 \in 0 .. Len(lines) /\ \A n \in 1 .. Len(lines) : n \in 0 .. Len(lines) /\ n # 0
    BY <1>2
  <2> QED
    BY <1>6, <2>1
<1> HIDE DEF Says
<1>8. ReadColumns(lines) \in Seq(Column)
  <2> DEFINE S == {n \in 0 .. Len(lines) : columns[n] \in Seq(Column)}
  <2>1. 0 \in S
    <3>1. <<>> \in Seq(Column)
      OBVIOUS
    <3>2. columns[0] \in Seq(Column)
      BY <1>7, <3>1
    <3>3. 0 \in 0 .. Len(lines)
      BY <1>2
    <3> QED
      BY <3>2, <3>3
  <2>2. \A n \in 1 .. Len(lines) : n - 1 \in S => n \in S
    BY <1>4, <1>7
  <2>3. S \in SUBSET (0 .. Len(lines))
    OBVIOUS
  <2> HIDE DEF S
  <2>4. Len(lines) \in S
    BY <1>2, <2>1, <2>2, <2>3, UpTo
  <2> QED
    BY <1>1, <2>4 DEF S
<1>9. ASSUME ReadsWhole(lines), \A i \in 1 .. Len(lines) : ~Comment(lines[i])
      PROVE  ReadColumns(lines) = [i \in 1 .. Len(lines) |-> ColumnOf(lines[i])]
  <2>1. \A n \in 1 .. Len(lines) : ~Skips(n)
    <3> TAKE n \in 1 .. Len(lines)
    <3>1. \A i \in DOMAIN SubSeq(lines, 1, n) :
             i \in DOMAIN lines /\ SubSeq(lines, 1, n)[i] = lines[i]
      OBVIOUS
    <3> QED
      BY <1>9, <3>1 DEF ReadsWhole
  <2>2. \A n \in 1 .. Len(lines) : \A cols : Says(n, cols) = Append(cols, ColumnOf(lines[n]))
    BY <2>1 DEF Says
  <2> HIDE DEF Skips
  <2>3. \A n \in 1 .. Len(lines) : ColumnOf(lines[n]) \in Column
    BY <1>3, <2>1
  <2> DEFINE First(n) == [i \in 1 .. n |-> ColumnOf(lines[i])]
             S == {n \in 0 .. Len(lines) : columns[n] = First(n)}
  <2>4. 0 \in S
    BY <1>2, <1>7
  <2>5. ASSUME NEW n \in 1 .. Len(lines), n - 1 \in S PROVE n \in S
    <3>1. columns[n] = Append(First(n - 1), ColumnOf(lines[n]))
      BY <1>7, <2>2, <2>5
    <3>2. First(n - 1) \in Seq(Column) /\ Len(First(n - 1)) = n - 1
      <4>1. \A i \in 1 .. n - 1 : ColumnOf(lines[i]) \in Column
        BY <2>3
      <4>2. n - 1 \in Nat
        OBVIOUS
      <4> QED
        BY <4>1, <4>2
    <3>3. First(n) \in Seq(Column) /\ Len(First(n)) = n
      <4>1. \A i \in 1 .. n : ColumnOf(lines[i]) \in Column
        BY <2>3
      <4> QED
        BY <4>1
    <3> PICK a, b : a = First(n - 1) /\ b = Append(a, ColumnOf(lines[n]))
      OBVIOUS
    <3>4. /\ b \in Seq(Column) /\ Len(b) = n /\ b[n] = ColumnOf(lines[n])
          /\ \A i \in 1 .. n - 1 : b[i] = ColumnOf(lines[i])
      <4>1. /\ b \in Seq(Column) /\ Len(b) = Len(a) + 1 /\ b[Len(a) + 1] = ColumnOf(lines[n])
            /\ \A i \in 1 .. Len(a) : b[i] = a[i]
        BY <2>3, <3>2, AppendProperties
      <4>2. Len(a) = n - 1 /\ \A i \in 1 .. n - 1 : a[i] = ColumnOf(lines[i])
        BY <3>2
      <4> QED
        BY <4>1, <4>2
    <3>5. \A i \in 1 .. n : b[i] = First(n)[i]
      BY <3>4
    <3>6. b = First(n)
      <4> HIDE DEF First
      <4> QED
        BY <3>3, <3>4, <3>5, SeqEqual
    <3> HIDE DEF First
    <3>7. columns[n] = First(n)
      BY <3>1, <3>4, <3>6
    <3>8. n \in 0 .. Len(lines)
      OBVIOUS
    <3> QED
      BY <3>7, <3>8
  <2>6. S \in SUBSET (0 .. Len(lines))
    OBVIOUS
  <2>7. Len(lines) \in S
    <3> HIDE DEF S
    <3> QED
      BY <1>2, <2>4, <2>5, <2>6, UpTo
  <2> QED
    BY <1>1, <2>7
<1> QED
  BY <1>8, <1>9

\* What is in the file when it has been written to some point.
LEMMA WrittenHolds ==
  ASSUME NEW s \in Schema, NEW file, file \in {Lines(s)} \cup CutLines(Lines(s))
  PROVE  /\ file \in Seq(Line) /\ Holds(file, s.columns)
         /\ file = Lines(s) => HoldsAll(file, s.columns)
<1> PICK cols, whole : cols = s.columns /\ whole = Lines(s)
  OBVIOUS
<1>1. cols \in Seq(Column) /\ Len(cols) \in Nat /\ \A i \in 1 .. Len(cols) : cols[i] \in Column
  BY DEF Schema
<1>2. whole \in Seq(Line) /\ Len(whole) = Len(cols)
      /\ \A i \in 1 .. Len(cols) : whole[i] = LineOf(cols[i])
  <2>1. whole = [i \in 1 .. Len(cols) |-> LineOf(cols[i])]
    BY <1>1 DEF Lines
  <2>2. \A i \in 1 .. Len(cols) : LineOf(cols[i]) \in Line
    BY <1>1, LineOfType
  <2> QED
    BY <1>1, <2>1, <2>2
<1>3. CASE file = whole
  BY <1>1, <1>2, <1>3 DEF Holds, HoldsAll, WrittenAs
<1>4. CASE file # whole
  <2>1. PICK n \in DOMAIN whole : file \in CutAt(whole, n)
    BY <1>4 DEF CutLines
  <2>2. n \in 1 .. Len(cols) /\ n - 1 \in Nat /\ n - 1 <= Len(cols)
    BY <1>1, <1>2
  <2> PICK begin : begin = SubSeq(whole, 1, n - 1)
    OBVIOUS
  <2>3. /\ begin \in Seq(Line) /\ Len(begin) = n - 1
        /\ \A i \in 1 .. n - 1 : begin[i] = LineOf(cols[i])
    <3>1. \A i \in 1 .. n - 1 : i \in 1 .. Len(cols)
      BY <2>2
    <3>2. /\ begin \in Seq(Line) /\ Len(begin) = n - 1
          /\ \A i \in 1 .. n - 1 : begin[i] = whole[i]
      BY <1>2, <2>2
    <3> QED
      BY <1>2, <3>1, <3>2
  <2>4. CASE file = begin
    BY <1>4, <2>2, <2>3, <2>4, <1>1 DEF Holds, WrittenAs
  <2>5. CASE file # begin
    <3>1. PICK l \in TornLines(whole[n]) : file = Append(begin, l)
      BY <2>1, <2>5 DEF CutAt
    <3>2. l \in TornLines(LineOf(cols[n])) /\ l \in Line
      <4>1. cols[n] \in Column /\ whole[n] = LineOf(cols[n])
        BY <1>1, <1>2, <2>2
      <4> QED
        BY <3>1, <4>1, TornIs
    <3>3. /\ file \in Seq(Line) /\ Len(file) = (n - 1) + 1 /\ file[(n - 1) + 1] = l
          /\ \A i \in 1 .. n - 1 : file[i] = begin[i]
      BY <2>3, <3>1, <3>2, AppendProperties
    <3>4. (n - 1) + 1 = n /\ \A i \in 1 .. n : i # n => i \in 1 .. n - 1
      BY <2>2
    <3>5. ASSUME NEW i \in 1 .. Len(file) PROVE WrittenAs(file[i], cols[i], i = Len(file))
      BY <2>3, <3>2, <3>3, <3>4 DEF WrittenAs
    <3>6. Len(file) <= Len(cols)
      BY <1>1, <2>2, <3>3, <3>4
    <3> QED
      BY <1>4, <3>3, <3>5, <3>6 DEF Holds
  <2> QED
    BY <2>4, <2>5
<1> QED
  BY <1>3, <1>4

\* A line that is read at all gives back its column, except the kind of its key if
\* that was cut.
LEMMA LineReadBack ==
  ASSUME NEW c \in Column, ReadsAs[c.name] = c.name, NEW line \in Line, NEW isLast \in BOOLEAN,
         WrittenAs(line, c, isLast)
  PROVE  /\ ~Comment(line)
         /\ line = LineOf(c) => Readable(line) /\ ColumnOf(line) = LineOf(c)
         /\ Readable(line) =>
              \/ ColumnOf(line) = LineOf(c)
              \/ isLast /\ ColumnOf(line) = [LineOf(c) EXCEPT !.key = "Unknown"]
<1> PICK l : l = LineOf(c)
  OBVIOUS
<1>1. c.name \in Name /\ c.key \in KeyType /\ "torn" \notin KeyType
      /\ {"torn", "single", "blank"} \cap Name = {} /\ c.name \notin {"comment", "colon"}
      /\ c.name \notin Indented
  BY ColumnFields, NameAssumption DEF KeyType
<1>2. l = [name |-> c.name, size |-> c.size, type |-> TypeReadBack(c.type), key |-> c.key]
      /\ l \in Line
  BY LineOfIs, LineOfType
<1>3. ColumnOf(l) = l /\ ~Comment(l) /\ Readable(l)
  <2>1. KeyReadBack(c.key) = c.key
    BY <1>1 DEF KeyReadBack
  <2>2. ColumnOf(l) = [name |-> ReadsAs[l.name], size |-> l.size, type |-> l.type,
                       key |-> KeyReadBack(l.key)]
    BY <1>2, ColumnOfIs
  <2> QED
    BY <1>1, <1>2, <2>1, <2>2 DEF Comment, Readable, Malformed, Overruns
<1>4. CASE line = l
  BY <1>3, <1>4
<1>5. CASE line # l
  <2>1. isLast /\ line \in TornLines(LineOf(c))
    BY <1>5 DEF WrittenAs
  <2>2. \/ line = [name |-> c.name, size |-> c.size, type |-> TypeReadBack(c.type),
                   key |-> "torn"]
        \/ line.name \in {"torn", "single"}
    BY <1>1, <2>1, TornIs
  <2>3. CASE line.name \in {"torn", "single"}
    BY <1>1, <1>5, <2>3 DEF Comment, Readable, Malformed, Overruns
  <2>4. CASE line = [name |-> c.name, size |-> c.size, type |-> TypeReadBack(c.type),
                     key |-> "torn"]
    <3>1. KeyReadBack("torn") = "Unknown"
      BY <1>1 DEF KeyReadBack
    <3>2. ColumnOf(line) = [name |-> c.name, size |-> c.size, type |-> TypeReadBack(c.type),
                            key |-> "Unknown"]
      BY <2>4, <3>1, ColumnOfIs
    <3>3. ColumnOf(line) = [l EXCEPT !.key = "Unknown"]
      BY <1>2, <3>2
    <3> QED
      BY <1>1, <1>5, <2>1, <2>4, <3>3 DEF Comment
  <2> QED
    BY <2>2, <2>3, <2>4
<1> QED
  BY <1>4, <1>5

LEMMA AsReadIs ==
  ASSUME NEW cols \in Seq(Column)
  PROVE  /\ DOMAIN AsRead(cols) = 1 .. Len(cols)
         /\ AsRead(cols) = [i \in 1 .. Len(cols) |-> AsRead(cols)[i]]
         /\ \A i \in 1 .. Len(cols) : AsRead(cols)[i] = LineOf(cols[i])
<1>1. DOMAIN cols = 1 .. Len(cols)
  OBVIOUS
<1>2. \A c : LineOf(c) = [c EXCEPT !.type = IF @ = "Other" THEN "Unknown" ELSE @]
  BY DEF LineOf, TypeReadBack
<1>3. AsRead(cols) = [i \in 1 .. Len(cols) |-> LineOf(cols[i])]
  <2>1. AsRead(cols) = [i \in 1 .. Len(cols) |->
                          [cols[i] EXCEPT !.type = IF @ = "Other" THEN "Unknown" ELSE @]]
    BY <1>1, Zenon DEF AsRead
  <2>2. \A i \in 1 .. Len(cols) :
          LineOf(cols[i]) = [cols[i] EXCEPT !.type = IF @ = "Other" THEN "Unknown" ELSE @]
    BY <1>2, Zenon
  <2> QED
    BY <2>1, <2>2, Zenon
<1> QED
  BY <1>3

\* What a file that is read to its end gives back of the columns it was to hold.
LEMMA FileReadBack ==
  ASSUME NEW lines \in Seq(Line), NEW cols \in Seq(Column), Holds(lines, cols), Plain(cols),
         ReadsWhole(lines)
  PROVE  /\ ReadColumns(lines) \in Seq(Column) /\ Len(ReadColumns(lines)) = Len(lines)
         /\ \A i \in 1 .. Len(lines) :
              \/ ReadColumns(lines)[i] = AsRead(cols)[i]
              \/ /\ i = Len(lines)
                 /\ ReadColumns(lines)[i] = [AsRead(cols)[i] EXCEPT !.key = "Unknown"]
         /\ PrimaryColumns(lines) # {} => PrimaryColumns(ReadColumns(lines)) # {}
<1>1. Len(lines) \in Nat /\ Len(cols) \in Nat /\ Len(lines) <= Len(cols)
  BY DEF Holds
<1>2. \A i \in 1 .. Len(lines) :
        i \in 1 .. Len(cols) /\ lines[i] \in Line /\ cols[i] \in Column
        /\ ReadsAs[cols[i].name] = cols[i].name /\ Readable(lines[i])
        /\ WrittenAs(lines[i], cols[i], i = Len(lines))
  BY <1>1 DEF Plain, ReadsWhole, Holds
<1>3. \A i \in 1 .. Len(lines) :
        /\ ~Comment(lines[i])
        /\ \/ ColumnOf(lines[i]) = LineOf(cols[i])
           \/ i = Len(lines) /\ ColumnOf(lines[i]) = [LineOf(cols[i]) EXCEPT !.key = "Unknown"]
  <2> TAKE i \in 1 .. Len(lines)
  <2> PICK isLast \in BOOLEAN : isLast = (i = Len(lines))
    OBVIOUS
  <2> QED
    BY <1>2, LineReadBack
<1>4. ReadColumns(lines) = [i \in 1 .. Len(lines) |-> ColumnOf(lines[i])]
      /\ ReadColumns(lines) \in Seq(Column)
  BY <1>3, ReadColumnsIs
<1>5. \A i \in 1 .. Len(lines) : AsRead(cols)[i] = LineOf(cols[i])
  BY <1>2, AsReadIs
<1>6. Len(ReadColumns(lines)) = Len(lines)
  BY <1>1, <1>4
<1>7. ASSUME PrimaryColumns(lines) # {} PROVE PrimaryColumns(ReadColumns(lines)) # {}
  <2>1. PICK i \in 1 .. Len(lines) : lines[i].key = "Primary"
    BY <1>7 DEF PrimaryColumns
  <2>2. ReadColumns(lines)[i].key = KeyReadBack(lines[i].key)
    <3>1. ColumnOf(lines[i]).key = KeyReadBack(lines[i].key)
      BY <1>2, ColumnOfIs
    <3> QED
      BY <1>4, <3>1
  <2>3. i \in DOMAIN ReadColumns(lines)
    BY <1>4
  <2> QED
    BY <2>1, <2>2, <2>3 DEF PrimaryColumns, KeyReadBack, KeyType
<1> QED
  BY <1>3, <1>4, <1>5, <1>6, <1>7

\* What a file that was written to its end gives back.
LEMMA WholeReadBack ==
  ASSUME NEW lines \in Seq(Line), NEW cols \in Seq(Column), HoldsAll(lines, cols), Plain(cols)
  PROVE  ReadsWhole(lines) /\ ReadColumns(lines) = AsRead(cols)
<1>1. \A i \in 1 .. Len(lines) :
        i \in 1 .. Len(cols) /\ lines[i] \in Line /\ cols[i] \in Column
        /\ ReadsAs[cols[i].name] = cols[i].name /\ lines[i] = LineOf(cols[i])
  BY DEF Plain, HoldsAll
<1>2. \A i \in 1 .. Len(lines) :
        ~Comment(lines[i]) /\ Readable(lines[i]) /\ ColumnOf(lines[i]) = LineOf(cols[i])
  <2> TAKE i \in 1 .. Len(lines)
  <2>1. WrittenAs(lines[i], cols[i], FALSE)
    BY <1>1 DEF WrittenAs
  <2> QED
    BY <1>1, <2>1, LineReadBack
<1>3. ReadsWhole(lines)
  BY <1>2 DEF ReadsWhole
<1>4. ReadColumns(lines) = [i \in 1 .. Len(lines) |-> ColumnOf(lines[i])]
  BY <1>2, <1>3, ReadColumnsIs
<1>5. \A i \in 1 .. Len(lines) : AsRead(cols)[i] = LineOf(cols[i])
  BY <1>1, AsReadIs
<1>6. AsRead(cols) = [i \in 1 .. Len(lines) |-> AsRead(cols)[i]]
  BY AsReadIs DEF HoldsAll
<1> QED
  BY <1>2, <1>3, <1>4, <1>5, <1>6
-----------------------------------------------------------------------------
\* A file with a primary column is one of a schema that has one.
LEMMA PrimaryWritten ==
  ASSUME NEW lines \in Seq(Line), NEW cols \in Seq(Column), Holds(lines, cols), Plain(cols),
         PrimaryColumns(lines) # {}
  PROVE  PrimaryColumns(cols) # {}
<1>1. PICK i \in 1 .. Len(lines) : lines[i].key = "Primary"
  BY DEF PrimaryColumns
<1>2. i \in 1 .. Len(cols) /\ WrittenAs(lines[i], cols[i], i = Len(lines)) /\ cols[i] \in Column
  BY DEF Holds
<1>3. LineOf(cols[i]).key = cols[i].key /\ ReadsAs[cols[i].name] # "colon"
  BY <1>2, LineOfIs, ColumnFields, NameAssumption DEF Plain
<1>4. lines[i].key = cols[i].key
  <2>1. CASE lines[i] = LineOf(cols[i])
    BY <1>3, <2>1
  <2>2. CASE lines[i] # LineOf(cols[i])
    <3>1. lines[i] \in TornLines(LineOf(cols[i]))
      BY <1>2, <2>2 DEF WrittenAs
    <3>2. lines[i].key = "torn"
      BY <1>2, <1>3, <3>1, TornIs
    <3> QED
      BY <1>1, <3>2
  <2> QED
    BY <2>1, <2>2
<1> QED
  BY <1>1, <1>2, <1>4 DEF PrimaryColumns

\* Columns that were added stay, and two primary ones are too many for an index.
LEMMA PrimaryJoined ==
  ASSUME NEW cols \in Seq(Column), NEW new \in Seq(Column), NEW more \in Seq(Column),
         Joined(more, cols, new)
  PROVE  /\ PrimaryColumns(cols) # {} => PrimaryColumns(more) # {}
         /\ PrimaryColumns(new) # {} => PrimaryColumns(more) # {}
         /\ PrimaryColumns(cols) # {} /\ PrimaryColumns(new) # {} =>
              ~\E i \in DOMAIN more : PrimaryColumns(more) = {i}
<1>1. Len(cols) \in Nat /\ Len(new) \in Nat /\ Len(more) = Len(cols) + Len(new)
  BY DEF Joined
<1>2. ASSUME NEW i \in PrimaryColumns(cols) PROVE i \in PrimaryColumns(more) /\ i <= Len(cols)
  <2>1. i \in 1 .. Len(cols) /\ cols[i].key = "Primary"
    BY DEF PrimaryColumns
  <2>2. i \in 1 .. Len(more) /\ i <= Len(cols)
    BY <1>1, <2>1
  <2>3. more[i] = cols[i]
    BY <2>2 DEF Joined
  <2> QED
    BY <2>1, <2>2, <2>3 DEF PrimaryColumns
<1>3. ASSUME NEW i \in PrimaryColumns(new)
      PROVE  Len(cols) + i \in PrimaryColumns(more) /\ ~(Len(cols) + i <= Len(cols))
  <2>1. i \in 1 .. Len(new) /\ new[i].key = "Primary"
    BY DEF PrimaryColumns
  <2>2. Len(cols) + i \in 1 .. Len(more) /\ ~(Len(cols) + i <= Len(cols))
        /\ (Len(cols) + i) - Len(cols) = i
    BY <1>1, <2>1
  <2>3. more[Len(cols) + i] = new[i]
    BY <2>2 DEF Joined
  <2> QED
    BY <2>1, <2>2, <2>3 DEF PrimaryColumns
<1> QED
  BY <1>2, <1>3

\* A schema has no columns at first.
LEMMA EmptyIs ==
  /\ EmptySchema \in Schema /\ Laid(EmptySchema)
  /\ EmptySchema.columns = <<>> /\ Len(EmptySchema.columns) = 0
  /\ PrimaryColumns(EmptySchema.columns) = {}
<1>1. EmptySchema.columns = <<>> /\ <<>> \in Seq(Column) /\ Len(<<>>) = 0 /\ DOMAIN <<>> = {}
  BY DEF EmptySchema
<1> PICK off : off = [n \in {} |-> 0]
  OBVIOUS
<1>2. off \in Offsets
  <2>1. off \in [{} -> Size] /\ {} \in SUBSET Name
    OBVIOUS
  <2> QED
    BY <2>1 DEF Offsets
<1>3. EmptySchema = [columns |-> <<>>, offset |-> off, totalSize |-> 0, primaryOffset |-> 0,
                     primarySize |-> 0, keySizeFixed |-> TRUE, rowSizeFixed |-> TRUE]
  BY DEF EmptySchema
<1>4. EmptySchema \in Schema
  BY <1>1, <1>2, <1>3, SizeTypes DEF Schema
<1>5. FullSize(<<>>) = 0
  <2>1. SizeBefore(<<>>, 1) = 0
    BY <1>1, SizeBeforeIs
  <2>2. Len(<<>>) + 1 = 1
    BY <1>1
  <2> QED
    BY <2>1, <2>2 DEF FullSize
<1>6. PrimaryColumns(<<>>) = {}
  BY <1>1 DEF PrimaryColumns
<1>7. Laid(EmptySchema)
  <2> PICK s : s = EmptySchema
    OBVIOUS
  <2>1. s.columns = <<>> /\ s.totalSize = 0
    BY <1>3
  <2>2. Laid(s)
    BY <1>1, <1>5, <1>6, <2>1 DEF Laid
  <2> QED
    BY <2>2
<1> QED
  BY <1>1, <1>4, <1>6, <1>7

\* A table that is not there has read nothing and is not open.
LEMMA WithoutTable ==
  ASSUME NoTable, opened' = FALSE, alive' \in BOOLEAN
  PROVE  /\ schema' \in Schema /\ added' \in Nat /\ added' <= Len(schema'.columns)
         /\ Len(schema'.columns) <= MaxColumns + MaxRead
         /\ m_schemaFinalized' \in BOOLEAN /\ primary' \in BOOLEAN /\ opened' \in BOOLEAN
         /\ Laid(schema') /\ PrimaryRead' /\ OpensWithPrefix'
         /\ ~primary'
<1>1. schema' = EmptySchema /\ added' = 0 /\ m_schemaFinalized' = FALSE /\ primary' = FALSE
  BY DEF NoTable
<1>2. Len(schema'.columns) = 0
  BY <1>1, EmptyIs
<1>3. PrimaryRead'
  BY <1>1, <1>2 DEF PrimaryRead
<1>4. OpensWithPrefix'
  BY DEF OpensWithPrefix
<1>5. 0 <= MaxColumns + MaxRead /\ 0 \in Nat /\ 0 <= 0
  BY BoundAssumption
<1>6. schema' \in Schema /\ Laid(schema')
  BY <1>1, EmptyIs
<1>7. added' \in Nat /\ added' <= Len(schema'.columns)
      /\ Len(schema'.columns) <= MaxColumns + MaxRead
  BY <1>1, <1>2, <1>5
<1>8. m_schemaFinalized' \in BOOLEAN /\ primary' \in BOOLEAN /\ opened' \in BOOLEAN /\ ~primary'
  BY <1>1
<1> QED
  BY <1>3, <1>4, <1>6, <1>7, <1>8

\* createIndexes returns only with the index.
LEMMA CreatesMakes ==
  ASSUME NEW cols \in Seq(Column), NEW has \in BOOLEAN, Creates(cols, FALSE)
  PROVE  PrimaryAfter(cols, has)
<1>1. PICK i \in DOMAIN cols : PrimaryColumns(cols) = {i}
  BY DEF Creates
<1>2. i \in PrimaryColumns(cols) /\ i \in Nat /\ cols[i].type = "Int32"
  BY <1>1 DEF Creates
<1>3. \A j \in PrimaryColumns(cols) : i <= j
  BY <1>1, <1>2
<1> QED
  BY <1>2, <1>3 DEF PrimaryAfter

\* Before the first call there is neither a table nor a file.
LEMMA InitInv == Init => SchemaInv
<1> SUFFICES ASSUME Init PROVE SchemaInv
  OBVIOUS
<1>1. /\ schemaFile = <<>> /\ alive = FALSE /\ schema = EmptySchema
      /\ m_schemaFinalized = FALSE /\ primary = FALSE /\ added = 0
      /\ overran = FALSE /\ opened = FALSE /\ asked = <<>> /\ agreed = FALSE /\ cut = FALSE
      /\ written = 0
  BY DEF Init
<1>2. <<>> \in Seq(Line) /\ <<>> \in Seq(Column) /\ Len(<<>>) = 0
  OBVIOUS
<1>3. 0 \in 0 .. MaxWrites /\ 0 <= MaxColumns + MaxRead /\ 0 \in Nat /\ 0 <= 0
  BY BoundAssumption
<1>4. TypeInv
  <2>1. /\ alive \in BOOLEAN /\ m_schemaFinalized \in BOOLEAN /\ primary \in BOOLEAN
        /\ overran \in BOOLEAN /\ opened \in BOOLEAN /\ cut \in BOOLEAN
        /\ written \in 0 .. MaxWrites
    BY <1>1, <1>3
  <2>2. schemaFile \in Seq(Line) /\ asked \in Seq(Column) /\ schema \in Schema
    BY <1>1, <1>2, EmptyIs
  <2>3. added \in Nat /\ added <= Len(schema.columns)
        /\ Len(schema.columns) <= MaxColumns + MaxRead
    <3>1. Len(schema.columns) = 0
      BY <1>1, EmptyIs
    <3> QED
      BY <1>1, <1>3, <3>1
  <2> QED
    BY <2>1, <2>2, <2>3 DEF TypeInv
<1>5. FileInv
  BY <1>1, <1>2 DEF FileInv, Holds, HoldsAll
<1>6. OpenInv
  BY <1>1 DEF OpenInv
<1>7. PrimaryRead /\ OpensWithPrefix
  BY <1>1, EmptyIs DEF PrimaryRead, OpensWithPrefix
<1>8. Laid(schema)
  BY <1>1, EmptyIs
<1> QED
  BY <1>4, <1>5, <1>6, <1>7, <1>8 DEF SchemaInv

\* addColumn and addIndex.
LEMMA AddInv ==
  ASSUME SchemaInv, NEW choice \in Choice, NEW key \in KeyType, Add(choice, key)
  PROVE  SchemaInv'
<1> PICK c, t : /\ c = [name |-> choice.name, size |-> choice.size, type |-> choice.type,
                        key |-> key]
                /\ t = WithColumn(schema, c)
  OBVIOUS
<1>1. c \in Column
  BY ChoiceAssumption DEF Column, Size
<1>2. /\ ~m_schemaFinalized /\ Len(schema.columns) < MaxColumns
      /\ schema' = t /\ added' = added + 1
      /\ UNCHANGED <<schemaFile, exists, alive, m_schemaFinalized, primary, overran,
                     opened, asked, agreed, cut, written>>
  BY DEF Add
<1>3. /\ TypeInv /\ Laid(schema) /\ FileInv /\ OpenInv /\ PrimaryRead
      /\ schema \in Schema /\ schema.columns \in Seq(Column) /\ added \in Nat
      /\ added <= Len(schema.columns) /\ Len(schema.columns) \in Nat
  BY DEF SchemaInv, TypeInv, Schema
<1>4. t \in Schema /\ Laid(t) /\ t.columns = Append(schema.columns, c)
  BY <1>1, <1>3, WithColumnType, WithColumnLaid
<1>5. /\ Len(t.columns) = Len(schema.columns) + 1
      /\ \A i \in 1 .. Len(schema.columns) : t.columns[i] = schema.columns[i]
  BY <1>1, <1>3, <1>4, AppendProperties
<1>6. PrimaryColumns(schema.columns) # {} => PrimaryColumns(t.columns) # {}
  <2> SUFFICES ASSUME NEW i \in PrimaryColumns(schema.columns)
               PROVE  i \in PrimaryColumns(t.columns)
    OBVIOUS
  <2>1. i \in 1 .. Len(schema.columns) /\ schema.columns[i].key = "Primary"
    BY <1>3 DEF PrimaryColumns
  <2>2. i \in 1 .. Len(t.columns) /\ t.columns \in Seq(Column)
    BY <1>3, <1>4, <1>5, <2>1 DEF Schema
  <2> QED
    BY <1>5, <2>1, <2>2 DEF PrimaryColumns
<1>7. TypeInv'
  <2>1. added + 1 \in Nat /\ added + 1 <= Len(t.columns) /\ Len(t.columns) <= MaxColumns + MaxRead
    BY <1>2, <1>3, <1>5, BoundAssumption
  <2> QED
    BY <1>2, <1>3, <1>4, <2>1 DEF TypeInv
<1>8. FileInv'
  BY <1>2, <1>3 DEF FileInv
<1>9. OpenInv'
  BY <1>2, <1>3, <1>6 DEF OpenInv
<1>10. PrimaryRead'
  <2>1. Len(t.columns) > added + 1 => Len(schema.columns) > added
    BY <1>3, <1>5
  <2> QED
    BY <1>2, <1>3, <1>6, <2>1 DEF PrimaryRead
<1>11. OpensWithPrefix'
  BY <1>2, <1>3 DEF OpenInv, OpensWithPrefix
<1> QED
  BY <1>2, <1>4, <1>7, <1>8, <1>9, <1>10, <1>11 DEF SchemaInv

\* What a write leaves in the file.
LEMMA WriteIs ==
  ASSUME SchemaInv, WriteSchema
  PROVE  /\ schemaFile' \in Seq(Line) /\ asked' = schema.columns /\ asked' \in Seq(Column)
         /\ FileInv' /\ written' \in 0 .. MaxWrites /\ cut' \in BOOLEAN
<1>1. schema \in Schema /\ schema.columns \in Seq(Column) /\ written \in 0 .. MaxWrites
  BY DEF SchemaInv, TypeInv, Schema
<1> PICK whole : whole = Lines(schema)
  OBVIOUS
<1>2. /\ schemaFile' \in {Lines(schema)} \cup CutLines(Lines(schema))
      /\ cut' = (schemaFile' # whole) /\ asked' = schema.columns
      /\ written < MaxWrites /\ written' = written + 1
  BY DEF WriteSchema
<1>3. /\ schemaFile' \in Seq(Line) /\ Holds(schemaFile', schema.columns)
      /\ schemaFile' = whole => HoldsAll(schemaFile', schema.columns)
  BY <1>1, <1>2, WrittenHolds
<1>4. FileInv'
  BY <1>2, <1>3 DEF FileInv
<1>5. written' \in 0 .. MaxWrites
  BY <1>1, <1>2, BoundAssumption
<1> QED
  BY <1>1, <1>2, <1>3, <1>4, <1>5

\* finalizeSchema.
LEMMA FinalizeInv ==
  ASSUME SchemaInv, FinalizeSchema
  PROVE  SchemaInv'
<1> PICK cols : cols = schema.columns
  OBVIOUS
<1>1. /\ WriteSchema /\ m_schemaFinalized' = TRUE
      /\ primary' = PrimaryAfter(cols, primary)
      /\ opened' = Creates(cols, primary) /\ agreed' = Creates(cols, primary)
      /\ ~overran /\ UNCHANGED <<alive, schema, added, overran>>
  BY DEF FinalizeSchema, Callable
<1>2. /\ TypeInv /\ Laid(schema) /\ OpenInv /\ schema \in Schema
      /\ cols \in Seq(Column) /\ primary \in BOOLEAN
  BY DEF SchemaInv, TypeInv, Schema
<1>3. /\ schemaFile' \in Seq(Line) /\ asked' = cols /\ asked' \in Seq(Column)
      /\ FileInv' /\ written' \in 0 .. MaxWrites /\ cut' \in BOOLEAN
  BY <1>1, WriteIs
<1>4. primary => PrimaryColumns(cols) # {}
  BY <1>2 DEF OpenInv
<1>5. Creates(cols, primary) => Creates(cols, FALSE) /\ PrimaryColumns(cols) # {}
  BY <1>2, <1>4 DEF Creates
<1>6. PrimaryAfter(cols, primary) \in BOOLEAN /\ Creates(cols, primary) \in BOOLEAN
  BY <1>2 DEF PrimaryAfter, Creates
<1>7. PrimaryAfter(cols, primary) => PrimaryColumns(cols) # {}
  BY <1>4 DEF PrimaryAfter
<1>8. TypeInv'
  BY <1>1, <1>2, <1>3, <1>6 DEF TypeInv
<1>9. OpenInv'
  <2>1. Creates(cols, FALSE) => PrimaryAfter(cols, primary)
    BY <1>2, CreatesMakes
  <2> QED
    BY <1>1, <1>3, <1>5, <1>7, <2>1 DEF OpenInv
<1>10. PrimaryRead'
  <2>1. Holds(schemaFile', cols)
    BY <1>3 DEF FileInv
  <2>2. Plain(cols) /\ PrimaryColumns(schemaFile') # {} => PrimaryColumns(cols) # {}
    BY <1>2, <1>3, <2>1, PrimaryWritten
  <2> QED
    BY <1>1, <1>3, <2>2 DEF PrimaryRead
<1>11. OpensWithPrefix'
  BY <1>1, <1>3 DEF OpensWithPrefix
<1>12. Laid(schema')
  BY <1>1, <1>2
<1> QED
  BY <1>3, <1>8, <1>9, <1>10, <1>11, <1>12 DEF SchemaInv

\* initialize.
LEMMA InitializeInv ==
  ASSUME SchemaInv, NEW filesStart \in BOOLEAN, Initialize(filesStart)
  PROVE  SchemaInv'
<1> PICK cols, new, read, more :
       /\ cols = schema.columns /\ new = ReadColumns(schemaFile)
       /\ read = WithRead(schema, schemaFile) /\ more = read.columns
  OBVIOUS
<1> PICK reads, final, indexes \in BOOLEAN :
       /\ reads = ReadsWhole(schemaFile)
       /\ final = (m_schemaFinalized \/ (exists /\ reads))
       /\ indexes = (reads /\ filesStart /\ final)
  <2>1. ReadsWhole(schemaFile) \in BOOLEAN
    BY DEF ReadsWhole
  <2> QED
    BY <2>1
<1>1. /\ Len(more) <= MaxColumns + MaxRead
      /\ schema' = read /\ m_schemaFinalized' = final
      /\ primary' = IF indexes THEN PrimaryAfter(more, primary) ELSE primary
      /\ opened' = (indexes /\ Creates(more, primary))
      /\ overran' = RunsOver(schemaFile)
      /\ UNCHANGED <<schemaFile, exists, alive, added, asked, agreed, cut, written>>
  BY Zenon DEF Initialize, Indexes
<1>2. /\ TypeInv /\ Laid(schema) /\ FileInv /\ OpenInv /\ PrimaryRead
      /\ schema \in Schema /\ cols \in Seq(Column) /\ Len(cols) \in Nat /\ added \in Nat
      /\ added <= Len(cols) /\ primary \in BOOLEAN /\ schemaFile \in Seq(Line)
      /\ asked \in Seq(Column)
  BY DEF SchemaInv, TypeInv, Schema
<1>3. new \in Seq(Column) /\ Len(new) \in Nat
  BY <1>2, ReadColumnsIs
<1>4. read \in Schema /\ Laid(read) /\ Joined(more, cols, new) /\ more \in Seq(Column)
  <2>1. read \in Schema /\ Laid(read) /\ Joined(read.columns, schema.columns, new)
    BY <1>2, <1>3, WithColumnsIs DEF WithRead
  <2> QED
    BY <2>1 DEF Schema
<1>5. /\ PrimaryColumns(cols) # {} => PrimaryColumns(more) # {}
      /\ PrimaryColumns(new) # {} => PrimaryColumns(more) # {}
      /\ PrimaryColumns(cols) # {} /\ PrimaryColumns(new) # {} =>
              ~\E i \in DOMAIN more : PrimaryColumns(more) = {i}
  BY <1>2, <1>3, <1>4, PrimaryJoined
<1>6. primary => PrimaryColumns(more) # {}
  BY <1>2, <1>5 DEF OpenInv
<1>7. Creates(more, primary) => \E i \in DOMAIN more : PrimaryColumns(more) = {i}
  BY <1>2, <1>6 DEF Creates
<1>8. PrimaryAfter(more, primary) \in BOOLEAN /\ Creates(more, primary) \in BOOLEAN
      /\ (PrimaryAfter(more, primary) => PrimaryColumns(more) # {})
  BY <1>2, <1>6 DEF PrimaryAfter, Creates
<1>9. Len(more) = Len(cols) + Len(new) /\ added <= Len(more)
  <2>1. Len(more) = Len(cols) + Len(new)
    BY <1>4 DEF Joined
  <2> QED
    BY <1>2, <1>3, <2>1
<1>10. TypeInv'
  <2>1. RunsOver(schemaFile) \in BOOLEAN
    BY DEF RunsOver
  <2> QED
    BY <1>1, <1>2, <1>4, <1>8, <1>9, <2>1 DEF TypeInv
<1>11. FileInv'
  BY <1>1, <1>2 DEF FileInv
<1>12. OpenInv'
  <2>1. primary' => PrimaryColumns(more) # {}
    BY <1>1, <1>6, <1>8
  <2>2. ASSUME opened'
        PROVE  final /\ primary' /\ ~overran' /\ Creates(more, FALSE)
    <3>1. indexes /\ reads /\ final /\ Creates(more, primary)
      BY <1>1, <2>2
    <3>2. ~primary
      BY <1>6, <3>1 DEF Creates
    <3>3. Creates(more, FALSE) /\ PrimaryAfter(more, primary)
      BY <1>2, <1>4, <3>1, <3>2, CreatesMakes
    <3>4. ~RunsOver(schemaFile)
      BY <3>1 DEF RunsOver, ReadsWhole, Readable
    <3> QED
      BY <1>1, <3>1, <3>3, <3>4
  <2> QED
    BY <1>1, <1>2, <2>1, <2>2 DEF OpenInv
<1>13. ASSUME Plain(asked), ReadsWhole(schemaFile), PrimaryColumns(schemaFile) # {}
       PROVE  /\ PrimaryColumns(new) # {} /\ Len(new) <= Len(asked)
              /\ Len(cols) > added => PrimaryColumns(cols) # {}
              /\ \A i \in 1 .. Len(new) :
                   \/ new[i] = AsRead(asked)[i]
                   \/ i = Len(new) /\ new[i] = [AsRead(asked)[i] EXCEPT !.key = "Unknown"]
  <2>1. Holds(schemaFile, asked) /\ Len(schemaFile) <= Len(asked)
    BY <1>2 DEF FileInv, Holds
  <2>2. /\ Len(new) = Len(schemaFile) /\ PrimaryColumns(new) # {}
        /\ \A i \in 1 .. Len(schemaFile) :
              \/ new[i] = AsRead(asked)[i]
              \/ /\ i = Len(schemaFile)
                 /\ new[i] = [AsRead(asked)[i] EXCEPT !.key = "Unknown"]
    BY <1>2, <1>13, <2>1, FileReadBack
  <2> QED
    BY <1>2, <1>13, <2>1, <2>2 DEF PrimaryRead
<1>14. PrimaryRead'
  BY <1>1, <1>5, <1>13 DEF PrimaryRead
<1>15. OpensWithPrefix'
  <2> SUFFICES ASSUME opened', Plain(asked), PrimaryColumns(schemaFile) # {}
               PROVE  LET part == SubSeq(more, added + 1, Len(more))
                      IN  /\ ~overran' /\ Len(part) <= Len(asked)
                          /\ \A i \in DOMAIN part :
                               \/ part[i] = AsRead(asked)[i]
                               \/ /\ i = Len(part)
                                  /\ part[i] = [AsRead(asked)[i] EXCEPT !.key = "Unknown"]
    BY <1>1 DEF OpensWithPrefix
  <2>0. ~overran'
    BY <1>12 DEF OpenInv
  <2>1. ReadsWhole(schemaFile) /\ \E i \in DOMAIN more : PrimaryColumns(more) = {i}
    BY <1>1, <1>7
  <2>2. Len(cols) = added
    BY <1>2, <1>5, <1>13, <2>1
  <2> PICK part : part = SubSeq(more, added + 1, Len(more))
    OBVIOUS
  <2>3. Len(part) = Len(new) /\ DOMAIN part = 1 .. Len(new)
        /\ \A i \in 1 .. Len(new) : part[i] = more[added + i]
    <3>1. added + 1 \in 1 .. Len(more) + 1 /\ Len(more) = added + Len(new)
      BY <1>2, <1>3, <1>9, <2>2
    <3>2. /\ part \in Seq(Column) /\ Len(part) = IF added + 1 <= Len(more) THEN Len(more) - (added + 1) + 1 ELSE 0
          /\ \A i \in 1 .. Len(part) : part[i] = more[(added + 1) + i - 1]
      BY SMTT(20), <1>2, <1>4, <3>1, SubSeqProperties
    <3>3. Len(part) = Len(new)
      BY <1>2, <1>3, <3>1, <3>2
    <3>4. \A i \in 1 .. Len(new) : (added + 1) + i - 1 = added + i
      BY <1>2
    <3> QED
      BY <3>2, <3>3, <3>4
  <2>4. \A i \in 1 .. Len(new) : more[added + i] = new[i]
    <3> TAKE i \in 1 .. Len(new)
    <3>1. added + i \in 1 .. Len(more) /\ ~(added + i <= Len(cols)) /\ (added + i) - Len(cols) = i
      BY <1>2, <1>3, <1>9, <2>2
    <3> QED
      BY <1>4, <3>1 DEF Joined
  <2>5. /\ Len(part) <= Len(asked)
        /\ \A i \in DOMAIN part : \/ part[i] = AsRead(asked)[i]
                                 \/ /\ i = Len(part)
                                    /\ part[i] = [AsRead(asked)[i] EXCEPT !.key = "Unknown"]
    <3>1. /\ Len(new) <= Len(asked)
          /\ \A i \in 1 .. Len(new) :
               \/ new[i] = AsRead(asked)[i]
               \/ i = Len(new) /\ new[i] = [AsRead(asked)[i] EXCEPT !.key = "Unknown"]
      BY <1>13, <2>1
    <3>2. \A i \in 1 .. Len(new) : part[i] = new[i]
      BY <2>3, <2>4
    <3>3. ASSUME NEW i \in DOMAIN part
          PROVE  \/ part[i] = AsRead(asked)[i]
                 \/ /\ i = Len(part)
                    /\ part[i] = [AsRead(asked)[i] EXCEPT !.key = "Unknown"]
      <4>1. i \in 1 .. Len(new) /\ Len(part) = Len(new)
        BY <2>3
      <4>2. part[i] = new[i]
        BY <3>2, <4>1
      <4>3. CASE new[i] = AsRead(asked)[i]
        BY <4>2, <4>3
      <4>4. CASE i = Len(new) /\ new[i] = [AsRead(asked)[i] EXCEPT !.key = "Unknown"]
        BY <4>1, <4>2, <4>4
      <4> QED
        BY <3>1, <4>1, <4>3, <4>4
    <3>4. Len(part) <= Len(asked)
      BY <2>3, <3>1
    <3> QED
      BY <3>3, <3>4
  <2> QED
    BY <2>0, <2>5
<1> QED
  BY <1>1, <1>4, <1>10, <1>11, <1>12, <1>14, <1>15 DEF SchemaInv

\* A step keeps the invariant.
LEMMA StepInv == SchemaInv /\ [Next]_vars => SchemaInv'
<1> SUFFICES ASSUME SchemaInv, [Next]_vars PROVE SchemaInv'
  OBVIOUS
<1>1. /\ TypeInv /\ FileInv /\ OpenInv
  BY DEF SchemaInv
<1>2. CASE Construct \/ Destroy
  <2>1. NoTable /\ opened' = FALSE /\ alive' \in BOOLEAN
        /\ UNCHANGED <<schemaFile, overran, asked, agreed, cut, written>>
    BY <1>2 DEF Construct, Destroy
  <2>2. TypeInv' /\ Laid(schema') /\ PrimaryRead' /\ OpensWithPrefix'
    BY <1>1, <2>1, WithoutTable DEF TypeInv
  <2>3. FileInv'
    BY <1>1, <2>1 DEF FileInv
  <2>4. OpenInv'
    BY <1>1, <2>1, WithoutTable DEF OpenInv
  <2> QED
    BY <2>2, <2>3, <2>4 DEF SchemaInv
<1>3. CASE FinalizeSchema
  BY <1>3, FinalizeInv
<1>4. CASE CrashInFinalize
  <2>1. WriteSchema /\ NoTable /\ opened' = FALSE /\ alive' = FALSE /\ agreed' = FALSE
        /\ overran' = overran
    BY <1>4 DEF CrashInFinalize
  <2>2. /\ schemaFile' \in Seq(Line) /\ asked' \in Seq(Column) /\ FileInv'
        /\ written' \in 0 .. MaxWrites /\ cut' \in BOOLEAN
    BY <2>1, WriteIs
  <2>3. TypeInv' /\ Laid(schema') /\ PrimaryRead' /\ OpensWithPrefix'
    BY <1>1, <2>1, <2>2, WithoutTable DEF TypeInv
  <2>4. OpenInv'
    BY <2>1, WithoutTable DEF OpenInv
  <2> QED
    BY <2>2, <2>3, <2>4 DEF SchemaInv
<1>5. CASE \E filesStart \in BOOLEAN : Initialize(filesStart)
  BY <1>5, InitializeInv
<1>6. CASE \E choice \in Choice :
             AddColumn(choice) \/ \E isPrimary \in BOOLEAN : AddIndex(choice, isPrimary)
  <2>1. PICK choice \in Choice, key \in KeyType : Add(choice, key)
    BY <1>6 DEF AddColumn, AddIndex, KeyType
  <2> QED
    BY <2>1, AddInv
<1>7. CASE EndsOverrun
  <2>1. /\ overran /\ overran' = FALSE /\ opened' = opened
        /\ UNCHANGED <<schemaFile, asked, agreed, cut, written>>
        /\ \/ alive' = FALSE /\ NoTable
           \/ UNCHANGED <<alive, schema, m_schemaFinalized, primary, added>>
    BY <1>7 DEF EndsOverrun, table
  <2>2. opened' = FALSE
    BY <1>1, <2>1 DEF OpenInv, TypeInv
  <2>3. FileInv'
    BY <1>1, <2>1 DEF FileInv
  <2>4. CASE alive' = FALSE /\ NoTable
    <3>1. TypeInv' /\ Laid(schema') /\ PrimaryRead' /\ OpensWithPrefix'
      BY <1>1, <2>1, <2>2, <2>4, WithoutTable DEF TypeInv
    <3>2. OpenInv'
      BY <1>1, <2>1, <2>2, <2>4, WithoutTable DEF OpenInv
    <3> QED
      BY <2>3, <3>1, <3>2 DEF SchemaInv
  <2>5. CASE UNCHANGED <<alive, schema, m_schemaFinalized, primary, added>>
    <3>1. TypeInv' /\ OpenInv' /\ PrimaryRead'
      BY <1>1, <2>1, <2>2, <2>5 DEF SchemaInv, TypeInv, OpenInv, PrimaryRead
    <3>2. OpensWithPrefix'
      BY <2>2 DEF OpensWithPrefix
    <3>3. Laid(schema')
      BY <2>5 DEF SchemaInv
    <3> QED
      BY <2>3, <3>1, <3>2, <3>3 DEF SchemaInv
  <2> QED
    BY <2>1, <2>4, <2>5
<1>8. CASE UNCHANGED vars
  BY <1>8 DEF vars, table, SchemaInv, TypeInv, FileInv, OpenInv, PrimaryRead, OpensWithPrefix
<1> QED
  BY <1>2, <1>3, <1>4, <1>5, <1>6, <1>7, <1>8 DEF Next

LEMMA InvAlways == Spec => []SchemaInv
  BY InitInv, StepInv, PTL DEF Spec

\* Sizes and places in a row stay below 2^16, whatever is added and read.
THEOREM SchemaTypes == Spec => []TypeOK
<1>1. ASSUME TypeInv PROVE TypeOK
  <2>1. schema \in Schema /\ Size = 0 .. Width - 1
    BY <1>1 DEF TypeInv, Size
  <2>2. schema.totalSize \in Size /\ schema.primaryOffset \in Size
        /\ schema.primarySize \in Size /\ schema.offset \in Offsets
    BY <2>1 DEF Schema
  <2>3. \A n \in DOMAIN schema.offset : schema.offset[n] \in Size
    <3>1. PICK D \in SUBSET Name : schema.offset \in [D -> Size]
      BY <2>2 DEF Offsets
    <3> QED
      BY <3>1
  <2> QED
    BY <1>1, <2>1, <2>2, <2>3 DEF TypeInv, TypeOK
<1> QED
  BY <1>1, InvAlways, PTL DEF SchemaInv

\* Columns that fit lie one behind the other, those the program adds and those that
\* are read alike, and the primary key of an open table is inside the row.
THEOREM LayoutAlwaysExact == Spec => []LayoutExact
<1>1. ASSUME SchemaInv PROVE LayoutExact
  <2> PICK cols : cols = schema.columns
    OBVIOUS
  <2>1. Laid(schema) /\ OpenInv /\ cols \in Seq(Column)
    BY <1>1 DEF SchemaInv, TypeInv, Schema
  <2> SUFFICES ASSUME Distinct(cols), FullSize(cols) < Width
               PROVE  /\ schema.totalSize = FullSize(cols)
                      /\ \A i \in DOMAIN cols : schema.offset[cols[i].name] = SizeBefore(cols, i)
                      /\ opened => \E i \in PrimaryColumns(cols) :
                           /\ schema.primaryOffset = SizeBefore(cols, i)
                           /\ schema.primaryOffset + schema.primarySize <= schema.totalSize
    BY DEF LayoutExact
  <2>2. /\ schema.totalSize = FullSize(cols)
        /\ \A i \in DOMAIN cols : schema.offset[cols[i].name] = SizeBefore(cols, i)
        /\ PrimaryColumns(cols) # {} => \E i \in PrimaryColumns(cols) :
             schema.primaryOffset = SizeBefore(cols, i) /\ schema.primarySize = cols[i].size
    BY <2>1 DEF Laid
  <2>3. ASSUME opened
        PROVE  \E i \in PrimaryColumns(cols) :
                  /\ schema.primaryOffset = SizeBefore(cols, i)
                  /\ schema.primaryOffset + schema.primarySize <= schema.totalSize
    <3>1. PICK i \in PrimaryColumns(cols) :
             schema.primaryOffset = SizeBefore(cols, i) /\ schema.primarySize = cols[i].size
      BY <2>1, <2>2, <2>3 DEF OpenInv, Creates
    <3>2. i \in 1 .. Len(cols)
      BY <2>1 DEF PrimaryColumns
    <3>3. SizeBefore(cols, i) + cols[i].size <= FullSize(cols)
      BY <2>1, <3>2, Inside
    <3> QED
      BY <2>2, <3>1, <3>3
  <2> QED
    BY <2>2, <2>3
<1> QED
  BY <1>1, InvAlways, PTL

\* What finalizeSchema has written is found again, by a table that can be opened.
THEOREM FinalizedAlwaysReopens == Spec => []FinalizedReopens
<1>1. ASSUME SchemaInv PROVE FinalizedReopens
  <2> SUFFICES ASSUME agreed, ~cut, Plain(asked)
               PROVE  /\ ReadsWhole(schemaFile)
                      /\ ReadColumns(schemaFile) = AsRead(asked)
                      /\ Creates(ReadColumns(schemaFile), FALSE)
    BY DEF FinalizedReopens
  <2>1. /\ schemaFile \in Seq(Line) /\ asked \in Seq(Column)
        /\ HoldsAll(schemaFile, asked) /\ Creates(asked, FALSE)
    BY <1>1 DEF SchemaInv, TypeInv, FileInv, OpenInv
  <2>2. ReadsWhole(schemaFile) /\ ReadColumns(schemaFile) = AsRead(asked)
    BY <2>1, WholeReadBack
  <2> PICK back : back = AsRead(asked)
    OBVIOUS
  <2>3. DOMAIN back = DOMAIN asked
        /\ \A i \in DOMAIN asked : back[i] = LineOf(asked[i]) /\ asked[i] \in Column
    BY <2>1, AsReadIs
  <2>4. \A i \in DOMAIN asked : /\ back[i].key = asked[i].key
                                /\ asked[i].type = "Int32" => back[i].type = "Int32"
    BY <2>3, LineOfIs DEF TypeReadBack
  <2>5. PrimaryColumns(back) = PrimaryColumns(asked)
    BY <2>3, <2>4 DEF PrimaryColumns
  <2>6. \A i \in PrimaryColumns(asked) : i \in DOMAIN asked
    BY DEF PrimaryColumns
  <2>7. Creates(back, FALSE)
    BY <2>1, <2>3, <2>4, <2>5, <2>6 DEF Creates
  <2> QED
    BY <2>2, <2>7
<1> QED
  BY <1>1, InvAlways, PTL

\* A table that opens has read the first of the columns that were written, however the
\* writing ended; a line that ends behind its first character, which trim runs over,
\* does not open it.
THEOREM AlwaysOpensWithPrefix == Spec => []OpensWithPrefix
BY InvAlways, PTL DEF SchemaInv

\* A table is open only with a final schema, an index and exactly one primary column,
\* which is what insertRow asserts and reads its keys by.
THEOREM OpenAlwaysUsable == Spec => []OpenIsUsable
<1>1. ASSUME SchemaInv PROVE OpenIsUsable
  <2> SUFFICES ASSUME opened PROVE OpenIsUsable
    BY DEF OpenIsUsable
  <2> PICK cols : cols = schema.columns
    OBVIOUS
  <2>1. m_schemaFinalized /\ primary /\ ~overran /\ Creates(cols, FALSE)
    BY <1>1 DEF SchemaInv, OpenInv
  <2>2. PICK i \in DOMAIN cols : PrimaryColumns(cols) = {i}
    BY <2>1 DEF Creates
  <2>3. i \in PrimaryColumns(cols) /\ cols[i].key = "Primary" /\ cols[i].type = "Int32"
    BY <2>1, <2>2 DEF Creates, PrimaryColumns
  <2>4. \A j \in DOMAIN cols \ {i} : cols[j].key # "Primary"
    BY <2>2 DEF PrimaryColumns
  <2> QED
    BY <2>1, <2>3, <2>4 DEF OpenIsUsable
<1> QED
  BY <1>1, InvAlways, PTL
=============================================================================
