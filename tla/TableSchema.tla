------------------------------ MODULE TableSchema ------------------------------
(***************************************************************************)
(* engine/Table.cxx (addColumn to createIndexes) with storage/Schema.cxx   *)
(* and Column.cxx: a table is given its columns, writes them to its schema *)
(* file and creates its index, or reads the columns of an earlier table    *)
(* of the name.  Any call may come in any order, any of them may throw     *)
(* half way and be caught, the process may crash while the file is written *)
(* and the disk may be full.                                               *)
(***************************************************************************)
EXTENDS Integers, Sequences

CONSTANTS Choice,      \* the columns a program may ask for: [name, size, type]
          ReadsAs,     \* what a name is when its line is read back: itself trimmed,
                       \*  "comment" if it begins with #, "colon" if it has one inside
          Indented,    \* the names that begin with a space
          Remnants,    \* the lines of four fields there may be in the beginning of a
                       \*  line whose name has a colon inside
          Width,       \* sizes are stored modulo this: 2^16
          MaxColumns,  \* bound: columns of a table
          MaxRead,     \* bound: columns read on top of those
          MaxWrites    \* bound: times the schema file is written

\* "Other" is a value cast from outside the enumeration.
ColumnType == {"Int32", "Int64", "Float", "String", "Unknown", "Other"}
KeyType == {"None", "Primary", "Secondary", "Unknown"}

Name == DOMAIN ReadsAs

ASSUME BoundAssumption ==
  Width \in Nat \ {0} /\ MaxColumns \in Nat /\ MaxRead \in Nat /\ MaxWrites \in Nat

ASSUME ChoiceAssumption ==
  Choice \subseteq [name : Name, size : 0 .. Width - 1, type : ColumnType]

\* No name is one of the words that stand for a line which is no column; trim takes
\* the space off a name that begins with one.  Names with a line break in them, of
\* which each line would be read by itself, are left out.
ASSUME NameAssumption ==
  /\ Name \cap {"comment", "colon", "torn", "single", "blank"} = {}
  /\ \A n \in Name : ReadsAs[n] \in Name \cup {"comment", "colon"}
  /\ Indented \subseteq Name /\ \A n \in Indented : ReadsAs[n] # n

ASSUME RemnantAssumption ==
  Remnants \subseteq [name : Name, size : 0 .. Width - 1, type : ColumnType,
                      key : KeyType \cup {"torn"}]

VARIABLES schemaFile,         \* the lines of the .ss file
          exists,             \* there is such a file
          alive,              \* there is a Table
          schema,             \* m_schema
          m_schemaFinalized,
          primary,            \* m_primary # nullptr
          overran,            \* initialize copies bytes from behind the end of a line
          opened,             \* history: finalizeSchema or initialize has returned
          asked,              \* history: the columns finalizeSchema set out to write
          agreed,             \* history: and it returned
          added,              \* history: columns the program gave this table itself
          cut,                \* history: the file was not written to its end
          written             \* history: times it was written

table == <<schema, m_schemaFinalized, primary, added>>
vars == <<schemaFile, exists, alive, table, overran, opened, asked, agreed, cut, written>>

EmptySchema ==
  [columns |-> <<>>, offset |-> [n \in {} |-> 0], totalSize |-> 0,
   primaryOffset |-> 0, primarySize |-> 0, keySizeFixed |-> TRUE, rowSizeFixed |-> TRUE]

Init == /\ schemaFile = <<>> /\ exists = FALSE /\ alive = FALSE /\ schema = EmptySchema
        /\ m_schemaFinalized = FALSE /\ primary = FALSE /\ added = 0 /\ overran = FALSE
        /\ opened = FALSE /\ asked = <<>> /\ agreed = FALSE /\ cut = FALSE /\ written = 0
-----------------------------------------------------------------------------
\* The size grows without a bound.
UnboundedTotal(s, c) == s.totalSize + c.size

\* A column is put where it ends.
EndOffset(s, c) == (s.totalSize + c.size) % Width

NewTotal(s, c) == (s.totalSize + c.size) % Width

NewOffset(s, c) == s.totalSize

\* Schema::addColumn.
WithColumn(s, c) ==
  LET isPrimary == c.key = "Primary"
  IN  [columns       |-> Append(s.columns, c),
       offset        |-> [n \in DOMAIN s.offset \cup {c.name} |->
                            IF n = c.name THEN NewOffset(s, c) ELSE s.offset[n]],
       totalSize     |-> NewTotal(s, c),
       primaryOffset |-> IF isPrimary THEN NewOffset(s, c) ELSE s.primaryOffset,
       primarySize   |-> IF isPrimary THEN c.size ELSE s.primarySize,
       keySizeFixed  |-> s.keySizeFixed /\ (c.size # 0 \/ c.key = "None"),
       rowSizeFixed  |-> s.rowSizeFixed /\ c.size # 0]

\* Int64 is missing from the names of types.
WithoutInt64(type) == IF type \in {"Int64", "Other"} THEN "Unknown" ELSE type

\* columnTypeString, and parseColumnType of it.
TypeReadBack(type) == IF type = "Other" THEN "Unknown" ELSE type

\* parseKeyType of what is left of the name that keyTypeString gave.
KeyReadBack(text) == IF text \in KeyType THEN text ELSE "Unknown"

\* Schema::write: a line for each column.
LineOf(column) == [column EXCEPT !.type = TypeReadBack(@)]
Lines(s) == [i \in DOMAIN s.columns |-> LineOf(s.columns[i])]

\* Schema::read trims a line, skips blank ones and comments and throws at one that has
\* not four fields.
Comment(line) ==
  line.name = "blank" \/ (line.name \in Name /\ ReadsAs[line.name] = "comment")
Malformed(line) ==
  line.name = "torn" \/ (line.name \in Name /\ ReadsAs[line.name] = "colon")

\* trim does not come back from a line of a single character: StringUtils.cxx:38 does
\* not look for the end at index 0.
Overruns(line) == line.name = "single"

Readable(line) == ~Malformed(line) /\ ~Overruns(line)

\* The first character, if it is no space, is a line of a single one; spaces are a blank
\* line; more than that has too few fields, or is still a comment.
TornWords(line) ==
  {IF line.name \in Indented THEN "blank" ELSE "single"}
    \cup (IF Comment(line) THEN {} ELSE {"torn"})

\* A line that ends early.  The name of its key type is not complete; or it has too few
\* fields, unless there are enough colons in the name.
TornLines(line) ==
  {[line EXCEPT !.key = "torn"]}
    \cup {[line EXCEPT !.name = word, !.key = "torn"] : word \in TornWords(line)}
    \cup (IF Malformed(line) THEN Remnants ELSE {})

\* What may be in the file when it was not written to the end.
CutAt(lines, n) ==
  LET begin == SubSeq(lines, 1, n - 1)
  IN  {begin} \cup {Append(begin, line) : line \in TornLines(lines[n])}
CutLines(lines) == UNION {CutAt(lines, n) : n \in DOMAIN lines}

ReadsWhole(lines) == \A i \in DOMAIN lines : Readable(lines[i])

\* read comes to a line it runs over before it throws at another.
RunsOver(lines) ==
  \E i \in DOMAIN lines : Overruns(lines[i]) /\ \A j \in 1 .. i - 1 : ~Malformed(lines[j])

\* The columns read adds before it ends or throws.
ColumnOf(line) == [line EXCEPT !.name = ReadsAs[@], !.key = KeyReadBack(@)]

ReadColumns(lines) ==
  LET columns[n \in 0 .. Len(lines)] ==
        IF n = 0 THEN <<>>
        ELSE IF Comment(lines[n]) \/ ~ReadsWhole(SubSeq(lines, 1, n)) THEN columns[n - 1]
        ELSE Append(columns[n - 1], ColumnOf(lines[n]))
  IN  columns[Len(lines)]

WithColumns(s, cols) ==
  LET with[n \in 0 .. Len(cols)] == IF n = 0 THEN s ELSE WithColumn(with[n - 1], cols[n])
  IN  with[Len(cols)]

WithRead(s, lines) == WithColumns(s, ReadColumns(lines))

PrimaryColumns(cols) == {i \in DOMAIN cols : cols[i].key = "Primary"}

\* Any number of primary columns will do.
SomePrimary(cols, has) ==
  has \/ \E i \in PrimaryColumns(cols) : cols[i].type = "Int32"

\* createIndexes returns: it found one primary column, the index did not exist, and
\* the type is the one that is supported.
Creates(cols, has) ==
  /\ IF has THEN PrimaryColumns(cols) = {} ELSE \E i \in DOMAIN cols : PrimaryColumns(cols) = {i}
  /\ \A i \in PrimaryColumns(cols) : cols[i].type = "Int32"

\* m_primary after createIndexes, which may have made it and thrown at the next one.
PrimaryAfter(cols, has) ==
  \/ has
  \/ \E i \in PrimaryColumns(cols) :
       cols[i].type = "Int32" /\ \A j \in PrimaryColumns(cols) : i <= j

\* createIndexes does not ask whether the schema is final.
IndexesAnyway(reads, filesStart, final) == reads /\ filesStart

\* initialize comes to the columns in createIndexes.
Indexes(reads, filesStart, final) == reads /\ filesStart /\ final
-----------------------------------------------------------------------------
\* The members before the constructor and after the destructor: as it sets them.
NoTable == schema' = EmptySchema /\ m_schemaFinalized' = FALSE /\ primary' = FALSE /\ added' = 0

\* Table::Table.
Construct ==
  /\ ~alive /\ alive' = TRUE
  /\ NoTable /\ opened' = FALSE
  /\ UNCHANGED <<schemaFile, exists, overran, asked, agreed, cut, written>>

\* The table can be called: the last call is not caught in a line.
Callable == alive /\ ~overran

\* addColumn and addIndex; they throw when the schema is finalized.
Add(choice, key) ==
  /\ Callable /\ ~m_schemaFinalized /\ Len(schema.columns) < MaxColumns
  /\ schema' = WithColumn(schema, [name |-> choice.name, size |-> choice.size,
                                   type |-> choice.type, key |-> key])
  /\ added' = added + 1
  /\ UNCHANGED <<schemaFile, exists, alive, m_schemaFinalized, primary, overran,
                 opened, asked, agreed, cut, written>>

AddColumn(choice) == Add(choice, "None")

AddIndex(choice, isPrimary) == Add(choice, IF isPrimary THEN "Primary" ELSE "Secondary")

\* The file is written, to its end or not: nobody looks.
WriteSchema ==
  /\ written < MaxWrites /\ written' = written + 1
  /\ schemaFile' \in {Lines(schema)} \cup CutLines(Lines(schema))
  /\ exists' = TRUE
  /\ cut' = (schemaFile' # Lines(schema))
  /\ asked' = schema.columns

\* The schema is final before the index is there, which createIndexes may refuse.
FinalizeSchema ==
  /\ Callable /\ WriteSchema
  /\ m_schemaFinalized' = TRUE
  /\ primary' = PrimaryAfter(schema.columns, primary)
  /\ opened' = Creates(schema.columns, primary)
  /\ agreed' = Creates(schema.columns, primary)
  /\ UNCHANGED <<alive, schema, added, overran>>

\* The process ends while finalizeSchema writes.
CrashInFinalize ==
  /\ Callable /\ WriteSchema
  /\ alive' = FALSE /\ opened' = FALSE /\ agreed' = FALSE
  /\ NoTable /\ UNCHANGED overran

\* initialize reads the file if there is one, lets the file manager start, which
\* may throw, and creates the index, which throws if there was no file.  In a line of a
\* single character it does not get that far.
Initialize(filesStart) ==
  /\ Callable
  /\ LET reads == ReadsWhole(schemaFile)
         read == WithRead(schema, schemaFile)
         final == m_schemaFinalized \/ (exists /\ reads)
         indexes == Indexes(reads, filesStart, final)
     IN  /\ Len(read.columns) <= MaxColumns + MaxRead
         /\ schema' = read
         /\ m_schemaFinalized' = final
         /\ primary' = IF indexes THEN PrimaryAfter(read.columns, primary) ELSE primary
         /\ opened' = (indexes /\ Creates(read.columns, primary))
  /\ overran' = RunsOver(schemaFile)
  /\ UNCHANGED <<schemaFile, exists, alive, added, asked, agreed, cut, written>>

\* The loop of the copy has no end: the process dies at an address that is not its own,
\* or the copy can not grow any more and the exception leaves initialize.
EndsOverrun ==
  /\ overran /\ overran' = FALSE
  /\ \/ alive' = FALSE /\ NoTable
     \/ UNCHANGED <<alive, table>>
  /\ UNCHANGED <<schemaFile, exists, opened, asked, agreed, cut, written>>

\* ~Table, or a crash between two calls.
Destroy ==
  /\ Callable /\ alive' = FALSE /\ opened' = FALSE
  /\ NoTable
  /\ UNCHANGED <<schemaFile, exists, overran, asked, agreed, cut, written>>

Next == \/ Construct \/ FinalizeSchema \/ CrashInFinalize \/ EndsOverrun \/ Destroy
        \/ \E filesStart \in BOOLEAN : Initialize(filesStart)
        \/ \E choice \in Choice :
             AddColumn(choice) \/ \E isPrimary \in BOOLEAN : AddIndex(choice, isPrimary)

Spec == Init /\ [][Next]_vars
-----------------------------------------------------------------------------
SizeBefore(cols, i) ==
  LET sum[n \in 0 .. Len(cols)] == IF n = 0 THEN 0 ELSE sum[n - 1] + cols[n].size
  IN  sum[i - 1]
FullSize(cols) == SizeBefore(cols, Len(cols) + 1)

Plain(cols) == \A i \in DOMAIN cols : ReadsAs[cols[i].name] = cols[i].name
Distinct(cols) == \A i, j \in DOMAIN cols : i # j => cols[i].name # cols[j].name

AsRead(cols) ==
  [i \in DOMAIN cols |-> [cols[i] EXCEPT !.type = IF @ = "Other" THEN "Unknown" ELSE @]]

TypeOK ==
  /\ alive \in BOOLEAN /\ m_schemaFinalized \in BOOLEAN /\ primary \in BOOLEAN
  /\ overran \in BOOLEAN /\ opened \in BOOLEAN /\ cut \in BOOLEAN /\ written \in 0 .. MaxWrites
  /\ Len(schema.columns) <= MaxColumns + MaxRead
  /\ schema.totalSize \in 0 .. Width - 1
  /\ schema.primaryOffset \in 0 .. Width - 1 /\ schema.primarySize \in 0 .. Width - 1
  /\ \A n \in DOMAIN schema.offset : schema.offset[n] \in 0 .. Width - 1

\* Columns with names of their own whose sizes together are below 2^16 lie one after
\* the other in the row, also those read from a file into a schema that had some;
\* the primary key of an open table is inside the row.
LayoutExact ==
  LET cols == schema.columns
  IN  Distinct(cols) /\ FullSize(cols) < Width =>
        /\ schema.totalSize = FullSize(cols)
        /\ \A i \in DOMAIN cols : schema.offset[cols[i].name] = SizeBefore(cols, i)
        /\ opened => \E i \in PrimaryColumns(cols) :
             /\ schema.primaryOffset = SizeBefore(cols, i)
             /\ schema.primaryOffset + schema.primarySize <= schema.totalSize

\* When finalizeSchema has returned, the next table of the name finds the same columns
\* and its initialize creates the index, if the file was written to its end and the
\* names are such that a line can hold them.
FinalizedReopens ==
  agreed /\ ~cut /\ Plain(asked) =>
    /\ ReadsWhole(schemaFile)
    /\ ReadColumns(schemaFile) = AsRead(asked)
    /\ Creates(ReadColumns(schemaFile), FALSE)

\* However finalizeSchema and its process ended, what a table that opens has read are
\* the first of the columns finalizeSchema was asked to write, in their order; only
\* the last of them may have lost its kind of key.  A line that ends so early that it
\* is no column, or runs over, opens nothing.  Reading twice into one table never opens
\* it, if the file has a primary column.
OpensWithPrefix ==
  opened /\ schema.columns # asked /\ Plain(asked) /\ PrimaryColumns(schemaFile) # {} =>
    LET read == SubSeq(schema.columns, added + 1, Len(schema.columns))
    IN  /\ ~overran /\ Len(read) <= Len(asked)
        /\ \A i \in DOMAIN read :
             \/ read[i] = AsRead(asked)[i]
             \/ i = Len(read) /\ read[i] = [AsRead(asked)[i] EXCEPT !.key = "Unknown"]

\* A table whose finalizeSchema or initialize returned is one that rows can go into, as
\* insertRow asserts: its schema is final, the index is there, and there is exactly one
\* primary column, of the type of the index's keys.
OpenIsUsable ==
  opened => /\ m_schemaFinalized /\ primary /\ ~overran
            /\ \E i \in DOMAIN schema.columns :
                 /\ schema.columns[i].key = "Primary" /\ schema.columns[i].type = "Int32"
                 /\ \A j \in DOMAIN schema.columns \ {i} : schema.columns[j].key # "Primary"
=============================================================================
