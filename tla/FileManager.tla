------------------------------ MODULE FileManager ------------------------------
(***************************************************************************)
(* storage/FileManager.cxx: the numbered log (.ls) and value (.vs) files   *)
(* of the tables that share a data directory.  A program adds files in     *)
(* pairs, the log file first (FileManagerTest.cxx:163-164); it may crash   *)
(* between the two, and each start finds the order of the files again from *)
(* their numbers.                                                          *)
(***************************************************************************)
EXTENDS Integers, Sequences, FiniteSets, Functions

CONSTANTS Table,
          SharesPrefix,  \* the tables whose file names begin with the name of t
          MaxFiles,      \* how many sequence numbers there are: 256
          MaxMade        \* bound: files of one kind made for a table

ASSUME SharesAssumption == SharesPrefix \in [Table -> SUBSET Table]
ASSUME FilesAssumption == MaxFiles \in Nat \ {0, 1} /\ MaxMade \in Nat

Kind == {"ls", "vs"}
Number == 0 .. MaxFiles - 1
File == [table : Table, kind : Kind, number : Number]

VARIABLES disk,   \* the files in the data directory
          files,  \* m_lsFiles and m_vsFiles of each table's manager
          up,     \* the tables whose manager is initialized
          half,   \* the tables with a log file added and its value file not yet
          made,   \* history: the files made, oldest first
          torn    \* history: the tables whose program ended half way

vars == <<disk, files, up, half, made, torn>>

NoFiles == [k \in Kind |-> <<>>]

\* The files an earlier program left, numbered as addLsFile and addVsFile do: in pairs,
\* from a first number on; the oldest may be gone, as in FileManagerTest.cxx:109-118.
Pairs(t, first, n) ==
  [k \in Kind |-> [i \in 1 .. n |->
     [table |-> t, kind |-> k, number |-> (first + i - 1) % MaxFiles]]]

Init ==
  /\ \E first \in [Table -> Number], n \in [Table -> 0 .. MaxFiles - 1] :
       made = [t \in Table |-> Pairs(t, first[t], n[t])]
  /\ disk = UNION {Range(made[t][k]) : t \in Table, k \in Kind}
  /\ files = [t \in Table |-> NoFiles]
  /\ up = {} /\ half = {} /\ torn = {}
-----------------------------------------------------------------------------
\* getFilePaths.
Found(t, k) == {f \in disk : f.kind = k /\ f.table \in SharesPrefix[t]}

\* The orders std::sort may leave a set of files in: it is not stable.
Sorted(S) ==
  {s \in [1 .. Cardinality(S) -> S] :
     \A i, j \in DOMAIN s : i < j => s[i] # s[j] /\ s[i].number <= s[j].number}

Gaps(s) == {i \in 1 .. Len(s) - 1 : s[i + 1].number - s[i].number > 1}

FirstGap(s) == CHOOSE g \in Gaps(s) : \A h \in Gaps(s) : g <= h

RotatedAt(s, g) == SubSeq(s, g + 1, Len(s)) \o SubSeq(s, 1, g)

\* The file before the gap becomes the first one.
RotatedBefore(s) == IF Gaps(s) = {} THEN s ELSE RotatedAt(s, FirstGap(s) - 1)

\* What orderFiles makes of sorted files: the first one is the first after a gap.
Ordered(s) ==
  IF Len(s) = MaxFiles \/ Gaps(s) = {} THEN s ELSE RotatedAt(s, FirstGap(s))

\* A new manager lists the directory and orders each kind.  With more than
\* MaxFiles of a kind it throws, and nobody uses the manager.
Initialize(t) ==
  /\ t \notin up
  /\ \A k \in Kind : Cardinality(Found(t, k)) <= MaxFiles
  /\ \E ls \in Sorted(Found(t, "ls")), vs \in Sorted(Found(t, "vs")) :
       files' = [files EXCEPT ![t] =
                   [k \in Kind |-> IF k = "ls" THEN Ordered(ls) ELSE Ordered(vs)]]
  /\ up' = up \cup {t}
  /\ UNCHANGED <<disk, half, made, torn>>

\* The number after the greatest does not go back to 0.
Unwrapped(s) == IF s = <<>> THEN 0 ELSE s[Len(s)].number + 1

\* The number is the count of the files.
Counted(s) == Len(s) % MaxFiles

NextNumber(s) ==
  IF s = <<>> \/ s[Len(s)].number = MaxFiles - 1 THEN 0 ELSE s[Len(s)].number + 1

\* addLsFile and addVsFile: the file is created if it does not exist, and
\* opened if it does.
AddFile(t, k) ==
  LET f == [table |-> t, kind |-> k, number |-> NextNumber(files[t][k])]
  IN  /\ t \in up
      /\ Len(made[t][k]) < MaxMade
      /\ disk' = disk \cup {f}
      /\ files' = [files EXCEPT ![t][k] = Append(@, f)]
      /\ made' = [made EXCEPT ![t][k] = Append(@, f)]
      /\ UNCHANGED <<up, torn>>

AddLsFile(t) == t \notin half /\ AddFile(t, "ls") /\ half' = half \cup {t}

AddVsFile(t) == t \in half /\ AddFile(t, "vs") /\ half' = half \ {t}

\* ~FileManager.
Destroy(t) ==
  /\ t \in up \ half
  /\ up' = up \ {t}
  /\ files' = [files EXCEPT ![t] = NoFiles]
  /\ UNCHANGED <<disk, half, made, torn>>

\* The process ends, wherever it is, and all managers with it.
Crash ==
  /\ up # {}
  /\ up' = {} /\ half' = {} /\ torn' = torn \cup half
  /\ files' = [t \in Table |-> NoFiles]
  /\ UNCHANGED <<disk, made>>

Next == \/ \E t \in Table : Initialize(t) \/ AddLsFile(t) \/ AddVsFile(t) \/ Destroy(t)
        \/ Crash

Spec == Init /\ [][Next]_vars
-----------------------------------------------------------------------------
\* The first file at or behind the number.
LookupFrom(s, n) == {i \in DOMAIN s : s[i].number >= n}

\* getLsFile and getVsFile: where the number occurs; the first is taken.
Lookup(s, n) == {i \in DOMAIN s : s[i].number = n}

Consecutive(n) == IF n = MaxFiles - 1 THEN 0 ELSE n + 1

\* validate.
Validate(t) ==
  LET ls == files[t]["ls"]  vs == files[t]["vs"]
  IN  /\ Len(ls) = Len(vs)
      /\ \A i \in DOMAIN ls : ls[i].number = vs[i].number
      /\ \A i \in 1 .. Len(ls) - 1 : ls[i + 1].number = Consecutive(ls[i].number)

Below(t) == \A k \in Kind : Len(made[t][k]) < MaxFiles

TypeOK ==
  /\ disk \subseteq File
  /\ up \subseteq Table /\ half \subseteq up /\ torn \subseteq Table
  /\ files \in [Table -> [Kind -> Seq(File)]]
  /\ made \in [Table -> [Kind -> Seq(File)]]

\* Crashes between a log file and its value file put the value files behind, for
\* good, but never out of step: their numbers are the first of the log files'
\* numbers, in a running manager as in the next ones.
ValuesFollowLogs ==
  \A t \in up : Below(t) =>
    /\ Len(files[t]["vs"]) <= Len(files[t]["ls"])
    /\ \A i \in DOMAIN files[t]["vs"] :
         files[t]["vs"][i].number = files[t]["ls"][i].number

\* The assertions of validate() hold between two pairs, across restarts and the
\* number going back to 0, unless a crash has torn a pair.
ValidUnlessTorn ==
  \A t \in up \ (half \cup torn) : Below(t) => Validate(t)

\* Below MaxFiles files getLsFile and getVsFile find each file of the list by its
\* number, and it is a file of this table.
FoundByNumber ==
  \A t \in up, k \in Kind : Below(t) =>
    \A i \in DOMAIN files[t][k] :
      /\ files[t][k][i].table = t
      /\ i \in Lookup(files[t][k], files[t][k][i].number)
      /\ \A j \in Lookup(files[t][k], files[t][k][i].number) : i <= j

Log == INSTANCE FileLog WITH Name <- File, Capacity <- MaxFiles, shown <- files, open <- up

\* The manager implements the log of files: a new file has a name of its own and a
\* restart finds the whole log in the order it was made in, for every number of
\* files below MaxFiles.  With MaxFiles files orderFiles gives up the order, and the
\* next file added is an old one opened again.
FileLogSpec == Log!LogSpec
=============================================================================
