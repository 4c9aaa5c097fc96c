------------------------------ MODULE Configuration ------------------------------
(***************************************************************************)
(* utils/Configuration.cxx: the file of settings is read line by line into *)
(* fields, with StringUtils::trim.  A text is a sequence of characters.    *)
(***************************************************************************)
EXTENDS Integers, SequencesExt

CONSTANTS Word,        \* what a text spells, whatever its case: the name of a key,
                       \*  of a log level or of a log mode
          Space,       \* the characters isspace holds for
          Digit,       \* the value of a character that is a digit
          IntMax,      \* the greatest int, 2^31 - 1
          FieldWidth,  \* the values a number field can store: 2^32, 2^8 and 2^16
          Line,        \* the lines a file may have
          MaxLines,    \* bound: lines of a file
          Unset,       \* a number, level or mode nobody has initialized
          Threw,       \* an exception instead of a value
          Overrun      \* a loop has run out of its string

NumberKey == {"MaxMemoryMB", "MaxNodeHeight", "MaxFileSizeMB"}
PathKey == {"LogFilePath", "DataPath"}
Key == NumberKey \cup PathKey \cup {"LogLevel", "LogMode"}

Level == {"Trace", "Debug", "Info", "Warn", "Error"}
Mode == {"Terminal", "File"}

ASSUME WidthAssumption == FieldWidth \in [NumberKey -> Nat \ {0}] /\ IntMax \in Nat /\ MaxLines \in Nat
ASSUME DigitAssumption == \A c \in DOMAIN Digit : Digit[c] \in 0 .. 9
ASSUME WordAssumption == \A t \in DOMAIN Word : Word[t] \in Key \cup Level \cup Mode
ASSUME LineAssumption == \A s \in Line : s \in Seq(Range(s))

\* isspace is false for a colon, and a name is a text that no comment sign begins.
ASSUME NameAssumption ==
  /\ ":" \notin Space
  /\ \A t \in DOMAIN Word : t \in Seq(Range(t)) /\ t # <<>> /\ t[1] # "#"

VARIABLES file,    \* the lines of the configuration file that read has got
          field,   \* the members
          status   \* of read: "reading", "read", "threw", or "undefined"

configVars == <<file, field, status>>
-----------------------------------------------------------------------------
Printing(s) == {i \in DOMAIN s : s[i] \notin Space}

\* The end is where the first space is.
TrimAtSpace(s) ==
  LET after == {i \in DOMAIN s : s[i] \in Space /\ \E j \in Printing(s) : j < i}
  IN  IF Printing(s) = {} THEN <<>>
      ELSE SubSeq(s, Min(Printing(s)), IF after = {} THEN Len(s) ELSE Min(after) - 1)

\* StringUtils::trim looks for the end down to, and not at, the first character.
Trim(s) ==
  IF Printing(s) = {} THEN <<>>
  ELSE IF Printing(s) = {1} THEN Overrun
  ELSE SubSeq(s, Min(Printing(s)), Max(Printing(s)))

Colons(s) == {i \in DOMAIN s : s[i] = ":"}

\* Without a colon find returns npos, and key and value are the whole line.
KeyText(s) == IF Colons(s) = {} THEN s ELSE SubSeq(s, 1, Min(Colons(s)) - 1)
ValueText(s) == IF Colons(s) = {} THEN s ELSE SubSeq(s, Min(Colons(s)) + 1, Len(s))

\* std::stoi: a sign, and digits up to something else.
IntOf(t) ==
  LET start == IF t # <<>> /\ t[1] \in {"-", "+"} THEN 2 ELSE 1
      negative == start = 2 /\ t[1] = "-"
      stops == {i \in start .. Len(t) : t[i] \notin DOMAIN Digit} \cup {Len(t) + 1}
      last == Min(stops) - 1
      number[i \in start - 1 .. last] ==
        IF i < start THEN 0 ELSE 10 * number[i - 1] + Digit[t[i]]
  IN  [valid |-> last >= start /\ number[last] <= IF negative THEN IntMax + 1 ELSE IntMax,
       value |-> IF negative THEN -number[last] ELSE number[last]]

\* A name compared without its case.
NameOf(t, names) == IF t \in DOMAIN Word /\ Word[t] \in names THEN Word[t] ELSE "Unknown"

ParsedKey(t) == NameOf(t, Key)
ParsedLevel(t) == NameOf(t, Level)
ParsedMode(t) == NameOf(t, Mode)

\* The int that stoi gives, kept whole.
Unnarrowed(k, number) == number

\* The int that stoi gives, in a field of the width of k.
Narrowed(k, number) == number % FieldWidth[k]

\* What a line of the key k stores for the text of its value.
Stored(k, t) ==
  CASE k \in NumberKey -> IF IntOf(t).valid THEN Narrowed(k, IntOf(t).value) ELSE Threw
    [] k \in PathKey -> t
    [] k = "LogLevel" -> ParsedLevel(t)
    [] OTHER -> ParsedMode(t)

\* What each line comes to: a key and what it stores, if it is a setting.
Reading ==
  [s \in Line |->
     LET text == Trim(s)
         key == Trim(KeyText(text))
         value == Trim(ValueText(text))
         k == ParsedKey(key)
     IN  CASE text = Overrun -> [does |-> "undefined"]
           [] text # Overrun /\ (text = <<>> \/ text[1] = "#") -> [does |-> "nothing"]
           [] OTHER ->
                CASE Overrun \in {key, value} -> [does |-> "undefined"]
                  [] Overrun \notin {key, value} /\ k = "Unknown" -> [does |-> "nothing"]
                  [] OTHER -> IF Stored(k, value) = Threw THEN [does |-> "throws"]
                              ELSE [does |-> "sets", key |-> k, stores |-> Stored(k, value)]]

NewFields == [k \in Key |-> IF k \in PathKey THEN <<>> ELSE Unset]

ConfigInit == file = <<>> /\ field = NewFields /\ status = "reading"

\* The first line of a key is the one that counts.
Earlier(k, v) == IF field[k] = NewFields[k] THEN v ELSE field[k]

Later(k, v) == v

\* A turn of the loop in Configuration::read, with the next line of the file.
ReadLine ==
  /\ status = "reading" /\ Len(file) < MaxLines
  /\ \E s \in Line :
       /\ file' = Append(file, s)
       /\ field' = IF Reading[s].does # "sets" THEN field
                   ELSE [field EXCEPT ![Reading[s].key] = Later(Reading[s].key, Reading[s].stores)]
       /\ status' = IF Reading[s].does = "throws" THEN "threw"
                    ELSE IF Reading[s].does = "undefined" THEN "undefined" ELSE status

\* The file has no more lines, or it can not be opened at all.
ReadEnds ==
  /\ status = "reading"
  /\ status' = "read" \/ (file = <<>> /\ status' = "threw")
  /\ UNCHANGED <<file, field>>
-----------------------------------------------------------------------------
\* s without its spaces at both ends, said without looking for the ends.
Strips(s, t) ==
  /\ \E a, b \in 0 .. Len(s) :
       /\ a + Len(t) + b = Len(s)
       /\ \A i \in DOMAIN s : IF i <= a \/ i > a + Len(t) THEN s[i] \in Space ELSE s[i] = t[i - a]
  /\ t = <<>> \/ (t[1] \notin Space /\ t[Len(t)] \notin Space)

FirstColon(s) == CHOOSE c \in Colons(s) : \A i \in 1 .. c - 1 : s[i] # ":"

\* A line without a colon is its own key and its own value.
Before(s) == IF ":" \in Range(s) THEN SubSeq(s, 1, FirstColon(s) - 1) ELSE s
Behind(s) == IF ":" \in Range(s) THEN SubSeq(s, FirstColon(s) + 1, Len(s)) ELSE s

Substrings(s) == {<<>>} \cup (UNION {{SubSeq(s, a, b) : b \in DOMAIN s} : a \in DOMAIN s})

\* The lines that set k: its key is all that is before the colon.
LinesOf == [k \in Key |-> {s \in Line : \E key \in DOMAIN Word :
                                          Word[key] = k /\ Strips(Before(s), key)}]

\* What a line that sets k means for it.
Meant == [k \in Key |-> [s \in LinesOf[k] |->
            {Stored(k, v) : v \in {w \in Substrings(Behind(s)) : Strips(Behind(s), w)}}]]

\* trim takes off the spaces at both ends and nothing else from every line of the file,
\* unless the only printing character of the line is its first.
TrimExact ==
  \A i \in DOMAIN file : Trim(file[i]) # Overrun => Strips(file[i], Trim(file[i]))

\* After a read that returned each field has what the last line of its key says, as much
\* of it as the field can hold, and a field is uninitialized only if no line has its key.
FieldsFromLastLine ==
  status = "read" =>
    \A k \in Key :
      LET saying == {i \in DOMAIN file : file[i] \in LinesOf[k]}
      IN  IF saying = {} THEN field[k] = NewFields[k]
          ELSE field[k] \in Meant[k][file[Max(saying)]]
=============================================================================
