-------------------------------- MODULE Startup --------------------------------
(***************************************************************************)
(* The start of a program (main.cxx:31-47, TableTest.cxx:19-25): read the  *)
(* configuration, set the level and the output of the logger, start it.    *)
(* The logger is a singleton: the start of the next test case in the same  *)
(* process finds it as the last one left it, be it with an exception.      *)
(***************************************************************************)
EXTENDS Configuration

CONSTANTS Closed,      \* no file: the stream is not open
          MaxStarts    \* bound: starts of one process

ASSUME StartsAssumption == MaxStarts \in Nat \ {0}

VARIABLES step,        \* of the start: "config", "level", "output", "running"
          m_logLevel, m_logMode, m_filename,
          m_fileStream,   \* the file the stream is open on, or Closed
          starts,         \* history: starts of the process
          refused         \* history: the last file asked for could not be opened

logger == <<m_logLevel, m_logMode, m_filename, m_fileStream, refused>>
vars == <<configVars, step, logger, starts>>

\* What reading an uninitialized member of an enumeration may give.
Valued(f, names) == IF f = Unset THEN names \cup {"Unknown", "Garbage"} ELSE {f}

Init == /\ ConfigInit /\ step = "config"
        /\ m_logLevel = "Info" /\ m_logMode = "Terminal"
        /\ m_filename = <<>> /\ m_fileStream = Closed /\ refused = FALSE
        /\ starts = 1

Read == /\ step = "config"
        /\ ReadLine \/ ReadEnds
        /\ step' = IF status' = "read" THEN "level" ELSE step
        /\ UNCHANGED <<logger, starts>>

\* setLogLevel ignores Unknown.
SetLogLevel ==
  /\ step = "level" /\ step' = "output"
  /\ \E level \in Valued(field["LogLevel"], Level) :
       m_logLevel' = IF level = "Unknown" THEN m_logLevel ELSE level
  /\ UNCHANGED <<configVars, m_logMode, m_filename, m_fileStream, refused, starts>>

\* What ofstream::open may leave; it can not open the file with no name.
Opens(name) == {Closed, name} \ {<<>>}

\* The old file is not closed; opening an open stream fails and it stays as it is.
StillOpen(name) ==
  IF m_fileStream = Closed THEN m_fileStream' \in Opens(name) ELSE UNCHANGED m_fileStream

\* close, and open.
Reopened(name) == m_fileStream' \in Opens(name)

\* The calls of setOutputMode that return before the stream is looked at.
ReturnsEarly(mode, name) ==
  \/ mode = "Unknown"
  \/ mode = m_logMode /\ (mode = "Terminal" \/ name = m_filename)

\* Messages go to the file from now on.
ToFile(name) ==
  /\ m_logMode' = "File" /\ m_filename' = name
  /\ IF m_logMode = "Terminal" THEN m_fileStream' \in Opens(name) ELSE Reopened(name)

ToTerminal == m_logMode' = "Terminal" /\ m_filename' = <<>> /\ m_fileStream' = Closed

\* setOutputMode.  What is no mode changes nothing, and the stream is still looked at.
SetOutputMode ==
  /\ step = "output"
  /\ \E mode \in Valued(field["LogMode"], Mode) :
       LET name == field["LogFilePath"]
           throws == m_logMode' = "File" /\ m_fileStream' = Closed
       IN  IF ReturnsEarly(mode, name)
             THEN step' = "running" /\ UNCHANGED <<m_logMode, m_filename, m_fileStream, refused>>
             ELSE /\ \/ mode = "File" /\ ToFile(name)
                     \/ mode = "Terminal" /\ ToTerminal
                     \/ mode \notin Mode /\ UNCHANGED <<m_logMode, m_filename, m_fileStream>>
                  /\ refused' = throws
                  /\ step' = IF throws THEN "threw" ELSE "running"
  /\ UNCHANGED <<configVars, m_logLevel, starts>>

\* The next test case starts anew in the same process, with a configuration of its own.
StartAgain ==
  /\ step \in {"running", "threw"} \/ status = "threw"
  /\ starts < MaxStarts /\ starts' = starts + 1
  /\ file' = <<>> /\ field' = NewFields /\ status' = "reading" /\ step' = "config"
  /\ UNCHANGED logger

Next == Read \/ SetLogLevel \/ SetOutputMode \/ StartAgain

Spec == Init /\ [][Next]_vars
-----------------------------------------------------------------------------
TypeOK ==
  /\ Len(file) <= MaxLines /\ status \in {"reading", "read", "threw", "undefined"}
  /\ step \in {"config", "level", "output", "running", "threw"}
  /\ \A k \in NumberKey : field[k] = Unset \/ field[k] \in 0 .. FieldWidth[k] - 1
  /\ field["LogLevel"] \in Level \cup {"Unknown", Unset}
  /\ field["LogMode"] \in Mode \cup {"Unknown", Unset}
  /\ m_logLevel \in Level \cup {"Garbage"} /\ m_logMode \in Mode
  /\ starts \in 1 .. MaxStarts

\* When the logger runs its messages have a place to go to: with mode Terminal nothing
\* is open, with mode File the stream is open on the file last asked for; except that a
\* file that could not be opened and is asked for again is not tried again.
OutputMatchesMode ==
  step = "running" =>
    IF m_logMode = "Terminal"
      THEN m_fileStream = Closed /\ m_filename = <<>>
      ELSE m_fileStream = IF refused THEN Closed ELSE m_filename
=============================================================================
