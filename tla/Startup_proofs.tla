----------------------------- MODULE Startup_proofs -----------------------------
(***************************************************************************)
(* Proofs about Startup: what trim gives for any text, and where messages  *)
(* go after any number of starts with any configuration files.             *)
(***************************************************************************)
EXTENDS Startup, SequenceTheorems, WellFoundedInduction, TLAPS

\* A set of natural numbers that is not empty has a least element.
LEMMA LeastExists ==
  ASSUME NEW S \in SUBSET Nat, S # {}
  PROVE  Min(S) \in S /\ \A i \in S : Min(S) <= i
<1> DEFINE Below == {ss \in Nat \X Nat : ss[1] < ss[2]}
<1>0. IsWellFoundedOn(Below, Nat)
  BY NatLessThanWellFounded DEF OpToRel
<1>1. PICK x \in S : \A y \in S : <<y, x>> \notin Below
  BY <1>0, WFMin
<1>2. \A y \in S : x <= y
  <2> TAKE y \in S
  <2>1. <<y, x>> \in Nat \X Nat /\ <<y, x>>[1] = y /\ <<y, x>>[2] = x
    OBVIOUS
  <2>2. ~(y < x)
    BY <1>1, <2>1
  <2> QED
    BY <2>2
<1> QED
  BY <1>2 DEF Min

\* A set of natural numbers with 0 and every successor is all of them.
LEMMA AllNumbers ==
  ASSUME NEW S \in SUBSET Nat, 0 \in S, \A n \in S : n + 1 \in S
  PROVE  S = Nat
<1> SUFFICES ASSUME S # Nat PROVE FALSE
  OBVIOUS
<1>1. PICK x \in Nat \ S : \A y \in Nat \ S : x <= y
  <2>1. Nat \ S \in SUBSET Nat /\ Nat \ S # {}
    OBVIOUS
  <2> QED
    BY <2>1, LeastExists
<1>2. x - 1 \in Nat /\ (x - 1) + 1 = x
  BY <1>1
<1>3. x - 1 \in S
  BY <1>1, <1>2
<1> QED
  BY <1>1, <1>2, <1>3

\* A bounded one has a greatest.
LEMMA GreatestExists ==
  ASSUME NEW n \in Nat, NEW S \in SUBSET (1 .. n), S # {}
  PROVE  Max(S) \in S /\ \A i \in S : i <= Max(S)
<1> DEFINE T == {n - i : i \in S}
<1>1. T \in SUBSET Nat /\ T # {}
  <2>1. \A i \in S : n - i \in Nat
    OBVIOUS
  <2> QED
    BY <2>1
<1>2. Min(T) \in T /\ \A j \in T : Min(T) <= j
  BY <1>1, LeastExists
<1>3. PICK x \in S : Min(T) = n - x
  BY <1>2
<1>4. \A i \in S : n - i \in T
  OBVIOUS
<1>5. \A i \in S : i <= x
  <2> TAKE i \in S
  <2>1. n - x <= n - i
    BY <1>2, <1>3, <1>4
  <2> QED
    BY <2>1
<1> QED
  BY <1>5 DEF Max

\* What is between two printing characters with only spaces outside is all of the text
\* but the spaces at its ends.
LEMMA BetweenStrips ==
  ASSUME NEW C, NEW s \in Seq(C), NEW first \in 1 .. Len(s), NEW last \in 1 .. Len(s),
         first <= last, s[first] \notin Space, s[last] \notin Space,
         \A i \in 1 .. Len(s) : i < first \/ i > last => s[i] \in Space
  PROVE  Strips(s, SubSeq(s, first, last))
<1> DEFINE t == SubSeq(s, first, last)
<1>1. Len(s) \in Nat /\ DOMAIN s = 1 .. Len(s)
  OBVIOUS
<1>2. /\ Len(t) = last - first + 1
      /\ \A i \in 1 .. last - first + 1 : t[i] = s[first + i - 1]
  BY <1>1
<1> HIDE DEF t
<1>3. /\ first - 1 \in 0 .. Len(s) /\ Len(s) - last \in 0 .. Len(s)
      /\ first - 1 + Len(t) + (Len(s) - last) = Len(s)
  BY <1>1, <1>2
<1>4. ASSUME NEW i \in DOMAIN s
      PROVE  IF i <= first - 1 \/ i > first - 1 + Len(t) THEN s[i] \in Space
                                                 ELSE s[i] = t[i - (first - 1)]
  <2>1. CASE i < first \/ i > last
    BY <1>1, <1>2, <2>1
  <2>2. CASE first <= i /\ i <= last
    <3>1. i - (first - 1) \in 1 .. last - first + 1 /\ first + (i - (first - 1)) - 1 = i
      BY <1>1, <2>2
    <3>2. t[i - (first - 1)] = s[first + (i - (first - 1)) - 1]
      BY <1>2, <3>1
    <3> QED
      BY SMTT(20), <1>1, <1>2, <2>2, <3>1, <3>2
  <2> QED
    BY <1>1, <2>1, <2>2
<1>5. t[1] \notin Space /\ t[Len(t)] \notin Space
  <2>1. /\ first + 1 - 1 = first /\ first + (last - first + 1) - 1 = last
        /\ 1 \in 1 .. last - first + 1 /\ last - first + 1 \in 1 .. last - first + 1
    BY <1>1
  <2>2. t[1] = s[first + 1 - 1] /\ t[Len(t)] = s[first + (last - first + 1) - 1]
    BY <1>2, <2>1
  <2> QED
    BY <2>1, <2>2
<1>6. Strips(s, t)
  BY <1>3, <1>4, <1>5 DEF Strips
<1> QED
  BY <1>6 DEF t

\* What trim gives, if it does not run out of the string: nothing for a text of spaces,
\* or the text from its first to its last printing character.
LEMMA TrimForm ==
  ASSUME NEW C, NEW s \in Seq(C), Trim(s) # Overrun
  PROVE  \/ Trim(s) = <<>> /\ \A i \in 1 .. Len(s) : s[i] \in Space
         \/ \E p, q \in 1 .. Len(s) :
              /\ Trim(s) = SubSeq(s, p, q) /\ p <= q
              /\ s[p] \notin Space /\ s[q] \notin Space
              /\ \A i \in 1 .. Len(s) : i < p \/ i > q => s[i] \in Space
<1> DEFINE P == Printing(s)
<1>1. Len(s) \in Nat /\ DOMAIN s = 1 .. Len(s) /\ P \in SUBSET (1 .. Len(s))
  BY DEF Printing
<1>2. CASE P = {}
  BY <1>1, <1>2 DEF Trim, Printing
<1>3. CASE P # {}
  <2>1. /\ Min(P) \in P /\ Max(P) \in P
        /\ \A i \in P : Min(P) <= i /\ i <= Max(P)
    <3>1. P \in SUBSET Nat
      BY <1>1
    <3>2. Min(P) \in P /\ \A i \in P : Min(P) <= i
      BY <1>3, <3>1, LeastExists
    <3>3. Max(P) \in P /\ \A i \in P : i <= Max(P)
      BY <1>1, <1>3, GreatestExists
    <3> QED
      BY <3>2, <3>3
  <2>2. /\ Min(P) \in 1 .. Len(s) /\ Max(P) \in 1 .. Len(s) /\ Min(P) <= Max(P)
        /\ s[Min(P)] \notin Space /\ s[Max(P)] \notin Space
    BY <1>1, <2>1 DEF Printing
  <2>3. \A i \in 1 .. Len(s) : i < Min(P) \/ i > Max(P) => s[i] \in Space
    <3> SUFFICES ASSUME NEW i \in 1 .. Len(s), i < Min(P) \/ i > Max(P) PROVE i \notin P
      BY <1>1 DEF Printing
    <3> QED
      BY <1>1, <2>1, <2>2
  <2>4. Trim(s) = SubSeq(s, Min(P), Max(P))
    BY <1>3 DEF Trim
  <2> QED
    BY <2>2, <2>3, <2>4
<1> QED
  BY <1>2, <1>3

\* Whatever the text, trim takes off the spaces at both ends and nothing else, or runs
\* out of the string.
LEMMA TrimStrips ==
  ASSUME NEW C, NEW s \in Seq(C), Trim(s) # Overrun
  PROVE  Trim(s) \in Seq(C) /\ Strips(s, Trim(s))
<1>1. Len(s) \in Nat /\ DOMAIN s = 1 .. Len(s)
  OBVIOUS
<1>2. CASE Trim(s) = <<>> /\ \A i \in 1 .. Len(s) : s[i] \in Space
  <2>1. Len(s) \in 0 .. Len(s) /\ 0 \in 0 .. Len(s) /\ Len(s) + Len(<<>>) + 0 = Len(s)
    BY <1>1
  <2>2. \A i \in DOMAIN s : i <= Len(s)
    BY <1>1
  <2>3. Strips(s, <<>>)
    BY <1>1, <1>2, <2>1, <2>2 DEF Strips
  <2> QED
    BY <1>2, <2>3
<1>3. ASSUME NEW p \in 1 .. Len(s), NEW q \in 1 .. Len(s), Trim(s) = SubSeq(s, p, q), p <= q,
             s[p] \notin Space, s[q] \notin Space,
             \A i \in 1 .. Len(s) : i < p \/ i > q => s[i] \in Space
      PROVE  Trim(s) \in Seq(C) /\ Strips(s, Trim(s))
  <2>1. SubSeq(s, p, q) \in Seq(C)
    BY <1>1, SubSeqProperties
  <2> QED
    BY <1>3, <2>1, BetweenStrips
<1> QED
  BY <1>2, <1>3, TrimForm
-----------------------------------------------------------------------------
\* The lines read are lines of a file.
LinesOK == file \in Seq(Line)

\* Every step keeps them so.
LEMMA NextLinesOK == LinesOK /\ [Next]_vars => LinesOK'
<1> SUFFICES ASSUME LinesOK, [Next]_vars PROVE LinesOK'
  OBVIOUS
<1>1. CASE UNCHANGED vars
  BY <1>1 DEF vars, configVars, LinesOK
<1>2. CASE ReadLine
  BY <1>2 DEF ReadLine, LinesOK
<1>3. CASE ReadEnds
  BY <1>3 DEF ReadEnds, LinesOK
<1>4. CASE SetLogLevel \/ SetOutputMode
  BY <1>4 DEF SetLogLevel, SetOutputMode, configVars, LinesOK
<1>5. CASE StartAgain
  BY <1>5 DEF StartAgain, LinesOK
<1> QED
  BY <1>1, <1>2, <1>3, <1>4, <1>5 DEF Next, Read

\* However long the file and whatever its lines, no line loses more to trim than the
\* spaces at its ends.
THEOREM TrimAlwaysExact == Spec => []TrimExact
<1>1. Init => LinesOK
  BY DEF Init, ConfigInit, LinesOK
<1>2. LinesOK => TrimExact
  <2> SUFFICES ASSUME LinesOK, NEW i \in DOMAIN file, Trim(file[i]) # Overrun
               PROVE  Strips(file[i], Trim(file[i]))
    BY DEF TrimExact
  <2>1. file[i] \in Line
    BY DEF LinesOK
  <2> QED
    BY <2>1, LineAssumption, TrimStrips
<1> QED
  BY <1>1, <1>2, NextLinesOK, PTL DEF Spec
-----------------------------------------------------------------------------
(* Where messages go.  OutputMatchesMode speaks of a running logger; it is *)
(* inductive when the mode, the name and the stream agree at every step.   *)

OutputOK ==
  /\ m_logMode \in Mode
  /\ IF m_logMode = "Terminal"
       THEN m_fileStream = Closed /\ m_filename = <<>>
       ELSE m_fileStream = IF refused THEN Closed ELSE m_filename

\* setOutputMode leaves them in agreement, whatever it is asked for.
LEMMA SetOutputModeOK ==
  ASSUME OutputOK, SetOutputMode
  PROVE  OutputOK'
<1> DEFINE name == field["LogFilePath"]
           throws == m_logMode' = "File" /\ m_fileStream' = Closed
<1>1. PICK mode \in Valued(field["LogMode"], Mode) :
        \/ UNCHANGED <<m_logMode, m_filename, m_fileStream, refused>>
        \/ /\ ~ReturnsEarly(mode, name)
           /\ \/ ToFile(name) \/ ToTerminal
              \/ UNCHANGED <<m_logMode, m_filename, m_fileStream>>
           /\ refused' = throws
  BY DEF SetOutputMode
<1>2. CASE UNCHANGED <<m_logMode, m_filename, m_fileStream, refused>>
  BY <1>2 DEF OutputOK
<1>3. CASE ToFile(name) /\ refused' = throws
  BY <1>3 DEF OutputOK, ToFile, Reopened, Opens, Mode
<1>4. CASE ToTerminal
  BY <1>4 DEF OutputOK, ToTerminal, Mode
<1>5. CASE UNCHANGED <<m_logMode, m_filename, m_fileStream>> /\ refused' = throws
  BY <1>5 DEF OutputOK, Mode
<1> QED
  BY <1>1, <1>2, <1>3, <1>4, <1>5

LEMMA OutputOKAlways == Spec => []OutputOK
<1>1. Init => OutputOK
  BY DEF Init, OutputOK, Mode
<1>2. ASSUME OutputOK, [Next]_vars PROVE OutputOK'
  <2>1. CASE SetOutputMode
    BY <1>2, <2>1, SetOutputModeOK
  <2>2. CASE UNCHANGED <<m_logMode, m_filename, m_fileStream, refused>>
    BY <1>2, <2>2 DEF OutputOK
  <2> QED
    BY <1>2, <2>1, <2>2 DEF Next, Read, SetLogLevel, StartAgain, vars, logger
<1> QED
  BY <1>1, <1>2, PTL DEF Spec

\* Whatever the files say, and however many starts follow one another in a process, a
\* running logger writes to where its mode says.
THEOREM OutputAlwaysMatches == Spec => []OutputMatchesMode
<1>1. OutputOK => OutputMatchesMode
  BY DEF OutputOK, OutputMatchesMode
<1> QED
  BY <1>1, OutputOKAlways, PTL
-----------------------------------------------------------------------------
(* What a line says.  ReadLine trims first and then looks for the colon;   *)
(* LinesOf and Meant look for the colon first and then strip.              *)

\* A text has one stripped form only.
LEMMA StripsOnce ==
  ASSUME NEW A, NEW B, NEW s, NEW t \in Seq(A), NEW u \in Seq(B), Len(s) \in Nat,
         DOMAIN s = 1 .. Len(s), Strips(s, t), Strips(s, u)
  PROVE  t = u
<1>1. /\ Len(t) \in Nat /\ Len(u) \in Nat
      /\ t = <<>> \/ (t[1] \notin Space /\ t[Len(t)] \notin Space)
      /\ u = <<>> \/ (u[1] \notin Space /\ u[Len(u)] \notin Space)
  BY DEF Strips
<1>2. PICK a \in 0 .. Len(s), b \in 0 .. Len(s) :
        /\ a + Len(t) + b = Len(s)
        /\ \A i \in 1 .. Len(s) : IF i <= a \/ i > a + Len(t) THEN s[i] \in Space ELSE s[i] = t[i - a]
  BY DEF Strips
<1>3. PICK e \in 0 .. Len(s), f \in 0 .. Len(s) :
        /\ e + Len(u) + f = Len(s)
        /\ \A i \in 1 .. Len(s) : IF i <= e \/ i > e + Len(u) THEN s[i] \in Space ELSE s[i] = u[i - e]
  BY DEF Strips
<1>4. Len(t) # 0 => /\ a + 1 \in 1 .. Len(s) /\ s[a + 1] \notin Space
                    /\ a + Len(t) \in 1 .. Len(s) /\ s[a + Len(t)] \notin Space
  <2> SUFFICES ASSUME Len(t) # 0
               PROVE  /\ a + 1 \in 1 .. Len(s) /\ s[a + 1] \notin Space
                      /\ a + Len(t) \in 1 .. Len(s) /\ s[a + Len(t)] \notin Space
    OBVIOUS
  <2>1. a + 1 \in 1 .. Len(s) /\ a + Len(t) \in 1 .. Len(s)
        /\ (a + 1) - a = 1 /\ (a + Len(t)) - a = Len(t)
        /\ ~(a + 1 <= a \/ a + 1 > a + Len(t)) /\ ~(a + Len(t) <= a \/ a + Len(t) > a + Len(t))
    BY <1>1, <1>2
  <2>2. s[a + 1] = t[1] /\ s[a + Len(t)] = t[Len(t)]
    BY <1>2, <2>1
  <2>3. t # <<>>
    OBVIOUS
  <2> QED
    BY <1>1, <2>1, <2>2, <2>3
<1>5. Len(u) # 0 => /\ e + 1 \in 1 .. Len(s) /\ s[e + 1] \notin Space
                    /\ e + Len(u) \in 1 .. Len(s) /\ s[e + Len(u)] \notin Space
  <2> SUFFICES ASSUME Len(u) # 0
               PROVE  /\ e + 1 \in 1 .. Len(s) /\ s[e + 1] \notin Space
                      /\ e + Len(u) \in 1 .. Len(s) /\ s[e + Len(u)] \notin Space
    OBVIOUS
  <2>1. e + 1 \in 1 .. Len(s) /\ e + Len(u) \in 1 .. Len(s)
        /\ (e + 1) - e = 1 /\ (e + Len(u)) - e = Len(u)
        /\ ~(e + 1 <= e \/ e + 1 > e + Len(u)) /\ ~(e + Len(u) <= e \/ e + Len(u) > e + Len(u))
    BY <1>1, <1>3
  <2>2. s[e + 1] = u[1] /\ s[e + Len(u)] = u[Len(u)]
    BY <1>3, <2>1
  <2>3. u # <<>>
    OBVIOUS
  <2> QED
    BY <1>1, <2>1, <2>2, <2>3
<1>6. Len(u) # 0 => Len(t) # 0 /\ a < e + 1 /\ e + Len(u) <= a + Len(t)
  <2> SUFFICES ASSUME Len(u) # 0 PROVE Len(t) # 0 /\ a < e + 1 /\ e + Len(u) <= a + Len(t)
    OBVIOUS
  <2>1. ~(e + 1 <= a \/ e + 1 > a + Len(t))
    BY <1>2, <1>5
  <2>2. ~(e + Len(u) <= a \/ e + Len(u) > a + Len(t))
    BY <1>2, <1>5
  <2> QED
    BY <1>1, <2>1, <2>2
<1>7. Len(t) # 0 => Len(u) # 0 /\ e < a + 1 /\ a + Len(t) <= e + Len(u)
  <2> SUFFICES ASSUME Len(t) # 0 PROVE Len(u) # 0 /\ e < a + 1 /\ a + Len(t) <= e + Len(u)
    OBVIOUS
  <2>1. ~(a + 1 <= e \/ a + 1 > e + Len(u))
    BY <1>3, <1>4
  <2>2. ~(a + Len(t) <= e \/ a + Len(t) > e + Len(u))
    BY <1>3, <1>4
  <2> QED
    BY <1>1, <2>1, <2>2
<1>8. CASE Len(t) = 0
  <2>1. Len(u) = 0
    BY <1>6, <1>8
  <2> QED
    BY <1>8, <2>1
<1>9. CASE Len(t) # 0
  <2>1. a = e /\ Len(t) = Len(u)
    BY <1>1, <1>6, <1>7, <1>9
  <2>2. ASSUME NEW i \in 1 .. Len(t) PROVE t[i] = u[i]
    <3>1. a + i \in 1 .. Len(s) /\ (a + i) - a = i /\ ~(a + i <= a \/ a + i > a + Len(t))
      BY <1>1, <1>2
    <3> QED
      BY <1>2, <1>3, <2>1, <3>1
  <2> QED
    BY <1>1, <2>1, <2>2
<1> QED
  BY <1>8, <1>9

\* Spaces around a text change nothing of what it strips to.
LEMMA StripsOutward ==
  ASSUME NEW C, NEW s \in Seq(C), NEW p \in 1 .. Len(s) + 1, NEW q \in 0 .. Len(s), p <= q + 1,
         NEW A, NEW t \in Seq(A), Strips(SubSeq(s, p, q), t),
         \A i \in 1 .. Len(s) : i < p \/ i > q => s[i] \in Space
  PROVE  Strips(s, t)
<1>1. PICK x : x = SubSeq(s, p, q)
  OBVIOUS
<1>2. /\ Len(s) \in Nat /\ DOMAIN s = 1 .. Len(s) /\ Len(t) \in Nat
      /\ Len(x) = q - p + 1 /\ Len(x) \in Nat /\ DOMAIN x = 1 .. Len(x)
      /\ \A i \in 1 .. Len(x) : x[i] = s[p + i - 1]
  BY <1>1
<1>3. PICK a \in 0 .. Len(x), b \in 0 .. Len(x) :
        /\ a + Len(t) + b = Len(x)
        /\ \A i \in 1 .. Len(x) : IF i <= a \/ i > a + Len(t) THEN x[i] \in Space ELSE x[i] = t[i - a]
  BY <1>1, <1>2 DEF Strips
<1>4. PICK d \in 0 .. Len(s), e \in 0 .. Len(s) : d = p - 1 + a /\ e = b + (Len(s) - q)
  <2>1. p - 1 + a \in 0 .. Len(s) /\ b + (Len(s) - q) \in 0 .. Len(s)
    BY <1>2, <1>3
  <2> QED
    BY <2>1
<1>5. d + Len(t) + e = Len(s)
  <2>1. a + Len(t) + b = q - p + 1
    BY <1>2, <1>3
  <2> QED
    BY SMTT(20), <1>2, <1>4, <2>1
<1>6. ASSUME NEW i \in 1 .. Len(s)
      PROVE  IF i <= d \/ i > d + Len(t) THEN s[i] \in Space ELSE s[i] = t[i - d]
  <2>1. CASE i < p
    <3>1. i <= d
      BY <1>3, <1>4, <2>1
    <3> QED
      BY <2>1, <3>1
  <2>2. CASE i > q
    <3>1. i > d + Len(t)
      BY <1>2, <1>3, <1>4, <2>2
    <3> QED
      BY <2>2, <3>1
  <2>3. CASE p <= i /\ i <= q
    <3>1. PICK y \in 1 .. Len(x) : y = i - p + 1 /\ p + y - 1 = i
      <4>1. i - p + 1 \in 1 .. Len(x) /\ p + (i - p + 1) - 1 = i
        BY <1>2, <2>3
      <4> QED
        BY <4>1
    <3>2. x[y] = s[i]
      BY <1>2, <3>1
    <3>3. (y <= a <=> i <= d) /\ (y > a + Len(t) <=> i > d + Len(t)) /\ y - a = i - d
      BY SMTT(20), <1>2, <1>3, <1>4, <3>1
    <3> QED
      BY <1>3, <3>2, <3>3
  <2> QED
    BY <2>1, <2>2, <2>3
<1>7. t = <<>> \/ (t[1] \notin Space /\ t[Len(t)] \notin Space)
  BY DEF Strips
<1> QED
  BY <1>2, <1>5, <1>6, <1>7 DEF Strips

\* What a text strips to is a piece of it.
LEMMA StrippedIsPiece ==
  ASSUME NEW C, NEW s \in Seq(C), NEW A, NEW t \in Seq(A), Strips(s, t)
  PROVE  t \in Substrings(s)
<1>1. Len(s) \in Nat /\ DOMAIN s = 1 .. Len(s) /\ Len(t) \in Nat
  OBVIOUS
<1>2. PICK a \in 0 .. Len(s), b \in 0 .. Len(s) :
        /\ a + Len(t) + b = Len(s)
        /\ \A i \in 1 .. Len(s) : IF i <= a \/ i > a + Len(t) THEN s[i] \in Space ELSE s[i] = t[i - a]
  BY <1>1 DEF Strips
<1>3. CASE t = <<>>
  BY <1>3 DEF Substrings
<1>4. CASE t # <<>>
  <2>1. Len(t) # 0
    BY <1>4
  <2>2. PICK f \in 1 .. Len(s), l \in 1 .. Len(s) : f = a + 1 /\ l = a + Len(t) /\ f <= l
    <3>1. a + 1 \in 1 .. Len(s) /\ a + Len(t) \in 1 .. Len(s) /\ a + 1 <= a + Len(t)
      BY <1>1, <1>2, <2>1
    <3> QED
      BY <3>1
  <2>3. PICK u : u = SubSeq(s, f, l)
    OBVIOUS
  <2>4. u \in Seq(C) /\ Len(u) = l - f + 1 /\ \A i \in 1 .. l - f + 1 : u[i] = s[f + i - 1]
    <3>1. f \in 1 .. Len(s) /\ l \in f .. Len(s)
      BY <1>1, <2>2
    <3> QED
      BY SMTT(20), <1>1, <2>3, <3>1, SubSeqProperties
  <2>5. Len(u) = Len(t)
    BY <1>1, <2>2, <2>4
  <2>6. ASSUME NEW i \in 1 .. Len(t) PROVE u[i] = t[i]
    <3>1. a + i \in 1 .. Len(s) /\ f + i - 1 = a + i /\ (a + i) - a = i
          /\ ~(a + i <= a \/ a + i > a + Len(t))
      BY <1>1, <1>2, <2>2
    <3>2. u[i] = s[a + i]
      BY <2>4, <2>5, <3>1
    <3>3. s[a + i] = t[(a + i) - a]
      BY <1>2, <3>1
    <3> QED
      BY <3>1, <3>2, <3>3
  <2>7. u = t
    BY <2>4, <2>5, <2>6
  <2>8. f \in DOMAIN s /\ l \in DOMAIN s /\ t = SubSeq(s, f, l)
    BY <1>1, <2>2, <2>3, <2>7
  <2>9. t \in {SubSeq(s, f, y) : y \in DOMAIN s}
    BY <2>8
  <2>10. t \in UNION {{SubSeq(s, x, y) : y \in DOMAIN s} : x \in DOMAIN s}
    BY ZenonT(20), <2>8, <2>9
  <2> QED
    BY <2>10 DEF Substrings
<1> QED
  BY <1>3, <1>4

\* A text strips to what begins with its first printing character.
LEMMA FirstSign ==
  ASSUME NEW C, NEW s \in Seq(C), NEW A, NEW t \in Seq(A), Strips(s, t)
  PROVE  /\ (\A i \in 1 .. Len(s) : s[i] \in Space) => t = <<>>
         /\ \A p \in 1 .. Len(s) :
              s[p] \notin Space /\ (\A i \in 1 .. Len(s) : i < p => s[i] \in Space) =>
                t[1] = s[p]
<1>1. Len(s) \in Nat /\ DOMAIN s = 1 .. Len(s) /\ Len(t) \in Nat
  OBVIOUS
<1>2. PICK a \in 0 .. Len(s), b \in 0 .. Len(s) :
        /\ a + Len(t) + b = Len(s)
        /\ \A i \in 1 .. Len(s) : IF i <= a \/ i > a + Len(t) THEN s[i] \in Space ELSE s[i] = t[i - a]
  BY <1>1 DEF Strips
<1>3. Len(t) # 0 => a + 1 \in 1 .. Len(s) /\ s[a + 1] = t[1] /\ s[a + 1] \notin Space
  <2> SUFFICES ASSUME Len(t) # 0
               PROVE  a + 1 \in 1 .. Len(s) /\ s[a + 1] = t[1] /\ s[a + 1] \notin Space
    OBVIOUS
  <2>1. a + 1 \in 1 .. Len(s) /\ (a + 1) - a = 1 /\ ~(a + 1 <= a \/ a + 1 > a + Len(t))
    BY <1>1, <1>2
  <2>2. s[a + 1] = t[1]
    BY <1>2, <2>1
  <2>3. t # <<>>
    OBVIOUS
  <2> QED
    BY <2>1, <2>2, <2>3 DEF Strips
<1>4. ASSUME \A i \in 1 .. Len(s) : s[i] \in Space PROVE t = <<>>
  BY <1>1, <1>3, <1>4
<1>5. ASSUME NEW p \in 1 .. Len(s), s[p] \notin Space,
             \A i \in 1 .. Len(s) : i < p => s[i] \in Space
      PROVE  t[1] = s[p]
  <2>1. ~(p <= a \/ p > a + Len(t))
    BY <1>2, <1>5
  <2>2. Len(t) # 0
    BY <1>1, <2>1
  <2>3. ~(a + 1 < p)
    BY <1>3, <1>5, <2>2
  <2>4. p = a + 1
    BY <1>1, <2>1, <2>3
  <2> QED
    BY <1>3, <2>2, <2>4
<1> QED
  BY <1>4, <1>5

\* The colon at which a text is divided, if it has one.
LEMMA FirstColonIs ==
  ASSUME NEW C, NEW s \in Seq(C)
  PROVE  \/ /\ Colons(s) = {} /\ ":" \notin Range(s)
            /\ \A i \in 1 .. Len(s) : s[i] # ":"
         \/ \E c \in 1 .. Len(s) :
              /\ s[c] = ":" /\ \A i \in 1 .. Len(s) : i < c => s[i] # ":"
              /\ Colons(s) # {} /\ Min(Colons(s)) = c
              /\ ":" \in Range(s) /\ FirstColon(s) = c
<1>1. Len(s) \in Nat /\ DOMAIN s = 1 .. Len(s) /\ Colons(s) = {i \in 1 .. Len(s) : s[i] = ":"}
  BY DEF Colons
<1>2. CASE Colons(s) = {}
  BY <1>1, <1>2 DEF Range
<1>3. CASE Colons(s) # {}
  <2>1. PICK c : c = Min(Colons(s))
    OBVIOUS
  <2>2. c \in Colons(s) /\ \A i \in Colons(s) : c <= i
    <3>1. Colons(s) \in SUBSET Nat
      BY <1>1
    <3> QED
      BY <1>3, <2>1, <3>1, LeastExists
  <2>3. c \in 1 .. Len(s) /\ s[c] = ":" /\ \A i \in 1 .. Len(s) : i < c => s[i] # ":"
    BY <1>1, <2>2
  <2>4. ASSUME NEW d \in Colons(s), \A i \in 1 .. d - 1 : s[i] # ":" PROVE d = c
    <3>1. ~(c < d)
      <4> SUFFICES ASSUME c < d PROVE FALSE
        OBVIOUS
      <4>1. c \in 1 .. d - 1
        BY <1>1, <2>3
      <4> QED
        BY <2>3, <2>4, <4>1
    <3> QED
      BY <1>1, <2>2, <2>3, <3>1
  <2>5. \A i \in 1 .. c - 1 : s[i] # ":"
    BY <1>1, <2>3
  <2>6. FirstColon(s) = c
    BY <2>2, <2>4, <2>5 DEF FirstColon
  <2> QED
    BY <1>1, <1>3, <2>1, <2>3, <2>6 DEF Range
<1> QED
  BY <1>2, <1>3

\* To trim a line and divide it at its colon gives pieces of what dividing it gives, and
\* what they leave out are spaces.
LEMMA Halves ==
  ASSUME NEW C, NEW s \in Seq(C), NEW p \in 1 .. Len(s), NEW q \in 1 .. Len(s), p <= q,
         NEW text, text = SubSeq(s, p, q),
         \A i \in 1 .. Len(s) : i < p \/ i > q => s[i] \in Space
  PROVE  /\ Before(s) \in Seq(C) /\ Behind(s) \in Seq(C)
         /\ KeyText(text) \in Seq(C) /\ ValueText(text) \in Seq(C)
         /\ \A t \in Seq(C) : Strips(KeyText(text), t) => Strips(Before(s), t)
         /\ \A t \in Seq(C) : Strips(ValueText(text), t) => Strips(Behind(s), t)
         /\ s[p] # ":" => p \in 1 .. Len(Before(s)) /\ \A i \in 1 .. p : Before(s)[i] = s[i]
<1>1. Len(s) \in Nat /\ DOMAIN s = 1 .. Len(s) /\ \A i \in 1 .. Len(s) : s[i] \in C
  OBVIOUS
<1>2. /\ text \in Seq(C) /\ Len(text) = q - p + 1
      /\ \A i \in 1 .. q - p + 1 : text[i] = s[p + i - 1]
  <2>1. \A i \in p .. q : s[i] \in C
    BY <1>1
  <2> QED
    BY <1>1, <2>1, SubSeqProperties
<1>3. CASE Colons(s) = {}
  <2>1. ":" \notin Range(s) /\ \A i \in 1 .. Len(s) : s[i] # ":"
    BY <1>3, FirstColonIs
  <2>2. Colons(text) = {}
    <3> SUFFICES ASSUME NEW i \in 1 .. q - p + 1 PROVE text[i] # ":"
      BY <1>2 DEF Colons
    <3>1. p + i - 1 \in 1 .. Len(s)
      BY <1>1
    <3> QED
      BY <1>2, <2>1, <3>1
  <2>3. KeyText(text) = text /\ ValueText(text) = text /\ Before(s) = s /\ Behind(s) = s
    BY <2>1, <2>2 DEF KeyText, ValueText, Before, Behind
  <2>4. ASSUME NEW t \in Seq(C), Strips(text, t) PROVE Strips(s, t)
    <3>1. p \in 1 .. Len(s) + 1 /\ q \in 0 .. Len(s) /\ p <= q + 1
      BY <1>1
    <3> QED
      BY <2>4, <3>1, StripsOutward
  <2> QED
    BY <1>1, <1>2, <2>3, <2>4
<1>4. CASE Colons(s) # {}
  <2>1. PICK c \in 1 .. Len(s) :
          /\ s[c] = ":" /\ \A i \in 1 .. Len(s) : i < c => s[i] # ":"
          /\ ":" \in Range(s) /\ FirstColon(s) = c
    BY <1>4, FirstColonIs
  <2>2. p <= c /\ c <= q
    BY <2>1, NameAssumption
  <2>3. PICK d \in 1 .. q - p + 1 : d = c - p + 1 /\ p + d - 1 = c
    <3>1. c - p + 1 \in 1 .. q - p + 1 /\ p + (c - p + 1) - 1 = c
      BY <1>1, <2>2
    <3> QED
      BY <3>1
  <2>4. text[d] = ":" /\ \A i \in 1 .. q - p + 1 : i < d => text[i] # ":"
    <3>1. text[d] = ":"
      BY <1>2, <2>1, <2>3
    <3>2. ASSUME NEW i \in 1 .. q - p + 1, i < d PROVE text[i] # ":"
      <4>1. p + i - 1 \in 1 .. Len(s) /\ p + i - 1 < c
        BY <1>1, <2>3, <3>2
      <4> QED
        BY <1>2, <2>1, <4>1
    <3> QED
      BY <3>1, <3>2
  <2>5. Colons(text) # {} /\ Min(Colons(text)) = d
    <3>1. d \in 1 .. Len(text) /\ text[d] = ":"
      BY <1>2, <2>4
    <3>2. PICK e \in 1 .. Len(text) :
            /\ text[e] = ":" /\ \A i \in 1 .. Len(text) : i < e => text[i] # ":"
            /\ Colons(text) # {} /\ Min(Colons(text)) = e
      BY <1>2, <3>1, FirstColonIs
    <3>3. ~(e < d) /\ ~(d < e)
      BY <1>2, <2>4, <3>1, <3>2
    <3> QED
      BY <1>2, <3>2, <3>3
  <2>6. PICK before : before = SubSeq(s, 1, c - 1)
    OBVIOUS
  <2>7. /\ before \in Seq(C) /\ Len(before) = c - 1 /\ \A i \in 1 .. c - 1 : before[i] = s[i]
    <3>1. \A i \in 1 .. c - 1 : s[i] \in C /\ 1 + i - 1 = i
      BY <1>1
    <3>2. /\ before \in Seq(C) /\ Len(before) = IF 1 <= c - 1 THEN c - 1 - 1 + 1 ELSE 0
          /\ \A i \in 1 .. c - 1 - 1 + 1 : before[i] = s[1 + i - 1]
      BY <2>6, <3>1, SubSeqProperties
    <3> QED
      BY <3>1, <3>2
  <2>8. PICK behind : behind = SubSeq(s, c + 1, Len(s))
    OBVIOUS
  <2>9. /\ behind \in Seq(C) /\ Len(behind) = Len(s) - c
        /\ \A i \in 1 .. Len(s) - c : behind[i] = s[c + i]
    <3>1. \A i \in c + 1 .. Len(s) : s[i] \in C
      BY <1>1
    <3>2. /\ behind \in Seq(C)
          /\ Len(behind) = IF c + 1 <= Len(s) THEN Len(s) - (c + 1) + 1 ELSE 0
          /\ \A i \in 1 .. Len(s) - (c + 1) + 1 : behind[i] = s[(c + 1) + i - 1]
      BY <1>1, <2>8, <3>1, SubSeqProperties
    <3>3. Len(behind) = Len(s) - c
      <4>1. Len(behind) = IF c + 1 <= Len(s) THEN Len(s) - (c + 1) + 1 ELSE 0
        BY <3>2
      <4>2. CASE c + 1 <= Len(s)
        BY <1>1, <4>1, <4>2
      <4>3. CASE ~(c + 1 <= Len(s))
        <5>1. Len(behind) = 0
          BY <4>1, <4>3
        <5>2. Len(s) \in Nat /\ c \in Int /\ c <= Len(s)
          BY <1>1
        <5>3. c = Len(s)
          BY <4>3, <5>2
        <5> QED
          BY <5>1, <5>3
      <4> QED
        BY <4>2, <4>3
    <3>4. ASSUME NEW i \in 1 .. Len(s) - c PROVE behind[i] = s[c + i]
      <4>1. i \in 1 .. Len(s) - (c + 1) + 1 /\ (c + 1) + i - 1 = c + i
        BY <1>1
      <4>2. behind[i] = s[(c + 1) + i - 1]
        BY <3>2, <4>1
      <4> QED
        BY <4>1, <4>2
    <3> QED
      BY <3>2, <3>3, <3>4
  <2>10. PICK x : x = SubSeq(text, 1, d - 1)
    OBVIOUS
  <2>11. PICK y : y = SubSeq(text, d + 1, Len(text))
    OBVIOUS
  <2>12. x \in Seq(C) /\ x = SubSeq(before, p, c - 1)
    <3>1. \A i \in 1 .. d - 1 : text[i] \in C
      BY <1>2
    <3>2. /\ x \in Seq(C) /\ Len(x) = IF 1 <= d - 1 THEN d - 1 - 1 + 1 ELSE 0
          /\ \A i \in 1 .. d - 1 - 1 + 1 : x[i] = text[1 + i - 1]
      BY <2>10, <3>1, SubSeqProperties
    <3>3. PICK z : z = SubSeq(before, p, c - 1)
      OBVIOUS
    <3>4. \A i \in p .. c - 1 : before[i] \in C
      BY <2>7
    <3>5. /\ z \in Seq(C) /\ Len(z) = IF p <= c - 1 THEN c - 1 - p + 1 ELSE 0
          /\ \A i \in 1 .. c - 1 - p + 1 : z[i] = before[p + i - 1]
      BY <3>3, <3>4, SubSeqProperties
    <3>6. Len(x) = d - 1 /\ Len(z) = d - 1
      BY <2>3, <3>2, <3>5
    <3>7. ASSUME NEW i \in 1 .. d - 1 PROVE x[i] = z[i]
      <4>1. i \in 1 .. d - 1 - 1 + 1 /\ 1 + i - 1 = i /\ i \in 1 .. q - p + 1
            /\ i \in 1 .. c - 1 - p + 1 /\ p + i - 1 \in 1 .. c - 1
        BY <2>3
      <4>2. x[i] = text[i] /\ text[i] = s[p + i - 1]
        BY <1>2, <3>2, <4>1
      <4>3. z[i] = before[p + i - 1] /\ before[p + i - 1] = s[p + i - 1]
        BY <2>7, <3>5, <4>1
      <4> QED
        BY <4>2, <4>3
    <3>8. x = z
      BY <3>2, <3>5, <3>6, <3>7
    <3> QED
      BY <3>2, <3>3, <3>8
  <2>13. y \in Seq(C) /\ y = SubSeq(behind, 1, q - c)
    <3>1. \A i \in d + 1 .. Len(text) : text[i] \in C
      BY <1>2
    <3>2. /\ y \in Seq(C) /\ Len(y) = IF d + 1 <= Len(text) THEN Len(text) - (d + 1) + 1 ELSE 0
          /\ \A i \in 1 .. Len(text) - (d + 1) + 1 : y[i] = text[(d + 1) + i - 1]
      BY <1>2, <2>11, <3>1, SubSeqProperties
    <3>3. PICK z : z = SubSeq(behind, 1, q - c)
      OBVIOUS
    <3>4. \A i \in 1 .. q - c : behind[i] \in C
      <4>1. \A i \in 1 .. q - c : i \in 1 .. Len(s) - c
        BY <1>1
      <4> QED
        BY <2>9, <4>1
    <3>5. /\ z \in Seq(C) /\ Len(z) = IF 1 <= q - c THEN q - c - 1 + 1 ELSE 0
          /\ \A i \in 1 .. q - c - 1 + 1 : z[i] = behind[1 + i - 1]
      BY <3>3, <3>4, SubSeqProperties
    <3>6. Len(y) = q - c /\ Len(z) = q - c
      BY <1>2, <2>2, <2>3, <3>2, <3>5
    <3>7. ASSUME NEW i \in 1 .. q - c PROVE y[i] = z[i]
      <4>1. i \in 1 .. Len(text) - (d + 1) + 1 /\ (d + 1) + i - 1 = d + i /\ d + i \in 1 .. q - p + 1
            /\ i \in 1 .. q - c - 1 + 1 /\ 1 + i - 1 = i /\ i \in 1 .. Len(s) - c
            /\ p + (d + i) - 1 = c + i
        BY <1>1, <1>2, <2>3
      <4>2. y[i] = text[d + i] /\ text[d + i] = s[p + (d + i) - 1]
        BY <1>2, <3>2, <4>1
      <4>3. z[i] = behind[i] /\ behind[i] = s[c + i]
        BY <2>9, <3>5, <4>1
      <4> QED
        BY <4>1, <4>2, <4>3
    <3>8. y = z
      BY SMTT(20), <3>2, <3>5, <3>6, <3>7
    <3> QED
      BY <3>2, <3>3, <3>8
  <2>14. KeyText(text) = x /\ ValueText(text) = y /\ Before(s) = before /\ Behind(s) = behind
    BY <2>1, <2>5, <2>6, <2>8, <2>10, <2>11 DEF KeyText, ValueText, Before, Behind
  <2>15. ASSUME NEW t \in Seq(C), Strips(x, t) PROVE Strips(before, t)
    <3>1. p \in 1 .. Len(before) + 1 /\ c - 1 \in 0 .. Len(before) /\ p <= (c - 1) + 1
      BY <2>2, <2>7
    <3>2. ASSUME NEW i \in 1 .. Len(before), i < p \/ i > c - 1 PROVE before[i] \in Space
      <4>1. i \in 1 .. c - 1 /\ i < p /\ i \in 1 .. Len(s)
        BY <1>1, <2>7, <3>2
      <4> QED
        BY <2>7, <4>1
    <3> QED
      BY <2>7, <2>12, <2>15, <3>1, <3>2, StripsOutward
  <2>16. ASSUME NEW t \in Seq(C), Strips(y, t) PROVE Strips(behind, t)
    <3>1. 1 \in 1 .. Len(behind) + 1 /\ q - c \in 0 .. Len(behind) /\ 1 <= (q - c) + 1
      BY <1>1, <2>2, <2>9
    <3>2. ASSUME NEW i \in 1 .. Len(behind), i < 1 \/ i > q - c PROVE behind[i] \in Space
      <4>1. i \in 1 .. Len(s) - c /\ c + i \in 1 .. Len(s) /\ c + i > q
        BY <1>1, <2>9, <3>2
      <4> QED
        BY <2>9, <4>1
    <3> QED
      BY <2>9, <2>13, <2>16, <3>1, <3>2, StripsOutward
  <2>17. ASSUME s[p] # ":" PROVE p \in 1 .. Len(before) /\ \A i \in 1 .. p : before[i] = s[i]
    <3>1. p # c
      BY <2>1, <2>17
    <3>2. p \in 1 .. c - 1 /\ \A i \in 1 .. p : i \in 1 .. c - 1
      BY <2>2, <3>1
    <3> QED
      BY <2>7, <3>2
  <2> QED
    BY <2>7, <2>9, <2>12, <2>13, <2>14, <2>15, <2>16, <2>17
<1> QED
  BY <1>3, <1>4
-----------------------------------------------------------------------------
\* A line that sets a key is a line of this key and of no other, and stores one of
\* the values it is meant to; a line that does nothing is a line of no key.
LEMMA ReadingMeans ==
  ASSUME NEW s \in Line
  PROVE  /\ Reading[s].does = "nothing" => \A k \in Key : s \notin LinesOf[k]
         /\ Reading[s].does = "sets" =>
              /\ Reading[s].key \in Key
              /\ Reading[s].stores \in Meant[Reading[s].key][s] /\ Reading[s].stores # Threw
              /\ \A k \in Key : s \in LinesOf[k] <=> k = Reading[s].key
         /\ Reading[s].does \in {"nothing", "sets", "throws", "undefined"}
<1>1. PICK C : s \in Seq(C)
  BY LineAssumption
<1>2. PICK text, key, value :
        text = Trim(s) /\ key = Trim(KeyText(text)) /\ value = Trim(ValueText(text))
  OBVIOUS
<1>3. PICK k : k = ParsedKey(key)
  OBVIOUS
<1>4. Reading[s] =
        CASE text = Overrun -> [does |-> "undefined"]
          [] text # Overrun /\ (text = <<>> \/ text[1] = "#") -> [does |-> "nothing"]
          [] OTHER ->
               CASE Overrun \in {key, value} -> [does |-> "undefined"]
                 [] Overrun \notin {key, value} /\ k = "Unknown" -> [does |-> "nothing"]
                 [] OTHER -> IF Stored(k, value) = Threw THEN [does |-> "throws"]
                             ELSE [does |-> "sets", key |-> k, stores |-> Stored(k, value)]
  BY <1>2, <1>3 DEF Reading
<1>5. PICK b : b = Before(s)
  OBVIOUS
<1>6. \A j \in Key : s \in LinesOf[j] <=> \E t \in DOMAIN Word : Word[t] = j /\ Strips(b, t)
  BY <1>5 DEF LinesOf
<1>7. \A t \in DOMAIN Word : t \in Seq(Range(t)) /\ t # <<>> /\ t[1] # "#"
  BY NameAssumption
<1>8. CASE text = Overrun
  <2>1. Reading[s].does = "undefined"
    BY <1>4, <1>8
  <2> QED
    BY <2>1
<1>9. CASE text # Overrun /\ text = <<>>
  <2>1. Reading[s].does = "nothing"
    BY <1>4, <1>9
  <2>2. \A i \in 1 .. Len(s) : s[i] \in Space
    <3>1. ASSUME NEW p \in 1 .. Len(s), NEW q \in 1 .. Len(s), text = SubSeq(s, p, q), p <= q
          PROVE  FALSE
      <4>1. \A i \in p .. q : s[i] \in C
        BY <1>1
      <4>2. Len(text) = IF p <= q THEN q - p + 1 ELSE 0
        BY <3>1, <4>1, SubSeqProperties
      <4>3. Len(text) = 0
        BY <1>9
      <4> QED
        BY <3>1, <4>2, <4>3
    <3> QED
      BY <1>1, <1>2, <1>9, <3>1, TrimForm
  <2>3. b = s
    BY <1>1, <1>5, <2>2, FirstColonIs, NameAssumption DEF Before
  <2>4. ASSUME NEW t \in DOMAIN Word PROVE ~Strips(b, t)
    BY <1>1, <1>7, <2>2, <2>3, FirstSign
  <2> QED
    BY <1>6, <2>1, <2>4
<1>10. CASE text # Overrun /\ text # <<>>
  <2>1. PICK p \in 1 .. Len(s), q \in 1 .. Len(s) :
          /\ text = SubSeq(s, p, q) /\ p <= q /\ s[p] \notin Space
          /\ \A i \in 1 .. Len(s) : i < p \/ i > q => s[i] \in Space
    BY <1>1, <1>2, <1>10, TrimForm
  <2>2. PICK x, y, e : x = KeyText(text) /\ y = ValueText(text) /\ e = Behind(s)
    OBVIOUS
  <2>3. /\ b \in Seq(C) /\ e \in Seq(C) /\ x \in Seq(C) /\ y \in Seq(C)
        /\ \A t \in Seq(C) : Strips(x, t) => Strips(b, t)
        /\ \A t \in Seq(C) : Strips(y, t) => Strips(e, t)
        /\ s[p] # ":" => p \in 1 .. Len(b) /\ \A i \in 1 .. p : b[i] = s[i]
    BY <1>1, <1>5, <2>1, <2>2, Halves
  <2>4. text[1] = s[p]
    <3>1. Len(s) \in Nat /\ 1 \in 1 .. q - p + 1 /\ p + 1 - 1 = p
      BY <1>1, <2>1
    <3>2. \A i \in p .. q : s[i] \in C
      BY <1>1
    <3>3. \A i \in 1 .. q - p + 1 : text[i] = s[p + i - 1]
      BY <2>1, <3>2, SubSeqProperties
    <3> QED
      BY <3>1, <3>3
  <2>5. CASE text[1] = "#"
    <3>1. Reading[s].does = "nothing"
      BY <1>4, <1>10, <2>5
    <3>2. p \in 1 .. Len(b) /\ b[p] = "#" /\ b[p] \notin Space
          /\ \A i \in 1 .. Len(b) : i < p => b[i] \in Space
      <4>1. p \in 1 .. Len(b) /\ \A i \in 1 .. p : b[i] = s[i]
        BY <2>3, <2>4, <2>5
      <4>2. ASSUME NEW i \in 1 .. Len(b), i < p PROVE b[i] \in Space
        <5>1. i \in 1 .. p /\ i \in 1 .. Len(s)
          BY <1>1, <4>2
        <5> QED
          BY <2>1, <4>1, <4>2, <5>1
      <4> QED
        BY <2>1, <2>4, <2>5, <4>1, <4>2
    <3>3. ASSUME NEW t \in DOMAIN Word PROVE ~Strips(b, t)
      <4>1. t \in Seq(Range(t)) /\ t[1] # "#"
        BY <1>7
      <4> QED
        BY SMTT(20), <2>3, <3>2, <4>1, FirstSign
    <3> QED
      BY <1>6, <3>1, <3>3
  <2>6. CASE text[1] # "#" /\ Overrun \in {key, value}
    <3>1. Reading[s].does = "undefined"
      BY <1>4, <1>10, <2>6
    <3> QED
      BY <3>1
  <2>7. CASE text[1] # "#" /\ Overrun \notin {key, value}
    <3>1. key \in Seq(C) /\ value \in Seq(C) /\ Strips(x, key) /\ Strips(y, value)
      BY <1>2, <2>2, <2>3, <2>7, TrimStrips
    <3>2. Strips(b, key) /\ Strips(e, value)
      BY <2>3, <3>1
    <3>3. ASSUME NEW t \in DOMAIN Word, Strips(b, t) PROVE t = key
      <4>1. t \in Seq(Range(t)) /\ Len(b) \in Nat /\ DOMAIN b = 1 .. Len(b)
        BY <1>7, <2>3
      <4> QED
        BY <3>1, <3>2, <3>3, <4>1, StripsOnce
    <3>4. "Unknown" \notin Key
      BY DEF Key, NumberKey, PathKey
    <3>5. k = IF key \in DOMAIN Word /\ Word[key] \in Key THEN Word[key] ELSE "Unknown"
      BY <1>3 DEF ParsedKey, NameOf
    <3>6. CASE k = "Unknown"
      <4>1. Reading[s].does = "nothing"
        BY <1>4, <1>10, <2>7, <3>6
      <4>2. ~(key \in DOMAIN Word /\ Word[key] \in Key)
        BY <3>4, <3>5, <3>6
      <4> QED
        BY <1>6, <3>3, <4>1, <4>2
    <3>7. CASE k # "Unknown" /\ Stored(k, value) = Threw
      <4>1. Reading[s].does = "throws"
        BY <1>4, <1>10, <2>7, <3>7
      <4> QED
        BY <4>1
    <3>8. CASE k # "Unknown" /\ Stored(k, value) # Threw
      <4>1. PICK v : v = Stored(k, value)
        OBVIOUS
      <4>2. Reading[s] = [does |-> "sets", key |-> k, stores |-> v]
        BY <1>4, <1>10, <2>7, <3>8, <4>1
      <4>3. key \in DOMAIN Word /\ Word[key] = k /\ k \in Key
        BY <3>5, <3>8
      <4>4. \A j \in Key : s \in LinesOf[j] <=> j = k
        BY <1>6, <3>2, <3>3, <4>3
      <4>5. value \in {w \in Substrings(e) : Strips(e, w)}
        BY <2>3, <3>1, <3>2, StrippedIsPiece
      <4>6. Meant[k][s] = {Stored(k, w) : w \in {w \in Substrings(e) : Strips(e, w)}}
        BY <2>2, <4>3, <4>4 DEF Meant
      <4>7. v \in Meant[k][s]
        BY <4>1, <4>5, <4>6
      <4> QED
        BY <3>8, <4>1, <4>2, <4>3, <4>4, <4>7
    <3> QED
      BY <3>6, <3>7, <3>8
  <2> QED
    BY <2>5, <2>6, <2>7
<1> QED
  BY <1>8, <1>9, <1>10

\* The fields are what the last lines of their keys say after every line.
FieldsSoFar ==
  \A k \in Key :
    LET saying == {i \in DOMAIN file : file[i] \in LinesOf[k]}
    IN  IF saying = {} THEN field[k] = NewFields[k]
        ELSE field[k] \in Meant[k][file[Max(saying)]]

FieldInv == /\ file \in Seq(Line) /\ DOMAIN field = Key
            /\ status \in {"reading", "read"} => FieldsSoFar

\* A line read keeps them so.
LEMMA ReadLineFields ==
  ASSUME FieldInv, ReadLine
  PROVE  FieldInv'
<1>1. PICK s \in Line :
        /\ file' = Append(file, s)
        /\ field' = IF Reading[s].does # "sets" THEN field
                    ELSE [field EXCEPT ![Reading[s].key] = Reading[s].stores]
        /\ status' = IF Reading[s].does = "throws" THEN "threw"
                     ELSE IF Reading[s].does = "undefined" THEN "undefined" ELSE status
  BY DEF ReadLine, Later
<1>2. status = "reading" /\ FieldsSoFar /\ file \in Seq(Line) /\ DOMAIN field = Key
  BY DEF ReadLine, FieldInv
<1>3. /\ Len(file) \in Nat /\ DOMAIN file = 1 .. Len(file)
      /\ file' \in Seq(Line) /\ DOMAIN file' = 1 .. Len(file) + 1
      /\ file'[Len(file) + 1] = s /\ \A i \in 1 .. Len(file) : file'[i] = file[i]
  BY <1>1, <1>2
<1>4. DOMAIN field' = Key
  BY <1>1, <1>2
<1>5. ASSUME status' \in {"reading", "read"}, NEW k \in Key
      PROVE  LET saying == {i \in DOMAIN file' : file'[i] \in LinesOf[k]}
             IN  IF saying = {} THEN field'[k] = NewFields[k]
                 ELSE field'[k] \in Meant[k][file'[Max(saying)]]
  <2>1. PICK old : old = {i \in DOMAIN file : file[i] \in LinesOf[k]}
    OBVIOUS
  <2>2. PICK new : new = {i \in DOMAIN file' : file'[i] \in LinesOf[k]}
    OBVIOUS
  <2>3. IF old = {} THEN field[k] = NewFields[k] ELSE field[k] \in Meant[k][file[Max(old)]]
    BY <1>2, <2>1 DEF FieldsSoFar
  <2>4. Reading[s].does \in {"nothing", "sets"}
    BY <1>1, <1>5, ReadingMeans
  <2>5. old \subseteq 1 .. Len(file)
        /\ new = IF s \in LinesOf[k] THEN old \cup {Len(file) + 1} ELSE old
    <3>1. \A i \in 1 .. Len(file) + 1 : i \in 1 .. Len(file) \/ i = Len(file) + 1
      BY <1>3
    <3>2. 1 .. Len(file) \subseteq 1 .. Len(file) + 1 /\ Len(file) + 1 \in 1 .. Len(file) + 1
      BY <1>3
    <3>3. \A i : i \in new <=> i \in old \/ (i = Len(file) + 1 /\ s \in LinesOf[k])
      BY <1>3, <2>1, <2>2, <3>1, <3>2
    <3> QED
      BY <1>3, <2>1, <3>3
  <2>6. CASE s \in LinesOf[k]
    <3>1. Reading[s].does = "sets" /\ Reading[s].key = k /\ Reading[s].stores \in Meant[k][s]
      BY <2>4, <2>6, ReadingMeans
    <3>2. field'[k] = Reading[s].stores
      BY <1>1, <1>2, <3>1
    <3>3. Max(new) = Len(file) + 1
      <4>1. PICK n \in Nat : n = Len(file) + 1
        BY <1>3
      <4>2. new \in SUBSET (1 .. n) /\ n \in new
        BY <1>3, <2>2, <2>5, <2>6, <4>1
      <4>3. Max(new) \in new /\ \A i \in new : i <= Max(new)
        BY <4>2, GreatestExists
      <4>4. PICK x \in 1 .. n : x = Max(new) /\ n <= x
        BY <4>2, <4>3
      <4> QED
        BY <4>1, <4>4
    <3>4. new # {} /\ file'[Max(new)] = s
      BY <1>3, <2>5, <2>6, <3>3
    <3> QED
      BY <2>2, <3>1, <3>2, <3>4
  <2>7. CASE s \notin LinesOf[k]
    <3>1. field'[k] = field[k]
      BY <1>1, <1>2, <2>4, <2>7, ReadingMeans
    <3>2. new = old
      BY <2>5, <2>7
    <3>3. old # {} => file'[Max(old)] = file[Max(old)]
      <4> SUFFICES ASSUME old # {} PROVE file'[Max(old)] = file[Max(old)]
        OBVIOUS
      <4>1. Max(old) \in old
        BY <1>3, <2>5, GreatestExists
      <4> QED
        BY <1>3, <2>5, <4>1
    <3> QED
      BY <2>2, <2>3, <3>1, <3>2, <3>3
  <2> QED
    BY <2>6, <2>7
<1> HIDE DEF Key
<1>6. status' \in {"reading", "read"} => FieldsSoFar'
  BY <1>5 DEF FieldsSoFar
<1> QED
  BY <1>3, <1>4, <1>6 DEF FieldInv

\* After a read that returned each field has what the last line of its key says, for
\* files of any length and any lines.
THEOREM FieldsAlwaysFromLastLine == Spec => []FieldsFromLastLine
<1>1. ASSUME file = <<>>, field = NewFields PROVE FieldInv
  <2>1. DOMAIN NewFields = Key /\ DOMAIN file = {}
    BY <1>1 DEF NewFields
  <2> QED
    BY <1>1, <2>1 DEF FieldInv, FieldsSoFar
<1>2. Init => FieldInv
  BY <1>1 DEF Init, ConfigInit
<1>3. ASSUME FieldInv, [Next]_vars PROVE FieldInv'
  <2>1. CASE ReadLine
    BY <1>3, <2>1, ReadLineFields
  <2>2. CASE ReadEnds
    BY <1>3, <2>2 DEF FieldInv, FieldsSoFar, ReadEnds
  <2>3. CASE UNCHANGED configVars
    BY <1>3, <2>3 DEF FieldInv, FieldsSoFar, configVars
  <2>4. CASE StartAgain
    <3>1. file' = <<>> /\ field' = NewFields
      BY <2>4 DEF StartAgain
    <3>2. DOMAIN field' = Key /\ DOMAIN file' = {} /\ file' \in Seq(Line)
      BY <3>1 DEF NewFields
    <3>3. FieldsSoFar'
      BY <3>1, <3>2 DEF FieldsSoFar
    <3> QED
      BY <3>2, <3>3 DEF FieldInv
  <2> QED
    BY <1>3, <2>1, <2>2, <2>3, <2>4 DEF Next, Read, SetLogLevel, SetOutputMode, vars
<1>4. FieldInv => FieldsFromLastLine
  BY DEF FieldInv, FieldsSoFar, FieldsFromLastLine
<1> QED
  BY <1>2, <1>3, <1>4, PTL DEF Spec
-----------------------------------------------------------------------------
(* The fields have their types.  The number of a text is computed digit by *)
(* digit; that it is one is shown for all prefixes of the digits.          *)

\* h is the number that the digits of t from start to last come to, up to each place.
Counts(t, start, last, h) ==
  h = [i \in start - 1 .. last |-> IF i < start THEN 0 ELSE 10 * h[i - 1] + Digit[t[i]]]

LEMMA CountsExist ==
  ASSUME NEW t, NEW start \in Int, NEW last \in Int, start - 1 <= last,
         \A i \in start .. last : t[i] \in DOMAIN Digit
  PROVE  \E h : Counts(t, start, last, h) /\ h[last] \in Nat
<1>1. \A i \in start .. last : Digit[t[i]] \in Nat
  <2>1. 0 .. 9 \subseteq Nat
    OBVIOUS
  <2> QED
    BY <2>1, DigitAssumption
<1> DEFINE S == {n \in Nat : start - 1 + n <= last =>
                   \E h : Counts(t, start, start - 1 + n, h) /\ h[start - 1 + n] \in Nat}
<1>2. 0 \in S
  <2>1. PICK h : h = [i \in start - 1 .. start - 1 |-> 0]
    OBVIOUS
  <2>2. start - 1 \in start - 1 .. start - 1 /\ start - 1 + 0 = start - 1
        /\ \A i \in start - 1 .. start - 1 : i < start
    OBVIOUS
  <2>3. h[start - 1] = 0
    BY <2>1, <2>2
  <2>4. h = [i \in start - 1 .. start - 1 |-> IF i < start THEN 0 ELSE 10 * h[i - 1] + Digit[t[i]]]
    BY <2>1, <2>2
  <2>5. Counts(t, start, start - 1 + 0, h) /\ h[start - 1 + 0] \in Nat
    BY <2>2, <2>3, <2>4 DEF Counts
  <2> QED
    BY <2>5
<1>3. ASSUME NEW n \in S PROVE n + 1 \in S
  <2> SUFFICES ASSUME start - 1 + (n + 1) <= last
               PROVE  \E h : Counts(t, start, start - 1 + (n + 1), h)
                             /\ h[start - 1 + (n + 1)] \in Nat
    OBVIOUS
  <2>1. PICK m \in Int : m = start - 1 + n /\ m + 1 = start - 1 + (n + 1) /\ m < last
                         /\ start - 1 <= m /\ m + 1 \in start .. last
    <3>1. start - 1 + n \in Int /\ (start - 1 + n) + 1 = start - 1 + (n + 1)
          /\ start - 1 + n < last /\ start - 1 <= start - 1 + n
          /\ (start - 1 + n) + 1 \in start .. last
      OBVIOUS
    <3> QED
      BY <3>1
  <2>2. PICK h : Counts(t, start, m, h) /\ h[m] \in Nat
    BY <2>1
  <2>3. PICK v : v = 10 * h[m] + Digit[t[m + 1]]
    OBVIOUS
  <2>4. v \in Nat
    BY <1>1, <2>1, <2>2, <2>3
  <2>5. PICK g : g = [i \in start - 1 .. m + 1 |-> IF i = m + 1 THEN v ELSE h[i]]
    OBVIOUS
  <2>6. m + 1 \in start - 1 .. m + 1 /\ ~(m + 1 < start) /\ m \in start - 1 .. m + 1
        /\ m + 1 - 1 = m /\ m # m + 1
    BY <2>1
  <2>7. g[m + 1] = v /\ g[m] = h[m]
    BY <2>5, <2>6
  <2>8. ASSUME NEW i \in start - 1 .. m + 1
        PROVE  g[i] = IF i < start THEN 0 ELSE 10 * g[i - 1] + Digit[t[i]]
    <3>1. CASE i = m + 1
      BY <2>3, <2>6, <2>7, <3>1
    <3>2. CASE i # m + 1
      <4>1. i \in start - 1 .. m
        BY <2>1, <3>2
      <4>2. h[i] = IF i < start THEN 0 ELSE 10 * h[i - 1] + Digit[t[i]]
        BY <2>2, <4>1 DEF Counts
      <4>3. g[i] = h[i]
        BY <2>5, <3>2
      <4>4. ~(i < start) => g[i - 1] = h[i - 1]
        <5> SUFFICES ASSUME ~(i < start) PROVE g[i - 1] = h[i - 1]
          OBVIOUS
        <5>1. i - 1 \in start - 1 .. m + 1 /\ i - 1 # m + 1
          BY <2>1, <4>1
        <5> QED
          BY <2>5, <5>1
      <4> QED
        BY <4>2, <4>3, <4>4
    <3> QED
      BY <3>1, <3>2
  <2>9. g = [i \in start - 1 .. m + 1 |-> IF i < start THEN 0 ELSE 10 * g[i - 1] + Digit[t[i]]]
    BY <2>5, <2>8
  <2>10. Counts(t, start, m + 1, g) /\ g[m + 1] \in Nat
    BY <2>4, <2>7, <2>9 DEF Counts
  <2> QED
    BY <2>1, <2>10
<1>4. last - (start - 1) \in S
  <2> HIDE DEF S
  <2>1. S \in SUBSET Nat
    BY DEF S
  <2>2. S = Nat
    BY <1>2, <1>3, <2>1, AllNumbers
  <2> QED
    BY <2>2
<1>5. start - 1 + (last - (start - 1)) = last
  OBVIOUS
<1> QED
  BY <1>4, <1>5

\* Nor is there more than one.
LEMMA CountsOnce ==
  ASSUME NEW t, NEW start \in Int, NEW last \in Int, start - 1 <= last,
         NEW g, NEW h, Counts(t, start, last, g), Counts(t, start, last, h)
  PROVE  g[last] = h[last]
<1> DEFINE S == {n \in Nat : start - 1 + n <= last => g[start - 1 + n] = h[start - 1 + n]}
<1>1. ASSUME NEW i \in start - 1 .. last
      PROVE  /\ g[i] = IF i < start THEN 0 ELSE 10 * g[i - 1] + Digit[t[i]]
             /\ h[i] = IF i < start THEN 0 ELSE 10 * h[i - 1] + Digit[t[i]]
  BY DEF Counts
<1>2. 0 \in S
  <2>1. start - 1 \in start - 1 .. last /\ start - 1 < start /\ start - 1 + 0 = start - 1
    OBVIOUS
  <2> QED
    BY <1>1, <2>1
<1>3. ASSUME NEW n \in S PROVE n + 1 \in S
  <2> SUFFICES ASSUME start - 1 + (n + 1) <= last
               PROVE  g[start - 1 + (n + 1)] = h[start - 1 + (n + 1)]
    OBVIOUS
  <2>1. PICK m \in Int : m = start - 1 + n
    OBVIOUS
  <2>2. /\ m <= last /\ m + 1 = start - 1 + (n + 1) /\ m + 1 \in start - 1 .. last
        /\ ~(m + 1 < start) /\ m + 1 - 1 = m
    BY <2>1
  <2>3. g[m] = h[m]
    BY <2>1, <2>2
  <2>4. g[m + 1] = 10 * g[m + 1 - 1] + Digit[t[m + 1]] /\ h[m + 1] = 10 * h[m + 1 - 1] + Digit[t[m + 1]]
    BY <1>1, <2>2
  <2> QED
    BY <2>2, <2>3, <2>4
<1>4. last - (start - 1) \in S
  <2> HIDE DEF S
  <2>1. S \in SUBSET Nat
    BY DEF S
  <2>2. S = Nat
    BY <1>2, <1>3, <2>1, AllNumbers
  <2> QED
    BY <2>2
<1>5. start - 1 + (last - (start - 1)) = last
  OBVIOUS
<1> QED
  BY <1>4, <1>5

\* What stoi gives is an integer.
LEMMA IntOfIsInt ==
  ASSUME NEW C, NEW t \in Seq(C)
  PROVE  IntOf(t).value \in Int
<1>1. PICK start \in 1 .. 2 : start = IF t # <<>> /\ t[1] \in {"-", "+"} THEN 2 ELSE 1
  OBVIOUS
<1>2. PICK stops : stops = {i \in start .. Len(t) : t[i] \notin DOMAIN Digit} \cup {Len(t) + 1}
  OBVIOUS
<1>3. Len(t) \in Nat /\ start <= Len(t) + 1
  BY <1>1
<1>4. Min(stops) \in stops /\ \A i \in stops : Min(stops) <= i
  <2>1. stops \in SUBSET Nat /\ stops # {}
    BY <1>2, <1>3
  <2> QED
    BY <2>1, LeastExists
<1>5. PICK last \in Int : last = Min(stops) - 1 /\ start - 1 <= last /\ last <= Len(t)
  <2>1. PICK x \in start .. Len(t) + 1 : x = Min(stops)
    <3>1. start .. Len(t) \subseteq start .. Len(t) + 1 /\ Len(t) + 1 \in start .. Len(t) + 1
      BY <1>3
    <3>2. stops \subseteq start .. Len(t) + 1
      BY <1>2, <3>1
    <3> QED
      BY <1>4, <3>2
  <2>2. x - 1 \in Int /\ start - 1 <= x - 1 /\ x - 1 <= Len(t)
    BY <1>3
  <2> QED
    BY <2>1, <2>2
<1>6. ASSUME NEW i \in start .. last PROVE t[i] \in DOMAIN Digit
  <2>1. i \in start .. Len(t) /\ ~(Min(stops) <= i)
    BY <1>2, <1>3, <1>4, <1>5
  <2> QED
    BY <1>2, <1>4, <2>1
<1>7. PICK number : number = CHOOSE h : Counts(t, start, last, h)
  OBVIOUS
<1>8. PICK h : Counts(t, start, last, h) /\ h[last] \in Nat
  <2>1. start \in Int /\ \A i \in start .. last : t[i] \in DOMAIN Digit
    BY <1>6
  <2> QED
    BY <1>5, <2>1, CountsExist
<1>9. Counts(t, start, last, number)
  BY <1>7, <1>8
<1>10. number[last] \in Nat
  BY <1>5, <1>8, <1>9, CountsOnce
<1>11. IntOf(t).value = -number[last] \/ IntOf(t).value = number[last]
  BY <1>1, <1>2, <1>5, <1>7 DEF IntOf, Counts
<1> QED
  BY <1>10, <1>11

LEMMA NewFieldTypes ==
  /\ DOMAIN NewFields = Key /\ <<>> \in Seq(Line) /\ Len(<<>>) <= MaxLines
  /\ \A k \in NumberKey : NewFields[k] = Unset
  /\ NewFields["LogLevel"] = Unset /\ NewFields["LogMode"] = Unset
BY WidthAssumption DEF NewFields, Key, NumberKey, PathKey

\* What a line stores has the type of the field it is stored in.
LEMMA StoredTypes ==
  ASSUME NEW s \in Line, Reading[s].does = "sets"
  PROVE  LET k == Reading[s].key
             v == Reading[s].stores
         IN  /\ k \in NumberKey => v \in 0 .. FieldWidth[k] - 1
             /\ k = "LogLevel" => v \in Level \cup {"Unknown"}
             /\ k = "LogMode" => v \in Mode \cup {"Unknown"}
<1>1. PICK k, v : k = Reading[s].key /\ v = Reading[s].stores
  OBVIOUS
<1>2. PICK C : s \in Seq(C)
  BY LineAssumption
<1>3. k \in Key /\ v \in Meant[k][s] /\ s \in LinesOf[k]
  BY <1>1, ReadingMeans
<1>4. PICK t \in Substrings(Behind(s)) : v = Stored(k, t)
  BY <1>3, Zenon DEF Meant
<1>5. PICK D : t \in Seq(D)
  <2>1. PICK x : x = Behind(s)
    OBVIOUS
  <2>2. x \in Seq(C)
    <3>1. CASE Colons(s) = {}
      <4>1. Behind(s) = s
        BY <1>2, <3>1, FirstColonIs DEF Behind
      <4> QED
        BY <1>2, <2>1, <4>1
    <3>2. CASE Colons(s) # {}
      <4>1. PICK c \in 1 .. Len(s) : ":" \in Range(s) /\ FirstColon(s) = c
        BY <1>2, <3>2, FirstColonIs
      <4>2. x = SubSeq(s, c + 1, Len(s))
        BY <2>1, <4>1 DEF Behind
      <4>3. \A i \in c + 1 .. Len(s) : s[i] \in C
        BY <1>2
      <4> QED
        BY <1>2, <4>2, <4>3, SubSeqProperties
    <3> QED
      BY <3>1, <3>2
  <2>3. t = <<>> \/ \E a, b \in DOMAIN x : t = SubSeq(x, a, b)
    BY <2>1 DEF Substrings
  <2>4. ASSUME NEW a \in DOMAIN x, NEW b \in DOMAIN x, t = SubSeq(x, a, b) PROVE t \in Seq(C)
    <3>1. a \in Int /\ b \in Int /\ \A i \in a .. b : x[i] \in C
      BY <2>2
    <3> QED
      BY <2>4, <3>1, SubSeqProperties
  <2>5. t = <<>> => t \in Seq(C)
    OBVIOUS
  <2>6. t \in Seq(C)
    BY <2>3, <2>4, <2>5
  <2> QED
    BY <2>6
<1>6. k \in NumberKey => v \in 0 .. FieldWidth[k] - 1
  <2> SUFFICES ASSUME k \in NumberKey PROVE v \in 0 .. FieldWidth[k] - 1
    OBVIOUS
  <2>1. v # Threw
    BY <1>1, ReadingMeans
  <2>2. v = Narrowed(k, IntOf(t).value)
    BY <1>4, <2>1 DEF Stored, NumberKey, PathKey
  <2>3. IntOf(t).value \in Int /\ FieldWidth[k] \in Nat \ {0}
    BY <1>5, IntOfIsInt, WidthAssumption
  <2>4. PICK number \in Int, width \in Nat \ {0} : v = number % width /\ width = FieldWidth[k]
    BY <2>2, <2>3 DEF Narrowed
  <2>5. v \in 0 .. width - 1
    BY <2>4
  <2> QED
    BY <2>4, <2>5
<1>7. k = "LogLevel" => v \in Level \cup {"Unknown"}
  BY <1>4 DEF Stored, ParsedLevel, NameOf, NumberKey, PathKey
<1>8. k = "LogMode" => v \in Mode \cup {"Unknown"}
  BY <1>4 DEF Stored, ParsedMode, NameOf, NumberKey, PathKey
<1> QED
  BY <1>1, <1>6, <1>7, <1>8

FieldTypes ==
  /\ DOMAIN field = Key
  /\ Len(file) <= MaxLines /\ file \in Seq(Line)
  /\ status \in {"reading", "read", "threw", "undefined"}
  /\ \A k \in NumberKey : field[k] = Unset \/ field[k] \in 0 .. FieldWidth[k] - 1
  /\ field["LogLevel"] \in Level \cup {"Unknown", Unset}
  /\ field["LogMode"] \in Mode \cup {"Unknown", Unset}

\* Every step keeps the types of the fields.
LEMMA NextFieldTypes == FieldTypes /\ [Next]_vars => FieldTypes'
<1> SUFFICES ASSUME FieldTypes, [Next]_vars PROVE FieldTypes'
  OBVIOUS
<1>1. CASE UNCHANGED configVars
  BY <1>1 DEF configVars, FieldTypes
<1>2. CASE ReadLine
  <2>1. PICK s \in Line :
          /\ file' = Append(file, s)
          /\ field' = IF Reading[s].does # "sets" THEN field
                      ELSE [field EXCEPT ![Reading[s].key] = Reading[s].stores]
          /\ status' = IF Reading[s].does = "throws" THEN "threw"
                       ELSE IF Reading[s].does = "undefined" THEN "undefined" ELSE status
          /\ Len(file) < MaxLines
    BY <1>2 DEF ReadLine, Later
  <2>2. Len(file') <= MaxLines /\ file' \in Seq(Line)
    BY <2>1, WidthAssumption DEF FieldTypes
  <2>3. status' \in {"reading", "read", "threw", "undefined"}
    BY <2>1 DEF FieldTypes
  <2>4. CASE Reading[s].does # "sets"
    BY <2>1, <2>2, <2>3, <2>4 DEF FieldTypes
  <2>5. CASE Reading[s].does = "sets"
    <3>1. PICK k, v : k = Reading[s].key /\ v = Reading[s].stores
      OBVIOUS
    <3>2. /\ k \in NumberKey => v \in 0 .. FieldWidth[k] - 1
          /\ k = "LogLevel" => v \in Level \cup {"Unknown"}
          /\ k = "LogMode" => v \in Mode \cup {"Unknown"}
      BY <2>5, <3>1, StoredTypes
    <3>3. DOMAIN field = Key /\ field' = [field EXCEPT ![k] = v]
      BY <2>1, <2>5, <3>1 DEF FieldTypes
    <3>4. DOMAIN field' = Key /\ \A j \in Key : field'[j] = IF j = k THEN v ELSE field[j]
      BY <3>3
    <3>5. NumberKey \subseteq Key /\ "LogLevel" \in Key /\ "LogMode" \in Key
      BY DEF Key
    <3>6. \A j \in NumberKey : field'[j] = Unset \/ field'[j] \in 0 .. FieldWidth[j] - 1
      BY <3>2, <3>4, <3>5 DEF FieldTypes
    <3>7. /\ field'["LogLevel"] \in Level \cup {"Unknown", Unset}
          /\ field'["LogMode"] \in Mode \cup {"Unknown", Unset}
      BY <3>2, <3>4, <3>5 DEF FieldTypes
    <3> QED
      BY <2>2, <2>3, <3>4, <3>6, <3>7 DEF FieldTypes
  <2> QED
    BY <2>4, <2>5
<1>3. CASE ReadEnds
  BY <1>3 DEF ReadEnds, FieldTypes
<1>4. CASE StartAgain
  <2>1. file' = <<>> /\ field' = NewFields /\ status' = "reading"
    BY <1>4 DEF StartAgain
  <2> QED
    BY <2>1, NewFieldTypes DEF FieldTypes
<1> QED
  BY <1>1, <1>2, <1>3, <1>4 DEF Next, Read, SetLogLevel, SetOutputMode, vars

\* The state of a start keeps its types for any files and any number of starts.
THEOREM StartupTypes == Spec => []TypeOK
<1> DEFINE Rest == /\ step \in {"config", "level", "output", "running", "threw"}
                   /\ m_logLevel \in Level \cup {"Garbage"} /\ starts \in 1 .. MaxStarts
<1>1. Init => FieldTypes /\ Rest
  BY NewFieldTypes, WidthAssumption, StartsAssumption DEF Init, ConfigInit, FieldTypes, Level
<1>2. ASSUME FieldTypes, Rest, [Next]_vars PROVE Rest'
  <2>1. CASE UNCHANGED <<logger, starts>> /\ step' = step
    BY <1>2, <2>1 DEF logger
  <2>2. CASE Read
    BY <1>2, <2>2 DEF Read, logger
  <2>3. CASE SetLogLevel
    <3>1. PICK level \in Valued(field["LogLevel"], Level) :
            m_logLevel' = IF level = "Unknown" THEN m_logLevel ELSE level
      BY <2>3 DEF SetLogLevel
    <3>2. level \in Level \cup {"Unknown", "Garbage"}
      BY <1>2, <3>1 DEF Valued, FieldTypes
    <3> QED
      BY <1>2, <2>3, <3>1, <3>2 DEF SetLogLevel
  <2>4. CASE SetOutputMode
    BY <1>2, <2>4 DEF SetOutputMode
  <2>5. CASE StartAgain
    BY <1>2, <2>5, StartsAssumption DEF StartAgain, logger
  <2> QED
    BY <1>2, <2>1, <2>2, <2>3, <2>4, <2>5 DEF Next, vars
<1>3. FieldTypes /\ Rest /\ OutputOK => TypeOK
  BY DEF FieldTypes, OutputOK, TypeOK
<1> QED
  BY <1>1, <1>2, <1>3, NextFieldTypes, OutputOKAlways, PTL DEF Spec
=============================================================================
