------------------------------ MODULE Queue_proofs ------------------------------
(***************************************************************************)
(* Proofs about Queue: the list is whole and implements the abstract       *)
(* queue, for any number of nodes and data.                                *)
(***************************************************************************)
EXTENDS Queue, SequenceTheorems, FiniteSetTheorems, FunctionTheorems, WellFoundedInduction,
        TLAPS

\* c is the list: its nodes are the allocated ones, each linked to the next, the ends
\* are where the members point, and its data are those the queue still has to delete.
Holds(c) ==
  /\ \A i, j \in 1 .. Len(c) : c[i] = c[j] => i = j
  /\ DOMAIN live = {c[i] : i \in 1 .. Len(c)}
  /\ \A i \in 1 .. Len(c) : live[c[i]].next = IF i = Len(c) THEN Null ELSE c[i + 1]
  /\ \A i, j \in 1 .. Len(c) : live[c[i]].data = live[c[j]].data => i = j
  /\ data = {live[c[i]].data : i \in 1 .. Len(c)}
  /\ IF c = <<>> THEN m_first = Null /\ m_last = Null
                 ELSE m_first = c[1] /\ m_last = c[Len(c)]
  /\ m_size = Len(c)

QueueInv == Chain \in Seq(Node) /\ Holds(Chain)

ChainRule == \A c \in Seq(Node) : Holds(c) => Chain = c

\* A set of natural numbers with 0 and every successor is all of them.
LEMMA AllNumbers ==
  ASSUME NEW S \in SUBSET Nat, 0 \in S, \A n \in S : n + 1 \in S
  PROVE  S = Nat
<1> SUFFICES ASSUME S # Nat PROVE FALSE
  OBVIOUS
<1> DEFINE less == {ss \in Nat \X Nat : ss[1] < ss[2]}
<1>1. IsWellFoundedOn(less, Nat)
  BY NatLessThanWellFounded DEF OpToRel
<1>2. PICK x \in Nat \ S : \A y \in Nat \ S : <<y, x>> \notin less
  BY <1>1, WFMin
<1>3. x - 1 \in S
  <2>1. x \in Nat \ {0} /\ x - 1 \in Nat /\ x - 1 < x
    BY <1>2
  <2>2. <<x - 1, x>> \in Nat \X Nat /\ <<x - 1, x>>[1] = x - 1 /\ <<x - 1, x>>[2] = x
    BY <2>1
  <2> QED
    BY <1>2, <2>1, <2>2
<1>4. (x - 1) + 1 = x
  BY <1>2
<1> QED
  BY <1>2, <1>3, <1>4

\* What the destructor finds from each node on.
Found(h) == h = [n \in Node \cup {Null} |->
                   IF n \in DOMAIN live THEN <<n>> \o h[live[n].next] ELSE <<>>]

\* From the i-th node of the list on it finds the rest of the list.
LEMMA FoundExists ==
  ASSUME NEW c \in Seq(Node), Holds(c)
  PROVE  \E h : Found(h)
<1> DEFINE place(n) == CHOOSE i \in 1 .. Len(c) : c[i] = n
           g == [n \in Node \cup {Null} |->
                   IF n \in DOMAIN live THEN SubSeq(c, place(n), Len(c)) ELSE <<>>]
<1>1. /\ Len(c) \in Nat /\ DOMAIN live = {c[i] : i \in 1 .. Len(c)}
      /\ \A i \in 1 .. Len(c) : c[i] \in Node
      /\ \A i \in 1 .. Len(c) : live[c[i]].next = IF i = Len(c) THEN Null ELSE c[i + 1]
  BY DEF Holds
<1>2. \A i \in 1 .. Len(c) : g[c[i]] = SubSeq(c, i, Len(c))
  <2> TAKE i \in 1 .. Len(c)
  <2>1. place(c[i]) = i
    BY DEF Holds
  <2> QED
    BY <1>1, <2>1
<1>3. g[Null] = <<>>
  BY <1>1, NullAssumption
<1>4. \A n \in Node \cup {Null} : n \notin DOMAIN live => g[n] = <<>>
  OBVIOUS
<1>5. DOMAIN g = Node \cup {Null} /\ g = [n \in Node \cup {Null} |-> g[n]]
  OBVIOUS
<1> HIDE DEF g
<1>6. ASSUME NEW n \in Node \cup {Null}
      PROVE  g[n] = IF n \in DOMAIN live THEN <<n>> \o g[live[n].next] ELSE <<>>
  <2>1. ASSUME NEW i \in 1 .. Len(c), n = c[i] PROVE g[n] = <<n>> \o g[live[n].next]
    <3>1. SubSeq(c, i, Len(c)) = <<c[i]>> \o SubSeq(c, i + 1, Len(c))
      <4>1. Len(c) \in i .. Len(c)
        BY <1>1
      <4> QED
        BY <1>1, <4>1, SubSeqRecursiveFirst
    <3>2. g[live[n].next] = SubSeq(c, i + 1, Len(c))
      <4>1. CASE i = Len(c)
        <5>1. live[n].next = Null
          BY <1>1, <2>1, <4>1
        <5>2. SubSeq(c, i + 1, Len(c)) = <<>>
          BY <1>1, <4>1, SubSeqEmpty
        <5> QED
          BY <1>3, <5>1, <5>2
      <4>2. CASE i # Len(c)
        <5>1. i + 1 \in 1 .. Len(c) /\ live[n].next = c[i + 1]
          BY <1>1, <2>1, <4>2
        <5> QED
          BY <1>2, <5>1
      <4> QED
        BY <4>1, <4>2
    <3> QED
      BY <1>2, <2>1, <3>1, <3>2
  <2> QED
    BY <1>1, <1>4, <2>1
<1>7. Found(g)
  BY <1>5, <1>6 DEF Found
<1> QED
  BY <1>7

LEMMA FoundIs ==
  ASSUME NEW c \in Seq(Node), Holds(c), NEW f, Found(f)
  PROVE  f[Null] = <<>> /\ \A i \in 1 .. Len(c) : f[c[i]] = SubSeq(c, i, Len(c))
<1>1. /\ Len(c) \in Nat /\ DOMAIN live = {c[i] : i \in 1 .. Len(c)}
      /\ \A i \in 1 .. Len(c) : c[i] \in Node
      /\ \A i \in 1 .. Len(c) : live[c[i]].next = IF i = Len(c) THEN Null ELSE c[i + 1]
  BY DEF Holds
<1>2. f[Null] = <<>>
  BY <1>1, NullAssumption DEF Found
<1>3. \A i \in 1 .. Len(c) : f[c[i]] = <<c[i]>> \o f[live[c[i]].next]
  BY <1>1 DEF Found
<1>4. ASSUME NEW i \in 1 .. Len(c),
             i < Len(c) => f[c[i + 1]] = SubSeq(c, i + 1, Len(c))
      PROVE  f[c[i]] = SubSeq(c, i, Len(c))
  <2>1. f[live[c[i]].next] = SubSeq(c, i + 1, Len(c))
    <3>1. CASE i = Len(c)
      <4>1. live[c[i]].next = Null
        BY <1>1, <3>1
      <4>2. SubSeq(c, i + 1, Len(c)) = <<>>
        BY <1>1, <3>1, SubSeqEmpty
      <4> QED
        BY <1>2, <4>1, <4>2
    <3>2. CASE i # Len(c)
      <4>1. i < Len(c) /\ live[c[i]].next = c[i + 1]
        BY <1>1, <3>2
      <4> QED
        BY <1>4, <4>1
    <3> QED
      BY <3>1, <3>2
  <2>2. Len(c) \in i .. Len(c)
    BY <1>1
  <2> QED
    BY <1>1, <1>3, <2>1, <2>2, SubSeqRecursiveFirst
<1> DEFINE S == {m \in Nat : m < Len(c) => f[c[Len(c) - m]] = SubSeq(c, Len(c) - m, Len(c))}
<1>5. 0 \in S
  <2>1. CASE Len(c) = 0
    BY <2>1
  <2>2. CASE Len(c) # 0
    <3>1. Len(c) \in 1 .. Len(c) /\ Len(c) - 0 = Len(c) /\ ~(Len(c) < Len(c))
      BY <1>1, <2>2
    <3> QED
      BY <1>4, <3>1
  <2> QED
    BY <2>1, <2>2
<1>6. ASSUME NEW m \in S PROVE m + 1 \in S
  <2> SUFFICES ASSUME m + 1 < Len(c)
               PROVE  f[c[Len(c) - (m + 1)]] = SubSeq(c, Len(c) - (m + 1), Len(c))
    OBVIOUS
  <2>1. Len(c) - (m + 1) \in 1 .. Len(c) /\ (Len(c) - (m + 1)) + 1 = Len(c) - m /\ m < Len(c)
    BY <1>1
  <2>2. f[c[Len(c) - m]] = SubSeq(c, Len(c) - m, Len(c))
    BY <2>1
  <2> QED
    BY <1>4, <2>1, <2>2
<1>7. S = Nat
  <2> HIDE DEF S
  <2>1. S \in SUBSET Nat
    BY DEF S
  <2> QED
    BY <1>5, <1>6, <2>1, AllNumbers
<1>8. \A i \in 1 .. Len(c) : f[c[i]] = SubSeq(c, i, Len(c))
  <2> TAKE i \in 1 .. Len(c)
  <2>1. Len(c) - i \in Nat /\ Len(c) - i < Len(c) /\ Len(c) - (Len(c) - i) = i
    BY <1>1
  <2>2. Len(c) - i \in S
    <3> HIDE DEF S
    <3> QED
      BY <1>7, <2>1
  <2> QED
    BY <2>1, <2>2
<1> QED
  BY <1>2, <1>8

\* The list is what the destructor walks through.
LEMMA ChainIs == ChainRule
<1> SUFFICES ASSUME NEW c \in Seq(Node), Holds(c) PROVE Chain = c
  BY DEF ChainRule
<1> DEFINE follow[n \in Node \cup {Null}] ==
             IF n \in DOMAIN live THEN <<n>> \o follow[live[n].next] ELSE <<>>
<1>1. Chain = follow[m_first]
  BY Zenon DEF Chain
<1>2. follow = CHOOSE h : Found(h)
  BY Zenon DEF Found
<1> HIDE DEF follow
<1>3. Found(follow)
  BY <1>2, FoundExists
<1>4. CASE c = <<>>
  <2>1. m_first = Null
    BY <1>4 DEF Holds
  <2> QED
    BY <1>1, <1>3, <1>4, <2>1, FoundIs
<1>5. CASE c # <<>>
  <2>1. m_first = c[1] /\ 1 \in 1 .. Len(c)
    BY <1>5 DEF Holds
  <2>2. Chain = SubSeq(c, 1, Len(c))
    BY <1>1, <1>3, <2>1, FoundIs
  <2> QED
    BY <2>2, SubSeqFull
<1> QED
  BY <1>4, <1>5

\* The queue starts with the empty list.
LEMMA InitHolds == Init => Holds(<<>>)
  BY DEF Init, Holds

\* enqueue puts its node behind the last.
LEMMA EnqueueHolds ==
  ASSUME NEW c \in Seq(Node), Holds(c), NEW d, d \notin data, NEW n \in Node \ DOMAIN live,
         live' = [m \in DOMAIN live \cup {n} |->
                     IF m = n THEN NewNode(d)
                     ELSE IF m_first # Null /\ m = m_last THEN [live[m] EXCEPT !.next = n]
                     ELSE live[m]],
         m_first' = IF m_first = Null THEN n ELSE m_first,
         m_last' = n, m_size' = m_size + 1, data' = data \cup {d}
  PROVE  /\ Holds(Append(c, n))'
         /\ \A i \in 1 .. Len(c) : live'[c[i]].data = live[c[i]].data
         /\ live'[n].data = d
<1> DEFINE e == Append(c, n)
<1>1. /\ Len(c) \in Nat /\ e \in Seq(Node) /\ Len(e) = Len(c) + 1 /\ e # <<>>
      /\ \A i \in 1 .. Len(e) : e[i] = IF i = Len(c) + 1 THEN n ELSE c[i]
      /\ \A i \in 1 .. Len(e) : i # Len(e) => i \in 1 .. Len(c)
      /\ Len(e) \in 1 .. Len(e) /\ \A i \in 1 .. Len(c) : i \in 1 .. Len(e) /\ e[i] = c[i]
  BY AppendProperties
<1> HIDE DEF e
<1>2. \A i \in 1 .. Len(c) : c[i] \in DOMAIN live /\ c[i] # n /\ c[i] \in Node
  BY DEF Holds
<1>3. m_first # Null <=> c # <<>>
  BY <1>1, <1>2, NullAssumption DEF Holds
<1>4. live'[n].data = d /\ live'[n].next = Null /\ n \in DOMAIN live'
  BY DEF NewNode
<1>5. \A i \in 1 .. Len(c) : /\ live'[c[i]].data = live[c[i]].data /\ c[i] \in DOMAIN live'
                             /\ live'[c[i]].next = IF i = Len(c) THEN n ELSE c[i + 1]
  BY <1>1, <1>2, <1>3 DEF Holds
<1>6. DOMAIN live' = {e[i] : i \in 1 .. Len(e)}
  BY <1>1 DEF Holds
<1>7. \A i, j \in 1 .. Len(e) : e[i] = e[j] => i = j
  BY <1>1, <1>2 DEF Holds
<1>8. \A i \in 1 .. Len(e) : live'[e[i]].next = IF i = Len(e) THEN Null ELSE e[i + 1]
  <2> TAKE i \in 1 .. Len(e)
  <2>1. CASE i = Len(e)
    BY <1>1, <1>4, <2>1
  <2>2. CASE i # Len(e)
    <3>1. /\ i \in 1 .. Len(c) /\ e[i] = c[i] /\ i + 1 \in 1 .. Len(e)
          /\ e[i + 1] = IF i = Len(c) THEN n ELSE c[i + 1]
      BY <1>1, <2>2
    <3> QED
      BY <1>5, <2>2, <3>1
  <2> QED
    BY <2>1, <2>2
<1>9. \A i \in 1 .. Len(e) : live'[e[i]].data = IF i = Len(e) THEN d ELSE live[c[i]].data
  <2> TAKE i \in 1 .. Len(e)
  <2>1. CASE i = Len(e)
    <3>1. e[i] = n
      BY <1>1, <2>1
    <3> QED
      BY <1>4, <2>1, <3>1
  <2>2. CASE i # Len(e)
    <3>1. i \in 1 .. Len(c)
      BY <1>1, <2>2
    <3>2. e[i] = c[i]
      BY <1>1, <3>1
    <3> QED
      BY <1>5, <2>2, <3>1, <3>2
  <2> QED
    BY <2>1, <2>2
<1>10. \A i, j \in 1 .. Len(e) : live'[e[i]].data = live'[e[j]].data => i = j
  <2>1. \A i \in 1 .. Len(c) : live[c[i]].data # d
    BY DEF Holds
  <2>2. \A i \in 1 .. Len(e) : i # Len(e) => i \in 1 .. Len(c)
    BY <1>1
  <2>3. \A i \in 1 .. Len(e) : i # Len(e) => live'[e[i]].data = live[c[i]].data /\ i \in 1 .. Len(c)
    BY <1>9, <2>2
  <2>6. \A i \in 1 .. Len(e) : live'[e[i]].data = d => i = Len(e)
    BY <2>1, <2>3
  <2> TAKE i, j \in 1 .. Len(e)
  <2>4. CASE i = Len(e) \/ j = Len(e)
    BY <1>9, <2>6, <2>4
  <2>5. CASE i # Len(e) /\ j # Len(e)
    BY <2>3, <2>5 DEF Holds
  <2> QED
    BY <2>4, <2>5
<1>11. data' = {live'[e[i]].data : i \in 1 .. Len(e)}
  <2>1. data = {live[c[i]].data : i \in 1 .. Len(c)}
    BY DEF Holds
  <2>2. \A i \in 1 .. Len(c) : live'[e[i]].data = live[c[i]].data /\ i \in 1 .. Len(e)
    BY <1>1, <1>5
  <2>3. live'[e[Len(e)]].data = d /\ Len(e) \in 1 .. Len(e)
    BY <1>1, <1>9
  <2>4. \A i \in 1 .. Len(e) : i # Len(e) => i \in 1 .. Len(c)
    BY <1>1
  <2>5. data' \subseteq {live'[e[i]].data : i \in 1 .. Len(e)}
    BY <2>1, <2>2, <2>3
  <2>6. {live'[e[i]].data : i \in 1 .. Len(e)} \subseteq data'
    BY <2>1, <2>2, <2>3, <2>4
  <2> QED
    BY <2>5, <2>6
<1>12. m_first' = e[1] /\ m_last' = e[Len(e)]
  BY <1>1, <1>2, <1>3, NullAssumption DEF Holds
<1>13. m_size' = Len(e)
  BY <1>1 DEF Holds
<1> QED
  BY <1>1, <1>4, <1>5, <1>6, <1>7, <1>8, <1>10, <1>11, <1>12, <1>13 DEF Holds, e

\* dequeue takes the first node away, and the tail pointer with the last one.
LEMMA DequeueHolds ==
  ASSUME NEW c \in Seq(Node), Holds(c), Dequeue
  PROVE  /\ c # <<>> /\ Tail(c) \in Seq(Node) /\ Holds(Tail(c))' /\ ret' = live[c[1]].data
         /\ data' = data \ {ret'}
         /\ \A i \in 1 .. Len(c) - 1 : live'[Tail(c)[i]].data = live[c[i + 1]].data
<1> PICK e : e = Tail(c)
  OBVIOUS
<1>1. Len(c) \in Nat \ {0} /\ c # <<>>
  BY DEF Holds, Dequeue
<1>2. /\ e \in Seq(Node) /\ Len(e) = Len(c) - 1 /\ (e = <<>> <=> Len(c) = 1)
      /\ \A i \in 1 .. Len(e) : e[i] = c[i + 1]
  <2>1. e \in Seq(Node) /\ Len(e) = Len(c) - 1 /\ \A i \in 1 .. Len(e) : e[i] = c[i + 1]
    BY <1>1
  <2>2. e = <<>> <=> Len(e) = 0
    BY <2>1
  <2> QED
    BY <1>1, <2>1, <2>2
<1>3. /\ \A i \in 1 .. Len(e) : i + 1 \in 1 .. Len(c) /\ i + 1 # 1 /\ i + 1 # 1 + 0
      /\ \A j \in 1 .. Len(c) : j # 1 => j - 1 \in 1 .. Len(e) /\ (j - 1) + 1 = j
      /\ 1 \in 1 .. Len(c) /\ Len(c) \in 1 .. Len(c)
  BY <1>1, <1>2
<1>4. m_first = c[1] /\ m_last = c[Len(c)] /\ (m_first = m_last <=> Len(c) = 1)
  BY <1>1, <1>3 DEF Holds
<1>5. DOMAIN live' = {e[i] : i \in 1 .. Len(e)}
  <2>1. DOMAIN live' = DOMAIN live \ {c[1]}
    BY <1>4 DEF Dequeue
  <2>2. DOMAIN live' \subseteq {e[i] : i \in 1 .. Len(e)}
    <3> SUFFICES ASSUME NEW n \in DOMAIN live, n # c[1]
                 PROVE  \E i \in 1 .. Len(e) : e[i] = n
      BY <2>1
    <3> PICK j \in 1 .. Len(c) : c[j] = n
      BY DEF Holds
    <3>1. j - 1 \in 1 .. Len(e) /\ e[j - 1] = c[j]
      BY <1>2, <1>3
    <3> QED
      BY <3>1
  <2>3. \A i \in 1 .. Len(e) : e[i] \in DOMAIN live /\ e[i] # c[1]
    BY <1>2, <1>3 DEF Holds
  <2> QED
    BY <2>1, <2>2, <2>3
<1>6. \A i \in 1 .. Len(e) : e[i] = c[i + 1] /\ live'[e[i]] = live[c[i + 1]]
  BY <1>2, <1>5 DEF Dequeue
<1>7. /\ \A i, j \in 1 .. Len(e) : e[i] = e[j] => i = j
      /\ \A i, j \in 1 .. Len(e) : live'[e[i]].data = live'[e[j]].data => i = j
  <2> SUFFICES ASSUME NEW i \in 1 .. Len(e), NEW j \in 1 .. Len(e)
               PROVE  /\ e[i] = e[j] => i = j
                      /\ live'[e[i]].data = live'[e[j]].data => i = j
    OBVIOUS
  <2>1. i + 1 \in 1 .. Len(c) /\ j + 1 \in 1 .. Len(c) /\ (i + 1 = j + 1 => i = j)
    BY <1>3
  <2>2. /\ c[i + 1] = c[j + 1] => i + 1 = j + 1
        /\ live[c[i + 1]].data = live[c[j + 1]].data => i + 1 = j + 1
    BY <2>1 DEF Holds
  <2> QED
    BY <1>6, <2>1, <2>2
<1>8. \A i \in 1 .. Len(e) : live'[e[i]].next = IF i = Len(e) THEN Null ELSE e[i + 1]
  <2> TAKE i \in 1 .. Len(e)
  <2>1. i + 1 \in 1 .. Len(c) /\ (i + 1 = Len(c) <=> i = Len(e))
    BY <1>1, <1>2, <1>3
  <2>3. i # Len(e) => i + 1 \in 1 .. Len(e)
    <3>1. Len(e) \in Nat
      BY <1>2
    <3> QED
      BY <3>1
  <2>4. \A j \in 1 .. Len(e) : e[j] = c[j + 1]
    BY <1>2
  <2>2. live'[e[i]].next = IF i + 1 = Len(c) THEN Null ELSE c[(i + 1) + 1]
    BY <1>6, <2>1 DEF Holds
  <2> QED
    BY <1>6, <2>1, <2>2, <2>3, <2>4
<1>9. ret' = live[c[1]].data /\ data' = data \ {ret'}
  BY <1>4 DEF Dequeue
<1>10. data' = {live'[e[i]].data : i \in 1 .. Len(e)}
  <2>1. data = {live[c[i]].data : i \in 1 .. Len(c)}
    BY DEF Holds
  <2>2. \A i \in 1 .. Len(e) : live'[e[i]].data \in data /\ live'[e[i]].data # live[c[1]].data
    BY <1>3, <1>6, <2>1 DEF Holds
  <2>3. data' \subseteq {live'[e[i]].data : i \in 1 .. Len(e)}
    <3> SUFFICES ASSUME NEW j \in 1 .. Len(c), live[c[j]].data # live[c[1]].data
                 PROVE  \E i \in 1 .. Len(e) : live'[e[i]].data = live[c[j]].data
      BY <1>9, <2>1
    <3>1. j - 1 \in 1 .. Len(e) /\ (j - 1) + 1 = j
      BY <1>3
    <3> QED
      BY <1>6, <3>1
  <2> QED
    BY <1>9, <2>2, <2>3
<1>11. IF e = <<>> THEN m_first' = Null /\ m_last' = Null
                   ELSE m_first' = e[1] /\ m_last' = e[Len(e)]
  <2>1. CASE e = <<>>
    BY <1>2, <1>4, <2>1 DEF Dequeue, LastAfterDequeue
  <2>2. CASE e # <<>>
    <3>1. Len(c) # 1 /\ 1 \in 1 .. Len(e) /\ Len(e) \in 1 .. Len(e) /\ Len(e) + 1 = Len(c)
      BY <1>1, <1>2, <2>2
    <3>2. e[1] = c[2] /\ e[Len(e)] = c[Len(c)]
      BY <1>2, <3>1
    <3>3. m_first' = live[m_first].next /\ m_last' = m_last
      BY <1>4, <3>1 DEF Dequeue, LastAfterDequeue
    <3>4. live[c[1]].next = c[2]
      BY <1>3, <3>1 DEF Holds
    <3> QED
      BY <1>4, <2>2, <3>2, <3>3, <3>4
  <2> QED
    BY <2>1, <2>2
<1>12. m_size' = Len(e)
  BY <1>2 DEF Dequeue, Holds
<1>13. Holds(e)'
  BY <1>5, <1>7, <1>8, <1>10, <1>11, <1>12 DEF Holds
<1> QED
  BY <1>1, <1>2, <1>6, <1>9, <1>13

\* ~Queue leaves nothing.
LEMMA DestroyHolds ==
  ASSUME Chain \in Seq(Node), Holds(Chain), Destroy
  PROVE  Holds(<<>>)'
<1>1. DOMAIN Chain = 1 .. Len(Chain)
  OBVIOUS
<1>2. DOMAIN live' = {} /\ Len(<<>>) = 0
  BY <1>1 DEF Destroy, Holds
<1>3. data' = {}
  BY SMTT(20), <1>1 DEF Destroy, Holds
<1> PICK e : e = <<>>
  OBVIOUS
<1>4. 1 .. Len(e) = {} /\ Len(e) = 0
  BY <1>2
<1>5. Holds(e)'
  BY <1>2, <1>3, <1>4 DEF Destroy, Holds
<1> QED
  BY <1>5

\* What a step does to the list, and to the abstract queue.
LEMMA StepIsFifoStep == QueueInv /\ [Next]_vars => QueueInv' /\ [List!Next]_(List!vars)
<1> SUFFICES ASSUME QueueInv, [Next]_vars PROVE QueueInv' /\ [List!Next]_(List!vars)
  OBVIOUS
<1> PICK c : c = Chain
  OBVIOUS
<1>1. c \in Seq(Node) /\ Holds(c) /\ Len(c) \in Nat
  BY DEF QueueInv
<1>2. ASSUME NEW e \in Seq(Node), Holds(e)' PROVE QueueInv' /\ Chain' = e
  <2>1. ChainRule'
    BY ChainIs, PTL
  <2>2. Chain' = e
    BY <1>2, <2>1 DEF ChainRule
  <2> QED
    BY <1>2, <2>2 DEF QueueInv
<1>3. Items = [i \in 1 .. Len(c) |-> live[c[i]].data] /\ Items \in Seq(data)
  <2>1. Items = [i \in 1 .. Len(c) |-> live[c[i]].data]
    BY <1>1 DEF Items
  <2>2. \A i \in 1 .. Len(c) : live[c[i]].data \in data
    BY <1>1 DEF Holds
  <2> QED
    BY <1>1, <2>1, <2>2
<1>4. ASSUME NEW e \in Seq(Node), Holds(e)'
      PROVE  Items' = [i \in 1 .. Len(e) |-> live'[e[i]].data]
  BY <1>2, <1>4 DEF Items
<1>5. ASSUME NEW d \in Data, Enqueue(d) PROVE QueueInv' /\ List!Enqueue(d)
  <2> PICK n \in Node \ DOMAIN live :
         /\ live' = [m \in DOMAIN live \cup {n} |->
                     IF m = n THEN NewNode(d)
                     ELSE IF m_first # Null /\ m = m_last THEN [live[m] EXCEPT !.next = n]
                     ELSE live[m]]
         /\ m_first' = (IF m_first = Null THEN n ELSE m_first)
         /\ m_last' = n
    BY <1>5 DEF Enqueue, LastAfterEnqueue
  <2> PICK e : e = Append(c, n)
    OBVIOUS
  <2>1. d \notin data /\ m_size' = m_size + 1 /\ data' = data \cup {d}
        /\ ret' = Null /\ UNCHANGED m_consumed
    BY <1>5 DEF Enqueue
  <2>2. e \in Seq(Node) /\ Len(e) = Len(c) + 1 /\ \A i \in 1 .. Len(e) : e[i] = IF i = Len(c) + 1 THEN n ELSE c[i]
    BY <1>1
  <2>3. /\ Holds(e)' /\ live'[n].data = d
        /\ \A i \in 1 .. Len(c) : live'[c[i]].data = live[c[i]].data
    BY <1>1, <2>1, EnqueueHolds
  <2>4. Items' = [i \in 1 .. Len(c) + 1 |-> IF i = Len(c) + 1 THEN d ELSE live[c[i]].data]
    <3>1. Items' = [i \in 1 .. Len(c) + 1 |-> live'[e[i]].data]
      <4>1. Items' = [i \in 1 .. Len(e) |-> live'[e[i]].data]
        BY <1>4, <2>2, <2>3
      <4> QED
        BY <2>2, <4>1
    <3>2. \A i \in 1 .. Len(c) + 1 :
             live'[e[i]].data = IF i = Len(c) + 1 THEN d ELSE live[c[i]].data
      <4> TAKE i \in 1 .. Len(c) + 1
      <4>1. e[i] = (IF i = Len(c) + 1 THEN n ELSE c[i]) /\ (i # Len(c) + 1 => i \in 1 .. Len(c))
        BY <1>1, <2>2
      <4> QED
        BY <2>3, <4>1
    <3> QED
      BY <3>1, <3>2
  <2>5. Items' = Append(Items, d)
    <3>1. Items \in Seq(data \cup {d}) /\ Len(Items) = Len(c)
      BY <1>1, <1>3
    <3>2. \A i \in 1 .. Len(c) : Items[i] = live[c[i]].data
      BY <1>3
    <3>3. /\ Append(Items, d) \in Seq(data \cup {d}) /\ Len(Append(Items, d)) = Len(c) + 1
          /\ \A i \in 1 .. Len(c) + 1 :
               Append(Items, d)[i] = IF i = Len(c) + 1 THEN d ELSE Items[i]
      BY <1>1, <3>1, AppendProperties
    <3>4. Items' \in Seq(data \cup {d}) /\ Len(Items') = Len(c) + 1
      <4>1. \A i \in 1 .. Len(c) + 1 : (IF i = Len(c) + 1 THEN d ELSE live[c[i]].data) \in data \cup {d}
        BY <1>1 DEF Holds
      <4> QED
        BY <1>1, <2>4, <4>1
    <3>5. \A i \in 1 .. Len(c) + 1 : Items'[i] = Append(Items, d)[i]
      BY <1>1, <2>4, <3>2, <3>3
    <3> QED
      BY <3>3, <3>4, <3>5, SeqEqual
  <2> QED
    BY <1>2, <2>1, <2>2, <2>3, <2>5 DEF List!Enqueue
<1>6. ASSUME Dequeue PROVE QueueInv' /\ List!Dequeue
  <2> PICK e : e = Tail(c)
    OBVIOUS
  <2>1. /\ c # <<>> /\ e \in Seq(Node) /\ Holds(e)' /\ ret' = live[c[1]].data
        /\ data' = data \ {ret'}
        /\ \A i \in 1 .. Len(c) - 1 : live'[e[i]].data = live[c[i + 1]].data
    BY <1>1, <1>6, DequeueHolds
  <2>2. Len(c) \in Nat \ {0} /\ Len(e) = Len(c) - 1
    BY <1>1, <2>1
  <2>3. Items # <<>> /\ Len(Items) = Len(c) /\ Items[1] = live[c[1]].data
    BY <1>1, <1>3, <2>2
  <2>4. Items' = [i \in 1 .. Len(c) - 1 |-> live[c[i + 1]].data]
    BY <1>4, <2>1, <2>2
  <2>5. Tail(Items) = [i \in 1 .. Len(c) - 1 |-> Items[i + 1]]
    BY <1>3, <2>3
  <2>6. \A i \in 1 .. Len(c) - 1 : Items[i + 1] = live[c[i + 1]].data
    BY <1>3, <2>2
  <2>7. Items' = Tail(Items)
    BY <2>4, <2>5, <2>6
  <2>8. m_consumed' = m_consumed + 1
    BY <1>6 DEF Dequeue
  <2>9. List!Dequeue
    BY <2>1, <2>3, <2>7, <2>8 DEF List!Dequeue
  <2> QED
    BY <1>2, <2>1, <2>9
<1>7. ASSUME Destroy PROVE QueueInv' /\ List!Destroy
  <2> PICK e : e = <<>>
    OBVIOUS
  <2>1. Holds(e)' /\ e \in Seq(Node) /\ 1 .. Len(e) = {}
    BY <1>7, DestroyHolds DEF QueueInv
  <2>2. data' = {}
    BY <2>1 DEF Holds
  <2>3. Items' = [i \in {} |-> live'[e[i]].data]
    BY <1>4, <2>1
  <2>4. Items' = <<>>
    BY <2>3
  <2> QED
    BY <1>2, <1>7, <2>1, <2>2, <2>4 DEF Destroy, List!Destroy
<1>8. CASE UNCHANGED vars
  <2>1. Chain' = Chain
    BY <1>8 DEF vars, Chain
  <2>2. Holds(c)' /\ Items' = Items
    BY <1>1, <1>8, <2>1 DEF vars, Holds, Items
  <2> QED
    BY <1>1, <1>2, <1>8, <2>2 DEF vars, List!vars
<1> QED
  BY <1>5, <1>6, <1>7, <1>8 DEF Next, List!Next

\* The list is whole in every state.
LEMMA InvAlways == Spec => []QueueInv
<1>1. Init => QueueInv
  <2> SUFFICES ASSUME Init PROVE QueueInv
    OBVIOUS
  <2>1. <<>> \in Seq(Node) /\ Holds(<<>>)
    BY InitHolds
  <2> QED
    BY <2>1, ChainIs DEF ChainRule, QueueInv
<1>2. QueueInv /\ [Next]_vars => QueueInv'
  BY StepIsFifoStep
<1> QED
  BY <1>1, <1>2, PTL DEF Spec

\* No pointer dangles, no node is leaked, and the ends and the counter agree with the
\* list, whatever is enqueued, taken and destroyed.
THEOREM ListAlwaysOK == Spec => []ListOK
<1>1. ASSUME QueueInv PROVE ListOK
  <2> DEFINE c == Chain
  <2>1. c \in Seq(Node) /\ Holds(c) /\ Len(c) \in Nat /\ DOMAIN c = 1 .. Len(c)
    BY <1>1 DEF QueueInv
  <2> HIDE DEF c
  <2>2. Len(c) = Cardinality(DOMAIN live)
    <3>1. c \in Bijection(1 .. Len(c), DOMAIN live)
      BY SMTT(20), <2>1, Fun_IsBij DEF Holds
    <3>2. IsFiniteSet(1 .. Len(c)) /\ Cardinality(1 .. Len(c)) = Len(c)
      <4>1. Len(c) \in Int /\ 1 \in Int
        BY <2>1
      <4>2. /\ IsFiniteSet(1 .. Len(c))
            /\ Cardinality(1 .. Len(c)) = IF 1 > Len(c) THEN 0 ELSE Len(c) - 1 + 1
        BY ZenonT(20), <4>1, FS_Interval
      <4> QED
        BY <2>1, <4>2
    <3> QED
      BY <3>1, <3>2, FS_Bijection DEF ExistsBijection
  <2>3. c # <<>> => Len(c) \in 1 .. Len(c)
    BY <2>1
  <2> QED
    BY <2>1, <2>2, <2>3 DEF ListOK, Holds, c
<1> QED
  BY <1>1, InvAlways, PTL

\* The linked list is a first-in first-out queue: what is enqueued, what dequeue
\* returns and what the destructor deletes are those of the abstract one.
THEOREM ImplementsFifo == Spec => FifoSpec
<1>1. Init => List!Init
  <2> SUFFICES ASSUME Init PROVE List!Init
    OBVIOUS
  <2>1. <<>> \in Seq(Node) /\ Holds(<<>>)
    BY InitHolds
  <2>2. Chain = <<>>
    BY <2>1, ChainIs DEF ChainRule
  <2>3. Items = <<>>
    BY <2>2 DEF Items
  <2> QED
    BY <2>3 DEF Init, List!Init
<1> QED
  BY <1>1, StepIsFifoStep, InvAlways, PTL DEF Spec, FifoSpec, List!Spec
=============================================================================
