---------------------------- MODULE SkipList_proofs ----------------------------
(***************************************************************************)
(* Proofs about SkipList, for any keys, heights and number of nodes, in    *)
(* primary and secondary indexes: the levels are sublists of the list, the *)
(* widths are distances in it, and the calls do and return what they do in *)
(* OrderedIndex.                                                           *)
(*                                                                         *)
(* The proofs speak of the list c of the nodes of level 0 and of the       *)
(* places in it.  The head has place 0, S[l] is the set of places of the   *)
(* nodes on level l, and the end of a level is the place Len(c) + 1.       *)
(***************************************************************************)
EXTENDS SkipListScan, SequenceTheorems, FiniteSetTheorems, FunctionTheorems,
        WellFoundedInduction, TLAPS

\* c is a list of nodes, each followed by the next one and the last by no node, and
\* nothing leads from a node outside c to another.
Links(next, c) ==
  /\ c \in Seq(DOMAIN next)
  /\ \A i, j \in 1 .. Len(c) : c[i] = c[j] => i = j
  /\ \A i \in 1 .. Len(c) : IF i = Len(c) THEN next[c[i]] \notin DOMAIN next
                                          ELSE next[c[i]] = c[i + 1]
  /\ \A n \in DOMAIN next : (\E i \in 1 .. Len(c) : c[i] = n) \/ next[n] \notin DOMAIN next

\* c begins at first.
Begins(next, first, c) == IF c = <<>> THEN first \notin DOMAIN next ELSE first = c[1]

\* A set of natural numbers with 0 and every successor is all of them.
LEMMA AllNumbers ==
  ASSUME NEW S \in SUBSET Nat, 0 \in S, \A n \in S : n + 1 \in S
  PROVE  S = Nat
<1> SUFFICES ASSUME S # Nat PROVE FALSE
  OBVIOUS
<1> DEFINE less == {ss \in Nat \X Nat : ss[1] < ss[2]}
<1>1. IsWellFoundedOn(less, Nat)
  BY NatLessThanWellFounded DEF OpToRel
<1>2. PICK x \in Nat \ S : \A y \in Nat \ S : <<y, x>> \notin less
  BY <1>1, WFMin
<1>3. x - 1 \in S
  <2>1. x \in Nat \ {0} /\ x - 1 \in Nat /\ x - 1 < x
    BY <1>2
  <2>2. <<x - 1, x>> \in Nat \X Nat /\ <<x - 1, x>>[1] = x - 1 /\ <<x - 1, x>>[2] = x
    BY <2>1
  <2> QED
    BY <1>2, <2>1, <2>2
<1>4. (x - 1) + 1 = x
  BY <1>2
<1> QED
  BY <1>2, <1>3, <1>4

\* What a loop that follows next finds from each node on; D is what pointers may be.
Follows(next, D, h) ==
  h = [n \in D |-> IF n \in DOMAIN next THEN <<n>> \o h[next[n]] ELSE <<>>]

\* The loop comes to an end from every node, and from first on it finds c.
LEMMA FollowIs ==
  ASSUME NEW next, NEW D, DOMAIN next \subseteq D, \A n \in DOMAIN next : next[n] \in D,
         NEW c, Links(next, c)
  PROVE  /\ \E h : Follows(next, D, h)
         /\ \A h : Follows(next, D, h) =>
              \A first \in D : Begins(next, first, c) => h[first] = c
<1> DEFINE place(n) == CHOOSE i \in 1 .. Len(c) : c[i] = n
           g == [n \in D |-> IF n \notin DOMAIN next THEN <<>>
                             ELSE IF \E i \in 1 .. Len(c) : c[i] = n
                                    THEN SubSeq(c, place(n), Len(c)) ELSE <<n>>]
<1>3. c \in Seq(DOMAIN next) /\ Len(c) \in Nat /\ \A i \in 1 .. Len(c) : c[i] \in DOMAIN next
  BY DEF Links
<1>4. \A i \in 1 .. Len(c) : g[c[i]] = SubSeq(c, i, Len(c))
  <2> TAKE i \in 1 .. Len(c)
  <2>1. c[i] \in DOMAIN next /\ c[i] \in D
    BY <1>3
  <2>2. place(c[i]) = i
    BY DEF Links
  <2> QED
    BY <2>1, <2>2
<1>5. \A n \in DOMAIN next : next[n] \in D
  OBVIOUS
<1>6. \A n \in D : n \notin DOMAIN next => g[n] = <<>>
  OBVIOUS
<1>7. Follows(next, D, g)
  <2> SUFFICES ASSUME NEW n \in D
               PROVE  g[n] = IF n \in DOMAIN next THEN <<n>> \o g[next[n]] ELSE <<>>
    BY DEF Follows
  <2>1. CASE n \notin DOMAIN next
    BY <2>1
  <2>2. ASSUME NEW i \in 1 .. Len(c), n = c[i] PROVE g[n] = <<n>> \o g[next[n]]
    <3>1. g[n] = <<c[i]>> \o SubSeq(c, i + 1, Len(c))
      <4>1. g[n] = SubSeq(c, i, Len(c))
        BY <1>4, <2>2
      <4> HIDE DEF g
      <4>2. Len(c) \in i .. Len(c)
        BY <1>3
      <4> QED
        BY <1>3, <4>1, <4>2, SubSeqRecursiveFirst
    <3>2. CASE i = Len(c)
      <4>1. next[n] \notin DOMAIN next /\ next[n] \in D
        BY <1>3, <1>5, <2>2, <3>2 DEF Links
      <4>2. g[next[n]] = <<>>
        BY <1>6, <4>1
      <4>3. SubSeq(c, i + 1, Len(c)) = <<>>
        BY <1>3, <3>2, SubSeqEmpty
      <4> QED
        BY <2>2, <3>1, <4>2, <4>3
    <3>3. CASE i # Len(c)
      <4>1. next[n] = c[i + 1] /\ i + 1 \in 1 .. Len(c)
        BY <1>3, <2>2, <3>3 DEF Links
      <4> QED
        BY <1>4, <2>2, <3>1, <4>1
    <3> QED
      BY <3>2, <3>3
  <2>3. CASE n \in DOMAIN next /\ ~\E i \in 1 .. Len(c) : c[i] = n
    <3>1. next[n] \notin DOMAIN next /\ next[n] \in D
      BY <1>5, <2>3 DEF Links
    <3>2. g[n] = <<n>>
      BY <2>3
    <3>3. g[next[n]] = <<>>
      BY <1>6, <3>1
    <3>4. <<n>> \o <<>> = <<n>>
      <4>1. <<n>> \in Seq(DOMAIN next)
        BY <2>3
      <4> QED
        BY <4>1, ConcatEmptySeq
    <3> HIDE DEF g
    <3> QED
      BY <2>3, <3>2, <3>3, <3>4
  <2> QED
    BY <2>1, <2>2, <2>3
<1> HIDE DEF g
<1> SUFFICES ASSUME NEW f, Follows(next, D, f), NEW first \in D, Begins(next, first, c)
             PROVE  f[first] = c
  BY <1>7
<1>8. f = [n \in D |-> IF n \in DOMAIN next THEN <<n>> \o f[next[n]] ELSE <<>>]
  BY DEF Follows
<1>9. ASSUME NEW j \in Nat
      PROVE  j < Len(c) => f[c[Len(c) - j]] = SubSeq(c, Len(c) - j, Len(c))
  <2> DEFINE S == {m \in Nat : m < Len(c) => f[c[Len(c) - m]] = SubSeq(c, Len(c) - m, Len(c))}
  <2>1. ASSUME NEW i \in 1 .. Len(c),
               i < Len(c) => f[c[i + 1]] = SubSeq(c, i + 1, Len(c))
        PROVE  f[c[i]] = SubSeq(c, i, Len(c))
    <3>1. c[i] \in DOMAIN next /\ f[c[i]] = <<c[i]>> \o f[next[c[i]]]
      BY <1>3, <1>8
    <3>2. f[next[c[i]]] = SubSeq(c, i + 1, Len(c))
      <4>1. CASE i = Len(c)
        <5>1. next[c[i]] \notin DOMAIN next /\ next[c[i]] \in D
          BY <1>5, <3>1, <4>1 DEF Links
        <5>2. f[next[c[i]]] = <<>>
          BY <1>8, <5>1
        <5> QED
          BY <1>3, <4>1, <5>2, SubSeqEmpty
      <4>2. CASE i # Len(c)
        BY <1>3, <2>1, <4>2 DEF Links
      <4> QED
        BY <4>1, <4>2
    <3> QED
      BY <1>3, <3>1, <3>2, SubSeqRecursiveFirst
  <2>2. 0 \in S
    <3>1. CASE Len(c) = 0
      BY <3>1
    <3>2. CASE Len(c) # 0
      <4>1. Len(c) \in 1 .. Len(c) /\ Len(c) - 0 = Len(c) /\ ~(Len(c) < Len(c))
        BY <1>3, <3>2
      <4> QED
        BY <2>1, <4>1
    <3> QED
      BY <3>1, <3>2
  <2>3. ASSUME NEW m \in S PROVE m + 1 \in S
    <3> SUFFICES ASSUME m + 1 < Len(c)
                 PROVE  f[c[Len(c) - (m + 1)]] = SubSeq(c, Len(c) - (m + 1), Len(c))
      OBVIOUS
    <3>1. Len(c) - (m + 1) \in 1 .. Len(c) /\ (Len(c) - (m + 1)) + 1 = Len(c) - m /\ m < Len(c)
      BY <1>3
    <3>2. f[c[Len(c) - m]] = SubSeq(c, Len(c) - m, Len(c))
      BY <3>1
    <3> QED
      BY <2>1, <3>1, <3>2
  <2>4. S = Nat
    <3> HIDE DEF S
    <3>1. S \in SUBSET Nat
      BY DEF S
    <3> QED
      BY <2>2, <2>3, <3>1, AllNumbers
  <2> QED
    BY <2>4
<1>10. CASE c = <<>>
  BY <1>8, <1>10 DEF Begins
<1>11. CASE c # <<>>
  <2>1. Len(c) - 1 \in Nat /\ Len(c) - 1 < Len(c) /\ Len(c) - (Len(c) - 1) = 1
    BY <1>3, <1>11
  <2>2. f[c[1]] = SubSeq(c, 1, Len(c))
    BY <1>9, <2>1
  <2> QED
    BY <1>3, <1>11, <2>2, SubSeqFull DEF Begins
<1> QED
  BY <1>10, <1>11

\* A set of natural numbers that is not empty has a least element.
LEMMA LeastNumber ==
  ASSUME NEW T \in SUBSET Nat, T # {}
  PROVE  \E x \in T : \A y \in T : x <= y
<1> DEFINE less == {ss \in Nat \X Nat : ss[1] < ss[2]}
<1>1. IsWellFoundedOn(less, Nat)
  BY NatLessThanWellFounded DEF OpToRel
<1>2. PICK x \in T : \A y \in T : <<y, x>> \notin less
  BY <1>1, WFMin
<1>3. \A y \in T : x <= y
  <2> TAKE y \in T
  <2>1. <<y, x>> \in Nat \X Nat /\ <<y, x>>[1] = y /\ <<y, x>>[2] = x
    OBVIOUS
  <2>2. ~(y < x)
    BY <1>2, <2>1
  <2> QED
    BY <2>2
<1> QED
  BY <1>3

\* A set of natural numbers with a bound has a greatest element.
LEMMA GreatestNumber ==
  ASSUME NEW N \in Nat, NEW T \in SUBSET (0 .. N), T # {}
  PROVE  \E x \in T : \A y \in T : y <= x
<1> DEFINE R == {N - y : y \in T}
<1>1. R \in SUBSET Nat /\ R # {}
  <2>1. PICK z : z \in T
    OBVIOUS
  <2>2. N - z \in R
    BY <2>1
  <2>3. \A y \in T : N - y \in Nat
    OBVIOUS
  <2> QED
    BY <2>2, <2>3
<1>2. PICK r \in R : \A q \in R : r <= q
  <2> HIDE DEF R
  <2> QED
    BY <1>1, LeastNumber
<1>3. PICK x \in T : r = N - x
  BY <1>2
<1>4. \A y \in T : N - x <= N - y
  BY <1>2, <1>3
<1>5. \A y \in T : y <= x
  BY <1>4
<1> QED
  BY <1>5
-----------------------------------------------------------------------------
(* The shape of the structure.                                             *)

At(c, i) == IF i = 0 THEN HeadNode ELSE c[i]

KeyAt(c, i) == node[c[i]].key

\* j is the next place after i of the set T, or the end.
NextIn(T, N, i, j) == j \in T \cup {N + 1} /\ i < j /\ \A m \in T : m <= i \/ j <= m

NodeOf(h) == [key : Key \cup {0}, height : {h}, row : Buf \cup {Null},
              next : [0 .. h - 1 -> Node \cup {Null}], width : [0 .. h - 1 -> Nat]]

IsNode(r) == \E h \in 1 .. MaxNodeHeight : r \in NodeOf(h)

Listed(c) ==
  /\ \A i, j \in 1 .. Len(c) : c[i] = c[j] => i = j
  /\ DOMAIN node = {HeadNode} \cup {c[i] : i \in 1 .. Len(c)}

Typed(c) ==
  /\ \A n \in DOMAIN node : IsNode(node[n])
  /\ node[HeadNode].height = MaxNodeHeight
  /\ \A i \in 1 .. Len(c) : KeyAt(c, i) \in Key /\ node[c[i]].row \in Buf

LevelSets(c, S) ==
  /\ S \in [Levels -> SUBSET (1 .. Len(c))]
  /\ S[0] = 1 .. Len(c)
  /\ \A l, m \in Levels : l <= m => S[m] \subseteq S[l]

Heights(c, S) ==
  \A l \in Levels, i \in 1 .. Len(c) :
    /\ i \in S[l] => node[c[i]].height > l
    /\ primary /\ node[c[i]].height > l => i \in S[l]

Sorted(c) ==
  \A i, j \in 1 .. Len(c) : i < j =>
    /\ KeyAt(c, i) <= KeyAt(c, j)
    /\ primary => KeyAt(c, i) < KeyAt(c, j)

Linked(c, S) ==
  \A l \in Levels : \A i \in S[l] \cup {0}, j \in 1 .. Len(c) + 1 :
    NextIn(S[l], Len(c), i, j) =>
      /\ node[At(c, i)].next[l] = IF j = Len(c) + 1 THEN Null ELSE c[j]
      /\ node[At(c, i)].width[l] = (IF j = Len(c) + 1 THEN Len(c) ELSE j) - i

Unlinked(c, S) ==
  \A l \in Levels, i \in 1 .. Len(c) :
    i \notin S[l] /\ l < node[c[i]].height => node[c[i]].next[l] = Null

Owned(c) ==
  /\ \A i, j \in 1 .. Len(c) : node[c[i]].row = node[c[j]].row => i = j
  /\ heap = {node[c[i]].row : i \in 1 .. Len(c)}
  /\ size = Len(c)

Shape(c, S) ==
  /\ Listed(c) /\ Typed(c) /\ LevelSets(c, S) /\ Heights(c, S) /\ Sorted(c)
  /\ Linked(c, S) /\ Unlinked(c, S) /\ Owned(c)

\* Every place has a next one.
LEMMA NextExists ==
  ASSUME NEW N \in Nat, NEW T \in SUBSET (1 .. N), NEW i \in 0 .. N
  PROVE  \E j \in 1 .. N + 1 : NextIn(T, N, i, j)
<1> DEFINE R == {j \in T \cup {N + 1} : i < j}
<1>1. R \in SUBSET Nat /\ N + 1 \in R
  <2>1. N + 1 \in Nat /\ i < N + 1
    OBVIOUS
  <2>2. \A j \in T : j \in Nat
    OBVIOUS
  <2> QED
    BY <2>1, <2>2
<1>2. PICK j \in R : \A m \in R : j <= m
  <2> HIDE DEF R
  <2> QED
    BY <1>1, LeastNumber
<1>3. j \in 1 .. N + 1 /\ j \in T \cup {N + 1} /\ i < j
  OBVIOUS
<1>4. \A m \in T : m <= i \/ j <= m
  BY <1>2
<1> QED
  BY <1>3, <1>4 DEF NextIn

\* What the shape says of a place and of a level.
LEMMA ShapeFacts ==
  ASSUME NEW c \in Seq(Node), NEW S, Shape(c, S)
  PROVE  /\ Len(c) \in Nat
         /\ \A l \in Levels : S[l] \subseteq 1 .. Len(c)
         /\ 0 \in Levels /\ MaxNodeHeight - 1 \in Levels
         /\ \A i \in 0 .. Len(c) : At(c, i) \in DOMAIN node
         /\ \A i \in 1 .. Len(c) : /\ c[i] \in Node /\ c[i] \in DOMAIN node
                                   /\ c[i] # HeadNode /\ c[i] # Null
                                   /\ KeyAt(c, i) \in Int /\ KeyAt(c, i) \in Key
         /\ \A i, j \in 0 .. Len(c) : At(c, i) = At(c, j) => i = j
         /\ \A n \in DOMAIN node : \E i \in 0 .. Len(c) : At(c, i) = n
         /\ \A l \in Levels : HeadNode \in Tall(l) /\ \A i \in S[l] \cup {0} : At(c, i) \in Tall(l)
<1>1. Len(c) \in Nat /\ \A i \in 1 .. Len(c) : c[i] \in Node
  OBVIOUS
<1>2. \A l \in Levels : S[l] \subseteq 1 .. Len(c)
  BY DEF Shape, LevelSets
<1>3. 0 \in Levels /\ MaxNodeHeight - 1 \in Levels
  BY HeightAssumption DEF Levels
<1>4. \A i \in 1 .. Len(c) : /\ c[i] \in DOMAIN node /\ c[i] # HeadNode /\ c[i] # Null
                             /\ KeyAt(c, i) \in Int /\ KeyAt(c, i) \in Key
  BY <1>1, NodeAssumption, KeyAssumption DEF Shape, Listed, Typed
<1>5. HeadNode \in DOMAIN node
  BY DEF Shape, Listed
<1>6. \A i \in 0 .. Len(c) : At(c, i) \in DOMAIN node
  BY <1>1, <1>4, <1>5 DEF At
<1>7. \A i, j \in 0 .. Len(c) : At(c, i) = At(c, j) => i = j
  <2> TAKE i, j \in 0 .. Len(c)
  <2>1. (i # 0 => i \in 1 .. Len(c)) /\ (j # 0 => j \in 1 .. Len(c))
    BY <1>1
  <2> QED
    BY <1>4, <2>1 DEF At, Shape, Listed
<1>8. \A n \in DOMAIN node : \E i \in 0 .. Len(c) : At(c, i) = n
  <2> TAKE n \in DOMAIN node
  <2>1. CASE n = HeadNode
    BY <1>1, <2>1 DEF At
  <2>2. CASE n # HeadNode
    <3> PICK i \in 1 .. Len(c) : c[i] = n
      BY <2>2 DEF Shape, Listed
    <3> QED
      BY <1>1 DEF At
  <2> QED
    BY <2>1, <2>2
<1>9. \A l \in Levels : HeadNode \in Tall(l) /\ \A i \in S[l] \cup {0} : At(c, i) \in Tall(l)
  <2> TAKE l \in Levels
  <2>1. HeadNode \in Tall(l)
    BY <1>5, HeightAssumption DEF Tall, Levels, Shape, Typed
  <2>2. \A i \in S[l] : c[i] \in Tall(l) /\ i # 0
    BY <1>2, <1>4 DEF Tall, Shape, Heights
  <2> QED
    BY <2>1, <2>2 DEF At
<1> QED
  BY <1>1, <1>2, <1>3, <1>4, <1>6, <1>7, <1>8, <1>9
-----------------------------------------------------------------------------
(* Searching.                                                              *)

\* Level l is followed as far as place b on the way to k.
StopsAt(c, T, k, b) ==
  /\ b \in T \cup {0}
  /\ b # 0 => KeyAt(c, b) < k
  /\ \A m \in T : m <= b \/ KeyAt(c, m) >= k

\* There is such a place.
LEMMA StopExists ==
  ASSUME NEW c \in Seq(Node), NEW S, Shape(c, S), NEW k \in Int, NEW l \in Levels
  PROVE  \E b \in 0 .. Len(c) : StopsAt(c, S[l], k, b)
<1> DEFINE R == {b \in S[l] \cup {0} : b # 0 => KeyAt(c, b) < k}
<1>1. Len(c) \in Nat /\ R \in SUBSET (0 .. Len(c)) /\ 0 \in R
  BY ShapeFacts
<1>2. PICK b \in R : \A m \in R : m <= b
  <2> HIDE DEF R
  <2> QED
    BY <1>1, GreatestNumber
<1>3. \A m \in S[l] : m <= b \/ KeyAt(c, m) >= k
  <2> TAKE m \in S[l]
  <2>1. KeyAt(c, m) \in Int
    BY ShapeFacts
  <2> QED
    BY <1>2, <2>1
<1> QED
  BY <1>1, <1>3 DEF StopsAt

\* The inner loop goes on from place i iff it is before b.
GoesOn(n, k, l) == node[n].next[l] # Null /\ k > node[node[n].next[l]].key

LEMMA WalkStep ==
  ASSUME NEW c \in Seq(Node), NEW S, Shape(c, S), NEW k \in Int, NEW l \in Levels,
         NEW b \in 0 .. Len(c), StopsAt(c, S[l], k, b)
  PROVE  /\ \A i \in S[l] \cup {0} : i < b =>
              \E j \in S[l] : /\ i < j /\ j <= b
                              /\ GoesOn(At(c, i), k, l)
                              /\ node[At(c, i)].next[l] = c[j]
                              /\ node[At(c, i)].width[l] = j - i
         /\ \A i \in S[l] \cup {0} : b <= i => ~GoesOn(At(c, i), k, l)
         /\ \A i \in 1 .. Len(c) : i \notin S[l] /\ c[i] \in Tall(l) => ~GoesOn(c[i], k, l)
<1>1. Len(c) \in Nat /\ S[l] \subseteq 1 .. Len(c)
  BY ShapeFacts
<1>2. \A i \in 1 .. Len(c) : c[i] # Null /\ KeyAt(c, i) \in Int
  BY ShapeFacts
<1>3. \A i, j \in 1 .. Len(c) : i <= j => KeyAt(c, i) <= KeyAt(c, j)
  BY <1>2 DEF Shape, Sorted
<1>4. ASSUME NEW i \in S[l] \cup {0}
      PROVE  \E j \in 1 .. Len(c) + 1 :
               /\ NextIn(S[l], Len(c), i, j)
               /\ node[At(c, i)].next[l] = IF j = Len(c) + 1 THEN Null ELSE c[j]
               /\ node[At(c, i)].width[l] = (IF j = Len(c) + 1 THEN Len(c) ELSE j) - i
  <2>1. i \in 0 .. Len(c)
    BY <1>1
  <2>2. PICK j \in 1 .. Len(c) + 1 : NextIn(S[l], Len(c), i, j)
    BY <1>1, <2>1, NextExists
  <2> QED
    BY <2>2 DEF Shape, Linked
<1>5. ASSUME NEW i \in S[l] \cup {0}, i < b
      PROVE  \E j \in S[l] : /\ i < j /\ j <= b
                             /\ GoesOn(At(c, i), k, l)
                             /\ node[At(c, i)].next[l] = c[j]
                             /\ node[At(c, i)].width[l] = j - i
  <2>1. PICK j \in 1 .. Len(c) + 1 :
               /\ NextIn(S[l], Len(c), i, j)
               /\ node[At(c, i)].next[l] = IF j = Len(c) + 1 THEN Null ELSE c[j]
               /\ node[At(c, i)].width[l] = (IF j = Len(c) + 1 THEN Len(c) ELSE j) - i
    BY <1>4
  <2>2. b \in S[l] /\ KeyAt(c, b) < k /\ i \in 0 .. Len(c)
    BY <1>1, <1>5 DEF StopsAt
  <2>3. i < j /\ j <= b /\ b \in 1 .. Len(c)
    BY <1>1, <1>5, <2>1, <2>2 DEF NextIn
  <2>4. j \in S[l] /\ j # Len(c) + 1 /\ j \in 1 .. Len(c)
    BY <1>1, <2>1, <2>3 DEF NextIn
  <2>5. KeyAt(c, j) <= KeyAt(c, b) /\ KeyAt(c, j) \in Int /\ KeyAt(c, b) \in Int
    BY <1>2, <1>3, <2>3, <2>4
  <2>6. k > KeyAt(c, j)
    BY <2>2, <2>5
  <2> QED
    BY <1>2, <2>1, <2>3, <2>4, <2>6 DEF GoesOn, KeyAt
<1>6. ASSUME NEW i \in S[l] \cup {0}, b <= i PROVE ~GoesOn(At(c, i), k, l)
  <2>1. PICK j \in 1 .. Len(c) + 1 :
               /\ NextIn(S[l], Len(c), i, j)
               /\ node[At(c, i)].next[l] = IF j = Len(c) + 1 THEN Null ELSE c[j]
    BY <1>4
  <2>2. CASE j = Len(c) + 1
    BY <2>1, <2>2 DEF GoesOn
  <2>3. CASE j # Len(c) + 1
    <3>1. j \in S[l] /\ i < j /\ j \in 1 .. Len(c) /\ i \in Nat
      BY <1>1, <2>1, <2>3 DEF NextIn
    <3>2. KeyAt(c, j) >= k /\ KeyAt(c, j) \in Int
      <4>1. ~(j <= b)
        BY <1>6, <3>1
      <4> QED
        BY <1>2, <3>1, <4>1 DEF StopsAt
    <3>3. ~(k > KeyAt(c, j))
      BY <3>2
    <3> QED
      BY <2>1, <2>3, <3>3 DEF GoesOn, KeyAt
  <2> QED
    BY <2>2, <2>3
<1>7. ASSUME NEW i \in 1 .. Len(c), i \notin S[l], c[i] \in Tall(l) PROVE ~GoesOn(c[i], k, l)
  <2>1. l < node[c[i]].height
    <3>1. node[c[i]].height \in Int /\ l \in Int
      BY <1>7 DEF Tall, Shape, Typed, IsNode, NodeOf, Levels
    <3> QED
      BY <1>7, <3>1 DEF Tall
  <2> QED
    BY <1>7, <2>1 DEF GoesOn, Shape, Unlinked
<1> QED
  BY <1>5, <1>6, <1>7

\* What Walk is defined to be.
Walks(h, k, l) ==
  h = [n \in Tall(l) |->
         IF GoesOn(n, k, l)
           THEN [h[node[n].next[l]] EXCEPT !.rank = @ + node[n].width[l]]
           ELSE [prev |-> n, rank |-> 0]]

\* From a place up to b, the walk on level l ends at b, as many places on.
LEMMA WalkIs ==
  ASSUME NEW c \in Seq(Node), NEW S, Shape(c, S), NEW k \in Int, NEW l \in Levels,
         NEW b \in 0 .. Len(c), StopsAt(c, S[l], k, b)
  PROVE  \A i \in S[l] \cup {0} :
           i <= b => Walk(k, l)[At(c, i)] = [prev |-> At(c, b), rank |-> b - i]
<1>1. Len(c) \in Nat /\ S[l] \subseteq 1 .. Len(c) /\ b \in S[l] \cup {0}
  BY ShapeFacts DEF StopsAt
<1>2. /\ \A i \in S[l] \cup {0} : i < b =>
              \E j \in S[l] : /\ i < j /\ j <= b
                              /\ GoesOn(At(c, i), k, l)
                              /\ node[At(c, i)].next[l] = c[j]
                              /\ node[At(c, i)].width[l] = j - i
      /\ \A i \in S[l] \cup {0} : b <= i => ~GoesOn(At(c, i), k, l)
      /\ \A i \in 1 .. Len(c) : i \notin S[l] /\ c[i] \in Tall(l) => ~GoesOn(c[i], k, l)
  BY WalkStep
<1>3. /\ \A i, j \in 0 .. Len(c) : At(c, i) = At(c, j) => i = j
      /\ \A n \in Tall(l) : \E i \in 0 .. Len(c) : At(c, i) = n
      /\ \A i \in S[l] \cup {0} : At(c, i) \in Tall(l)
  <2>1. \A n \in DOMAIN node : \E i \in 0 .. Len(c) : At(c, i) = n
    BY ShapeFacts
  <2>2. \A i \in S[l] \cup {0} : At(c, i) \in Tall(l)
    BY ShapeFacts
  <2>3. \A i, j \in 0 .. Len(c) : At(c, i) = At(c, j) => i = j
    BY ShapeFacts
  <2> QED
    BY <2>1, <2>2, <2>3 DEF Tall
<1>4. \A j \in S[l] : At(c, j) = c[j]
  BY <1>1 DEF At
<1> DEFINE before == {i \in S[l] \cup {0} : i <= b}
           g == [n \in Tall(l) |->
                   IF \E i \in before : At(c, i) = n
                     THEN [prev |-> At(c, b),
                           rank |-> b - (CHOOSE i \in before : At(c, i) = n)]
                     ELSE [prev |-> n, rank |-> 0]]
<1>5. \A i \in before : g[At(c, i)] = [prev |-> At(c, b), rank |-> b - i]
  <2> TAKE i \in before
  <2>1. At(c, i) \in Tall(l)
    BY <1>3
  <2>2. (CHOOSE m \in before : At(c, m) = At(c, i)) = i
    BY <1>1, <1>3
  <2> QED
    BY <2>1, <2>2
<1>6. \A n \in Tall(l) : (~\E i \in before : At(c, i) = n) => g[n] = [prev |-> n, rank |-> 0]
  OBVIOUS
<1>7. Walks(g, k, l)
  <2> HIDE DEF g
  <2> SUFFICES ASSUME NEW n \in Tall(l)
               PROVE  g[n] = IF GoesOn(n, k, l)
                               THEN [g[node[n].next[l]] EXCEPT !.rank = @ + node[n].width[l]]
                               ELSE [prev |-> n, rank |-> 0]
    BY DEF Walks, g
  <2>1. PICK i \in 0 .. Len(c) : At(c, i) = n
    BY <1>3
  <2>2. CASE i \in before /\ i < b
    <3>1. PICK j \in S[l] : /\ i < j /\ j <= b
                            /\ GoesOn(At(c, i), k, l)
                            /\ node[At(c, i)].next[l] = c[j]
                            /\ node[At(c, i)].width[l] = j - i
      BY <1>2, <2>2
    <3>2. g[node[n].next[l]] = [prev |-> At(c, b), rank |-> b - j]
      BY <1>4, <1>5, <2>1, <3>1
    <3>3. g[n] = [prev |-> At(c, b), rank |-> b - i]
      BY <1>5, <2>1, <2>2
    <3>4. (b - j) + (j - i) = b - i
      BY <1>1
    <3> QED
      BY <2>1, <3>1, <3>2, <3>3, <3>4
  <2>3. CASE i = b
    <3>1. g[n] = [prev |-> At(c, b), rank |-> b - b] /\ ~GoesOn(n, k, l)
      BY <1>1, <1>2, <1>5, <2>1, <2>3
    <3>2. b - b = 0
      OBVIOUS
    <3> QED
      BY <2>1, <2>3, <3>1, <3>2
  <2>4. CASE i \notin before
    <3>1. ~\E m \in before : At(c, m) = n
      BY <1>1, <1>3, <2>1, <2>4
    <3>2. ~GoesOn(n, k, l)
      <4>1. CASE i \in S[l] \cup {0}
        <5>1. b <= i
          BY <1>1, <2>4, <4>1
        <5> QED
          BY <1>2, <2>1, <4>1, <5>1
      <4>2. CASE i \notin S[l] \cup {0}
        <5>1. i \in 1 .. Len(c) /\ c[i] = n
          BY <1>1, <2>1, <4>2 DEF At
        <5> QED
          BY <1>2, <4>2, <5>1
      <4> QED
        BY <4>1, <4>2
    <3> QED
      BY <1>6, <3>1, <3>2
  <2> QED
    BY <1>1, <2>2, <2>3, <2>4
<1> HIDE DEF g
<1>8. ASSUME NEW h, Walks(h, k, l)
      PROVE  \A i \in before : h[At(c, i)] = [prev |-> At(c, b), rank |-> b - i]
  <2> DEFINE wrong == {i \in before : h[At(c, i)] # [prev |-> At(c, b), rank |-> b - i]}
  <2> SUFFICES ASSUME wrong # {} PROVE FALSE
    OBVIOUS
  <2>1. wrong \in SUBSET (0 .. Len(c))
    BY <1>1
  <2>2. PICK i \in wrong : \A j \in wrong : j <= i
    <3> HIDE DEF wrong
    <3> QED
      BY <1>1, <2>1, GreatestNumber
  <2>3. At(c, i) \in Tall(l) /\ i \in 0 .. Len(c) /\ i \in before
    BY <1>1, <1>3
  <2>4. h[At(c, i)] =
          IF GoesOn(At(c, i), k, l)
            THEN [h[node[At(c, i)].next[l]] EXCEPT !.rank = @ + node[At(c, i)].width[l]]
            ELSE [prev |-> At(c, i), rank |-> 0]
    BY <1>8, <2>3 DEF Walks
  <2>5. CASE i = b
    <3>1. ~GoesOn(At(c, i), k, l) /\ b - b = 0
      BY <1>1, <1>2, <2>5
    <3> QED
      BY <2>4, <2>5, <3>1
  <2>6. CASE i < b
    <3>1. PICK j \in S[l] : /\ i < j /\ j <= b
                            /\ GoesOn(At(c, i), k, l)
                            /\ node[At(c, i)].next[l] = c[j]
                            /\ node[At(c, i)].width[l] = j - i
      BY <1>2, <2>3, <2>6
    <3>2. j \notin wrong /\ j \in before
      <4>1. ~(j <= i)
        BY <1>1, <2>3, <3>1
      <4> QED
        BY <2>2, <3>1, <4>1
    <3>3. h[c[j]] = [prev |-> At(c, b), rank |-> b - j]
      BY <1>4, <3>1, <3>2
    <3>4. (b - j) + (j - i) = b - i
      BY <1>1, <2>3
    <3>5. h[At(c, i)] = [prev |-> At(c, b), rank |-> b - i]
      BY <2>4, <3>1, <3>3, <3>4
    <3> QED
      BY <3>5
  <2> QED
    BY <2>3, <2>5, <2>6
<1>9. Walks(Walk(k, l), k, l)
  <2> DEFINE walk[n \in Tall(l)] ==
        LET nx == node[n].next[l]
        IN  IF nx # Null /\ k > node[nx].key
              THEN [walk[nx] EXCEPT !.rank = @ + node[n].width[l]]
              ELSE [prev |-> n, rank |-> 0]
      P(h) == h = [n \in Tall(l) |->
                     LET nx == node[n].next[l]
                     IN  IF nx # Null /\ k > node[nx].key
                           THEN [h[nx] EXCEPT !.rank = @ + node[n].width[l]]
                           ELSE [prev |-> n, rank |-> 0]]
  <2>1. Walk(k, l) = walk
    BY Zenon DEF Walk
  <2>2. walk = CHOOSE h : P(h)
    BY Zenon
  <2> HIDE DEF walk
  <2>3. P(g)
    BY <1>7 DEF Walks, GoesOn
  <2>4. P(walk)
    <3> HIDE DEF P
    <3> QED
      BY <2>2, <2>3
  <2> QED
    BY <2>1, <2>4 DEF Walks, GoesOn
<1> QED
  BY <1>8, <1>9

\* b holds the place at which the search for k stops on each level.
Stops(c, S, k, b) ==
  /\ b \in [Levels -> 0 .. Len(c)]
  /\ \A l \in Levels : StopsAt(c, S[l], k, b[l])

LEMMA StopsExist ==
  ASSUME NEW c \in Seq(Node), NEW S, Shape(c, S), NEW k \in Int
  PROVE  \E b : Stops(c, S, k, b)
<1> DEFINE b == [l \in Levels |-> CHOOSE i \in 0 .. Len(c) : StopsAt(c, S[l], k, i)]
<1>1. ASSUME NEW l \in Levels PROVE b[l] \in 0 .. Len(c) /\ StopsAt(c, S[l], k, b[l])
  <2>1. \E i \in 0 .. Len(c) : StopsAt(c, S[l], k, i)
    BY StopExists
  <2> QED
    BY <2>1
<1>2. b \in [Levels -> 0 .. Len(c)]
  BY <1>1
<1> HIDE DEF b
<1> QED
  BY <1>1, <1>2 DEF Stops

\* The stops only move on from level to level; on level 0 the keys up to the stop are
\* those below k.
LEMMA StopFacts ==
  ASSUME NEW c \in Seq(Node), NEW S, Shape(c, S), NEW k \in Int, NEW b, Stops(c, S, k, b)
  PROVE  /\ \A l \in Levels : b[l] \in 0 .. Len(c) /\ b[l] \in S[l] \cup {0}
         /\ \A l, m \in Levels : l <= m => b[m] <= b[l]
         /\ \A i \in 1 .. Len(c) : i <= b[0] <=> KeyAt(c, i) < k
<1>1. Len(c) \in Nat /\ 0 \in Levels /\ \A l \in Levels : S[l] \subseteq 1 .. Len(c)
  BY ShapeFacts
<1>2. \A i \in 1 .. Len(c) : KeyAt(c, i) \in Int
  BY ShapeFacts
<1>3. \A l \in Levels : b[l] \in 0 .. Len(c) /\ b[l] \in S[l] \cup {0}
  BY DEF Stops, StopsAt
<1>4. ASSUME NEW l \in Levels, NEW m \in Levels, l <= m PROVE b[m] <= b[l]
  <2> SUFFICES ASSUME b[m] > b[l] PROVE FALSE
    BY <1>3
  <2>1. b[m] # 0 /\ b[m] \in S[m]
    BY <1>3
  <2>2. b[m] \in S[l]
    BY <1>4, <2>1 DEF Shape, LevelSets
  <2>3. KeyAt(c, b[m]) < k
    BY <2>1 DEF Stops, StopsAt
  <2>4. KeyAt(c, b[m]) >= k
    <3>1. ~(b[m] <= b[l])
      BY <1>3
    <3> QED
      BY <2>2, <3>1 DEF Stops, StopsAt
  <2>5. KeyAt(c, b[m]) \in Int
    BY <1>1, <1>2, <2>1
  <2> QED
    BY <2>3, <2>4, <2>5
<1>5. ASSUME NEW i \in 1 .. Len(c) PROVE i <= b[0] <=> KeyAt(c, i) < k
  <2>1. CASE i <= b[0]
    <3>1. b[0] # 0 /\ b[0] \in 1 .. Len(c)
      BY <1>1, <1>3, <2>1
    <3>2. KeyAt(c, b[0]) < k
      BY <1>1, <3>1 DEF Stops, StopsAt
    <3>3. KeyAt(c, i) <= KeyAt(c, b[0])
      BY <1>1, <1>2, <2>1, <3>1 DEF Shape, Sorted
    <3>4. KeyAt(c, i) \in Int /\ KeyAt(c, b[0]) \in Int
      BY <1>2, <3>1
    <3> QED
      BY <2>1, <3>2, <3>3, <3>4
  <2>2. CASE ~(i <= b[0])
    <3>1. i \in S[0]
      BY DEF Shape, LevelSets
    <3>2. KeyAt(c, i) >= k
      BY <1>1, <2>2, <3>1 DEF Stops, StopsAt
    <3>3. KeyAt(c, i) \in Int
      BY <1>2
    <3> QED
      BY <2>2, <3>2, <3>3
  <2> QED
    BY <2>1, <2>2
<1> QED
  BY <1>3, <1>4, <1>5

\* The traversal finds the stops, and their places as their ranks.
LEMMA TraverseIs ==
  ASSUME NEW c \in Seq(Node), NEW S, Shape(c, S), NEW k \in Int, NEW b, Stops(c, S, k, b)
  PROVE  Traverse(k) = [l \in Levels |-> [prev |-> At(c, b[l]), rank |-> b[l]]]
<1> DEFINE top == MaxNodeHeight - 1
           g == [l \in Levels |-> [prev |-> At(c, b[l]), rank |-> b[l]]]
           AboveOf(h, l) == IF l = top THEN [prev |-> HeadNode, rank |-> 0] ELSE h[l + 1]
           Step(h, l) == [Walk(k, l)[AboveOf(h, l).prev] EXCEPT !.rank = @ + AboveOf(h, l).rank]
           P(h) == h = [l \in Levels |-> Step(h, l)]
<1>1. Len(c) \in Nat /\ \A l \in Levels : S[l] \subseteq 1 .. Len(c)
  BY ShapeFacts
<1>2. /\ \A l \in Levels : b[l] \in 0 .. Len(c) /\ b[l] \in S[l] \cup {0}
      /\ \A l, m \in Levels : l <= m => b[m] <= b[l]
  BY StopFacts
<1>3. ASSUME NEW l \in Levels, NEW i \in S[l] \cup {0}, i <= b[l]
      PROVE  Walk(k, l)[At(c, i)] = [prev |-> At(c, b[l]), rank |-> b[l] - i]
  <2>1. StopsAt(c, S[l], k, b[l])
    BY DEF Stops
  <2>2. b[l] \in 0 .. Len(c)
    BY <1>2
  <2>3. \A m \in S[l] \cup {0} :
          m <= b[l] => Walk(k, l)[At(c, m)] = [prev |-> At(c, b[l]), rank |-> b[l] - m]
    BY <2>1, <2>2, WalkIs
  <2> QED
    BY <1>3, <2>3
<1>4. ASSUME NEW h, NEW l \in Levels, l = top \/ h[l + 1] = g[l + 1]
      PROVE  Step(h, l) = g[l]
  <2>1. PICK i \in S[l] \cup {0} : i <= b[l] /\ AboveOf(h, l) = [prev |-> At(c, i), rank |-> i]
    <3>1. CASE l = top
      BY <1>2, <3>1 DEF At
    <3>2. CASE l # top
      <4>1. l + 1 \in Levels /\ l <= l + 1
        BY <3>2, HeightAssumption DEF Levels
      <4>2. b[l + 1] <= b[l] /\ b[l + 1] \in S[l] \cup {0}
        <5>1. S[l + 1] \subseteq S[l]
          BY <4>1 DEF Shape, LevelSets
        <5> QED
          BY <1>2, <4>1, <5>1
      <4>3. g[l + 1] = [prev |-> At(c, b[l + 1]), rank |-> b[l + 1]]
        BY <4>1
      <4>4. AboveOf(h, l) = [prev |-> At(c, b[l + 1]), rank |-> b[l + 1]]
        BY <1>4, <3>2, <4>3
      <4> QED
        BY <4>2, <4>4
    <3> QED
      BY <3>1, <3>2
  <2>2. Walk(k, l)[At(c, i)] = [prev |-> At(c, b[l]), rank |-> b[l] - i]
    BY <1>3, <2>1
  <2>3. (b[l] - i) + i = b[l]
    BY <1>1, <1>2
  <2> HIDE DEF AboveOf
  <2>4. Step(h, l) = [prev |-> At(c, b[l]), rank |-> b[l]]
    BY <2>1, <2>2, <2>3
  <2> QED
    BY <2>4
<1>5. P(g)
  <2>1. ASSUME NEW l \in Levels PROVE Step(g, l) = g[l]
    BY <1>4
  <2>2. g = [l \in Levels |-> g[l]]
    OBVIOUS
  <2> HIDE DEF g, Step
  <2> QED
    BY <2>1, <2>2
<1>6. ASSUME NEW h, P(h) PROVE h = g
  <2> DEFINE wrong == {l \in Levels : h[l] # g[l]}
  <2>1. wrong = {}
    <3> SUFFICES ASSUME wrong # {} PROVE FALSE
      OBVIOUS
    <3>1. wrong \in SUBSET (0 .. top) /\ top \in Nat
      BY HeightAssumption DEF Levels
    <3>2. PICK l \in wrong : \A m \in wrong : m <= l
      <4> HIDE DEF wrong, top
      <4> QED
        BY <3>1, GreatestNumber
    <3>3. l = top \/ h[l + 1] = g[l + 1]
      <4> SUFFICES ASSUME l # top PROVE l + 1 \notin wrong /\ l + 1 \in Levels
        OBVIOUS
      <4>1. l \in Levels /\ l + 1 \in Levels /\ ~(l + 1 <= l)
        BY HeightAssumption DEF Levels
      <4> QED
        BY <3>2, <4>1
    <3>4. h[l] = Step(h, l)
      <4> HIDE DEF Step
      <4> QED
        BY <1>6
    <3>5. Step(h, l) = g[l]
      <4> HIDE DEF Step, g, top
      <4> QED
        BY <1>4, <3>3
    <3> QED
      BY <3>4, <3>5
  <2>2. h = [l \in Levels |-> h[l]]
    <3> HIDE DEF Step
    <3> QED
      BY <1>6
  <2>3. \A l \in Levels : h[l] = g[l]
    BY <2>1
  <2>4. g = [l \in Levels |-> g[l]]
    OBVIOUS
  <2> HIDE DEF g, wrong, P
  <2> QED
    BY <2>2, <2>3, <2>4
<1>7. Traverse(k) = g
  <2> DEFINE context[l \in Levels] ==
               LET above == IF l = MaxNodeHeight - 1 THEN [prev |-> HeadNode, rank |-> 0]
                                                     ELSE context[l + 1]
               IN  [Walk(k, l)[above.prev] EXCEPT !.rank = @ + above.rank]
  <2>1. Traverse(k) = [l \in Levels |-> context[l]]
    BY Zenon DEF Traverse
  <2>2. context = CHOOSE h : P(h)
    BY Zenon
  <2> HIDE DEF context
  <2>3. context = g
    <3> HIDE DEF P, g
    <3> QED
      BY <1>5, <1>6, <2>2
  <2> QED
    BY <2>1, <2>3
<1> QED
  BY <1>7

\* b holds the stops of the search for k and j the places that follow them.
Search(c, S, k, b, j) ==
  /\ Stops(c, S, k, b)
  /\ j \in [Levels -> 1 .. Len(c) + 1]
  /\ \A l \in Levels : NextIn(S[l], Len(c), b[l], j[l])

LEMMA SearchExists ==
  ASSUME NEW c \in Seq(Node), NEW S, Shape(c, S), NEW k \in Int
  PROVE  \E b, j : Search(c, S, k, b, j)
<1>1. Len(c) \in Nat /\ \A l \in Levels : S[l] \subseteq 1 .. Len(c)
  BY ShapeFacts
<1>2. PICK b : Stops(c, S, k, b)
  BY StopsExist
<1>3. \A l \in Levels : b[l] \in 0 .. Len(c)
  BY <1>2 DEF Stops
<1> DEFINE j == [l \in Levels |->
                   CHOOSE i \in 1 .. Len(c) + 1 : NextIn(S[l], Len(c), b[l], i)]
<1>4. ASSUME NEW l \in Levels
      PROVE  j[l] \in 1 .. Len(c) + 1 /\ NextIn(S[l], Len(c), b[l], j[l])
  <2>1. \E i \in 1 .. Len(c) + 1 : NextIn(S[l], Len(c), b[l], i)
    BY <1>1, <1>3, NextExists
  <2> QED
    BY <2>1
<1>5. j \in [Levels -> 1 .. Len(c) + 1]
  BY <1>4
<1> HIDE DEF j
<1> QED
  BY <1>2, <1>4, <1>5 DEF Search

\* What a search comes by: on level 0 the place behind the stop, on every level that
\* place or a later one; the levels that meet k are those below some level.
LEMMA SearchFacts ==
  ASSUME NEW c \in Seq(Node), NEW S, Shape(c, S), NEW k \in Int,
         NEW b, NEW j, Search(c, S, k, b, j)
  PROVE  /\ \A l \in Levels : /\ j[l] \in 1 .. Len(c) + 1
                              /\ j[l] # Len(c) + 1 => j[l] \in S[l] /\ j[l] \in 1 .. Len(c)
                              /\ After(Traverse(k), l) =
                                   IF j[l] = Len(c) + 1 THEN Null ELSE c[j[l]]
                              /\ b[l] <= b[0] /\ b[0] < j[l]
                              /\ b[0] + 1 \in S[l] => j[l] = b[0] + 1
                              /\ j[l] # Len(c) + 1 => KeyAt(c, j[l]) >= k
         /\ j[0] = b[0] + 1 /\ b[0] \in 0 .. Len(c)
         /\ Hits(Traverse(k), k) = {l \in Levels : j[l] # Len(c) + 1 /\ KeyAt(c, j[l]) = k}
         /\ \A l, m \in Levels : l <= m => j[l] <= j[m]
<1>1. /\ Len(c) \in Nat /\ 0 \in Levels
      /\ \A l \in Levels : S[l] \subseteq 1 .. Len(c)
      /\ \A i \in 1 .. Len(c) : KeyAt(c, i) \in Int /\ c[i] # Null
  BY ShapeFacts
<1>2. Stops(c, S, k, b)
  BY DEF Search
<1>3. /\ \A l \in Levels : b[l] \in 0 .. Len(c) /\ b[l] \in S[l] \cup {0}
      /\ \A l, m \in Levels : l <= m => b[m] <= b[l]
      /\ \A i \in 1 .. Len(c) : i <= b[0] <=> KeyAt(c, i) < k
  BY <1>2, StopFacts
<1>4. \A l \in Levels : l \in Nat
  BY DEF Levels
<1>5. ASSUME NEW l \in Levels
      PROVE  /\ j[l] \in 1 .. Len(c) + 1
             /\ j[l] # Len(c) + 1 => j[l] \in S[l] /\ j[l] \in 1 .. Len(c)
             /\ b[l] < j[l]
             /\ \A m \in S[l] : m <= b[l] \/ j[l] <= m
  <2>1. j[l] \in 1 .. Len(c) + 1 /\ NextIn(S[l], Len(c), b[l], j[l])
    BY DEF Search
  <2> QED
    BY <1>1, <2>1 DEF NextIn
<1>6. \A l \in Levels : b[l] <= b[0]
  BY <1>1, <1>3, <1>4
<1>7. ASSUME NEW l \in Levels, j[l] # Len(c) + 1 PROVE KeyAt(c, j[l]) >= k
  <2>1. j[l] \in S[l] /\ ~(j[l] <= b[l])
    BY <1>1, <1>3, <1>5, <1>7
  <2> QED
    BY <1>2, <2>1 DEF Stops, StopsAt
<1>8. ASSUME NEW l \in Levels PROVE b[0] < j[l]
  <2>1. CASE j[l] = Len(c) + 1
    BY <1>1, <1>3, <2>1
  <2>2. CASE j[l] # Len(c) + 1
    <3>1. j[l] \in 1 .. Len(c) /\ KeyAt(c, j[l]) \in Int /\ ~(KeyAt(c, j[l]) < k)
      BY <1>1, <1>5, <1>7, <2>2
    <3>2. ~(j[l] <= b[0])
      BY <1>3, <3>1
    <3> QED
      BY <1>1, <1>3, <3>1, <3>2
  <2> QED
    BY <2>1, <2>2
<1>9. ASSUME NEW l \in Levels, b[0] + 1 \in S[l] PROVE j[l] = b[0] + 1
  <2>1. b[0] + 1 <= b[l] \/ j[l] <= b[0] + 1
    BY <1>5, <1>9
  <2>2. b[0] \in Int /\ b[l] \in Int /\ j[l] \in Int /\ b[l] <= b[0] /\ b[0] < j[l]
    BY <1>1, <1>3, <1>5, <1>6, <1>8
  <2> QED
    BY <2>1, <2>2
<1>10. j[0] = b[0] + 1
  <2>1. CASE b[0] = Len(c)
    BY <1>1, <1>5, <1>8, <2>1
  <2>2. CASE b[0] # Len(c)
    <3>1. b[0] + 1 \in 1 .. Len(c)
      BY <1>1, <1>3, <2>2
    <3> QED
      BY <1>1, <1>9, <3>1 DEF Shape, LevelSets
  <2> QED
    BY <2>1, <2>2
<1>11. ASSUME NEW l \in Levels
       PROVE  After(Traverse(k), l) = IF j[l] = Len(c) + 1 THEN Null ELSE c[j[l]]
  <2>1. Traverse(k)[l].prev = At(c, b[l])
    BY <1>2, TraverseIs
  <2>2. node[At(c, b[l])].next[l] = IF j[l] = Len(c) + 1 THEN Null ELSE c[j[l]]
    <3>1. j[l] \in 1 .. Len(c) + 1 /\ NextIn(S[l], Len(c), b[l], j[l]) /\ b[l] \in S[l] \cup {0}
      BY <1>3 DEF Search
    <3> QED
      BY <3>1 DEF Shape, Linked
  <2> QED
    BY <2>1, <2>2 DEF After
<1>12. Hits(Traverse(k), k) = {l \in Levels : j[l] # Len(c) + 1 /\ KeyAt(c, j[l]) = k}
  <2>1. ASSUME NEW l \in Levels
        PROVE  (After(Traverse(k), l) # Null /\ node[After(Traverse(k), l)].key = k)
                 <=> (j[l] # Len(c) + 1 /\ KeyAt(c, j[l]) = k)
    <3>1. CASE j[l] = Len(c) + 1
      BY <1>11, <3>1
    <3>2. CASE j[l] # Len(c) + 1
      BY <1>1, <1>5, <1>11, <3>2 DEF KeyAt
    <3> QED
      BY <3>1, <3>2
  <2> QED
    BY <2>1 DEF Hits
<1>13. ASSUME NEW l \in Levels, NEW m \in Levels, l <= m PROVE j[l] <= j[m]
  <2>1. CASE j[m] = Len(c) + 1
    BY <1>1, <1>5, <2>1
  <2>2. CASE j[m] # Len(c) + 1
    <3>1. j[m] \in S[l]
      BY <1>5, <1>13, <2>2 DEF Shape, LevelSets
    <3>2. ~(j[m] <= b[l])
      <4>1. b[l] <= b[0] /\ b[0] < j[m]
        BY <1>6, <1>8
      <4> QED
        BY <1>1, <1>3, <1>5, <4>1
    <3> QED
      BY <1>5, <3>1, <3>2
  <2> QED
    BY <2>1, <2>2
<1>14. ASSUME NEW l \in Levels
       PROVE  /\ j[l] \in 1 .. Len(c) + 1
              /\ j[l] # Len(c) + 1 => j[l] \in S[l] /\ j[l] \in 1 .. Len(c)
              /\ After(Traverse(k), l) = IF j[l] = Len(c) + 1 THEN Null ELSE c[j[l]]
              /\ b[l] <= b[0] /\ b[0] < j[l]
              /\ b[0] + 1 \in S[l] => j[l] = b[0] + 1
              /\ j[l] # Len(c) + 1 => KeyAt(c, j[l]) >= k
  BY <1>5, <1>6, <1>7, <1>8, <1>9, <1>11
<1>15. b[0] \in 0 .. Len(c)
  BY <1>1, <1>3
<1> QED
  BY <1>10, <1>12, <1>13, <1>14, <1>15
-----------------------------------------------------------------------------
(* Inserting: the new node takes the place p, and the places from p on move up. *)

\* Where the node of place i was before a node took place p.
Old(p, i) == IF i < p THEN i ELSE i - 1

WithPlace(A, N, p, l, h) ==
  {y \in 1 .. N + 1 : (y = p /\ l < h) \/ (y < p /\ y \in A) \/ (p < y /\ y - 1 \in A)}

\* What follows place i before and after; p comes behind stop, and what followed stop
\* comes behind p.
MovedUp(A, N, p, l, h, stop, i, j) ==
  /\ i = p => l < h /\ p < j /\ NextIn(A, N, stop, j - 1)
  /\ i = stop /\ l < h => j = p
  /\ i # p /\ ~(i = stop /\ l < h) =>
       /\ j # p /\ NextIn(A, N, Old(p, i), Old(p, j))
       /\ Old(p, i) \in A \cup {0} /\ Old(p, j) \in 1 .. N + 1
       /\ i < p <=> Old(p, i) <= stop
       /\ i < p /\ i # stop => j < p

LEMMA NextWithPlace ==
  ASSUME NEW N \in Nat, NEW A \in SUBSET (1 .. N), NEW p \in 1 .. N + 1, NEW l \in Int, NEW h \in Int,
         NEW stop \in A \cup {0}, stop < p, \A m \in A : m <= stop \/ p <= m,
         NEW T, T = WithPlace(A, N, p, l, h),
         NEW i \in T \cup {0}, NEW j \in 1 .. N + 2, NextIn(T, N + 1, i, j)
  PROVE  MovedUp(A, N, p, l, h, stop, i, j)
<1>1. /\ i < j /\ j \in T \cup {N + 2} /\ \A m \in T : m <= i \/ j <= m
      /\ i \in Nat /\ i <= N + 1 /\ stop \in Nat
  <2>1. (N + 1) + 1 = N + 2
    OBVIOUS
  <2> QED
    BY <2>1 DEF NextIn, WithPlace
<1>2. \A y \in 1 .. N + 1 :
        y \in T <=> (y = p /\ l < h) \/ (y < p /\ y \in A) \/ (p < y /\ y - 1 \in A)
  BY DEF WithPlace
<1>3. /\ \A m \in A : m < p => m \in T
      /\ \A m \in A : p <= m => m + 1 \in T
      /\ l < h => p \in T
      /\ stop # 0 => stop \in T
  <2>1. ASSUME NEW m \in A, m < p PROVE m \in T
    <3>1. m \in 1 .. N + 1
      OBVIOUS
    <3> QED
      BY <1>2, <2>1, <3>1
  <2>2. ASSUME NEW m \in A, p <= m PROVE m + 1 \in T
    <3>1. m + 1 \in 1 .. N + 1 /\ p < m + 1 /\ (m + 1) - 1 = m
      BY <2>2
    <3> QED
      BY <1>2, <3>1
  <2>3. stop # 0 => stop \in T
    BY <2>1
  <2> QED
    BY <1>2, <2>1, <2>2, <2>3
<1>4. i \in 1 .. N + 1 \/ i = 0
  BY <1>1
<1>5. j \in 1 .. N + 1 \/ j = N + 2
  OBVIOUS
<1>6. ASSUME i = p PROVE l < h /\ p < j /\ NextIn(A, N, stop, j - 1)
  <2>1. l < h /\ p < j
    BY <1>1, <1>2, <1>4, <1>6
  <2>2. j - 1 \in A \cup {N + 1}
    <3>1. CASE j = N + 2
      BY <3>1
    <3>2. CASE j # N + 2
      <4>1. j \in 1 .. N + 1 /\ j \in T
        BY <1>1, <1>5, <3>2
      <4>2. p < j /\ j # p /\ ~(j < p)
        BY <2>1
      <4> QED
        BY <1>2, <4>1, <4>2
    <3> QED
      BY <3>1, <3>2
  <2>3. stop < j - 1
    BY <1>1, <2>1
  <2>4. \A m \in A : m <= stop \/ j - 1 <= m
    <3> TAKE m \in A
    <3>1. CASE m < p
      BY <3>1
    <3>2. CASE p <= m
      <4>1. m + 1 <= i \/ j <= m + 1
        BY <1>1, <1>3, <3>2
      <4>2. m \in Nat
        OBVIOUS
      <4> QED
        BY <1>6, <3>2, <4>1, <4>2
    <3> QED
      BY <3>1, <3>2
  <2> QED
    BY <2>1, <2>2, <2>3, <2>4 DEF NextIn
<1>7. ASSUME i = stop, l < h PROVE j = p
  <2>1. j <= p
    <3>1. p <= i \/ j <= p
      BY <1>1, <1>3, <1>7
    <3>2. ~(p <= i)
      BY <1>1, <1>7
    <3> QED
      BY <3>1, <3>2
  <2>2. ~(j < p)
    <3> SUFFICES ASSUME j < p PROVE FALSE
      OBVIOUS
    <3>1. j \in A
      BY <1>1, <1>2, <1>5
    <3> QED
      BY <1>1, <1>7, <3>1
  <2> QED
    BY <2>1, <2>2
<1>8. ASSUME i # p, ~(i = stop /\ l < h)
      PROVE  /\ j # p /\ NextIn(A, N, Old(p, i), Old(p, j))
             /\ Old(p, i) \in A \cup {0} /\ Old(p, j) \in 1 .. N + 1
             /\ i < p <=> Old(p, i) <= stop
             /\ i < p /\ i # stop => j < p
  <2>1. i < p => i \in A \cup {0} /\ i <= stop
    <3> SUFFICES ASSUME i < p, i # 0 PROVE i \in A /\ i <= stop
      BY <1>1
    <3>1. i \in A
      BY <1>2, <1>4
    <3> QED
      BY <1>1, <3>1
  <2>2. p < i => i - 1 \in A /\ i - 1 \in Nat
    BY <1>1, <1>2, <1>4
  <2>3. i < p \/ p < i
    BY <1>1, <1>8
  <2>4. i < p /\ i # stop => j <= stop
    <3> SUFFICES ASSUME i < p, i # stop PROVE j <= stop
      OBVIOUS
    <3>1. i < stop /\ stop # 0
      BY <1>1, <2>1
    <3>2. stop <= i \/ j <= stop
      BY <1>1, <1>3, <3>1
    <3> QED
      BY <1>1, <3>1, <3>2
  <2>5. j # p
    <3> SUFFICES ASSUME j = p PROVE FALSE
      OBVIOUS
    <3>1. l < h
      BY <1>1, <1>2, <1>5
    <3>2. i < p
      BY <1>1
    <3> QED
      BY <1>1, <1>8, <2>4, <3>1, <3>2
  <2>6. j < p => j \in A
    BY <1>1, <1>2, <1>5
  <2>7. p < j => j - 1 \in A \cup {N + 1}
    <3>1. CASE j = N + 2
      BY <3>1
    <3>2. CASE j # N + 2
      BY <1>1, <1>2, <1>5, <3>2
    <3> QED
      BY <3>1, <3>2
  <2>8. Old(p, i) \in A \cup {0} /\ Old(p, j) \in (A \cup {N + 1}) /\ Old(p, i) < Old(p, j)
    <3>1. Old(p, i) \in A \cup {0}
      BY <2>1, <2>2, <2>3 DEF Old
    <3>2. Old(p, j) \in A \cup {N + 1}
      BY <2>5, <2>6, <2>7 DEF Old
    <3>3. Old(p, i) < Old(p, j)
      BY <1>1, <2>3, <2>5 DEF Old
    <3> QED
      BY <3>1, <3>2, <3>3
  <2>9. \A m \in A : m <= Old(p, i) \/ Old(p, j) <= m
    <3> TAKE m \in A
    <3>1. CASE m < p
      <4>1. m <= i \/ j <= m
        BY <1>1, <1>3, <3>1
      <4> QED
        BY <1>1, <2>3, <3>1, <4>1 DEF Old
    <3>2. CASE p <= m
      <4>1. m + 1 <= i \/ j <= m + 1
        BY <1>1, <1>3, <3>2
      <4> QED
        BY <1>1, <2>3, <2>5, <3>2, <4>1 DEF Old
    <3> QED
      BY <3>1, <3>2
  <2>10. NextIn(A, N, Old(p, i), Old(p, j))
    BY <2>8, <2>9 DEF NextIn
  <2>11. Old(p, j) \in 1 .. N + 1
    <3>1. \A m \in A : m \in 1 .. N + 1
      OBVIOUS
    <3>2. N + 1 \in 1 .. N + 1
      OBVIOUS
    <3> QED
      BY <2>8, <3>1, <3>2
  <2>12. i < p <=> Old(p, i) <= stop
    BY <1>1, <2>1, <2>3 DEF Old
  <2>13. i < p /\ i # stop => j < p
    BY <1>1, <2>4
  <2> QED
    BY <2>5, <2>8, <2>10, <2>11, <2>12, <2>13
<1> QED
  BY <1>6, <1>7, <1>8 DEF MovedUp

\* Nodes are what IsNode says, so that EXCEPT on them is what one expects.
LEMMA NodeFacts ==
  ASSUME NEW c \in Seq(Node), NEW S, Shape(c, S), NEW m \in DOMAIN node
  PROVE  /\ node[m].height \in 1 .. MaxNodeHeight
         /\ node[m].key \in Key \cup {0} /\ node[m].row \in Buf \cup {Null}
         /\ node[m].next \in [0 .. node[m].height - 1 -> Node \cup {Null}]
         /\ node[m].width \in [0 .. node[m].height - 1 -> Nat]
         /\ node[m] = [key |-> node[m].key, height |-> node[m].height, row |-> node[m].row,
                       next |-> node[m].next, width |-> node[m].width]
         /\ \A l \in 0 .. node[m].height - 1 : l \in Levels
<1>1. PICK h \in 1 .. MaxNodeHeight : node[m] \in NodeOf(h)
  BY DEF Shape, Typed, IsNode
<1>2. node[m].height = h
  BY <1>1 DEF NodeOf
<1>3. \A l \in 0 .. h - 1 : l \in Levels
  BY HeightAssumption DEF Levels
<1> QED
  BY <1>1, <1>2, <1>3 DEF NodeOf

\* The width of level l at the stop, up to the next node or to the end.
Ahead(c, S, b, j, l) == (IF j[l] = Len(c) + 1 THEN Len(c) ELSE j[l]) - b[l]

LEMMA StopWidth ==
  ASSUME NEW c \in Seq(Node), NEW S, Shape(c, S), NEW k \in Int,
         NEW b, NEW j, Search(c, S, k, b, j), NEW l \in Levels
  PROVE  /\ At(c, b[l]) \in DOMAIN node /\ l \in DOMAIN node[At(c, b[l])].width
         /\ node[At(c, b[l])].width[l] = Ahead(c, S, b, j, l)
<1>1. Stops(c, S, k, b)
  BY DEF Search
<1>2. b[l] \in 0 .. Len(c) /\ b[l] \in S[l] \cup {0}
  BY <1>1, StopFacts
<1>3. At(c, b[l]) \in Tall(l)
  BY <1>2, ShapeFacts
<1>4. l \in DOMAIN node[At(c, b[l])].width /\ At(c, b[l]) \in DOMAIN node
  <2>1. At(c, b[l]) \in DOMAIN node /\ node[At(c, b[l])].height > l
    BY <1>3 DEF Tall
  <2>2. /\ node[At(c, b[l])].width \in [0 .. node[At(c, b[l])].height - 1 -> Nat]
        /\ node[At(c, b[l])].height \in 1 .. MaxNodeHeight
    BY <2>1, NodeFacts
  <2>3. l \in 0 .. node[At(c, b[l])].height - 1
    BY <2>1, <2>2 DEF Levels
  <2> QED
    BY <2>1, <2>2, <2>3
<1>5. j[l] \in 1 .. Len(c) + 1 /\ NextIn(S[l], Len(c), b[l], j[l])
  BY DEF Search
<1> QED
  BY <1>2, <1>4, <1>5 DEF Shape, Linked, Ahead

\* M are the nodes once n is linked in with height h behind the stops b.
LinkedIn(M, c, b, j, k, d, n, h) ==
  /\ DOMAIN M = DOMAIN node \cup {n}
  /\ \A m \in DOMAIN M : IsNode(M[m])
  /\ M[n].key = k /\ M[n].height = h /\ M[n].row = d
  /\ \A l \in 0 .. h - 1 :
       /\ M[n].next[l] = IF j[l] = Len(c) + 1 THEN Null ELSE c[j[l]]
       /\ M[n].width[l] = (IF j[l] = Len(c) + 1 THEN Len(c) ELSE j[l]) - b[0]
  /\ \A m \in DOMAIN node :
       /\ M[m].key = node[m].key /\ M[m].height = node[m].height /\ M[m].row = node[m].row
       /\ \A l \in 0 .. node[m].height - 1 :
            /\ M[m].next[l] = IF At(c, b[l]) = m /\ l < h THEN n ELSE node[m].next[l]
            /\ M[m].width[l] = IF At(c, b[l]) # m THEN node[m].width[l]
                               ELSE IF l < h THEN b[0] - b[l] + 1
                               ELSE node[m].width[l] + 1

\* That is what WithNode makes.
LEMMA InsertNodes ==
  ASSUME NEW c \in Seq(Node), NEW S, Shape(c, S), NEW k \in Key, NEW d \in Buf,
         NEW b, NEW j, Search(c, S, k, b, j),
         NEW n \in Node \ DOMAIN node, NEW h \in 1 .. MaxNodeHeight,
         NEW M, M = WithNode(n, k, h, d)
  PROVE  LinkedIn(M, c, b, j, k, d, n, h)
<1> DEFINE context == Traverse(k)
           distance(l) == context[0].rank - context[l].rank
           oldWidth(l) == node[context[l].prev].width[l]
           new == [NewNode(k, h, d) EXCEPT
                     !.next = [l \in DOMAIN @ |-> After(context, l)],
                     !.width = [l \in DOMAIN @ |-> InsertWidth(oldWidth(l), distance(l))]]
           relinked(m) == [node[m] EXCEPT
                     !.next = [l \in DOMAIN @ |->
                                 IF context[l].prev = m /\ l \in LinkedLevels(h)
                                   THEN n ELSE @[l]],
                     !.width = [l \in DOMAIN @ |->
                                 IF context[l].prev # m THEN @[l]
                                 ELSE IF l < h THEN distance(l) + 1 ELSE WidthAbove(@[l])]]
<1>1. M = [m \in DOMAIN node \cup {n} |-> IF m = n THEN new ELSE relinked(m)]
  BY Zenon DEF WithNode
<1>2. k \in Int /\ Stops(c, S, k, b)
  BY KeyAssumption DEF Search
<1>3. /\ Len(c) \in Nat /\ 0 \in Levels
      /\ \A i \in 1 .. Len(c) : c[i] \in Node
  BY ShapeFacts
<1>4. /\ \A l \in Levels : /\ j[l] \in 1 .. Len(c) + 1
                           /\ j[l] # Len(c) + 1 => j[l] \in S[l] /\ j[l] \in 1 .. Len(c)
                           /\ After(context, l) = IF j[l] = Len(c) + 1 THEN Null ELSE c[j[l]]
                           /\ b[l] <= b[0] /\ b[0] < j[l]
      /\ b[0] \in 0 .. Len(c)
  BY <1>2, SearchFacts
<1>5. \A l \in Levels : b[l] \in 0 .. Len(c)
  BY <1>2 DEF Stops
<1>6. \A l \in Levels : context[l].prev = At(c, b[l]) /\ distance(l) = b[0] - b[l]
  BY <1>2, <1>3, TraverseIs
<1>7. \A l \in Levels : oldWidth(l) = Ahead(c, S, b, j, l)
  BY <1>2, <1>6, StopWidth
<1>8. \A l \in 0 .. h - 1 : l \in Levels
  BY HeightAssumption DEF Levels
<1>9. \A l \in Levels : InsertWidth(oldWidth(l), distance(l))
                          = (IF j[l] = Len(c) + 1 THEN Len(c) ELSE j[l]) - b[0]
  <2> TAKE l \in Levels
  <2>1. oldWidth(l) = Ahead(c, S, b, j, l) /\ distance(l) = b[0] - b[l]
    BY <1>6, <1>7
  <2>2. j[l] \in 1 .. Len(c) + 1 /\ b[l] \in 0 .. Len(c) /\ b[0] \in 0 .. Len(c)
        /\ b[l] <= b[0] /\ b[0] < j[l]
    BY <1>4, <1>5
  <2> HIDE DEF oldWidth, distance
  <2> QED
    BY <1>3, <2>1, <2>2 DEF Ahead, InsertWidth
<1>10. \A l \in Levels : (IF j[l] = Len(c) + 1 THEN Len(c) ELSE j[l]) - b[0] \in Nat
  BY <1>3, <1>4
<1>11. \A l \in Levels : b[0] - b[l] + 1 \in Nat
  BY <1>3, <1>4, <1>5
<1>12. \A l \in Levels : After(context, l) \in Node \cup {Null}
  BY <1>3, <1>4
<1> HIDE DEF context
<1> DEFINE newNexts == [l \in 0 .. h - 1 |-> After(context, l)]
           newWidths == [l \in 0 .. h - 1 |-> InsertWidth(oldWidth(l), distance(l))]
<1>13. new = [key |-> k, height |-> h, row |-> d, next |-> newNexts, width |-> newWidths]
  <2>1. DOMAIN NewNode(k, h, d).next = 0 .. h - 1 /\ DOMAIN NewNode(k, h, d).width = 0 .. h - 1
    BY DEF NewNode
  <2>2. new = [NewNode(k, h, d) EXCEPT !.next = newNexts, !.width = newWidths]
    BY <2>1, Zenon
  <2> HIDE DEF new, newNexts, newWidths
  <2> QED
    BY <2>2 DEF NewNode
<1> HIDE DEF new, oldWidth, distance
<1>14. M[n] = new /\ \A m \in DOMAIN node : M[m] = relinked(m)
  BY <1>1
<1> HIDE DEF relinked
<1>15. /\ M[n].key = k /\ M[n].height = h /\ M[n].row = d
       /\ \A l \in 0 .. h - 1 :
            /\ M[n].next[l] = IF j[l] = Len(c) + 1 THEN Null ELSE c[j[l]]
            /\ M[n].width[l] = (IF j[l] = Len(c) + 1 THEN Len(c) ELSE j[l]) - b[0]
  <2>1. \A l \in 0 .. h - 1 :
            /\ newNexts[l] = IF j[l] = Len(c) + 1 THEN Null ELSE c[j[l]]
            /\ newWidths[l] = (IF j[l] = Len(c) + 1 THEN Len(c) ELSE j[l]) - b[0]
    BY <1>4, <1>8, <1>9
  <2> HIDE DEF newNexts, newWidths
  <2>2. /\ M[n].key = k /\ M[n].height = h /\ M[n].row = d
        /\ M[n].next = newNexts /\ M[n].width = newWidths
    <3>1. M[n] = [key |-> k, height |-> h, row |-> d, next |-> newNexts, width |-> newWidths]
      BY <1>13, <1>14, Zenon
    <3> QED
      BY <3>1
  <2> QED
    BY <2>1, <2>2
<1>16. IsNode(M[n])
  <2>1. newNexts \in [0 .. h - 1 -> Node \cup {Null}]
    BY <1>8, <1>12
  <2>2. newWidths \in [0 .. h - 1 -> Nat]
    BY <1>8, <1>9, <1>10
  <2> HIDE DEF newNexts, newWidths
  <2>3. M[n] \in NodeOf(h)
    <3>1. M[n] = [key |-> k, height |-> h, row |-> d, next |-> newNexts, width |-> newWidths]
      BY <1>13, <1>14, Zenon
    <3> QED
      BY <2>1, <2>2, <3>1 DEF NodeOf
  <2> QED
    BY <2>3 DEF IsNode
<1>17. ASSUME NEW m \in DOMAIN node
       PROVE  /\ IsNode(M[m])
              /\ M[m].key = node[m].key /\ M[m].height = node[m].height /\ M[m].row = node[m].row
              /\ \A l \in 0 .. node[m].height - 1 :
                   /\ M[m].next[l] = IF At(c, b[l]) = m /\ l < h THEN n ELSE node[m].next[l]
                   /\ M[m].width[l] = IF At(c, b[l]) # m THEN node[m].width[l]
                                      ELSE IF l < h THEN b[0] - b[l] + 1
                                      ELSE node[m].width[l] + 1
  <2> DEFINE H == node[m].height
             nexts == [l \in 0 .. H - 1 |->
                         IF context[l].prev = m /\ l \in LinkedLevels(h) THEN n
                         ELSE node[m].next[l]]
             widths == [l \in 0 .. H - 1 |->
                          IF context[l].prev # m THEN node[m].width[l]
                          ELSE IF l < h THEN distance(l) + 1 ELSE WidthAbove(node[m].width[l])]
  <2>1. /\ H \in 1 .. MaxNodeHeight
        /\ node[m].key \in Key \cup {0} /\ node[m].row \in Buf \cup {Null}
        /\ node[m].next \in [0 .. H - 1 -> Node \cup {Null}]
        /\ node[m].width \in [0 .. H - 1 -> Nat]
        /\ node[m] = [key |-> node[m].key, height |-> H, row |-> node[m].row,
                      next |-> node[m].next, width |-> node[m].width]
        /\ \A l \in 0 .. H - 1 : l \in Levels
    BY NodeFacts
  <2>2. DOMAIN node[m].next = 0 .. H - 1 /\ DOMAIN node[m].width = 0 .. H - 1
    BY <2>1
  <2>3. M[m] = [key |-> node[m].key, height |-> H, row |-> node[m].row,
                next |-> nexts, width |-> widths]
    <3>1. relinked(m) = [node[m] EXCEPT !.next = nexts, !.width = widths]
      BY <2>2, Zenon DEF relinked
    <3>2. M[m] = relinked(m)
      BY <1>14
    <3> HIDE DEF relinked, nexts, widths
    <3> QED
      BY <2>1, <3>1, <3>2
  <2> HIDE DEF relinked
  <2>4. \A l \in 0 .. H - 1 :
          /\ nexts[l] = IF At(c, b[l]) = m /\ l < h THEN n ELSE node[m].next[l]
          /\ widths[l] = IF At(c, b[l]) # m THEN node[m].width[l]
                         ELSE IF l < h THEN b[0] - b[l] + 1 ELSE node[m].width[l] + 1
    <3> TAKE l \in 0 .. H - 1
    <3>1. l \in Levels /\ context[l].prev = At(c, b[l]) /\ distance(l) = b[0] - b[l]
      BY <1>6, <2>1
    <3>2. l \in LinkedLevels(h) <=> l < h
      BY <2>1 DEF LinkedLevels
    <3> QED
      BY <3>1, <3>2 DEF WidthAbove
  <2>5. nexts \in [0 .. H - 1 -> Node \cup {Null}]
    BY <2>1, <2>4
  <2>6. widths \in [0 .. H - 1 -> Nat]
    <3>1. \A l \in 0 .. H - 1 : widths[l] \in Nat
      <4> TAKE l \in 0 .. H - 1
      <4>1. node[m].width[l] \in Nat /\ b[0] - b[l] + 1 \in Nat
        BY <1>11, <2>1
      <4>2. node[m].width[l] + 1 \in Nat
        BY <4>1
      <4> HIDE DEF widths
      <4>3. widths[l] \in {node[m].width[l], b[0] - b[l] + 1, node[m].width[l] + 1}
        BY <2>4
      <4> QED
        BY <4>1, <4>2, <4>3
    <3> HIDE DEF H
    <3> QED
      BY <3>1
  <2> HIDE DEF nexts, widths
  <2>7. IsNode(M[m])
    <3>1. M[m] \in NodeOf(H)
      BY <2>1, <2>3, <2>5, <2>6 DEF NodeOf
    <3> QED
      BY <2>1, <3>1 DEF IsNode
  <2>8. /\ M[m].key = node[m].key /\ M[m].height = node[m].height /\ M[m].row = node[m].row
        /\ M[m].next = nexts /\ M[m].width = widths
    BY <2>3
  <2> QED
    BY <2>4, <2>7, <2>8
<1> QED
  BY <1>1, <1>15, <1>16, <1>17 DEF LinkedIn

\* The list c with n at place p.
Inserted(c, p, n) == [i \in 1 .. Len(c) + 1 |-> IF i < p THEN c[i] ELSE IF i = p THEN n ELSE c[i - 1]]

InsertedAt(e, c, p, n) ==
  /\ e \in Seq(Node) /\ Len(e) = Len(c) + 1 /\ e[p] = n
  /\ \A i \in 1 .. Len(c) + 1 : i # p => Old(p, i) \in 1 .. Len(c) /\ e[i] = c[Old(p, i)]
  /\ \A i \in 0 .. Len(c) + 1 : i # p => Old(p, i) \in 0 .. Len(c) /\ At(e, i) = At(c, Old(p, i))
  /\ \A x \in 1 .. Len(c) : \E i \in 1 .. Len(c) + 1 : i # p /\ Old(p, i) = x
  /\ \A i, j \in 0 .. Len(c) + 1 : i # p /\ j # p /\ Old(p, i) = Old(p, j) => i = j
  /\ \A i, j \in 0 .. Len(c) + 1 : i # p /\ j # p /\ i < j => Old(p, i) < Old(p, j)

LEMMA InsertedFacts ==
  ASSUME NEW c \in Seq(Node), NEW p \in 1 .. Len(c) + 1, NEW n \in Node
  PROVE  InsertedAt(Inserted(c, p, n), c, p, n)
<1> PICK e : e = Inserted(c, p, n)
  OBVIOUS
<1> SUFFICES InsertedAt(e, c, p, n)
  OBVIOUS
<1>1. Len(c) \in Nat
  OBVIOUS
<1>2. \A i \in 1 .. Len(c) + 1 : i # p => Old(p, i) \in 1 .. Len(c) /\ e[i] = c[Old(p, i)]
  <2> TAKE i \in 1 .. Len(c) + 1
  <2> HAVE i # p
  <2>1. Old(p, i) \in 1 .. Len(c)
    BY <1>1 DEF Old
  <2> QED
    BY <2>1 DEF Inserted, Old
<1>3. e[p] = n
  BY <1>1 DEF Inserted
<1>4. e \in [1 .. Len(c) + 1 -> Node]
  <2>1. \A i \in 1 .. Len(c) + 1 : e[i] \in Node
    BY <1>1, <1>2, <1>3
  <2>2. e = [i \in 1 .. Len(c) + 1 |-> e[i]]
    BY DEF Inserted
  <2> QED
    BY <2>1, <2>2
<1>5. e \in Seq(Node) /\ Len(e) = Len(c) + 1
  BY <1>1, <1>4
<1>6. \A i \in 0 .. Len(c) + 1 : i # p => Old(p, i) \in 0 .. Len(c) /\ At(e, i) = At(c, Old(p, i))
  <2> TAKE i \in 0 .. Len(c) + 1
  <2> HAVE i # p
  <2>1. CASE i = 0
    <3>1. Old(p, i) = 0
      BY <1>1, <2>1 DEF Old
    <3> QED
      BY <1>1, <2>1, <3>1 DEF At
  <2>2. CASE i # 0
    <3>1. Old(p, i) \in 1 .. Len(c) /\ e[i] = c[Old(p, i)]
      BY <1>1, <1>2, <2>2
    <3>2. Old(p, i) # 0
      BY <3>1
    <3> QED
      BY <1>1, <2>2, <3>1, <3>2 DEF At
  <2> QED
    BY <2>1, <2>2
<1>7. \A x \in 1 .. Len(c) : \E i \in 1 .. Len(c) + 1 : i # p /\ Old(p, i) = x
  <2> TAKE x \in 1 .. Len(c)
  <2>1. CASE x < p
    <3> WITNESS x \in 1 .. Len(c) + 1
    <3> QED
      BY <2>1 DEF Old
  <2>2. CASE p <= x
    <3>1. x + 1 \in 1 .. Len(c) + 1
      BY <1>1
    <3> WITNESS x + 1 \in 1 .. Len(c) + 1
    <3> QED
      BY <1>1, <2>2 DEF Old
  <2> QED
    BY <1>1, <2>1, <2>2
<1>8. \A i, j \in 0 .. Len(c) + 1 : i # p /\ j # p /\ Old(p, i) = Old(p, j) => i = j
  BY <1>1 DEF Old
<1>9. \A i, j \in 0 .. Len(c) + 1 : i # p /\ j # p /\ i < j => Old(p, i) < Old(p, j)
  BY <1>1 DEF Old
<1> QED
  BY <1>2, <1>3, <1>5, <1>6, <1>7, <1>8, <1>9 DEF InsertedAt

LEMMA NextUnique ==
  ASSUME NEW N \in Nat, NEW A \in SUBSET (1 .. N), NEW i,
         NEW x \in 1 .. N + 1, NEW y \in 1 .. N + 1, NextIn(A, N, i, x), NextIn(A, N, i, y),
         i \in 0 .. N
  PROVE  x = y
<1>1. x \in A \cup {N + 1} /\ y \in A \cup {N + 1} /\ i < x /\ i < y
      /\ \A m \in A : (m <= i \/ x <= m) /\ (m <= i \/ y <= m)
  BY DEF NextIn
<1>2. x <= y
  <2>1. CASE y = N + 1
    BY <2>1
  <2>2. CASE y \in A
    BY <1>1, <2>2
  <2> QED
    BY <1>1, <2>1, <2>2
<1>3. y <= x
  <2>1. CASE x = N + 1
    BY <2>1
  <2>2. CASE x \in A
    BY <1>1, <2>2
  <2> QED
    BY <1>1, <2>1, <2>2
<1> QED
  BY <1>2, <1>3

\* The nodes of a level are up to its stop or behind the stop of level 0.
LEMMA StopSplits ==
  ASSUME NEW c \in Seq(Node), NEW S, Shape(c, S), NEW k \in Int, NEW b, Stops(c, S, k, b),
         NEW l \in Levels
  PROVE  \A m \in S[l] : m <= b[l] \/ b[0] + 1 <= m
<1> TAKE m \in S[l]
<1>1. /\ b[l] \in 0 .. Len(c) /\ b[0] \in 0 .. Len(c)
      /\ \A i \in 1 .. Len(c) : i <= b[0] <=> KeyAt(c, i) < k
  <2>1. 0 \in Levels
    BY ShapeFacts
  <2> QED
    BY <2>1, StopFacts
<1>2. Len(c) \in Nat /\ S[l] \subseteq 1 .. Len(c) /\ \A i \in 1 .. Len(c) : KeyAt(c, i) \in Int
  BY ShapeFacts
<1>3. m <= b[l] \/ KeyAt(c, m) >= k
  BY DEF Stops, StopsAt
<1>4. KeyAt(c, m) >= k => ~(m <= b[0])
  BY <1>1, <1>2
<1>5. m \in Int /\ b[0] \in Int
  BY <1>1, <1>2
<1> QED
  BY <1>3, <1>4, <1>5

\* A call that inserts leaves a shape, with the new node behind the keys below its own.
LEMMA InsertShape ==
  ASSUME NEW c \in Seq(Node), NEW S, Shape(c, S), NEW k \in Key, NEW d \in Buf, d \notin heap,
         NEW b, NEW j, Search(c, S, k, b, j), primary => Hits(Traverse(k), k) = {},
         NEW n \in Node \ DOMAIN node, NEW h \in 1 .. MaxNodeHeight,
         node' = WithNode(n, k, h, d), heap' = heap \cup {d}, size' = size + 1, primary' = primary,
         NEW e, e = Inserted(c, b[0] + 1, n),
         NEW T, T = [l \in Levels |-> WithPlace(S[l], Len(c), b[0] + 1, l, h)]
  PROVE  Shape(e, T)'
<1> DEFINE N == Len(c)
           p == b[0] + 1
<1>1. /\ N \in Nat /\ 0 \in Levels
      /\ \A l \in Levels : S[l] \subseteq 1 .. N
      /\ \A i \in 0 .. N : At(c, i) \in DOMAIN node
      /\ \A i \in 1 .. N : KeyAt(c, i) \in Int /\ c[i] \in Node /\ c[i] \in DOMAIN node
                           /\ KeyAt(c, i) \in Key
      /\ \A x, y \in 0 .. N : At(c, x) = At(c, y) => x = y
      /\ \A l \in Levels : \A i \in S[l] \cup {0} : At(c, i) \in Tall(l)
  BY ShapeFacts
<1>2. k \in Int /\ Stops(c, S, k, b) /\ n \in Node /\ n \notin DOMAIN node /\ n # HeadNode
  <2>1. HeadNode \in DOMAIN node
    BY DEF Shape, Listed
  <2> QED
    BY <2>1, KeyAssumption DEF Search
<1>3. /\ \A l \in Levels : /\ j[l] \in 1 .. N + 1
                           /\ j[l] # N + 1 => j[l] \in S[l] /\ j[l] \in 1 .. N
                           /\ b[l] <= b[0] /\ b[0] < j[l]
      /\ b[0] \in 0 .. N /\ j[0] = b[0] + 1
      /\ Hits(Traverse(k), k) = {l \in Levels : j[l] # N + 1 /\ KeyAt(c, j[l]) = k}
  BY <1>2, SearchFacts
<1>4. /\ \A l \in Levels : b[l] \in 0 .. N /\ b[l] \in S[l] \cup {0}
      /\ \A i \in 1 .. N : i <= b[0] <=> KeyAt(c, i) < k
  BY <1>2, StopFacts
<1>5. p \in 1 .. N + 1
  BY <1>1, <1>3
<1>6. /\ e \in Seq(Node) /\ Len(e) = N + 1 /\ e[p] = n
      /\ \A i \in 1 .. N + 1 : i # p => Old(p, i) \in 1 .. N /\ e[i] = c[Old(p, i)]
      /\ \A i \in 0 .. N + 1 : i # p => Old(p, i) \in 0 .. N /\ At(e, i) = At(c, Old(p, i))
      /\ \A x \in 1 .. N : \E i \in 1 .. N + 1 : i # p /\ Old(p, i) = x
      /\ \A x, y \in 0 .. N + 1 : x # p /\ y # p /\ Old(p, x) = Old(p, y) => x = y
      /\ \A x, y \in 0 .. N + 1 : x # p /\ y # p /\ x < y => Old(p, x) < Old(p, y)
  <2>1. e = Inserted(c, p, n) /\ p \in 1 .. Len(c) + 1
    BY <1>5
  <2> HIDE DEF p
  <2>2. InsertedAt(e, c, p, n)
    BY <1>2, <2>1, InsertedFacts
  <2> QED
    BY <2>2 DEF InsertedAt
<1>7. PICK M : M = WithNode(n, k, h, d)
  OBVIOUS
<1>8. node' = M
  BY <1>7
<1>9. /\ DOMAIN M = DOMAIN node \cup {n}
      /\ \A m \in DOMAIN M : IsNode(M[m])
      /\ M[n].key = k /\ M[n].height = h /\ M[n].row = d
      /\ \A l \in 0 .. h - 1 :
           /\ M[n].next[l] = IF j[l] = N + 1 THEN Null ELSE c[j[l]]
           /\ M[n].width[l] = (IF j[l] = N + 1 THEN N ELSE j[l]) - b[0]
      /\ \A m \in DOMAIN node :
           /\ M[m].key = node[m].key /\ M[m].height = node[m].height /\ M[m].row = node[m].row
           /\ \A l \in 0 .. node[m].height - 1 :
                /\ M[m].next[l] = IF At(c, b[l]) = m /\ l < h THEN n ELSE node[m].next[l]
                /\ M[m].width[l] = IF At(c, b[l]) # m THEN node[m].width[l]
                                   ELSE IF l < h THEN b[0] - b[l] + 1
                                   ELSE node[m].width[l] + 1
  <2>1. LinkedIn(M, c, b, j, k, d, n, h)
    BY <1>7, InsertNodes
  <2> QED
    BY <2>1 DEF LinkedIn
<1>10. \A l \in Levels : T[l] = WithPlace(S[l], N, p, l, h)
  OBVIOUS
<1>11. ASSUME NEW l \in Levels, NEW i \in 1 .. N + 1
       PROVE  i \in T[l] <=> IF i = p THEN l < h ELSE Old(p, i) \in S[l]
  <2> HIDE DEF N, p
  <2> QED
    <3>1. i \in T[l] <=> (i = p /\ l < h) \/ (i < p /\ i \in S[l]) \/ (p < i /\ i - 1 \in S[l])
      BY <1>10 DEF WithPlace
    <3>2. i = p \/ i < p \/ p < i
      BY <1>1, <1>5
    <3>3. i < p => i # p /\ ~(p < i) /\ Old(p, i) = i
      BY <1>1, <1>5 DEF Old
    <3>4. p < i => i # p /\ ~(i < p) /\ Old(p, i) = i - 1
      BY <1>1, <1>5 DEF Old
    <3>5. i = p => ~(i < p) /\ ~(p < i)
      BY <1>1, <1>5
    <3> QED
      BY <3>1, <3>2, <3>3, <3>4, <3>5
<1>12. \A l \in Levels : T[l] \subseteq 1 .. N + 1
  BY <1>10 DEF WithPlace
<1> HIDE DEF N, p
<1>13. Listed(e)'
  <2>1. \A x, y \in 1 .. N + 1 : e[x] = e[y] => x = y
    <3> TAKE x, y \in 1 .. N + 1
    <3> HAVE e[x] = e[y]
    <3>1. \A i \in 1 .. N + 1 : i # p => e[i] \in DOMAIN node /\ e[i] # n
      <4> TAKE i \in 1 .. N + 1
      <4> HAVE i # p
      <4>1. Old(p, i) \in 1 .. N /\ e[i] = c[Old(p, i)]
        BY <1>6
      <4> QED
        BY <1>1, <1>2, <4>1
    <3>2. CASE x = p \/ y = p
      BY <1>6, <3>1, <3>2
    <3>3. CASE x # p /\ y # p
      <4>1. Old(p, x) \in 1 .. N /\ Old(p, y) \in 1 .. N /\ c[Old(p, x)] = c[Old(p, y)]
        BY <1>6, <3>3
      <4>2. Old(p, x) = Old(p, y)
        BY <4>1 DEF Shape, Listed, N
      <4>3. x \in 0 .. N + 1 /\ y \in 0 .. N + 1
        BY <1>1
      <4> QED
        BY <1>6, <3>3, <4>2, <4>3
    <3> QED
      BY <3>2, <3>3
  <2>2. DOMAIN M = {HeadNode} \cup {e[i] : i \in 1 .. N + 1}
    <3>1. DOMAIN node = {HeadNode} \cup {c[i] : i \in 1 .. N}
      BY DEF Shape, Listed, N
    <3>2. ASSUME NEW x \in 1 .. N PROVE c[x] \in {e[i] : i \in 1 .. N + 1}
      BY <1>6
    <3>3. ASSUME NEW i \in 1 .. N + 1 PROVE e[i] \in {c[x] : x \in 1 .. N} \cup {n}
      BY <1>6
    <3>4. n \in {e[i] : i \in 1 .. N + 1}
      BY <1>5, <1>6
    <3>5. DOMAIN M = {HeadNode} \cup {c[x] : x \in 1 .. N} \cup {n}
      BY <1>9, <3>1
    <3>6. {c[x] : x \in 1 .. N} \cup {n} = {e[i] : i \in 1 .. N + 1}
      BY <3>2, <3>3, <3>4
    <3> QED
      BY <3>5, <3>6
  <2> QED
    BY <1>6, <1>8, <2>1, <2>2 DEF Listed
<1>14. \A i \in 1 .. N + 1 : /\ i # p => e[i] \in DOMAIN node /\ M[e[i]].key = KeyAt(c, Old(p, i))
                                         /\ M[e[i]].row = node[c[Old(p, i)]].row
                                         /\ M[e[i]].height = node[c[Old(p, i)]].height
                             /\ i = p => M[e[i]].key = k /\ M[e[i]].row = d
                                         /\ M[e[i]].height = h
  BY SMTT(20), <1>1, <1>6, <1>9 DEF KeyAt
<1>15. Typed(e)'
  <2>1. \A m \in DOMAIN M : IsNode(M[m])
    BY <1>9
  <2>2. M[HeadNode].height = MaxNodeHeight
    <3>1. HeadNode \in DOMAIN node
      BY DEF Shape, Listed
    <3> QED
      BY <1>9, <3>1 DEF Shape, Typed
  <2>3. \A i \in 1 .. N + 1 : M[e[i]].key \in Key /\ M[e[i]].row \in Buf
    <3> TAKE i \in 1 .. N + 1
    <3>1. CASE i = p
      BY <1>14, <3>1
    <3>2. CASE i # p
      <4>1. /\ Old(p, i) \in 1 .. N /\ M[e[i]].key = KeyAt(c, Old(p, i))
            /\ M[e[i]].row = node[c[Old(p, i)]].row
        BY <1>6, <1>14, <3>2
      <4> QED
        BY <4>1 DEF Shape, Typed, N
    <3> QED
      BY <3>1, <3>2
  <2> QED
    BY <1>6, <1>8, <2>1, <2>2, <2>3 DEF Typed, KeyAt
<1>16. LevelSets(e, T)
  <2>1. T \in [Levels -> SUBSET (1 .. N + 1)]
    BY <1>12
  <2>2. T[0] = 1 .. N + 1
    <3>1. S[0] = 1 .. N
      BY DEF Shape, LevelSets, N
    <3>2. 0 < h
      OBVIOUS
    <3>3. \A i \in 1 .. N + 1 : i \in T[0]
      <4> TAKE i \in 1 .. N + 1
      <4>1. i \in T[0] <=> IF i = p THEN 0 < h ELSE Old(p, i) \in S[0]
        BY <1>1, <1>11
      <4> QED
        BY <1>6, <3>1, <3>2, <4>1
    <3> QED
      BY <1>1, <1>12, <3>3
  <2>3. ASSUME NEW l \in Levels, NEW m \in Levels, l <= m PROVE T[m] \subseteq T[l]
    <3> SUFFICES ASSUME NEW i \in T[m] PROVE i \in T[l]
      OBVIOUS
    <3>1. i \in 1 .. N + 1
      BY <1>12
    <3>2. S[m] \subseteq S[l]
      BY <2>3 DEF Shape, LevelSets
    <3>3. m < h => l < h
      BY <2>3 DEF Levels
    <3>4. i \in T[m] <=> IF i = p THEN m < h ELSE Old(p, i) \in S[m]
      BY <1>11, <3>1
    <3>5. i \in T[l] <=> IF i = p THEN l < h ELSE Old(p, i) \in S[l]
      BY <1>11, <3>1
    <3> QED
      BY <3>2, <3>3, <3>4, <3>5
  <2> QED
    BY <1>6, <2>1, <2>2, <2>3 DEF LevelSets
<1>17. Heights(e, T)'
  <2>1. ASSUME NEW l \in Levels, NEW i \in 1 .. N + 1
        PROVE  /\ i \in T[l] => M[e[i]].height > l
               /\ primary /\ M[e[i]].height > l => i \in T[l]
    <3>1. i \in T[l] <=> IF i = p THEN l < h ELSE Old(p, i) \in S[l]
      BY <1>11
    <3>2. CASE i = p
      <4>1. M[e[i]].height = h
        BY <1>14, <3>2
      <4>2. l < h <=> h > l
        BY DEF Levels
      <4> QED
        BY <3>1, <3>2, <4>1, <4>2
    <3>3. CASE i # p
      <4>1. Old(p, i) \in 1 .. N /\ M[e[i]].height = node[c[Old(p, i)]].height
        BY <1>6, <1>14, <3>3
      <4> QED
        BY <3>1, <3>3, <4>1 DEF Shape, Heights, N
    <3> QED
      BY <3>2, <3>3
  <2> QED
    BY <1>6, <1>8, <2>1 DEF Heights
<1>18. Sorted(e)'
  <2>1. \A i \in 1 .. N + 1 : i < p => KeyAt(c, Old(p, i)) < k
    <3> TAKE i \in 1 .. N + 1
    <3> HAVE i < p
    <3>1. Old(p, i) = i /\ i \in 1 .. N /\ i <= b[0]
      BY <1>1, <1>3 DEF Old, p
    <3> QED
      BY <1>4, <3>1
  <2>2. \A i \in 1 .. N + 1 : p < i => /\ KeyAt(c, Old(p, i)) >= k
                                       /\ primary => KeyAt(c, Old(p, i)) > k
    <3> TAKE i \in 1 .. N + 1
    <3> HAVE p < i
    <3>1. Old(p, i) = i - 1 /\ i - 1 \in 1 .. N /\ p <= i - 1 /\ ~(i - 1 <= b[0])
          /\ p \in 1 .. N /\ p # N + 1
      BY <1>1, <1>3, <1>5 DEF Old, p
    <3>2. KeyAt(c, i - 1) \in Int /\ ~(KeyAt(c, i - 1) < k)
      BY <1>1, <1>4, <3>1
    <3>3. primary => KeyAt(c, i - 1) # k
      <4> SUFFICES ASSUME primary, KeyAt(c, i - 1) = k PROVE FALSE
        OBVIOUS
      <4>1. KeyAt(c, p) # k
        <5>1. 0 \notin Hits(Traverse(k), k)
          OBVIOUS
        <5> QED
          BY <1>1, <1>3, <3>1, <5>1 DEF p
      <4>2. p < i - 1
        BY <3>1, <4>1
      <4>3. KeyAt(c, p) < KeyAt(c, i - 1)
        BY <3>1, <4>2 DEF Shape, Sorted, N
      <4>4. ~(p <= b[0]) /\ KeyAt(c, p) \in Int
        BY <1>1, <1>3, <3>1 DEF p
      <4> QED
        BY <1>2, <1>4, <3>1, <4>3, <4>4
    <3> QED
      BY <1>2, <3>1, <3>2, <3>3
  <2>3. ASSUME NEW x \in 1 .. N + 1, NEW y \in 1 .. N + 1, x < y
        PROVE  M[e[x]].key <= M[e[y]].key /\ (primary => M[e[x]].key < M[e[y]].key)
    <3>1. CASE x = p
      <4>1. p < y /\ y # p /\ y \in 1 .. N + 1
        BY <1>5, <2>3, <3>1
      <4>2. M[e[x]].key = k /\ M[e[y]].key = KeyAt(c, Old(p, y)) /\ Old(p, y) \in 1 .. N
        BY <1>6, <1>14, <3>1, <4>1
      <4>3. KeyAt(c, Old(p, y)) \in Int
        BY <1>1, <4>2
      <4> QED
        BY <1>2, <2>2, <4>1, <4>2, <4>3
    <3>2. CASE y = p
      <4>1. x < p /\ x # p /\ x \in 1 .. N + 1
        BY <1>5, <2>3, <3>2
      <4>2. M[e[y]].key = k /\ M[e[x]].key = KeyAt(c, Old(p, x)) /\ Old(p, x) \in 1 .. N
        BY <1>6, <1>14, <3>2, <4>1
      <4>3. KeyAt(c, Old(p, x)) \in Int
        BY <1>1, <4>2
      <4> QED
        BY <1>2, <2>1, <4>1, <4>2, <4>3
    <3>3. CASE x # p /\ y # p
      <4>1. /\ M[e[x]].key = KeyAt(c, Old(p, x)) /\ Old(p, x) \in 1 .. N
            /\ M[e[y]].key = KeyAt(c, Old(p, y)) /\ Old(p, y) \in 1 .. N
        BY <1>6, <1>14, <3>3
      <4>2. Old(p, x) < Old(p, y)
        <5>1. x \in 0 .. N + 1 /\ y \in 0 .. N + 1
          BY <1>1
        <5> QED
          BY <1>6, <2>3, <3>3, <5>1
      <4> QED
        BY <4>1, <4>2 DEF Shape, Sorted, N
    <3> QED
      BY <3>1, <3>2, <3>3
  <2> QED
    BY <1>6, <1>8, <2>3 DEF Sorted, KeyAt
<1>19. Unlinked(e, T)'
  <2>1. ASSUME NEW l \in Levels, NEW i \in 1 .. N + 1, i \notin T[l], l < M[e[i]].height
        PROVE  M[e[i]].next[l] = Null
    <3>1. i \in T[l] <=> IF i = p THEN l < h ELSE Old(p, i) \in S[l]
      BY <1>11
    <3>2. i # p
      BY <1>14, <2>1, <3>1
    <3> DEFINE x == Old(p, i)
    <3>3. x \in 1 .. N /\ e[i] = c[x] /\ x \notin S[l] /\ e[i] \in DOMAIN node
          /\ l < node[e[i]].height
      BY <1>6, <1>9, <1>14, <2>1, <3>1, <3>2
    <3> HIDE DEF x
    <3>4. node[c[x]].next[l] = Null
      BY <3>3 DEF Shape, Unlinked, N
    <3>5. At(c, b[l]) # c[x]
      <4>1. At(c, x) = c[x] /\ x \in 0 .. N /\ x # 0
        BY <1>1, <3>3 DEF At
      <4>2. b[l] # x
        BY <1>4, <3>3, <4>1
      <4> QED
        BY <1>1, <1>4, <4>1, <4>2
    <3>6. l \in 0 .. node[e[i]].height - 1
      <4>1. node[e[i]].height \in 1 .. MaxNodeHeight
        BY <3>3, NodeFacts
      <4> QED
        BY <3>3, <4>1 DEF Levels
    <3> QED
      BY <1>9, <3>3, <3>4, <3>5, <3>6
  <2> QED
    BY <1>6, <1>8, <2>1 DEF Unlinked
<1>20. Owned(e)'
  <2>1. \A x \in 1 .. N : node[c[x]].row \in heap /\ node[c[x]].row # d
    BY DEF Shape, Owned, N
  <2>2. ASSUME NEW x \in 1 .. N + 1, NEW y \in 1 .. N + 1, M[e[x]].row = M[e[y]].row PROVE x = y
    <3>1. CASE x = p \/ y = p
      <4>1. \A i \in 1 .. N + 1 : i # p => M[e[i]].row # d
        <5> TAKE i \in 1 .. N + 1
        <5> HAVE i # p
        <5>1. Old(p, i) \in 1 .. N /\ M[e[i]].row = node[c[Old(p, i)]].row
          BY <1>6, <1>14
        <5> QED
          BY <2>1, <5>1
      <4>2. M[e[p]].row = d
        BY <1>5, <1>14
      <4> QED
        BY <2>2, <3>1, <4>1, <4>2
    <3>2. CASE x # p /\ y # p
      <4>1. /\ Old(p, x) \in 1 .. N /\ Old(p, y) \in 1 .. N
            /\ node[c[Old(p, x)]].row = node[c[Old(p, y)]].row
        BY <1>6, <1>14, <2>2, <3>2
      <4>2. Old(p, x) = Old(p, y)
        BY <4>1 DEF Shape, Owned, N
      <4>3. x \in 0 .. N + 1 /\ y \in 0 .. N + 1
        BY <1>1
      <4> QED
        BY <1>6, <3>2, <4>2, <4>3
    <3> QED
      BY <3>1, <3>2
  <2>3. heap \cup {d} = {M[e[i]].row : i \in 1 .. N + 1}
    <3>1. heap = {node[c[i]].row : i \in 1 .. N}
      BY DEF Shape, Owned, N
    <3>2. ASSUME NEW x \in 1 .. N PROVE node[c[x]].row \in {M[e[i]].row : i \in 1 .. N + 1}
      <4>1. PICK i \in 1 .. N + 1 : i # p /\ Old(p, i) = x
        BY <1>6
      <4>2. M[e[i]].row = node[c[x]].row
        BY <1>14, <4>1
      <4> QED
        BY <4>2
    <3>3. ASSUME NEW i \in 1 .. N + 1
          PROVE  M[e[i]].row \in {node[c[x]].row : x \in 1 .. N} \cup {d}
      BY <1>6, <1>14
    <3>4. d \in {M[e[i]].row : i \in 1 .. N + 1}
      BY <1>5, <1>14
    <3>5. heap \subseteq {M[e[i]].row : i \in 1 .. N + 1}
      BY ZenonT(20), <3>1, <3>2
    <3>6. {M[e[i]].row : i \in 1 .. N + 1} \subseteq heap \cup {d}
      BY ZenonT(20), <3>1, <3>3
    <3> QED
      BY ZenonT(20), <3>4, <3>5, <3>6
  <2>4. size + 1 = N + 1
    BY DEF Shape, Owned, N
  <2> QED
    BY SMTT(20), <1>6, <1>8, <2>2, <2>3, <2>4 DEF Owned
<1>21. Linked(e, T)'
  <2>1. ASSUME NEW l \in Levels, NEW i \in T[l] \cup {0}, NEW y \in 1 .. N + 2,
               NextIn(T[l], N + 1, i, y)
        PROVE  /\ M[At(e, i)].next[l] = IF y = N + 2 THEN Null ELSE e[y]
               /\ M[At(e, i)].width[l] = (IF y = N + 2 THEN N + 1 ELSE y) - i
    <3>1. /\ b[l] \in S[l] \cup {0} /\ b[l] < p /\ S[l] \in SUBSET (1 .. N)
          /\ l \in Int /\ h \in Int /\ b[l] \in 0 .. N /\ j[l] \in 1 .. N + 1
          /\ \A m \in S[l] : m <= b[l] \/ p <= m
      <4>1. \A m \in S[l] : m <= b[l] \/ p <= m
        BY <1>2, StopSplits DEF p
      <4>2. b[l] < p
        BY <1>1, <1>3, <1>4 DEF p
      <4>3. l \in Int /\ h \in Int
        BY DEF Levels
      <4> QED
        BY <1>1, <1>3, <1>4, <4>1, <4>2, <4>3
    <3>2. /\ i = p => (l < h) /\ p < y /\ NextIn(S[l], N, b[l], y - 1)
          /\ i = b[l] /\ l < h => y = p
          /\ i # p /\ ~(i = b[l] /\ l < h) =>
               /\ y # p /\ NextIn(S[l], N, Old(p, i), Old(p, y))
               /\ Old(p, i) \in S[l] \cup {0} /\ Old(p, y) \in 1 .. N + 1
               /\ i < p <=> Old(p, i) <= b[l]
               /\ i < p /\ i # b[l] => y < p
      <4>1. T[l] = WithPlace(S[l], N, p, l, h)
        BY <1>10
      <4>2. MovedUp(S[l], N, p, l, h, b[l], i, y)
        BY <1>1, <1>5, <2>1, <3>1, <4>1, NextWithPlace
      <4> QED
        BY <4>2 DEF MovedUp
    <3>3. NextIn(S[l], N, b[l], j[l])
      BY DEF Search, N
    <3>4. \A x \in 1 .. N + 1 : NextIn(S[l], N, b[l], x) => x = j[l]
      BY <1>1, <3>1, <3>3, NextUnique
    <3>5. i \in 0 .. N + 1 /\ l \in Nat /\ p \in Nat
      <4>1. i \in 1 .. N + 1 \/ i = 0
        BY <1>12
      <4> QED
        BY <1>1, <1>5, <4>1 DEF Levels
    <3>6. \A x \in S[l] \cup {0} : At(c, x) \in DOMAIN node /\ l \in 0 .. node[At(c, x)].height - 1
      <4> TAKE x \in S[l] \cup {0}
      <4>1. At(c, x) \in DOMAIN node /\ node[At(c, x)].height > l
        BY <1>1 DEF Tall
      <4>2. node[At(c, x)].height \in 1 .. MaxNodeHeight
        BY <4>1, NodeFacts
      <4> QED
        BY <3>5, <4>1, <4>2
    <3>7. CASE i = p
      <4>1. y - 1 = j[l] /\ l \in 0 .. h - 1 /\ p < y
        <5>1. y - 1 \in 1 .. N + 1
          BY <1>1, <1>5, <3>2, <3>7
        <5>2. l < h
          BY <3>2, <3>7
        <5> QED
          BY <3>2, <3>4, <3>5, <3>7, <5>1, <5>2
      <4>2. At(e, i) = n
        BY <1>5, <1>6, <3>7 DEF At
      <4>3. /\ M[n].next[l] = IF j[l] = N + 1 THEN Null ELSE c[j[l]]
            /\ M[n].width[l] = (IF j[l] = N + 1 THEN N ELSE j[l]) - b[0]
        BY <1>9, <4>1
      <4>4. CASE y = N + 2
        <5>1. j[l] = N + 1
          BY <1>1, <4>1, <4>4
        <5>2. N - b[0] = (N + 1) - i
          BY <1>1, <1>3, <3>7 DEF p
        <5> QED
          BY <4>2, <4>3, <4>4, <5>1, <5>2
      <4>5. CASE y # N + 2
        <5>1. y \in 1 .. N + 1 /\ y # p /\ j[l] # N + 1
          <6>1. y \in 1 .. N + 2 /\ p \in 1 .. N + 1 /\ N \in Nat
            BY <1>1, <1>5, <2>1
          <6>2. y \in 1 .. N + 1
            BY <4>5, <6>1
          <6>3. y # p
            BY <4>1, <6>1
          <6>4. j[l] # N + 1
            BY <4>1, <4>5, <6>1
          <6> QED
            BY <6>2, <6>3, <6>4
        <5>2. e[y] = c[j[l]]
          <6>1. Old(p, y) = j[l]
            BY <1>5, <4>1, <5>1 DEF Old
          <6> QED
            BY <1>6, <5>1, <6>1
        <5>3. j[l] - b[0] = y - i
          BY <1>1, <1>3, <3>7, <4>1 DEF p
        <5> QED
          BY <4>2, <4>3, <4>5, <5>1, <5>2, <5>3
      <4> QED
        BY <4>4, <4>5
    <3>8. CASE i = b[l] /\ l < h
      <4>1. y = p /\ y # N + 2 /\ i # p /\ Old(p, i) = i
        BY <1>1, <1>5, <3>1, <3>2, <3>8 DEF Old
      <4>2. At(e, i) = At(c, b[l])
        BY <1>6, <3>5, <3>8, <4>1
      <4>3. M[At(c, b[l])].next[l] = n /\ M[At(c, b[l])].width[l] = b[0] - b[l] + 1
        BY <1>9, <3>1, <3>6, <3>8
      <4>4. b[0] - b[l] + 1 = y - i
        BY SMTT(20), <1>1, <1>3, <3>1, <3>8, <4>1 DEF p
      <4> QED
        BY <1>6, <4>1, <4>2, <4>3, <4>4
    <3>9. CASE i # p /\ ~(i = b[l] /\ l < h)
      <4> DEFINE x == Old(p, i)
                 z == Old(p, y)
      <4>1. /\ y # p /\ NextIn(S[l], N, x, z)
            /\ x \in S[l] \cup {0} /\ z \in 1 .. N + 1
            /\ i < p <=> x <= b[l]
            /\ i < p /\ i # b[l] => y < p
        BY <3>2, <3>9
      <4>2. /\ node[At(c, x)].next[l] = IF z = N + 1 THEN Null ELSE c[z]
            /\ node[At(c, x)].width[l] = (IF z = N + 1 THEN N ELSE z) - x
        <5> HIDE DEF x, z
        <5> QED
          BY <4>1 DEF Shape, Linked, N
      <4>3. At(e, i) = At(c, x) /\ x \in 0 .. N
        BY <1>6, <3>5, <3>9
      <4>4. z = N + 1 <=> y = N + 2
        BY <1>1, <1>5, <4>1 DEF Old
      <4>5. M[At(e, i)].next[l] = IF y = N + 2 THEN Null ELSE e[y]
        <5>1. M[At(c, x)].next[l] = node[At(c, x)].next[l]
          <6>1. ~(At(c, b[l]) = At(c, x) /\ l < h)
            <7> SUFFICES ASSUME At(c, b[l]) = At(c, x), l < h PROVE FALSE
              OBVIOUS
            <7>1. b[l] = x
              BY <1>1, <3>1, <4>3
            <7>2. i = b[l]
              BY <1>1, <3>1, <3>5, <4>1, <7>1 DEF Old
            <7> QED
              BY <3>9, <7>2
          <6> HIDE DEF x
          <6> QED
            BY <1>9, <3>6, <4>1, <6>1
        <5>2. y # N + 2 => e[y] = c[z]
          <6>1. y # N + 2 => y \in 1 .. N + 1
            BY <1>1
          <6> QED
            BY <1>6, <4>1, <6>1
        <5> QED
          BY <4>2, <4>3, <4>4, <5>1, <5>2
      <4>6. M[At(e, i)].width[l] = (IF y = N + 2 THEN N + 1 ELSE y) - i
        <5>1. CASE x = b[l]
          <6>1. M[At(c, x)].width[l] = node[At(c, x)].width[l] + 1
            <7>1. i = b[l]
              BY <1>1, <3>1, <3>5, <4>1, <5>1 DEF Old
            <7>2. ~(l < h)
              BY <3>9, <7>1
            <7> QED
              BY <1>9, <3>1, <3>6, <5>1, <7>2
          <6>2. z = j[l]
            BY <3>4, <4>1, <5>1
          <6>3. p < y /\ z = y - 1 /\ x = i
            <7>1. i < p /\ x = i
              BY <1>1, <3>1, <3>5, <4>1, <5>1 DEF Old
            <7>2. ~(y < p)
              <8>1. p <= z
                BY <1>1, <1>3, <3>1, <6>2 DEF p
              <8> QED
                BY <1>1, <3>5, <8>1 DEF Old
            <7> QED
              BY <1>1, <3>5, <4>1, <7>1, <7>2 DEF Old
          <6> HIDE DEF x, z
          <6> QED
            BY <1>1, <3>5, <4>1, <4>2, <4>3, <4>4, <6>1, <6>3
        <5>2. CASE x # b[l]
          <6>1. M[At(c, x)].width[l] = node[At(c, x)].width[l]
            <7>1. At(c, b[l]) # At(c, x)
              BY <1>1, <3>1, <4>3, <5>2
            <7> HIDE DEF x
            <7> QED
              BY <1>9, <3>6, <4>1, <7>1
          <6>2. CASE i < p
            <7>1. x = i /\ i # b[l]
              BY <5>2, <6>2 DEF Old
            <7>2. y < p /\ z = y /\ z # N + 1
              BY <1>1, <1>5, <4>1, <6>2, <7>1 DEF Old
            <7> HIDE DEF x, z
            <7> QED
              BY <4>2, <4>3, <4>4, <6>1, <7>1, <7>2
          <6>3. CASE ~(i < p)
            <7>1. x = i - 1 /\ p < i
              BY <3>5, <3>9, <6>3 DEF Old
            <7>2. z = y - 1 /\ i < y
              <8>1. i < y
                BY <2>1 DEF NextIn
              <8> QED
                BY <1>1, <3>5, <7>1, <8>1 DEF Old
            <7> HIDE DEF x, z
            <7> QED
              BY <1>1, <3>5, <4>1, <4>2, <4>3, <4>4, <6>1, <7>1, <7>2
          <6> QED
            BY <6>2, <6>3
        <5> QED
          BY <5>1, <5>2
      <4> QED
        BY <4>5, <4>6
    <3> QED
      BY <3>7, <3>8, <3>9
  <2>2. (N + 1) + 1 = N + 2
    BY <1>1
  <2> QED
    BY <1>6, <1>8, <2>1, <2>2 DEF Linked
<1> QED
  <2>1. LevelSets(e, T)'
    BY <1>16 DEF LevelSets
  <2> QED
    BY <1>13, <1>15, <1>17, <1>18, <1>19, <1>20, <1>21, <2>1 DEF Shape
-----------------------------------------------------------------------------
(* Removing: the node of place p goes, and the places behind it move down; a level may  *)
(* lose another node that meets the key, one whose place is not p.                      *)

\* Where the node of place i was before the node of place p went.
New(p, i) == IF i < p THEN i ELSE i + 1

WithoutPlace(A, N, p) == {y \in 1 .. N - 1 : New(p, y) \in A}

Removed(c, p) == [i \in 1 .. Len(c) - 1 |-> c[New(p, i)]]

RemovedAt(e, c, p) ==
  /\ e \in Seq(Node) /\ Len(e) = Len(c) - 1
  /\ \A i \in 1 .. Len(c) - 1 : New(p, i) \in 1 .. Len(c) /\ New(p, i) # p /\ e[i] = c[New(p, i)]
  /\ \A i \in 0 .. Len(c) - 1 : New(p, i) \in 0 .. Len(c) /\ At(e, i) = At(c, New(p, i))
  /\ \A x \in 1 .. Len(c) : x # p => \E i \in 1 .. Len(c) - 1 : New(p, i) = x
  /\ \A i, j \in 0 .. Len(c) : i < j <=> New(p, i) < New(p, j)

LEMMA RemovedFacts ==
  ASSUME NEW c \in Seq(Node), NEW p \in 1 .. Len(c)
  PROVE  RemovedAt(Removed(c, p), c, p)
<1> PICK e : e = Removed(c, p)
  OBVIOUS
<1> SUFFICES RemovedAt(e, c, p)
  OBVIOUS
<1>1. Len(c) \in Nat /\ Len(c) - 1 \in Nat
  OBVIOUS
<1>2. \A i \in 1 .. Len(c) - 1 : New(p, i) \in 1 .. Len(c) /\ New(p, i) # p /\ e[i] = c[New(p, i)]
  <2> TAKE i \in 1 .. Len(c) - 1
  <2>1. New(p, i) \in 1 .. Len(c) /\ New(p, i) # p
    BY <1>1 DEF New
  <2> QED
    BY <2>1 DEF Removed
<1>3. e \in [1 .. Len(c) - 1 -> Node]
  <2>1. \A i \in 1 .. Len(c) - 1 : e[i] \in Node
    BY <1>1, <1>2
  <2>2. e = [i \in 1 .. Len(c) - 1 |-> e[i]]
    BY DEF Removed
  <2> QED
    BY <2>1, <2>2
<1>4. e \in Seq(Node) /\ Len(e) = Len(c) - 1
  BY <1>1, <1>3
<1>5. \A i \in 0 .. Len(c) - 1 : New(p, i) \in 0 .. Len(c) /\ At(e, i) = At(c, New(p, i))
  <2> TAKE i \in 0 .. Len(c) - 1
  <2>1. CASE i = 0
    <3>1. New(p, i) = 0
      BY <1>1, <2>1 DEF New
    <3> QED
      BY <1>1, <2>1, <3>1 DEF At
  <2>2. CASE i # 0
    <3>1. New(p, i) \in 1 .. Len(c) /\ e[i] = c[New(p, i)]
      BY <1>1, <1>2, <2>2
    <3>2. New(p, i) # 0
      BY <3>1
    <3> QED
      BY <1>1, <2>2, <3>1, <3>2 DEF At
  <2> QED
    BY <2>1, <2>2
<1>6. \A x \in 1 .. Len(c) : x # p => \E i \in 1 .. Len(c) - 1 : New(p, i) = x
  <2> TAKE x \in 1 .. Len(c)
  <2> HAVE x # p
  <2>1. CASE x < p
    <3>1. x \in 1 .. Len(c) - 1
      BY <1>1, <2>1
    <3> WITNESS x \in 1 .. Len(c) - 1
    <3> QED
      BY <2>1 DEF New
  <2>2. CASE p < x
    <3>1. x - 1 \in 1 .. Len(c) - 1
      BY <1>1, <2>2
    <3> WITNESS x - 1 \in 1 .. Len(c) - 1
    <3> QED
      BY <1>1, <2>2 DEF New
  <2> QED
    BY <1>1, <2>1, <2>2
<1>7. \A i, j \in 0 .. Len(c) : i < j <=> New(p, i) < New(p, j)
  BY <1>1 DEF New
<1> QED
  BY <1>2, <1>4, <1>5, <1>6, <1>7 DEF RemovedAt

\* What follows place i once p is gone is what followed before.
MovedDown(A, N, p, i, j) ==
  /\ NextIn(A, N, New(p, i), New(p, j))
  /\ New(p, i) \in A \cup {0} /\ New(p, j) \in 1 .. N + 1

LEMMA NextWithoutPlace ==
  ASSUME NEW N \in Nat \ {0}, NEW A \in SUBSET (1 .. N), NEW p \in 1 .. N, p \notin A,
         NEW T, T = WithoutPlace(A, N, p),
         NEW i \in T \cup {0}, NEW j \in 1 .. N, NextIn(T, N - 1, i, j)
  PROVE  MovedDown(A, N, p, i, j)
<1>1. /\ i < j /\ j \in T \cup {N} /\ \A m \in T : m <= i \/ j <= m
      /\ i \in Nat /\ i < N
  <2>1. (N - 1) + 1 = N
    OBVIOUS
  <2>2. \A m \in T : m \in 1 .. N - 1
    BY DEF WithoutPlace
  <2> QED
    BY <2>1, <2>2 DEF NextIn
<1>2. \A y \in 1 .. N - 1 : y \in T <=> New(p, y) \in A
  BY DEF WithoutPlace
<1>3. New(p, i) \in A \cup {0}
  <2>1. CASE i = 0
    BY <2>1 DEF New
  <2>2. CASE i # 0
    <3>1. i \in T /\ i \in 1 .. N - 1
      BY <1>1, <2>2
    <3> QED
      BY <1>2, <3>1
  <2> QED
    BY <2>1, <2>2
<1>4. New(p, j) \in A \cup {N + 1}
  <2>1. CASE j = N
    BY <2>1 DEF New
  <2>2. CASE j # N
    <3>1. j \in T /\ j \in 1 .. N - 1
      BY <1>1, <2>2
    <3> QED
      BY <1>2, <3>1
  <2> QED
    BY <2>1, <2>2
<1>5. New(p, i) < New(p, j)
  BY <1>1 DEF New
<1>6. \A m \in A : m <= New(p, i) \/ New(p, j) <= m
  <2> TAKE m \in A
  <2>1. CASE m < p
    <3>1. m \in 1 .. N - 1 /\ New(p, m) = m
      BY <2>1 DEF New
    <3>2. m <= i \/ j <= m
      BY <1>1, <1>2, <3>1
    <3> QED
      BY <1>1, <2>1, <3>2 DEF New
  <2>2. CASE p < m
    <3>1. m - 1 \in 1 .. N - 1 /\ New(p, m - 1) = m
      BY <2>2 DEF New
    <3>2. m - 1 <= i \/ j <= m - 1
      BY <1>1, <1>2, <3>1
    <3> QED
      BY <1>1, <2>2, <3>2 DEF New
  <2> QED
    BY <2>1, <2>2
<1>7. New(p, j) \in 1 .. N + 1
  BY DEF New
<1> QED
  BY <1>3, <1>4, <1>5, <1>6, <1>7 DEF MovedDown, NextIn

\* M are the nodes once each level that meets k has lost the node it meets.
CutFrom(M, c, b, j, k) ==
  LET hits == Hits(Traverse(k), k)
  IN  /\ DOMAIN M = DOMAIN node \ {c[j[0]]}
      /\ \A m \in DOMAIN M :
           /\ IsNode(M[m])
           /\ M[m].key = node[m].key /\ M[m].height = node[m].height /\ M[m].row = node[m].row
           /\ \A l \in 0 .. node[m].height - 1 :
                /\ M[m].next[l] = IF l \in hits /\ At(c, b[l]) = m THEN node[c[j[l]]].next[l]
                                  ELSE IF l \in hits /\ c[j[l]] = m THEN Null
                                  ELSE node[m].next[l]
                /\ M[m].width[l] = IF At(c, b[l]) # m THEN node[m].width[l]
                                   ELSE IF l \in hits
                                     THEN (node[m].width[l] + node[c[j[l]]].width[l]) - 1
                                   ELSE node[m].width[l] - 1

\* That is what WithoutNode makes.
LEMMA RemoveNodes ==
  ASSUME NEW c \in Seq(Node), NEW S, Shape(c, S), NEW k \in Key,
         NEW b, NEW j, Search(c, S, k, b, j), Hits(Traverse(k), k) # {},
         NEW M, M = WithoutNode(k)
  PROVE  CutFrom(M, c, b, j, k)
<1> DEFINE context == Traverse(k)
           hits == Hits(context, k)
           unlinked(m) == [node[m] EXCEPT
             !.next = [l \in DOMAIN @ |->
                         IF l \in hits /\ context[l].prev = m
                           THEN node[After(context, l)].next[l]
                         ELSE IF l \in hits /\ After(context, l) = m THEN Null
                         ELSE @[l]],
             !.width = [l \in DOMAIN @ |->
                         IF context[l].prev # m THEN @[l]
                         ELSE IF l \in hits
                                THEN JoinedWidth(@[l], node[After(context, l)].width[l])
                                ELSE NarrowedWidth(@[l])]]
<1>1. M = [m \in DOMAIN node \ {After(context, 0)} |-> unlinked(m)]
  BY Zenon DEF WithoutNode
<1>2. k \in Int /\ Stops(c, S, k, b)
  BY KeyAssumption DEF Search
<1>3. /\ Len(c) \in Nat /\ 0 \in Levels
      /\ \A i \in 1 .. Len(c) : c[i] \in Node /\ c[i] \in DOMAIN node
      /\ \A l \in Levels : S[l] \subseteq 1 .. Len(c)
      /\ \A l \in Levels : \A i \in S[l] \cup {0} : At(c, i) \in Tall(l)
  BY ShapeFacts
<1>4. /\ \A l \in Levels : /\ j[l] \in 1 .. Len(c) + 1
                           /\ j[l] # Len(c) + 1 => j[l] \in S[l] /\ j[l] \in 1 .. Len(c)
                           /\ After(context, l) = IF j[l] = Len(c) + 1 THEN Null ELSE c[j[l]]
                           /\ b[l] <= b[0] /\ b[0] < j[l]
      /\ b[0] \in 0 .. Len(c) /\ j[0] = b[0] + 1
      /\ hits = {l \in Levels : j[l] # Len(c) + 1 /\ KeyAt(c, j[l]) = k}
      /\ \A l, m \in Levels : l <= m => j[l] <= j[m]
  BY <1>2, SearchFacts
<1>5. \A l \in Levels : b[l] \in 0 .. Len(c)
  BY <1>2 DEF Stops
<1>6. \A l \in Levels : context[l].prev = At(c, b[l])
  BY <1>2, TraverseIs
<1>7. \A l \in Levels : node[At(c, b[l])].width[l] = Ahead(c, S, b, j, l)
  BY <1>2, StopWidth
<1>8. j[0] \in 1 .. Len(c) /\ \A l \in hits : l \in Levels /\ j[l] \in S[l] /\ j[l] \in 1 .. Len(c)
  <2>1. PICK l \in hits : TRUE
    OBVIOUS
  <2>2. l \in Levels /\ 0 <= l /\ j[l] # Len(c) + 1
    BY <1>4, <2>1 DEF Levels
  <2>3. j[0] <= j[l] /\ j[l] \in 1 .. Len(c)
    BY <1>3, <1>4, <2>2
  <2>4. j[0] \in 1 .. Len(c) + 1
    BY <1>3, <1>4
  <2>5. j[0] \in 1 .. Len(c)
    BY <1>3, <2>3, <2>4
  <2> QED
    BY <1>4, <2>5
<1>9. \A l \in hits : After(context, l) = c[j[l]]
  BY <1>3, <1>4, <1>8
<1>10. \A l \in Levels : Ahead(c, S, b, j, l) \in Nat /\ Ahead(c, S, b, j, l) - 1 \in Nat
  <2> TAKE l \in Levels
  <2>1. /\ b[l] \in Int /\ b[l] < Len(c) /\ b[l] < j[l] /\ j[l] \in Int
    BY <1>3, <1>4, <1>5, <1>8
  <2> QED
    BY <1>3, <2>1 DEF Ahead
<1>11. \A l \in hits : /\ node[c[j[l]]].next[l] \in Node \cup {Null}
                       /\ node[c[j[l]]].width[l] \in Nat
  <2> TAKE l \in hits
  <2>1. At(c, j[l]) \in Tall(l) /\ At(c, j[l]) = c[j[l]] /\ l \in Levels
    BY <1>3, <1>8 DEF At
  <2>2. c[j[l]] \in DOMAIN node /\ node[c[j[l]]].height > l
    BY <2>1 DEF Tall
  <2>3. /\ node[c[j[l]]].height \in 1 .. MaxNodeHeight
        /\ node[c[j[l]]].next \in [0 .. node[c[j[l]]].height - 1 -> Node \cup {Null}]
        /\ node[c[j[l]]].width \in [0 .. node[c[j[l]]].height - 1 -> Nat]
    BY <2>2, NodeFacts
  <2>4. l \in 0 .. node[c[j[l]]].height - 1
    BY <2>1, <2>2, <2>3 DEF Levels
  <2> QED
    BY <2>3, <2>4
<1>12. After(context, 0) = c[j[0]]
  BY <1>3, <1>4, <1>8
<1> HIDE DEF hits, context
<1>13. DOMAIN M = DOMAIN node \ {c[j[0]]} /\ \A m \in DOMAIN M : M[m] = unlinked(m)
  BY <1>1, <1>12
<1> HIDE DEF unlinked
<1>14. ASSUME NEW m \in DOMAIN M
       PROVE  /\ IsNode(M[m])
              /\ M[m].key = node[m].key /\ M[m].height = node[m].height /\ M[m].row = node[m].row
              /\ \A l \in 0 .. node[m].height - 1 :
                   /\ M[m].next[l] = IF l \in hits /\ At(c, b[l]) = m THEN node[c[j[l]]].next[l]
                                     ELSE IF l \in hits /\ c[j[l]] = m THEN Null
                                     ELSE node[m].next[l]
                   /\ M[m].width[l] = IF At(c, b[l]) # m THEN node[m].width[l]
                                      ELSE IF l \in hits
                                        THEN (node[m].width[l] + node[c[j[l]]].width[l]) - 1
                                      ELSE node[m].width[l] - 1
  <2> DEFINE H == node[m].height
             nexts == [l \in 0 .. H - 1 |->
                         IF l \in hits /\ context[l].prev = m
                           THEN node[After(context, l)].next[l]
                         ELSE IF l \in hits /\ After(context, l) = m THEN Null
                         ELSE node[m].next[l]]
             widths == [l \in 0 .. H - 1 |->
                          IF context[l].prev # m THEN node[m].width[l]
                          ELSE IF l \in hits
                                 THEN JoinedWidth(node[m].width[l],
                                                  node[After(context, l)].width[l])
                                 ELSE NarrowedWidth(node[m].width[l])]
  <2>0. m \in DOMAIN node
    BY <1>13
  <2>1. /\ H \in 1 .. MaxNodeHeight
        /\ node[m].key \in Key \cup {0} /\ node[m].row \in Buf \cup {Null}
        /\ node[m].next \in [0 .. H - 1 -> Node \cup {Null}]
        /\ node[m].width \in [0 .. H - 1 -> Nat]
        /\ node[m] = [key |-> node[m].key, height |-> H, row |-> node[m].row,
                      next |-> node[m].next, width |-> node[m].width]
        /\ \A l \in 0 .. H - 1 : l \in Levels
    BY <2>0, NodeFacts
  <2>2. DOMAIN node[m].next = 0 .. H - 1 /\ DOMAIN node[m].width = 0 .. H - 1
    BY <2>1
  <2>3. M[m] = [key |-> node[m].key, height |-> H, row |-> node[m].row,
                next |-> nexts, width |-> widths]
    <3>1. unlinked(m) = [node[m] EXCEPT !.next = nexts, !.width = widths]
      BY <2>2, Zenon DEF unlinked
    <3>2. M[m] = unlinked(m)
      BY <1>13
    <3> HIDE DEF nexts, widths
    <3> QED
      BY <2>1, <3>1, <3>2
  <2>4. \A l \in 0 .. H - 1 :
          /\ nexts[l] = IF l \in hits /\ At(c, b[l]) = m THEN node[c[j[l]]].next[l]
                        ELSE IF l \in hits /\ c[j[l]] = m THEN Null
                        ELSE node[m].next[l]
          /\ widths[l] = IF At(c, b[l]) # m THEN node[m].width[l]
                         ELSE IF l \in hits
                           THEN (node[m].width[l] + node[c[j[l]]].width[l]) - 1
                         ELSE node[m].width[l] - 1
    <3> TAKE l \in 0 .. H - 1
    <3>1. l \in Levels /\ context[l].prev = At(c, b[l])
      BY <1>6, <2>1
    <3>2. l \in hits => After(context, l) = c[j[l]]
      BY <1>9
    <3> QED
      BY <3>1, <3>2 DEF JoinedWidth, NarrowedWidth
  <2>5. nexts \in [0 .. H - 1 -> Node \cup {Null}]
    BY <1>11, <2>1, <2>4
  <2>6. widths \in [0 .. H - 1 -> Nat]
    <3>1. \A l \in 0 .. H - 1 : widths[l] \in Nat
      <4> TAKE l \in 0 .. H - 1
      <4>1. l \in Levels /\ node[m].width[l] \in Nat
        BY <2>1
      <4> HIDE DEF widths
      <4>2. CASE At(c, b[l]) # m
        BY <2>4, <4>1, <4>2
      <4>3. CASE At(c, b[l]) = m
        <5>1. node[m].width[l] - 1 \in Nat
          BY <1>7, <1>10, <4>1, <4>3
        <5>2. l \in hits => (node[m].width[l] + node[c[j[l]]].width[l]) - 1 \in Nat
          <6> SUFFICES ASSUME l \in hits
                       PROVE  (node[m].width[l] + node[c[j[l]]].width[l]) - 1 \in Nat
            OBVIOUS
          <6>1. node[c[j[l]]].width[l] \in Nat
            BY <1>11
          <6>2. \A u, v \in Nat : u - 1 \in Nat => (u + v) - 1 \in Nat
            OBVIOUS
          <6> QED
            BY <4>1, <5>1, <6>1, <6>2
        <5> QED
          BY <2>4, <4>3, <5>1, <5>2
      <4> QED
        BY <4>2, <4>3
    <3> HIDE DEF H
    <3> QED
      BY <3>1
  <2> HIDE DEF nexts, widths
  <2>7. IsNode(M[m])
    <3>1. M[m] \in NodeOf(H)
      BY <2>1, <2>3, <2>5, <2>6 DEF NodeOf
    <3> QED
      BY <2>1, <3>1 DEF IsNode
  <2>8. /\ M[m].key = node[m].key /\ M[m].height = node[m].height /\ M[m].row = node[m].row
        /\ M[m].next = nexts /\ M[m].width = widths
    BY <2>3
  <2> QED
    BY <2>4, <2>7, <2>8
<1> QED
  BY <1>13, <1>14 DEF CutFrom, hits, context

\* The places of each level after the call: without the node a level meets.
LevelsLeft(c, S, k, b, j) ==
  [l \in Levels |-> WithoutPlace(IF l \in Hits(Traverse(k), k) THEN S[l] \ {j[l]} ELSE S[l],
                                 Len(c), b[0] + 1)]

\* A call that removes leaves a shape, without the first node that has the key.
LEMMA RemoveShape ==
  ASSUME NEW c \in Seq(Node), NEW S, Shape(c, S), NEW k \in Key,
         NEW b, NEW j, Search(c, S, k, b, j), Hits(Traverse(k), k) # {},
         node' = WithoutNode(k), heap' = heap \ {node[c[b[0] + 1]].row}, size' = size - 1,
         primary' = primary,
         NEW e, e = Removed(c, b[0] + 1),
         NEW T, T = LevelsLeft(c, S, k, b, j)
  PROVE  Shape(e, T)' /\ b[0] + 1 \in 1 .. Len(c) /\ KeyAt(c, b[0] + 1) = k
<1>0. T = [l \in Levels |->
             WithoutPlace(IF l \in Hits(Traverse(k), k) THEN S[l] \ {j[l]} ELSE S[l],
                          Len(c), b[0] + 1)]
  BY DEF LevelsLeft
<1> DEFINE N == Len(c)
           p == b[0] + 1
           hits == Hits(Traverse(k), k)
           left(l) == IF l \in hits THEN S[l] \ {j[l]} ELSE S[l]
<1>1. /\ N \in Nat /\ 0 \in Levels
      /\ \A l \in Levels : S[l] \subseteq 1 .. N
      /\ \A i \in 0 .. N : At(c, i) \in DOMAIN node
      /\ \A i \in 1 .. N : KeyAt(c, i) \in Int /\ c[i] \in Node /\ c[i] \in DOMAIN node
                           /\ c[i] # HeadNode
      /\ \A x, y \in 0 .. N : At(c, x) = At(c, y) => x = y
      /\ \A l \in Levels : \A i \in S[l] \cup {0} : At(c, i) \in Tall(l)
  BY ShapeFacts
<1>2. k \in Int /\ Stops(c, S, k, b)
  BY KeyAssumption DEF Search
<1>3. /\ \A l \in Levels : /\ j[l] \in 1 .. N + 1
                           /\ j[l] # N + 1 => j[l] \in S[l] /\ j[l] \in 1 .. N
                           /\ b[l] <= b[0] /\ b[0] < j[l]
                           /\ b[0] + 1 \in S[l] => j[l] = b[0] + 1
                           /\ j[l] # N + 1 => KeyAt(c, j[l]) >= k
      /\ b[0] \in 0 .. N /\ j[0] = b[0] + 1
      /\ hits = {l \in Levels : j[l] # N + 1 /\ KeyAt(c, j[l]) = k}
      /\ \A l, m \in Levels : l <= m => j[l] <= j[m]
  BY <1>2, SearchFacts
<1>4. /\ \A l \in Levels : b[l] \in 0 .. N /\ b[l] \in S[l] \cup {0}
      /\ \A l, m \in Levels : l <= m => b[m] <= b[l]
      /\ \A i \in 1 .. N : i <= b[0] <=> KeyAt(c, i) < k
  BY <1>2, StopFacts
<1>5. p \in 1 .. N /\ KeyAt(c, p) = k
  <2>1. PICK l \in hits : TRUE
    OBVIOUS
  <2>2. l \in Levels /\ 0 <= l /\ j[l] # N + 1 /\ KeyAt(c, j[l]) = k
    BY <1>3, <2>1 DEF Levels
  <2>3. j[0] <= j[l] /\ j[l] \in 1 .. N
    BY <1>1, <1>3, <2>2
  <2>4. j[0] \in 1 .. N + 1
    BY <1>1, <1>3
  <2>5. p \in 1 .. N /\ p <= j[l]
    BY <1>1, <1>3, <2>3, <2>4
  <2>6. KeyAt(c, p) <= KeyAt(c, j[l])
    BY <1>1, <2>3, <2>5 DEF Shape, Sorted
  <2>7. KeyAt(c, p) >= k /\ KeyAt(c, p) \in Int
    BY <1>1, <1>3, <2>5
  <2> QED
    BY <1>2, <2>2, <2>5, <2>6, <2>7
<1>6. /\ e \in Seq(Node) /\ Len(e) = N - 1
      /\ \A i \in 1 .. N - 1 : New(p, i) \in 1 .. N /\ New(p, i) # p /\ e[i] = c[New(p, i)]
      /\ \A i \in 0 .. N - 1 : New(p, i) \in 0 .. N /\ At(e, i) = At(c, New(p, i))
      /\ \A x \in 1 .. N : x # p => \E i \in 1 .. N - 1 : New(p, i) = x
      /\ \A x, y \in 0 .. N : x < y <=> New(p, x) < New(p, y)
  <2>1. e = Removed(c, p) /\ p \in 1 .. Len(c)
    BY <1>5
  <2> HIDE DEF p
  <2>2. RemovedAt(e, c, p)
    BY <2>1, RemovedFacts
  <2> QED
    BY <2>2 DEF RemovedAt
<1>7. PICK M : M = WithoutNode(k)
  OBVIOUS
<1>8. node' = M
  BY <1>7
<1>9. /\ DOMAIN M = DOMAIN node \ {c[p]}
      /\ \A m \in DOMAIN M :
           /\ IsNode(M[m])
           /\ M[m].key = node[m].key /\ M[m].height = node[m].height /\ M[m].row = node[m].row
           /\ \A l \in 0 .. node[m].height - 1 :
                /\ M[m].next[l] = IF l \in hits /\ At(c, b[l]) = m THEN node[c[j[l]]].next[l]
                                  ELSE IF l \in hits /\ c[j[l]] = m THEN Null
                                  ELSE node[m].next[l]
                /\ M[m].width[l] = IF At(c, b[l]) # m THEN node[m].width[l]
                                   ELSE IF l \in hits
                                     THEN (node[m].width[l] + node[c[j[l]]].width[l]) - 1
                                   ELSE node[m].width[l] - 1
  <2>1. CutFrom(M, c, b, j, k)
    BY <1>7, RemoveNodes
  <2> QED
    BY <1>3, <2>1 DEF CutFrom
<1>10. \A l \in Levels : T[l] = WithoutPlace(left(l), N, p)
  BY <1>0
<1>11. \A l \in Levels : left(l) \in SUBSET (1 .. N) /\ p \notin left(l)
  <2> TAKE l \in Levels
  <2>1. left(l) \in SUBSET (1 .. N)
    BY <1>1
  <2>2. p \in S[l] => l \in hits /\ j[l] = p
    BY <1>1, <1>3, <1>5
  <2> QED
    BY <2>1, <2>2
<1>12. \A l \in hits : l \in Levels /\ j[l] \in S[l] /\ j[l] \in 1 .. N /\ KeyAt(c, j[l]) = k
  BY <1>3
<1> HIDE DEF N, p, hits, left
<1>13. \A l \in Levels : \A i \in 1 .. N - 1 : i \in T[l] <=> New(p, i) \in left(l)
  BY <1>10 DEF WithoutPlace
<1>14. \A l \in Levels : T[l] \subseteq 1 .. N - 1
  BY <1>10 DEF WithoutPlace
<1>15. /\ N - 1 \in Nat /\ p \in Nat
       /\ \A x, y \in 0 .. N : New(p, x) = New(p, y) => x = y
  BY <1>1, <1>5 DEF New
<1>16. \A x, y \in 1 .. N : c[x] = c[y] => x = y
  BY DEF Shape, Listed, N
<1>17. \A i \in 1 .. N - 1 : /\ e[i] \in DOMAIN M /\ e[i] \in DOMAIN node
                             /\ M[e[i]].key = KeyAt(c, New(p, i))
                             /\ M[e[i]].row = node[c[New(p, i)]].row
                             /\ M[e[i]].height = node[c[New(p, i)]].height
  <2> TAKE i \in 1 .. N - 1
  <2>1. New(p, i) \in 1 .. N /\ New(p, i) # p /\ e[i] = c[New(p, i)]
    BY <1>6
  <2>2. c[New(p, i)] # c[p]
    BY <1>5, <1>16, <2>1
  <2>3. e[i] \in DOMAIN M /\ e[i] \in DOMAIN node
    BY <1>1, <1>9, <2>1, <2>2
  <2> QED
    BY <1>9, <2>1, <2>3 DEF KeyAt
<1>18. Listed(e)'
  <2>1. \A x, y \in 1 .. N - 1 : e[x] = e[y] => x = y
    <3> TAKE x, y \in 1 .. N - 1
    <3>1. /\ New(p, x) \in 1 .. N /\ e[x] = c[New(p, x)]
          /\ New(p, y) \in 1 .. N /\ e[y] = c[New(p, y)]
      BY <1>6
    <3>2. x \in 0 .. N /\ y \in 0 .. N
      BY <1>1
    <3> QED
      BY <1>15, <1>16, <3>1, <3>2
  <2>2. DOMAIN M = {HeadNode} \cup {e[i] : i \in 1 .. N - 1}
    <3>1. DOMAIN node = {HeadNode} \cup {c[x] : x \in 1 .. N}
      BY DEF Shape, Listed, N
    <3>2. ASSUME NEW m \in DOMAIN M PROVE m \in {HeadNode} \cup {e[i] : i \in 1 .. N - 1}
      <4> SUFFICES ASSUME m # HeadNode PROVE \E i \in 1 .. N - 1 : e[i] = m
        OBVIOUS
      <4>1. PICK x \in 1 .. N : m = c[x] /\ x # p
        BY <1>9, <3>1
      <4>2. PICK i \in 1 .. N - 1 : New(p, i) = x
        BY <1>6, <4>1
      <4> QED
        BY <1>6, <4>1, <4>2
    <3>3. HeadNode \in DOMAIN M
      BY <1>1, <1>5, <1>9, <3>1
    <3>4. \A i \in 1 .. N - 1 : e[i] \in DOMAIN M
      BY <1>17
    <3> QED
      BY <3>2, <3>3, <3>4
  <2> QED
    BY <1>6, <1>8, <2>1, <2>2 DEF Listed
<1>19. Typed(e)'
  <2>1. \A m \in DOMAIN M : IsNode(M[m])
    BY <1>9
  <2>2. M[HeadNode].height = MaxNodeHeight
    <3>1. HeadNode \in DOMAIN M
      BY <1>1, <1>5, <1>9 DEF Shape, Listed
    <3> QED
      BY <1>9, <3>1 DEF Shape, Typed
  <2>3. \A i \in 1 .. N - 1 : M[e[i]].key \in Key /\ M[e[i]].row \in Buf
    BY <1>6, <1>17 DEF Shape, Typed, N
  <2> QED
    BY <1>6, <1>8, <2>1, <2>2, <2>3 DEF Typed, KeyAt
<1>20. LevelSets(e, T)
  <2>1. T \in [Levels -> SUBSET (1 .. N - 1)]
    BY <1>0, <1>14
  <2>2. T[0] = 1 .. N - 1
    <3>1. \A i \in 1 .. N - 1 : i \in T[0]
      <4> TAKE i \in 1 .. N - 1
      <4>1. New(p, i) \in 1 .. N /\ New(p, i) # p
        BY <1>6
      <4>2. New(p, i) \in S[0] /\ j[0] = p
        BY <1>3, <4>1 DEF Shape, LevelSets, N, p
      <4>3. New(p, i) \in left(0)
        BY <4>1, <4>2 DEF left
      <4> QED
        BY <1>1, <1>13, <4>3
    <3> QED
      BY <1>1, <1>14, <3>1
  <2>3. ASSUME NEW l \in Levels, NEW m \in Levels, l <= m PROVE T[m] \subseteq T[l]
    <3> SUFFICES ASSUME NEW i \in T[m] PROVE i \in T[l]
      OBVIOUS
    <3>1. i \in 1 .. N - 1 /\ New(p, i) \in left(m)
      BY <1>13, <1>14
    <3> DEFINE x == New(p, i)
    <3>2. x \in S[m] /\ x \in S[l] /\ (m \in hits => x # j[m])
      BY <2>3, <3>1 DEF Shape, LevelSets, left
    <3> HIDE DEF x
    <3>3. ~(l \in hits /\ x = j[l])
      <4> SUFFICES ASSUME l \in hits, x = j[l] PROVE FALSE
        OBVIOUS
      <4>1. b[m] <= b[l] /\ b[l] < j[l] /\ j[l] <= j[m] /\ j[l] \in 1 .. N
            /\ KeyAt(c, j[l]) = k
        <5>1. NextIn(S[l], N, b[l], j[l])
          BY DEF Search, N
        <5> QED
          BY <1>3, <1>4, <1>12, <2>3, <5>1 DEF NextIn
      <4>2. j[m] \in 1 .. N + 1 /\ \A y \in S[m] : y <= b[m] \/ j[m] <= y
        BY <1>3 DEF Search, NextIn, N
      <4>3. x <= b[m] \/ j[m] <= x
        BY <3>2, <4>2
      <4>4. ~(x <= b[m])
        BY <1>4, <4>1
      <4>5. j[m] = j[l]
        BY <1>1, <4>1, <4>2, <4>3, <4>4
      <4>6. m \in hits
        <5>1. j[m] # N + 1
          BY <1>1, <4>1, <4>5
        <5> QED
          BY <1>3, <4>1, <4>5, <5>1
      <4> QED
        BY <3>2, <4>5, <4>6
    <3>4. x \in left(l)
      BY <3>2, <3>3 DEF left
    <3> QED
      BY <1>13, <3>1, <3>4 DEF x
  <2> QED
    BY <1>6, <2>1, <2>2, <2>3 DEF LevelSets
<1>21. Heights(e, T)'
  <2>1. ASSUME NEW l \in Levels, NEW i \in 1 .. N - 1
        PROVE  /\ i \in T[l] => M[e[i]].height > l
               /\ primary /\ M[e[i]].height > l => i \in T[l]
    <3> DEFINE x == New(p, i)
    <3>1. x \in 1 .. N /\ x # p /\ M[e[i]].height = node[c[x]].height
      BY <1>6, <1>17
    <3>2. i \in T[l] <=> x \in left(l)
      BY <1>13
    <3> HIDE DEF x
    <3>3. x \in S[l] => node[c[x]].height > l
      BY <3>1 DEF Shape, Heights, N
    <3>4. primary /\ node[c[x]].height > l => x \in S[l]
      BY <3>1 DEF Shape, Heights, N
    <3>5. primary /\ l \in hits => x # j[l]
      <4> SUFFICES ASSUME primary, l \in hits, x = j[l] PROVE FALSE
        OBVIOUS
      <4>1. b[0] < x /\ KeyAt(c, x) = k
        BY <1>3, <1>12
      <4>2. p < x
        BY SMTT(20), <1>1, <1>3, <3>1, <4>1 DEF p
      <4>3. KeyAt(c, p) < KeyAt(c, x)
        BY <1>5, <3>1, <4>2 DEF Shape, Sorted, N
      <4> QED
        BY <1>2, <1>5, <4>1, <4>3
    <3> QED
      BY <3>1, <3>2, <3>3, <3>4, <3>5 DEF left
  <2> QED
    BY <1>6, <1>8, <2>1 DEF Heights
<1>22. Sorted(e)'
  <2>1. ASSUME NEW x \in 1 .. N - 1, NEW y \in 1 .. N - 1, x < y
        PROVE  M[e[x]].key <= M[e[y]].key /\ (primary => M[e[x]].key < M[e[y]].key)
    <3>1. /\ M[e[x]].key = KeyAt(c, New(p, x)) /\ New(p, x) \in 1 .. N
          /\ M[e[y]].key = KeyAt(c, New(p, y)) /\ New(p, y) \in 1 .. N
      BY <1>6, <1>17
    <3>2. New(p, x) < New(p, y)
      <4>1. x \in 0 .. N /\ y \in 0 .. N
        BY <1>1
      <4> QED
        BY <1>6, <2>1, <4>1
    <3> QED
      BY <3>1, <3>2 DEF Shape, Sorted, N
  <2> QED
    BY <1>6, <1>8, <2>1 DEF Sorted, KeyAt
<1>23. \A x \in 0 .. N : At(c, x) \in DOMAIN node /\ \A l \in Levels :
         l < node[At(c, x)].height => l \in 0 .. node[At(c, x)].height - 1
  <2> TAKE x \in 0 .. N
  <2>1. At(c, x) \in DOMAIN node
    BY <1>1
  <2>2. node[At(c, x)].height \in 1 .. MaxNodeHeight
    BY <2>1, NodeFacts
  <2> QED
    BY <2>1, <2>2 DEF Levels
<1>24. \A l \in Levels, x \in 0 .. N : At(c, b[l]) = At(c, x) => b[l] = x
  BY <1>1, <1>4
<1>25. Unlinked(e, T)'
  <2>1. ASSUME NEW l \in Levels, NEW i \in 1 .. N - 1, i \notin T[l], l < M[e[i]].height
        PROVE  M[e[i]].next[l] = Null
    <3> DEFINE x == New(p, i)
    <3>1. x \in 1 .. N /\ x # p /\ M[e[i]].height = node[c[x]].height /\ e[i] = c[x]
          /\ e[i] \in DOMAIN M
      BY <1>6, <1>17
    <3>2. x \notin left(l)
      BY <1>13, <2>1
    <3> HIDE DEF x
    <3>3. At(c, x) = c[x] /\ x \in 0 .. N /\ x # 0
      BY <1>1, <3>1 DEF At
    <3>4. l \in 0 .. node[c[x]].height - 1
      BY <1>23, <2>1, <3>1, <3>3
    <3>5. CASE x \notin S[l]
      <4>1. node[c[x]].next[l] = Null
        BY <2>1, <3>1, <3>5 DEF Shape, Unlinked, N
      <4>2. At(c, b[l]) # c[x]
        BY <1>4, <1>24, <3>3, <3>5
      <4> QED
        BY <1>9, <3>1, <3>4, <4>1, <4>2
    <3>6. CASE x \in S[l]
      <4>1. l \in hits /\ x = j[l]
        BY <3>2, <3>6 DEF left
      <4>2. b[l] # x
        <5>1. b[l] <= b[0] /\ b[0] < j[l] /\ b[l] \in Int /\ b[0] \in Int /\ x \in Int
          BY <1>1, <1>3, <1>4, <3>1
        <5> QED
          BY <4>1, <5>1
      <4>3. At(c, b[l]) # c[x]
        BY <1>24, <3>3, <4>2
      <4> QED
        BY <1>9, <3>1, <3>4, <4>1, <4>3
    <3> QED
      BY <3>5, <3>6
  <2> QED
    BY <1>6, <1>8, <2>1 DEF Unlinked
<1>26. Owned(e)'
  <2>1. \A x, y \in 1 .. N : node[c[x]].row = node[c[y]].row => x = y
    BY DEF Shape, Owned, N
  <2>2. ASSUME NEW x \in 1 .. N - 1, NEW y \in 1 .. N - 1, M[e[x]].row = M[e[y]].row PROVE x = y
    <3>1. New(p, x) \in 1 .. N /\ New(p, y) \in 1 .. N
          /\ node[c[New(p, x)]].row = node[c[New(p, y)]].row
      BY <1>6, <1>17, <2>2
    <3>2. x \in 0 .. N /\ y \in 0 .. N
      BY <1>1
    <3> QED
      BY <1>15, <2>1, <3>1, <3>2
  <2>3. heap \ {node[c[p]].row} = {M[e[i]].row : i \in 1 .. N - 1}
    <3>1. heap = {node[c[x]].row : x \in 1 .. N}
      BY DEF Shape, Owned, N
    <3>2. ASSUME NEW x \in 1 .. N, x # p PROVE node[c[x]].row \in {M[e[i]].row : i \in 1 .. N - 1}
      <4>1. PICK i \in 1 .. N - 1 : New(p, i) = x
        BY <1>6, <3>2
      <4> QED
        BY <1>17, <4>1
    <3>3. ASSUME NEW i \in 1 .. N - 1
          PROVE  /\ M[e[i]].row \in {node[c[x]].row : x \in 1 .. N}
                 /\ M[e[i]].row # node[c[p]].row
      <4>1. New(p, i) \in 1 .. N /\ New(p, i) # p /\ M[e[i]].row = node[c[New(p, i)]].row
        BY <1>6, <1>17
      <4> QED
        BY <1>5, <2>1, <4>1
    <3>4. heap \ {node[c[p]].row} \subseteq {M[e[i]].row : i \in 1 .. N - 1}
      BY ZenonT(20), <3>1, <3>2
    <3>5. {M[e[i]].row : i \in 1 .. N - 1} \subseteq heap \ {node[c[p]].row}
      BY ZenonT(20), <3>1, <3>3
    <3> QED
      BY ZenonT(20), <3>4, <3>5
  <2>4. size - 1 = N - 1
    BY DEF Shape, Owned, N
  <2> QED
    BY <1>6, <1>8, <2>2, <2>3, <2>4 DEF Owned, p
<1>27. Linked(e, T)'
  <2>1. ASSUME NEW l \in Levels, NEW i \in T[l] \cup {0}, NEW y \in 1 .. N,
               NextIn(T[l], N - 1, i, y)
        PROVE  /\ M[At(e, i)].next[l] = IF y = N THEN Null ELSE e[y]
               /\ M[At(e, i)].width[l] = (IF y = N THEN N - 1 ELSE y) - i
    <3> DEFINE x == New(p, i)
               z == New(p, y)
    <3>1. NextIn(left(l), N, x, z) /\ x \in left(l) \cup {0} /\ z \in 1 .. N + 1
      <4>1. T[l] = WithoutPlace(left(l), N, p)
        BY <1>10
      <4>2. N \in Nat \ {0}
        BY <1>1, <1>5
      <4>3. MovedDown(left(l), N, p, i, y)
        BY <1>5, <1>11, <2>1, <4>1, <4>2, NextWithoutPlace
      <4> QED
        BY <4>3 DEF MovedDown
    <3>2. i \in 0 .. N - 1 /\ l \in Nat
      <4>1. i \in 1 .. N - 1 \/ i = 0
        BY <1>14
      <4> QED
        BY <1>1, <1>15, <4>1 DEF Levels
    <3>3. At(e, i) = At(c, x) /\ x \in 0 .. N /\ x \in S[l] \cup {0}
      BY <1>6, <3>1, <3>2 DEF left
    <3>4. (z = N + 1 <=> y = N) /\ (y # N => e[y] = c[z])
      <4>1. z = N + 1 <=> y = N
        BY <1>1, <1>5 DEF New
      <4>2. y # N => y \in 1 .. N - 1
        BY <1>1
      <4> QED
        BY <1>6, <4>1, <4>2
    <3>5. /\ x # p /\ (x < p => i = x) /\ (p < x => i = x - 1)
          /\ z # p /\ (z < p => y = z) /\ (p < z => y = z - 1)
      BY <1>15, <3>2 DEF New
    <3> HIDE DEF x, z
    <3>6. /\ b[l] \in 0 .. N /\ b[l] \in S[l] \cup {0} /\ b[l] < p /\ p <= j[l]
          /\ j[l] \in 1 .. N + 1 /\ S[l] \subseteq 1 .. N
          /\ \A m \in S[l] : m <= b[l] \/ j[l] <= m
      <4>1. \A m \in S[l] : m <= b[l] \/ j[l] <= m
        BY DEF Search, NextIn, N
      <4>2. b[l] < p /\ p <= j[l]
        BY <1>1, <1>3, <1>4 DEF p
      <4> QED
        BY <1>1, <1>3, <1>4, <4>1, <4>2
    <3>7. \A u \in S[l] \cup {0}, v \in 1 .. N + 1 : NextIn(S[l], N, u, v) =>
            /\ node[At(c, u)].next[l] = IF v = N + 1 THEN Null ELSE c[v]
            /\ node[At(c, u)].width[l] = (IF v = N + 1 THEN N ELSE v) - u
      BY DEF Shape, Linked, N
    <3>8. At(c, x) \in DOMAIN M /\ l \in 0 .. node[At(c, x)].height - 1
      <4>1. At(c, x) # c[p]
        <5>1. c[p] = At(c, p) /\ p \in 0 .. N
          BY <1>1, <1>5 DEF At
        <5> QED
          BY <1>1, <3>3, <3>5, <5>1
      <4>2. At(c, x) \in DOMAIN node /\ node[At(c, x)].height > l
        BY <1>1, <3>3 DEF Tall
      <4>3. node[At(c, x)].height \in 1 .. MaxNodeHeight
        BY <4>2, NodeFacts
      <4> QED
        BY <1>9, <3>2, <4>1, <4>2, <4>3
    <3>9. NextIn(S[l], N, b[l], j[l])
      BY DEF Search, N
    <3>10. CASE x = b[l] /\ l \in hits
      <4>1. j[l] \in S[l] /\ j[l] \in 1 .. N /\ j[l] # z
        <5>1. j[l] \in S[l] /\ j[l] \in 1 .. N /\ j[l] # N + 1
          BY <1>1, <1>12, <3>10
        <5>2. z \in left(l) \cup {N + 1} /\ left(l) = S[l] \ {j[l]}
          BY <3>1, <3>10 DEF left, NextIn
        <5> QED
          BY <5>1, <5>2
      <4>2. NextIn(S[l], N, j[l], z)
        <5>1. j[l] < z /\ z \in S[l] \cup {N + 1}
          BY SMTT(20), <1>1, <3>1, <3>6, <3>10, <4>1 DEF NextIn, left
        <5>2. \A m \in S[l] : m <= j[l] \/ z <= m
          <6> TAKE m \in S[l]
          <6>1. CASE m = j[l]
            BY <4>1, <6>1
          <6>2. CASE m # j[l]
            <7>1. m \in left(l)
              BY <6>2 DEF left
            <7>2. m <= b[l] \/ z <= m
              BY <3>1, <3>10, <7>1 DEF NextIn
            <7>3. m \in Int /\ b[l] \in Int /\ j[l] \in Int /\ b[l] < j[l]
              BY SMTT(20), <1>1, <1>15, <3>6
            <7> QED
              BY <7>2, <7>3
          <6> QED
            BY <6>1, <6>2
        <5> QED
          BY <5>1, <5>2 DEF NextIn
      <4>3. /\ node[c[j[l]]].next[l] = IF z = N + 1 THEN Null ELSE c[z]
            /\ node[c[j[l]]].width[l] = (IF z = N + 1 THEN N ELSE z) - j[l]
            /\ node[At(c, x)].width[l] = j[l] - b[l]
        <5>1. c[j[l]] = At(c, j[l]) /\ j[l] \in S[l] \cup {0} /\ j[l] # N + 1
          BY <1>1, <4>1 DEF At
        <5> QED
          BY <3>1, <3>6, <3>7, <3>9, <3>10, <4>2, <5>1
      <4>4. M[At(c, x)].next[l] = node[c[j[l]]].next[l]
        BY <1>9, <3>8, <3>10
      <4>5. M[At(c, x)].width[l] = (node[At(c, x)].width[l] + node[c[j[l]]].width[l]) - 1
        BY <1>9, <3>8, <3>10
      <4>6. p < z /\ i = x /\ y = z - 1
        <5>1. p < z
          BY <1>15, <3>1, <3>6, <4>1, <4>2 DEF NextIn
        <5> QED
          BY <3>5, <3>6, <3>10, <5>1
      <4>7. M[At(c, x)].width[l] = (IF y = N THEN N - 1 ELSE y) - i
        <5>1. CASE y = N
          <6>1. ((j[l] - b[l]) + (N - j[l])) - 1 = (N - 1) - b[l]
            BY <1>1, <3>6, <4>1
          <6> QED
            BY <3>4, <3>10, <4>3, <4>5, <4>6, <5>1, <6>1
        <5>2. CASE y # N
          <6>1. ((j[l] - b[l]) + (z - j[l])) - 1 = (z - 1) - b[l]
            BY SMTT(20), <1>1, <3>1, <3>6, <4>1
          <6> QED
            BY <3>4, <3>10, <4>3, <4>5, <4>6, <5>2, <6>1
        <5> QED
          BY <5>1, <5>2
      <4> QED
        BY <3>3, <3>4, <4>3, <4>4, <4>7
    <3>11. CASE ~(x = b[l] /\ l \in hits)
      <4>1. NextIn(S[l], N, x, z)
        <5>1. CASE l \notin hits
          BY <3>1, <5>1 DEF left
        <5>2. CASE l \in hits
          <6>1. x # b[l] /\ j[l] \in S[l] /\ j[l] \in 1 .. N
            BY <1>12, <3>11, <5>2
          <6>2. x < z /\ z \in S[l] \cup {N + 1}
            BY <3>1 DEF NextIn, left
          <6>3. j[l] <= x \/ z <= j[l]
            <7> SUFFICES ASSUME ~(j[l] <= x) PROVE z <= j[l]
              OBVIOUS
            <7>1. x < b[l]
              BY <1>1, <3>3, <3>6, <6>1
            <7>2. b[l] \in left(l)
              <8>1. b[l] \in S[l]
                BY <1>1, <3>3, <3>6, <7>1
              <8>2. b[l] # j[l]
                BY <1>15, <3>6
              <8> QED
                BY <8>1, <8>2 DEF left
            <7>3. b[l] <= x \/ z <= b[l]
              BY <3>1, <7>2 DEF NextIn
            <7> QED
              BY <1>1, <1>15, <3>1, <3>3, <3>6, <7>1, <7>3
          <6>4. \A m \in S[l] : m <= x \/ z <= m
            <7> TAKE m \in S[l]
            <7>1. CASE m = j[l]
              BY <6>3, <7>1
            <7>2. CASE m # j[l]
              <8>1. m \in left(l)
                BY <7>2 DEF left
              <8> QED
                BY <3>1, <8>1 DEF NextIn
            <7> QED
              BY <7>1, <7>2
          <6> QED
            BY <6>2, <6>4 DEF NextIn
        <5> QED
          BY <5>1, <5>2
      <4>2. /\ node[At(c, x)].next[l] = IF z = N + 1 THEN Null ELSE c[z]
            /\ node[At(c, x)].width[l] = (IF z = N + 1 THEN N ELSE z) - x
        BY <3>1, <3>3, <3>7, <4>1
      <4>3. M[At(c, x)].next[l] = node[At(c, x)].next[l]
        <5>1. ~(l \in hits /\ At(c, b[l]) = At(c, x))
          BY <1>24, <3>3, <3>11
        <5>2. ~(l \in hits /\ c[j[l]] = At(c, x))
          <6> SUFFICES ASSUME l \in hits, c[j[l]] = At(c, x) PROVE FALSE
            OBVIOUS
          <6>1. At(c, j[l]) = c[j[l]] /\ j[l] \in 0 .. N /\ j[l] # 0
            BY <1>1, <1>12 DEF At
          <6>2. x = j[l]
            BY <1>1, <3>3, <6>1
          <6> QED
            BY <3>1, <6>1, <6>2 DEF left
        <5> QED
          BY <1>9, <3>8, <5>1, <5>2
      <4>4. M[At(c, x)].width[l] = (IF y = N THEN N - 1 ELSE y) - i
        <5>1. CASE x = b[l]
          <6>1. l \notin hits
            BY <3>11, <5>1
          <6>2. M[At(c, x)].width[l] = node[At(c, x)].width[l] - 1
            BY <1>9, <3>8, <5>1, <6>1
          <6>3. z = j[l]
            BY <1>1, <3>1, <3>6, <3>9, <4>1, <5>1, NextUnique
          <6>4. p < z /\ y = z - 1 /\ i = x
            BY <1>15, <3>1, <3>5, <3>6, <5>1, <6>3
          <6> QED
            BY <1>1, <3>1, <3>2, <3>3, <3>4, <4>2, <6>2, <6>4
        <5>2. CASE x # b[l]
          <6>1. M[At(c, x)].width[l] = node[At(c, x)].width[l]
            <7>1. At(c, b[l]) # At(c, x)
              BY <1>24, <3>3, <5>2
            <7> QED
              BY <1>9, <3>8, <7>1
          <6>2. CASE x < b[l]
            <7>1. b[l] \in S[l] /\ b[l] \in Nat
              BY <1>1, <3>3, <3>6, <6>2
            <7>2. b[l] <= x \/ z <= b[l]
              BY <4>1, <7>1 DEF NextIn
            <7>3. z < p /\ x < p
              BY <1>15, <3>1, <3>3, <3>6, <6>2, <7>2
            <7>4. y = z /\ i = x /\ z # N + 1
              BY <1>1, <1>5, <3>5, <7>3
            <7> QED
              BY <3>4, <4>2, <6>1, <7>4
          <6>3. CASE ~(x < b[l])
            <7>1. x \in S[l] /\ ~(x <= b[l])
              BY <1>1, <3>3, <3>6, <5>2, <6>3
            <7>2. p < x /\ x < z
              BY <1>15, <3>3, <3>5, <3>6, <4>1, <7>1 DEF NextIn
            <7>3. p < z
              BY <1>15, <3>1, <3>3, <7>2
            <7>4. i = x - 1 /\ y = z - 1
              BY <3>5, <7>2, <7>3
            <7> QED
              BY <1>1, <3>1, <3>3, <3>4, <4>2, <6>1, <7>4
          <6> QED
            BY <6>2, <6>3
        <5> QED
          BY <5>1, <5>2
      <4> QED
        BY <3>3, <3>4, <4>2, <4>3, <4>4
    <3> QED
      BY <3>10, <3>11
  <2>2. PICK Q : Q = N - 1
    OBVIOUS
  <2>3. Q + 1 = N /\ Len(e) = Q
    BY <1>1, <1>6, <2>2
  <2>4. \A l \in Levels : \A i \in T[l] \cup {0}, y \in 1 .. Q + 1 :
          NextIn(T[l], Q, i, y) =>
            /\ M[At(e, i)].next[l] = IF y = Q + 1 THEN Null ELSE e[y]
            /\ M[At(e, i)].width[l] = (IF y = Q + 1 THEN Q ELSE y) - i
    <3> TAKE l \in Levels
    <3> TAKE i \in T[l] \cup {0}, y \in 1 .. Q + 1
    <3> HAVE NextIn(T[l], Q, i, y)
    <3>1. y \in 1 .. N /\ NextIn(T[l], N - 1, i, y)
      BY <2>2, <2>3
    <3>2. /\ M[At(e, i)].next[l] = IF y = N THEN Null ELSE e[y]
          /\ M[At(e, i)].width[l] = (IF y = N THEN N - 1 ELSE y) - i
      BY <2>1, <3>1
    <3> QED
      BY <2>2, <2>3, <3>2
  <2> SUFFICES ASSUME NEW l \in Levels, NEW i \in T[l] \cup {0}, NEW y \in 1 .. Len(e) + 1,
                      NextIn(T[l], Len(e), i, y)
               PROVE  /\ node'[At(e, i)].next[l] = IF y = Len(e) + 1 THEN Null ELSE e[y]
                      /\ node'[At(e, i)].width[l] = (IF y = Len(e) + 1 THEN Len(e) ELSE y) - i
    BY DEF Linked
  <2>5. y \in 1 .. Q + 1 /\ NextIn(T[l], Q, i, y) /\ (y = Len(e) + 1 <=> y = Q + 1)
    BY <2>3
  <2>6. /\ M[At(e, i)].next[l] = IF y = Q + 1 THEN Null ELSE e[y]
        /\ M[At(e, i)].width[l] = (IF y = Q + 1 THEN Q ELSE y) - i
    BY <2>4, <2>5
  <2>7. Len(e) = Q /\ node' = M
    BY <1>8, <2>3
  <2> QED
    BY <2>6, <2>7
<1> QED
  <2>1. LevelSets(e, T)'
    BY <1>20 DEF LevelSets
  <2>2. b[0] + 1 \in 1 .. Len(c) /\ KeyAt(c, b[0] + 1) = k
    BY <1>5 DEF p, N
  <2> QED
    BY <1>18, <1>19, <1>21, <1>22, <1>25, <1>26, <1>27, <2>1, <2>2 DEF Shape
-----------------------------------------------------------------------------
(* The levels as lists.                                                    *)

\* s enumerates A in increasing order.
Enumerates(s, A) ==
  /\ s \in Seq(A)
  /\ \A a \in A : \E i \in 1 .. Len(s) : s[i] = a
  /\ \A i, j \in 1 .. Len(s) : i < j => s[i] < s[j]

\* Every set of places has an enumeration.
LEMMA EnumerationExists ==
  ASSUME NEW N \in Nat, NEW A \in SUBSET (1 .. N)
  PROVE  \E s : Enumerates(s, A)
<1> DEFINE Good == {n \in Nat : \A B \in SUBSET (1 .. n) : \E s : Enumerates(s, B)}
<1>1. 0 \in Good
  <2> SUFFICES ASSUME NEW B \in SUBSET (1 .. 0) PROVE Enumerates(<<>>, B)
    OBVIOUS
  <2>1. B = {}
    OBVIOUS
  <2> PICK e : e = <<>>
    OBVIOUS
  <2>2. e \in Seq(B) /\ 1 .. Len(e) = {}
    OBVIOUS
  <2>3. Enumerates(e, B)
    BY <2>1, <2>2 DEF Enumerates
  <2> QED
    BY <2>3
<1>2. ASSUME NEW n \in Good PROVE n + 1 \in Good
  <2> SUFFICES ASSUME NEW B \in SUBSET (1 .. n + 1) PROVE \E s : Enumerates(s, B)
    OBVIOUS
  <2>1. B \ {n + 1} \in SUBSET (1 .. n)
    OBVIOUS
  <2>2. PICK s : Enumerates(s, B \ {n + 1})
    BY <2>1
  <2>3. CASE n + 1 \notin B
    <3>1. B \ {n + 1} = B
      BY <2>3
    <3> QED
      BY <2>2, <3>1
  <2>4. CASE n + 1 \in B
    <3> PICK t : t = Append(s, n + 1)
      OBVIOUS
    <3>1. s \in Seq(B) /\ Len(s) \in Nat /\ \A i \in 1 .. Len(s) : s[i] \in 1 .. n
      <4>1. s \in Seq(B \ {n + 1}) /\ Len(s) \in Nat
        BY <2>2 DEF Enumerates
      <4>2. \A i \in 1 .. Len(s) : s[i] \in B \ {n + 1}
        BY <4>1
      <4>3. s \in Seq(B)
        BY <4>1
      <4> QED
        BY <2>1, <4>1, <4>2, <4>3
    <3>2. t \in Seq(B) /\ Len(t) = Len(s) + 1 /\ t[Len(s) + 1] = n + 1
          /\ \A i \in 1 .. Len(s) : t[i] = s[i]
      BY <2>4, <3>1
    <3>3. ASSUME NEW a \in B PROVE \E i \in 1 .. Len(t) : t[i] = a
      <4>1. CASE a = n + 1
        <5>1. Len(s) + 1 \in 1 .. Len(t)
          BY <3>1, <3>2
        <5> QED
          BY <3>2, <4>1, <5>1
      <4>2. CASE a # n + 1
        <5>1. PICK i \in 1 .. Len(s) : s[i] = a
          BY <2>2, <4>2 DEF Enumerates
        <5>2. i \in 1 .. Len(t) /\ t[i] = a
          BY <3>1, <3>2, <5>1
        <5> QED
          BY <5>2
      <4> QED
        BY <4>1, <4>2
    <3>4. ASSUME NEW i \in 1 .. Len(t), NEW j \in 1 .. Len(t), i < j PROVE t[i] < t[j]
      <4>1. i \in 1 .. Len(s) /\ t[i] = s[i] /\ s[i] \in 1 .. n
        BY <3>1, <3>2, <3>4
      <4>2. CASE j = Len(s) + 1
        BY <3>2, <4>1, <4>2
      <4>3. CASE j # Len(s) + 1
        <5>1. j \in 1 .. Len(s) /\ t[j] = s[j]
          BY <3>1, <3>2, <4>3
        <5> QED
          BY <2>2, <3>4, <4>1, <5>1 DEF Enumerates
      <4> QED
        BY <4>2, <4>3
    <3>5. Enumerates(t, B)
      BY <3>2, <3>3, <3>4 DEF Enumerates
    <3> QED
      BY <3>5
  <2> QED
    BY <2>3, <2>4
<1>3. Good = Nat
  <2> HIDE DEF Good
  <2>1. Good \in SUBSET Nat
    BY DEF Good
  <2> QED
    BY <1>1, <1>2, <2>1, AllNumbers
<1> QED
  BY <1>3

\* What comes next in an enumeration.
LEMMA EnumerationNext ==
  ASSUME NEW N \in Nat, NEW A \in SUBSET (1 .. N), NEW s, Enumerates(s, A)
  PROVE  /\ Len(s) \in Nat /\ \A i \in 1 .. Len(s) : s[i] \in A /\ s[i] \in 1 .. N
         /\ \A i \in 1 .. Len(s) : NextIn(A, N, s[i], IF i = Len(s) THEN N + 1 ELSE s[i + 1])
         /\ NextIn(A, N, 0, IF s = <<>> THEN N + 1 ELSE s[1])
<1>1. Len(s) \in Nat /\ s \in Seq(A) /\ \A i \in 1 .. Len(s) : s[i] \in A /\ s[i] \in 1 .. N
  <2>1. s \in Seq(A)
    BY DEF Enumerates
  <2>2. Len(s) \in Nat /\ \A i \in 1 .. Len(s) : s[i] \in A
    BY <2>1
  <2> QED
    BY <2>1, <2>2
<1>2. \A i, j \in 1 .. Len(s) : i <= j => s[i] <= s[j]
  <2> TAKE i, j \in 1 .. Len(s)
  <2>1. i < j => s[i] < s[j]
    BY DEF Enumerates
  <2> QED
    BY <1>1, <2>1
<1>3. ASSUME NEW i \in 1 .. Len(s)
      PROVE  NextIn(A, N, s[i], IF i = Len(s) THEN N + 1 ELSE s[i + 1])
  <2>1. CASE i = Len(s)
    <3>1. \A m \in A : m <= s[i]
      <4> TAKE m \in A
      <4>1. PICK x \in 1 .. Len(s) : s[x] = m
        BY DEF Enumerates
      <4>2. x <= i
        BY <1>1, <2>1
      <4> QED
        BY <1>2, <4>1, <4>2
    <3>2. s[i] < N + 1
      BY <1>1
    <3> QED
      BY <2>1, <3>1, <3>2 DEF NextIn
  <2>2. CASE i # Len(s)
    <3>1. i + 1 \in 1 .. Len(s) /\ i < i + 1
      BY <1>1, <2>2
    <3>2. s[i] < s[i + 1] /\ s[i + 1] \in A
      BY <1>1, <3>1 DEF Enumerates
    <3>3. \A m \in A : m <= s[i] \/ s[i + 1] <= m
      <4> TAKE m \in A
      <4>1. PICK x \in 1 .. Len(s) : s[x] = m
        BY DEF Enumerates
      <4>2. x <= i \/ i + 1 <= x
        BY <1>1
      <4> QED
        BY <1>2, <3>1, <4>1, <4>2
    <3> QED
      BY <2>2, <3>2, <3>3 DEF NextIn
  <2> QED
    BY <2>1, <2>2
<1>4. NextIn(A, N, 0, IF s = <<>> THEN N + 1 ELSE s[1])
  <2>1. CASE s = <<>>
    <3>1. 1 .. Len(s) = {}
      BY <1>1, <2>1
    <3>2. A = {}
      BY <3>1 DEF Enumerates
    <3> QED
      BY <2>1, <3>2 DEF NextIn
  <2>2. CASE s # <<>>
    <3>1. 1 \in 1 .. Len(s)
      BY <1>1, <2>2
    <3>2. s[1] \in A /\ 0 < s[1]
      BY <1>1, <3>1
    <3>3. \A m \in A : s[1] <= m
      <4> TAKE m \in A
      <4>1. PICK x \in 1 .. Len(s) : s[x] = m
        BY DEF Enumerates
      <4>2. 1 <= x
        BY <1>1
      <4> QED
        BY <1>2, <3>1, <4>1, <4>2
    <3> QED
      BY <2>2, <3>2, <3>3 DEF NextIn
  <2> QED
    BY <2>1, <2>2
<1> QED
  BY <1>1, <1>3, <1>4

\* A level, followed by its next pointers, is the enumeration of its places.
LevelRule ==
  \A c \in Seq(Node) : \A S : status = "ready" /\ Shape(c, S) =>
    \A l \in Levels : \A s : Enumerates(s, S[l]) => Chain(l) = [i \in 1 .. Len(s) |-> c[s[i]]]

LEMMA LevelIs == LevelRule
<1> SUFFICES ASSUME NEW c \in Seq(Node), NEW S, NEW l \in Levels, NEW s,
                    status = "ready", Shape(c, S), Enumerates(s, S[l])
             PROVE  Chain(l) = [i \in 1 .. Len(s) |-> c[s[i]]]
  BY DEF LevelRule
<1> DEFINE N == Len(c)
           D == Node \cup {Null}
           tall == Tall(l) \ {HeadNode}
           next == [n \in tall |-> node[n].next[l]]
           first == node[HeadNode].next[l]
           p == [i \in 1 .. Len(s) |-> c[s[i]]]
<1>1. /\ N \in Nat /\ S[l] \subseteq 1 .. N
      /\ \A i \in 1 .. N : c[i] \in Node /\ c[i] \in DOMAIN node /\ c[i] # HeadNode /\ c[i] # Null
      /\ \A i \in S[l] \cup {0} : At(c, i) \in Tall(l)
  BY ShapeFacts
<1>2. \A n \in tall : \E i \in 1 .. N : c[i] = n
  BY DEF Tall, Shape, Listed
<1>3. /\ Len(s) \in Nat /\ \A i \in 1 .. Len(s) : s[i] \in S[l] /\ s[i] \in 1 .. N
      /\ \A i \in 1 .. Len(s) : NextIn(S[l], N, s[i], IF i = Len(s) THEN N + 1 ELSE s[i + 1])
      /\ NextIn(S[l], N, 0, IF s = <<>> THEN N + 1 ELSE s[1])
  <2>1. S[l] \in SUBSET (1 .. N)
    BY <1>1
  <2> QED
    BY <1>1, <2>1, EnumerationNext
<1>4. /\ p \in Seq(tall) /\ Len(p) = Len(s) /\ \A i \in 1 .. Len(s) : p[i] = c[s[i]]
  <2>1. \A i \in 1 .. Len(s) : c[s[i]] \in tall
    <3> TAKE i \in 1 .. Len(s)
    <3>1. s[i] \in S[l] /\ s[i] \in 1 .. N /\ s[i] # 0
      BY <1>3
    <3>2. At(c, s[i]) = c[s[i]]
      BY <3>1 DEF At
    <3> QED
      BY <1>1, <3>1, <3>2
  <2> HIDE DEF tall
  <2>2. p \in [1 .. Len(s) -> tall]
    BY <2>1
  <2> QED
    BY <1>3, <2>2
<1>5. \A u \in S[l] \cup {0}, v \in 1 .. N + 1 :
        NextIn(S[l], N, u, v) => node[At(c, u)].next[l] = IF v = N + 1 THEN Null ELSE c[v]
  BY DEF Shape, Linked
<1>6. ASSUME NEW i \in 1 .. Len(s)
      PROVE  next[p[i]] = IF i = Len(s) THEN Null ELSE p[i + 1]
  <2>1. s[i] \in S[l] /\ s[i] \in 1 .. N /\ s[i] # 0 /\ p[i] = c[s[i]]
    <3>1. s[i] \in S[l] /\ s[i] \in 1 .. N
      BY <1>3
    <3>2. s[i] # 0
      BY <3>1
    <3> HIDE DEF p
    <3> QED
      BY <1>4, <3>1, <3>2
  <2>2. At(c, s[i]) = p[i]
    BY <2>1 DEF At
  <2>3. next[p[i]] = node[p[i]].next[l]
    <3>1. p[i] \in tall
      <4> HIDE DEF p, tall
      <4> QED
        BY <1>3, <1>4
    <3> QED
      BY <3>1
  <2>4. CASE i = Len(s)
    <3>1. NextIn(S[l], N, s[i], N + 1) /\ N + 1 \in 1 .. N + 1
      BY <1>1, <1>3, <2>4
    <3> QED
      BY <1>5, <2>1, <2>2, <2>3, <2>4, <3>1
  <2>5. CASE i # Len(s)
    <3>1. i + 1 \in 1 .. Len(s)
      BY <1>3, <2>5
    <3>2. NextIn(S[l], N, s[i], s[i + 1]) /\ s[i + 1] \in 1 .. N + 1 /\ s[i + 1] # N + 1
      BY <1>1, <1>3, <2>5, <3>1
    <3> QED
      BY <1>4, <1>5, <2>1, <2>2, <2>3, <2>5, <3>1, <3>2
  <2> QED
    BY <2>4, <2>5
<1>7. Null \notin tall
  BY <1>1, <1>2
<1>8. Links(next, p)
  <2>1. DOMAIN next = tall
    OBVIOUS
  <2>2. \A i, j \in 1 .. Len(s) : p[i] = p[j] => i = j
    <3> TAKE i, j \in 1 .. Len(s)
    <3> HAVE p[i] = p[j]
    <3>1. s[i] = s[j]
      BY <1>3, <1>4 DEF Shape, Listed
    <3>2. (i < j => s[i] < s[j]) /\ (j < i => s[j] < s[i])
      BY DEF Enumerates
    <3>3. s[i] \in 1 .. N
      BY <1>3
    <3>4. ~(s[i] < s[i])
      BY <1>1, <3>3
    <3>5. i < j \/ j < i \/ i = j
      BY <1>3
    <3> QED
      BY <3>1, <3>2, <3>4, <3>5
  <2>3. ASSUME NEW n \in tall
        PROVE  (\E i \in 1 .. Len(s) : p[i] = n) \/ next[n] \notin tall
    <3>1. PICK x \in 1 .. N : c[x] = n
      BY <1>2
    <3>2. CASE x \in S[l]
      <4>1. PICK i \in 1 .. Len(s) : s[i] = x
        BY <3>2 DEF Enumerates
      <4> QED
        BY <1>4, <3>1, <4>1
    <3>3. CASE x \notin S[l]
      <4>1. l < node[n].height
        <5>1. n \in DOMAIN node /\ node[n].height > l
          BY DEF Tall
        <5>2. node[n].height \in 1 .. MaxNodeHeight
          BY <5>1, NodeFacts
        <5> QED
          BY <5>1, <5>2 DEF Levels
      <4>2. next[n] = Null
        BY <3>1, <3>3, <4>1 DEF Shape, Unlinked
      <4> QED
        BY <1>7, <4>2
    <3> QED
      BY <3>2, <3>3
  <2> HIDE DEF next, tall, p
  <2> QED
    BY <1>4, <1>6, <1>7, <2>1, <2>2, <2>3 DEF Links
<1>9. Begins(next, first, p)
  <2>1. At(c, 0) = HeadNode /\ 0 \in S[l] \cup {0}
    BY DEF At
  <2>2. CASE s = <<>>
    <3>1. NextIn(S[l], N, 0, N + 1) /\ N + 1 \in 1 .. N + 1
      BY <1>1, <1>3, <2>2
    <3>2. first = Null
      BY <1>5, <2>1, <3>1
    <3>3. p = <<>> /\ DOMAIN next = tall
      BY <1>4, <2>2
    <3> HIDE DEF next, first, tall, p
    <3> QED
      BY <1>7, <3>2, <3>3 DEF Begins
  <2>3. CASE s # <<>>
    <3>0. s \in Seq(S[l])
      BY DEF Enumerates
    <3>1. 1 \in 1 .. Len(s)
      BY <1>3, <2>3, <3>0
    <3>2. NextIn(S[l], N, 0, s[1]) /\ s[1] \in 1 .. N + 1 /\ s[1] # N + 1
      BY <1>1, <1>3, <2>3, <3>1
    <3>3. first = p[1] /\ p # <<>>
      <4>1. first = c[s[1]]
        BY <1>5, <2>1, <3>2
      <4> HIDE DEF first, p
      <4>2. Len(p) # 0
        BY <1>3, <1>4, <3>1
      <4> QED
        BY <1>4, <3>1, <4>1, <4>2
    <3> QED
      BY <3>3 DEF Begins
  <2> QED
    BY <2>2, <2>3
<1>10. tall \subseteq D /\ first \in D /\ \A n \in tall : next[n] \in D
  <2>1. tall \subseteq D
    BY <1>1, <1>2
  <2>2. \A m \in Tall(l) : node[m].next[l] \in D
    <3> TAKE m \in Tall(l)
    <3>1. m \in DOMAIN node /\ node[m].height > l
      BY DEF Tall
    <3>2. /\ node[m].height \in 1 .. MaxNodeHeight
          /\ node[m].next \in [0 .. node[m].height - 1 -> Node \cup {Null}]
      BY <3>1, NodeFacts
    <3>3. l \in 0 .. node[m].height - 1
      BY <3>1, <3>2 DEF Levels
    <3> QED
      BY <3>2, <3>3
  <2>3. HeadNode \in Tall(l)
    BY <1>1 DEF At
  <2> QED
    BY <2>1, <2>2, <2>3
<1>11. \A n \in D : n \in tall <=> n \in DOMAIN node /\ node[n].height > l
  <2>1. \A n \in D : n # HeadNode
    BY NodeAssumption
  <2> QED
    BY <2>1 DEF Tall
<1> DEFINE Found(h) == h = [n \in D |-> IF n \in DOMAIN node /\ node[n].height > l
                                          THEN <<n>> \o h[node[n].next[l]] ELSE <<>>]
           follow[n \in D] == IF n \in DOMAIN node /\ node[n].height > l
                                THEN <<n>> \o follow[node[n].next[l]] ELSE <<>>
<1>12. follow = CHOOSE h : Found(h)
  BY Zenon
<1>13. Chain(l) = follow[first]
  <2>1. Chain(l) = IF status = "ready" THEN follow[first] ELSE <<>>
    BY Zenon DEF Chain
  <2> HIDE DEF follow
  <2> QED
    BY <2>1
<1> HIDE DEF follow
<1>14. ASSUME NEW h PROVE Found(h) <=> Follows(next, D, h)
  <2>1. \A n \in tall : <<n>> \o h[node[n].next[l]] = <<n>> \o h[next[n]]
    OBVIOUS
  <2>2. DOMAIN next = tall
    OBVIOUS
  <2> HIDE DEF next, D, tall
  <2>3. [n \in D |-> IF n \in DOMAIN node /\ node[n].height > l
                       THEN <<n>> \o h[node[n].next[l]] ELSE <<>>]
          = [n \in D |-> IF n \in DOMAIN next THEN <<n>> \o h[next[n]] ELSE <<>>]
    BY <1>11, <2>1, <2>2
  <2> QED
    BY <2>3 DEF Follows
<1>15. DOMAIN next \subseteq D /\ \A n \in DOMAIN next : next[n] \in D
  BY <1>10
<1> HIDE DEF next, D, tall, first, p, Found
<1>16. \E h : Found(h)
  BY <1>8, <1>14, <1>15, FollowIs
<1>17. Follows(next, D, follow)
  BY <1>12, <1>14, <1>16
<1>18. follow[first] = p
  BY <1>8, <1>9, <1>10, <1>15, <1>17, FollowIs
<1> QED
  BY <1>13, <1>18 DEF p

\* Level 0 is the list.
LEMMA ListIs ==
  ASSUME LevelRule, NEW c \in Seq(Node), NEW S, Shape(c, S), status = "ready"
  PROVE  Chain(0) = c
<1> PICK s : s = [i \in 1 .. Len(c) |-> i]
  OBVIOUS
<1>1. Len(c) \in Nat /\ 0 \in Levels
  BY ShapeFacts
<1>2. S[0] = 1 .. Len(c)
  BY DEF Shape, LevelSets
<1>3. s \in Seq(1 .. Len(c)) /\ Len(s) = Len(c) /\ \A i \in 1 .. Len(c) : s[i] = i
  BY <1>1
<1>4. Enumerates(s, S[0])
  BY <1>2, <1>3 DEF Enumerates
<1>5. Chain(0) = [i \in 1 .. Len(s) |-> c[s[i]]]
  <2>1. \A l \in Levels : \A t :
          Enumerates(t, S[l]) => Chain(l) = [i \in 1 .. Len(t) |-> c[t[i]]]
    BY Zenon DEF LevelRule
  <2> QED
    BY <1>1, <1>4, <2>1
<1>6. [i \in 1 .. Len(s) |-> c[s[i]]] = [i \in 1 .. Len(c) |-> c[i]]
  BY <1>3
<1>7. c = [i \in 1 .. Len(c) |-> c[i]]
  OBVIOUS
<1> QED
  BY <1>5, <1>6, <1>7
-----------------------------------------------------------------------------
(* The abstract index.                                                     *)

LEMMA InsertAtIs ==
  ASSUME NEW X, NEW s \in Seq(X), NEW p \in 1 .. Len(s) + 1, NEW x \in X
  PROVE  Index!Seqs!InsertAt(s, p, x)
           = [i \in 1 .. Len(s) + 1 |-> IF i < p THEN s[i] ELSE IF i = p THEN x ELSE s[i - 1]]
<1>1. PICK u : u = SubSeq(s, 1, p - 1)
  OBVIOUS
<1>2. PICK v : v = SubSeq(s, p, Len(s))
  OBVIOUS
<1>3. PICK w : w = <<x>>
  OBVIOUS
<1>4. Len(s) \in Nat
  OBVIOUS
<1>5. u \in Seq(X) /\ Len(u) = p - 1 /\ \A i \in 1 .. p - 1 : u[i] = s[i]
  BY <1>1
<1>6. v \in Seq(X) /\ Len(v) = Len(s) - p + 1 /\ \A i \in 1 .. Len(v) : v[i] = s[p + i - 1]
  BY <1>2
<1>7. w \in Seq(X) /\ Len(w) = 1 /\ w[1] = x
  BY <1>3
<1>8. PICK t : t = u \o w
  OBVIOUS
<1>9. t \in Seq(X) /\ Len(t) = p /\ t[p] = x /\ \A i \in 1 .. p - 1 : t[i] = s[i]
  <2>1. t \in Seq(X) /\ Len(t) = Len(u) + 1
    <3>1. t \in Seq(X) /\ Len(t) = Len(u) + Len(w)
      BY <1>5, <1>7, <1>8, ConcatProperties
    <3> QED
      BY <1>7, <3>1
  <2>2. \A i \in 1 .. Len(t) : t[i] = IF i <= Len(u) THEN u[i] ELSE w[i - Len(u)]
    BY <1>5, <1>7, <1>8, <2>1, ConcatProperties
  <2> QED
    BY <1>4, <1>5, <1>7, <2>1, <2>2
<1>10. PICK r : r = t \o v
  OBVIOUS
<1>11. r \in Seq(X) /\ Len(r) = Len(s) + 1
  <2>1. r \in Seq(X) /\ Len(r) = Len(t) + Len(v)
    BY <1>6, <1>9, <1>10, ConcatProperties
  <2> QED
    BY <1>4, <1>6, <1>9, <2>1
<1>12. \A i \in 1 .. Len(r) : r[i] = IF i <= Len(t) THEN t[i] ELSE v[i - Len(t)]
  BY <1>6, <1>9, <1>10, ConcatProperties
<1>13. \A i \in 1 .. Len(s) + 1 : r[i] = IF i < p THEN s[i] ELSE IF i = p THEN x ELSE s[i - 1]
  <2> TAKE i \in 1 .. Len(s) + 1
  <2>1. CASE i <= p
    BY <1>9, <1>11, <1>12, <2>1
  <2>2. CASE p < i
    <3>1. i - p \in 1 .. Len(v) /\ p + (i - p) - 1 = i - 1 /\ ~(i <= Len(t))
      BY <1>4, <1>6, <1>9, <2>2
    <3>2. r[i] = v[i - p]
      BY <1>9, <1>11, <1>12, <3>1
    <3>3. v[i - p] = s[i - 1]
      BY <1>6, <3>1
    <3>4. ~(i < p) /\ i # p
      BY <2>2
    <3> QED
      BY <3>2, <3>3, <3>4
  <2> QED
    BY <2>1, <2>2
<1>14. r = [i \in 1 .. Len(s) + 1 |-> r[i]]
  BY <1>11
<1>15. Index!Seqs!InsertAt(s, p, x) = r
  BY <1>1, <1>2, <1>3, <1>8, <1>10 DEF Index!Seqs!InsertAt
<1> QED
  BY <1>13, <1>14, <1>15

LEMMA RemoveAtIs ==
  ASSUME NEW X, NEW s \in Seq(X), NEW p \in 1 .. Len(s)
  PROVE  Index!Seqs!RemoveAt(s, p) = [i \in 1 .. Len(s) - 1 |-> s[New(p, i)]]
<1>1. PICK u : u = SubSeq(s, 1, p - 1)
  OBVIOUS
<1>2. PICK v : v = SubSeq(s, p + 1, Len(s))
  OBVIOUS
<1>3. Len(s) \in Nat
  OBVIOUS
<1>4. u \in Seq(X) /\ Len(u) = p - 1 /\ \A i \in 1 .. p - 1 : u[i] = s[i]
  BY <1>1
<1>5. v \in Seq(X) /\ Len(v) = Len(s) - p /\ \A i \in 1 .. Len(v) : v[i] = s[p + i]
  <2>1. PICK q : q = p + 1
    OBVIOUS
  <2>2. q \in 1 .. Len(s) + 1
    BY <1>3, <2>1
  <2>3. v \in Seq(X) /\ Len(v) = Len(s) - q + 1 /\ \A i \in 1 .. Len(v) : v[i] = s[q + i - 1]
    BY <1>2, <1>3, <2>1, <2>2
  <2>4. \A i \in 1 .. Len(v) : q + i - 1 = p + i
    BY <2>1
  <2> QED
    BY <1>3, <2>1, <2>3, <2>4
<1>6. PICK r : r = u \o v
  OBVIOUS
<1>7. r \in Seq(X) /\ Len(r) = Len(s) - 1
  <2>1. r \in Seq(X) /\ Len(r) = Len(u) + Len(v)
    BY <1>4, <1>5, <1>6, ConcatProperties
  <2> QED
    BY <1>3, <1>4, <1>5, <2>1
<1>8. \A i \in 1 .. Len(r) : r[i] = IF i <= Len(u) THEN u[i] ELSE v[i - Len(u)]
  BY <1>4, <1>5, <1>6, ConcatProperties
<1>9. \A i \in 1 .. Len(s) - 1 : r[i] = s[New(p, i)]
  <2> TAKE i \in 1 .. Len(s) - 1
  <2>1. CASE i < p
    <3>1. i \in 1 .. p - 1 /\ i <= Len(u) /\ i \in 1 .. Len(r)
      BY <1>3, <1>4, <1>7, <2>1
    <3> QED
      BY <1>4, <1>8, <2>1, <3>1 DEF New
  <2>2. CASE ~(i < p)
    <3>1. i - Len(u) \in 1 .. Len(v) /\ p + (i - Len(u)) = i + 1 /\ ~(i <= Len(u))
          /\ i \in 1 .. Len(r)
      BY <1>3, <1>4, <1>5, <1>7, <2>2
    <3>2. r[i] = v[i - Len(u)]
      BY <1>8, <3>1
    <3>3. v[i - Len(u)] = s[i + 1]
      BY <1>5, <3>1
    <3> QED
      BY <2>2, <3>2, <3>3 DEF New
  <2> QED
    BY <2>1, <2>2
<1>10. r = [i \in 1 .. Len(s) - 1 |-> r[i]]
  BY <1>7
<1>11. Index!Seqs!RemoveAt(s, p) = r
  BY <1>1, <1>2, <1>6 DEF Index!Seqs!RemoveAt
<1> QED
  BY <1>9, <1>10, <1>11

EntriesOf(c) == [i \in 1 .. Len(c) |-> [key |-> KeyAt(c, i), row |-> node[c[i]].row]]

EntriesRule ==
  /\ status # "ready" => Entries = <<>>
  /\ status = "ready" =>
       \A c \in Seq(Node) : \A S : Shape(c, S) => Chain(0) = c /\ Entries = EntriesOf(c)

LEMMA EntriesIs == EntriesRule
<1>1. ASSUME status # "ready" PROVE Entries = <<>>
  <2>1. Chain(0) = <<>>
    <3> DEFINE follow[n \in Node \cup {Null}] ==
                 IF n \in DOMAIN node /\ node[n].height > 0
                   THEN <<n>> \o follow[node[n].next[0]] ELSE <<>>
    <3>1. Chain(0) = IF status = "ready" THEN follow[node[HeadNode].next[0]] ELSE <<>>
      BY Zenon DEF Chain
    <3> HIDE DEF follow
    <3> QED
      BY <1>1, <3>1
  <2> PICK e : e = <<>>
    OBVIOUS
  <2>2. DOMAIN e = {} /\ Chain(0) = e
    BY <2>1
  <2>3. Entries = [i \in {} |-> Standing(e[i])]
    BY <2>2 DEF Entries
  <2>4. [i \in {} |-> Standing(e[i])] = <<>>
    OBVIOUS
  <2> QED
    BY <2>3, <2>4
<1>2. ASSUME status = "ready", NEW c \in Seq(Node), NEW S, Shape(c, S)
      PROVE  Chain(0) = c /\ Entries = EntriesOf(c)
  <2>1. Chain(0) = c
    BY <1>2, LevelIs, ListIs
  <2>2. DOMAIN c = 1 .. Len(c)
    OBVIOUS
  <2>3. \A i \in 1 .. Len(c) : c[i] # Null
    BY <1>2, ShapeFacts
  <2>4. \A i \in 1 .. Len(c) : Standing(c[i]) = [key |-> KeyAt(c, i), row |-> node[c[i]].row]
    BY <2>3 DEF Standing, KeyAt
  <2>5. Entries = [i \in 1 .. Len(c) |-> Standing(c[i])]
    BY <2>1, <2>2 DEF Entries
  <2> QED
    BY <2>1, <2>4, <2>5 DEF EntriesOf
<1> QED
  BY <1>1, <1>2 DEF EntriesRule

\* The entries of a list, and what the abstract index asks of them.
LEMMA EntryFacts ==
  ASSUME NEW c \in Seq(Node), NEW S, Shape(c, S), status = "ready"
  PROVE  /\ Entries \in Seq(Index!Entry) /\ Len(Entries) = Len(c) /\ DOMAIN Entries = 1 .. Len(c)
         /\ \A i \in 1 .. Len(c) : /\ Entries[i] = [key |-> KeyAt(c, i), row |-> node[c[i]].row]
                                   /\ Entries[i].key = KeyAt(c, i)
                                   /\ Entries[i].row = node[c[i]].row
         /\ Index!Rows = heap
         /\ \A k : Index!Holding(k) = {i \in 1 .. Len(c) : KeyAt(c, i) = k}
<1> PICK E : E = Entries
  OBVIOUS
<1>1. E = EntriesOf(c)
  BY EntriesIs DEF EntriesRule
<1>2. \A i \in 1 .. Len(c) : KeyAt(c, i) \in Key /\ node[c[i]].row \in Buf
  BY DEF Shape, Typed
<1>3. \A i \in 1 .. Len(c) : /\ E[i] = [key |-> KeyAt(c, i), row |-> node[c[i]].row]
                             /\ E[i].key = KeyAt(c, i) /\ E[i].row = node[c[i]].row
                             /\ E[i] \in [key : Key, row : Buf]
  BY <1>1, <1>2 DEF EntriesOf
<1>4. Len(c) \in Nat /\ DOMAIN E = 1 .. Len(c)
  BY <1>1 DEF EntriesOf
<1>5. E \in [1 .. Len(c) -> [key : Key, row : Buf]]
  <2>1. E = [i \in 1 .. Len(c) |-> E[i]]
    BY <1>1 DEF EntriesOf
  <2> QED
    BY <1>3, <2>1
<1>6. E \in Seq([key : Key, row : Buf]) /\ Len(E) = Len(c)
  <2> PICK X : X = [key : Key, row : Buf]
    OBVIOUS
  <2>1. E = [i \in 1 .. Len(c) |-> E[i]] /\ \A i \in 1 .. Len(c) : E[i] \in X
    BY <1>5
  <2>2. E \in Seq(X)
    <3>1. [i \in 1 .. Len(c) |-> E[i]] \in Seq(X)
      BY <1>4, <2>1
    <3> QED
      BY <2>1, <3>1
  <2>3. Len(E) \in Nat /\ DOMAIN E = 1 .. Len(E)
    BY <2>2
  <2>4. Len(E) = Len(c)
    BY <1>4, <2>3
  <2> QED
    BY <2>2, <2>4
<1>7. Index!Rows = heap
  <2>1. heap = {node[c[i]].row : i \in 1 .. Len(c)}
    BY DEF Shape, Owned
  <2>2. Index!Rows = {E[i].row : i \in DOMAIN E}
    BY DEF Index!Rows
  <2>3. {E[i].row : i \in DOMAIN E} = {node[c[i]].row : i \in 1 .. Len(c)}
    BY <1>3, <1>4
  <2> QED
    BY <2>1, <2>2, <2>3
<1>8. ASSUME NEW k PROVE Index!Holding(k) = {i \in 1 .. Len(c) : KeyAt(c, i) = k}
  <2>1. Index!Holding(k) = {i \in DOMAIN E : E[i].key = k}
    BY DEF Index!Holding
  <2> QED
    BY <1>3, <1>4, <2>1
<1> QED
  BY <1>3, <1>4, <1>6, <1>7, <1>8 DEF Index!Entry

LEMMA IndexCounts ==
  ASSUME NEW T
  PROVE  Index!Cardinality(T) = Cardinality(T)
BY Zenon DEF Index!Cardinality, Cardinality

LEMMA CountTo ==
  ASSUME NEW n \in Nat
  PROVE  Cardinality(1 .. n) = n
<1>1. 1 \in Int /\ n \in Int
  OBVIOUS
<1>2. Cardinality(1 .. n) = IF 1 > n THEN 0 ELSE n - 1 + 1
  BY <1>1, FS_Interval
<1> QED
  BY <1>2

\* What a search finds is what the abstract index holds.
LEMMA LookupFacts ==
  ASSUME NEW c \in Seq(Node), NEW S, Shape(c, S), status = "ready", NEW k \in Key,
         NEW b, NEW j, Search(c, S, k, b, j)
  PROVE  /\ Index!Below(k) = b[0]
         /\ Hits(Traverse(k), k) = {} <=> Index!Holding(k) = {}
         /\ Index!Holding(k) = {} => /\ FindNode(k) = Null
                                     /\ SeekNode(k) = IF b[0] + 1 = Len(c) + 1 THEN Null
                                                                              ELSE c[b[0] + 1]
         /\ Index!Holding(k) # {} =>
              \E i \in Index!Holding(k) : FindNode(k) = c[i] /\ SeekNode(k) = c[i]
<1> DEFINE N == Len(c)
           hits == Hits(Traverse(k), k)
<1>1. /\ N \in Nat /\ 0 \in Levels
      /\ \A i \in 1 .. N : KeyAt(c, i) \in Int
  BY ShapeFacts
<1>2. k \in Int /\ Stops(c, S, k, b)
  BY KeyAssumption DEF Search
<1>3. /\ \A l \in Levels : /\ j[l] \in 1 .. N + 1
                           /\ j[l] # N + 1 => j[l] \in S[l] /\ j[l] \in 1 .. N
                           /\ After(Traverse(k), l) = IF j[l] = N + 1 THEN Null ELSE c[j[l]]
                           /\ j[l] # N + 1 => KeyAt(c, j[l]) >= k
      /\ b[0] \in 0 .. N /\ j[0] = b[0] + 1
      /\ hits = {l \in Levels : j[l] # N + 1 /\ KeyAt(c, j[l]) = k}
  BY <1>2, SearchFacts
<1>4. \A i \in 1 .. N : i <= b[0] <=> KeyAt(c, i) < k
  BY <1>2, StopFacts
<1>5. /\ DOMAIN Entries = 1 .. N
      /\ \A i \in 1 .. N : Entries[i].key = KeyAt(c, i)
      /\ Index!Holding(k) = {i \in 1 .. N : KeyAt(c, i) = k}
  BY EntryFacts
<1>6. Index!Below(k) = b[0]
  <2>1. {i \in DOMAIN Entries : Entries[i].key < k} = 1 .. b[0]
    <3> HIDE DEF N
    <3>1. {i \in DOMAIN Entries : Entries[i].key < k} = {i \in 1 .. N : KeyAt(c, i) < k}
      BY <1>5
    <3>2. {i \in 1 .. N : KeyAt(c, i) < k} = {i \in 1 .. N : i <= b[0]}
      BY <1>4
    <3>3. {i \in 1 .. N : i <= b[0]} = 1 .. b[0]
      BY <1>1, <1>3
    <3> QED
      BY <3>1, <3>2, <3>3
  <2>2. Cardinality(1 .. b[0]) = b[0]
    BY <1>3, CountTo
  <2>3. Index!Below(k) = Cardinality({i \in DOMAIN Entries : Entries[i].key < k})
    BY Zenon, IndexCounts DEF Index!Below
  <2> QED
    BY <2>1, <2>2, <2>3
<1> HIDE DEF N, hits
<1>7. ASSUME NEW i \in 1 .. N, KeyAt(c, i) = k PROVE 0 \in hits
  <2>1. ~(i <= b[0])
    BY <1>2, <1>4, <1>7
  <2>2. j[0] \in 1 .. N /\ j[0] # N + 1 /\ j[0] <= i
    BY <1>1, <1>3, <2>1
  <2>3. KeyAt(c, j[0]) <= KeyAt(c, i)
    <3>1. j[0] = i \/ j[0] < i
      BY <2>2
    <3>2. j[0] < i => KeyAt(c, j[0]) <= KeyAt(c, i)
      BY <2>2 DEF Shape, Sorted, N
    <3> QED
      BY <1>1, <1>7, <3>1, <3>2
  <2>4. KeyAt(c, j[0]) >= k /\ KeyAt(c, j[0]) \in Int
    BY <1>1, <1>3, <2>2
  <2> QED
    BY <1>1, <1>2, <1>3, <1>7, <2>2, <2>3, <2>4
<1>8. \A l \in hits : l \in Levels /\ j[l] \in Index!Holding(k) /\ After(Traverse(k), l) = c[j[l]]
  BY <1>3, <1>5
<1>9. hits = {} <=> Index!Holding(k) = {}
  BY <1>5, <1>7, <1>8
<1>10. ASSUME hits = {}
       PROVE  /\ FindNode(k) = Null
              /\ SeekNode(k) = IF b[0] + 1 = N + 1 THEN Null ELSE c[b[0] + 1]
  <2>1. FindNode(k) = Null
    BY <1>10 DEF FindNode, hits
  <2>2. SeekNode(k) = After(Traverse(k), 0)
    BY <1>10 DEF SeekNode, hits
  <2> QED
    BY <1>1, <1>3, <2>1, <2>2
<1>11. ASSUME hits # {}
       PROVE  \E i \in Index!Holding(k) : FindNode(k) = c[i] /\ SeekNode(k) = c[i]
  <2>1. FindNode(k) = After(Traverse(k), Highest(hits))
    BY <1>11 DEF FindNode, hits
  <2>2. SeekNode(k) = After(Traverse(k), Highest(hits))
    BY <1>11 DEF SeekNode, hits
  <2>3. Highest(hits) \in hits
    <3>1. hits \in SUBSET (0 .. MaxNodeHeight - 1) /\ MaxNodeHeight - 1 \in Nat
      BY <1>8, HeightAssumption DEF Levels
    <3>2. \E x \in hits : \A y \in hits : y <= x
      BY <1>11, <3>1, GreatestNumber
    <3> QED
      BY <3>2 DEF Highest
  <2> QED
    BY <1>8, <2>1, <2>2, <2>3
<1> QED
  BY <1>6, <1>9, <1>10, <1>11 DEF N, hits
-----------------------------------------------------------------------------
(* The other calls that write.                                             *)

\* An update leaves the list as it is and the row of one node replaced.
LEMMA UpdateShape ==
  ASSUME NEW c \in Seq(Node), NEW S, Shape(c, S), NEW q \in 1 .. Len(c),
         NEW d \in Buf, d \notin heap,
         node' = [node EXCEPT ![c[q]].row = d],
         heap' = (heap \ {node[c[q]].row}) \cup {d}, size' = size, primary' = primary
  PROVE  /\ Shape(c, S)'
         /\ \A i \in 1 .. Len(c) : /\ KeyAt(c, i)' = KeyAt(c, i)
                                   /\ node'[c[i]].row = IF i = q THEN d ELSE node[c[i]].row
<1>1. /\ Len(c) \in Nat
      /\ \A i \in 1 .. Len(c) : c[i] \in DOMAIN node /\ c[i] # HeadNode
      /\ \A i \in 0 .. Len(c) : At(c, i) \in DOMAIN node
      /\ HeadNode \in DOMAIN node
      /\ \A l \in Levels : S[l] \subseteq 1 .. Len(c)
  <2>1. HeadNode \in DOMAIN node
    BY DEF Shape, Listed
  <2> QED
    BY <2>1, ShapeFacts
<1>2. /\ DOMAIN node' = DOMAIN node
      /\ \A m \in DOMAIN node : m # c[q] => node'[m] = node[m]
      /\ node'[c[q]] = [node[c[q]] EXCEPT !.row = d]
  BY <1>1
<1>3. \A i, j \in 1 .. Len(c) : c[i] = c[j] => i = j
  BY DEF Shape, Listed
<1>4. PICK hq \in 1 .. MaxNodeHeight : node[c[q]] \in NodeOf(hq)
  BY <1>1 DEF Shape, Typed, IsNode
<1>5. node'[c[q]] \in NodeOf(hq) /\ node'[c[q]].row = d
  BY <1>2, <1>4 DEF NodeOf
<1>6. \A m \in DOMAIN node : /\ node'[m].key = node[m].key /\ node'[m].height = node[m].height
                             /\ node'[m].next = node[m].next /\ node'[m].width = node[m].width
  <2> TAKE m \in DOMAIN node
  <2>1. CASE m = c[q]
    BY <1>2, <1>4, <2>1 DEF NodeOf
  <2>2. CASE m # c[q]
    BY <1>2, <2>2
  <2> QED
    BY <2>1, <2>2
<1>7. \A i \in 1 .. Len(c) : /\ KeyAt(c, i)' = KeyAt(c, i)
                             /\ node'[c[i]].row = IF i = q THEN d ELSE node[c[i]].row
  BY <1>1, <1>2, <1>3, <1>5, <1>6 DEF KeyAt
<1>8. Listed(c)'
  BY <1>2 DEF Shape, Listed
<1>9. Typed(c)'
  <2>1. ASSUME NEW m \in DOMAIN node PROVE IsNode(node'[m])
    <3>1. CASE m = c[q]
      BY <1>5, <3>1 DEF IsNode
    <3>2. CASE m # c[q]
      BY <1>2, <3>2 DEF Shape, Typed
    <3> QED
      BY <3>1, <3>2
  <2>2. node'[HeadNode].height = MaxNodeHeight
    BY <1>1, <1>6 DEF Shape, Typed
  <2>3. \A i \in 1 .. Len(c) : KeyAt(c, i)' \in Key /\ node'[c[i]].row \in Buf
    BY <1>7 DEF Shape, Typed
  <2> QED
    BY <1>2, <2>1, <2>2, <2>3 DEF Typed
<1>10. LevelSets(c, S)'
  BY DEF Shape, LevelSets, Levels
<1>11. Heights(c, S)'
  BY <1>1, <1>6 DEF Shape, Heights, Levels
<1>12. Sorted(c)'
  BY <1>7 DEF Shape, Sorted
<1>13. Linked(c, S)'
  <2> SUFFICES ASSUME NEW l \in Levels, NEW i \in S[l] \cup {0}, NEW j \in 1 .. Len(c) + 1,
                      NextIn(S[l], Len(c), i, j)
               PROVE  /\ node'[At(c, i)].next[l] = IF j = Len(c) + 1 THEN Null ELSE c[j]
                      /\ node'[At(c, i)].width[l] = (IF j = Len(c) + 1 THEN Len(c) ELSE j) - i
    BY DEF Linked, Levels, NextIn, At
  <2>1. At(c, i) \in DOMAIN node
    BY <1>1
  <2>2. /\ node[At(c, i)].next[l] = IF j = Len(c) + 1 THEN Null ELSE c[j]
        /\ node[At(c, i)].width[l] = (IF j = Len(c) + 1 THEN Len(c) ELSE j) - i
    BY DEF Shape, Linked
  <2> QED
    BY <1>6, <2>1, <2>2
<1>14. Unlinked(c, S)'
  BY <1>1, <1>6 DEF Shape, Unlinked, Levels
<1>15. Owned(c)'
  <2>1. /\ \A i, j \in 1 .. Len(c) : node[c[i]].row = node[c[j]].row => i = j
        /\ heap = {node[c[i]].row : i \in 1 .. Len(c)} /\ size = Len(c)
    BY DEF Shape, Owned
  <2>2. \A i \in 1 .. Len(c) : node[c[i]].row # d
    BY <2>1
  <2>3. \A i, j \in 1 .. Len(c) : node'[c[i]].row = node'[c[j]].row => i = j
    BY <1>7, <2>1, <2>2
  <2>4. ASSUME NEW i \in 1 .. Len(c) PROVE node'[c[i]].row \in heap'
    BY <1>7, <2>1
  <2>5. ASSUME NEW x \in heap' PROVE \E i \in 1 .. Len(c) : node'[c[i]].row = x
    <3>1. CASE x = d
      BY <1>7, <3>1
    <3>2. CASE x # d
      <4>1. x \in heap /\ x # node[c[q]].row
        BY <2>5, <3>2
      <4> QED
        BY <1>7, <2>1, <4>1
    <3> QED
      BY <3>1, <3>2
  <2>6. heap' = {node'[c[i]].row : i \in 1 .. Len(c)}
    BY <2>4, <2>5
  <2> QED
    BY <2>1, <2>3, <2>6 DEF Owned
<1> QED
  BY <1>7, <1>8, <1>9, <1>10, <1>11, <1>12, <1>13, <1>14, <1>15 DEF Shape

\* initialize leaves the shape of the empty list.
LEMMA InitializeShape ==
  ASSUME node' = [n \in {HeadNode} |-> NewNode(0, MaxNodeHeight, Null)],
         heap' = {}, size' = 0, NEW c, c = <<>>
  PROVE  Shape(c, [l \in Levels |-> {}])'
<1>1. c \in Seq(Node) /\ Len(c) = 0 /\ 1 .. Len(c) = {}
  OBVIOUS
<1> PICK S : S = [l \in Levels |-> {}]
  OBVIOUS
<1>2. S = [l \in Levels |-> {}] /\ \A l \in Levels : S[l] = {}
  OBVIOUS
<1>3. DOMAIN node' = {HeadNode} /\ node'[HeadNode] = NewNode(0, MaxNodeHeight, Null)
  OBVIOUS
<1>4. /\ node'[HeadNode] \in NodeOf(MaxNodeHeight) /\ node'[HeadNode].height = MaxNodeHeight
      /\ \A l \in Levels : node'[HeadNode].next[l] = Null /\ node'[HeadNode].width[l] = 0
  BY <1>3, HeightAssumption DEF NewNode, NodeOf, Levels
<1>5. MaxNodeHeight \in 1 .. MaxNodeHeight
  BY HeightAssumption
<1>6. Listed(c)' /\ Typed(c)'
  BY <1>1, <1>3, <1>4, <1>5 DEF Listed, Typed, IsNode, KeyAt
<1>7. LevelSets(c, S)' /\ Heights(c, S)' /\ Sorted(c)' /\ Unlinked(c, S)'
  <2>1. 0 \in Levels
    BY HeightAssumption DEF Levels
  <2> QED
    BY <1>1, <1>2, <2>1 DEF LevelSets, Heights, Sorted, Unlinked, Levels
<1>8. Linked(c, S)'
  <2> SUFFICES ASSUME NEW l \in Levels, NEW i \in S[l] \cup {0}, NEW j \in 1 .. Len(c) + 1
               PROVE  /\ node'[At(c, i)].next[l] = IF j = Len(c) + 1 THEN Null ELSE c[j]
                      /\ node'[At(c, i)].width[l] = (IF j = Len(c) + 1 THEN Len(c) ELSE j) - i
    BY DEF Linked, Levels, NextIn, At
  <2>1. i = 0 /\ j = 1
    BY <1>1, <1>2
  <2> QED
    BY <1>1, <1>4, <2>1 DEF At
<1>9. Owned(c)'
  BY <1>1 DEF Owned
<1>10. Shape(c, S)'
  BY <1>6, <1>7, <1>8, <1>9 DEF Shape
<1> QED
  BY <1>2, <1>10
-----------------------------------------------------------------------------
(* Each call does what it does in the abstract index.                      *)

Ready == \E c \in Seq(Node) : \E S : Shape(c, S)

LEMMA NextEntries ==
  ASSUME status' = "ready", NEW c \in Seq(Node), NEW S, Shape(c, S)'
  PROVE  Entries' = [i \in 1 .. Len(c) |-> [key |-> KeyAt(c, i)', row |-> node'[c[i]].row]]
<1>1. EntriesRule'
  BY EntriesIs, PTL
<1> QED
  BY <1>1 DEF EntriesRule, EntriesOf

\* A call that changes none of the pointers changes no entry.
LEMMA Stays ==
  ASSUME status = "ready", NEW c \in Seq(Node), NEW S, Shape(c, S),
         status' = status, primary' = primary, node' = node, size' = size, heap' = heap
  PROVE  Ready' /\ Entries' = Entries
<1>1. Shape(c, S)'
  <2>1. Listed(c)' /\ Owned(c)' /\ Sorted(c)'
    BY DEF Shape, Listed, Owned, Sorted, KeyAt
  <2>2. Typed(c)'
    BY DEF Shape, Typed, KeyAt, IsNode, NodeOf
  <2>3. LevelSets(c, S)' /\ Heights(c, S)' /\ Unlinked(c, S)'
    BY DEF Shape, LevelSets, Heights, Unlinked, Levels
  <2>4. Linked(c, S)'
    <3> SUFFICES ASSUME NEW l \in Levels, NEW i \in S[l] \cup {0}, NEW j \in 1 .. Len(c) + 1,
                        NextIn(S[l], Len(c), i, j)
                 PROVE  /\ node'[At(c, i)].next[l] = IF j = Len(c) + 1 THEN Null ELSE c[j]
                        /\ node'[At(c, i)].width[l] = (IF j = Len(c) + 1 THEN Len(c) ELSE j) - i
      BY DEF Linked, Levels, NextIn, At
    <3>1. Linked(c, S)
      BY DEF Shape
    <3>2. /\ node[At(c, i)].next[l] = IF j = Len(c) + 1 THEN Null ELSE c[j]
          /\ node[At(c, i)].width[l] = (IF j = Len(c) + 1 THEN Len(c) ELSE j) - i
      BY <3>1 DEF Linked
    <3> QED
      BY <3>2
  <2> QED
    BY <2>1, <2>2, <2>3, <2>4 DEF Shape
<1>2. Entries = [i \in 1 .. Len(c) |-> [key |-> KeyAt(c, i), row |-> node[c[i]].row]]
  BY EntriesIs DEF EntriesRule, EntriesOf
<1>3. Entries' = [i \in 1 .. Len(c) |-> [key |-> KeyAt(c, i)', row |-> node'[c[i]].row]]
  BY <1>1, NextEntries
<1> QED
  BY <1>1, <1>2, <1>3 DEF KeyAt, Ready

LEMMA InsertImplements ==
  ASSUME status = "ready", NEW c \in Seq(Node), NEW S, Shape(c, S),
         NEW k \in Key, NEW d \in Buf, NEW h \in 1 .. MaxNodeHeight, Insert(k, d, h)
  PROVE  Ready' /\ Index!Insert(k, d)
<1>1. PICK b, j : Search(c, S, k, b, j)
  <2>1. k \in Int
    BY KeyAssumption
  <2> QED
    BY <2>1, SearchExists
<1>2. status' = "ready" /\ primary' = primary /\ d \notin heap
  BY DEF Insert
<1>3. Index!Below(k) = b[0] /\ (Hits(Traverse(k), k) = {} <=> Index!Holding(k) = {})
  BY <1>1, LookupFacts
<1>4. CASE Rejects(Traverse(k), k)
  <2>1. ret' = <<"insert", FALSE>> /\ node' = node /\ size' = size /\ heap' = heap
    BY <1>4 DEF Insert
  <2>2. Ready' /\ Entries' = Entries
    BY <1>2, <2>1, Stays
  <2> QED
    BY <1>2, <1>3, <1>4, <2>1, <2>2 DEF Index!Insert, Rejects
<1>5. CASE ~Rejects(Traverse(k), k)
  <2>1. ret' = <<"insert", TRUE>> /\ size' = size + 1 /\ heap' = heap \cup {d}
    BY <1>5 DEF Insert
  <2>2. PICK n \in Node \ DOMAIN node : node' = WithNode(n, k, h, d)
    BY <1>5 DEF Insert
  <2>3. PICK p : p = b[0] + 1
    OBVIOUS
  <2>4. PICK e : e = Inserted(c, p, n)
    OBVIOUS
  <2>5. PICK T : T = [l \in Levels |-> WithPlace(S[l], Len(c), p, l, h)]
    OBVIOUS
  <2>6. Shape(e, T)'
    <3>1. primary => Hits(Traverse(k), k) = {}
      BY <1>5 DEF Rejects
    <3>2. e = Inserted(c, b[0] + 1, n)
      BY <2>3, <2>4
    <3>3. T = [l \in Levels |-> WithPlace(S[l], Len(c), b[0] + 1, l, h)]
      BY <2>3, <2>5
    <3> QED
      BY <1>1, <1>2, <2>1, <2>2, <3>1, <3>2, <3>3, InsertShape
  <2>7. b[0] \in 0 .. Len(c) /\ Len(c) \in Nat /\ p \in 1 .. Len(c) + 1
    <3>1. k \in Int /\ Len(c) \in Nat
      BY KeyAssumption
    <3>2. b[0] \in 0 .. Len(c)
      BY <1>1, <3>1, SearchFacts
    <3> QED
      BY <2>3, <3>1, <3>2
  <2>8. InsertedAt(e, c, p, n)
    BY <2>4, <2>7, InsertedFacts
  <2>9. /\ e \in Seq(Node) /\ Len(e) = Len(c) + 1 /\ e[p] = n
        /\ \A i \in 1 .. Len(c) + 1 : i # p => Old(p, i) \in 1 .. Len(c) /\ e[i] = c[Old(p, i)]
    BY <2>8 DEF InsertedAt
  <2>10. Ready'
    BY <2>6, <2>9 DEF Ready
  <2>11. PICK M : M = WithNode(n, k, h, d)
    OBVIOUS
  <2>12. LinkedIn(M, c, b, j, k, d, n, h)
    BY <1>1, <2>11, InsertNodes
  <2>13. /\ node'[n].key = k /\ node'[n].row = d
         /\ \A m \in DOMAIN node : node'[m].key = node[m].key /\ node'[m].row = node[m].row
    BY <2>2, <2>11, <2>12 DEF LinkedIn
  <2>14. PICK E : E = Entries
    OBVIOUS
  <2>15. /\ E \in Seq(Index!Entry) /\ Len(E) = Len(c)
         /\ \A i \in 1 .. Len(c) : E[i] = [key |-> node[c[i]].key, row |-> node[c[i]].row]
         /\ Index!Rows = heap
    BY <2>14, EntryFacts DEF KeyAt
  <2>16. PICK x : x = [key |-> k, row |-> d]
    OBVIOUS
  <2>17. ASSUME NEW i \in 1 .. Len(c) + 1
         PROVE  [key |-> node'[e[i]].key, row |-> node'[e[i]].row]
                  = IF i < p THEN E[i] ELSE IF i = p THEN x ELSE E[i - 1]
    <3>1. CASE i = p
      BY <2>7, <2>9, <2>13, <2>16, <3>1
    <3>2. CASE i # p
      <4>1. Old(p, i) \in 1 .. Len(c) /\ e[i] = c[Old(p, i)]
        BY <2>9, <3>2
      <4>2. c[Old(p, i)] \in DOMAIN node
        BY <4>1, ShapeFacts
      <4>3. [key |-> node'[e[i]].key, row |-> node'[e[i]].row] = E[Old(p, i)]
        BY <2>13, <2>15, <4>1, <4>2
      <4> QED
        BY <3>2, <4>3 DEF Old
    <3> QED
      BY <3>1, <3>2
  <2>18. Entries' = [i \in 1 .. Len(c) + 1 |->
                       IF i < p THEN E[i] ELSE IF i = p THEN x ELSE E[i - 1]]
    <3>1. Entries' = [i \in 1 .. Len(e) |-> [key |-> KeyAt(e, i)', row |-> node'[e[i]].row]]
      BY <1>2, <2>6, <2>9, NextEntries
    <3> QED
      BY <2>9, <2>17, <3>1 DEF KeyAt
  <2>19. Index!Seqs!InsertAt(E, p, x)
           = [i \in 1 .. Len(c) + 1 |-> IF i < p THEN E[i] ELSE IF i = p THEN x ELSE E[i - 1]]
    <3>1. x \in Index!Entry
      BY <2>16 DEF Index!Entry
    <3>2. p \in 1 .. Len(E) + 1
      BY <2>7, <2>15
    <3>3. Index!Seqs!InsertAt(E, p, x)
            = [i \in 1 .. Len(E) + 1 |-> IF i < p THEN E[i] ELSE IF i = p THEN x ELSE E[i - 1]]
      BY <2>15, <3>1, <3>2, InsertAtIs
    <3> QED
      BY <2>15, <3>3
  <2>20. Entries' = Index!Seqs!InsertAt(Entries, Index!Below(k) + 1, [key |-> k, row |-> d])
    <3>1. Entries' = Index!Seqs!InsertAt(E, p, x)
      BY <2>18, <2>19
    <3> QED
      BY <1>3, <2>3, <2>14, <2>16, <3>1
  <2>21. ~(primary /\ Index!Holding(k) # {})
    BY <1>3, <1>5 DEF Rejects
  <2> QED
    BY <1>2, <2>1, <2>10, <2>15, <2>20, <2>21 DEF Index!Insert
<1> QED
  BY <1>4, <1>5

LEMMA RemoveImplements ==
  ASSUME status = "ready", NEW c \in Seq(Node), NEW S, Shape(c, S), NEW k \in Key, Remove(k)
  PROVE  Ready' /\ Index!Remove(k)
<1>0. k \in Int /\ Len(c) \in Nat /\ 0 \in Levels
  BY KeyAssumption, ShapeFacts
<1>1. PICK b, j : Search(c, S, k, b, j)
  BY <1>0, SearchExists
<1>2. status' = "ready" /\ primary' = primary
  BY DEF Remove
<1>3. Index!Below(k) = b[0] /\ (Hits(Traverse(k), k) = {} <=> Index!Holding(k) = {})
  BY <1>1, LookupFacts
<1>4. CASE Hits(Traverse(k), k) = {}
  <2>1. ret' = <<"remove", FALSE>> /\ node' = node /\ size' = size /\ heap' = heap
    BY <1>4 DEF Remove
  <2>2. Ready' /\ Entries' = Entries
    BY <1>2, <2>1, Stays
  <2> QED
    BY <1>2, <1>3, <1>4, <2>1, <2>2 DEF Index!Remove
<1>5. CASE Hits(Traverse(k), k) # {}
  <2>1. /\ ret' = <<"remove", TRUE>> /\ size' = size - 1 /\ node' = WithoutNode(k)
        /\ heap' = heap \ {node[After(Traverse(k), 0)].row}
    BY <1>5 DEF Remove, FreedWith
  <2>2. PICK p : p = b[0] + 1
    OBVIOUS
  <2>3. PICK e : e = Removed(c, p)
    OBVIOUS
  <2>4. PICK T : T = LevelsLeft(c, S, k, b, j)
    OBVIOUS
  <2>5. /\ j[0] = p /\ b[0] \in 0 .. Len(c) /\ p \in 1 .. Len(c) + 1
        /\ After(Traverse(k), 0) = IF p = Len(c) + 1 THEN Null ELSE c[p]
        /\ \A l \in Levels : j[l] \in 1 .. Len(c) + 1 /\ j[0] <= j[l]
        /\ Hits(Traverse(k), k) = {l \in Levels : j[l] # Len(c) + 1 /\ KeyAt(c, j[l]) = k}
    <3>1. \A l \in Levels : 0 <= l
      BY DEF Levels
    <3> QED
      BY <1>0, <1>1, <2>2, <3>1, SearchFacts
  <2>6. p # Len(c) + 1
    <3>1. PICK l \in Levels : j[l] # Len(c) + 1
      BY <1>5, <2>5
    <3> QED
      BY <1>0, <2>5, <3>1
  <2>7. heap' = heap \ {node[c[b[0] + 1]].row}
    BY <2>1, <2>2, <2>5, <2>6
  <2>8. Shape(e, T)'
    <3>1. e = Removed(c, b[0] + 1)
      BY <2>2, <2>3
    <3> QED
      BY <1>1, <1>2, <1>5, <2>1, <2>4, <2>7, <3>1, RemoveShape
  <2>9. p \in 1 .. Len(c)
    BY <1>0, <2>5, <2>6
  <2>10. RemovedAt(e, c, p)
    BY <2>3, <2>9, RemovedFacts
  <2>11. /\ e \in Seq(Node) /\ Len(e) = Len(c) - 1
         /\ \A i \in 1 .. Len(c) - 1 : /\ New(p, i) \in 1 .. Len(c) /\ New(p, i) # p
                                       /\ e[i] = c[New(p, i)]
    BY <2>10 DEF RemovedAt
  <2>12. Ready'
    BY <2>8, <2>11 DEF Ready
  <2>13. PICK M : M = WithoutNode(k)
    OBVIOUS
  <2>14. CutFrom(M, c, b, j, k)
    BY <1>1, <1>5, <2>13, RemoveNodes
  <2>15. \A m \in DOMAIN node : m # c[p] =>
           node'[m].key = node[m].key /\ node'[m].row = node[m].row
    BY <2>1, <2>5, <2>13, <2>14 DEF CutFrom
  <2>16. PICK E : E = Entries
    OBVIOUS
  <2>17. /\ E \in Seq(Index!Entry) /\ Len(E) = Len(c)
         /\ \A i \in 1 .. Len(c) : E[i] = [key |-> node[c[i]].key, row |-> node[c[i]].row]
    BY <2>16, EntryFacts DEF KeyAt
  <2>18. ASSUME NEW i \in 1 .. Len(c) - 1
         PROVE  [key |-> node'[e[i]].key, row |-> node'[e[i]].row] = E[New(p, i)]
    <3>1. New(p, i) \in 1 .. Len(c) /\ New(p, i) # p /\ e[i] = c[New(p, i)]
      BY <2>11
    <3>2. c[New(p, i)] \in DOMAIN node /\ c[New(p, i)] # c[p]
      <4>1. \A x, y \in 1 .. Len(c) : c[x] = c[y] => x = y
        BY DEF Shape, Listed
      <4> QED
        BY <2>9, <3>1, <4>1, ShapeFacts
    <3> QED
      BY <2>15, <2>17, <3>1, <3>2
  <2>19. Entries' = [i \in 1 .. Len(c) - 1 |-> E[New(p, i)]]
    <3>1. Entries' = [i \in 1 .. Len(e) |-> [key |-> KeyAt(e, i)', row |-> node'[e[i]].row]]
      BY <1>2, <2>8, <2>11, NextEntries
    <3> QED
      BY <2>11, <2>18, <3>1 DEF KeyAt
  <2>20. Index!Seqs!RemoveAt(E, p) = [i \in 1 .. Len(c) - 1 |-> E[New(p, i)]]
    <3>1. p \in 1 .. Len(E)
      BY <2>9, <2>17
    <3>2. Index!Seqs!RemoveAt(E, p) = [i \in 1 .. Len(E) - 1 |-> E[New(p, i)]]
      BY <2>17, <3>1, RemoveAtIs
    <3> QED
      BY <2>17, <3>2
  <2>21. Entries' = Index!Seqs!RemoveAt(Entries, Index!Below(k) + 1)
    <3>1. Entries' = Index!Seqs!RemoveAt(E, p)
      BY <2>19, <2>20
    <3> QED
      BY <1>3, <2>2, <2>16, <3>1
  <2> QED
    BY <1>2, <1>3, <1>5, <2>1, <2>12, <2>21 DEF Index!Remove
<1> QED
  BY <1>4, <1>5

LEMMA UpdateImplements ==
  ASSUME status = "ready", NEW c \in Seq(Node), NEW S, Shape(c, S), NEW k \in Key,
         NEW d \in Buf, Update(k, d)
  PROVE  Ready' /\ Index!Update(k, d)
<1>0. k \in Int /\ Len(c) \in Nat
  BY KeyAssumption, ShapeFacts
<1>1. PICK b, j : Search(c, S, k, b, j)
  BY <1>0, SearchExists
<1>2. status' = "ready" /\ primary' = primary /\ size' = size /\ d \notin heap
  BY DEF Update
<1>3. /\ Index!Holding(k) = {} => FindNode(k) = Null
      /\ Index!Holding(k) # {} => \E i \in Index!Holding(k) : FindNode(k) = c[i]
  BY <1>1, LookupFacts
<1>4. PICK E : E = Entries
  OBVIOUS
<1>5. /\ Index!Holding(k) = {i \in 1 .. Len(c) : KeyAt(c, i) = k}
      /\ DOMAIN E = 1 .. Len(c) /\ Index!Rows = heap
      /\ \A i \in 1 .. Len(c) : E[i] = [key |-> KeyAt(c, i), row |-> node[c[i]].row]
  BY <1>4, EntryFacts
<1>6. \A i \in 1 .. Len(c) : c[i] # Null
  BY ShapeFacts
<1>7. CASE FindNode(k) = Null
  <2>1. ret' = <<"update", FALSE>> /\ node' = node /\ heap' = heap
    BY <1>7 DEF Update
  <2>2. Ready' /\ Entries' = Entries
    BY <1>2, <2>1, Stays
  <2>3. Index!Holding(k) = {}
    BY <1>3, <1>5, <1>6, <1>7
  <2> QED
    BY <1>2, <2>1, <2>2, <2>3 DEF Index!Update
<1>8. CASE FindNode(k) # Null
  <2>1. PICK q \in Index!Holding(k) : FindNode(k) = c[q]
    BY <1>3, <1>8
  <2>2. q \in 1 .. Len(c)
    BY <1>5
  <2>3. /\ ret' = <<"update", TRUE>> /\ node' = [node EXCEPT ![c[q]].row = d]
        /\ heap' = (heap \ {node[c[q]].row}) \cup {d}
    BY <1>8, <2>1 DEF Update
  <2>4. /\ Shape(c, S)'
        /\ \A i \in 1 .. Len(c) : /\ KeyAt(c, i)' = KeyAt(c, i)
                                  /\ node'[c[i]].row = IF i = q THEN d ELSE node[c[i]].row
    BY <1>2, <2>2, <2>3, UpdateShape
  <2>5. Entries' = [i \in 1 .. Len(c) |-> [key |-> KeyAt(c, i)', row |-> node'[c[i]].row]]
    BY <1>2, <2>4, NextEntries
  <2>6. Entries' = [E EXCEPT ![q].row = d]
    <3>1. \A i \in 1 .. Len(c) : [key |-> KeyAt(c, i)', row |-> node'[c[i]].row]
                                   = [E EXCEPT ![q].row = d][i]
      <4> TAKE i \in 1 .. Len(c)
      <4>1. CASE i = q
        <5>1. [E EXCEPT ![q].row = d][i] = [E[q] EXCEPT !.row = d]
          BY <1>5, <2>2, <4>1
        <5>2. [E[q] EXCEPT !.row = d] = [key |-> KeyAt(c, q), row |-> d]
          BY <1>5, <2>2
        <5> QED
          BY <2>4, <4>1, <5>1, <5>2
      <4>2. CASE i # q
        <5>1. [E EXCEPT ![q].row = d][i] = E[i]
          BY <1>5, <4>2
        <5> QED
          BY <1>5, <2>4, <4>2, <5>1
      <4> QED
        BY <4>1, <4>2
    <3> PICK F : F = [E EXCEPT ![q].row = d]
      OBVIOUS
    <3>2. F = [i \in 1 .. Len(c) |-> F[i]]
      BY <1>5
    <3> QED
      BY <2>5, <3>1, <3>2
  <2>7. Entries' = [Entries EXCEPT ![q].row = d]
    BY <1>4, <2>6
  <2> QED
    BY <1>2, <1>5, <2>1, <2>3, <2>4, <2>7 DEF Index!Update, Ready
<1> QED
  BY <1>7, <1>8

LEMMA AnswerImplements ==
  ASSUME status = "ready", NEW c \in Seq(Node), NEW S, Shape(c, S), NEW call, NEW r,
         Answer(call, r)
  PROVE  Ready' /\ Index!Answer(call, r)
<1>1. /\ status' = status /\ primary' = primary /\ node' = node /\ size' = size /\ heap' = heap
      /\ ret' = <<call, r>>
  BY DEF Answer
<1>2. Ready' /\ Entries' = Entries
  BY <1>1, Stays
<1> QED
  BY <1>1, <1>2 DEF Index!Answer

LEMMA SearchesImplement ==
  ASSUME status = "ready", NEW c \in Seq(Node), NEW S, Shape(c, S), NEW k \in Key
  PROVE  /\ Find(k) => Ready' /\ Index!Find(k)
         /\ Contains(k) => Ready' /\ Index!Contains(k)
         /\ Seek(k) => Ready' /\ Index!Seek(k)
<1>0. k \in Int /\ Len(c) \in Nat
  BY KeyAssumption, ShapeFacts
<1>1. PICK b, j : Search(c, S, k, b, j)
  BY <1>0, SearchExists
<1>2. /\ Index!Below(k) = b[0]
      /\ Index!Holding(k) = {} =>
           /\ FindNode(k) = Null
           /\ SeekNode(k) = IF b[0] + 1 = Len(c) + 1 THEN Null ELSE c[b[0] + 1]
      /\ Index!Holding(k) # {} =>
           \E i \in Index!Holding(k) : FindNode(k) = c[i] /\ SeekNode(k) = c[i]
  BY <1>1, LookupFacts
<1>3. b[0] \in 0 .. Len(c)
  BY <1>0, <1>1, SearchFacts
<1>4. PICK E : E = Entries
  OBVIOUS
<1>5. /\ DOMAIN E = 1 .. Len(c)
      /\ \A i \in 1 .. Len(c) : /\ E[i] = [key |-> KeyAt(c, i), row |-> node[c[i]].row]
                                /\ E[i].row = node[c[i]].row
      /\ Index!Holding(k) = {i \in 1 .. Len(c) : KeyAt(c, i) = k}
  BY <1>4, EntryFacts
<1>6. \A i \in 1 .. Len(c) : c[i] # Null
  BY ShapeFacts
<1>7. \A i \in 1 .. Len(c) : Standing(c[i]) = E[i]
  BY <1>5, <1>6 DEF Standing, KeyAt
<1>8. Find(k) => Ready' /\ Index!Find(k)
  <2> SUFFICES ASSUME Find(k) PROVE Ready' /\ Index!Find(k)
    OBVIOUS
  <2> PICK r : r = IF FindNode(k) = Null THEN Null ELSE node[FindNode(k)].row
    OBVIOUS
  <2>1. Answer("find", r)
    BY DEF Find
  <2>2. Ready' /\ Index!Answer("find", r)
    BY <2>1, AnswerImplements
  <2>3. CASE Index!Holding(k) = {}
    <3>1. r = Null
      BY <1>2, <2>3
    <3> QED
      BY <2>2, <2>3, <3>1 DEF Index!Find
  <2>4. CASE Index!Holding(k) # {}
    <3>1. PICK i \in Index!Holding(k) : FindNode(k) = c[i]
      BY <1>2, <2>4
    <3>2. i \in 1 .. Len(c) /\ r = E[i].row
      BY <1>5, <1>6, <3>1
    <3>3. r = Entries[i].row
      BY <1>4, <3>2
    <3> QED
      BY <2>2, <3>3 DEF Index!Find
  <2> QED
    BY <2>3, <2>4
<1>9. Contains(k) => Ready' /\ Index!Contains(k)
  <2> SUFFICES ASSUME Contains(k) PROVE Ready' /\ Index!Contains(k)
    OBVIOUS
  <2>1. (FindNode(k) # Null) = (Index!Holding(k) # {})
    <3>1. CASE Index!Holding(k) = {}
      BY <1>2, <3>1
    <3>2. CASE Index!Holding(k) # {}
      <4>1. PICK i \in Index!Holding(k) : FindNode(k) = c[i]
        BY <1>2, <3>2
      <4>2. FindNode(k) # Null
        BY <1>5, <1>6, <4>1
      <4> QED
        BY <3>2, <4>2
    <3> QED
      BY <3>1, <3>2
  <2>2. PICK r : r = (FindNode(k) # Null)
    OBVIOUS
  <2>3. Answer("contains", r)
    BY <2>2 DEF Contains
  <2>4. Ready' /\ Index!Answer("contains", r)
    BY <2>3, AnswerImplements
  <2>5. r = (Index!Holding(k) # {})
    BY <2>1, <2>2
  <2> QED
    BY <2>4, <2>5 DEF Index!Contains
<1>10. Seek(k) => Ready' /\ Index!Seek(k)
  <2> SUFFICES ASSUME Seek(k) PROVE Ready' /\ Index!Seek(k)
    OBVIOUS
  <2> PICK r : r = Standing(SeekNode(k))
    OBVIOUS
  <2>1. Answer("seek", r)
    BY DEF Seek
  <2>2. Ready' /\ Index!Answer("seek", r)
    BY <2>1, AnswerImplements
  <2>3. CASE Index!Holding(k) = {}
    <3>1. SeekNode(k) = IF b[0] + 1 = Len(c) + 1 THEN Null ELSE c[b[0] + 1]
      BY <1>2, <2>3
    <3>2. r = IF b[0] + 1 \in 1 .. Len(c) THEN E[b[0] + 1] ELSE Null
      <4>1. CASE b[0] + 1 = Len(c) + 1
        <5>1. ~(b[0] + 1 \in 1 .. Len(c)) /\ SeekNode(k) = Null
          BY <1>0, <3>1, <4>1
        <5> QED
          BY <5>1 DEF Standing
      <4>2. CASE b[0] + 1 # Len(c) + 1
        <5>1. b[0] + 1 \in 1 .. Len(c) /\ SeekNode(k) = c[b[0] + 1]
          BY <1>0, <1>3, <3>1, <4>2
        <5> QED
          BY <1>7, <5>1
      <4> QED
        BY <4>1, <4>2
    <3>3. r = Index!EntryAt(Index!Below(k) + 1)
      BY <1>2, <1>4, <1>5, <3>2 DEF Index!EntryAt
    <3> QED
      BY <2>2, <2>3, <3>3 DEF Index!Seek
  <2>4. CASE Index!Holding(k) # {}
    <3>1. PICK i \in Index!Holding(k) : SeekNode(k) = c[i]
      BY <1>2, <2>4
    <3>2. r = Entries[i]
      BY <1>4, <1>5, <1>7, <3>1
    <3> QED
      BY <2>2, <3>2 DEF Index!Seek
  <2> QED
    BY <2>3, <2>4
<1> QED
  BY <1>8, <1>9, <1>10

LEMMA BeginAndSizeImplement ==
  ASSUME status = "ready", NEW c \in Seq(Node), NEW S, Shape(c, S)
  PROVE  /\ Begin => Ready' /\ Index!Begin
         /\ \A calculate \in BOOLEAN : Size(calculate) => Ready' /\ Index!Size
<1>1. Len(c) \in Nat /\ 0 \in Levels /\ \A i \in 1 .. Len(c) : c[i] # Null
  BY ShapeFacts
<1>2. PICK E : E = Entries
  OBVIOUS
<1>3. /\ DOMAIN E = 1 .. Len(c) /\ Len(E) = Len(c)
      /\ \A i \in 1 .. Len(c) : E[i] = [key |-> KeyAt(c, i), row |-> node[c[i]].row]
  BY <1>2, EntryFacts
<1>4. Begin => Ready' /\ Index!Begin
  <2> SUFFICES ASSUME Begin PROVE Ready' /\ Index!Begin
    OBVIOUS
  <2> PICK r : r = Standing(node[HeadNode].next[0])
    OBVIOUS
  <2>1. Answer("begin", r)
    BY DEF Begin
  <2>2. Ready' /\ Index!Answer("begin", r)
    BY <2>1, AnswerImplements
  <2>3. node[HeadNode].next[0] = IF 1 = Len(c) + 1 THEN Null ELSE c[1]
    <3>1. S[0] = 1 .. Len(c)
      BY DEF Shape, LevelSets
    <3>2. NextIn(S[0], Len(c), 0, 1) /\ 1 \in 1 .. Len(c) + 1
      BY <1>1, <3>1 DEF NextIn
    <3>3. node[At(c, 0)].next[0] = IF 1 = Len(c) + 1 THEN Null ELSE c[1]
      BY <1>1, <3>2 DEF Shape, Linked
    <3> QED
      BY <3>3 DEF At
  <2>4. r = IF 1 \in 1 .. Len(c) THEN E[1] ELSE Null
    <3>1. CASE 1 = Len(c) + 1
      <4>1. ~(1 \in 1 .. Len(c)) /\ node[HeadNode].next[0] = Null
        BY <1>1, <2>3, <3>1
      <4> QED
        BY <4>1 DEF Standing
    <3>2. CASE 1 # Len(c) + 1
      <4>1. 1 \in 1 .. Len(c) /\ node[HeadNode].next[0] = c[1]
        BY <1>1, <2>3, <3>2
      <4> QED
        BY <1>1, <1>3, <4>1 DEF Standing, KeyAt
    <3> QED
      BY <3>1, <3>2
  <2>5. r = Index!EntryAt(1)
    BY <1>2, <1>3, <2>4 DEF Index!EntryAt
  <2> QED
    BY <2>2, <2>5 DEF Index!Begin
<1>5. ASSUME NEW calculate \in BOOLEAN, Size(calculate) PROVE Ready' /\ Index!Size
  <2>1. Chain(0) = c
    BY EntriesIs DEF EntriesRule
  <2>2. size = Len(c)
    BY DEF Shape, Owned
  <2>3. Answer("size", Len(c))
    BY <1>5, <2>1, <2>2 DEF Size
  <2>4. Ready' /\ Index!Answer("size", Len(c))
    BY <2>3, AnswerImplements
  <2>5. Len(c) = Len(Entries)
    BY <1>2, <1>3
  <2> QED
    BY <2>4, <2>5 DEF Index!Size
<1> QED
  BY <1>4, <1>5

\* The widths answer the range estimate exactly.
LEMMA EstimateImplements ==
  ASSUME status = "ready", NEW c \in Seq(Node), NEW S, Shape(c, S),
         NEW low \in Key, NEW high \in Key, Estimate(low, high)
  PROVE  Ready' /\ Index!Estimate(low, high)
<1>1. low \in Int /\ high \in Int /\ Len(c) \in Nat /\ 0 \in Levels
  BY KeyAssumption, ShapeFacts
<1>2. PICK lo : Stops(c, S, low, lo)
  BY <1>1, StopsExist
<1>3. PICK hi : Stops(c, S, high, hi)
  BY <1>1, StopsExist
<1>4. /\ lo[0] \in 0 .. Len(c) /\ hi[0] \in 0 .. Len(c)
      /\ \A i \in 1 .. Len(c) : /\ i <= lo[0] <=> KeyAt(c, i) < low
                                /\ i <= hi[0] <=> KeyAt(c, i) < high
  <2>1. lo[0] \in 0 .. Len(c) /\ \A i \in 1 .. Len(c) : i <= lo[0] <=> KeyAt(c, i) < low
    BY <1>1, <1>2, StopFacts
  <2>2. hi[0] \in 0 .. Len(c) /\ \A i \in 1 .. Len(c) : i <= hi[0] <=> KeyAt(c, i) < high
    BY <1>1, <1>3, StopFacts
  <2> QED
    BY <2>1, <2>2
<1>5. Traverse(low)[0].rank = lo[0] /\ Traverse(high)[0].rank = hi[0]
  <2>1. Traverse(low) = [l \in Levels |-> [prev |-> At(c, lo[l]), rank |-> lo[l]]]
    BY <1>1, <1>2, TraverseIs
  <2>2. Traverse(high) = [l \in Levels |-> [prev |-> At(c, hi[l]), rank |-> hi[l]]]
    BY <1>1, <1>3, TraverseIs
  <2> QED
    BY <1>1, <2>1, <2>2
<1>6. PICK x : x = lo[0]
  OBVIOUS
<1>7. PICK y : y = hi[0]
  OBVIOUS
<1>8. \A i \in 1 .. Len(c) : KeyAt(c, i) \in Int
  BY ShapeFacts
<1>9. /\ x \in 0 .. Len(c) /\ y \in 0 .. Len(c)
      /\ \A i \in 1 .. Len(c) : /\ i <= x <=> KeyAt(c, i) < low
                                /\ i <= y <=> KeyAt(c, i) < high
  BY <1>4, <1>6, <1>7
<1>10. PICK E : E = Entries
  OBVIOUS
<1>11. DOMAIN E = 1 .. Len(c) /\ \A i \in 1 .. Len(c) : E[i].key = KeyAt(c, i)
  BY <1>10, EntryFacts
<1>12. PICK within : within = {i \in DOMAIN E : low <= E[i].key /\ E[i].key < high}
  OBVIOUS
<1>13. within = {i \in 1 .. Len(c) : x < i /\ i <= y}
  <2>1. \A i \in 1 .. Len(c) : low <= E[i].key /\ E[i].key < high <=> x < i /\ i <= y
    <3> TAKE i \in 1 .. Len(c)
    <3>1. low <= KeyAt(c, i) <=> ~(KeyAt(c, i) < low)
      BY <1>1, <1>8
    <3>2. x < i <=> ~(i <= x)
      BY <1>9
    <3> QED
      BY <1>9, <1>11, <3>1, <3>2
  <2> QED
    BY <1>11, <1>12, <2>1
<1>14. EstimateRange(low, high) = Cardinality(within)
  <2>1. EstimateRange(low, high) = IF low > high THEN 0 ELSE y - x
    BY <1>5, <1>6, <1>7 DEF EstimateRange
  <2>2. CASE low > high
    <3>1. within = {}
      <4> SUFFICES ASSUME NEW i \in within PROVE FALSE
        OBVIOUS
      <4>1. i \in 1 .. Len(c) /\ x < i /\ i <= y
        BY <1>13
      <4>2. KeyAt(c, i) < high /\ ~(KeyAt(c, i) < low) /\ KeyAt(c, i) \in Int
        BY <1>8, <1>9, <4>1
      <4> QED
        BY <1>1, <2>2, <4>2
    <3> QED
      BY <2>1, <2>2, <3>1, FS_EmptySet
  <2>3. CASE ~(low > high)
    <3>1. x <= y
      <4> SUFFICES ASSUME y < x PROVE FALSE
        BY <1>9
      <4>1. x \in 1 .. Len(c) /\ ~(x <= y)
        BY <1>1, <1>9
      <4>2. KeyAt(c, x) < low /\ ~(KeyAt(c, x) < high) /\ KeyAt(c, x) \in Int
        BY <1>8, <1>9, <4>1
      <4> QED
        BY <1>1, <2>3, <4>2
    <3>2. within = x + 1 .. y
      BY <1>1, <1>9, <1>13
    <3>3. x + 1 \in Int /\ y \in Int
      BY <1>9
    <3>4. Cardinality(x + 1 .. y) = IF x + 1 > y THEN 0 ELSE y - (x + 1) + 1
      BY <3>3, FS_Interval
    <3>5. Cardinality(x + 1 .. y) = y - x
      BY <1>9, <3>1, <3>4
    <3> QED
      BY <2>1, <2>3, <3>2, <3>5
  <2> QED
    BY <2>2, <2>3
<1>15. PICK r : r = EstimateRange(low, high)
  OBVIOUS
<1>16. Ready' /\ Index!Answer("estimate", r)
  <2>1. Answer("estimate", r)
    BY <1>15 DEF Estimate
  <2> QED
    BY <2>1, AnswerImplements
<1>17. r = Index!Cardinality({i \in DOMAIN Entries : low <= Entries[i].key /\ Entries[i].key < high})
  <2>1. r = Index!Cardinality(within)
    BY <1>14, <1>15, IndexCounts
  <2> QED
    BY <1>10, <1>12, <2>1
<1> QED
  BY Zenon, <1>16, <1>17 DEF Index!Estimate

LEMMA DestroyImplements ==
  ASSUME status = "ready", NEW c \in Seq(Node), NEW S, Shape(c, S), Destroy
  PROVE  DOMAIN node' = {} /\ heap' = {} /\ Index!Destroy
<1>1. Chain(0) = c
  BY EntriesIs DEF EntriesRule
<1>2. PICK freed : freed = {c[i] : i \in DOMAIN c}
  OBVIOUS
<1>3. /\ node' = [n \in DOMAIN node \ (freed \cup {HeadNode}) |-> node[n]]
      /\ heap' = heap \ {node[n].row : n \in freed}
      /\ status' = "destroyed" /\ ret' = <<"destroy", Null>> /\ primary' = primary
  BY <1>1, <1>2 DEF Destroy
<1>4. DOMAIN c = 1 .. Len(c)
  OBVIOUS
<1>5. DOMAIN node' = {}
  <2>1. DOMAIN node = {HeadNode} \cup freed
    BY <1>2, <1>4 DEF Shape, Listed
  <2> QED
    BY <1>3, <2>1
<1>6. heap' = {}
  <2>1. heap = {node[c[i]].row : i \in 1 .. Len(c)}
    BY DEF Shape, Owned
  <2> QED
    BY <1>2, <1>3, <1>4, <2>1
<1>7. Entries' = <<>>
  <2>1. EntriesRule'
    BY EntriesIs, PTL
  <2> QED
    BY <1>3, <2>1 DEF EntriesRule
<1> QED
  BY <1>3, <1>5, <1>6, <1>7 DEF Index!Destroy

LEMMA InitializeImplements ==
  ASSUME status = "new", heap = {}, size = 0, Initialize
  PROVE  Ready' /\ Index!Initialize
<1> PICK c : c = <<>>
  OBVIOUS
<1>1. c \in Seq(Node) /\ 1 .. Len(c) = {}
  OBVIOUS
<1>2. /\ status' = "ready" /\ primary' = primary /\ ret' = ret /\ heap' = {} /\ size' = 0
      /\ node' = [n \in {HeadNode} |-> NewNode(0, MaxNodeHeight, Null)]
  BY DEF Initialize
<1> PICK S : S = [l \in Levels |-> {}]
  OBVIOUS
<1>3. Shape(c, S)'
  <2>1. Shape(c, [l \in Levels |-> {}])'
    BY <1>2, InitializeShape
  <2> QED
    BY <2>1
<1>4. Ready'
  BY <1>1, <1>3 DEF Ready
<1>5. Entries = <<>>
  BY EntriesIs DEF EntriesRule
<1>6. Entries' = <<>>
  <2>1. Entries' = [i \in 1 .. Len(c) |-> [key |-> KeyAt(c, i)', row |-> node'[c[i]].row]]
    BY <1>1, <1>2, <1>3, NextEntries
  <2>2. [i \in 1 .. Len(c) |-> [key |-> KeyAt(c, i)', row |-> node'[c[i]].row]] = <<>>
    BY <1>1
  <2> QED
    BY <2>1, <2>2
<1> QED
  BY <1>2, <1>4, <1>5, <1>6 DEF Index!Initialize
-----------------------------------------------------------------------------
(* The inductive invariant.                                                *)

\* Before initialize() and after the destructor there is nothing; in between the
\* nodes have the shape of some list.
ListInv ==
  /\ primary \in BOOLEAN
  /\ \/ status = "new" /\ DOMAIN node = {} /\ heap = {} /\ size = 0
     \/ status = "destroyed" /\ DOMAIN node = {} /\ heap = {} /\ size \in Nat
     \/ status = "ready" /\ Ready

\* Every call keeps the invariant and is a call of the abstract index.
LEMMA EveryCall ==
  ListInv /\ [Next]_vars => ListInv' /\ [Index!Next]_(Index!vars)
<1> SUFFICES ASSUME ListInv, [Next]_vars PROVE ListInv' /\ [Index!Next]_(Index!vars)
  OBVIOUS
<1>1. CASE UNCHANGED vars
  <2>1. /\ primary' = primary /\ status' = status /\ node' = node /\ size' = size
        /\ heap' = heap /\ ret' = ret
    BY <1>1 DEF vars
  <2>2. CASE status = "ready"
    <3>1. PICK c \in Seq(Node) : \E S : Shape(c, S)
      BY <2>2 DEF ListInv, Ready
    <3>2. PICK S : Shape(c, S)
      BY <3>1
    <3>3. Ready' /\ Entries' = Entries
      BY <2>1, <2>2, <3>2, Stays
    <3> QED
      BY <2>1, <2>2, <3>3 DEF ListInv, Index!vars
  <2>3. CASE status # "ready"
    <3>1. Entries = <<>>
      BY <2>3, EntriesIs DEF EntriesRule
    <3>2. EntriesRule'
      BY EntriesIs, PTL
    <3>3. Entries' = <<>>
      BY <2>1, <2>3, <3>2 DEF EntriesRule
    <3>4. ListInv'
      BY <2>1, <2>3 DEF ListInv
    <3> QED
      BY <2>1, <3>1, <3>3, <3>4 DEF Index!vars
  <2> QED
    BY <2>2, <2>3
<1>2. CASE Next /\ status = "ready"
  <2>1. PICK c \in Seq(Node) : \E S : Shape(c, S)
    BY <1>2 DEF ListInv, Ready
  <2>2. PICK S : Shape(c, S)
    BY <2>1
  <2>3. primary \in BOOLEAN
    BY DEF ListInv
  <2>4. ASSUME NEW k \in Key, NEW b \in Buf, NEW h \in 1 .. MaxNodeHeight, Insert(k, b, h)
        PROVE  ListInv' /\ Index!Next
    <3>1. Ready' /\ Index!Insert(k, b)
      BY <1>2, <2>2, <2>4, InsertImplements
    <3>2. primary' = primary /\ status' = status
      BY <2>4 DEF Insert
    <3> QED
      BY <1>2, <2>3, <3>1, <3>2 DEF ListInv, Index!Next
  <2>5. ASSUME NEW k \in Key, NEW b \in Buf, Update(k, b) PROVE ListInv' /\ Index!Next
    <3>1. Ready' /\ Index!Update(k, b)
      BY <1>2, <2>2, <2>5, UpdateImplements
    <3>2. primary' = primary /\ status' = status
      BY <2>5 DEF Update
    <3> QED
      BY <1>2, <2>3, <3>1, <3>2 DEF ListInv, Index!Next
  <2>6. ASSUME NEW k \in Key, Remove(k) PROVE ListInv' /\ Index!Next
    <3>1. Ready' /\ Index!Remove(k)
      BY <1>2, <2>2, <2>6, RemoveImplements
    <3>2. primary' = primary /\ status' = status
      BY <2>6 DEF Remove
    <3> QED
      BY <1>2, <2>3, <3>1, <3>2 DEF ListInv, Index!Next
  <2>7. ASSUME NEW k \in Key, Find(k) \/ Contains(k) \/ Seek(k) PROVE ListInv' /\ Index!Next
    <3>1. Ready' /\ (Index!Find(k) \/ Index!Contains(k) \/ Index!Seek(k))
      BY <1>2, <2>2, <2>7, SearchesImplement
    <3>2. primary' = primary /\ status' = status
      BY <2>7 DEF Find, Contains, Seek, Answer
    <3> QED
      BY <1>2, <2>3, <3>1, <3>2 DEF ListInv, Index!Next
  <2>8. ASSUME NEW low \in Key, NEW high \in Key, Estimate(low, high)
        PROVE  ListInv' /\ Index!Next
    <3>1. Ready' /\ Index!Estimate(low, high)
      BY <1>2, <2>2, <2>8, EstimateImplements
    <3>2. primary' = primary /\ status' = status
      BY <2>8 DEF Estimate, Answer
    <3> QED
      BY <1>2, <2>3, <3>1, <3>2 DEF ListInv, Index!Next
  <2>9. ASSUME NEW calculate \in BOOLEAN, Size(calculate) PROVE ListInv' /\ Index!Next
    <3>1. Ready' /\ Index!Size
      BY <1>2, <2>2, <2>9, BeginAndSizeImplement
    <3>2. primary' = primary /\ status' = status
      BY <2>9 DEF Size, Answer
    <3> QED
      BY <1>2, <2>3, <3>1, <3>2 DEF ListInv, Index!Next
  <2>10. CASE Begin
    <3>1. Ready' /\ Index!Begin
      BY <1>2, <2>2, <2>10, BeginAndSizeImplement
    <3>2. primary' = primary /\ status' = status
      BY <2>10 DEF Begin, Answer
    <3> QED
      BY <1>2, <2>3, <3>1, <3>2 DEF ListInv, Index!Next
  <2>11. CASE Destroy
    <3>1. DOMAIN node' = {} /\ heap' = {} /\ Index!Destroy
      BY <1>2, <2>2, <2>11, DestroyImplements
    <3>2. primary' = primary /\ status' = "destroyed" /\ size' = size
      BY <2>11 DEF Destroy
    <3>3. size \in Nat
      BY <2>2 DEF Shape, Owned
    <3> QED
      BY <2>3, <3>1, <3>2, <3>3 DEF ListInv, Index!Next
  <2>12. ~Initialize
    BY <1>2 DEF Initialize
  <2> QED
    BY <1>2, <2>4, <2>5, <2>6, <2>7, <2>8, <2>9, <2>10, <2>11, <2>12 DEF Next
<1>3. CASE Next /\ status # "ready"
  <2>1. Initialize
    BY <1>3 DEF Next, Insert, Update, Remove, Find, Contains, Seek, Estimate, Size, Begin,
                Answer, Destroy
  <2>2. status = "new" /\ heap = {} /\ size = 0 /\ primary' = primary /\ status' = "ready"
    BY <1>3, <2>1 DEF ListInv, Initialize
  <2>3. Ready' /\ Index!Initialize
    BY <2>1, <2>2, InitializeImplements
  <2> QED
    BY <2>2, <2>3 DEF ListInv, Index!Next
<1> QED
  BY <1>1, <1>2, <1>3

LEMMA InitInv == Init => ListInv /\ Index!Init
<1> SUFFICES ASSUME Init PROVE ListInv /\ Index!Init
  OBVIOUS
<1>1. /\ primary \in BOOLEAN /\ status = "new" /\ DOMAIN node = {} /\ size = 0 /\ heap = {}
      /\ ret = <<"none", Null>>
  BY DEF Init
<1>2. Entries = <<>>
  BY <1>1, EntriesIs DEF EntriesRule
<1> QED
  BY <1>1, <1>2 DEF ListInv, Index!Init

LEMMA InvAlways == Spec => []ListInv
<1>1. Init => ListInv
  BY InitInv
<1>2. ListInv /\ [Next]_vars => ListInv'
  BY EveryCall
<1> QED
  BY <1>1, <1>2, PTL DEF Spec

LEMMA InvType == ListInv => TypeOK
<1> SUFFICES ASSUME ListInv PROVE TypeOK
  OBVIOUS
<1>1. CASE DOMAIN node = {} /\ status # "ready"
  BY <1>1 DEF ListInv, TypeOK
<1>2. CASE status = "ready"
  <2>1. PICK c \in Seq(Node) : \E S : Shape(c, S)
    BY <1>2 DEF ListInv, Ready
  <2>2. PICK S : Shape(c, S)
    BY <2>1
  <2>3. size \in Nat /\ heap \subseteq Buf
    BY <2>2 DEF Shape, Typed, Owned
  <2>4. /\ DOMAIN node \subseteq Node \cup {HeadNode}
        /\ \A n \in DOMAIN node : n # HeadNode => \E i \in 1 .. Len(c) : c[i] = n
    BY <2>2 DEF Shape, Listed
  <2>5. ASSUME NEW n \in DOMAIN node
        PROVE  /\ node[n].height \in 1 .. MaxNodeHeight
               /\ n # HeadNode => node[n].key \in Key /\ node[n].row \in Buf
               /\ node[n].next \in [0 .. node[n].height - 1 -> (DOMAIN node \ {HeadNode}) \cup {Null}]
               /\ node[n].width \in [0 .. node[n].height - 1 -> Nat]
    <3>1. /\ node[n].height \in 1 .. MaxNodeHeight
          /\ node[n].next \in [0 .. node[n].height - 1 -> Node \cup {Null}]
          /\ node[n].width \in [0 .. node[n].height - 1 -> Nat]
          /\ \A l \in 0 .. node[n].height - 1 : l \in Levels
      BY <2>2, NodeFacts
    <3>2. n # HeadNode => node[n].key \in Key /\ node[n].row \in Buf
      BY <2>2, <2>4 DEF Shape, Typed, KeyAt
    <3>3. ASSUME NEW l \in 0 .. node[n].height - 1
          PROVE  node[n].next[l] \in (DOMAIN node \ {HeadNode}) \cup {Null}
      <4>1. l \in Levels /\ Len(c) \in Nat /\ S[l] \subseteq 1 .. Len(c)
        BY <2>2, <3>1, ShapeFacts
      <4>2. PICK i \in 0 .. Len(c) : At(c, i) = n
        BY <2>2, ShapeFacts
      <4>3. CASE i \in S[l] \cup {0}
        <5>1. PICK j \in 1 .. Len(c) + 1 : NextIn(S[l], Len(c), i, j)
          BY <4>1, NextExists
        <5>2. node[n].next[l] = IF j = Len(c) + 1 THEN Null ELSE c[j]
          BY <2>2, <4>1, <4>2, <4>3, <5>1 DEF Shape, Linked
        <5>3. \A m \in 1 .. Len(c) : c[m] \in DOMAIN node /\ c[m] # HeadNode
          BY <2>2, ShapeFacts
        <5> QED
          BY <4>1, <5>2, <5>3
      <4>4. CASE i \notin S[l] \cup {0}
        <5>1. i \in 1 .. Len(c) /\ c[i] = n /\ i \notin S[l]
          BY <4>1, <4>2, <4>4 DEF At
        <5>2. l < node[n].height
          BY <3>1
        <5> QED
          BY <2>2, <4>1, <5>1, <5>2 DEF Shape, Unlinked
      <4> QED
        BY <4>3, <4>4
    <3>4. node[n].next \in [0 .. node[n].height - 1 -> (DOMAIN node \ {HeadNode}) \cup {Null}]
      BY <3>1, <3>3
    <3> QED
      BY <3>1, <3>2, <3>4
  <2> QED
    BY <1>2, <2>3, <2>4, <2>5 DEF TypeOK
<1> QED
  BY <1>1, <1>2 DEF ListInv
-----------------------------------------------------------------------------
(* The theorems.                                                           *)

\* The pointer structure implements the abstract index: every call leaves the entries
\* and returns the result OrderedIndex says.
THEOREM ImplementsIndex == Spec => IndexSpec
<1>1. Init => Index!Init
  BY InitInv
<1>2. ListInv /\ [Next]_vars => [Index!Next]_(Index!vars)
  BY EveryCall
<1> QED
  BY <1>1, <1>2, InvAlways, PTL DEF Spec, IndexSpec, Index!Spec

\* Every node keeps one pointer and one width for each of its levels, and no pointer
\* of an allocated node dangles.
THEOREM TypeAlwaysOK == Spec => []TypeOK
  BY InvType, InvAlways, PTL

\* No leak, no double free and no dangling row: the index owns the data its rows point
\* at, each of them once, and nothing when it is destroyed.
THEOREM RowsAlwaysOwnHeap == Spec => []RowsOwnHeap
<1>1. ListInv => RowsOwnHeap
  <2> SUFFICES ASSUME ListInv PROVE RowsOwnHeap
    OBVIOUS
  <2>1. CASE DOMAIN node = {} /\ status # "ready"
    BY <2>1 DEF ListInv, RowsOwnHeap, Rows
  <2>2. CASE status = "ready"
    <3>1. PICK c \in Seq(Node) : \E S : Shape(c, S)
      BY <2>2 DEF ListInv, Ready
    <3>2. PICK S : Shape(c, S)
      BY <3>1
    <3>3. DOMAIN node = {HeadNode} \cup {c[i] : i \in 1 .. Len(c)}
      BY <3>2 DEF Shape, Listed
    <3>4. \A i \in 1 .. Len(c) : c[i] # HeadNode
      BY <3>2, ShapeFacts
    <3>5. heap = {node[c[i]].row : i \in 1 .. Len(c)}
      BY <3>2 DEF Shape, Owned
    <3>6. \A i, j \in 1 .. Len(c) : node[c[i]].row = node[c[j]].row => i = j
      BY <3>2 DEF Shape, Owned
    <3>7. DOMAIN node \ {HeadNode} = {c[i] : i \in 1 .. Len(c)}
      BY <3>3, <3>4
    <3>8. heap = Rows
      BY <3>5, <3>7 DEF Rows
    <3>9. \A m, n \in DOMAIN node \ {HeadNode} : node[m].row = node[n].row => m = n
      BY <3>6, <3>7
    <3> QED
      BY <2>2, <3>8, <3>9 DEF RowsOwnHeap
  <2> QED
    BY <2>1, <2>2 DEF ListInv
<1> QED
  BY <1>1, InvAlways, PTL

\* Level 0 is the list of all nodes in key order and each level a sublist of it; in a
\* primary index the keys are distinct and a level has all the nodes as tall as it.
THEOREM LevelsAlwaysSublists == Spec => []LevelsAreSublists
<1>1. ListInv => LevelsAreSublists
  <2> SUFFICES ASSUME ListInv, status = "ready" PROVE LevelsAreSublists
    BY DEF LevelsAreSublists
  <2>1. PICK c \in Seq(Node) : \E S : Shape(c, S)
    BY DEF ListInv, Ready
  <2>2. PICK S : Shape(c, S)
    BY <2>1
  <2> DEFINE level0 == Chain(0)
  <2>3. level0 = c
    BY <2>2, EntriesIs DEF EntriesRule
  <2>9. \A l \in Levels : \A s : Enumerates(s, S[l]) => Chain(l) = [i \in 1 .. Len(s) |-> c[s[i]]]
    BY <2>2, LevelIs DEF LevelRule
  <2>4. DOMAIN c = 1 .. Len(c) /\ Len(c) \in Nat
    OBVIOUS
  <2>5. DOMAIN node \ {HeadNode} = {c[i] : i \in 1 .. Len(c)}
    <3>1. DOMAIN node = {HeadNode} \cup {c[i] : i \in 1 .. Len(c)}
      BY <2>2 DEF Shape, Listed
    <3>2. \A i \in 1 .. Len(c) : c[i] # HeadNode
      BY <2>2, ShapeFacts
    <3> QED
      BY <3>1, <3>2
  <2> HIDE DEF level0
  <2>6. \A i \in 1 .. Len(level0) - 1 :
          IF primary THEN node[level0[i]].key < node[level0[i + 1]].key
                     ELSE node[level0[i]].key <= node[level0[i + 1]].key
    <3> TAKE i \in 1 .. Len(level0) - 1
    <3>1. i \in 1 .. Len(c) /\ i + 1 \in 1 .. Len(c) /\ i < i + 1
      BY <2>3, <2>4
    <3> QED
      BY <2>2, <2>3, <3>1 DEF Shape, Sorted, KeyAt
  <2>7. ASSUME NEW l \in Levels
        PROVE  LET path == Chain(l)
                   nodes == {path[i] : i \in DOMAIN path}
                   tall == {n \in DOMAIN node \ {HeadNode} : node[n].height > l}
               IN  /\ \A i \in 1 .. Len(path) - 1 :
                        \E x, y \in DOMAIN level0 :
                          x < y /\ level0[x] = path[i] /\ level0[y] = path[i + 1]
                   /\ IF primary THEN nodes = tall ELSE nodes \subseteq tall
    <3>1. S[l] \in SUBSET (1 .. Len(c))
      BY <2>2, ShapeFacts
    <3>2. PICK s : Enumerates(s, S[l])
      BY <2>4, <3>1, EnumerationExists
    <3>3. Chain(l) = [i \in 1 .. Len(s) |-> c[s[i]]]
      BY <2>9, <3>2
    <3>4. /\ Len(s) \in Nat /\ \A i \in 1 .. Len(s) : s[i] \in S[l] /\ s[i] \in 1 .. Len(c)
          /\ \A a \in S[l] : \E i \in 1 .. Len(s) : s[i] = a
          /\ \A i, j \in 1 .. Len(s) : i < j => s[i] < s[j]
      BY <2>4, <3>1, <3>2, EnumerationNext DEF Enumerates
    <3> DEFINE path == Chain(l)
    <3>6. /\ DOMAIN path = 1 .. Len(s) /\ Len(path) = Len(s)
          /\ \A i \in 1 .. Len(s) : path[i] = c[s[i]]
      BY <3>3, <3>4
    <3> HIDE DEF path
    <3>7. ASSUME NEW i \in 1 .. Len(path) - 1
          PROVE  \E x, y \in DOMAIN level0 :
                   x < y /\ level0[x] = path[i] /\ level0[y] = path[i + 1]
      <4>1. i \in 1 .. Len(s) /\ i + 1 \in 1 .. Len(s) /\ i < i + 1
        BY <3>4, <3>6
      <4> QED
        BY <2>3, <2>4, <3>4, <3>6, <4>1
    <3>8. {path[i] : i \in DOMAIN path} = {c[x] : x \in S[l]}
      <4>1. \A i \in DOMAIN path : \E x \in S[l] : path[i] = c[x]
        BY <3>4, <3>6
      <4>2. \A x \in S[l] : \E i \in DOMAIN path : path[i] = c[x]
        <5> TAKE x \in S[l]
        <5>1. PICK i \in 1 .. Len(s) : s[i] = x
          BY <3>4
        <5>2. i \in DOMAIN path /\ path[i] = c[x]
          BY <3>6, <5>1
        <5> QED
          BY <5>2
      <4> QED
        BY <4>1, <4>2
    <3>9. \A x \in 1 .. Len(c) : /\ x \in S[l] => node[c[x]].height > l
                                 /\ primary /\ node[c[x]].height > l => x \in S[l]
      BY <2>2 DEF Shape, Heights
    <3>10. /\ {c[x] : x \in S[l]} \subseteq {n \in DOMAIN node \ {HeadNode} : node[n].height > l}
           /\ primary => {n \in DOMAIN node \ {HeadNode} : node[n].height > l}
                           \subseteq {c[x] : x \in S[l]}
      BY <2>5, <3>1, <3>9
    <3> QED
      BY <3>7, <3>8, <3>10 DEF path
  <2>8. {level0[i] : i \in DOMAIN level0} = DOMAIN node \ {HeadNode}
    BY <2>3, <2>4, <2>5
  <2> QED
    BY <2>6, <2>7, <2>8, Zenon DEF LevelsAreSublists, level0
<1> QED
  BY <1>1, InvAlways, PTL

\* The widths that insert and remove repair are the distances that validate recomputes.
THEOREM WidthsAlwaysExact == Spec => []WidthsExact
<1>1. ListInv => WidthsExact
  <2> SUFFICES ASSUME ListInv, status = "ready" PROVE WidthsExact
    BY DEF WidthsExact
  <2>1. PICK c \in Seq(Node) : \E S : Shape(c, S)
    BY DEF ListInv, Ready
  <2>2. PICK S : Shape(c, S)
    BY <2>1
  <2> DEFINE level0 == Chain(0)
             pos == [n \in DOMAIN node |-> IF n = HeadNode THEN 0 ELSE
                                              CHOOSE i \in DOMAIN level0 : level0[i] = n]
  <2>3. level0 = c
    BY <2>2, EntriesIs DEF EntriesRule
  <2>9. \A l \in Levels : \A s : Enumerates(s, S[l]) => Chain(l) = [i \in 1 .. Len(s) |-> c[s[i]]]
    BY <2>2, LevelIs DEF LevelRule
  <2>4. DOMAIN c = 1 .. Len(c) /\ Len(c) \in Nat
    OBVIOUS
  <2> HIDE DEF level0
  <2>6. pos[HeadNode] = 0 /\ \A i \in 1 .. Len(c) : pos[c[i]] = i
    <3>1. HeadNode \in DOMAIN node /\ \A i, j \in 1 .. Len(c) : c[i] = c[j] => i = j
      BY <2>2 DEF Shape, Listed
    <3>2. \A i \in 1 .. Len(c) : c[i] \in DOMAIN node /\ c[i] # HeadNode
      BY <2>2, ShapeFacts
    <3>3. ASSUME NEW i \in 1 .. Len(c) PROVE (CHOOSE x \in DOMAIN level0 : level0[x] = c[i]) = i
      BY <2>3, <2>4, <3>1
    <3> QED
      BY <3>1, <3>2, <3>3
  <2> HIDE DEF pos
  <2>7. ASSUME NEW l \in Levels
        PROVE  LET path == <<HeadNode>> \o Chain(l)
               IN  \A i \in DOMAIN path :
                     node[path[i]].width[l] =
                       (IF i < Len(path) THEN pos[path[i + 1]] ELSE Len(level0)) - pos[path[i]]
    <3>1. S[l] \in SUBSET (1 .. Len(c))
      BY <2>2, ShapeFacts
    <3>2. PICK s : Enumerates(s, S[l])
      BY <2>4, <3>1, EnumerationExists
    <3>3. Chain(l) = [i \in 1 .. Len(s) |-> c[s[i]]]
      BY <2>9, <3>2
    <3>4. /\ Len(s) \in Nat /\ \A i \in 1 .. Len(s) : s[i] \in S[l] /\ s[i] \in 1 .. Len(c)
          /\ \A i \in 1 .. Len(s) :
               NextIn(S[l], Len(c), s[i], IF i = Len(s) THEN Len(c) + 1 ELSE s[i + 1])
          /\ NextIn(S[l], Len(c), 0, IF s = <<>> THEN Len(c) + 1 ELSE s[1])
      BY <2>4, <3>1, <3>2, EnumerationNext
    <3>5. s = <<>> <=> Len(s) = 0
      BY <3>2 DEF Enumerates
    <3>6. PICK tail : tail = Chain(l)
      OBVIOUS
    <3>7. tail \in Seq(Node) /\ Len(tail) = Len(s) /\ \A i \in 1 .. Len(s) : tail[i] = c[s[i]]
      <4>1. \A i \in 1 .. Len(s) : c[s[i]] \in Node
        BY <3>4
      <4> QED
        BY <3>3, <3>4, <3>6, <4>1
    <3>8. PICK head : head = <<HeadNode>>
      OBVIOUS
    <3>9. head \in Seq(Node \cup {HeadNode}) /\ Len(head) = 1 /\ head[1] = HeadNode
      BY <3>8
    <3>10. PICK path : path = head \o tail
      OBVIOUS
    <3>11. /\ DOMAIN path = 1 .. Len(s) + 1 /\ Len(path) = Len(s) + 1
           /\ path[1] = HeadNode
           /\ \A i \in 1 .. Len(s) : path[i + 1] = c[s[i]]
      <4> PICK X : X = Node \cup {HeadNode}
        OBVIOUS
      <4>1. tail \in Seq(X) /\ head \in Seq(X)
        <5>1. \A i \in 1 .. Len(tail) : tail[i] \in X
          BY <3>7
        <5>2. tail \in Seq(X)
          BY <3>7, <5>1
        <5> QED
          BY <3>9, <5>2
      <4>2. /\ path \in Seq(X) /\ Len(path) = Len(head) + Len(tail)
            /\ \A i \in 1 .. Len(path) :
                 path[i] = IF i <= Len(head) THEN head[i] ELSE tail[i - Len(head)]
        <5>1. /\ head \o tail \in Seq(X) /\ Len(head \o tail) = Len(head) + Len(tail)
              /\ \A i \in 1 .. Len(head) + Len(tail) :
                   (head \o tail)[i] = IF i <= Len(head) THEN head[i] ELSE tail[i - Len(head)]
          BY <4>1, ConcatProperties
        <5> QED
          BY <3>10, <5>1
      <4>3. Len(path) = Len(s) + 1 /\ DOMAIN path = 1 .. Len(s) + 1
        BY <3>4, <3>7, <3>9, <4>2
      <4>4. \A i \in 1 .. Len(s) + 1 : path[i] = IF i <= 1 THEN head[i] ELSE tail[i - 1]
        BY <3>9, <4>2, <4>3
      <4>5. path[1] = HeadNode
        BY <3>4, <3>9, <4>4
      <4>6. \A i \in 1 .. Len(s) : path[i + 1] = c[s[i]]
        <5> TAKE i \in 1 .. Len(s)
        <5>1. i + 1 \in 1 .. Len(s) + 1 /\ ~(i + 1 <= 1) /\ (i + 1) - 1 = i
          BY <3>4
        <5> QED
          BY <3>7, <4>4, <5>1
      <4> QED
        BY <4>3, <4>5, <4>6
    <3>12. \A x \in S[l] \cup {0}, y \in 1 .. Len(c) + 1 : NextIn(S[l], Len(c), x, y) =>
             node[At(c, x)].width[l] = (IF y = Len(c) + 1 THEN Len(c) ELSE y) - x
      BY <2>2 DEF Shape, Linked
    <3>13. ASSUME NEW i \in 1 .. Len(s) + 1
           PROVE  node[path[i]].width[l] =
                    (IF i < Len(path) THEN pos[path[i + 1]] ELSE Len(level0)) - pos[path[i]]
      <4>1. PICK x : x = IF i = 1 THEN 0 ELSE s[i - 1]
        OBVIOUS
      <4>2. PICK y : y = IF i = Len(s) + 1 THEN Len(c) + 1 ELSE s[i]
        OBVIOUS
      <4>3. /\ x \in S[l] \cup {0} /\ path[i] = At(c, x) /\ pos[path[i]] = x
            /\ NextIn(S[l], Len(c), x, y)
        <5>1. CASE i = 1
          <6>1. x = 0 /\ path[i] = HeadNode
            BY <3>11, <4>1, <5>1
          <6>2. y = IF s = <<>> THEN Len(c) + 1 ELSE s[1]
            BY <3>4, <3>5, <4>2, <5>1
          <6> QED
            BY <2>6, <3>4, <6>1, <6>2 DEF At
        <5>2. CASE i # 1
          <6>1. i - 1 \in 1 .. Len(s) /\ x = s[i - 1] /\ (i - 1) + 1 = i
            BY <3>4, <4>1, <5>2
          <6>2. x \in S[l] /\ x \in 1 .. Len(c) /\ path[i] = c[x] /\ x # 0
            BY <3>4, <3>11, <6>1
          <6>3. y = IF i - 1 = Len(s) THEN Len(c) + 1 ELSE s[(i - 1) + 1]
            BY <3>4, <4>2, <6>1
          <6>4. NextIn(S[l], Len(c), x, y)
            BY <3>4, <6>1, <6>3
          <6> QED
            BY <2>6, <6>2, <6>4 DEF At
        <5> QED
          BY <5>1, <5>2
      <4>4. y \in 1 .. Len(c) + 1
        <5>1. CASE i = Len(s) + 1
          BY <2>4, <4>2, <5>1
        <5>2. CASE i # Len(s) + 1
          <6>1. i \in 1 .. Len(s) /\ y = s[i]
            BY <3>4, <4>2, <5>2
          <6> QED
            BY <2>4, <3>4, <6>1
        <5> QED
          BY <5>1, <5>2
      <4>5. node[path[i]].width[l] = (IF y = Len(c) + 1 THEN Len(c) ELSE y) - pos[path[i]]
        BY <3>12, <4>3, <4>4
      <4>6. (IF i < Len(path) THEN pos[path[i + 1]] ELSE Len(c))
              = IF y = Len(c) + 1 THEN Len(c) ELSE y
        <5>1. CASE i = Len(s) + 1
          <6>1. ~(i < Len(path)) /\ y = Len(c) + 1
            BY <3>4, <3>11, <4>2, <5>1
          <6> QED
            BY <6>1
        <5>2. CASE i # Len(s) + 1
          <6>1. i \in 1 .. Len(s) /\ i < Len(path) /\ y = s[i]
            BY <3>4, <3>11, <4>2, <5>2
          <6>2. y \in 1 .. Len(c) /\ path[i + 1] = c[y]
            BY <3>4, <3>11, <6>1
          <6>3. y # Len(c) + 1
            BY <2>4, <6>2
          <6> QED
            BY <2>6, <6>1, <6>2, <6>3
        <5> QED
          BY <5>1, <5>2
      <4> QED
        BY <2>3, <4>5, <4>6
    <3> QED
      BY <3>6, <3>8, <3>10, <3>11, <3>13
  <2> QED
    BY <2>7, Zenon DEF WidthsExact, level0, pos
<1> QED
  BY <1>1, InvAlways, PTL
-----------------------------------------------------------------------------
(* Scans: what each call leaves of the nodes an iterator may stand on.     *)

KeySet == {node[n].key : n \in DOMAIN node \ {HeadNode}}

\* x is the first node whose key is not below low.
FirstAt(x, low) ==
  /\ x \in (DOMAIN node \ {HeadNode}) \cup {Null}
  /\ x # Null => node[x].key >= low
  /\ \A k \in KeySet : k >= low => x # Null /\ k >= node[x].key

\* x is the node behind n.
Behinds(n, x) ==
  /\ x \in (DOMAIN node \ {HeadNode}) \cup {Null}
  /\ x = Null => \A k \in KeySet : k <= node[n].key
  /\ x # Null => /\ node[n].key < node[x].key
                 /\ \A k \in KeySet : k <= node[n].key \/ k >= node[x].key

LEMMA KeysAre == status = "ready" /\ Ready => Keys = KeySet
<1> SUFFICES ASSUME status = "ready", Ready PROVE Keys = KeySet
  OBVIOUS
<1>1. PICK c \in Seq(Node) : \E S : Shape(c, S)
  BY DEF Ready
<1>2. PICK S : Shape(c, S)
  BY <1>1
<1>3. Chain(0) = c
  BY <1>2, EntriesIs DEF EntriesRule
<1>4. DOMAIN c = 1 .. Len(c)
  OBVIOUS
<1>5. Keys = {node[c[i]].key : i \in 1 .. Len(c)}
  BY <1>3, <1>4 DEF Keys
<1>6. DOMAIN node \ {HeadNode} = {c[i] : i \in 1 .. Len(c)}
  <2>1. DOMAIN node = {HeadNode} \cup {c[i] : i \in 1 .. Len(c)}
    BY <1>2 DEF Shape, Listed
  <2>2. \A i \in 1 .. Len(c) : c[i] # HeadNode
    BY <1>2, ShapeFacts
  <2> QED
    BY <2>1, <2>2
<1> QED
  BY <1>5, <1>6 DEF KeySet

\* The nodes are those of the list, and the keys of a primary index ascend.
LEMMA ListFacts ==
  ASSUME NEW c \in Seq(Node), NEW S, Shape(c, S), primary
  PROVE  /\ Len(c) \in Nat
         /\ \A i \in 1 .. Len(c) : c[i] \in DOMAIN node \ {HeadNode} /\ c[i] # Null
                                   /\ node[c[i]].key \in Int
         /\ \A n \in DOMAIN node \ {HeadNode} : \E i \in 1 .. Len(c) : c[i] = n
         /\ \A k \in KeySet : \E i \in 1 .. Len(c) : node[c[i]].key = k
         /\ \A i, j \in 1 .. Len(c) : i < j => node[c[i]].key < node[c[j]].key
         /\ node[HeadNode].next[0] = IF Len(c) = 0 THEN Null ELSE c[1]
         /\ \A i \in 1 .. Len(c) : node[c[i]].next[0] = IF i = Len(c) THEN Null ELSE c[i + 1]
<1>1. /\ Len(c) \in Nat /\ 0 \in Levels
      /\ \A i \in 1 .. Len(c) : c[i] \in DOMAIN node \ {HeadNode} /\ c[i] # Null
                                /\ node[c[i]].key \in Int
  BY ShapeFacts DEF KeyAt
<1>2. \A n \in DOMAIN node \ {HeadNode} : \E i \in 1 .. Len(c) : c[i] = n
  BY DEF Shape, Listed
<1>3. \A k \in KeySet : \E i \in 1 .. Len(c) : node[c[i]].key = k
  BY <1>2 DEF KeySet
<1>4. \A i, j \in 1 .. Len(c) : i < j => node[c[i]].key < node[c[j]].key
  BY DEF Shape, Sorted, KeyAt
<1>5. S[0] = 1 .. Len(c)
  BY DEF Shape, LevelSets
<1>6. ASSUME NEW i \in 0 .. Len(c)
      PROVE  node[At(c, i)].next[0] = IF i = Len(c) THEN Null ELSE c[i + 1]
  <2>1. NextIn(S[0], Len(c), i, i + 1) /\ i \in S[0] \cup {0} /\ i + 1 \in 1 .. Len(c) + 1
    BY <1>1, <1>5 DEF NextIn
  <2>2. node[At(c, i)].next[0] = IF i + 1 = Len(c) + 1 THEN Null ELSE c[i + 1]
    BY <1>1, <2>1 DEF Shape, Linked
  <2> QED
    BY <1>1, <2>2
<1>7. node[HeadNode].next[0] = IF Len(c) = 0 THEN Null ELSE c[1]
  <2>1. 0 \in 0 .. Len(c) /\ At(c, 0) = HeadNode
    BY <1>1 DEF At
  <2> QED
    BY <1>6, <2>1
<1>8. ASSUME NEW i \in 1 .. Len(c)
      PROVE  node[c[i]].next[0] = IF i = Len(c) THEN Null ELSE c[i + 1]
  <2>1. i \in 0 .. Len(c) /\ At(c, i) = c[i]
    BY <1>1 DEF At
  <2> QED
    BY <1>6, <2>1
<1> QED
  BY <1>1, <1>2, <1>3, <1>4, <1>7, <1>8

LEMMA NextBehind ==
  ASSUME Ready, primary, NEW n \in DOMAIN node \ {HeadNode}
  PROVE  Behinds(n, node[n].next[0])
<1>1. PICK c \in Seq(Node) : \E S : Shape(c, S)
  BY DEF Ready
<1>2. PICK S : Shape(c, S)
  BY <1>1
<1>3. /\ Len(c) \in Nat
      /\ \A i \in 1 .. Len(c) : c[i] \in DOMAIN node \ {HeadNode} /\ c[i] # Null
                                /\ node[c[i]].key \in Int
      /\ \A x \in DOMAIN node \ {HeadNode} : \E i \in 1 .. Len(c) : c[i] = x
      /\ \A k \in KeySet : \E i \in 1 .. Len(c) : node[c[i]].key = k
      /\ \A i, j \in 1 .. Len(c) : i < j => node[c[i]].key < node[c[j]].key
      /\ \A i \in 1 .. Len(c) : node[c[i]].next[0] = IF i = Len(c) THEN Null ELSE c[i + 1]
  BY <1>2, ListFacts
<1>4. PICK q \in 1 .. Len(c) : c[q] = n
  BY <1>3
<1>5. CASE q = Len(c)
  <2>1. node[n].next[0] = Null
    BY <1>3, <1>4, <1>5
  <2>2. ASSUME NEW k \in KeySet PROVE k <= node[n].key
    <3>1. PICK i \in 1 .. Len(c) : node[c[i]].key = k
      BY <1>3
    <3>2. i = q \/ i < q
      BY <1>3, <1>5
    <3>3. node[c[i]].key <= node[c[q]].key
      BY <1>3, <3>2
    <3> QED
      BY <1>4, <3>1, <3>3
  <2> QED
    BY <2>1, <2>2 DEF Behinds
<1>6. CASE q # Len(c)
  <2>1. q + 1 \in 1 .. Len(c) /\ node[n].next[0] = c[q + 1]
    BY <1>3, <1>4, <1>6
  <2>2. node[n].key < node[c[q + 1]].key
    BY <1>3, <1>4, <2>1
  <2>3. ASSUME NEW k \in KeySet PROVE k <= node[n].key \/ k >= node[c[q + 1]].key
    <3>1. PICK i \in 1 .. Len(c) : node[c[i]].key = k
      BY <1>3
    <3>2. i <= q \/ q + 1 <= i
      OBVIOUS
    <3>3. CASE i <= q
      <4>1. i = q \/ i < q
        BY <3>3
      <4>2. node[c[i]].key <= node[c[q]].key
        BY <1>3, <4>1
      <4> QED
        BY <1>4, <3>1, <4>2
    <3>4. CASE q + 1 <= i
      <4>1. i = q + 1 \/ q + 1 < i
        BY <3>4
      <4>2. node[c[i]].key >= node[c[q + 1]].key
        BY <1>3, <2>1, <4>1
      <4> QED
        BY <3>1, <4>2
    <3> QED
      BY <3>2, <3>3, <3>4
  <2>4. c[q + 1] \in DOMAIN node \ {HeadNode} /\ c[q + 1] # Null
    BY <1>3, <2>1
  <2> QED
    BY <2>1, <2>2, <2>3, <2>4 DEF Behinds
<1> QED
  BY <1>5, <1>6

\* The nodes the two kinds of scan begin with.
LEMMA ScanStarts ==
  ASSUME Ready, primary, status = "ready"
  PROVE  /\ LowestKey \in Key /\ FirstAt(node[HeadNode].next[0], LowestKey)
         /\ \A low \in Key : FirstAt(SeekNode(low), low)
<1>1. PICK c \in Seq(Node) : \E S : Shape(c, S)
  BY DEF Ready
<1>2. PICK S : Shape(c, S)
  BY <1>1
<1>3. /\ Len(c) \in Nat
      /\ \A i \in 1 .. Len(c) : c[i] \in DOMAIN node \ {HeadNode} /\ c[i] # Null
                                /\ node[c[i]].key \in Int
      /\ \A k \in KeySet : \E i \in 1 .. Len(c) : node[c[i]].key = k
      /\ \A i, j \in 1 .. Len(c) : i < j => node[c[i]].key < node[c[j]].key
      /\ node[HeadNode].next[0] = IF Len(c) = 0 THEN Null ELSE c[1]
  BY <1>2, ListFacts
<1>4. ASSUME NEW q \in 1 .. Len(c), NEW low \in Int, node[c[q]].key >= low,
             \A i \in 1 .. Len(c) : i < q => node[c[i]].key < low
      PROVE  FirstAt(c[q], low)
  <2>1. ASSUME NEW k \in KeySet, k >= low PROVE k >= node[c[q]].key
    <3>1. PICK i \in 1 .. Len(c) : node[c[i]].key = k
      BY <1>3
    <3>2. node[c[i]].key \in Int
      BY <1>3
    <3>3. ~(i < q)
      BY <1>4, <2>1, <3>1, <3>2
    <3>4. i = q \/ q < i
      BY <3>3
    <3>5. node[c[i]].key >= node[c[q]].key
      BY <1>3, <3>4
    <3> QED
      BY <3>1, <3>5
  <2> QED
    BY <1>3, <1>4, <2>1 DEF FirstAt
<1>5. ASSUME NEW low \in Int, \A i \in 1 .. Len(c) : node[c[i]].key < low
      PROVE  FirstAt(Null, low)
  <2>1. ASSUME NEW k \in KeySet PROVE ~(k >= low)
    <3>1. PICK i \in 1 .. Len(c) : node[c[i]].key = k
      BY <1>3
    <3>2. node[c[i]].key \in Int /\ node[c[i]].key < low
      BY <1>3, <1>5
    <3> QED
      BY <3>1, <3>2
  <2> QED
    BY <2>1 DEF FirstAt
<1>6. LowestKey \in Key /\ \A k \in Key : LowestKey <= k
  BY ScanAssumption DEF LowestKey
<1>7. FirstAt(node[HeadNode].next[0], LowestKey)
  <2>1. LowestKey \in Int
    BY <1>6, KeyAssumption
  <2>2. CASE Len(c) = 0
    BY <1>3, <1>5, <2>1, <2>2
  <2>3. CASE Len(c) # 0
    <3>1. 1 \in 1 .. Len(c) /\ node[HeadNode].next[0] = c[1]
      BY <1>3, <2>3
    <3>2. node[c[1]].key \in Key
      BY <1>2, <3>1, ShapeFacts DEF KeyAt
    <3>3. node[c[1]].key >= LowestKey
      BY <1>3, <1>6, <2>1, <3>1, <3>2
    <3>4. \A i \in 1 .. Len(c) : ~(i < 1)
      OBVIOUS
    <3> QED
      BY <1>4, <2>1, <3>1, <3>3, <3>4
  <2> QED
    BY <2>2, <2>3
<1>8. ASSUME NEW low \in Key PROVE FirstAt(SeekNode(low), low)
  <2>1. low \in Int
    BY KeyAssumption
  <2>2. PICK b, j : Search(c, S, low, b, j)
    BY <1>2, <2>1, SearchExists
  <2>3. /\ Index!Holding(low) = {} =>
             SeekNode(low) = IF b[0] + 1 = Len(c) + 1 THEN Null ELSE c[b[0] + 1]
        /\ Index!Holding(low) # {} => \E i \in Index!Holding(low) : SeekNode(low) = c[i]
    BY <1>2, <2>2, LookupFacts
  <2>4. Index!Holding(low) = {i \in 1 .. Len(c) : node[c[i]].key = low}
    BY <1>2, EntryFacts DEF KeyAt
  <2>5. b[0] \in 0 .. Len(c) /\ \A i \in 1 .. Len(c) : i <= b[0] <=> node[c[i]].key < low
    <3>1. Stops(c, S, low, b)
      BY <2>2 DEF Search
    <3>2. 0 \in Levels
      BY <1>2, ShapeFacts
    <3> QED
      BY <1>2, <2>1, <3>1, <3>2, StopFacts DEF KeyAt
  <2>6. CASE Index!Holding(low) # {}
    <3>1. PICK i \in 1 .. Len(c) : node[c[i]].key = low /\ SeekNode(low) = c[i]
      BY <2>3, <2>4, <2>6
    <3>2. node[c[i]].key >= low /\ \A x \in 1 .. Len(c) : x < i => node[c[x]].key < low
      BY <1>3, <2>1, <3>1
    <3> QED
      BY <1>4, <2>1, <3>1, <3>2
  <2>7. CASE Index!Holding(low) = {} /\ b[0] = Len(c)
    <3>1. SeekNode(low) = Null
      BY <1>3, <2>3, <2>7
    <3>2. \A i \in 1 .. Len(c) : node[c[i]].key < low
      BY <2>5, <2>7
    <3> QED
      BY <1>5, <2>1, <3>1, <3>2
  <2>8. CASE Index!Holding(low) = {} /\ b[0] # Len(c)
    <3>1. PICK q : q = b[0] + 1
      OBVIOUS
    <3>2. q \in 1 .. Len(c) /\ SeekNode(low) = c[q] /\ ~(q <= b[0])
      BY <1>3, <2>3, <2>5, <2>8, <3>1
    <3>3. \A i \in 1 .. Len(c) : i < q => node[c[i]].key < low
      BY <2>5, <3>1
    <3>4. node[c[q]].key >= low
      BY <1>3, <2>1, <2>5, <3>2
    <3> QED
      BY <1>4, <2>1, <3>2, <3>3, <3>4
  <2> QED
    BY <2>6, <2>7, <2>8
<1> QED
  BY <1>6, <1>7, <1>8

\* An insert or an update takes no node away and changes no key.
LEMMA WritesKeep ==
  ASSUME Ready, status = "ready", NEW k \in Key, NEW d \in Buf,
         Update(k, d) \/ \E h \in 1 .. MaxNodeHeight : Insert(k, d, h)
  PROVE  \A m \in DOMAIN node : m \in DOMAIN node' /\ node'[m].key = node[m].key
<1>1. PICK c \in Seq(Node) : \E S : Shape(c, S)
  BY DEF Ready
<1>2. PICK S : Shape(c, S)
  BY <1>1
<1>3. k \in Int
  BY KeyAssumption
<1>4. CASE Update(k, d)
  <2>1. node' = node \/ node' = [node EXCEPT ![FindNode(k)].row = d]
    BY <1>4 DEF Update
  <2>2. ASSUME NEW m \in DOMAIN node PROVE [node[m] EXCEPT !.row = d].key = node[m].key
    <3>1. node[m] = [key |-> node[m].key, height |-> node[m].height, row |-> node[m].row,
                     next |-> node[m].next, width |-> node[m].width]
      BY <1>2, NodeFacts
    <3> QED
      BY <3>1
  <2> QED
    BY <2>1, <2>2
<1>5. ASSUME NEW h \in 1 .. MaxNodeHeight, Insert(k, d, h)
      PROVE  \A m \in DOMAIN node : m \in DOMAIN node' /\ node'[m].key = node[m].key
  <2>1. node' = node \/ \E n \in Node \ DOMAIN node : node' = WithNode(n, k, h, d)
    BY <1>5 DEF Insert
  <2>2. ASSUME NEW n \in Node \ DOMAIN node, node' = WithNode(n, k, h, d)
        PROVE  \A m \in DOMAIN node : m \in DOMAIN node' /\ node'[m].key = node[m].key
    <3>1. PICK b, j : Search(c, S, k, b, j)
      BY <1>2, <1>3, SearchExists
    <3>2. PICK M : M = WithNode(n, k, h, d)
      OBVIOUS
    <3>3. LinkedIn(M, c, b, j, k, d, n, h)
      BY <1>2, <3>1, <3>2, InsertNodes
    <3> QED
      BY <2>2, <3>2, <3>3 DEF LinkedIn
  <2> QED
    BY <2>1, <2>2
<1> QED
  BY <1>4, <1>5

\* A remove takes a node with the key away, if any.
LEMMA RemoveKeeps ==
  ASSUME Ready, status = "ready", NEW k \in Key, Remove(k)
  PROVE  /\ HeadNode \in DOMAIN node'
         /\ DOMAIN node' \subseteq DOMAIN node
         /\ \A m \in DOMAIN node : IF m \in DOMAIN node' THEN node'[m].key = node[m].key
                                                         ELSE node[m].key = k
<1>1. PICK c \in Seq(Node) : \E S : Shape(c, S)
  BY DEF Ready
<1>2. PICK S : Shape(c, S)
  BY <1>1
<1>3. k \in Int /\ HeadNode \in DOMAIN node
  BY <1>2, KeyAssumption DEF Shape, Listed
<1>4. CASE Hits(Traverse(k), k) = {}
  <2>1. node' = node
    BY <1>4 DEF Remove
  <2> QED
    BY <1>3, <2>1
<1>5. CASE Hits(Traverse(k), k) # {}
  <2>1. PICK b, j : Search(c, S, k, b, j)
    BY <1>2, <1>3, SearchExists
  <2>2. PICK M : M = WithoutNode(k)
    OBVIOUS
  <2>3. node' = M
    BY <1>5, <2>2 DEF Remove
  <2>4. CutFrom(M, c, b, j, k)
    BY <1>2, <1>5, <2>1, <2>2, RemoveNodes
  <2>5. /\ DOMAIN M = DOMAIN node \ {c[j[0]]}
        /\ \A m \in DOMAIN M : M[m].key = node[m].key
    BY <2>4 DEF CutFrom
  <2>6. /\ 0 \in Levels /\ Len(c) \in Nat
        /\ \A i \in 1 .. Len(c) : KeyAt(c, i) \in Int /\ c[i] # HeadNode
    BY <1>2, ShapeFacts
  <2>7. /\ \A l \in Levels : /\ j[l] \in 1 .. Len(c) + 1
                             /\ j[l] # Len(c) + 1 => KeyAt(c, j[l]) >= k
                             /\ j[0] <= j[l]
        /\ Hits(Traverse(k), k) = {l \in Levels : j[l] # Len(c) + 1 /\ KeyAt(c, j[l]) = k}
    <3>1. \A l \in Levels : 0 <= l
      BY DEF Levels
    <3> QED
      BY <1>2, <1>3, <2>1, <2>6, <3>1, SearchFacts
  <2>8. PICK l \in Levels : j[l] # Len(c) + 1 /\ KeyAt(c, j[l]) = k
    BY <1>5, <2>7
  <2>9. j[0] \in 1 .. Len(c) /\ j[l] \in 1 .. Len(c) /\ (j[0] = j[l] \/ j[0] < j[l])
        /\ KeyAt(c, j[0]) >= k
    BY <2>6, <2>7, <2>8
  <2>10. KeyAt(c, j[0]) <= KeyAt(c, j[l])
    BY <1>2, <2>6, <2>9 DEF Shape, Sorted
  <2>11. KeyAt(c, j[0]) = k /\ c[j[0]] # HeadNode
    BY <1>3, <2>6, <2>8, <2>9, <2>10
  <2> QED
    BY <1>3, <2>3, <2>5, <2>11 DEF KeyAt
<1> QED
  BY <1>4, <1>5
-----------------------------------------------------------------------------
(* The invariant of a scan.  The keys it must read are still held; those   *)
(* behind the iterator were read, and those read are behind the iterator.  *)

OnTrack ==
  /\ status = "ready"
  /\ \E low \in Key, end \in Key \cup {NoEnd} : range = [low |-> low, end |-> end]
  /\ must \subseteq KeySet
  /\ \A k \in must : InRange(k, range)
  /\ \A i \in 1 .. Len(seen) - 1 : seen[i] < seen[i + 1]
  /\ \A k \in SeenKeys : InRange(k, range)
  /\ at = Null => must \subseteq SeenKeys
  /\ at \in DOMAIN node => /\ InRange(node[at].key, range)
                           /\ \A k \in SeenKeys : k < node[at].key
                           /\ {k \in must : k < node[at].key} \subseteq SeenKeys

Pointing == /\ at \in (DOMAIN node \ {HeadNode}) \cup {Null, Freed}
            /\ must \subseteq Key /\ seen \in Seq(Key)
            /\ fault \in {"none", "null", "freed"}

ScanInv == /\ ListInv /\ primary /\ status \in {"new", "ready"}
           /\ Pointing
           /\ range = <<>> => at = Null /\ seen = <<>>
           /\ range # <<>> => OnTrack

\* A scan that was opened is not one that was not.
LEMMA Opened == ASSUME NEW low, NEW end PROVE [low |-> low, end |-> end] # <<>>
<1>1. "low" \in DOMAIN [low |-> low, end |-> end]
  OBVIOUS
<1>2. DOMAIN <<>> = {}
  OBVIOUS
<1> QED
  BY <1>1, <1>2

\* What holds of the nodes in a state a scan can be in.
ScanNodesRule ==
  ListInv /\ status = "ready" =>
    /\ Ready
    /\ KeySet \subseteq Key
    /\ \A n \in DOMAIN node \ {HeadNode} : node[n].key \in KeySet
    /\ Null \notin DOMAIN node /\ Freed \notin DOMAIN node /\ Null # Freed

LEMMA ScanNodes == ScanNodesRule
<1> SUFFICES ASSUME ListInv, status = "ready"
             PROVE  /\ Ready
                    /\ KeySet \subseteq Key
                    /\ \A n \in DOMAIN node \ {HeadNode} : node[n].key \in KeySet
                    /\ Null \notin DOMAIN node /\ Freed \notin DOMAIN node /\ Null # Freed
  BY DEF ScanNodesRule
<1>1. Ready
  BY DEF ListInv
<1>2. TypeOK
  BY InvType
<1>3. DOMAIN node \subseteq Node \cup {HeadNode}
      /\ \A n \in DOMAIN node \ {HeadNode} : node[n].key \in Key
  BY <1>2 DEF TypeOK
<1>4. Null \notin DOMAIN node /\ Freed \notin DOMAIN node /\ Null # Freed
  BY <1>3, NodeAssumption, ScanAssumption
<1> QED
  BY <1>1, <1>3, <1>4 DEF KeySet

\* An iterator that opens on the first node not below the range passes over nothing.
LEMMA OpenOnTrack ==
  ASSUME ScanInv, NEW n, NEW low \in Key, NEW end \in Key \cup {NoEnd},
         Open(n, [low |-> low, end |-> end]), FirstAt(n, low)
  PROVE  Pointing' /\ OnTrack'
<1> DEFINE r == [low |-> low, end |-> end]
<1>1. /\ status = "ready" /\ range' = r /\ UNCHANGED vars
      /\ seen' = <<>> /\ Rest(n, end)
      /\ must' = {k \in Keys : InRange(k, r)}
  BY DEF Open, Running, ScanInv
<1>2. /\ Ready /\ KeySet \subseteq Key
      /\ Null \notin DOMAIN node /\ Freed \notin DOMAIN node
      /\ \A m \in DOMAIN node \ {HeadNode} : node[m].key \in KeySet
  BY <1>1, ScanNodes DEF ScanInv, ScanNodesRule
<1>3. must' = {k \in KeySet : k >= low /\ (end # NoEnd => k <= end)}
  BY <1>1, <1>2, KeysAre DEF InRange
<1>4. low \in Int /\ (end # NoEnd => end \in Int) /\ \A k \in KeySet : k \in Int
  BY <1>2, KeyAssumption
<1>5. node' = node /\ status' = status
  BY <1>1 DEF vars
<1>6. KeySet' = KeySet
  BY <1>5 DEF KeySet
<1>7. SeenKeys' = {}
  BY <1>1 DEF SeenKeys
<1>8. /\ at' = Null \/ at' = n
      /\ n # Null /\ at' = n => (end # NoEnd => node[n].key <= end)
      /\ n # Null /\ at' # n => at' = Null /\ end # NoEnd /\ node[n].key > end
      /\ fault' \in {"none", "null"}
  <2>1. n # Null => node[n].key \in Int
    BY <1>2, <1>4 DEF FirstAt
  <2> QED
    BY <1>1, <1>4, <2>1 DEF Rest, PastEnd
<1>9. n \in (DOMAIN node \ {HeadNode}) \cup {Null} /\ (n # Null => node[n].key >= low)
  BY DEF FirstAt
<1>10. Pointing'
  BY <1>1, <1>2, <1>3, <1>5, <1>8, <1>9 DEF Pointing
<1>11. at' = Null => must' = {}
  <2> SUFFICES ASSUME at' = Null, NEW k \in KeySet, k >= low, end # NoEnd => k <= end
               PROVE  FALSE
    BY <1>3
  <2>1. n # Null /\ k >= node[n].key
    BY DEF FirstAt
  <2>2. end # NoEnd /\ node[n].key > end /\ node[n].key \in Int
    BY <1>2, <1>4, <1>8, <1>9, <2>1
  <2> QED
    BY <1>4, <2>1, <2>2
<1>12. at' \in DOMAIN node => /\ InRange(node[at'].key, r)
                              /\ \A k \in must' : ~(k < node[at'].key)
  <2> SUFFICES ASSUME at' \in DOMAIN node
               PROVE  InRange(node[n].key, r) /\ \A k \in must' : ~(k < node[n].key)
    BY <1>2, <1>8
  <2>1. at' = n /\ n # Null
    BY <1>2, <1>8
  <2>2. InRange(node[n].key, r)
    BY <1>8, <1>9, <2>1 DEF InRange
  <2>3. \A k \in must' : k >= node[n].key
    BY <1>3 DEF FirstAt
  <2>4. node[n].key \in Int
    BY <1>2, <1>4, <1>9, <2>1
  <2> QED
    BY <1>3, <1>4, <2>2, <2>3, <2>4
<1>13. \A k \in must' : InRange(k, r)
  BY <1>1
<1>14. \A i \in 1 .. Len(seen') - 1 : seen'[i] < seen'[i + 1]
  BY <1>1
<1>15. \E lo \in Key, en \in Key \cup {NoEnd} : range' = [low |-> lo, end |-> en]
  BY <1>1
<1> QED
  BY <1>1, <1>3, <1>5, <1>6, <1>7, <1>10, <1>11, <1>12, <1>13, <1>14, <1>15
  DEF OnTrack, InRange

\* A turn reads the node the iterator stands on, and nothing lies between it and the
\* next one.
LEMMA TurnOnTrack ==
  ASSUME ScanInv, Turn
  PROVE  Pointing' /\ OnTrack'
<1>1. /\ status = "ready" /\ range # <<>> /\ at # Null
      /\ UNCHANGED <<vars, range, must>> /\ OnTrack /\ Pointing /\ primary
  BY DEF Turn, Running, ScanInv
<1>2. /\ Ready /\ KeySet \subseteq Key
      /\ Null \notin DOMAIN node /\ Freed \notin DOMAIN node /\ Null # Freed
      /\ \A m \in DOMAIN node \ {HeadNode} : node[m].key \in KeySet
  BY <1>1, ScanNodes DEF ScanInv, ScanNodesRule
<1>3. node' = node /\ status' = status /\ range' = range /\ must' = must
  BY <1>1 DEF vars
<1>4. KeySet' = KeySet
  BY <1>3 DEF KeySet
<1>5. CASE at = Freed
  <2>1. at' = at /\ seen' = seen /\ fault' = "freed"
    BY <1>5 DEF Turn
  <2>2. SeenKeys' = SeenKeys
    BY <2>1 DEF SeenKeys
  <2> QED
    BY <1>1, <1>3, <1>4, <2>1, <2>2 DEF OnTrack, Pointing, InRange
<1>6. CASE at # Freed
  <2>1. at \in DOMAIN node \ {HeadNode}
    BY <1>1, <1>6 DEF Pointing
  <2>2. PICK n : n = node[at].next[0]
    OBVIOUS
  <2>3. PICK v : v = node[at].key
    OBVIOUS
  <2>4. seen' = Append(seen, v) /\ Rest(n, range.end)
    BY <1>6, <2>2, <2>3 DEF Turn
  <2>5. Behinds(at, n)
    BY <1>1, <1>2, <2>1, <2>2, NextBehind
  <2>6. PICK low \in Key, end \in Key \cup {NoEnd} : range = [low |-> low, end |-> end]
    BY <1>1 DEF OnTrack
  <2>7. range.low = low /\ range.end = end
    BY <2>6
  <2>8. \A k : InRange(k, range) <=> k >= low /\ (end # NoEnd => k <= end)
    BY <2>7 DEF InRange
  <2>9. low \in Int /\ (end # NoEnd => end \in Int) /\ \A k \in KeySet : k \in Int
    BY <1>2, KeyAssumption
  <2>10. v \in KeySet /\ v \in Key /\ v \in Int
    BY <1>2, <2>1, <2>3, <2>9
  <2>11. /\ n \in (DOMAIN node \ {HeadNode}) \cup {Null}
         /\ n = Null => \A k \in KeySet : k <= v
         /\ n # Null => v < node[n].key /\ \A k \in KeySet : k <= v \/ k >= node[n].key
    BY <2>3, <2>5 DEF Behinds
  <2>12. n # Null => node[n].key \in KeySet /\ node[n].key \in Int
    BY <1>2, <2>9, <2>11
  <2>13. /\ at' = Null \/ at' = n
         /\ n # Null /\ at' = n => (end # NoEnd => node[n].key <= end)
         /\ n # Null /\ at' # n => at' = Null /\ end # NoEnd /\ node[n].key > end
         /\ fault' \in {"none", "null"}
    BY <2>4, <2>7, <2>9, <2>12 DEF Rest, PastEnd
  <2>14. seen \in Seq(Key) /\ Len(seen) \in Nat
    BY <1>1 DEF Pointing
  <2>15. SeenKeys' = SeenKeys \cup {v}
    <3>1. DOMAIN seen = 1 .. Len(seen) /\ DOMAIN seen' = 1 .. Len(seen) + 1
          /\ seen'[Len(seen) + 1] = v /\ \A i \in 1 .. Len(seen) : seen'[i] = seen[i]
      BY <2>4, <2>10, <2>14
    <3>2. \A i \in 1 .. Len(seen) + 1 : i \in 1 .. Len(seen) \/ i = Len(seen) + 1
      BY <2>14
    <3>3. 1 .. Len(seen) \subseteq 1 .. Len(seen) + 1 /\ Len(seen) + 1 \in 1 .. Len(seen) + 1
      BY <2>14
    <3>4. SeenKeys' = {seen'[i] : i \in 1 .. Len(seen) + 1} /\ SeenKeys = {seen[i] : i \in 1 .. Len(seen)}
      BY <3>1 DEF SeenKeys
    <3> QED
      BY <3>1, <3>2, <3>3, <3>4
  <2>16. /\ InRange(v, range)
         /\ \A k \in SeenKeys : k < v
         /\ \A k \in must : k < v => k \in SeenKeys
    BY <1>1, <2>1, <2>3 DEF OnTrack
  <2>17. Pointing'
    BY <1>1, <1>3, <2>4, <2>10, <2>11, <2>13, <2>14 DEF Pointing
  <2>18. \A i \in 1 .. Len(seen') - 1 : seen'[i] < seen'[i + 1]
    <3>1. Len(seen') = Len(seen) + 1 /\ seen'[Len(seen) + 1] = v
          /\ \A i \in 1 .. Len(seen) : seen'[i] = seen[i] /\ seen[i] \in SeenKeys
      BY <2>4, <2>10, <2>14 DEF SeenKeys
    <3> SUFFICES ASSUME NEW i \in 1 .. Len(seen) PROVE seen'[i] < seen'[i + 1]
      BY <2>14, <3>1
    <3>2. CASE i = Len(seen)
      <4>1. seen'[i + 1] = v /\ seen'[i] \in SeenKeys
        BY <3>1, <3>2
      <4> QED
        BY <2>16, <4>1
    <3>3. CASE i # Len(seen)
      <4>1. i \in 1 .. Len(seen) - 1 /\ i + 1 \in 1 .. Len(seen)
        BY <2>14, <3>3
      <4>2. seen[i] < seen[i + 1]
        BY <1>1, <4>1 DEF OnTrack
      <4> QED
        BY <3>1, <4>1, <4>2
    <3> QED
      BY <3>2, <3>3
  <2>19. \A k \in SeenKeys' : InRange(k, range)
    BY <1>1, <2>15, <2>16 DEF OnTrack
  <2>20. \A k \in must : k \in KeySet /\ k \in Int /\ InRange(k, range)
    BY <1>1, <2>9 DEF OnTrack
  <2>21. ASSUME at' = Null PROVE must \subseteq SeenKeys'
    <3> SUFFICES ASSUME NEW k \in must PROVE k <= v
      BY <2>10, <2>15, <2>16, <2>20
    <3>1. CASE n = Null
      BY <2>11, <2>20, <3>1
    <3>2. CASE n # Null
      <4>1. end # NoEnd /\ node[n].key > end
        BY <1>2, <2>11, <2>13, <2>21, <3>2
      <4>2. k <= end
        BY <2>8, <2>20, <4>1
      <4>3. ~(k >= node[n].key)
        BY <2>9, <2>12, <2>20, <3>2, <4>1, <4>2
      <4> QED
        BY <2>11, <2>20, <3>2, <4>3
    <3> QED
      BY <3>1, <3>2
  <2>22. ASSUME at' \in DOMAIN node
         PROVE  /\ InRange(node[at'].key, range)
                /\ \A k \in SeenKeys' : k < node[at'].key
                /\ {k \in must : k < node[at'].key} \subseteq SeenKeys'
    <3>1. at' = n /\ n # Null
      BY <1>2, <2>13, <2>22
    <3>2. PICK w \in Int : w = node[n].key /\ w = node[at'].key
      BY <2>12, <3>1
    <3>3. v < w /\ \A k \in KeySet : k <= v \/ k >= w
      BY <2>11, <3>1, <3>2
    <3>4. InRange(w, range)
      <4>1. v >= low
        BY <2>8, <2>16
      <4>2. end # NoEnd => w <= end
        BY <2>13, <3>1, <3>2
      <4>3. w >= low
        BY <2>9, <2>10, <3>3, <4>1
      <4> QED
        BY <2>8, <4>2, <4>3
    <3>5. \A k \in SeenKeys' : k < w
      <4>1. \A k \in SeenKeys : k \in Int
        <5>1. \A i \in DOMAIN seen : seen[i] \in Key
          BY <2>14
        <5> QED
          BY <5>1, KeyAssumption DEF SeenKeys
      <4> QED
        BY <2>10, <2>15, <2>16, <3>3, <4>1
    <3>6. \A k \in must : k < w => k \in SeenKeys'
      <4> SUFFICES ASSUME NEW k \in must, k < w PROVE k \in SeenKeys'
        OBVIOUS
      <4>1. k <= v
        BY <2>20, <3>3
      <4> QED
        BY <2>10, <2>15, <2>16, <2>20, <4>1
    <3> QED
      BY <3>2, <3>4, <3>5, <3>6
  <2>23. must \subseteq KeySet /\ \A k \in must : InRange(k, range)
    BY <1>1 DEF OnTrack
  <2>24. \E lo \in Key, en \in Key \cup {NoEnd} : range = [low |-> lo, end |-> en]
    BY <2>6
  <2> QED
    BY <1>1, <1>3, <1>4, <2>17, <2>18, <2>19, <2>21, <2>22, <2>23, <2>24 DEF OnTrack, InRange
<1> QED
  BY <1>5, <1>6

\* Inserts and updates behind, before or under the iterator disturb nothing.
LEMMA WriteOnTrack ==
  ASSUME ScanInv, status = "ready", NEW k \in Key, NEW d \in Buf,
         Update(k, d) \/ \E h \in 1 .. MaxNodeHeight : Insert(k, d, h),
         ListInv', UNCHANGED scanVars
  PROVE  Pointing' /\ (range # <<>> => OnTrack')
<1>1. /\ at' = at /\ range' = range /\ seen' = seen /\ must' = must /\ fault' = fault
  BY DEF scanVars
<1>2. status' = status
  BY DEF Update, Insert
<1>3. \A m \in DOMAIN node : m \in DOMAIN node' /\ node'[m].key = node[m].key
  BY ScanNodes, WritesKeep DEF ScanInv, ScanNodesRule
<1>4. HeadNode \in DOMAIN node /\ Null \notin DOMAIN node /\ Freed \notin DOMAIN node
  BY ScanNodes DEF ScanNodesRule, ScanInv, ListInv, Ready, Shape, Listed
<1>5. (Null \notin DOMAIN node /\ Freed \notin DOMAIN node)'
  <2>1. ScanNodesRule'
    BY ScanNodes, PTL
  <2> QED
    BY <1>2, <2>1 DEF ScanNodesRule
<1>6. KeySet \subseteq KeySet'
  BY <1>3 DEF KeySet
<1>7. SeenKeys' = SeenKeys
  BY <1>1 DEF SeenKeys
<1>8. Pointing'
  BY <1>1, <1>3 DEF ScanInv, Pointing
<1>9. ASSUME OnTrack PROVE OnTrack'
  <2>1. at' \in DOMAIN node' => at \in DOMAIN node /\ node'[at'].key = node[at].key
    BY <1>1, <1>3, <1>5 DEF ScanInv, Pointing
  <2> QED
    BY <1>1, <1>2, <1>6, <1>7, <1>9, <2>1 DEF OnTrack, InRange
<1> QED
  BY <1>8, <1>9 DEF ScanInv

\* A remove takes its key out of what the scan must read, and leaves the iterator
\* where it was or on a freed node.
LEMMA RemoveOnTrack ==
  ASSUME ScanInv, NEW k \in Key, ScanRemove(k), ListInv'
  PROVE  Pointing' /\ (range # <<>> => OnTrack')
<1>1. /\ status = "ready" /\ Remove(k) /\ must' = must \ {k}
      /\ range' = range /\ seen' = seen /\ fault' = fault
      /\ at' = IF at \in DOMAIN node /\ at \notin DOMAIN node' THEN Freed ELSE at
  BY DEF ScanRemove, Running
<1>2. status' = status
  BY <1>1 DEF Remove
<1>3. /\ HeadNode \in DOMAIN node'
      /\ DOMAIN node' \subseteq DOMAIN node
      /\ \A m \in DOMAIN node : IF m \in DOMAIN node' THEN node'[m].key = node[m].key
                                                      ELSE node[m].key = k
  BY <1>1, ScanNodes, RemoveKeeps DEF ScanInv, ScanNodesRule
<1>4. Null \notin DOMAIN node /\ Freed \notin DOMAIN node /\ Null # Freed
  BY <1>1, ScanNodes DEF ScanInv, ScanNodesRule
<1>5. KeySet \ {k} \subseteq KeySet'
  <2> SUFFICES ASSUME NEW m \in DOMAIN node \ {HeadNode}, node[m].key # k
               PROVE  node[m].key \in KeySet'
    BY DEF KeySet
  <2>1. m \in DOMAIN node' \ {HeadNode} /\ node'[m].key = node[m].key
    BY <1>3
  <2> QED
    BY <2>1 DEF KeySet
<1>6. SeenKeys' = SeenKeys
  BY <1>1 DEF SeenKeys
<1>7. Pointing'
  BY <1>1, <1>3 DEF ScanInv, Pointing
<1>8. ASSUME OnTrack PROVE OnTrack'
  <2>1. /\ at' = Null => at = Null
        /\ at' \in DOMAIN node' => at \in DOMAIN node /\ node'[at'].key = node[at].key
    BY <1>1, <1>3, <1>4
  <2> QED
    BY <1>1, <1>2, <1>5, <1>6, <1>8, <2>1 DEF OnTrack, InRange
<1> QED
  BY <1>7, <1>8 DEF ScanInv

\* Every call of the scan and of its owner keeps the scan's invariant.
LEMMA EveryScanStep == ScanInv /\ [ScanNext]_allVars => ScanInv'
<1> SUFFICES ASSUME ScanInv, [ScanNext]_allVars PROVE ScanInv'
  OBVIOUS
<1>1. [Next]_vars
  BY DEF ScanNext, allVars, Next, Scan, RangeScan, Open, Turn, ScanInsert, ScanUpdate, ScanRemove
<1>2. ListInv'
  BY <1>1, EveryCall DEF ScanInv
<1>3. CASE UNCHANGED allVars
  <2>1. /\ node' = node /\ status' = status /\ primary' = primary
        /\ at' = at /\ range' = range /\ seen' = seen /\ must' = must /\ fault' = fault
    BY <1>3 DEF allVars, scanVars, vars
  <2>2. KeySet' = KeySet /\ SeenKeys' = SeenKeys
    BY <2>1 DEF KeySet, SeenKeys
  <2> QED
    BY <1>2, <2>1, <2>2 DEF ScanInv, Pointing, OnTrack, InRange
<1>4. CASE Initialize /\ UNCHANGED scanVars
  <2>1. /\ status = "new" /\ status' = "ready" /\ primary' = primary /\ DOMAIN node = {}
        /\ at' = at /\ range' = range /\ seen' = seen /\ must' = must /\ fault' = fault
    BY <1>4 DEF Initialize, scanVars, ScanInv, ListInv
  <2>2. range = <<>> /\ at = Null
    BY <2>1 DEF ScanInv, OnTrack
  <2> QED
    BY <1>2, <2>1, <2>2 DEF ScanInv, Pointing
<1>5. ASSUME NEW n, NEW low \in Key, NEW end \in Key \cup {NoEnd},
             Open(n, [low |-> low, end |-> end]), FirstAt(n, low)
      PROVE  ScanInv'
  <2>1. Pointing' /\ OnTrack'
    BY <1>5, OpenOnTrack
  <2>2. primary' = primary /\ status' = status /\ status = "ready"
        /\ range' = [low |-> low, end |-> end]
    BY <1>5 DEF Open, Running, vars
  <2>3. range' # <<>>
    BY <2>2, Opened
  <2> QED
    BY <1>2, <2>1, <2>2, <2>3 DEF ScanInv
<1>6. CASE Scan
  <2>1. status = "ready"
    BY <1>6 DEF Scan, Open, Running
  <2>2. LowestKey \in Key /\ FirstAt(node[HeadNode].next[0], LowestKey)
    BY <2>1, ScanNodes, ScanStarts DEF ScanInv, ScanNodesRule
  <2> QED
    BY <1>5, <1>6, <2>2 DEF Scan
<1>7. ASSUME NEW low \in Key, NEW end \in Key, RangeScan(low, end) PROVE ScanInv'
  <2>1. status = "ready"
    BY <1>7 DEF RangeScan, Open, Running
  <2>2. FirstAt(SeekNode(low), low)
    BY <2>1, ScanNodes, ScanStarts DEF ScanInv, ScanNodesRule
  <2> QED
    BY <1>5, <1>7, <2>2 DEF RangeScan
<1>8. CASE Turn
  <2>1. primary' = primary /\ status' = status /\ range' = range /\ range # <<>>
    BY <1>8 DEF Turn, vars
  <2>2. Pointing' /\ OnTrack'
    BY <1>8, TurnOnTrack
  <2> QED
    BY <1>2, <2>1, <2>2 DEF ScanInv
<1>9. ASSUME NEW k \in Key, NEW d \in Buf, UNCHANGED scanVars, status = "ready",
             Update(k, d) \/ \E h \in 1 .. MaxNodeHeight : Insert(k, d, h)
      PROVE  ScanInv'
  <2>1. Pointing' /\ (range # <<>> => OnTrack')
    BY <1>2, <1>9, WriteOnTrack
  <2>2. primary' = primary /\ status' = status
    BY <1>9 DEF Update, Insert
  <2>3. at' = at /\ range' = range /\ seen' = seen
    BY <1>9 DEF scanVars
  <2> QED
    BY <1>2, <2>1, <2>2, <2>3 DEF ScanInv
<1>10. ASSUME NEW k \in Key, ScanRemove(k) PROVE ScanInv'
  <2>1. Pointing' /\ (range # <<>> => OnTrack')
    BY <1>2, <1>10, RemoveOnTrack
  <2>2. primary' = primary /\ status' = status /\ range' = range /\ seen' = seen
    BY <1>10 DEF ScanRemove, Remove
  <2>3. range = <<>> => at' = Null
    <3>1. status = "ready"
      BY <1>10 DEF ScanRemove, Running
    <3>2. Null \notin DOMAIN node
      BY <3>1, ScanNodes DEF ScanInv, ScanNodesRule
    <3> QED
      BY <1>10, <3>2 DEF ScanRemove, ScanInv
  <2> QED
    BY <1>2, <2>1, <2>2, <2>3 DEF ScanInv
<1>11. ASSUME NEW k \in Key, NEW d \in Buf, NEW h \in 1 .. MaxNodeHeight, ScanInsert(k, d, h)
       PROVE  ScanInv'
  BY <1>9, <1>11 DEF ScanInsert, Running
<1>12. ASSUME NEW k \in Key, NEW d \in Buf, ScanUpdate(k, d) PROVE ScanInv'
  BY <1>9, <1>12 DEF ScanUpdate, Running
<1> QED
  BY <1>3, <1>4, <1>6, <1>7, <1>8, <1>10, <1>11, <1>12 DEF ScanNext

LEMMA ScanInvInit == ScanInit => ScanInv
<1> SUFFICES ASSUME ScanInit PROVE ScanInv
  OBVIOUS
<1>1. ListInv
  BY InitInv DEF ScanInit
<1> QED
  BY <1>1 DEF ScanInit, Init, ScanInv, Pointing

LEMMA ScanInvAlways == ScanSpec => []ScanInv
  BY ScanInvInit, EveryScanStep, PTL DEF ScanSpec

\* The pointer of an open scan is null, freed, or an allocated node, whatever the owner
\* of the scan does to the index between two turns of the loop.
THEOREM ScanTypeAlwaysOK == ScanSpec => []ScanTypeOK
<1>1. ScanInv => ScanTypeOK
  <2> SUFFICES ASSUME ScanInv PROVE ScanTypeOK
    OBVIOUS
  <2>1. TypeOK
    BY InvType DEF ScanInv
  <2>2. \A i \in DOMAIN seen : seen[i] \in Key
    BY DEF ScanInv, Pointing
  <2>3. SeenKeys \subseteq Key
    BY <2>2 DEF SeenKeys
  <2> QED
    BY <2>1, <2>3 DEF ScanInv, Pointing, ScanTypeOK
<1> QED
  BY <1>1, ScanInvAlways, PTL

\* A scan reads the keys of its range in ascending order and passes over none that the
\* index held from its opening until now.
THEOREM ScanAlwaysComplete == ScanSpec => []ScanComplete
<1>1. ScanInv => ScanComplete
  BY DEF ScanInv, OnTrack, ScanComplete
<1> QED
  BY <1>1, ScanInvAlways, PTL
=============================================================================
