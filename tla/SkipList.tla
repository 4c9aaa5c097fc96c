------------------------------- MODULE SkipList -------------------------------
(***************************************************************************)
(* core/SkipList.cxx, pointer by pointer: the nodes, their next and width  *)
(* arrays, the size counter and the data buffers the index owns.           *)
(*                                                                         *)
(* Every call is one action: the index has no lock and the README leaves   *)
(* multi-threaded support to come, so calls do not overlap.  A call on an  *)
(* index that is not initialized throws and changes nothing; it has no     *)
(* action.  The Transaction* a call may carry is modelled in               *)
(* TableTransactions.                                                      *)
(***************************************************************************)
EXTENDS Integers, FiniteSets, Sequences

CONSTANTS Node,           \* addresses the allocator may return for a node
          HeadNode, Null,     \* m_head and nullptr
          Key,            \* keys, std::int32_t
          Buf,            \* data buffers
          MaxNodeHeight   \* m_maxNodeHeight

ASSUME HeightAssumption == MaxNodeHeight \in Nat \ {0}
ASSUME KeyAssumption == Key \subseteq Int
ASSUME NodeAssumption == HeadNode \notin Node /\ Null \notin Node \cup {HeadNode}

VARIABLES primary, \* m_primaryIndex, fixed when the index is made
          status,  \* "new" until initialize(), "destroyed" after ~SkipList
          node,    \* the allocated nodes
          size,    \* m_size
          heap,    \* the data buffers the index owns
          ret      \* <<the last call, its result>>

vars == <<primary, status, node, size, heap, ret>>

Levels == 0 .. MaxNodeHeight - 1

\* A node as SkipListNode's constructor leaves it.
NewNode(k, h, b) == [key |-> k, height |-> h, row |-> b,
                     next |-> [l \in 0 .. h - 1 |-> Null],
                     width |-> [l \in 0 .. h - 1 |-> 0]]
-----------------------------------------------------------------------------
(* Searching.                                                              *)

\* The nodes with a pointer on level l.
Tall(l) == {n \in DOMAIN node : node[n].height > l}

\* The inner loop on level l: from each node, where it ends and the widths on the way.
Walk(k, l) ==
  LET walk[n \in Tall(l)] ==
        LET nx == node[n].next[l]
        IN  IF nx # Null /\ k > node[nx].key
              THEN [walk[nx] EXCEPT !.rank = @ + node[n].width[l]]
              ELSE [prev |-> n, rank |-> 0]
  IN  walk

\* traversePrevNodes: on every level the last node below k, and its rank.
Traverse(k) ==
  LET context[l \in Levels] ==
        LET above == IF l = MaxNodeHeight - 1 THEN [prev |-> HeadNode, rank |-> 0]
                                              ELSE context[l + 1]
        IN  [Walk(k, l)[above.prev] EXCEPT !.rank = @ + above.rank]
  IN  [l \in Levels |-> context[l]]

\* The node that follows on level l the node the traversal stopped at.
After(context, l) == node[context[l].prev].next[l]

\* The levels on which the traversal meets k.
Hits(context, k) ==
  {l \in Levels : After(context, l) # Null /\ node[After(context, l)].key = k}

Highest(S) == CHOOSE x \in S : \A y \in S : y <= x

\* findNode: the traversal, left at the first level that meets k.
FindNode(k) == LET context == Traverse(k)
                   hits == Hits(context, k)
               IN  IF hits = {} THEN Null ELSE After(context, Highest(hits))

\* A search that gives up instead of falling through to level 0.
SeekFallsShort(k) == FindNode(k)

\* seek: as findNode, with what follows on level 0 when no level meets k.
SeekNode(k) == LET context == Traverse(k)
                   hits == Hits(context, k)
               IN  IF hits = {} THEN After(context, 0)
                                ELSE After(context, Highest(hits))

EstimateRange(low, high) ==
  IF low > high THEN 0 ELSE Traverse(high)[0].rank - Traverse(low)[0].rank
-----------------------------------------------------------------------------
(* Inserting.                                                              *)

Rejects(context, k) == primary /\ Hits(context, k) # {}

\* The loop stops one level early, but for a node of height 1.
LinkedBelowTop(h) == IF h = 1 THEN {0} ELSE 0 .. h - 2

LinkedLevels(h) == 0 .. h - 1

\* The loop over the levels above the new node is missing.
ForgottenWidth(w) == w

WidthAbove(w) == w + 1

\* What is left of the previous node's width w for the new node.
InsertWidth(w, distance) == IF w = 0 THEN 0 ELSE w - distance

\* The nodes once n, new, is linked in behind the traversal.
WithNode(n, k, h, b) ==
  LET context == Traverse(k)
      distance(l) == context[0].rank - context[l].rank
      oldWidth(l) == node[context[l].prev].width[l]
      new == [NewNode(k, h, b) EXCEPT
                !.next = [l \in DOMAIN @ |-> After(context, l)],
                !.width = [l \in DOMAIN @ |-> InsertWidth(oldWidth(l), distance(l))]]
      relinked(m) == [node[m] EXCEPT
                !.next = [l \in DOMAIN @ |->
                            IF context[l].prev = m /\ l \in LinkedLevels(h)
                              THEN n ELSE @[l]],
                !.width = [l \in DOMAIN @ |->
                            IF context[l].prev # m THEN @[l]
                            ELSE IF l < h THEN distance(l) + 1 ELSE WidthAbove(@[l])]]
  IN  [m \in DOMAIN node \cup {n} |-> IF m = n THEN new ELSE relinked(m)]
-----------------------------------------------------------------------------
(* Removing.  With duplicate keys the levels may meet different nodes, and *)
(* the assertion of line 187 says they do not; a build with NDEBUG unlinks *)
(* each from its level and frees the one met last, on level 0.             *)

RemoveTargets(k) == LET context == Traverse(k)
                    IN  {After(context, l) : l \in Hits(context, k)}

\* The width of a node that is passed over shrinks twice.
NarrowedTwice(w) == w - 2

NarrowedWidth(w) == w - 1

JoinedWidth(w, removed) == (w + removed) - 1

WithoutNode(k) ==
  LET context == Traverse(k)
      hits == Hits(context, k)
      unlinked(m) == [node[m] EXCEPT
        !.next = [l \in DOMAIN @ |->
                    IF l \in hits /\ context[l].prev = m
                      THEN node[After(context, l)].next[l]
                    ELSE IF l \in hits /\ After(context, l) = m THEN Null
                    ELSE @[l]],
        !.width = [l \in DOMAIN @ |->
                    IF context[l].prev # m THEN @[l]
                    ELSE IF l \in hits
                           THEN JoinedWidth(@[l], node[After(context, l)].width[l])
                           ELSE NarrowedWidth(@[l])]]
  IN  [m \in DOMAIN node \ {After(context, 0)} |-> unlinked(m)]
-----------------------------------------------------------------------------
Rows == {node[n].row : n \in DOMAIN node \ {HeadNode}}

\* The nodes of level l in list order, the head left out.
Chain(l) ==
  LET follow[n \in Node \cup {Null}] ==
        IF n \in DOMAIN node /\ node[n].height > l
          THEN <<n>> \o follow[node[n].next[l]] ELSE <<>>
  IN  IF status = "ready" THEN follow[node[HeadNode].next[l]] ELSE <<>>

Init == /\ primary \in BOOLEAN
        /\ status = "new"
        /\ node = [n \in {} |-> Null]
        /\ size = 0
        /\ heap = {}
        /\ ret = <<"none", Null>>

Initialize == /\ status = "new"
              /\ status' = "ready"
              /\ node' = [n \in {HeadNode} |-> NewNode(0, MaxNodeHeight, Null)]
              /\ UNCHANGED <<primary, size, heap, ret>>

\* A height the caller names, or the one generateNodeHeight draws.
Insert(k, b, h) ==
  /\ status = "ready"
  /\ b \notin heap
  /\ UNCHANGED <<primary, status>>
  /\ \/ /\ Rejects(Traverse(k), k)
        /\ ret' = <<"insert", FALSE>>
        /\ UNCHANGED <<node, size, heap>>
     \/ /\ ~Rejects(Traverse(k), k)
        /\ \E n \in Node \ DOMAIN node : node' = WithNode(n, k, h, b)
        /\ heap' = heap \cup {b}
        /\ size' = size + 1
        /\ ret' = <<"insert", TRUE>>

\* The data of the removed row is not freed.
FreesNoData(n) == {}

FreedWith(n) == {node[n].row}

Remove(k) ==
  /\ status = "ready"
  /\ UNCHANGED <<primary, status>>
  /\ LET context == Traverse(k)
     IN  \/ /\ Hits(context, k) = {}
            /\ ret' = <<"remove", FALSE>>
            /\ UNCHANGED <<node, size, heap>>
         \/ /\ Hits(context, k) # {}
            /\ node' = WithoutNode(k)
            /\ heap' = heap \ FreedWith(After(context, 0))
            /\ size' = size - 1
            /\ ret' = <<"remove", TRUE>>

Update(k, b) ==
  /\ status = "ready"
  /\ b \notin heap
  /\ UNCHANGED <<primary, status, size>>
  /\ LET found == FindNode(k)
     IN  \/ /\ found = Null
            /\ ret' = <<"update", FALSE>>
            /\ UNCHANGED <<node, heap>>
         \/ /\ found # Null
            /\ node' = [node EXCEPT ![found].row = b]
            /\ heap' = (heap \ {node[found].row}) \cup {b}
            /\ ret' = <<"update", TRUE>>

\* A call that only reads answers r.
Answer(call, r) == /\ status = "ready"
                   /\ ret' = <<call, r>>
                   /\ UNCHANGED <<primary, status, node, size, heap>>

\* Where an iterator that starts at n stands.
Standing(n) == IF n = Null THEN Null ELSE [key |-> node[n].key, row |-> node[n].row]

Find(k) == LET found == FindNode(k)
           IN  Answer("find", IF found = Null THEN Null ELSE node[found].row)

Contains(k) == Answer("contains", FindNode(k) # Null)

Begin == Answer("begin", Standing(node[HeadNode].next[0]))

Seek(k) == Answer("seek", Standing(SeekNode(k)))

Size(calculate) == Answer("size", IF calculate THEN Len(Chain(0)) ELSE size)

Estimate(low, high) == Answer("estimate", EstimateRange(low, high))

\* ~SkipList frees the head, the nodes of level 0 and their data.
Destroy ==
  LET freed == {Chain(0)[i] : i \in DOMAIN Chain(0)}
  IN  /\ status = "ready"
      /\ status' = "destroyed"
      /\ node' = [n \in DOMAIN node \ (freed \cup {HeadNode}) |-> node[n]]
      /\ heap' = heap \ {node[n].row : n \in freed}
      /\ ret' = <<"destroy", Null>>
      /\ UNCHANGED <<primary, size>>

Next == \/ Initialize
        \/ \E k \in Key, b \in Buf, h \in 1 .. MaxNodeHeight : Insert(k, b, h)
        \/ \E k \in Key, b \in Buf : Update(k, b)
        \/ \E k \in Key : Remove(k) \/ Find(k) \/ Contains(k) \/ Seek(k)
        \/ \E low, high \in Key : Estimate(low, high)
        \/ \E calculate \in BOOLEAN : Size(calculate)
        \/ Begin
        \/ Destroy

Spec == Init /\ [][Next]_vars
-----------------------------------------------------------------------------
(* Properties.                                                             *)

\* Every node has one next pointer and one width per level of its height, no
\* next pointer dangles, no width went below zero (they are size_t), and the
\* counter is not negative.
TypeOK ==
  /\ status \in {"new", "ready", "destroyed"}
  /\ heap \subseteq Buf
  /\ size \in Nat
  /\ DOMAIN node \subseteq Node \cup {HeadNode}
  /\ \A n \in DOMAIN node :
       /\ node[n].height \in 1 .. MaxNodeHeight
       /\ n # HeadNode => node[n].key \in Key /\ node[n].row \in Buf
       /\ node[n].next \in [0 .. node[n].height - 1 -> (DOMAIN node \ {HeadNode}) \cup {Null}]
       /\ node[n].width \in [0 .. node[n].height - 1 -> Nat]

\* What SkipList::validate recomputes: on every level a node's width is the
\* number of level-0 steps to the next node of that level, and for the last
\* node of the level the number of nodes behind it.  Each insert and remove
\* repairs all levels, also those above the node it links.
WidthsExact ==
  LET level0 == Chain(0)
      pos == [n \in DOMAIN node |-> IF n = HeadNode THEN 0 ELSE
                                      CHOOSE i \in DOMAIN level0 : level0[i] = n]
  IN  status = "ready" =>
        \A l \in Levels :
          LET path == <<HeadNode>> \o Chain(l)
          IN  \A i \in DOMAIN path :
                node[path[i]].width[l] =
                  (IF i < Len(path) THEN pos[path[i + 1]] ELSE Len(level0)) - pos[path[i]]

\* Level 0 holds every allocated node in key order, and each level above is a
\* sublist of the one below in the same order.  In a primary index the keys are
\* distinct and a level holds exactly the nodes as tall as it; in a secondary
\* one, removing a duplicate may take a taller equal off the upper levels.
LevelsAreSublists ==
  LET level0 == Chain(0)
      keyAt(i) == node[level0[i]].key
      before(m, n) == \E i, j \in DOMAIN level0 : i < j /\ level0[i] = m /\ level0[j] = n
      nodes(path) == {path[i] : i \in DOMAIN path}
      tall(l) == {n \in DOMAIN node \ {HeadNode} : node[n].height > l}
      levelIs(l, path) ==
        /\ \A i \in 1 .. Len(path) - 1 : before(path[i], path[i + 1])
        /\ IF primary THEN nodes(path) = tall(l) ELSE nodes(path) \subseteq tall(l)
  IN  status = "ready" =>
        /\ nodes(level0) = DOMAIN node \ {HeadNode}
        /\ \A i \in 1 .. Len(level0) - 1 :
             IF primary THEN keyAt(i) < keyAt(i + 1) ELSE keyAt(i) <= keyAt(i + 1)
        /\ \A l \in Levels : levelIs(l, Chain(l))

\* The index owns exactly the data its rows point at, no two rows share data,
\* and nothing is left once it is destroyed: no leak, double free or dangling
\* row, however inserts, updates and removes (which free in place) follow one
\* another.  SkipList.cxx:32, "SKipList owns all nodes, keys, row infos, values".
RowsOwnHeap ==
  /\ heap = Rows
  /\ \A m, n \in DOMAIN node \ {HeadNode} : node[m].row = node[n].row => m = n
  /\ status = "destroyed" => DOMAIN node = {}

\* SkipList.cxx:187, assert((removeNode == nullptr) || (removeNode == next)):
\* all the levels on which remove meets a key meet it in the same node.
RemoveHitsOneNode ==
  status = "ready" => \A k \in Key : Cardinality(RemoveTargets(k)) <= 1

Entries == LET level0 == Chain(0)
           IN  [i \in DOMAIN level0 |-> Standing(level0[i])]

Index == INSTANCE OrderedIndex WITH entries <- Entries

\* The pointer structure implements the abstract index: every call returns what
\* OrderedIndex says it returns (find, contains, begin, seek, size both ways and
\* the range estimate computed from widths) and leaves the entries it says.
IndexSpec == Index!Spec
=============================================================================
