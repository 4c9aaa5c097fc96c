----------------------------- MODULE SkipListScan -----------------------------
(***************************************************************************)
(* A scan of a primary index while its owner goes on changing it:          *)
(* core/SkipListIterator.cxx driven by the loop of a table scan, "while    *)
(* (it->valid()) { read it->getKey(); it->next(); }".                      *)
(*                                                                         *)
(* An iterator holds a raw node pointer.  `at' is that pointer; it becomes *)
(* Freed when remove deletes the node (the allocator may hand the address  *)
(* out again, the node it named is gone).  Reading through a null or freed *)
(* pointer ends the program: `fault' names which it was.                   *)
(***************************************************************************)
EXTENDS SkipList

CONSTANTS NoEnd,   \* std::nullopt for m_endKey
          Freed    \* a pointer to a deleted node

\* std::int32_t has a least value.
ASSUME ScanAssumption == /\ Freed \notin Node \cup {HeadNode, Null}
                         /\ \E k \in Key : \A j \in Key : k <= j

VARIABLES at,      \* m_current
          range,   \* the [low, end] the scan was opened with, <<>> before
          seen,    \* the keys the loop has read, in order
          must,    \* history: keys of the range held ever since the scan began
          fault    \* "none", or how the program ended

scanVars == <<at, range, seen, must, fault>>
allVars == <<vars, scanVars>>

Keys == {node[Chain(0)[i]].key : i \in DOMAIN Chain(0)}

InRange(k, r) == k >= r.low /\ (r.end # NoEnd => k <= r.end)

\* A comparison that leaves the end key out.
PastOrAtEnd(k, end) == k >= end

PastEnd(k, end) == k > end

\* The iterator comes to rest on n: with an end key it looks at n's key first,
\* whether n is a node or not.
Rest(n, end) ==
  /\ at' = IF end = NoEnd \/ n = Null THEN n
           ELSE IF PastEnd(node[n].key, end) THEN Null ELSE n
  /\ fault' = IF end # NoEnd /\ n = Null THEN "null" ELSE "none"

\* Tables have primary indexes only (Table.cxx:290).
ScanInit == /\ Init /\ primary
            /\ at = Null /\ range = <<>> /\ seen = <<>> /\ must = {} /\ fault = "none"

Running == status = "ready" /\ fault = "none"

\* scan(), and rangeScan(startKey, endKey): construct the iterator.
Open(n, r) == /\ Running /\ range = <<>>
              /\ range' = r
              /\ must' = {k \in Keys : InRange(k, r)}
              /\ Rest(n, r.end)
              /\ UNCHANGED <<vars, seen>>

LowestKey == CHOOSE k \in Key : \A j \in Key : k <= j

\* begin() gives the head and not the node behind it.
ScanFromHead == Open(HeadNode, [low |-> LowestKey, end |-> NoEnd])

Scan == Open(node[HeadNode].next[0], [low |-> LowestKey, end |-> NoEnd])

RangeScan(low, end) == Open(SeekNode(low), [low |-> low, end |-> end])

\* One turn of the loop: valid(), getKey(), next().
Turn == /\ Running /\ range # <<>> /\ at # Null
        /\ IF at = Freed
             THEN fault' = "freed" /\ UNCHANGED <<at, seen>>
             ELSE /\ seen' = Append(seen, node[at].key)
                  /\ Rest(node[at].next[0], range.end)
        /\ UNCHANGED <<vars, range, must>>

\* The owner of the scan changes the index between two turns.
ScanInsert(k, b, h) == Running /\ Insert(k, b, h) /\ UNCHANGED scanVars

ScanUpdate(k, b) == Running /\ Update(k, b) /\ UNCHANGED scanVars

ScanRemove(k) == /\ Running /\ Remove(k)
                 /\ at' = IF at \in DOMAIN node /\ at \notin DOMAIN node' THEN Freed ELSE at
                 /\ must' = must \ {k}
                 /\ UNCHANGED <<range, seen, fault>>

ScanNext == \/ Initialize /\ UNCHANGED scanVars
            \/ Scan
            \/ \E low, end \in Key : RangeScan(low, end)
            \/ Turn
            \/ \E k \in Key, b \in Buf, h \in 1 .. MaxNodeHeight : ScanInsert(k, b, h)
            \/ \E k \in Key, b \in Buf : ScanUpdate(k, b)
            \/ \E k \in Key : ScanRemove(k)

ScanSpec == ScanInit /\ [][ScanNext]_allVars
-----------------------------------------------------------------------------
SeenKeys == {seen[i] : i \in DOMAIN seen}

\* The pointer of an open scan is null, freed, or an allocated node.
ScanTypeOK == /\ TypeOK
              /\ at \in (DOMAIN node \ {HeadNode}) \cup {Null, Freed}
              /\ must \subseteq Key /\ SeenKeys \subseteq Key
              /\ fault \in {"none", "null", "freed"}

\* A scan reads keys in ascending order and inside its range, and never passes
\* over a key that the index held from the opening of the scan until now, no
\* matter what was inserted, updated or removed between two turns of the loop;
\* a scan that has ended read all of those keys.
ScanComplete ==
  range # <<>> =>
    /\ \A i \in 1 .. Len(seen) - 1 : seen[i] < seen[i + 1]
    /\ \A k \in SeenKeys : InRange(k, range)
    /\ at = Null => must \subseteq SeenKeys
    /\ at \in DOMAIN node => {k \in must : k < node[at].key} \subseteq SeenKeys

\* TableTest.cxx:166, REQUIRE(it->valid() == false) after the rows of a range
\* scan were read: a range scan comes to its end, it does not dereference the
\* null pointer behind the last node.
RangeScanEnds == fault # "null"
=============================================================================
