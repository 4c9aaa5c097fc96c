----------------------------- MODULE OrderedIndex -----------------------------
(***************************************************************************)
(* What a SquidDB index promises its callers: a sequence of entries in key *)
(* order, and the result every call of core/SkipList.h returns for it.  A  *)
(* primary index rejects a key it already holds; a secondary index keeps   *)
(* duplicates and places a new one before its equals.                      *)
(*                                                                         *)
(* `ret' is the last call and what it returned.  A caller that passes a    *)
(* data buffer to a call that returns FALSE still owns the buffer.         *)
(***************************************************************************)
EXTENDS Integers, FiniteSets, Sequences

CONSTANTS Key,        \* the keys, integers
          Buf,        \* the data buffers callers allocate
          Null        \* nullptr

VARIABLES primary,    \* m_primaryIndex, fixed when the index is made
          status,     \* "new" until initialize(), "destroyed" after ~SkipList
          entries,    \* the entries, in index order
          ret         \* <<call, its result>>

vars == <<primary, status, entries, ret>>

Seqs == INSTANCE SequencesExt

Entry == [key : Key, row : Buf]

\* How many entries have a key below k: an entry for k belongs right after them.
Below(k) == Cardinality({i \in DOMAIN entries : entries[i].key < k})

Holding(k) == {i \in DOMAIN entries : entries[i].key = k}

Rows == {entries[i].row : i \in DOMAIN entries}

EntryAt(i) == IF i \in DOMAIN entries THEN entries[i] ELSE Null
-----------------------------------------------------------------------------
Init == primary \in BOOLEAN /\ status = "new" /\ entries = <<>> /\ ret = <<"none", Null>>

Initialize == /\ status = "new"
              /\ status' = "ready"
              /\ UNCHANGED <<primary, entries, ret>>

Insert(k, b) ==
  /\ status = "ready"
  /\ UNCHANGED <<primary, status>>
  /\ \/ /\ ret' = <<"insert", FALSE>>
        /\ primary /\ Holding(k) # {}
        /\ UNCHANGED entries
     \/ /\ ret' = <<"insert", TRUE>>
        /\ ~(primary /\ Holding(k) # {})
        /\ b \notin Rows
        /\ entries' = Seqs!InsertAt(entries, Below(k) + 1, [key |-> k, row |-> b])

Remove(k) ==
  /\ status = "ready"
  /\ UNCHANGED <<primary, status>>
  /\ \/ /\ ret' = <<"remove", FALSE>>
        /\ Holding(k) = {}
        /\ UNCHANGED entries
     \/ /\ ret' = <<"remove", TRUE>>
        /\ Holding(k) # {}
        /\ entries' = Seqs!RemoveAt(entries, Below(k) + 1)

Update(k, b) ==
  /\ status = "ready"
  /\ UNCHANGED <<primary, status>>
  /\ \/ /\ ret' = <<"update", FALSE>>
        /\ Holding(k) = {}
        /\ UNCHANGED entries
     \/ /\ ret' = <<"update", TRUE>>
        /\ b \notin Rows
        /\ \E i \in Holding(k) : entries' = [entries EXCEPT ![i].row = b]

\* A call that only reads answers r.
Answer(call, r) == /\ status = "ready"
                   /\ ret' = <<call, r>>
                   /\ UNCHANGED <<primary, status, entries>>

Find(k) == \/ Holding(k) = {} /\ Answer("find", Null)
           \/ \E i \in Holding(k) : Answer("find", entries[i].row)

Contains(k) == Answer("contains", Holding(k) # {})

Begin == Answer("begin", EntryAt(1))

\* Some entry for k, or the first one above it.
Seek(k) == \/ Holding(k) = {} /\ Answer("seek", EntryAt(Below(k) + 1))
           \/ \E i \in Holding(k) : Answer("seek", entries[i])

Size == Answer("size", Len(entries))

\* The number of entries with low <= key < high.
Estimate(low, high) ==
  Answer("estimate", Cardinality({i \in DOMAIN entries :
                                    low <= entries[i].key /\ entries[i].key < high}))

Destroy == /\ status = "ready"
           /\ status' = "destroyed"
           /\ entries' = <<>>
           /\ ret' = <<"destroy", Null>>
           /\ UNCHANGED primary

Next == \/ Initialize
        \/ \E k \in Key, b \in Buf : Insert(k, b) \/ Update(k, b)
        \/ \E k \in Key : Remove(k) \/ Find(k) \/ Contains(k) \/ Seek(k)
        \/ \E low, high \in Key : Estimate(low, high)
        \/ Begin \/ Size \/ Destroy

Spec == Init /\ [][Next]_vars
=============================================================================
