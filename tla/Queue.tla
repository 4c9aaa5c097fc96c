-------------------------------- MODULE Queue --------------------------------
(***************************************************************************)
(* infra/Queue.h and QueueNode.h: the linked list under the logger.  Every *)
(* call but size() is made under the logger's mutex, and size() reads one  *)
(* atomic, so a call is a step.  Data are pointers, which the destructor   *)
(* of a Queue of pointers deletes.                                         *)
(***************************************************************************)
EXTENDS Integers, Sequences, FiniteSets

CONSTANTS Node,         \* addresses the allocator may return
          Data, Null,
          MaxConsumed   \* bound: dequeue calls

ASSUME BoundAssumption == MaxConsumed \in Nat
ASSUME NullAssumption == Null \notin Node

VARIABLES live,               \* the allocated nodes: [data, next]
          m_first, m_last,
          m_size, m_consumed,
          data,               \* the data not yet handed back or deleted
          ret                 \* what the last call returned

vars == <<live, m_first, m_last, m_size, m_consumed, data, ret>>

NewNode(d) == [data |-> d, next |-> Null]

Init == /\ live = [n \in {} |-> Null]
        /\ m_first = Null /\ m_last = Null
        /\ m_size = 0 /\ m_consumed = 0 /\ data = {} /\ ret = Null

\* The tail is not moved, and the next node overwrites the link.
KeptLast(n) == IF m_first = Null THEN n ELSE m_last

LastAfterEnqueue(n) == n

Enqueue(d) ==
  /\ d \notin data
  /\ \E n \in Node \ DOMAIN live :
       /\ live' = [m \in DOMAIN live \cup {n} |->
                     IF m = n THEN NewNode(d)
                     ELSE IF m_first # Null /\ m = m_last THEN [live[m] EXCEPT !.next = n]
                     ELSE live[m]]
       /\ m_first' = IF m_first = Null THEN n ELSE m_first
       /\ m_last' = LastAfterEnqueue(n)
  /\ m_size' = m_size + 1
  /\ data' = data \cup {d}
  /\ ret' = Null
  /\ UNCHANGED m_consumed

\* The last node goes and the tail pointer stays.
DanglingLast == m_last

LastAfterDequeue == IF m_first = m_last THEN Null ELSE m_last

\* An empty queue throws and is not changed.
Dequeue ==
  /\ m_size # 0
  /\ m_consumed < MaxConsumed
  /\ ret' = live[m_first].data
  /\ live' = [m \in DOMAIN live \ {m_first} |-> live[m]]
  /\ m_first' = IF m_first = m_last THEN Null ELSE live[m_first].next
  /\ m_last' = LastAfterDequeue
  /\ m_size' = m_size - 1
  /\ m_consumed' = m_consumed + 1
  /\ data' = data \ {ret'}

\* The nodes from m_first on.
Chain == LET follow[n \in Node \cup {Null}] ==
               IF n \in DOMAIN live THEN <<n>> \o follow[live[n].next] ELSE <<>>
         IN  follow[m_first]

\* ~Queue deletes the nodes and, for a queue of pointers, the data; a queue
\* constructed afterwards starts empty.
Destroy ==
  LET reached == {Chain[i] : i \in DOMAIN Chain}
  IN  /\ live' = [m \in DOMAIN live \ reached |-> live[m]]
      /\ data' = data \ {live[n].data : n \in reached}
      /\ m_first' = Null /\ m_last' = Null /\ ret' = Null
      /\ m_size' = 0 /\ m_consumed' = 0

Next == (\E d \in Data : Enqueue(d)) \/ Dequeue \/ Destroy

Spec == Init /\ [][Next]_vars
-----------------------------------------------------------------------------
\* The two end pointers are null together, no pointer dangles, every allocated
\* node is reached from m_first, m_last is the last of them, and the counter is
\* their number: nodes are neither leaked nor lost at the empty boundary.
ListOK ==
  /\ {Chain[i] : i \in DOMAIN Chain} = DOMAIN live
  /\ Len(Chain) = Cardinality(DOMAIN live)
  /\ m_size = Len(Chain)
  /\ IF Chain = <<>>
       THEN m_first = Null /\ m_last = Null
       ELSE m_last = Chain[Len(Chain)] /\ live[m_last].next = Null

Items == [i \in DOMAIN Chain |-> live[Chain[i]].data]

List == INSTANCE Fifo WITH items <- Items, owned <- data, consumed <- m_consumed

\* The linked list implements the abstract queue, with what dequeue returns and
\* the data still to be deleted.
FifoSpec == List!Spec
=============================================================================
