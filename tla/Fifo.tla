--------------------------------- MODULE Fifo ---------------------------------
(***************************************************************************)
(* What infra::Queue promises: first in, first out, and the counters its   *)
(* accessors return.                                                       *)
(***************************************************************************)
EXTENDS Integers, Sequences

CONSTANTS Data,    \* the pointers queued
          Null     \* nullptr

VARIABLES items,     \* the queue
          owned,     \* data the queue frees if it is destroyed
          consumed,  \* how many were taken
          ret        \* what the last call returned

vars == <<items, owned, consumed, ret>>

Init == items = <<>> /\ owned = {} /\ consumed = 0 /\ ret = Null

Enqueue(d) == /\ d \notin owned
              /\ items' = Append(items, d)
              /\ owned' = owned \cup {d}
              /\ ret' = Null
              /\ UNCHANGED consumed

Dequeue == /\ items # <<>>
           /\ ret' = items[1]
           /\ items' = Tail(items)
           /\ owned' = owned \ {items[1]}
           /\ consumed' = consumed + 1

\* Destroyed, and constructed anew.
Destroy == items' = <<>> /\ owned' = {} /\ ret' = Null /\ consumed' = 0

Next == (\E d \in Data : Enqueue(d)) \/ Dequeue \/ Destroy

Spec == Init /\ [][Next]_vars
=============================================================================
