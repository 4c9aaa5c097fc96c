----------------------------- MODULE Logger_proofs -----------------------------
(***************************************************************************)
(* Proofs about Logger, for any number of producers, messages and starts.  *)
(***************************************************************************)
EXTENDS Logger, SequenceTheorems, TLAPS

\* Adding a message at the end keeps the queue and gives it the last place.
LEMMA EnqueueFacts ==
  ASSUME TypeOK, Enqueue
  PROVE  /\ queue' \in Seq(Nat \ {0}) /\ count' \in Nat
         /\ Len(queue') = Len(queue) + 1
         /\ queue'[Len(queue) + 1] = count + 1
         /\ \A i \in 1 .. Len(queue) : queue'[i] = queue[i]
BY DEF TypeOK, Enqueue

\* Taking the first message moves all others up by one.
LEMMA DequeueFacts ==
  ASSUME TypeOK, queue # <<>>
  PROVE  /\ Head(queue) = queue[1] /\ Head(queue) \in Nat \ {0}
         /\ Dequeued \in Seq(Nat \ {0}) /\ Len(queue) >= 1
         /\ Len(Dequeued) = Len(queue) - 1
         /\ \A i \in 1 .. Len(Dequeued) : Dequeued[i] = queue[i + 1]
BY DEF TypeOK, Dequeued

\* The state of the first step is well typed.
LEMMA InitTypeOK == Init => TypeOK
<1> SUFFICES ASSUME Init PROVE TypeOK
  OBVIOUS
<1>1. <<>> \in Seq(Nat \ {0})
  OBVIOUS
<1>2. joinable = (runner # "none") /\ stop \in BOOLEAN /\ joinable \in BOOLEAN
  BY DEF Init
<1> QED
  BY <1>1, <1>2, BoundAssumption DEF Init, TypeOK

USE DEF runVars, history, CtlGoes

\* Every step keeps it well typed.
LEMMA NextTypeOK == TypeOK /\ [Next]_vars => TypeOK'
<1> SUFFICES ASSUME TypeOK, [Next]_vars PROVE TypeOK'
  OBVIOUS
<1>1. CASE UNCHANGED vars
  BY <1>1 DEF TypeOK, vars
<1>2. CASE Loop
  BY <1>2 DEF TypeOK, Loop
<1>3. CASE LockAndTest
  BY <1>3, DequeueFacts DEF TypeOK, LockAndTest
<1>4. CASE Block
  BY <1>4 DEF TypeOK, Block
<1>5. CASE Write
  BY <1>5 DEF TypeOK, Write
<1>6. CASE CheckStop
  BY <1>6 DEF TypeOK, CheckStop
<1>7. CASE ReadSize
  BY <1>7 DEF TypeOK, ReadSize
<1>8. CASE LogPurge
  BY <1>8, EnqueueFacts DEF TypeOK, LogPurge
<1>9. CASE SpuriousWakeup
  BY <1>9 DEF TypeOK, SpuriousWakeup
<1>10. ASSUME NEW p \in Producer, LogEnqueue(p) PROVE TypeOK'
  BY <1>10, EnqueueFacts DEF TypeOK, LogEnqueue
<1>11. ASSUME NEW p \in Producer, LogNotify(p) PROVE TypeOK'
  BY <1>11 DEF TypeOK, LogNotify, Notified
<1>12. CASE Start
  BY <1>12, BoundAssumption DEF TypeOK, Start
<1>13. CASE Stop
  BY <1>13, EnqueueFacts DEF TypeOK, Stop
<1>14. CASE Destroy
  BY <1>14 DEF TypeOK, Destroy
<1>15. CASE Control
  <2>1. CASE Join
    BY <2>1 DEF TypeOK, Join
  <2>2. CASE ClearStop \/ SetStop
    BY <2>2 DEF TypeOK, ClearStop, SetStop
  <2>3. CASE Spawn
    BY <2>3 DEF TypeOK, Spawn
  <2>4. CASE StopNotify \/ WakeRunner
    BY <2>4 DEF TypeOK, StopNotify, WakeRunner, Notified
  <2>5. CASE Destroyed
    <3>1. <<>> \in Seq(Nat \ {0})
      OBVIOUS
    <3>2. joinable' = FALSE /\ runner' = "none" /\ item = 0
      BY <2>5 DEF TypeOK, Destroyed
    <3> QED
      BY <2>5, <3>1, <3>2 DEF TypeOK, Destroyed
  <2> QED
    BY <1>15, <2>1, <2>2, <2>3, <2>4, <2>5 DEF Control
<1> QED
  BY <1>1, <1>2, <1>3, <1>4, <1>5, <1>6, <1>7, <1>8, <1>9, <1>10, <1>11, <1>12,
     <1>13, <1>14, <1>15 DEF Next, Run

\* The state of the logger keeps its types: only a runner that writes holds a
\* message, and the thread is joinable as long as there is a runner.
THEOREM LoggerTypes == Spec => []TypeOK
BY InitTypeOK, NextTypeOK, PTL DEF Spec
-----------------------------------------------------------------------------
(* The order of messages.  FifoExactlyOnce is proved place by place: a     *)
(* message is its own place in what is written, held by the runner and     *)
(* queued.  The first steps of a runner must find no message held by an    *)
(* older one, and a runner that has seen an empty queue after it announced *)
(* the purge has written the announcement.                                 *)

Pending == IF item = 0 THEN 0 ELSE 1

InOrder == /\ Len(written) + Pending + Len(queue) = count
           /\ \A i \in 1 .. Len(written) : written[i] = i
           /\ item # 0 => item = Len(written) + 1
           /\ \A i \in 1 .. Len(queue) : queue[i] = Len(written) + Pending + i

Phases == /\ ctl \in {"clear", "spawn", "destroyed"} => runner = "none"
          /\ runner = "done" => items = 0
          /\ runner = "purge" => items > 0 /\ notice = 0

Announced == notice <= count /\ (notice # 0 /\ items = 0 => notice <= Len(written))

FifoInv == Phases /\ (ctl # "destroyed" => InOrder /\ Announced)

\* A step that moves no message and leaves the announcement keeps the order.
LEMMA SameMessages ==
  ASSUME InOrder, Announced, UNCHANGED <<queue, written, item, items, notice, count>>
  PROVE  InOrder' /\ Announced'
BY DEF InOrder, Announced, Pending

\* A message enqueued takes the next place.
LEMMA EnqueueInOrder ==
  ASSUME TypeOK, InOrder, Enqueue, UNCHANGED <<written, item>>
  PROVE  InOrder'
<1>1. Len(written) \in Nat /\ Len(queue) \in Nat /\ Pending \in {0, 1} /\ count \in Nat
  BY DEF TypeOK, Pending
<1>2. Pending' = Pending
  BY DEF Pending
<1>3. Len(queue') = Len(queue) + 1 /\ count' = count + 1
  BY EnqueueFacts DEF Enqueue
<1>4. \A i \in 1 .. Len(queue') : queue'[i] = Len(written) + Pending + i
  <2> TAKE i \in 1 .. Len(queue')
  <2>1. CASE i \in 1 .. Len(queue)
    BY <2>1, EnqueueFacts DEF InOrder
  <2>2. CASE i = Len(queue) + 1
    BY <1>1, <2>2, EnqueueFacts DEF InOrder
  <2> QED
    BY <1>1, <1>3, <2>1, <2>2
<1> QED
  BY <1>1, <1>2, <1>3, <1>4 DEF InOrder

\* The message dequeued is the next one to be written.
LEMMA DequeueInOrder ==
  ASSUME TypeOK, InOrder, item = 0, queue # <<>>,
         item' = Head(queue), queue' = Dequeued, UNCHANGED <<written, count>>
  PROVE  InOrder'
<1>1. Len(written) \in Nat /\ Pending = 0 /\ Pending' = 1 /\ count' = count
  BY DequeueFacts DEF TypeOK, Pending
<1>2. /\ Len(queue) \in Nat /\ Len(queue) >= 1
      /\ Len(queue') = Len(queue) - 1 /\ item' = queue[1]
      /\ \A i \in 1 .. Len(queue') : queue'[i] = queue[i + 1]
  BY DequeueFacts DEF TypeOK
<1>3. /\ Len(written) + Len(queue) = count
      /\ \A i \in 1 .. Len(queue) : queue[i] = Len(written) + i
  BY <1>1, <1>2 DEF InOrder
<1>4. item' = Len(written) + 1
  BY <1>1, <1>2, <1>3
<1>5. \A i \in 1 .. Len(queue') : queue'[i] = Len(written) + 1 + i
  <2> TAKE i \in 1 .. Len(queue')
  <2>1. i \in Nat /\ i + 1 \in 1 .. Len(queue) /\ queue'[i] = queue[i + 1]
    BY <1>2
  <2>2. queue[i + 1] = Len(written) + (i + 1)
    BY <1>3, <2>1
  <2>3. Len(written) + (i + 1) = Len(written) + 1 + i
    BY <1>1, <2>1
  <2> QED
    BY <2>1, <2>2, <2>3
<1>6. Len(written) + 1 + Len(queue') = count'
  BY <1>1, <1>2, <1>3
<1> QED
  BY <1>1, <1>4, <1>5, <1>6 DEF InOrder

\* The message held goes to the end of what is written.
LEMMA WriteInOrder ==
  ASSUME TypeOK, InOrder, item # 0,
         written' = Append(written, item), item' = 0, UNCHANGED <<queue, count>>
  PROVE  InOrder' /\ Len(written') = Len(written) + 1
<1>1. Len(written) \in Nat /\ Len(queue) \in Nat /\ Pending = 1 /\ Pending' = 0
  BY DEF TypeOK, Pending
<1>2. /\ Len(written') = Len(written) + 1
      /\ written'[Len(written) + 1] = Len(written) + 1
      /\ \A i \in 1 .. Len(written) : written'[i] = written[i]
  BY DEF TypeOK, InOrder
<1>3. \A i \in 1 .. Len(written') : written'[i] = i
  <2> TAKE i \in 1 .. Len(written')
  <2>1. i \in 1 .. Len(written) \/ i = Len(written) + 1
    BY <1>1, <1>2
  <2> QED
    BY <1>2, <2>1 DEF InOrder
<1>4. \A i \in 1 .. Len(queue') : queue'[i] = Len(written') + i
  BY <1>1, <1>2 DEF InOrder
<1> QED
  BY <1>1, <1>2, <1>3, <1>4 DEF InOrder

\* The first state is in order.
LEMMA InitFifoInv == Init => FifoInv
BY DEF Init, FifoInv, Phases, InOrder, Announced, Pending

\* Every step keeps the order.
LEMMA NextFifoInv == TypeOK /\ FifoInv /\ [Next]_vars => FifoInv'
<1> SUFFICES ASSUME TypeOK, FifoInv, [Next]_vars PROVE FifoInv'
  OBVIOUS
<1>1. CASE UNCHANGED vars
  BY <1>1, SameMessages DEF vars, FifoInv, Phases
<1>2. CASE Loop
  <2>1. Phases'
    BY <1>2 DEF Loop, FifoInv, Phases, TypeOK, GoesOn
  <2> QED
    BY <1>2, <2>1, SameMessages DEF Loop, FifoInv
<1>3. CASE LockAndTest
  <2>1. item = 0 /\ ctl # "destroyed"
    BY <1>3 DEF LockAndTest, TypeOK, FifoInv, Phases
  <2>2. Phases'
    BY <1>3 DEF LockAndTest, FifoInv, Phases
  <2>3. CASE queue # <<>>
    BY <1>3, <2>1, <2>2, <2>3, DequeueInOrder DEF LockAndTest, FifoInv, Announced
  <2>4. CASE queue = <<>>
    BY <1>3, <2>1, <2>2, <2>4, SameMessages DEF LockAndTest, FifoInv
  <2> QED
    BY <2>3, <2>4
<1>4. CASE Block \/ CheckStop \/ SpuriousWakeup
  BY <1>4, SameMessages DEF Block, CheckStop, SpuriousWakeup, FifoInv, Phases
<1>5. CASE Write
  <2>1. item # 0 /\ ctl # "destroyed"
    BY <1>5 DEF Write, TypeOK, FifoInv, Phases
  <2>2. Phases'
    BY <1>5 DEF Write, FifoInv, Phases
  <2>3. InOrder' /\ Len(written') = Len(written) + 1
    BY <1>5, <2>1, WriteInOrder DEF Write, FifoInv
  <2>4. Announced'
    BY <1>5, <2>1, <2>3 DEF Write, FifoInv, Announced, TypeOK
  <2> QED
    BY <2>2, <2>3, <2>4 DEF FifoInv
<1>6. CASE ReadSize
  <2>1. item = 0 /\ ctl # "destroyed"
    BY <1>6 DEF ReadSize, TypeOK, FifoInv, Phases
  <2>2. Phases'
    BY <1>6, <2>1 DEF ReadSize, FifoInv, Phases, TypeOK
  <2>3. InOrder'
    BY <1>6, <2>1 DEF ReadSize, FifoInv, InOrder, Pending
  <2>4. items' = 0 => Len(written) = count
    BY <1>6, <2>1 DEF ReadSize, FifoInv, InOrder, Pending, TypeOK
  <2>5. Announced'
    BY <1>6, <2>1, <2>4 DEF ReadSize, FifoInv, Announced, TypeOK
  <2> QED
    BY <2>2, <2>3, <2>5 DEF FifoInv
<1>7. CASE LogPurge
  <2>1. ctl # "destroyed" /\ items > 0 /\ Phases'
    BY <1>7 DEF LogPurge, FifoInv, Phases
  <2>2. InOrder'
    BY <1>7, <2>1, EnqueueInOrder DEF LogPurge, FifoInv
  <2>3. Announced'
    BY <1>7, <2>1, EnqueueFacts DEF LogPurge, Announced, Enqueue, TypeOK
  <2> QED
    BY <2>1, <2>2, <2>3 DEF FifoInv
<1>8. ASSUME UNCHANGED <<runner, item, items, notice, written>>, Enqueue, ctl # "destroyed",
             ctl' \notin {"clear", "spawn", "destroyed"}
      PROVE  FifoInv'
  <2>1. Phases'
    BY <1>8 DEF FifoInv, Phases
  <2>2. InOrder'
    BY <1>8, EnqueueInOrder DEF FifoInv
  <2>3. Announced'
    BY <1>8, EnqueueFacts DEF Announced, Enqueue, TypeOK, FifoInv
  <2> QED
    BY <2>1, <2>2, <2>3 DEF FifoInv
<1>9. ASSUME NEW p \in Producer, LogEnqueue(p) PROVE FifoInv'
  <2>1. MutexFree /\ ctl' = ctl /\ ctl \notin {"destroying", "destroyed"} /\ Enqueue
    BY <1>9 DEF LogEnqueue, Enqueue
  <2>2. Phases' /\ UNCHANGED <<runner, item, items, notice, written>>
    BY <1>9 DEF LogEnqueue, FifoInv, Phases
  <2>3. InOrder'
    BY <2>1, <2>2, EnqueueInOrder DEF FifoInv
  <2>4. Announced'
    BY <2>1, <2>2, EnqueueFacts DEF Announced, Enqueue, TypeOK, FifoInv
  <2> QED
    BY <2>2, <2>3, <2>4 DEF FifoInv
<1>10. CASE Stop
  BY <1>8, <1>10 DEF Stop
<1>11. ASSUME NEW p \in Producer, LogNotify(p) PROVE FifoInv'
  <2>1. Phases'
    BY <1>11 DEF LogNotify, Notified, FifoInv, Phases
  <2> QED
    BY <1>11, <2>1, SameMessages DEF LogNotify, FifoInv
<1>12. CASE Start
  <2>1. Phases'
    BY <1>12 DEF Start, FifoInv, Phases, TypeOK
  <2> QED
    BY <1>12, <2>1, SameMessages DEF Start, FifoInv
<1>13. CASE Destroy
  <2>1. Phases'
    BY <1>13 DEF Destroy, FifoInv, Phases
  <2> QED
    BY <1>13, <2>1, SameMessages DEF Destroy, FifoInv
<1>14. CASE Control
  <2>1. CASE Join
    <3>1. Phases'
      BY <2>1 DEF Join, FifoInv, Phases
    <3> QED
      BY <2>1, <3>1, SameMessages DEF Join, FifoInv
  <2>2. CASE ClearStop \/ SetStop
    <3>1. Phases'
      BY <2>2 DEF ClearStop, SetStop, FifoInv, Phases
    <3> QED
      BY <2>2, <3>1, SameMessages DEF ClearStop, SetStop, FifoInv
  <2>3. CASE Spawn
    <3>1. Phases' /\ runner = "none" /\ item = 0 /\ ctl # "destroyed"
      BY <2>3 DEF Spawn, FifoInv, Phases, TypeOK
    <3>2. InOrder'
      BY <2>3, <3>1 DEF Spawn, FifoInv, InOrder, Pending
    <3>3. Announced'
      BY <2>3 DEF Spawn, Announced, TypeOK
    <3> QED
      BY <3>1, <3>2, <3>3 DEF FifoInv
  <2>4. CASE StopNotify \/ WakeRunner
    <3>1. Phases'
      BY <2>4 DEF StopNotify, WakeRunner, Notified, FifoInv, Phases
    <3> QED
      BY <2>4, <3>1, SameMessages DEF StopNotify, WakeRunner, FifoInv
  <2>5. CASE Destroyed
    BY <2>5 DEF Destroyed, FifoInv, Phases
  <2> QED
    BY <1>14, <2>1, <2>2, <2>3, <2>4, <2>5 DEF Control
<1> QED
  BY <1>1, <1>2, <1>3, <1>4, <1>5, <1>6, <1>7, <1>9, <1>10, <1>11, <1>12, <1>13, <1>14
  DEF Next, Run

\* What is written, held and queued, one after the other, are the messages in order.
LEMMA OrderIsFifo == TypeOK /\ FifoInv => FifoExactlyOnce
<1> SUFFICES ASSUME TypeOK, FifoInv, ctl # "destroyed"
             PROVE  written \o (IF item = 0 THEN <<>> ELSE <<item>>) \o queue
                      = [i \in 1 .. count |-> i]
  BY DEF FifoExactlyOnce
<1> DEFINE held == IF item = 0 THEN <<>> ELSE <<item>>
           both == written \o held
<1>1. written \in Seq(Nat) /\ queue \in Seq(Nat) /\ held \in Seq(Nat) /\ Len(held) = Pending
  BY DEF TypeOK, Pending
<1>2. both \in Seq(Nat) /\ Len(both) = Len(written) + Pending
  BY <1>1
<1>3. \A i \in 1 .. Len(both) : both[i] = i
  <2> TAKE i \in 1 .. Len(both)
  <2>1. CASE i \in 1 .. Len(written)
    BY <1>1, <2>1 DEF FifoInv, InOrder
  <2>2. CASE i = Len(written) + 1 /\ item # 0
    BY <1>1, <2>2 DEF FifoInv, InOrder, TypeOK
  <2> QED
    BY <1>1, <1>2, <2>1, <2>2 DEF Pending
<1> HIDE DEF both
<1>4. /\ Len(both) \in Nat /\ Len(queue) \in Nat /\ Len(both) + Len(queue) = count
      /\ \A i \in 1 .. Len(queue) : queue[i] = Len(both) + i
  BY <1>1, <1>2 DEF FifoInv, InOrder, Pending
<1>5. /\ both \o queue \in Seq(Nat) /\ Len(both \o queue) = count
      /\ \A i \in 1 .. Len(both) : (both \o queue)[i] = both[i]
      /\ \A i \in 1 .. Len(queue) : (both \o queue)[Len(both) + i] = queue[i]
  <2>1. /\ both \o queue \in Seq(Nat) /\ Len(both \o queue) = Len(both) + Len(queue)
        /\ \A i \in 1 .. Len(both) + Len(queue) :
             (both \o queue)[i] = IF i <= Len(both) THEN both[i] ELSE queue[i - Len(both)]
    <3>1. both \in Seq(Nat) /\ queue \in Seq(Nat)
      BY <1>1, <1>2
    <3> QED
      BY <3>1, ConcatProperties
  <2>2. \A i \in 1 .. Len(both) : i \in 1 .. Len(both) + Len(queue) /\ i <= Len(both)
    BY <1>4
  <2>3. \A i \in 1 .. Len(queue) :
          /\ Len(both) + i \in 1 .. Len(both) + Len(queue)
          /\ ~(Len(both) + i <= Len(both)) /\ Len(both) + i - Len(both) = i
    BY <1>4
  <2> QED
    BY <1>4, <2>1, <2>2, <2>3
<1>6. \A i \in 1 .. count : (both \o queue)[i] = i
  <2> TAKE i \in 1 .. count
  <2>1. CASE i \in 1 .. Len(both)
    BY <1>3, <1>5, <2>1
  <2>2. CASE i \in Len(both) + 1 .. count
    <3> DEFINE j == i - Len(both)
    <3>1. j \in 1 .. Len(queue) /\ i = Len(both) + j
      BY <1>4, <2>2
    <3> HIDE DEF j
    <3> QED
      BY <1>4, <1>5, <3>1
  <2> QED
    BY <1>4, <2>1, <2>2
<1>7. both \o queue = [i \in 1 .. count |-> i]
  <2> DEFINE all == both \o queue
  <2>1. all \in Seq(Nat) /\ Len(all) = count /\ \A i \in 1 .. count : all[i] = i
    BY <1>5, <1>6
  <2> HIDE DEF all
  <2>2. all = [i \in 1 .. Len(all) |-> all[i]]
    BY <2>1
  <2> QED
    BY <2>1, <2>2 DEF all
<1> QED
  BY <1>7 DEF both

\* For any number of messages, starts and stops no message is lost, repeated or put out
\* of order.
THEOREM FifoAlways == Spec => []FifoExactlyOnce
<1>1. Init => TypeOK /\ FifoInv
  BY InitTypeOK, InitFifoInv
<1>2. TypeOK /\ FifoInv /\ [Next]_vars => (TypeOK /\ FifoInv)'
  BY NextTypeOK, NextFifoInv
<1> QED
  BY <1>1, <1>2, OrderIsFifo, PTL DEF Spec

\* A runner that ends has written the announcement of its purge.
LEMMA AnnouncedIsWritten == TypeOK /\ FifoInv => PurgeCompletes
<1> SUFFICES ASSUME TypeOK, FifoInv, runner = "done", notice # 0 PROVE IsIn(notice, written)
  BY DEF PurgeCompletes
<1>1. notice \in 1 .. Len(written) /\ InOrder
  BY DEF FifoInv, Phases, Announced, TypeOK
<1> QED
  BY <1>1 DEF InOrder, IsIn, TypeOK

\* Whatever happens between a stop and the end of the runner, a purge it announced is
\* complete up to the announcement.
THEOREM PurgesComplete == Spec => []PurgeCompletes
<1>1. Init => TypeOK /\ FifoInv
  BY InitTypeOK, InitFifoInv
<1>2. TypeOK /\ FifoInv /\ [Next]_vars => (TypeOK /\ FifoInv)'
  BY NextTypeOK, NextFifoInv
<1> QED
  BY <1>1, <1>2, AnnouncedIsWritten, PTL DEF Spec
=============================================================================
