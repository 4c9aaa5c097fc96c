-------------------------------- MODULE Logger --------------------------------
(***************************************************************************)
(* utils/Logger.cxx: producers queue messages under m_mutex, one logging   *)
(* thread (`runner') waits for them on m_cv, writes them and watches       *)
(* m_stop, and a controller, the main thread, calls start and stop in turn *)
(* and lets the static instance be destroyed at the end.                   *)
(*                                                                         *)
(* A step is a critical section, or what happens between two reads of      *)
(* shared state.  The only step that leaves m_mutex held is the one that   *)
(* finds the wait predicate false: the runner still holds the lock at      *)
(* "block", before m_cv.wait releases it and sleeps in one go.  m_stop is  *)
(* written without the lock.  The sleep of one second in stop() orders     *)
(* nothing and has no step.  A message is known by its place in the order  *)
(* of enqueueing; output mode and level filter are left out.               *)
(***************************************************************************)
EXTENDS Integers, Sequences

CONSTANTS Producer,     \* threads that call log()
          MaxMessages,  \* bound: producers stop when this many messages were enqueued
          MaxStarts     \* bound: calls of start()

ASSUME BoundAssumption == MaxMessages \in Nat /\ MaxStarts \in Nat

VARIABLES
  queue,     \* m_queue, the messages in it
  stop,      \* m_stop
  joinable,  \* m_thread.joinable()
  runner,    \* where run() is; "none" without a thread, "done" when it returned
  item,      \* run's logItem, 0 for none
  items,     \* run's itemsRemaining
  notice,    \* the message "purging N items" of this run, 0 before loggedRemaining
  producer,  \* where a producer is in log()
  ctl,       \* where the controller is
  starts,    \* history: calls of start()
  count,     \* history: messages enqueued
  written    \* history: what run() has written

runVars == <<item, items, notice>>
history == <<starts, count, written>>
vars == <<queue, stop, joinable, runner, runVars, producer, ctl, history>>

Init == /\ queue = <<>> /\ stop = FALSE /\ joinable = FALSE
        /\ runner = "none" /\ item = 0 /\ items = 0 /\ notice = 0
        /\ producer = [p \in Producer |-> "idle"]
        /\ ctl = "stopped"
        /\ starts = 0 /\ count = 0 /\ written = <<>>

\* No producer would take the lock.
NoLock == TRUE

MutexFree == runner # "block"

\* m_queue->enqueue under the lock.
Enqueue == /\ MutexFree
           /\ queue' = Append(queue, count + 1)
           /\ count' = count + 1

\* m_cv.notify_one: a sleeping runner is woken, any other misses it.
Notified == IF runner = "waiting" THEN "woken" ELSE runner
-----------------------------------------------------------------------------
(* run().                                                                  *)

\* itemsRemaining is left out of the loop condition.
GoesOnUntilStop == ~stop

GoesOn == ~stop \/ items > 0

Loop == /\ runner = "loop"
        /\ runner' = IF GoesOn THEN "lock" ELSE "done"
        /\ UNCHANGED <<queue, stop, joinable, runVars, producer, ctl, history>>

\* The message is read and stays in the queue.
NotUnlinked == queue

Dequeued == Tail(queue)

\* Take the lock, test the predicate of the wait, and when it holds dequeue.
LockAndTest ==
  /\ runner \in {"lock", "woken"}
  /\ IF queue # <<>>
       THEN /\ item' = Head(queue)
            /\ queue' = Dequeued
            /\ runner' = "write"
       ELSE /\ runner' = IF stop THEN "check" ELSE "block"
            /\ UNCHANGED <<queue, item>>
  /\ UNCHANGED <<stop, joinable, items, notice, producer, ctl, history>>

\* m_cv.wait releases the lock and sleeps.
Block == /\ runner = "block" /\ runner' = "waiting"
         /\ UNCHANGED <<queue, stop, joinable, runVars, producer, ctl, history>>

SpuriousWakeup == /\ runner = "waiting" /\ runner' = "woken"
                  /\ UNCHANGED <<queue, stop, joinable, runVars, producer, ctl, history>>

Write == /\ runner = "write" /\ runner' = "check"
         /\ written' = Append(written, item)
         /\ item' = 0
         /\ UNCHANGED <<queue, stop, joinable, items, notice, producer, ctl,
                        starts, count>>

CheckStop == /\ runner = "check"
             /\ runner' = IF stop THEN "size" ELSE "loop"
             /\ UNCHANGED <<queue, stop, joinable, runVars, producer, ctl, history>>

\* m_queue->size() without the lock.
ReadSize == /\ runner = "size"
            /\ items' = Len(queue)
            /\ runner' = IF items' > 0 /\ notice = 0 THEN "purge" ELSE "loop"
            /\ UNCHANGED <<queue, stop, joinable, item, notice, producer, ctl, history>>

\* log("Logger purging N items"); nobody else waits on m_cv.
LogPurge == /\ runner = "purge" /\ runner' = "loop"
            /\ Enqueue
            /\ notice' = count + 1
            /\ UNCHANGED <<stop, joinable, item, items, producer, ctl, starts, written>>

Run == Loop \/ LockAndTest \/ Block \/ Write \/ CheckStop \/ ReadSize \/ LogPurge
-----------------------------------------------------------------------------
(* log().                                                                  *)

LogEnqueue(p) == /\ producer[p] = "idle" /\ ctl \notin {"destroying", "destroyed"}
                 /\ count < MaxMessages
                 /\ Enqueue
                 /\ producer' = [producer EXCEPT ![p] = "notify"]
                 /\ UNCHANGED <<stop, joinable, runner, runVars, ctl, starts, written>>

LogNotify(p) == /\ producer[p] = "notify"
                /\ runner' = Notified
                /\ producer' = [producer EXCEPT ![p] = "idle"]
                /\ UNCHANGED <<queue, stop, joinable, runVars, ctl, history>>
-----------------------------------------------------------------------------
(* start(), stop() and ~Logger.                                            *)

CtlGoes(from, to) == ctl = from /\ ctl' = to

Start == /\ starts < MaxStarts
         /\ CtlGoes("stopped", IF joinable THEN "join" ELSE "clear")
         /\ starts' = starts + 1
         /\ UNCHANGED <<queue, stop, joinable, runner, runVars, producer, count, written>>

\* The old thread is detached.
Detach == /\ CtlGoes("join", "clear")
          /\ joinable' = FALSE
          /\ UNCHANGED <<queue, stop, runner, runVars, producer, history>>

\* m_thread.join() in start.
Join == /\ CtlGoes("join", "clear")
        /\ runner = "done"
        /\ runner' = "none" /\ joinable' = FALSE
        /\ UNCHANGED <<queue, stop, runVars, producer, history>>

ClearStop == /\ CtlGoes("clear", "spawn")
             /\ stop' = FALSE
             /\ UNCHANGED <<queue, joinable, runner, runVars, producer, history>>

Spawn == /\ CtlGoes("spawn", "started")
         /\ runner' = "loop" /\ joinable' = TRUE
         /\ item' = 0 /\ items' = 0 /\ notice' = 0
         /\ UNCHANGED <<queue, stop, producer, history>>

\* stop logs that it was called.
Stop == /\ CtlGoes("started", "stopNotify")
        /\ Enqueue
        /\ UNCHANGED <<stop, joinable, runner, runVars, producer, starts, written>>

StopNotify == /\ CtlGoes("stopNotify", "setStop")
              /\ runner' = Notified
              /\ UNCHANGED <<queue, stop, joinable, runVars, producer, history>>

SetStop == /\ CtlGoes("setStop", "wake")
           /\ stop' = TRUE
           /\ UNCHANGED <<queue, joinable, runner, runVars, producer, history>>

WakeRunner == /\ CtlGoes("wake", "stopped")
              /\ runner' = Notified
              /\ UNCHANGED <<queue, stop, joinable, runVars, producer, history>>

\* At exit, with the producers gone: ~Logger sets m_stop and joins, it does not
\* notify.  The messages left are freed with the queue.
Destroy == /\ ctl \in {"stopped", "started"} /\ ctl' = "destroying"
           /\ \A p \in Producer : producer[p] = "idle"
           /\ stop' = TRUE
           /\ UNCHANGED <<queue, joinable, runner, runVars, producer, history>>

Destroyed == /\ CtlGoes("destroying", "destroyed")
             /\ joinable => runner = "done"
             /\ queue' = <<>> /\ joinable' = FALSE /\ runner' = "none"
             /\ UNCHANGED <<stop, runVars, producer, history>>

\* What the controller does once it is inside a call.
Control == Join \/ ClearStop \/ Spawn \/ StopNotify \/ SetStop \/ WakeRunner \/ Destroyed

Next == \/ Run \/ SpuriousWakeup
        \/ \E p \in Producer : LogEnqueue(p) \/ LogNotify(p)
        \/ Start \/ Stop \/ Destroy \/ Control

Spec == Init /\ [][Next]_vars

\* The runner and every thread inside a call are scheduled; nobody has to call.
FairSpec == /\ Spec
            /\ WF_vars(Run)
            /\ WF_vars(Control)
            /\ \A p \in Producer : WF_vars(LogNotify(p))
-----------------------------------------------------------------------------
(* Properties.                                                             *)

IsIn(m, s) == \E i \in DOMAIN s : s[i] = m

\* Only a runner at "write" holds an item, and there is a runner if and only if
\* the thread is joinable.
TypeOK ==
  /\ queue \in Seq(Nat \ {0}) /\ written \in Seq(Nat \ {0})
  /\ stop \in BOOLEAN /\ joinable \in BOOLEAN
  /\ runner \in {"none", "loop", "lock", "woken", "block", "waiting", "write",
                 "check", "size", "purge", "done"}
  /\ item \in Nat /\ (item # 0 <=> runner = "write")
  /\ items \in Nat /\ notice \in Nat
  /\ producer \in [Producer -> {"idle", "notify"}]
  /\ joinable = (runner # "none")
  /\ starts \in 0 .. MaxStarts /\ count \in Nat

\* Every message is written at most once and in the order it was enqueued, and
\* none is dropped before the logger is destroyed: not by a stop, by a runner
\* that exits with messages left, or by the runner the next start spawns.
FifoExactlyOnce ==
  ctl # "destroyed" =>
    written \o (IF item = 0 THEN <<>> ELSE <<item>>) \o queue = [i \in 1 .. count |-> i]

\* A runner that announced it is purging the queue writes the announcement, and
\* so everything enqueued before it, before it exits.
PurgeCompletes == runner = "done" /\ notice # 0 => IsIn(notice, written)

\* Every run adds at most the message of stop() and the one about purging.
Messages == 1 .. MaxMessages + 2 * MaxStarts

\* A message in the queue of a running logger is written, or the logger is told
\* to stop: no producer's notification is lost, whatever the runner is doing.
MessagesWritten ==
  \A m \in Messages :
    (IsIn(m, queue) /\ ctl = "started" /\ ~stop) ~> (IsIn(m, written) \/ stop)

\* Logger.cxx:50, "Logger got stop signal": the logging thread sees the stop
\* signal and ends.
StopIsSeen == (stop /\ ctl = "stopped") ~> (runner \in {"done", "none"} \/ ~stop)
=============================================================================
