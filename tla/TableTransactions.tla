-------------------------- MODULE TableTransactions --------------------------
(***************************************************************************)
(* Transactions over a table: Table::beginTransaction, commit, rollback,   *)
(* insertRow, deleteRow and updateRow (engine/Table.cxx), the per-thread   *)
(* ThreadContext and Transaction, and the process-wide set of active       *)
(* transaction ids in core/ThreadContextManager.cxx.                       *)
(*                                                                         *)
(* A step is what runs under one lock of the manager, or what a thread     *)
(* does to its own context between two of them; stamping one affected row  *)
(* is a step.  A call into the index is one step: the index is not safe    *)
(* for two threads at once (README.md:16), so clients serialise those      *)
(* calls.  Nothing serialises the transaction calls.                       *)
(***************************************************************************)
EXTENDS Integers, FiniteSets, Sequences

CONSTANTS Thread,       \* client threads
          Key,          \* keys of the table
          Row,          \* the RowInfo objects the allocator can hand out
          Freed,        \* a pointer to a deleted RowInfo
          Null,         \* nullptr: no row in the index, no call under way
          MaxId,        \* bound: transaction ids drawn
          MaxAffected   \* bound: entries of one transaction's affected rows

ASSUME BoundAssumption == MaxId \in Nat /\ MaxAffected \in Nat
ASSUME RowAssumption == Null \notin Row /\ Freed \notin Row

VARIABLES
  currentId,  \* m_currentTransactionId
  active,     \* m_transactionId, the active ids
  context,    \* the threads m_context has an entry for
  pc,         \* where a thread is in the call it is making
  call,       \* that call
  implicit,   \* implicitTransaction of insertRow, deleteRow and updateRow
  id,         \* the local transactionId
  view,       \* the local viewpoint
  outcome,    \* the status the running commit or rollback stamps
  stamped,    \* how many affected rows it has stamped
  tx,         \* ThreadContext::m_transaction
  index,      \* the row of every key in the primary index
  status,     \* RowInfo::m_status, "free" when not allocated
  writer,     \* history: the transaction that last inserted or updated a row
  fault       \* "none", or the pointer a thread dereferenced at the end

registry == <<currentId, active>>
locals == <<call, implicit, id, view, outcome, stamped>>
table == <<index, status, writer>>
vars == <<registry, context, pc, locals, tx, table, fault>>

\* m_transaction = nullptr.  Ids start at 1.
NoTx == [id |-> 0, view |-> 0, rows |-> <<>>]

Open(t) == tx[t].id # 0

Operation == [op : {"insert", "delete", "update"}, key : Key]
NoCall == [op |-> "none", key |-> Null]

\* std::min_element over the active ids, 0 when there are none.
IsMinActive(m) == IF active = {} THEN m = 0
                                 ELSE m \in active /\ \A i \in active : m <= i

\* A viewpoint that includes the oldest active transaction.
ViewpointTooHigh(i, m) ==
  IF i <= 1 THEN 0 ELSE IF m = 0 \/ m > i THEN i - 1 ELSE m

Viewpoint(i, m) ==
  IF i <= 1 THEN 0 ELSE IF m = 0 \/ m > i THEN i - 1 ELSE m - 1

Init == /\ currentId = 0 /\ active = {} /\ context = {}
        /\ pc = [t \in Thread |-> "start"]
        /\ call = [t \in Thread |-> NoCall]
        /\ implicit = [t \in Thread |-> FALSE]
        /\ id = [t \in Thread |-> 0] /\ view = [t \in Thread |-> 0]
        /\ outcome = [t \in Thread |-> "Committed"]
        /\ stamped = [t \in Thread |-> 0]
        /\ tx = [t \in Thread |-> NoTx]
        /\ index = [k \in Key |-> Null]
        /\ status = [r \in Row |-> "free"]
        /\ writer = [r \in Row |-> 0]
        /\ fault = "none"

At(t, where) == fault = "none" /\ pc[t] = where
Goto(t, where) == pc' = [pc EXCEPT ![t] = where]
-----------------------------------------------------------------------------
(* A thread meets the manager, and leaves.                                 *)

\* getThreadContext the first time a thread calls it.
Register(t) == /\ At(t, "start") /\ Goto(t, "idle")
               /\ context' = context \cup {t}
               /\ UNCHANGED <<registry, locals, tx, table, fault>>

\* The order the thread_local objects would be destroyed in, were the cleanup
\* declared before the context.
ContextFirst(t) == /\ At(t, "idle") /\ Goto(t, "drop")
                   /\ UNCHANGED <<registry, context, locals, tx, table, fault>>

\* The thread returns: ~ThreadCleanup, declared last, runs first.
Exit(t) == /\ At(t, "idle") /\ Goto(t, "drop")
           /\ context' = context \ {t}
           /\ UNCHANGED <<registry, locals, tx, table, fault>>

\* ~ThreadContext deletes an open transaction; its id stays active.
DropContext(t) == /\ At(t, "drop") /\ Goto(t, "gone")
                  /\ tx' = [tx EXCEPT ![t] = NoTx]
                  /\ UNCHANGED <<registry, context, locals, table, fault>>
-----------------------------------------------------------------------------
(* Table::beginTransaction.                                                *)

BeginTransaction(t) == /\ At(t, "idle") /\ Goto(t, "next")
                       /\ UNCHANGED <<registry, context, locals, tx, table, fault>>

\* The counter is read again instead of advanced.
ReusedId == IF currentId = 0 THEN 1 ELSE currentId

\* The counter is read before it is advanced.
UnadvancedId == currentId

NextId == currentId + 1

\* getNextTransactionId, under m_transactionIdMutex.
GetNextTransactionId(t) ==
  /\ At(t, "next") /\ Goto(t, "min")
  /\ currentId < MaxId
  /\ currentId' = NextId
  /\ active' = active \cup {NextId}
  /\ id' = [id EXCEPT ![t] = NextId]
  /\ UNCHANGED <<context, call, implicit, view, outcome, stamped, tx, table, fault>>

\* getMinActiveTransactionId, under the lock again, and the viewpoint.
GetMinActive(t) ==
  /\ At(t, "min") /\ Goto(t, "create")
  /\ \E m \in 0 .. currentId :
       /\ IsMinActive(m)
       /\ view' = [view EXCEPT ![t] = Viewpoint(id[t], m)]
  /\ UNCHANGED <<registry, context, call, implicit, id, outcome, stamped, tx, table, fault>>

\* ThreadContext::beginTransaction: throws when a transaction is open, and the
\* id drawn for the new one stays active.
CreateTransaction(t) ==
  /\ At(t, "create")
  /\ \/ /\ Open(t)
        /\ Goto(t, "idle")
        /\ UNCHANGED tx
     \/ /\ ~Open(t)
        /\ Goto(t, IF implicit[t] THEN "row" ELSE "idle")
        /\ tx' = [tx EXCEPT ![t] = [id |-> id[t], view |-> view[t], rows |-> <<>>]]
  /\ id' = [id EXCEPT ![t] = 0]
  /\ view' = [view EXCEPT ![t] = 0]
  /\ UNCHANGED <<registry, context, call, implicit, outcome, stamped, table, fault>>
-----------------------------------------------------------------------------
(* insertRow, deleteRow and updateRow.                                     *)

RowCall(t, op) ==
  /\ At(t, "idle")
  /\ Len(tx[t].rows) < MaxAffected
  /\ Goto(t, IF Open(t) THEN "row" ELSE "next")
  /\ call' = [call EXCEPT ![t] = op]
  /\ implicit' = [implicit EXCEPT ![t] = ~Open(t)]
  /\ UNCHANGED <<registry, context, id, view, outcome, stamped, tx, table, fault>>

\* Where a row call goes on, and what an implicit commit starts from.
AfterRow(t) == /\ Goto(t, IF implicit[t] THEN "stamp" ELSE "idle")
               /\ id' = [id EXCEPT ![t] = IF implicit[t] THEN tx[t].id ELSE 0]
               /\ outcome' = [outcome EXCEPT ![t] = "Committed"]
               /\ call' = [call EXCEPT ![t] = NoCall]
               /\ implicit' = [implicit EXCEPT ![t] = FALSE]
               /\ UNCHANGED <<registry, context, view, stamped, fault>>

\* Transaction::addAffectedRow.
Affected(t, r) == [tx EXCEPT ![t].rows = Append(@, r)]

\* SkipList::insert; a key already there is rejected.
InsertRow(t) ==
  /\ At(t, "row") /\ call[t].op = "insert"
  /\ \/ /\ index[call[t].key] # Null
        /\ UNCHANGED <<tx, table>>
     \/ /\ index[call[t].key] = Null
        /\ \E r \in Row :
             /\ status[r] = "free"
             /\ index' = [index EXCEPT ![call[t].key] = r]
             /\ status' = [status EXCEPT ![r] = "None"]
             /\ writer' = [writer EXCEPT ![r] = tx[t].id]
             /\ tx' = Affected(t, r)
  /\ AfterRow(t)

\* SkipList::remove deletes the RowInfo in place; pointers to it go stale.
DeleteRow(t) ==
  /\ At(t, "row") /\ call[t].op = "delete"
  /\ LET r == index[call[t].key]
     IN  \/ r = Null /\ UNCHANGED <<tx, table>>
         \/ /\ r # Null
            /\ index' = [index EXCEPT ![call[t].key] = Null]
            /\ status' = [status EXCEPT ![r] = "free"]
            /\ tx' = [u \in Thread |->
                        [tx[u] EXCEPT !.rows = [i \in DOMAIN @ |-> IF @[i] = r THEN Freed ELSE @[i]]]]
            /\ UNCHANGED writer
  /\ AfterRow(t)

\* SkipList::update replaces the data in place and keeps the status.
UpdateRow(t) ==
  /\ At(t, "row") /\ call[t].op = "update"
  /\ LET r == index[call[t].key]
     IN  \/ r = Null /\ UNCHANGED <<tx, table>>
         \/ /\ r # Null
            /\ writer' = [writer EXCEPT ![r] = tx[t].id]
            /\ tx' = Affected(t, r)
            /\ UNCHANGED <<index, status>>
  /\ AfterRow(t)
-----------------------------------------------------------------------------
(* Table::commit and Table::rollback.                                      *)

\* With no transaction open the null pointer is asked for its id.
Finish(t, o) ==
  /\ At(t, "idle")
  /\ \/ /\ ~Open(t)
        /\ fault' = "null"
        /\ UNCHANGED <<pc, id, outcome>>
     \/ /\ Open(t)
        /\ Goto(t, "stamp")
        /\ id' = [id EXCEPT ![t] = tx[t].id]
        /\ outcome' = [outcome EXCEPT ![t] = o]
        /\ UNCHANGED fault
  /\ UNCHANGED <<registry, context, call, implicit, view, stamped, tx, table>>

\* The last affected row is left out.
RowsButLast(t) == Len(tx[t].rows) - 1

RowsToStamp(t) == Len(tx[t].rows)

\* commitMemory and abortTransaction: the next affected row.
StampRow(t) ==
  /\ At(t, "stamp")
  /\ stamped[t] < RowsToStamp(t)
  /\ LET r == tx[t].rows[stamped[t] + 1]
     IN  \/ /\ r = Freed
            /\ fault' = "freed"
            /\ UNCHANGED <<stamped, status>>
         \/ /\ r # Freed
            /\ status' = [status EXCEPT ![r] = outcome[t]]
            /\ stamped' = [stamped EXCEPT ![t] = @ + 1]
            /\ UNCHANGED fault
  /\ UNCHANGED <<registry, context, pc, call, implicit, id, view, outcome, tx, index, writer>>

\* A transaction without affected rows ends without a release.
EmptyIsDone(t) ==
  /\ At(t, "stamp")
  /\ stamped[t] >= RowsToStamp(t)
  /\ Goto(t, IF tx[t].rows = <<>> THEN "idle" ELSE "release")
  /\ tx' = [tx EXCEPT ![t] = NoTx]
  /\ outcome' = [outcome EXCEPT ![t] = "Committed"]
  /\ stamped' = [stamped EXCEPT ![t] = 0]
  /\ UNCHANGED <<registry, context, call, implicit, id, view, table, fault>>

\* ThreadContext::committed and aborted delete the transaction.
DeleteTransaction(t) ==
  /\ At(t, "stamp")
  /\ stamped[t] >= RowsToStamp(t)
  /\ Goto(t, "release")
  /\ tx' = [tx EXCEPT ![t] = NoTx]
  /\ outcome' = [outcome EXCEPT ![t] = "Committed"]
  /\ stamped' = [stamped EXCEPT ![t] = 0]
  /\ UNCHANGED <<registry, context, call, implicit, id, view, table, fault>>

RemoveTransactionActive(t) ==
  /\ At(t, "release") /\ Goto(t, "idle")
  /\ active' = active \ {id[t]}
  /\ id' = [id EXCEPT ![t] = 0]
  /\ UNCHANGED <<currentId, context, call, implicit, view, outcome, stamped, tx, table, fault>>
-----------------------------------------------------------------------------
\* What a thread does inside a call, and the calls it may make.
Step(t) == \/ GetNextTransactionId(t) \/ GetMinActive(t) \/ CreateTransaction(t)
           \/ InsertRow(t) \/ DeleteRow(t) \/ UpdateRow(t)
           \/ StampRow(t) \/ DeleteTransaction(t) \/ RemoveTransactionActive(t)
           \/ DropContext(t)

Call(t) == \/ Register(t) \/ BeginTransaction(t) \/ Exit(t)
           \/ \E op \in Operation : RowCall(t, op)
           \/ \E o \in {"Committed", "Aborted"} : Finish(t, o)

Next == \E t \in Thread : Step(t) \/ Call(t)

Spec == Init /\ [][Next]_vars
-----------------------------------------------------------------------------
(* Properties.                                                             *)

\* Active ids come from the counter, a row call under way names its operation,
\* and pointers lead to rows or are known to be stale.
TypeOK ==
  /\ currentId \in 0 .. MaxId /\ active \subseteq 1 .. currentId
  /\ context \subseteq Thread
  /\ pc \in [Thread -> {"start", "idle", "next", "min", "create", "row", "stamp",
                        "release", "drop", "gone"}]
  /\ call \in [Thread -> Operation \cup {NoCall}]
  /\ \A t \in Thread : implicit[t] \/ pc[t] = "row" => call[t] \in Operation
  /\ implicit \in [Thread -> BOOLEAN]
  /\ id \in [Thread -> Nat] /\ view \in [Thread -> Nat]
  /\ outcome \in [Thread -> {"Committed", "Aborted"}]
  /\ stamped \in [Thread -> Nat]
  /\ tx \in [Thread -> [id : Nat, view : Nat, rows : Seq(Row \cup {Freed})]]
  /\ index \in [Key -> Row \cup {Null}]
  /\ status \in [Row -> {"free", "None", "Committed", "Aborted"}]
  /\ writer \in [Row -> Nat]
  /\ fault \in {"none", "null", "freed"}

\* The id of an open transaction is active, also while a thread has drawn an id
\* and not yet made its transaction, or deleted the transaction and not yet
\* released the id; no two threads hold the same id.  Otherwise one thread's
\* commit would release another's horizon.
Held(t) == (IF Open(t) THEN {tx[t].id} ELSE {})
             \cup (IF pc[t] \in {"min", "create", "release"} THEN {id[t]} ELSE {})

HeldIdsActive ==
  /\ \A t \in Thread : Held(t) \subseteq active
  /\ \A t, u \in Thread : t # u => Held(t) \cap Held(u) = {}

\* No transaction that is active, or can still become active, is within the
\* viewpoint of an open one.  The minimum is read in a critical section of its
\* own after the id was drawn: other threads draw, commit and roll back between
\* the two, and between the read and the creation of the transaction.
ViewpointStable ==
  \A t \in Thread : Open(t) => /\ tx[t].view <= currentId
                               /\ \A i \in active : tx[t].view < i

Bounds(h, S) == \A i \in S : h <= i

\* The horizon never moves back: a number that no active id is below, nor the
\* next one to be drawn, stays so for ever, in spite of nested begins that throw
\* and of threads that exit with an open transaction.
HorizonMonotone ==
  [][\A h \in 1 .. currentId + 1 : Bounds(h, active) => Bounds(h, active')]_vars

\* Giving an id up and releasing it are one: an id leaves the active ids when the thread
\* that holds it gives it up, on every path through commits, rollbacks, implicit
\* transactions and calls that fail; and a thread gives an id up by releasing it, except
\* for the new id of a begin that throws because a transaction is open, and for the id of
\* a transaction that is open when the thread exits.
IdsReleased ==
  [][/\ \A i \in active \ active' : \E t \in Thread : i \in Held(t) /\ i \notin Held(t)'
     /\ \A t \in Thread : \A i \in Held(t) :
          \/ i \in Held(t)' \/ i \notin active'
          \/ pc[t] = "create" /\ Open(t) /\ i = id[t]
          \/ pc[t] = "drop"]_vars

\* What a transaction finds in its snapshot is decided: a row in the index whose
\* last writer is within an open viewpoint is committed or aborted.  The rows of
\* a commit are stamped one by one, before the id is released.
SnapshotRowsDecided ==
  \A t \in Thread, r \in Row :
    Open(t) /\ status[r] # "free" /\ writer[r] <= tx[t].view =>
      status[r] \in {"Committed", "Aborted"}

\* The manager never keeps a pointer to a ThreadContext that was destroyed.
RegistryLive == \A t \in context : pc[t] \notin {"drop", "gone"}
=============================================================================
