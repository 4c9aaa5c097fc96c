----------------------- MODULE TableTransactions_proofs -----------------------
(***************************************************************************)
(* Proofs about TableTransactions, for any number of threads, keys, rows   *)
(* and transactions.                                                       *)
(***************************************************************************)
EXTENDS TableTransactions, SequenceTheorems, TLAPS

\* Marking the pointers to a deleted row keeps a sequence of pointers one.
LEMMA MarkFreed ==
  ASSUME NEW s \in Seq(Row \cup {Freed}), NEW r
  PROVE  [i \in DOMAIN s |-> IF s[i] = r THEN Freed ELSE s[i]] \in Seq(Row \cup {Freed})
<1>1. Len(s) \in Nat /\ DOMAIN s = 1 .. Len(s)
  OBVIOUS
<1>2. [i \in 1 .. Len(s) |-> IF s[i] = r THEN Freed ELSE s[i]] \in [1 .. Len(s) -> Row \cup {Freed}]
  OBVIOUS
<1> QED
  BY <1>1, <1>2, SeqDef

\* So does adding one.
LEMMA AppendRow ==
  ASSUME TypeOK, NEW t \in Thread, NEW r \in Row
  PROVE  Affected(t, r) \in [Thread -> [id : Nat, view : Nat, rows : Seq(Row \cup {Freed})]]
<1>1. tx[t].rows \in Seq(Row \cup {Freed})
  BY DEF TypeOK
<1>2. Append(tx[t].rows, r) \in Seq(Row \cup {Freed})
  BY <1>1
<1>3. [tx[t] EXCEPT !.rows = Append(@, r)] \in [id : Nat, view : Nat, rows : Seq(Row \cup {Freed})]
  BY <1>2 DEF TypeOK
<1> QED
  BY <1>3 DEF TypeOK, Affected

\* The first state is well typed.
LEMMA InitTypeOK == Init => TypeOK
BY BoundAssumption DEF Init, TypeOK, NoTx, NoCall, Operation

USE DEF registry, locals, table, At, Goto

\* Every step keeps the state well typed.
LEMMA NextTypeOK == TypeOK /\ [Next]_vars => TypeOK'
<1> SUFFICES ASSUME TypeOK, [Next]_vars PROVE TypeOK'
  OBVIOUS
<1>1. CASE UNCHANGED vars
  BY <1>1 DEF TypeOK, vars
<1>2. ASSUME NEW t \in Thread, Register(t) PROVE TypeOK'
  BY <1>2 DEF TypeOK, Register
<1>3. ASSUME NEW t \in Thread, Exit(t) PROVE TypeOK'
  BY <1>3 DEF TypeOK, Exit
<1>4. ASSUME NEW t \in Thread, DropContext(t) PROVE TypeOK'
  BY SMTT(20), <1>4 DEF TypeOK, DropContext, NoTx
<1>5. ASSUME NEW t \in Thread, BeginTransaction(t) PROVE TypeOK'
  BY <1>5 DEF TypeOK, BeginTransaction
<1>6. ASSUME NEW t \in Thread, GetNextTransactionId(t) PROVE TypeOK'
  BY SMTT(20), <1>6, BoundAssumption DEF TypeOK, GetNextTransactionId, NextId
<1>7. ASSUME NEW t \in Thread, GetMinActive(t) PROVE TypeOK'
  BY SMTT(20), <1>7 DEF TypeOK, GetMinActive, Viewpoint
<1>8. ASSUME NEW t \in Thread, CreateTransaction(t) PROVE TypeOK'
  <2>1. tx' \in [Thread -> [id : Nat, view : Nat, rows : Seq(Row \cup {Freed})]]
    <3>1. [id |-> id[t], view |-> view[t], rows |-> <<>>]
            \in [id : Nat, view : Nat, rows : Seq(Row \cup {Freed})]
      BY DEF TypeOK
    <3>2. \/ tx' = tx
          \/ tx' = [tx EXCEPT ![t] = [id |-> id[t], view |-> view[t], rows |-> <<>>]]
      BY <1>8 DEF CreateTransaction
    <3> QED
      BY <3>1, <3>2 DEF TypeOK
  <2>2. /\ id' \in [Thread -> Nat] /\ view' \in [Thread -> Nat]
        /\ pc' \in [Thread -> {"start", "idle", "next", "min", "create", "row", "stamp",
                              "release", "drop", "gone"}]
    BY <1>8 DEF TypeOK, CreateTransaction
  <2>3. \A u \in Thread : implicit'[u] \/ pc'[u] = "row" => call'[u] \in Operation
    BY <1>8 DEF TypeOK, CreateTransaction
  <2> QED
    BY <1>8, <2>1, <2>2, <2>3 DEF TypeOK, CreateTransaction
<1>9. ASSUME NEW t \in Thread, NEW op \in Operation, RowCall(t, op) PROVE TypeOK'
  BY <1>9 DEF TypeOK, RowCall
<1>10. ASSUME NEW t \in Thread, InsertRow(t) PROVE TypeOK'
  <2>1. tx' \in [Thread -> [id : Nat, view : Nat, rows : Seq(Row \cup {Freed})]]
    <3>1. CASE UNCHANGED tx
      BY <3>1 DEF TypeOK
    <3>2. ASSUME NEW r \in Row, tx' = Affected(t, r)
          PROVE  tx' \in [Thread -> [id : Nat, view : Nat, rows : Seq(Row \cup {Freed})]]
      BY <3>2, AppendRow
    <3> QED
      BY <1>10, <3>1, <3>2 DEF InsertRow
  <2>2. /\ index' \in [Key -> Row \cup {Null}]
        /\ status' \in [Row -> {"free", "None", "Committed", "Aborted"}]
        /\ writer' \in [Row -> Nat]
    <3>1. CASE UNCHANGED table
      BY ZenonT(20), <3>1 DEF TypeOK, table
    <3>2. ASSUME NEW r \in Row,
                 /\ index' = [index EXCEPT ![call[t].key] = r]
                 /\ status' = [status EXCEPT ![r] = "None"]
                 /\ writer' = [writer EXCEPT ![r] = tx[t].id]
          PROVE  /\ index' \in [Key -> Row \cup {Null}]
                 /\ status' \in [Row -> {"free", "None", "Committed", "Aborted"}]
                 /\ writer' \in [Row -> Nat]
      <4>1. tx[t].id \in Nat
        BY DEF TypeOK
      <4>2. /\ index \in [Key -> Row \cup {Null}]
            /\ status \in [Row -> {"free", "None", "Committed", "Aborted"}]
            /\ writer \in [Row -> Nat]
        BY DEF TypeOK
      <4>3. index' \in [Key -> Row \cup {Null}]
        BY <3>2, <4>2
      <4>4. status' \in [Row -> {"free", "None", "Committed", "Aborted"}]
        BY <3>2, <4>2
      <4>5. writer' \in [Row -> Nat]
        BY <3>2, <4>1, <4>2
      <4> QED
        BY <4>3, <4>4, <4>5
    <3> QED
      BY ZenonT(20), <1>10, <3>1, <3>2 DEF InsertRow
  <2> QED
    BY ZenonT(20), <1>10, <2>1, <2>2 DEF TypeOK, InsertRow, AfterRow
<1>11. ASSUME NEW t \in Thread, DeleteRow(t) PROVE TypeOK'
  <2>1. tx' \in [Thread -> [id : Nat, view : Nat, rows : Seq(Row \cup {Freed})]]
    <3>1. CASE UNCHANGED tx
      BY <3>1 DEF TypeOK
    <3>2. CASE tx' = [u \in Thread |-> [tx[u] EXCEPT !.rows =
                        [i \in DOMAIN @ |-> IF @[i] = index[call[t].key] THEN Freed ELSE @[i]]]]
      <4>1. ASSUME NEW u \in Thread
            PROVE  [i \in DOMAIN tx[u].rows |->
                      IF tx[u].rows[i] = index[call[t].key] THEN Freed ELSE tx[u].rows[i]]
                   \in Seq(Row \cup {Freed})
        <5>1. tx[u].rows \in Seq(Row \cup {Freed})
          BY DEF TypeOK
        <5> QED
          BY <5>1, MarkFreed
      <4>2. \A u \in Thread : tx[u] \in [id : Nat, view : Nat, rows : Seq(Row \cup {Freed})]
        BY DEF TypeOK
      <4>3. ASSUME NEW u \in Thread, NEW q \in Seq(Row \cup {Freed})
            PROVE  [tx[u] EXCEPT !.rows = q] \in [id : Nat, view : Nat, rows : Seq(Row \cup {Freed})]
        BY SMTT(20), <4>2
      <4>4. ASSUME NEW u \in Thread
            PROVE  [tx[u] EXCEPT !.rows =
                      [i \in DOMAIN @ |-> IF @[i] = index[call[t].key] THEN Freed ELSE @[i]]]
                     \in [id : Nat, view : Nat, rows : Seq(Row \cup {Freed})]
        BY ZenonT(20), <4>1, <4>3
      <4> QED
        BY ZenonT(20), <3>2, <4>4
    <3> QED
      BY <1>11, <3>1, <3>2 DEF DeleteRow
  <2>2. /\ index' \in [Key -> Row \cup {Null}]
        /\ status' \in [Row -> {"free", "None", "Committed", "Aborted"}]
        /\ writer' \in [Row -> Nat]
    BY <1>11 DEF TypeOK, DeleteRow
  <2> QED
    BY <1>11, <2>1, <2>2 DEF TypeOK, DeleteRow, AfterRow
<1>12. ASSUME NEW t \in Thread, UpdateRow(t) PROVE TypeOK'
  <2>1. tx' \in [Thread -> [id : Nat, view : Nat, rows : Seq(Row \cup {Freed})]]
    <3>1. call[t].key \in Key
      BY <1>12 DEF TypeOK, UpdateRow, Operation
    <3>2. CASE UNCHANGED tx
      BY <3>2 DEF TypeOK
    <3>3. CASE index[call[t].key] # Null /\ tx' = Affected(t, index[call[t].key])
      <4>1. index[call[t].key] \in Row
        BY <3>1, <3>3 DEF TypeOK
      <4> QED
        BY <3>3, <4>1, AppendRow
    <3> QED
      BY <1>12, <3>2, <3>3 DEF UpdateRow
  <2>2. /\ index' \in [Key -> Row \cup {Null}]
        /\ status' \in [Row -> {"free", "None", "Committed", "Aborted"}]
        /\ writer' \in [Row -> Nat]
    BY <1>12 DEF TypeOK, UpdateRow
  <2> QED
    BY <1>12, <2>1, <2>2 DEF TypeOK, UpdateRow, AfterRow
<1>13. ASSUME NEW t \in Thread, NEW o \in {"Committed", "Aborted"}, Finish(t, o) PROVE TypeOK'
  BY <1>13 DEF TypeOK, Finish
<1>14. ASSUME NEW t \in Thread, StampRow(t) PROVE TypeOK'
  <2>1. status' \in [Row -> {"free", "None", "Committed", "Aborted"}]
    BY <1>14 DEF TypeOK, StampRow
  <2>2. fault' \in {"none", "null", "freed"}
    BY <1>14 DEF TypeOK, StampRow
  <2>3. stamped' \in [Thread -> Nat]
    <3>1. UNCHANGED stamped \/ stamped' = [stamped EXCEPT ![t] = stamped[t] + 1]
      BY <1>14 DEF StampRow
    <3>2. stamped[t] + 1 \in Nat
      BY DEF TypeOK
    <3> QED
      BY <3>1, <3>2 DEF TypeOK
  <2> QED
    BY <1>14, <2>1, <2>2, <2>3 DEF TypeOK, StampRow
<1>15. ASSUME NEW t \in Thread, DeleteTransaction(t) PROVE TypeOK'
  <2>1. tx' \in [Thread -> [id : Nat, view : Nat, rows : Seq(Row \cup {Freed})]]
    <3>1. NoTx \in [id : Nat, view : Nat, rows : Seq(Row \cup {Freed})]
      BY DEF NoTx
    <3>2. tx' = [tx EXCEPT ![t] = NoTx]
      BY <1>15 DEF DeleteTransaction
    <3>3. tx \in [Thread -> [id : Nat, view : Nat, rows : Seq(Row \cup {Freed})]]
      BY DEF TypeOK
    <3> QED
      BY <3>1, <3>2, <3>3
  <2>2. outcome' \in [Thread -> {"Committed", "Aborted"}] /\ stamped' \in [Thread -> Nat]
    BY <1>15 DEF TypeOK, DeleteTransaction
  <2> QED
    BY <1>15, <2>1, <2>2 DEF TypeOK, DeleteTransaction
<1>16. ASSUME NEW t \in Thread, RemoveTransactionActive(t) PROVE TypeOK'
  BY <1>16 DEF TypeOK, RemoveTransactionActive
<1> QED
  BY <1>1, <1>2, <1>3, <1>4, <1>5, <1>6, <1>7, <1>8, <1>9, <1>10, <1>11, <1>12,
     <1>13, <1>14, <1>15, <1>16 DEF Next, Step, Call

\* The state stays well typed.
THEOREM TypeCorrect == Spec => []TypeOK
BY InitTypeOK, NextTypeOK, PTL DEF Spec
-----------------------------------------------------------------------------
(* The active ids.  HeldIdsActive and ViewpointStable are not inductive by *)
(* themselves: a release must know that nobody else holds the id, and a    *)
(* viewpoint must be good while it is still a local of beginTransaction.   *)

Phase(t) == /\ pc[t] = "row" => Open(t)
            /\ pc[t] = "stamp" => Open(t) /\ id[t] = tx[t].id
            /\ pc[t] = "release" => ~Open(t)

PendingBelow(t) == pc[t] = "create" => \A i \in active : view[t] < i

OpenBelow(t) == Open(t) => tx[t].view <= currentId /\ \A i \in active : tx[t].view < i

ThreadOK(t) == Phase(t) /\ PendingBelow(t) /\ OpenBelow(t)

IdInv == HeldIdsActive /\ \A t \in Thread : ThreadOK(t)

\* The first state satisfies it.
LEMMA InitIdInv == Init => IdInv
BY DEF Init, IdInv, HeldIdsActive, Held, ThreadOK, Phase, PendingBelow, OpenBelow, Open, NoTx

\* A step that leaves the registry alone changes only what its thread t knows,
\* and t holds no id it did not hold.
LEMMA SameRegistry ==
  ASSUME IdInv, NEW t \in Thread, UNCHANGED registry,
         \A u \in Thread \ {t} :
           /\ pc'[u] = pc[u] /\ id'[u] = id[u] /\ view'[u] = view[u]
           /\ tx'[u].id = tx[u].id /\ tx'[u].view = tx[u].view,
         Held(t)' \subseteq Held(t),
         ThreadOK(t)'
  PROVE  IdInv'
<1>1. \A u \in Thread \ {t} : Held(u)' = Held(u) /\ ThreadOK(u)'
  BY DEF IdInv, ThreadOK, Phase, PendingBelow, OpenBelow, Held, Open
<1>2. \A u \in Thread : Held(u)' \subseteq Held(u) /\ ThreadOK(u)'
  BY <1>1
<1>3. active' = active
  OBVIOUS
<1> QED
  BY <1>2, <1>3 DEF IdInv, HeldIdsActive

\* Deleting a row marks pointers and leaves ids and viewpoints.
LEMMA MarkKeepsIds ==
  ASSUME TypeOK, NEW t \in Thread, DeleteRow(t)
  PROVE  \A u \in Thread : tx'[u].id = tx[u].id /\ tx'[u].view = tx[u].view
<1>1. CASE UNCHANGED tx
  BY <1>1
<1>2. CASE tx' = [u \in Thread |-> [tx[u] EXCEPT !.rows =
                    [i \in DOMAIN @ |-> IF @[i] = index[call[t].key] THEN Freed ELSE @[i]]]]
  <2> TAKE u \in Thread
  <2>1. tx[u] \in [id : Nat, view : Nat, rows : Seq(Row \cup {Freed})]
    BY DEF TypeOK
  <2> QED
    BY <1>2, <2>1
<1> QED
  BY <1>1, <1>2 DEF DeleteRow

\* Every step preserves it.
LEMMA NextIdInv == TypeOK /\ IdInv /\ [Next]_vars => IdInv'
<1> SUFFICES ASSUME TypeOK, IdInv, [Next]_vars PROVE IdInv'
  OBVIOUS
<1> USE DEF Phase, PendingBelow, OpenBelow, Open
<1>1. CASE UNCHANGED vars
  BY <1>1 DEF vars, IdInv, HeldIdsActive, Held, ThreadOK
<1>2. ASSUME NEW t \in Thread, Register(t) PROVE IdInv'
  <2>1. /\ UNCHANGED registry
        /\ \A u \in Thread \ {t} :
             /\ pc'[u] = pc[u] /\ id'[u] = id[u] /\ view'[u] = view[u]
             /\ tx'[u].id = tx[u].id /\ tx'[u].view = tx[u].view
    BY <1>2 DEF TypeOK, Register
  <2>2. Held(t)' \subseteq Held(t)
    BY <1>2 DEF TypeOK, Register, Held, IdInv, ThreadOK
  <2>3. ThreadOK(t)'
    BY <1>2 DEF TypeOK, Register, Held, IdInv, HeldIdsActive, ThreadOK
  <2> QED
    BY <2>1, <2>2, <2>3, SameRegistry
<1>3. ASSUME NEW t \in Thread, Exit(t) PROVE IdInv'
  <2>1. /\ UNCHANGED registry
        /\ \A u \in Thread \ {t} :
             /\ pc'[u] = pc[u] /\ id'[u] = id[u] /\ view'[u] = view[u]
             /\ tx'[u].id = tx[u].id /\ tx'[u].view = tx[u].view
    BY <1>3 DEF TypeOK, Exit
  <2>2. Held(t)' \subseteq Held(t)
    BY <1>3 DEF TypeOK, Exit, Held, IdInv, ThreadOK
  <2>3. ThreadOK(t)'
    BY <1>3 DEF TypeOK, Exit, Held, IdInv, HeldIdsActive, ThreadOK
  <2> QED
    BY <2>1, <2>2, <2>3, SameRegistry
<1>4. ASSUME NEW t \in Thread, DropContext(t) PROVE IdInv'
  <2>1. /\ UNCHANGED registry
        /\ \A u \in Thread \ {t} :
             /\ pc'[u] = pc[u] /\ id'[u] = id[u] /\ view'[u] = view[u]
             /\ tx'[u].id = tx[u].id /\ tx'[u].view = tx[u].view
    BY <1>4 DEF TypeOK, DropContext, NoTx
  <2>2. Held(t)' \subseteq Held(t)
    BY <1>4 DEF TypeOK, DropContext, NoTx, Held, IdInv, ThreadOK
  <2>3. ThreadOK(t)'
    BY <1>4 DEF TypeOK, DropContext, NoTx, Held, IdInv, HeldIdsActive, ThreadOK
  <2> QED
    BY <2>1, <2>2, <2>3, SameRegistry
<1>5. ASSUME NEW t \in Thread, BeginTransaction(t) PROVE IdInv'
  <2>1. /\ UNCHANGED registry
        /\ \A u \in Thread \ {t} :
             /\ pc'[u] = pc[u] /\ id'[u] = id[u] /\ view'[u] = view[u]
             /\ tx'[u].id = tx[u].id /\ tx'[u].view = tx[u].view
    BY <1>5 DEF TypeOK, BeginTransaction
  <2>2. Held(t)' \subseteq Held(t)
    BY <1>5 DEF TypeOK, BeginTransaction, Held, IdInv, ThreadOK
  <2>3. ThreadOK(t)'
    BY <1>5 DEF TypeOK, BeginTransaction, Held, IdInv, HeldIdsActive, ThreadOK
  <2> QED
    BY <2>1, <2>2, <2>3, SameRegistry
<1>6. ASSUME NEW t \in Thread, GetMinActive(t) PROVE IdInv'
  <2>1. /\ UNCHANGED registry
        /\ \A u \in Thread \ {t} :
             /\ pc'[u] = pc[u] /\ id'[u] = id[u] /\ view'[u] = view[u]
             /\ tx'[u].id = tx[u].id /\ tx'[u].view = tx[u].view
    BY <1>6 DEF TypeOK, GetMinActive, IsMinActive, Viewpoint
  <2>2. Held(t)' \subseteq Held(t)
    BY <1>6 DEF TypeOK, GetMinActive, IsMinActive, Viewpoint, Held, IdInv, ThreadOK
  <2>3. ThreadOK(t)'
    BY <1>6 DEF TypeOK, GetMinActive, IsMinActive, Viewpoint, Held, IdInv, HeldIdsActive, ThreadOK
  <2> QED
    BY <2>1, <2>2, <2>3, SameRegistry
<1>7. ASSUME NEW t \in Thread, CreateTransaction(t) PROVE IdInv'
  <2>1. /\ UNCHANGED registry
        /\ \A u \in Thread \ {t} :
             /\ pc'[u] = pc[u] /\ id'[u] = id[u] /\ view'[u] = view[u]
             /\ tx'[u].id = tx[u].id /\ tx'[u].view = tx[u].view
    BY <1>7 DEF TypeOK, CreateTransaction
  <2>2. Held(t)' \subseteq Held(t)
    BY <1>7 DEF TypeOK, CreateTransaction, Held, IdInv, ThreadOK
  <2>3. ThreadOK(t)'
    BY <1>7 DEF TypeOK, CreateTransaction, Held, IdInv, HeldIdsActive, ThreadOK
  <2> QED
    BY <2>1, <2>2, <2>3, SameRegistry
<1>8. ASSUME NEW t \in Thread, NEW op \in Operation, RowCall(t, op) PROVE IdInv'
  <2>1. /\ UNCHANGED registry
        /\ \A u \in Thread \ {t} :
             /\ pc'[u] = pc[u] /\ id'[u] = id[u] /\ view'[u] = view[u]
             /\ tx'[u].id = tx[u].id /\ tx'[u].view = tx[u].view
    BY <1>8 DEF TypeOK, RowCall
  <2>2. Held(t)' \subseteq Held(t)
    BY <1>8 DEF TypeOK, RowCall, Held, IdInv, ThreadOK
  <2>3. ThreadOK(t)'
    BY <1>8 DEF TypeOK, RowCall, Held, IdInv, HeldIdsActive, ThreadOK
  <2> QED
    BY <2>1, <2>2, <2>3, SameRegistry
<1>9. ASSUME NEW t \in Thread, InsertRow(t) PROVE IdInv'
  <2>1. /\ UNCHANGED registry
        /\ \A u \in Thread \ {t} :
             /\ pc'[u] = pc[u] /\ id'[u] = id[u] /\ view'[u] = view[u]
             /\ tx'[u].id = tx[u].id /\ tx'[u].view = tx[u].view
    BY <1>9 DEF TypeOK, InsertRow, AfterRow, Affected
  <2>2. Held(t)' \subseteq Held(t)
    BY <1>9 DEF TypeOK, InsertRow, AfterRow, Affected, Held, IdInv, ThreadOK
  <2>3. ThreadOK(t)'
    <3>1. tx'[t].id = tx[t].id /\ tx'[t].view = tx[t].view
      BY <1>9 DEF TypeOK, InsertRow, Affected
    <3>2. /\ pc'[t] \in {"stamp", "idle"}
          /\ pc'[t] = "stamp" => id'[t] = tx[t].id
          /\ Open(t) /\ UNCHANGED <<currentId, active>>
      BY <1>9 DEF TypeOK, InsertRow, AfterRow, IdInv, ThreadOK
    <3> QED
      BY <3>1, <3>2 DEF IdInv, ThreadOK
  <2> QED
    BY <2>1, <2>2, <2>3, SameRegistry
<1>10. ASSUME NEW t \in Thread, DeleteRow(t) PROVE IdInv'
  <2>1. /\ UNCHANGED registry
        /\ \A u \in Thread \ {t} :
             /\ pc'[u] = pc[u] /\ id'[u] = id[u] /\ view'[u] = view[u]
             /\ tx'[u].id = tx[u].id /\ tx'[u].view = tx[u].view
    <3>1. \A u \in Thread : tx'[u].id = tx[u].id /\ tx'[u].view = tx[u].view
      BY <1>10, MarkKeepsIds
    <3> QED
      BY <1>10, <3>1 DEF TypeOK, DeleteRow, AfterRow
  <2>2. Held(t)' \subseteq Held(t)
    BY <1>10 DEF TypeOK, DeleteRow, AfterRow, Held, IdInv, ThreadOK
  <2>3. ThreadOK(t)'
    <3>1. tx'[t].id = tx[t].id /\ tx'[t].view = tx[t].view
      BY <1>10, MarkKeepsIds
    <3>2. /\ pc'[t] \in {"stamp", "idle"}
          /\ pc'[t] = "stamp" => id'[t] = tx[t].id
          /\ Open(t) /\ UNCHANGED <<currentId, active>>
      BY <1>10 DEF TypeOK, DeleteRow, AfterRow, IdInv, ThreadOK
    <3> QED
      BY <3>1, <3>2 DEF IdInv, ThreadOK
  <2> QED
    BY <2>1, <2>2, <2>3, SameRegistry
<1>11. ASSUME NEW t \in Thread, UpdateRow(t) PROVE IdInv'
  <2>1. /\ UNCHANGED registry
        /\ \A u \in Thread \ {t} :
             /\ pc'[u] = pc[u] /\ id'[u] = id[u] /\ view'[u] = view[u]
             /\ tx'[u].id = tx[u].id /\ tx'[u].view = tx[u].view
    BY <1>11 DEF TypeOK, UpdateRow, AfterRow, Affected
  <2>2. Held(t)' \subseteq Held(t)
    BY <1>11 DEF TypeOK, UpdateRow, AfterRow, Affected, Held, IdInv, ThreadOK
  <2>3. ThreadOK(t)'
    <3>1. tx'[t].id = tx[t].id /\ tx'[t].view = tx[t].view
      BY <1>11 DEF TypeOK, UpdateRow, Affected
    <3>2. /\ pc'[t] \in {"stamp", "idle"}
          /\ pc'[t] = "stamp" => id'[t] = tx[t].id
          /\ Open(t) /\ UNCHANGED <<currentId, active>>
      BY <1>11 DEF TypeOK, UpdateRow, AfterRow, IdInv, ThreadOK
    <3> QED
      BY <3>1, <3>2 DEF IdInv, ThreadOK
  <2> QED
    BY <2>1, <2>2, <2>3, SameRegistry
<1>12. ASSUME NEW t \in Thread, NEW o \in {"Committed", "Aborted"}, Finish(t, o) PROVE IdInv'
  <2>1. /\ UNCHANGED registry
        /\ \A u \in Thread \ {t} :
             /\ pc'[u] = pc[u] /\ id'[u] = id[u] /\ view'[u] = view[u]
             /\ tx'[u].id = tx[u].id /\ tx'[u].view = tx[u].view
    BY <1>12 DEF TypeOK, Finish
  <2>2. Held(t)' \subseteq Held(t)
    BY <1>12 DEF TypeOK, Finish, Held, IdInv, ThreadOK
  <2>3. ThreadOK(t)'
    BY <1>12 DEF TypeOK, Finish, Held, IdInv, HeldIdsActive, ThreadOK
  <2> QED
    BY <2>1, <2>2, <2>3, SameRegistry
<1>13. ASSUME NEW t \in Thread, StampRow(t) PROVE IdInv'
  <2>1. /\ UNCHANGED registry
        /\ \A u \in Thread \ {t} :
             /\ pc'[u] = pc[u] /\ id'[u] = id[u] /\ view'[u] = view[u]
             /\ tx'[u].id = tx[u].id /\ tx'[u].view = tx[u].view
    BY <1>13 DEF TypeOK, StampRow
  <2>2. Held(t)' \subseteq Held(t)
    BY <1>13 DEF TypeOK, StampRow, Held, IdInv, ThreadOK
  <2>3. ThreadOK(t)'
    BY <1>13 DEF TypeOK, StampRow, Held, IdInv, HeldIdsActive, ThreadOK
  <2> QED
    BY <2>1, <2>2, <2>3, SameRegistry
<1>14. ASSUME NEW t \in Thread, DeleteTransaction(t) PROVE IdInv'
  <2>1. /\ UNCHANGED registry
        /\ \A u \in Thread \ {t} :
             /\ pc'[u] = pc[u] /\ id'[u] = id[u] /\ view'[u] = view[u]
             /\ tx'[u].id = tx[u].id /\ tx'[u].view = tx[u].view
    BY <1>14 DEF TypeOK, DeleteTransaction, NoTx
  <2>2. Held(t)' \subseteq Held(t)
    BY <1>14 DEF TypeOK, DeleteTransaction, NoTx, Held, IdInv, ThreadOK
  <2>3. ThreadOK(t)'
    BY <1>14 DEF TypeOK, DeleteTransaction, NoTx, Held, IdInv, HeldIdsActive, ThreadOK
  <2> QED
    BY <2>1, <2>2, <2>3, SameRegistry
<1>15. ASSUME NEW t \in Thread, GetNextTransactionId(t) PROVE IdInv'
  <2>1. /\ Held(t)' \subseteq Held(t) \cup {currentId + 1}
        /\ \A u \in Thread \ {t} : Held(u)' = Held(u)
    BY <1>15 DEF TypeOK, GetNextTransactionId, NextId, Held
  <2>2. active' = active \cup {currentId + 1} /\ currentId + 1 \notin active
    BY <1>15 DEF TypeOK, GetNextTransactionId, NextId
  <2>3. HeldIdsActive'
    BY <2>1, <2>2 DEF IdInv, HeldIdsActive
  <2>4. ASSUME NEW u \in Thread PROVE ThreadOK(u)'
    <3>1. Phase(u)'
      BY <1>15 DEF TypeOK, GetNextTransactionId, IdInv, ThreadOK
    <3>2. PendingBelow(u)'
      <4> SUFFICES ASSUME pc'[u] = "create" PROVE \A i \in active' : view'[u] < i
        OBVIOUS
      <4>1. pc[u] = "create" /\ view'[u] = view[u]
        BY <1>15 DEF TypeOK, GetNextTransactionId
      <4>2. id[u] \in active /\ \A i \in active : view[u] < i
        BY <4>1 DEF IdInv, ThreadOK, HeldIdsActive, Held
      <4>3. view[u] < currentId + 1
        BY <4>2 DEF TypeOK
      <4> QED
        BY <2>2, <4>1, <4>2, <4>3
    <3>3. OpenBelow(u)'
      <4>1. tx' = tx /\ currentId' = currentId + 1
        BY <1>15 DEF GetNextTransactionId, NextId
      <4>2. ASSUME Open(u) PROVE tx[u].view < currentId + 1
        BY <4>2 DEF IdInv, ThreadOK, TypeOK
      <4> QED
        BY SMTT(20), <2>2, <4>1, <4>2 DEF IdInv, ThreadOK, TypeOK
    <3> QED
      BY <3>1, <3>2, <3>3 DEF ThreadOK
  <2> QED
    BY <2>3, <2>4 DEF IdInv
<1>16. ASSUME NEW t \in Thread, RemoveTransactionActive(t) PROVE IdInv'
  <2>1. Held(t)' = {} /\ Held(t) = {id[t]} /\ \A u \in Thread \ {t} : Held(u)' = Held(u)
    BY <1>16 DEF TypeOK, RemoveTransactionActive, Held, IdInv, ThreadOK
  <2>2. active' = active \ {id[t]}
    BY <1>16 DEF RemoveTransactionActive
  <2>3. HeldIdsActive'
    BY <2>1, <2>2 DEF IdInv, HeldIdsActive
  <2>4. ASSUME NEW u \in Thread PROVE ThreadOK(u)'
    BY <1>16, <2>2 DEF TypeOK, RemoveTransactionActive, IdInv, ThreadOK
  <2> QED
    BY <2>3, <2>4 DEF IdInv
<1> QED
  BY <1>1, <1>2, <1>3, <1>4, <1>5, <1>6, <1>7, <1>8, <1>9, <1>10, <1>11, <1>12, <1>13, <1>14, <1>15, <1>16 DEF Next, Step, Call

\* Ids are held while active and by one thread, in every reachable state.
THEOREM IdsHeldActive == Spec => []HeldIdsActive
<1>1. TypeOK /\ IdInv /\ [Next]_vars => (TypeOK /\ IdInv)'
  BY NextTypeOK, NextIdInv
<1>2. IdInv => HeldIdsActive
  BY DEF IdInv
<1> QED
  BY <1>1, <1>2, InitTypeOK, InitIdInv, PTL DEF Spec

\* The viewpoint of an open transaction stays below every id that is active or
\* still to come, in every reachable state.
THEOREM ViewpointsStable == Spec => []ViewpointStable
<1>1. TypeOK /\ IdInv /\ [Next]_vars => (TypeOK /\ IdInv)'
  BY NextTypeOK, NextIdInv
<1>2. IdInv => ViewpointStable
  BY DEF IdInv, ThreadOK, OpenBelow, ViewpointStable
<1> QED
  BY <1>1, <1>2, InitTypeOK, InitIdInv, PTL DEF Spec

\* What a step does to the ids threads hold, said for one thread.
GivesUp(u) ==
  \A i \in Held(u) :
    \/ i \in Held(u)' \/ i \notin active'
    \/ pc[u] = "create" /\ Open(u) /\ i = id[u]
    \/ pc[u] = "drop"

\* A thread that is not in a step of its own gives nothing up.
LEMMA OthersKeep ==
  ASSUME NEW u \in Thread, pc'[u] = pc[u], id'[u] = id[u], tx'[u].id = tx[u].id
  PROVE  Held(u)' = Held(u)
BY DEF Held, Open

\* A step of t gives up what it may, when the others are left alone.
LEMMA OwnStep ==
  ASSUME NEW t \in Thread, GivesUp(t),
         \A u \in Thread \ {t} : pc'[u] = pc[u] /\ id'[u] = id[u] /\ tx'[u].id = tx[u].id
  PROVE  \A u \in Thread : GivesUp(u)
<1>1. \A u \in Thread \ {t} : GivesUp(u)
  BY OthersKeep DEF GivesUp
<1> QED
  BY <1>1

\* Rows that are added to a transaction leave its id alone.
LEMMA AffectedKeepsIds ==
  ASSUME TypeOK, NEW t \in Thread, InsertRow(t) \/ UpdateRow(t)
  PROVE  \A u \in Thread : tx'[u].id = tx[u].id
<1>1. \/ tx' = tx
      \/ \E r \in Row \cup {index[call[t].key]} : tx' = [tx EXCEPT ![t].rows = Append(@, r)]
  <2>1. CASE InsertRow(t)
    BY <2>1 DEF InsertRow, Affected
  <2>2. CASE UpdateRow(t)
    BY <2>2 DEF UpdateRow, Affected
  <2> QED
    BY <2>1, <2>2
<1>2. ASSUME NEW r \in Row \cup {index[call[t].key]}, tx' = [tx EXCEPT ![t].rows = Append(@, r)], NEW u \in Thread
      PROVE  tx'[u].id = tx[u].id
  <2>1. tx[u] \in [id : Nat, view : Nat, rows : Seq(Row \cup {Freed})]
    BY DEF TypeOK
  <2>2. CASE u # t
    BY <1>2, <2>2 DEF TypeOK
  <2>3. CASE u = t
    <3>1. tx'[t] = [tx[t] EXCEPT !.rows = Append(@, r)]
      BY <1>2 DEF TypeOK
    <3> QED
      BY <2>1, <2>3, <3>1
  <2> QED
    BY <2>2, <2>3
<1> QED
  BY <1>1, <1>2

\* Every step gives ids up by releasing them, but for the two that do not.
LEMMA StepGivesUp ==
  ASSUME TypeOK, IdInv, NEW t \in Thread, Step(t) \/ Call(t)
  PROVE  \A u \in Thread : GivesUp(u)
<1> USE DEF Phase, Open, GivesUp, Held, IdInv, ThreadOK
<1>1. CASE Register(t)
  BY <1>1, OwnStep DEF TypeOK, Register
<1>2. CASE Exit(t)
  BY <1>2, OwnStep DEF TypeOK, Exit
<1>3. CASE DropContext(t)
  <2>1. \A u \in Thread \ {t} : pc'[u] = pc[u] /\ id'[u] = id[u] /\ tx'[u].id = tx[u].id
    BY <1>3 DEF TypeOK, DropContext
  <2>2. GivesUp(t)
    BY <1>3 DEF DropContext
  <2> QED
    BY <2>1, <2>2, OwnStep
<1>4. CASE BeginTransaction(t)
  BY <1>4, OwnStep DEF TypeOK, BeginTransaction
<1>5. CASE GetNextTransactionId(t)
  BY <1>5, OwnStep DEF TypeOK, GetNextTransactionId
<1>6. CASE GetMinActive(t)
  BY <1>6, OwnStep DEF TypeOK, GetMinActive
<1>7. CASE CreateTransaction(t)
  <2>1. \A u \in Thread \ {t} : pc'[u] = pc[u] /\ id'[u] = id[u] /\ tx'[u].id = tx[u].id
    BY <1>7 DEF TypeOK, CreateTransaction
  <2>2. CASE Open(t)
    <3>1. tx' = tx /\ pc[t] = "create" /\ Held(t) = {tx[t].id, id[t]}
      BY <1>7, <2>2 DEF CreateTransaction
    <3>2. tx[t].id \in Held(t)'
      BY <2>2, <3>1
    <3> QED
      BY <2>1, <2>2, <3>1, <3>2, OwnStep
  <2>3. CASE ~Open(t)
    <3>1. pc[t] = "create" /\ tx'[t].id = id[t] /\ Held(t) = {id[t]}
      BY <1>7, <2>3 DEF TypeOK, CreateTransaction
    <3>2. id[t] # 0
      BY <3>1 DEF TypeOK, HeldIdsActive
    <3>3. id[t] \in Held(t)'
      BY <3>1, <3>2
    <3> QED
      BY <2>1, <3>1, <3>3, OwnStep
  <2> QED
    BY <2>2, <2>3
<1>8. ASSUME NEW op \in Operation, RowCall(t, op) PROVE \A u \in Thread : GivesUp(u)
  BY <1>8, OwnStep DEF TypeOK, RowCall
<1>9. CASE InsertRow(t)
  <2>1. \A u \in Thread : tx'[u].id = tx[u].id
    BY <1>9, AffectedKeepsIds
  <2>2. \A u \in Thread \ {t} : pc'[u] = pc[u] /\ id'[u] = id[u]
    BY <1>9 DEF TypeOK, InsertRow, AfterRow
  <2>3. pc[t] = "row" /\ pc'[t] \in {"stamp", "idle"}
    BY <1>9 DEF TypeOK, InsertRow, AfterRow
  <2> QED
    BY <2>1, <2>2, <2>3, OwnStep
<1>10. CASE DeleteRow(t)
  <2>1. \A u \in Thread : tx'[u].id = tx[u].id
    BY <1>10, MarkKeepsIds
  <2>2. \A u \in Thread \ {t} : pc'[u] = pc[u] /\ id'[u] = id[u]
    BY <1>10 DEF TypeOK, DeleteRow, AfterRow
  <2>3. pc[t] = "row" /\ pc'[t] \in {"stamp", "idle"}
    BY <1>10 DEF TypeOK, DeleteRow, AfterRow
  <2> QED
    BY <2>1, <2>2, <2>3, OwnStep
<1>11. CASE UpdateRow(t)
  <2>1. \A u \in Thread : tx'[u].id = tx[u].id
    BY <1>11, AffectedKeepsIds
  <2>2. \A u \in Thread \ {t} : pc'[u] = pc[u] /\ id'[u] = id[u]
    BY <1>11 DEF TypeOK, UpdateRow, AfterRow
  <2>3. pc[t] = "row" /\ pc'[t] \in {"stamp", "idle"}
    BY <1>11 DEF TypeOK, UpdateRow, AfterRow
  <2> QED
    BY <2>1, <2>2, <2>3, OwnStep
<1>12. ASSUME NEW o \in {"Committed", "Aborted"}, Finish(t, o) PROVE \A u \in Thread : GivesUp(u)
  BY <1>12, OwnStep DEF TypeOK, Finish
<1>13. CASE StampRow(t)
  BY <1>13, OwnStep DEF TypeOK, StampRow
<1>14. CASE DeleteTransaction(t)
  <2>1. \A u \in Thread \ {t} : pc'[u] = pc[u] /\ id'[u] = id[u] /\ tx'[u].id = tx[u].id
    BY <1>14 DEF TypeOK, DeleteTransaction
  <2>2. pc[t] = "stamp" /\ pc'[t] = "release" /\ id'[t] = id[t] /\ id[t] = tx[t].id
    BY <1>14 DEF TypeOK, DeleteTransaction
  <2>3. Held(t) = {id[t]} /\ id[t] \in Held(t)'
    BY <2>2
  <2> QED
    BY <2>1, <2>3, OwnStep
<1>15. CASE RemoveTransactionActive(t)
  <2>1. \A u \in Thread \ {t} : pc'[u] = pc[u] /\ id'[u] = id[u] /\ tx'[u].id = tx[u].id
    BY <1>15 DEF TypeOK, RemoveTransactionActive
  <2>2. Held(t) = {id[t]} /\ id[t] \notin active'
    BY <1>15 DEF TypeOK, RemoveTransactionActive
  <2> QED
    BY <2>1, <2>2, OwnStep
<1> QED
  BY <1>1, <1>2, <1>3, <1>4, <1>5, <1>6, <1>7, <1>8, <1>9, <1>10, <1>11, <1>12, <1>13, <1>14, <1>15 DEF Step, Call

\* An id is released by the step in which its thread gives it up.
LEMMA ReleasedByHolder ==
  ASSUME TypeOK, IdInv, NEW t \in Thread, Step(t) \/ Call(t), NEW i \in active \ active'
  PROVE  i \in Held(t) /\ i \notin Held(t)'
<1>1. RemoveTransactionActive(t) /\ i = id[t]
  BY DEF Step, Call, Register, Exit, DropContext, BeginTransaction, GetNextTransactionId, GetMinActive,
         CreateTransaction, RowCall, InsertRow, DeleteRow, UpdateRow, AfterRow, Finish, StampRow,
         DeleteTransaction, RemoveTransactionActive
<1>2. Held(t) = {id[t]} /\ Held(t)' = {}
  BY <1>1 DEF TypeOK, RemoveTransactionActive, Held, Open, Phase, IdInv, ThreadOK
<1> QED
  BY <1>1, <1>2

\* Ids are released where they are given up, by any number of threads: only a nested begin
\* and an exit with an open transaction leave one behind.
THEOREM IdsAlwaysReleased == Spec => IdsReleased
<1>1. TypeOK /\ IdInv /\ [Next]_vars => (TypeOK /\ IdInv)'
  BY NextTypeOK, NextIdInv
<1>2. TypeOK /\ IdInv /\ [Next]_vars =>
        [/\ \A i \in active \ active' : \E t \in Thread : i \in Held(t) /\ i \notin Held(t)'
         /\ \A t \in Thread : \A i \in Held(t) :
              \/ i \in Held(t)' \/ i \notin active'
              \/ pc[t] = "create" /\ Open(t) /\ i = id[t]
              \/ pc[t] = "drop"]_vars
  <2> SUFFICES ASSUME TypeOK, IdInv, Next
               PROVE  /\ \A i \in active \ active' :
                           \E t \in Thread : i \in Held(t) /\ i \notin Held(t)'
                      /\ \A t \in Thread : GivesUp(t)
    BY DEF GivesUp
  <2>1. PICK t \in Thread : Step(t) \/ Call(t)
    BY DEF Next
  <2> QED
    BY <2>1, StepGivesUp, ReleasedByHolder
<1> QED
  BY <1>1, <1>2, InitTypeOK, InitIdInv, PTL DEF Spec, IdsReleased

\* The set of active ids only loses members or gains the next number.
LEMMA ActiveStep ==
  [Next]_vars => active' \subseteq active \cup {currentId + 1}
<1> SUFFICES ASSUME [Next]_vars PROVE active' \subseteq active \cup {currentId + 1}
  OBVIOUS
<1>1. CASE UNCHANGED vars
  BY <1>1 DEF vars
<1>2. ASSUME NEW t \in Thread, Step(t) PROVE active' \subseteq active \cup {currentId + 1}
  BY <1>2 DEF Step, GetNextTransactionId, NextId, GetMinActive, CreateTransaction, InsertRow,
     DeleteRow, UpdateRow, AfterRow, StampRow, DeleteTransaction, RemoveTransactionActive,
     DropContext
<1>3. ASSUME NEW t \in Thread, Call(t) PROVE active' \subseteq active \cup {currentId + 1}
  BY <1>3 DEF Call, Register, BeginTransaction, Exit, RowCall, Finish
<1> QED
  BY <1>1, <1>2, <1>3 DEF Next

\* The horizon never moves back.
THEOREM HorizonNeverBack == Spec => HorizonMonotone
<1>1. [Next]_vars => [\A h \in 1 .. currentId + 1 : Bounds(h, active) => Bounds(h, active')]_vars
  BY ActiveStep DEF Bounds
<1> QED
  BY <1>1, PTL DEF Spec, HorizonMonotone
-----------------------------------------------------------------------------
(* The rows.  A row not yet decided was written by an active transaction,  *)
(* and the thread that holds its id will still come to it when it stamps:  *)
(* so its id is not released, nor drawn again, before the row is stamped.  *)

NoStampYet == \A t \in Thread : pc[t] # "stamp" => stamped[t] = 0

PendingActive == \A r \in Row : status[r] = "None" => writer[r] \in active

ToStamp(t, r) == \E j \in DOMAIN tx[t].rows : stamped[t] < j /\ tx[t].rows[j] = r

PendingReached ==
  \A t \in Thread, r \in Row :
    status[r] = "None" /\ writer[r] \in Held(t) =>
      Open(t) /\ tx[t].id = writer[r] /\ ToStamp(t, r)

RowInv == NoStampYet /\ PendingActive /\ PendingReached

\* The first state satisfies it.
LEMMA InitRowInv == Init => RowInv
BY DEF Init, RowInv, NoStampYet, PendingActive, PendingReached

\* So does a step that leaves the rows alone, when a thread that still holds an
\* id holds it with the transaction it had.
LEMMA SameRows ==
  ASSUME RowInv, UNCHANGED table, active \subseteq active',
         \A u \in Thread : pc'[u] # "stamp" => stamped'[u] = 0,
         \A u \in Thread :
           \/ Held(u)' \subseteq Held(u) /\ tx'[u] = tx[u] /\ stamped'[u] = stamped[u]
           \/ Held(u)' = {}
  PROVE  RowInv'
<1>1. NoStampYet' /\ PendingActive'
  BY DEF RowInv, NoStampYet, PendingActive
<1>2. PendingReached'
  BY DEF RowInv, PendingReached, ToStamp, Open
<1> QED
  BY <1>1, <1>2 DEF RowInv

\* A row call appends the row to the affected rows, so the commit reaches it and
\* what it would have reached before.
LEMMA AppendReaches ==
  ASSUME TypeOK, NEW t \in Thread, NEW r \in Row, stamped[t] = 0, tx' = Affected(t, r),
         UNCHANGED stamped
  PROVE  /\ ToStamp(t, r)'
         /\ \A u \in Thread, q \in Row : ToStamp(u, q) => ToStamp(u, q)'
<1>1. tx[t].rows \in Seq(Row \cup {Freed})
  BY DEF TypeOK
<1>2. tx'[t].rows = Append(tx[t].rows, r) /\ \A u \in Thread \ {t} : tx'[u] = tx[u]
  BY DEF TypeOK, Affected
<1>3. /\ DOMAIN tx[t].rows = 1 .. Len(tx[t].rows) /\ Len(tx[t].rows) \in Nat
      /\ DOMAIN tx'[t].rows = 1 .. Len(tx[t].rows) + 1
      /\ tx'[t].rows[Len(tx[t].rows) + 1] = r
      /\ \A j \in 1 .. Len(tx[t].rows) : tx'[t].rows[j] = tx[t].rows[j]
  BY <1>1, <1>2
<1>4. ToStamp(t, r)'
  <2>1. Len(tx[t].rows) + 1 \in DOMAIN tx'[t].rows /\ stamped'[t] < Len(tx[t].rows) + 1
    BY <1>3
  <2> QED
    BY <1>3, <2>1 DEF ToStamp
<1>5. ASSUME NEW u \in Thread, NEW q \in Row, ToStamp(u, q) PROVE ToStamp(u, q)'
  <2>1. PICK j \in DOMAIN tx[u].rows : stamped[u] < j /\ tx[u].rows[j] = q
    BY <1>5 DEF ToStamp
  <2>2. CASE u = t
    <3>1. j \in DOMAIN tx'[u].rows /\ tx'[u].rows[j] = q
      BY SMTT(20), <1>3, <2>1, <2>2
    <3> QED
      BY <2>1, <3>1 DEF ToStamp
  <2>3. CASE u # t
    <3>1. tx'[u] = tx[u]
      BY <1>2, <2>3
    <3> QED
      BY <2>1, <3>1 DEF ToStamp
  <2> QED
    BY <2>2, <2>3
<1> QED
  BY <1>4, <1>5

\* Every step preserves it.
LEMMA NextRowInv == TypeOK /\ IdInv /\ RowInv /\ [Next]_vars => RowInv'
<1> SUFFICES ASSUME TypeOK, IdInv, RowInv, [Next]_vars PROVE RowInv'
  OBVIOUS
<1>1. CASE UNCHANGED vars
  <2>1. \A u \in Thread : Held(u)' = Held(u)
    BY <1>1 DEF vars, Held, Open
  <2> QED
    BY <1>1, <2>1, SameRows DEF vars, RowInv, NoStampYet
<1>2. ASSUME NEW t \in Thread, Register(t) PROVE RowInv'
  <2>1. /\ UNCHANGED table /\ active \subseteq active'
        /\ \A u \in Thread : pc'[u] # "stamp" => stamped'[u] = 0
    BY <1>2 DEF TypeOK, Register, RowInv, NoStampYet
  <2>2. \A u \in Thread :
          \/ Held(u)' \subseteq Held(u) /\ tx'[u] = tx[u] /\ stamped'[u] = stamped[u]
          \/ Held(u)' = {}
    BY <1>2 DEF TypeOK, Register, Held, Open, IdInv, ThreadOK, Phase
  <2> QED
    BY <2>1, <2>2, SameRows
<1>3. ASSUME NEW t \in Thread, Exit(t) PROVE RowInv'
  <2>1. /\ UNCHANGED table /\ active \subseteq active'
        /\ \A u \in Thread : pc'[u] # "stamp" => stamped'[u] = 0
    BY <1>3 DEF TypeOK, Exit, RowInv, NoStampYet
  <2>2. \A u \in Thread :
          \/ Held(u)' \subseteq Held(u) /\ tx'[u] = tx[u] /\ stamped'[u] = stamped[u]
          \/ Held(u)' = {}
    BY <1>3 DEF TypeOK, Exit, Held, Open, IdInv, ThreadOK, Phase
  <2> QED
    BY <2>1, <2>2, SameRows
<1>4. ASSUME NEW t \in Thread, DropContext(t) PROVE RowInv'
  <2>1. /\ UNCHANGED table /\ active \subseteq active'
        /\ \A u \in Thread : pc'[u] # "stamp" => stamped'[u] = 0
    BY <1>4 DEF TypeOK, DropContext, NoTx, RowInv, NoStampYet
  <2>2. \A u \in Thread :
          \/ Held(u)' \subseteq Held(u) /\ tx'[u] = tx[u] /\ stamped'[u] = stamped[u]
          \/ Held(u)' = {}
    BY <1>4 DEF TypeOK, DropContext, NoTx, Held, Open, IdInv, ThreadOK, Phase
  <2> QED
    BY <2>1, <2>2, SameRows
<1>5. ASSUME NEW t \in Thread, BeginTransaction(t) PROVE RowInv'
  <2>1. /\ UNCHANGED table /\ active \subseteq active'
        /\ \A u \in Thread : pc'[u] # "stamp" => stamped'[u] = 0
    BY <1>5 DEF TypeOK, BeginTransaction, RowInv, NoStampYet
  <2>2. \A u \in Thread :
          \/ Held(u)' \subseteq Held(u) /\ tx'[u] = tx[u] /\ stamped'[u] = stamped[u]
          \/ Held(u)' = {}
    BY <1>5 DEF TypeOK, BeginTransaction, Held, Open, IdInv, ThreadOK, Phase
  <2> QED
    BY <2>1, <2>2, SameRows
<1>6. ASSUME NEW t \in Thread, GetMinActive(t) PROVE RowInv'
  <2>1. /\ UNCHANGED table /\ active \subseteq active'
        /\ \A u \in Thread : pc'[u] # "stamp" => stamped'[u] = 0
    BY <1>6 DEF TypeOK, GetMinActive, RowInv, NoStampYet
  <2>2. \A u \in Thread :
          \/ Held(u)' \subseteq Held(u) /\ tx'[u] = tx[u] /\ stamped'[u] = stamped[u]
          \/ Held(u)' = {}
    BY <1>6 DEF TypeOK, GetMinActive, Held, Open, IdInv, ThreadOK, Phase
  <2> QED
    BY <2>1, <2>2, SameRows
<1>7. ASSUME NEW t \in Thread, NEW op \in Operation, RowCall(t, op) PROVE RowInv'
  <2>1. /\ UNCHANGED table /\ active \subseteq active'
        /\ \A u \in Thread : pc'[u] # "stamp" => stamped'[u] = 0
    BY <1>7 DEF TypeOK, RowCall, RowInv, NoStampYet
  <2>2. \A u \in Thread :
          \/ Held(u)' \subseteq Held(u) /\ tx'[u] = tx[u] /\ stamped'[u] = stamped[u]
          \/ Held(u)' = {}
    BY <1>7 DEF TypeOK, RowCall, Held, Open, IdInv, ThreadOK, Phase
  <2> QED
    BY <2>1, <2>2, SameRows
<1>8. ASSUME NEW t \in Thread, NEW o \in {"Committed", "Aborted"}, Finish(t, o) PROVE RowInv'
  <2>1. /\ UNCHANGED table /\ active \subseteq active'
        /\ \A u \in Thread : pc'[u] # "stamp" => stamped'[u] = 0
    BY <1>8 DEF TypeOK, Finish, RowInv, NoStampYet
  <2>2. \A u \in Thread :
          \/ Held(u)' \subseteq Held(u) /\ tx'[u] = tx[u] /\ stamped'[u] = stamped[u]
          \/ Held(u)' = {}
    BY <1>8 DEF TypeOK, Finish, Held, Open, IdInv, ThreadOK, Phase
  <2> QED
    BY <2>1, <2>2, SameRows
<1>9. ASSUME NEW t \in Thread, GetNextTransactionId(t) PROVE RowInv'
  <2>1. /\ UNCHANGED <<table, tx, stamped>> /\ active' = active \cup {currentId + 1}
        /\ \A u \in Thread : pc'[u] # "stamp" => stamped'[u] = 0
    BY <1>9 DEF TypeOK, GetNextTransactionId, NextId, RowInv, NoStampYet
  <2>2. \A u \in Thread : Held(u)' \subseteq Held(u) \cup {currentId + 1}
    BY <1>9 DEF TypeOK, GetNextTransactionId, NextId, Held, Open
  <2>3. \A r \in Row : status[r] = "None" => writer[r] # currentId + 1
    BY DEF TypeOK, RowInv, PendingActive
  <2>4. PendingReached'
    BY <2>1, <2>2, <2>3 DEF RowInv, PendingReached, ToStamp, Open
  <2> QED
    BY <2>1, <2>4 DEF RowInv, NoStampYet, PendingActive
<1>10. ASSUME NEW t \in Thread, CreateTransaction(t) PROVE RowInv'
  <2>1. /\ UNCHANGED <<table, active, stamped>>
        /\ \A u \in Thread : pc'[u] # "stamp" => stamped'[u] = 0
        /\ \A u \in Thread : Held(u)' \subseteq Held(u)
        /\ \A u \in Thread \ {t} : tx'[u] = tx[u]
    BY SMTT(20), <1>10 DEF TypeOK, CreateTransaction, RowInv, NoStampYet, Held, Open
  <2>2. CASE Open(t)
    <3>1. tx' = tx
      BY <1>10, <2>2 DEF CreateTransaction
    <3> QED
      BY <2>1, <3>1, SameRows
  <2>3. CASE ~Open(t)
    <3>1. \A r \in Row : status[r] = "None" => writer[r] \notin Held(t)
      BY <2>3 DEF RowInv, PendingReached
    <3>2. PendingReached'
      BY <2>1, <3>1 DEF RowInv, PendingReached, ToStamp, Open
    <3> QED
      BY <2>1, <3>2 DEF RowInv, NoStampYet, PendingActive
  <2> QED
    BY <2>2, <2>3
<1>11. ASSUME NEW t \in Thread, InsertRow(t) PROVE RowInv'
  <2>1. /\ Open(t) /\ tx[t].id \in active /\ stamped[t] = 0
        /\ UNCHANGED <<active, stamped>>
        /\ \A u \in Thread : pc'[u] # "stamp" => stamped'[u] = 0
    BY <1>11 DEF TypeOK, InsertRow, AfterRow, RowInv, NoStampYet, IdInv, HeldIdsActive, Held,
       ThreadOK, Phase
  <2>2. \A u \in Thread : /\ tx'[u].id = tx[u].id
                          /\ Held(u)' \subseteq Held(u)
    BY SMTT(20), <1>11 DEF TypeOK, InsertRow, AfterRow, Affected, Held, Open
  <2>3. CASE UNCHANGED <<tx, table>>
    BY <2>1, <2>2, <2>3, SameRows
  <2>4. ASSUME NEW r \in Row, status' = [status EXCEPT ![r] = "None"],
               writer' = [writer EXCEPT ![r] = tx[t].id], tx' = Affected(t, r)
        PROVE  RowInv'
    <3>1. /\ ToStamp(t, r)'
          /\ \A u \in Thread, q \in Row : ToStamp(u, q) => ToStamp(u, q)'
      BY <2>1, <2>4, AppendReaches
    <3>2. /\ writer'[r] = tx[t].id
          /\ \A q \in Row \ {r} : status'[q] = status[q] /\ writer'[q] = writer[q]
      BY <2>4 DEF TypeOK
    <3>3. \A u \in Thread \ {t} : tx[t].id \notin Held(u)
      BY <2>1 DEF IdInv, HeldIdsActive, Held
    <3>4. PendingReached'
      BY <2>1, <2>2, <3>1, <3>2, <3>3 DEF RowInv, PendingReached, Open
    <3>5. PendingActive'
      BY <2>1, <3>2 DEF RowInv, PendingActive
    <3> QED
      BY <2>1, <3>4, <3>5 DEF RowInv, NoStampYet
  <2> QED
    BY <1>11, <2>3, <2>4 DEF InsertRow
<1>12. ASSUME NEW t \in Thread, UpdateRow(t) PROVE RowInv'
  <2>1. /\ Open(t) /\ tx[t].id \in active /\ stamped[t] = 0
        /\ UNCHANGED <<active, stamped>>
        /\ \A u \in Thread : pc'[u] # "stamp" => stamped'[u] = 0
    BY <1>12 DEF TypeOK, UpdateRow, AfterRow, RowInv, NoStampYet, IdInv, HeldIdsActive, Held,
       ThreadOK, Phase
  <2>2. \A u \in Thread : /\ tx'[u].id = tx[u].id
                          /\ Held(u)' \subseteq Held(u)
    BY <1>12 DEF TypeOK, UpdateRow, AfterRow, Affected, Held, Open
  <2>3. CASE UNCHANGED <<tx, table>>
    BY <2>1, <2>2, <2>3, SameRows
  <2>4. ASSUME NEW r \in Row, status' = status,
               writer' = [writer EXCEPT ![r] = tx[t].id], tx' = Affected(t, r)
        PROVE  RowInv'
    <3>1. /\ ToStamp(t, r)'
          /\ \A u \in Thread, q \in Row : ToStamp(u, q) => ToStamp(u, q)'
      BY <2>1, <2>4, AppendReaches
    <3>2. /\ writer'[r] = tx[t].id
          /\ \A q \in Row \ {r} : status'[q] = status[q] /\ writer'[q] = writer[q]
      BY <2>4 DEF TypeOK
    <3>3. \A u \in Thread \ {t} : tx[t].id \notin Held(u)
      BY <2>1 DEF IdInv, HeldIdsActive, Held
    <3>4. PendingReached'
      BY <2>1, <2>2, <3>1, <3>2, <3>3 DEF RowInv, PendingReached, Open
    <3>5. PendingActive'
      BY <2>1, <3>2 DEF RowInv, PendingActive
    <3> QED
      BY <2>1, <3>4, <3>5 DEF RowInv, NoStampYet
  <2>5. index[call[t].key] # Null => index[call[t].key] \in Row
    BY <1>12 DEF TypeOK, UpdateRow, Operation
  <2> QED
    BY <1>12, <2>3, <2>4, <2>5 DEF UpdateRow
<1>13. ASSUME NEW t \in Thread, DeleteRow(t) PROVE RowInv'
  <2> DEFINE r == index[call[t].key]
  <2>1. /\ UNCHANGED <<active, stamped>>
        /\ \A u \in Thread : pc'[u] # "stamp" => stamped'[u] = 0
    BY <1>13 DEF TypeOK, DeleteRow, AfterRow, RowInv, NoStampYet
  <2>2. \A u \in Thread : tx'[u].id = tx[u].id
    BY <1>13, MarkKeepsIds
  <2>3. \A u \in Thread : Held(u)' \subseteq Held(u)
    BY <1>13, <2>2 DEF TypeOK, DeleteRow, AfterRow, Held, Open
  <2>4. CASE UNCHANGED <<tx, table>>
    BY <2>1, <2>3, <2>4, SameRows
  <2>5. CASE /\ r # Null
             /\ status' = [status EXCEPT ![r] = "free"] /\ writer' = writer
             /\ tx' = [u \in Thread |-> [tx[u] EXCEPT !.rows =
                         [i \in DOMAIN @ |-> IF @[i] = r THEN Freed ELSE @[i]]]]
    <3>1. \A q \in Row : status'[q] = "None" => q # r /\ status[q] = "None"
      BY <2>5 DEF TypeOK
    <3>2. ASSUME NEW u \in Thread, NEW q \in Row, q # r, ToStamp(u, q) PROVE ToStamp(u, q)'
      <4>1. tx[u] \in [id : Nat, view : Nat, rows : Seq(Row \cup {Freed})]
        BY DEF TypeOK
      <4>2. tx'[u].rows = [i \in DOMAIN tx[u].rows |->
                             IF tx[u].rows[i] = r THEN Freed ELSE tx[u].rows[i]]
        BY <2>5, <4>1
      <4> QED
        BY <2>1, <3>2, <4>2 DEF ToStamp
    <3>3. PendingReached'
      BY <2>2, <2>3, <2>5, <3>1, <3>2 DEF RowInv, PendingReached, Open
    <3>4. PendingActive'
      BY <2>1, <2>5, <3>1 DEF RowInv, PendingActive
    <3> QED
      BY <2>1, <3>3, <3>4 DEF RowInv, NoStampYet
  <2> QED
    BY <1>13, <2>4, <2>5 DEF DeleteRow
<1>14. ASSUME NEW t \in Thread, StampRow(t) PROVE RowInv'
  <2> DEFINE r == tx[t].rows[stamped[t] + 1]
  <2>1. /\ UNCHANGED <<active, tx, writer, pc, id>> /\ pc[t] = "stamp"
        /\ \A u \in Thread \ {t} : stamped'[u] = stamped[u]
    BY <1>14 DEF TypeOK, StampRow
  <2>2. \A u \in Thread : Held(u)' = Held(u)
    BY <2>1 DEF Held, Open
  <2>3. NoStampYet'
    BY <2>1 DEF RowInv, NoStampYet
  <2>4. CASE UNCHANGED <<stamped, status>>
    BY <1>14, <2>1, <2>2, <2>3, <2>4, SameRows DEF StampRow, NoStampYet
  <2>5. CASE /\ status' = [status EXCEPT ![r] = outcome[t]]
             /\ stamped' = [stamped EXCEPT ![t] = @ + 1]
    <3>1. \A q \in Row : status'[q] = "None" => q # r /\ status[q] = "None"
      BY <2>5 DEF TypeOK
    <3>2. ASSUME NEW u \in Thread, NEW q \in Row, q # r, ToStamp(u, q) PROVE ToStamp(u, q)'
      <4>1. tx[u].rows \in Seq(Row \cup {Freed})
        BY DEF TypeOK
      <4>2. PICK j \in DOMAIN tx[u].rows : stamped[u] < j /\ tx[u].rows[j] = q
        BY <3>2 DEF ToStamp
      <4>3. j \in Nat
        BY <4>1
      <4>4. stamped'[u] < j
        BY <2>1, <2>5, <3>2, <4>2, <4>3 DEF TypeOK
      <4> QED
        BY <2>1, <4>2, <4>4 DEF ToStamp
    <3>3. PendingReached'
      BY <2>1, <2>2, <3>1, <3>2 DEF RowInv, PendingReached, Open
    <3>4. PendingActive'
      BY <2>1, <3>1 DEF RowInv, PendingActive
    <3> QED
      BY <2>3, <3>3, <3>4 DEF RowInv
  <2> QED
    BY <1>14, <2>4, <2>5 DEF StampRow
<1>15. ASSUME NEW t \in Thread, DeleteTransaction(t) PROVE RowInv'
  <2>1. /\ UNCHANGED <<table, active>>
        /\ \A u \in Thread : pc'[u] # "stamp" => stamped'[u] = 0
        /\ \A u \in Thread \ {t} : tx'[u] = tx[u] /\ stamped'[u] = stamped[u]
    BY <1>15 DEF TypeOK, DeleteTransaction, RowInv, NoStampYet
  <2>2. \A u \in Thread : Held(u)' \subseteq Held(u)
    BY <1>15 DEF TypeOK, DeleteTransaction, NoTx, Held, Open, IdInv, ThreadOK, Phase
  <2>3. \A q \in Row : ~ToStamp(t, q)
    <3>1. tx[t].rows \in Seq(Row \cup {Freed}) /\ stamped[t] \in Nat
      BY DEF TypeOK
    <3> QED
      BY <1>15, <3>1 DEF DeleteTransaction, RowsToStamp, ToStamp
  <2>4. PendingReached'
    BY <2>1, <2>2, <2>3 DEF RowInv, PendingReached, ToStamp, Open
  <2> QED
    BY <2>1, <2>4 DEF RowInv, NoStampYet, PendingActive
<1>16. ASSUME NEW t \in Thread, RemoveTransactionActive(t) PROVE RowInv'
  <2>1. /\ UNCHANGED <<table, tx, stamped>> /\ active' = active \ {id[t]}
        /\ \A u \in Thread : pc'[u] # "stamp" => stamped'[u] = 0
        /\ \A u \in Thread : Held(u)' \subseteq Held(u)
    BY <1>16 DEF TypeOK, RemoveTransactionActive, RowInv, NoStampYet, Held, Open
  <2>2. id[t] \in Held(t) /\ ~Open(t)
    BY <1>16 DEF RemoveTransactionActive, Held, IdInv, ThreadOK, Phase
  <2>3. \A r \in Row : status[r] = "None" => writer[r] # id[t]
    BY <2>2 DEF RowInv, PendingReached
  <2>4. PendingActive'
    BY <2>1, <2>3 DEF RowInv, PendingActive
  <2>5. PendingReached'
    BY <2>1 DEF RowInv, PendingReached, ToStamp, Open
  <2> QED
    BY <2>1, <2>4, <2>5 DEF RowInv, NoStampYet
<1> QED
  BY <1>1, <1>2, <1>3, <1>4, <1>5, <1>6, <1>7, <1>8, <1>9, <1>10, <1>11, <1>12, <1>13, <1>14, <1>15, <1>16 DEF Next, Step, Call

\* A row in the index whose last writer is within an open viewpoint is committed
\* or aborted, in every reachable state.
THEOREM SnapshotsDecided == Spec => []SnapshotRowsDecided
<1>1. /\ TypeOK /\ IdInv /\ RowInv /\ [Next]_vars => (TypeOK /\ IdInv /\ RowInv)'
  BY NextTypeOK, NextIdInv, NextRowInv
<1>2. TypeOK /\ IdInv /\ RowInv => SnapshotRowsDecided
  <2> SUFFICES ASSUME TypeOK, IdInv, RowInv, NEW t \in Thread, NEW r \in Row,
                      Open(t), status[r] # "free", writer[r] <= tx[t].view
               PROVE  status[r] \in {"Committed", "Aborted"}
    BY DEF SnapshotRowsDecided
  <2>1. \A i \in active : tx[t].view < i
    BY DEF IdInv, ThreadOK, OpenBelow
  <2>2. writer[r] \notin active
    BY <2>1 DEF TypeOK
  <2> QED
    BY <2>2 DEF TypeOK, RowInv, PendingActive
<1> QED
  BY <1>1, <1>2, InitTypeOK, InitIdInv, InitRowInv, PTL DEF Spec
-----------------------------------------------------------------------------
(* The pointers to contexts that the manager keeps.                        *)

\* A step of a thread other than its first and its last ones keeps the set of contexts,
\* and the thread does not leave.
LEMMA StaysRegistered ==
  ASSUME TypeOK, RegistryLive, NEW t \in Thread, UNCHANGED context,
         \E where \in {"idle", "next", "min", "create", "row", "stamp", "release"} :
           pc' = pc \/ pc' = [pc EXCEPT ![t] = where]
  PROVE  RegistryLive'
BY DEF TypeOK, RegistryLive

\* Every step keeps RegistryLive.
LEMMA NextRegistryLive == TypeOK /\ RegistryLive /\ [Next]_vars => RegistryLive'
<1> SUFFICES ASSUME TypeOK, RegistryLive, [Next]_vars PROVE RegistryLive'
  OBVIOUS
<1>1. CASE UNCHANGED vars
  BY <1>1 DEF vars, RegistryLive
<1>2. ASSUME NEW t \in Thread, Register(t) PROVE RegistryLive'
  BY <1>2 DEF Register, RegistryLive, TypeOK
<1>3. ASSUME NEW t \in Thread, Exit(t) PROVE RegistryLive'
  BY <1>3 DEF Exit, RegistryLive, TypeOK
<1>4. ASSUME NEW t \in Thread, DropContext(t) PROVE RegistryLive'
  BY <1>4 DEF DropContext, RegistryLive, TypeOK
<1>5. ASSUME NEW t \in Thread,
             \/ BeginTransaction(t) \/ GetNextTransactionId(t) \/ GetMinActive(t)
             \/ CreateTransaction(t)
      PROVE  RegistryLive'
  BY <1>5, StaysRegistered
  DEF BeginTransaction, GetNextTransactionId, GetMinActive, CreateTransaction
<1>6. ASSUME NEW t \in Thread, NEW op \in Operation, RowCall(t, op) PROVE RegistryLive'
  BY <1>6, StaysRegistered DEF RowCall
<1>7. ASSUME NEW t \in Thread, InsertRow(t) \/ DeleteRow(t) \/ UpdateRow(t)
      PROVE  RegistryLive'
  <2>1. AfterRow(t)
    BY <1>7 DEF InsertRow, DeleteRow, UpdateRow
  <2> QED
    BY <2>1, StaysRegistered DEF AfterRow
<1>8. ASSUME NEW t \in Thread, NEW o \in {"Committed", "Aborted"}, Finish(t, o)
      PROVE  RegistryLive'
  BY <1>8, StaysRegistered DEF Finish
<1>9. ASSUME NEW t \in Thread,
             StampRow(t) \/ DeleteTransaction(t) \/ RemoveTransactionActive(t)
      PROVE  RegistryLive'
  BY <1>9, StaysRegistered DEF StampRow, DeleteTransaction, RemoveTransactionActive
<1> QED
  BY <1>1, <1>2, <1>3, <1>4, <1>5, <1>6, <1>7, <1>8, <1>9 DEF Next, Step, Call

\* However many threads come and go, in a transaction or not, the manager has no pointer
\* to the context of a thread that has begun to destroy its own.
THEOREM RegistryAlwaysLive == Spec => []RegistryLive
<1>1. Init => RegistryLive
  BY DEF Init, RegistryLive
<1> QED
  BY <1>1, InitTypeOK, NextTypeOK, NextRegistryLive, PTL DEF Spec
=============================================================================
