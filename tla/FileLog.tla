-------------------------------- MODULE FileLog --------------------------------
(***************************************************************************)
(* What FileManager promises of each kind of file of a table: the files    *)
(* form a log, a new file goes to its end under a name that is not in use, *)
(* and a manager that starts on the directory shows the whole log, oldest  *)
(* file first.  A log of Capacity files is full and nothing is promised of *)
(* its order any more.                                                     *)
(***************************************************************************)
EXTENDS Integers, Sequences

CONSTANTS Table, Kind,
          Name,      \* the names of files
          Capacity

VARIABLES made,   \* the files made, oldest first, of each table and kind
          shown,  \* the files the manager of a table shows
          open    \* the tables whose manager has started

logVars == <<made, shown, open>>

InUse(t, k) == {made[t][k][i] : i \in DOMAIN made[t][k]}

Full(t, k) == Len(made[t][k]) >= Capacity

LogInit ==
  /\ open = {}
  /\ shown = [t \in Table |-> [k \in Kind |-> <<>>]]
  /\ \A t \in Table, k \in Kind : \A i, j \in DOMAIN made[t][k] :
       i # j => made[t][k][i] # made[t][k][j]

Add(t, k) ==
  /\ t \in open
  /\ \E f \in Name :
       /\ Full(t, k) \/ f \notin InUse(t, k)
       /\ made' = [made EXCEPT ![t][k] = Append(@, f)]
       /\ shown' = [shown EXCEPT ![t][k] = Append(@, f)]
  /\ UNCHANGED open

Start(t) ==
  /\ t \notin open
  /\ open' = open \cup {t}
  /\ \A u \in Table, k \in Kind :
       IF u = t THEN Full(t, k) \/ shown'[t][k] = made[t][k]
                ELSE shown'[u][k] = shown[u][k]
  /\ UNCHANGED made

\* Managers go, one of them or all with their process; the logs stay.
Close(T) ==
  /\ open' = open \ T
  /\ shown' = [t \in Table |-> IF t \in T THEN [k \in Kind |-> <<>>] ELSE shown[t]]
  /\ UNCHANGED made

LogNext == \/ \E t \in Table : Start(t) \/ \E k \in Kind : Add(t, k)
           \/ \E T \in SUBSET Table : Close(T)

LogSpec == LogInit /\ [][LogNext]_logVars
=============================================================================
