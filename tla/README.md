# SquidDB in TLA+

A model of the SquidDB engine, its storage files and its start, checked with TLC
and partly proved with TLAPS.
Paths are relative to the root that holds `src/`; the repository's own sources
are under `src/src` and `src/include`.

## The system

| component | state | operations | talks to |
|---|---|---|---|
| `core/SkipList`, `SkipListNode`, `TraverseContext` | nodes with a next pointer and a width per level, head, size counter; owns row infos and row data | insert, remove, update, find, contains, begin, seek, size, estimateRangeCardinality, validate, destructor; the `engine::Index` interface over them | `Transaction::addAffectedRow` from insert and update |
| `core/SkipListIterator` | current node, end key | valid, next, getKey, getData | nodes of the index, which may change under it |
| `engine/Table` | schema, finalized flag, primary index, file manager | insertRow, deleteRow, updateRow, scan, rangeScan, beginTransaction, commit, rollback; addColumn, addIndex, finalizeSchema, initialize | index, `ThreadContextManager`, `Schema`, `FileManager` |
| `core/ThreadContextManager` (singleton) | last id, set of active ids, a context per thread, two mutexes | getThreadContext, getNextTransactionId, removeTransactionActive, getMinActiveTransactionId | called by `Table` in any thread |
| `core/ThreadContext`, `Transaction`, `RowInfo`, `KeyRowInfo` | the thread's transaction: id, viewpoint, affected rows; status of a row | beginTransaction, committed, aborted, addAffectedRow, setStatus | points into the index |
| `utils/Logger` (singleton) | queue, `m_stop`, mutex, condition variable, logging thread | log, start, stop, run, setOutputMode, destructor | everybody logs |
| `infra/Queue` | singly linked list, two counters | enqueue, dequeue, empty, size, consumed, destructor | under the logger |
| `storage/FileManager`, `StreamFile` | two lists of numbered files; position and last operation of a stream | initialize, addLsFile, addVsFile, validate; open, read, write, flush, pointRead | file system |
| `storage/Schema`, `Column` | columns, offsets, 16-bit row size | addColumn, read, write | text file |
| `utils/Configuration`, `StringUtils` | parsed values | read; trim, split, toUpper | text file |
| `storage/Protocol_v1_0` | none: a header without code | | |

What is hard in it: the widths of the skip list, which every insert and remove
repairs on all levels and which only range estimates read; duplicates in
secondary indexes; pointers that outlive what they point at (iterators, affected
rows, thread contexts); the two critical sections of `beginTransaction`; the
logging thread, whose stop flag is not under its mutex; restart from whatever
files a crash has left. `PROJECT.json` lists these places line by line.

What makes the components correct:

* index: each call returns what an ordered sequence of entries would return,
  widths are exact, memory is freed once;
* scan: in order, in range, complete for keys that stay;
* transactions: nobody's snapshot contains an undecided transaction, ids are
  released by their owner only, the horizon moves forward;
* logger and queue: every message once and in order, none forgotten;
* files: the log and the value files of a table pair up and keep their order over
  rollover, restart and crash; what a stream has flushed stays, where it was said
  to be;
* schema: the layout of a row is exact, a table opens with the columns that were
  finalized or with a beginning of them;
* start: fields come from the file, messages have a place to go to.

## Modules

| module | models | read with |
|---|---|---|
| `OrderedIndex` | what an index promises, as a sequence of entries | `SkipList.h` |
| `SkipList` | the index pointer by pointer; implements `OrderedIndex` | `SkipList.cxx`, `SkipListNode.cxx` |
| `SkipListScan` | `SkipList` and one open iterator | `SkipListIterator.cxx` |
| `TableTransactions` | transaction calls of several threads | `Table.cxx`, `ThreadContextManager.cxx`, `ThreadContext.cxx` |
| `TableSchema` | a table's columns, its schema file and its index, from constructor to destructor | `Table.cxx`, `Schema.cxx`, `Column.cxx` |
| `FileLog` | what the file manager promises, as a sequence of files | `FileManager.h` |
| `FileManager` | numbered files of several tables in one directory; implements `FileLog` | `FileManager.cxx` |
| `StreamFile` | one file behind a C library stream | `StreamFile.cxx` |
| `Logger` | producers, logging thread, controller | `Logger.cxx` |
| `Fifo`, `Queue` | the promise of the queue and its linked list | `Queue.h` |
| `Configuration` | the settings file, with trim | `Configuration.cxx`, `StringUtils.cxx` |
| `Startup` | `Configuration` and the output of the logger, over several starts | `main.cxx`, `Logger.cxx` |
| `*_proofs` | theorems about `SkipList` and `SkipListScan`, `Queue`, `TableTransactions`, `TableSchema`, `Logger`, `StreamFile`, `FileManager`, `Startup` | |

`MCSkipList`, `MCSkipListScan`, `MCTableTransactions` and `MCQueue` add the
symmetry sets of the small instances, `MCFileManager`, `MCTableSchema` and
`MCStartup` the values of constants that are no plain sets. `Logger` and
`StreamFile` need none and are checked as they are.

Modules keep, before the definition it replaces, one or more *variants*:
operators that change a definition the way a plausible bug would
(`ForgottenWidth`, `ReusedId`, `NoLock`, `StaysPut`, ...). Specifications do not
use them; `PROJECT.json` says which property notices which.

### SkipList

A node is a record `[key, height, row, next, width]` in the function `node`,
whose domain is the set of allocated addresses. `Traverse` is
`traversePrevNodes`: on each level, from the top, it starts at the node the level
above stopped at and carries the accumulated rank. Its inner loop is `Walk`, a
function of the node it starts from, so that the context is computed level by level. `WithNode` and `WithoutNode`
are the loops of insert and remove. `FindNode` and `SeekNode` are written with
the traversal: `findNode` and `seek` walk the same way and leave it at the first
level that meets the key, which is the highest level in `Hits`. The height is an
argument of `Insert`, every value of `1 .. MaxNodeHeight`: the caller's or the
random one.

`primary` is `m_primaryIndex`, a constant member. Keys are integers, row data are model values (`Buf`), a `RowInfo` is its data:
`m_next` of a `RowInfo` is never set. Every call is one action, because the index
is not thread safe and does not claim to be (README.md:16). Assertions are not
executed: the code is the one a build with `NDEBUG` runs, and the assertion that
fails (line 187) is a property instead. `size()` is checked both ways, the counter
and the walk. `validate()` is not an action: it is `WidthsExact` and the ordering
part of `LevelsAreSublists`.

The refinement maps the pointer structure to the sequence of entries of level 0.
In a secondary index with duplicates `find`, `update` and `seek` may pick any of
the equals; which one depends on heights, and no document says more. In
`Rejects`, a rejected insert leaves the buffer with the caller.

### SkipListScan

The loop of `TableTest` and of a table scan: `valid`, `getKey`, `next`. Between
two turns the owner may insert, update and remove. An iterator whose node is
removed becomes `Freed`; what happens after reading through it is undefined, so
the model stops there (`fault`), as it does at a null pointer. `ScanComplete`
speaks about scans that have not stopped.

### TableTransactions

`pc` says where a thread is: `idle` between calls, `next` and `min` before the two
critical sections of `beginTransaction`, `create` before it makes its
`Transaction`, `row` inside the index, `stamp` while it sets the status of its
affected rows one by one, `release` before `removeTransactionActive`, `drop`
between the destructors of its `thread_local` objects. `implicit` is the local
`implicitTransaction`. Row calls are atomic, transaction calls are not. `writer`
is a history variable: the transaction that last wrote a row. `Freed` is a pointer
to a deleted `RowInfo`; an address that is allocated again is a new row, and the
old pointers stay `Freed`.

A nested begin throws after its id is drawn and the id stays active, and so does
the id of a thread that exits with its transaction open: both are in the model
as the code has them. `IdsReleased` names these two as the only ways an id is given up and
not released. The viewpoint is computed from a minimum that may be
old by the time the transaction is created; that it is never too
new is `ViewpointStable`. `commitLogValue` has no code (`#if 0`), and
reads are not transactional yet, so neither has an action.

### Logger

`block` is the instant at which the runner has found the predicate of its wait
false and holds the mutex, `waiting` the sleep; `m_stop` and notifications may
fall in between, `m_stop` because it is written without the mutex and the
notification because `notify_one` is called without it. `SpuriousWakeup` may
happen and need not. The controller is `main` and the tests: start and stop in
turn, destruction at the end. The one-second sleep in `stop` makes the two lost
signals unlikely; it orders nothing.

The logger uses its queue under its mutex but for `size()`, which reads an atomic
counter. `Queue` shows that the list is a sequence, which is what `Logger` uses.

### FileManager

A file is its table, kind and number. `disk` is the directory, `files` the two
lists of each table's manager, `made` the history that the lists should show.
`Initialize` lists the directory, sorts each kind in any order an unstable sort
may leave and rotates it at the first gap, as `orderFiles` does; `AddLsFile` and
`AddVsFile` come in turn, as the tests call them, and a crash may fall between the two (`torn`).
Init has any run of pairs an earlier program can have left, its oldest possibly
removed, also one that goes past the last number. `SharesPrefix` says which tables have names
that begin with that of `t`: `getFilePaths` matches by prefix. The run
takes unrelated names. Two tables share the directory and the process.

`FileLog` is the promise: a new file goes to the end under a name not in use, a
manager that starts shows the whole log in order, below `Capacity` = 256 files of
a kind. At 256 the source gives up the order, and the abstract log promises
none.

### StreamFile

`disk` is what the kernel has, `buffer` what the C library holds back; a write
moves any part of it on. `direction` is the rule of the C standard that a stream
opened for update must be positioned between a read and a write, unless the read met the
end of the file; breaking it is undefined and sets `fault`. A read that comes short has met the
end (`Read`) or an error in front of it (`ReadFails`, remembered in `erred`): the code throws
and leaves `m_lastOperation` both times, and only the second is a danger to the next write. The history variables `claims` and `acked` say at
which positions writes were located by `getPosition` and how many bytes a `flush` or a
`close` has acknowledged. `WriteFails` and `PushFails` are the full disk: a write
throws, a flush says nothing. A crash loses the buffer and keeps the disk; the
loss of kernel buffers on power failure is not modelled.

### TableSchema

One table of one name, again and again: each `Construct` finds the schema file the
last one left. Calls come in any order and may throw half way: the assignments
before the exception stay. Sizes are modulo `Width` (2^16 in the source, 8 in the run).

A schema line is a record. `ReadsAs` says what becomes of a column name in a line: it begins
a comment, it has a colon inside (`Malformed`: more than four fields), or it is
trimmed. `CutLines` are the beginnings a crash or a full disk may leave. The last line may
end (`TornLines`)

* in its kind of key, which is then `Unknown`;
* in front of that: a line of fewer than four fields (`torn`), where `Schema::read` throws, a comment
  if it begins as one, or a line of four fields if the name has colons (`Remnants`);
* behind its first character, which is a `blank` line if that is a space (`Indented`) and a
  `single` character otherwise.

`read` trims a line before it counts fields, and `trim` does not come back from a single
character: `Overruns`. `overran` is a table whose `initialize` is caught there. The code copies bytes
from behind the string until the process dies or the copy can not grow any more and throws;
`EndsOverrun` takes either, and nothing else happens to the table before. `NameAssumption` keeps the
marks apart from names and leaves out names with a line break in them.

`OpensWithPrefix` needs names that a line can hold and a file that still has its primary column;
`OpenIsUsable` needs neither: whatever the names, the cuts and the calls that threw, a table
that opens is one that `insertRow` (its assertion, Table.cxx:133) can use.

### Configuration and Startup

A text is a sequence of characters, because trimming, the colon and the sign are
what goes wrong here; names are compared through `Word`, which stands for
upper case. Numbers go through an `int` into fields of 32, 8 and 16 bits.
`Startup` reads the file, sets level and output and runs, as `main` and each test case do.
`main` does it once. The test cases do it one after the other in one process, with a configuration of
their own and the same logger, also after one that ended in an exception (`StartAgain`);
what `setOutputMode` does depends on what the last start left. Fields no line sets are
uninitialized: `Valued` is any value.

## Runs

| run | instance | shows |
|---|---|---|
| `skiplist` | 3 nodes, heights 1..3, 4 buffers; 3 keys (primary), 2 keys (secondary) | all calls of both kinds of index, refinement of `OrderedIndex` |
| `skiplist_duplicates` | as above, 2 keys | the assertion of line 187 fails (violation) |
| `scan` | 3 keys, heights 1..2 | scans are ordered, bounded, complete |
| `scan_end` | as above | a range scan runs past the last node (violation) |
| `transactions` | 2 threads, 4 ids, 1 key, 2 rows, 2 affected rows | ids and their release, viewpoints, snapshots, horizon, registry |
| `logger` | 2 producers, 4 messages, 2 runs of the thread | each message once, in order, eventually |
| `logger_stop` | 2 messages, 1 run | a stop is missed (violation) |
| `queue` | 3 nodes, 4 data | the list implements the queue |
| `files` | 2 tables, 4 numbers, 5 files of a kind | refinement of `FileLog`; value files follow log files; `validate` |
| `stream` | 3 writes of 1 or 2 bytes to a file of 0 to 2 | size, positions and acknowledged bytes |
| `schema` | 2 columns of 4 kinds, sizes modulo 8, 2 writes of the file | layout, reopening after any ending, tables that open can be used |
| `startup` | 3 starts, files of 2 out of 14 lines | trim, fields, the logger's output |

`skiplist` has both kinds of index because `primary` is a variable that no step
changes. `SecondaryBound` keeps the secondary ones to two keys, so that they
repeat.

**Bounds.** Insert and remove look at two neighbours per level and treat levels
below, at and above the node differently: three nodes with every mix of three
heights has all of these cases, at the head, in the middle and at the end. An
instance with four keys passes as well (some minutes). One buffer more than nodes lets
`update` replace data when the index is full. Two duplicates of different
heights are needed for line 187, three let a key be removed in three ways. Four
ids let a thread use one up in a failed begin or leave it behind at exit and
the threads go on; two rows let a deleted one be allocated again while stale
pointers to the old one are around. `MaxAffected` = 2 gives a
commit that is half done. Four messages and two starts let messages survive a
stop and be written by the next run. Bounds on counters (`MaxId`, `MaxAffected`,
`MaxMessages`, `MaxStarts`, `MaxConsumed`) are guards and stop nothing else.
Four numbers and five files let a log start anywhere, go round the last number and
pass it when it is full; six and more numbers add gaps of the same kinds. Three
writes are one before, one at and one after a failure or a crash; two bytes let
a write be cut. Two columns, given or read, are a primary column with
another before or after it, and one of each is a file read into a table that has a column;
sizes 3 and 5 reach 8, where the row size wraps to 0. The four kinds are a column that is a key,
one that is not, one whose line is a comment once the space in front of it is trimmed, and one
with a colon in its name, whose line may be cut into one of four fields. The second write comes after
whatever the first left. Two lines are a key set
twice, three starts a failure, its retry and a change; the 14 lines have each kind of
end of the parsers at least once.
Deadlock is not checked where the program may end: after destruction, a fault,
the exit of all threads, or when a bound is used up. The queue never stops and is
checked for it.

**Fairness.** `Logger!FairSpec`: the runner, the controller inside a call and a
producer between enqueue and notify are scheduled; the mutex is held for a few
instructions, so this is fairness of the scheduler. Nobody has to call, and
spurious wakeups are not fair. The other modules have safety properties only: a
transaction call is a straight line that waits for nothing but short critical sections.

## Where code and documents differ

Three runs expect a violation; `PROJECT.json` (`findings`) quotes the line each
one contradicts.

1. `SkipList::remove` fails its own assertion on duplicates (SkipList.cxx:187).
2. Range scans read through the null pointer behind the last node
   (SkipListIterator.cxx:22, 37, 71; TableTest.cxx:166). The end key is
   compared before the pointer.
3. `stop` can be missed by the logging thread (Logger.cxx:53). `~Logger` then
   joins it without a notification (Logger.cxx:25).

What follows is in the models as the code has it. It has no run of its own:
most are a single step of the code, or no document says otherwise clearly
enough; the properties say where they leave it out.

* Transactions. Commit stamps rows that were deleted in the meantime
  (SkipList.cxx:157 has a TODO about it). A commit without a transaction
  dereferences null before the check that would throw (Table.cxx:250, ThreadContext.cxx:34).
  A nested begin throws after it drew an id (Table.cxx:232, ThreadContext.cxx:26), and a thread
  that exits with its transaction open leaves its id active (ThreadContext.cxx:17): nobody releases
  them, the horizon never passes them, and the minimum of 0 that
  ThreadContextManagerTest.cxx:24-25 and 77-78 expect at rest does not come back (`IdsReleased`
  names both). When the oldest transaction is released between the second critical section of
  `beginTransaction` and the creation of the transaction, the viewpoint is older than
  Transaction.h:32 says (Table.cxx:236); it is never too new, so it costs no correctness.
* Index. In a secondary index `seek` stops at the highest level that meets the
  key, which need not be the first of the equals (SkipList.cxx:325).
* Logger. The runner reads `m_stop` twice; a stop between the two reads ends it
  with messages queued and without the announcement (Logger.cxx:202).
* Files. With 256 files of a kind the next one added is an old one opened again
  (FileManager.cxx:146). After a crash between a log file and its value file the
  pair is missing for good and `validate` asserts (FileManager.cxx:164). Names
  that begin with another table's name are taken for its own (FileManager.cxx:242).
* Stream. Right after `open` of a file that is not empty `getPosition` gives 0,
  StreamFile.h:39 speaks of the end. A `flush` on a full disk loses bytes
  silently (StreamFile.cxx:111); a `write` that failed leaves `m_fileSize` and
  `m_lastOperation` as they were (StreamFile.cxx:93). So does a `read` that failed in front of the
  end of the file (StreamFile.cxx:74), and the next `write` goes to the stream without
  a seek (StreamFile.cxx:87), which `DirectionKept` leaves out (`erred`).
* Schema. `initialize` of a table without a schema file always throws in
  `createIndexes`, after it opened the files (Table.cxx:79; Table.h:29 calls it for
  any table). Retried on one table it reads the columns twice (Schema.cxx:61). When
  `createIndexes` throws in `finalizeSchema`, the schema is final and written all
  the same (Table.cxx:126). A schema line of one character, which a crash may leave, is not
  refused as one of too few fields (Schema.cxx:46): `trim` runs over its end (Schema.cxx:38,
  StringUtils.cxx:38).
* Output. A log file that could not be opened is accepted when a later start asks for the same
  name again, and the logger runs with a closed stream (Logger.cxx:84-85).
  `OutputMatchesMode` leaves it out (`refused`).
* Texts. `trim` runs out of a string whose only printing character is its first
  (StringUtils.cxx:38), so the value of `MaxNodeHeight:8` is undefined. A line
  without a colon is its own key and its own value (Configuration.cxx).

## Proofs

### SkipList_proofs

Proved for any set of keys, any height and any number of nodes, in primary and secondary
indexes, from `HeightAssumption`, `KeyAssumption` (keys are integers), `NodeAssumption` (the
head and `nullptr` are not addresses the allocator returns) and, for scans,
`ScanAssumption` (the pointer to a deleted node is no other pointer, keys have a least one):

* `ImplementsIndex`: `Spec => IndexSpec`, the refinement of `OrderedIndex`;
* `TypeAlwaysOK`, `RowsAlwaysOwnHeap`, `LevelsAlwaysSublists`, `WidthsAlwaysExact`:
  `Spec => []TypeOK`, `[]RowsOwnHeap`, `[]LevelsAreSublists`, `[]WidthsExact`;
* `ScanTypeAlwaysOK`, `ScanAlwaysComplete`: `ScanSpec => []ScanTypeOK`, `[]ScanComplete`.

None of the properties is inductive: they speak of what `Chain` finds on a level, and a
call changes pointers. The invariant `Shape(c, S)` says it without walking: `c` is the
list of the nodes of level 0 and `S[l]` the set of the *places* in it that level `l`
visits. `Listed`, `Sorted` and `Typed` speak of the nodes at the places; `LevelSets` and
`Heights` of the sets (each within the one below, and only nodes tall enough; all of
those in a primary index); `Linked` says that the pointer of a place leads to the
next place of its level and the width is the distance; `Unlinked` that a tall node
which a remove has taken off a level points at nothing there; `Owned` ties data,
size and heap to the list. The argument then has these steps.

* Searching. The function `Walk` is shown to exist and to end where it must by the
  greatest place for which it does not (`WalkIs`), `Traverse` by the same argument on levels
  (`TraverseIs`): on each level it stops at the last place below the key, with the
  place as its rank (`SearchFacts`).
* Inserting and removing change one place: all places behind it move by one.
  `NextWithPlace` and `NextWithoutPlace` say what becomes of the successor on a level,
  once for all levels below, at and above the height of the node;
  `InsertShape` and `RemoveShape` put the parts of the shape together again. Duplicates
  are where it is delicate: remove meets different nodes on different levels, so
  `RemoveShape` takes a set of places off the levels (`LevelsLeft`), and the nodes
  that stay on level 0 become `Unlinked` there.
* Reading. `ListIs` and `LevelIs` say that following the pointers finds `c` and the places of
  `S[l]` in order (`FollowIs`). `EveryCall` shows for each action that the shape is
  kept and that the call is one of `OrderedIndex` with the same result.

A scan has the invariant `ScanInv`: with the shape, the keys it must read are still held
and in its range, those behind the iterator have been read, and those read are
behind the iterator (`OnTrack`). `ScanComplete` alone is not inductive: it does not say
that the keys a scan has read are smaller than the one it stands on, nor that a key it
must read is still held. `FirstAt` and `Behinds` are all that is needed of the shape: no key
of the range lies in front of the node a scan opens at, nor between a node and
the next one.

### Queue_proofs

From `NullAssumption`, for any number of nodes and data: `ListAlwaysOK`
(`Spec => []ListOK`) and `ImplementsFifo` (`Spec => FifoSpec`). The invariant says that
there is a list of the allocated nodes, each followed by the next and the last by nothing,
that begins at `m_first` and ends at `m_last`. `FoundExists` and `FoundIs` show that
the loop of the destructor finds just this list. Enqueue adds a node at the end of the list, dequeue
takes the first off; at the last element both end pointers become null, which
is the case a list without this invariant would lose.

### TableTransactions_proofs

Proved for any set of threads, keys and rows and any
bounds, from the assumptions of `TableTransactions` (`BoundAssumption`: the bounds
are natural numbers; `RowAssumption`: `Null` and `Freed` are not rows):

* `TypeCorrect`: `Spec => []TypeOK`;
* `IdsHeldActive`: `Spec => []HeldIdsActive`;
* `ViewpointsStable`: `Spec => []ViewpointStable`;
* `HorizonNeverBack`: `Spec => HorizonMonotone`;
* `IdsAlwaysReleased`: `Spec => IdsReleased`;
* `SnapshotsDecided`: `Spec => []SnapshotRowsDecided`;
* `RegistryAlwaysLive`: `Spec => []RegistryLive`.

`HeldIdsActive` is not inductive without knowing which `pc` a thread may be at
with an id, and `ViewpointStable` speaks only of open transactions, while the
viewpoint is computed two steps before. The invariant `IdInv` adds, for each thread,
that a pending id is held at `min`, `create` and `release` only and which of them
may have a transaction open, that the pending viewpoint at `create` is below all
active ids, and that an open one is. A new id is above `currentId`, which every
viewpoint is at most; removing an id only weakens the obligation. That is why the
race between the two critical sections is harmless. `HorizonMonotone`
follows without the invariant from the type of `active`: `removeTransactionActive`
takes ids away, and the only id ever added is `currentId + 1`. `IdsReleased` goes through the
steps by the same invariant: `StepGivesUp` shows for each what its thread holds before and
after it, and that other threads hold what they held; `ReleasedByHolder` that the only
step which takes an id away is one of the thread that holds it.

`SnapshotRowsDecided` needs a second invariant, `RowInv`. A row that is not yet
decided was written by an active transaction, so no open viewpoint includes it:
that part (`PendingActive`) and `ViewpointStable` give the property. To keep it
when an id is released, `PendingReached` says that the thread holding the writer's
id has its transaction open and will still come to the row among its affected rows;
the transaction is deleted only once all of them are stamped, so at the release no
such row is left. A deleted row marks pointers to itself only, and another thread
that updates the row takes the writer over together with an entry of its own.
The theorem is about states before a dereference of a freed row: `fault` ends the
behaviour there. `RegistryLive` is inductive with `TypeOK`: only `Register`, `Exit`
and `DropContext` touch contexts, and `Exit` takes the entry out of the map before
`DropContext` destroys what it points at.

### Logger_proofs

From `BoundAssumption`, for any set of producers: `LoggerTypes` (`[]TypeOK`),
`FifoAlways` (`[]FifoExactlyOnce`), `PurgesComplete` (`[]PurgeCompletes`).
`FifoExactlyOnce` compares a concatenation with a list; the invariant `InOrder` says
it place by place: a message is its own place in `written`, in the runner's hand
and in `queue`, and the three lengths add up to `count`. `Phases` excludes that a
new runner starts while an old one still holds a message, and `Announced` ties the
announcement to the queue: it is at most the last message, and once the runner has
counted no items left it is written. Lost signals, spurious wakeups and the two
unprotected reads of `m_stop` are all in the steps; none of them moves a message.

### StreamFile_proofs

From `BoundAssumption`, for files and writes of any length: `StreamTypes`
(`[]TypeOK`), `DirectionAlwaysKept`, `SizeAlwaysReal`, `AckedAlwaysStays`,
`PositionsAlwaysHold`. `DirectionKept` needs `Directed`: the direction of an open
stream in which no write and no read has failed is what `m_lastOperation` says.
`AckedStays` and `PositionsHold` speak of behaviours up to the first flush or close that loses
bytes silently (`lost`). The others rest on
`ByteInv`: a closed stream has an empty buffer, what is acknowledged is on the disk, the
position after a write is the end of disk and buffer (`Positioned`), and each
claimed write is at its place in disk and buffer together (`Placed`). Every step
that does not lose bytes makes the whole longer at its end or leaves it, and a
crash keeps the claims that are acknowledged only, which are on the disk; so a
claim never moves. A point read of acknowledged bytes sees the disk, where the
whole begins.

### FileManager_proofs

From `FilesAssumption`, `SharesAssumption` and the hypothesis `Unrelated` (no name of a
table begins with the name of another, as in the run), for any number of tables, of sequence
numbers and of files: `FileTypes` (`[]TypeOK`), `AlwaysFound` (`[]FoundByNumber`),
`ValuesAlwaysFollow` (`[]ValuesFollowLogs`), `AlwaysValid` (`[]ValidUnlessTorn`) and
`ImplementsLog` (`Spec => FileLogSpec`).

The invariant `FileInv` has four parts: the directory holds the files that
were made (`DiskIsMade`); the value files are at most as many as the log files, and
as many unless a pair is half made or torn (`Lengths`); the files of a short log have
consecutive numbers, both kinds from one first number (`Runs`); a running manager
shows a short log as it was made (`Shown`). The last part is what `orderFiles`
must establish, for every set of files and every order `std::sort` may choose:

* files with different numbers have one sorted order only (`UniqueOrder`, from
  the least place where two orders differ), so an unstable sort does no harm;
* a run that does not pass the last number is sorted and has no gap
  (`OrderedStraight`); one that does has exactly one gap, between its newest
  and its oldest file, and turning the sorted files there gives the run
  (`OrderedRound`).

Writing the number at place `i` in closed form (`Wrapped`) takes the place of an
induction over the log. The full log has no gap that says where it begins; that is
where `Short` leaves it. `StepIsLogStep` maps each action to one of `FileLog`:
adding a file to `Add`, `Initialize` to `Start`, `Destroy` and `Crash` to `Close`.

### TableSchema_proofs

Proved for any columns and any `Width`, from `BoundAssumption` (the bounds are natural
numbers, `Width` not 0), `ChoiceAssumption` (sizes are below `Width`) and `NameAssumption` (the
marks of a line that is no column are not names; `Indented` names are trimmed) and
`RemnantAssumption` (what is left of a line has sizes below `Width` as well): `SchemaTypes`,
`LayoutAlwaysExact`, `FinalizedAlwaysReopens`, `AlwaysOpensWithPrefix` and `OpenAlwaysUsable`,
that is `Spec => []TypeOK`, `[]LayoutExact`, `[]FinalizedReopens`, `[]OpensWithPrefix` and
`[]OpenIsUsable`. They share the inductive invariant `SchemaInv`:

* `Laid(schema)`: the layout of `LayoutExact` whether or not the table is open.
  `addColumn` keeps it (`WithColumnLaid`): the size before the new column is the total so
  far, because nothing has wrapped as long as the whole fits (`Inside`). Reading is
  any number of additions (`WithColumnsIs`), so the layout covers columns read into a
  schema that had some.
* `FileInv`: the file holds the columns `asked`, or the first of them with the last
  line torn (`Holds`, `WrittenHolds`); all of them unless it was cut (`HoldsAll`).
  `FileReadBack` and `WholeReadBack` say what `read` makes of such a file.
* `OpenInv`: a table with an index has a primary column; one that is open has a final schema,
  its index and one primary column of the type of the keys, and is not caught in a line;
  `createIndexes` has agreed to the columns of a finalizeSchema that returned.
* `PrimaryRead`: a table that has read anything has the primary column of its file.
  `OpensWithPrefix` is not inductive without it: a second `initialize` would have to be
  told from the first. With it a second reading finds two primary columns (`PrimaryJoined`),
  and `createIndexes` throws.

A loop over columns is a recursive function; `IterationExists` shows once that such a
function exists, for any step from a set into itself.

### Startup_proofs

`TrimAlwaysExact` (`Spec => []TrimExact`) holds for lines of any length over any characters
and any set of spaces, from `LineAssumption` (a line is a sequence). `Trim` takes
the least and the greatest printing place; that these exist is `LeastExists` and
`GreatestExists`, from the well-founded order of the naturals (`WFMin`), and
`BetweenStrips` shows what lies between them.

`FieldsAlwaysFromLastLine` (`Spec => []FieldsFromLastLine`) needs `NameAssumption` too (a colon
is no space; names are not empty and do not begin with the sign of a comment). The
code trims a line and then divides it at the colon, the property divides and then
strips; `Halves` shows that the pieces differ by spaces only, `StripsOnce` that a text has
one stripped form, so that a line is a line of one key at most (`ReadingMeans`).
`FieldInv` is the property after every line instead of after the last.

`OutputAlwaysMatches` (`Spec => []OutputMatchesMode`) has the inductive invariant
`OutputOK`: the same agreement in every step of a start, also of one that threw.

`StartupTypes` (`Spec => []TypeOK`) rests on `WidthAssumption`, `DigitAssumption` and
`StartsAssumption`. A field is the number of a text narrowed to its width, so it has to be
shown that a text has a number: `IntOf` is a recursive function over the places of
the digits, `CountsExist` and `CountsOnce` give it its values by induction
(`AllNumbers`), `IntOfIsInt` and `StoredTypes` carry them into the fields.

### Only model-checked

Of the properties that passing runs check only `MessagesWritten` is without a theorem: it is
liveness under fairness.

What a recursive function computes is proved for `Walk`, `Traverse`, `Chain`,
`IntOf`, `ReadColumns`, `WithColumns` and `SizeBefore` without an induction rule, which
would take an operator as its parameter: the proof gives the function in closed form, or
the set of the places where it is right, and looks at the least place that could
differ (`AllNumbers`, `UpTo`).

## Not modelled

* `Protocol_v1_0`, `Table::startup`, `recover`, `shutdown`, `commitLogValue`,
  `FileManager::removeLsVsFiles`: no code.
* `readLock` and `writeLock` of `StreamFile` and the mutexes of `FileManager`: they
  are handed out to callers that do not exist yet; the source takes none of them
  itself.
* Loss of kernel buffers (there is no `fsync`), a data directory that is missing
  or holds other things than files, a second `initialize` of one `FileManager`.
* Read isolation: marked TODO in the source; reads return what is in place. The
  contents of rows, so also a primary column whose size is not four bytes.
* The level filter and time stamps of `log`, a `setOutputMode` while the logger
  runs, signals in `main` (they end its wait), the one-second sleep in `stop`.
* `split` and `toUpper` letter by letter: a schema line is its fields, a name is compared
  without case.
* `memoryUsageMB`, `readInt32`, `readInt64`, the random height distribution.
* The tests, but for the claims the findings quote.
