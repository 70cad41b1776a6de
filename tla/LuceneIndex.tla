------------------------------ MODULE LuceneIndex ------------------------------
(***************************************************************************)
(* The Lucene index of one node and the threads that meet in it: requests  *)
(* that change a row and index it, services that index in groups, the      *)
(* rebuilding of the whole index with its worker threads, and the          *)
(* optimiser.  Three locks are involved: the monitor of                    *)
(* LuceneIndexWriterFactory, its static MUTEX, and the reference count     *)
(* that says when the writers may be closed.                               *)
(*                                                                         *)
(* A thread is the sequence of the calls it has still to make, in the      *)
(* order of the code; one call, which holds the monitor of the factory, is *)
(* one action.  Only optimize() keeps that monitor for several calls.  The *)
(* languages of the index, one directory each, are one here, but for the   *)
(* empty index of a rebuilding, which is that of the default language.     *)
(***************************************************************************)
EXTENDS Naturals, Sequences

CONSTANTS
  Metadata,         \* rows of table Metadata
  Workspaces,       \* rows of table Workspace
  Requests,         \* threads of requests
  Workers,          \* threads that index for a rebuilding
  Rebuilders,       \* threads that rebuild the index
  Optimisers,       \* the scheduler's thread and requests that optimise
  None,             \* no thread, no row
  MaxChanges,       \* bound: changes of rows
  MaxOperations     \* bound: changes, rebuildings, optimisations and groups

Rows == Metadata \cup Workspaces
Threads == Requests \cup Workers \cup Rebuilders \cup Optimisers

ASSUME NoneAssumption == None \notin Threads /\ None \notin Rows
\* A row is in one table, and the threads of a rebuilding's pool do nothing else.
ASSUME TableAssumption == Metadata \cap Workspaces = {}
ASSUME PoolAssumption == Workers \cap (Requests \cup Rebuilders \cup Optimisers) = {}
ASSUME BoundAssumption == MaxChanges \in Nat /\ MaxOperations \in Nat

VARIABLES
  row,          \* the committed version of each row, 0 where there is none
  changes,      \* the number of versions so far
  dropped,      \* the rows of Metadata that are gone: ids are not reused
  todo,         \* the calls that each thread has still to make
  seen,         \* the version of the row that a thread is about to index
  selected,     \* the rows that each rebuilding has found in the database
  mutex,        \* the thread that holds MUTEX
  monitor,      \* the thread that keeps the monitor of the factory
  initialiser,  \* the thread in DataManager.init, which is synchronized
  count,        \* field _count
  writers,      \* whether _writers is not empty
  buffer,       \* the documents of each row as the writers see them
  disk,         \* ... and as they are committed, for searches
  maintenance,  \* rebuildings, optimisations and groups so far
  overtaken,    \* auxiliary: rows changed under the eyes of another thread
  failed        \* auxiliary: rows not indexed as they are since an indexing failed

database == << row, changes, dropped >>
locks == << mutex, monitor, initialiser >>
index == << count, writers, buffer, disk >>
auxiliary == << overtaken, failed >>
vars == << database, todo, seen, selected, locks, index, maintenance, auxiliary >>

Operations ==
  { "read", "lock", "open", "delete", "add", "close", "unlock", "group", "sweep",
    "enter", "optimize", "leave", "check", "create", "init", "select", "docs", "done" }

\* What a call is about: a row, the rows of a loop or a table, or nothing of these.
Subjects == Rows \cup {None} \cup SUBSET Rows

--------------------------------------------------------------------------------
(***************************************************************************)
(* The calls of each operation.  Those that depend on what a reading finds *)
(* are added by it.                                                        *)
(***************************************************************************)
Calls(subject, operations) ==
  [i \in DOMAIN operations |-> << operations[i], subject >>]

\* Mutant: without MUTEX.
IndexUnlocked(r) ==
  Calls(r, << "open", "delete", "close", "open", "add", "close" >>)

\* SearchManager.index.
Index(r) ==
  Calls(r, << "lock", "open", "delete", "close", "open", "add", "close", "unlock" >>)

\* SearchManager.delete.
Unindex(r) == Calls(r, << "lock", "open", "delete", "close", "unlock" >>)

\* indexMetadata of one row, which is read first.
IndexOne(r) == Calls(r, << "read" >>)

\* Mutant: without MUTEX.
GroupUnlocked(rows) ==
  << << "open", None >>, << "group", rows >>, << "close", None >> >>

\* indexMetadataGroup: everything with MUTEX, and one reference.
IndexGroup(rows) ==
  << << "lock", None >>, << "open", None >>, << "group", rows >>,
     << "close", None >>, << "unlock", None >> >>

\* What is left of a loop over rows, which come in any order.
Loop(operation, rows) == IF rows = {} THEN << >> ELSE << << operation, rows >> >>

Optimise ==
  Calls(None, << "enter", "lock", "open", "optimize", "close", "unlock", "leave" >>)

Rebuild ==
  << << "check", None >>, << "create", None >>, << "init", None >>,
     << "select", Metadata >>, << "docs", Metadata >>,
     << "select", Workspaces >>, << "docs", Workspaces >>, << "done", None >> >>

--------------------------------------------------------------------------------
TypeOK ==
  /\ row \in [Rows -> 0 .. MaxChanges]
  /\ changes \in 0 .. MaxChanges
  /\ dropped \subseteq Metadata
  /\ todo \in [Threads -> Seq(Operations \X Subjects)]
  /\ seen \in [Threads -> 0 .. MaxChanges]
  /\ selected \in [Threads -> SUBSET Rows]
  /\ mutex \in Threads \cup {None}
  /\ monitor \in Optimisers \cup {None}
  /\ initialiser \in Threads \cup {None}
  /\ count \in Nat
  /\ writers \in BOOLEAN
  /\ buffer \in [Rows -> Seq(1 .. MaxChanges)]
  /\ disk \in [Rows -> Seq(1 .. MaxChanges)]
  /\ maintenance \in 0 .. MaxOperations
  /\ overtaken \subseteq Rows
  /\ failed \subseteq Rows

Init ==
  /\ row = [r \in Rows |-> 0]
  /\ changes = 0
  /\ dropped = {}
  /\ todo = [t \in Threads |-> << >>]
  /\ seen = [t \in Threads |-> 0]
  /\ selected = [t \in Threads |-> {}]
  /\ mutex = None
  /\ monitor = None
  /\ initialiser = None
  /\ count = 0
  /\ writers = FALSE
  /\ buffer = [r \in Rows |-> << >>]
  /\ disk = [r \in Rows |-> << >>]
  /\ maintenance = 0
  /\ overtaken = {}
  /\ failed = {}

Idle(t) == todo[t] = << >>

\* Thread t is about to make this call for this subject.
AtCall(t, operation, subject) ==
  /\ ~Idle(t)
  /\ Head(todo[t]) = << operation, subject >>

CallMade(t) == todo' = [todo EXCEPT ![t] = Tail(@)]

\* ... and these calls follow from it.
CallBrings(t, calls) == todo' = [todo EXCEPT ![t] = calls \o Tail(@)]

MonitorFree(t) == monitor \in {None, t}

--------------------------------------------------------------------------------
(***************************************************************************)
(* Requests.  A change is committed before it is indexed.                  *)
(***************************************************************************)
Begin(t, calls) ==
  /\ Idle(t)
  /\ todo' = [todo EXCEPT ![t] = calls]

\* A rebuilding has selected the table of row r without finding it, and is about
\* to compare the documents, or to delete that of r.
Overlooks(t, r) ==
  \/ \E table \in {Metadata, Workspaces} :
       AtCall(t, "docs", table) /\ r \in table \ selected[t]
  \/ \E i \in DOMAIN todo[t] : todo[t][i][1] = "sweep" /\ r \in todo[t][i][2]

\* Some thread has a view of row r that a change makes an old one: it has read
\* or dropped the row and waits for MUTEX, or it is rebuilding the index.
Watched(r) == \E t \in Threads : AtCall(t, "lock", r) \/ Overlooks(t, r)

\* An insertion or an update of a row.
Change(t, r) ==
  /\ changes < MaxChanges
  /\ changes + maintenance < MaxOperations
  /\ r \notin dropped
  /\ changes' = changes + 1
  /\ row' = [row EXCEPT ![r] = changes + 1]
  /\ Begin(t, IndexOne(r))
  /\ overtaken' = IF Watched(r) THEN overtaken \cup {r} ELSE overtaken
  /\ UNCHANGED << dropped, seen, selected, locks, index, maintenance, failed >>

Drop(t, r) ==
  /\ row[r] # 0
  /\ row' = [row EXCEPT ![r] = 0]
  /\ dropped' = dropped \cup ({r} \cap Metadata)
  /\ Begin(t, Unindex(r))
  /\ overtaken' = IF Watched(r) THEN overtaken \cup {r} ELSE overtaken
  /\ UNCHANGED << changes, seen, selected, locks, index, maintenance, failed >>

Reindex(t, r) ==
  /\ row[r] # 0
  /\ changes + maintenance < MaxOperations
  /\ maintenance' = maintenance + 1
  /\ Begin(t, IndexGroup({r}))
  /\ UNCHANGED << database, seen, selected, locks, index, auxiliary >>

(***************************************************************************)
(* indexMetadataWithoutSendingTopic reads the row.  Without one there is   *)
(* nothing to add, and only the document of a workspace copy is deleted.   *)
(***************************************************************************)
\* Mutant: a document is made of nothing.
ReadAnyRow(t, r) ==
  /\ AtCall(t, "read", r)
  /\ seen' = [seen EXCEPT ![t] = row[r]]
  /\ CallBrings(t, Index(r))
  /\ UNCHANGED << database, selected, locks, index, maintenance, auxiliary >>

ReadRow(t, r) ==
  /\ AtCall(t, "read", r)
  /\ seen' = [seen EXCEPT ![t] = row[r]]
  /\ CallBrings(t, IF row[r] # 0 THEN Index(r)
                   ELSE IF r \in Workspaces THEN Unindex(r) ELSE << >>)
  /\ UNCHANGED << database, selected, locks, index, maintenance, auxiliary >>

\* There is something to index, or the document of a copy to delete.
Indexable(r) == row[r] # 0 \/ r \in Workspaces

\* What is to be indexed cannot be read: "ignored", and the old document stays.
ReadRowFails(t, r) ==
  /\ AtCall(t, "read", r)
  /\ Indexable(r)
  /\ failed' = failed \cup {r}
  /\ CallBrings(t, << >>)
  /\ UNCHANGED << database, seen, selected, locks, index, maintenance, overtaken >>

\* The same for the next row of a group, with MUTEX and with the writers open.
ReadInGroup(t, rows, r) ==
  /\ AtCall(t, "group", rows)
  /\ r \in rows
  /\ seen' = [seen EXCEPT ![t] = row[r]]
  /\ LET calls == IF row[r] # 0 THEN << "delete", "add" >>
                  ELSE IF r \in Workspaces THEN << "delete" >> ELSE << >>
     IN  CallBrings(t, Calls(r, calls) \o Loop("group", rows \ {r}))
  /\ UNCHANGED << database, selected, locks, index, maintenance, auxiliary >>

ReadInGroupFails(t, rows, r) ==
  /\ AtCall(t, "group", rows)
  /\ r \in rows
  /\ Indexable(r)
  /\ failed' = failed \cup {r}
  /\ CallBrings(t, Loop("group", rows \ {r}))
  /\ UNCHANGED << database, seen, selected, locks, index, maintenance, overtaken >>

--------------------------------------------------------------------------------
(***************************************************************************)
(* The locks and the calls of the factory.                                 *)
(***************************************************************************)
Lock(t, s) ==
  /\ AtCall(t, "lock", s)
  /\ mutex = None
  /\ mutex' = t
  /\ CallMade(t)
  /\ UNCHANGED << database, seen, selected, monitor, initialiser, index, maintenance,
                  auxiliary >>

Unlock(t, s) ==
  /\ AtCall(t, "unlock", s)
  /\ mutex' = None
  /\ CallMade(t)
  /\ UNCHANGED << database, seen, selected, monitor, initialiser, index, maintenance,
                  auxiliary >>

OpenWriter(t, s) ==
  /\ AtCall(t, "open", s)
  /\ MonitorFree(t)
  /\ count' = count + 1
  /\ CallMade(t)
  /\ UNCHANGED << database, seen, selected, locks, writers, buffer, disk,
                  maintenance, auxiliary >>

DeleteDocuments(t, r) ==
  /\ AtCall(t, "delete", r)
  /\ MonitorFree(t)
  /\ writers' = TRUE
  /\ buffer' = [buffer EXCEPT ![r] = << >>]
  /\ CallMade(t)
  /\ UNCHANGED << database, seen, selected, locks, count, disk, maintenance,
                  auxiliary >>

AddDocument(t, r) ==
  /\ AtCall(t, "add", r)
  /\ MonitorFree(t)
  /\ writers' = TRUE
  /\ buffer' = [buffer EXCEPT ![r] = Append(@, seen[t])]
  /\ failed' = IF seen[t] = row[r] THEN failed \ {r} ELSE failed
  /\ seen' = [seen EXCEPT ![t] = 0]
  /\ CallMade(t)
  /\ UNCHANGED << database, selected, locks, count, disk, maintenance,
                  overtaken >>

\* Mutant: the exception skips the closing.
AddFailsUnclosed(t, r) ==
  /\ AtCall(t, "add", r)
  /\ failed' = failed \cup {r}
  /\ todo' = [todo EXCEPT ![t] = Tail(Tail(@))]
  /\ UNCHANGED << database, seen, selected, locks, index, maintenance, overtaken >>

\* Mutant: the exception skips everything, and MUTEX is kept.
AddFailsLocked(t, r) ==
  /\ AtCall(t, "add", r)
  /\ failed' = failed \cup {r}
  /\ todo' = [todo EXCEPT ![t] = << >>]
  /\ UNCHANGED << database, seen, selected, locks, index, maintenance, overtaken >>

\* The document cannot be made of the row: it is "ignored", after the deletion.
AddFails(t, r) ==
  /\ AtCall(t, "add", r)
  /\ failed' = failed \cup {r}
  /\ seen' = [seen EXCEPT ![t] = 0]
  /\ CallMade(t)
  /\ UNCHANGED << database, selected, locks, index, maintenance, overtaken >>

\* The last reference closes the writers, any other one commits them.
CloseWriter(t, s) ==
  /\ AtCall(t, "close", s)
  /\ MonitorFree(t)
  /\ IF count > 0
     THEN /\ count' = count - 1
          /\ writers' = (writers /\ count > 1)
          /\ disk' = buffer
     ELSE UNCHANGED << count, writers, disk >>
  /\ CallMade(t)
  /\ UNCHANGED << database, seen, selected, locks, buffer, maintenance, auxiliary >>

--------------------------------------------------------------------------------
(***************************************************************************)
(* The optimiser enters the monitor of the factory, and then waits for     *)
(* MUTEX with it.                                                          *)
(***************************************************************************)
StartOptimise(t) ==
  /\ changes + maintenance < MaxOperations
  /\ maintenance' = maintenance + 1
  /\ Begin(t, Optimise)
  /\ UNCHANGED << database, seen, selected, locks, index, auxiliary >>

EnterMonitor(t) ==
  /\ AtCall(t, "enter", None)
  /\ monitor = None
  /\ monitor' = t
  /\ CallMade(t)
  /\ UNCHANGED << database, seen, selected, mutex, initialiser, index, maintenance,
                  auxiliary >>

Merge(t) ==
  /\ AtCall(t, "optimize", None)
  /\ writers' = TRUE
  /\ CallMade(t)
  /\ UNCHANGED << database, seen, selected, locks, count, buffer, disk, maintenance,
                  auxiliary >>

LeaveMonitor(t) ==
  /\ AtCall(t, "leave", None)
  /\ monitor' = None
  /\ CallMade(t)
  /\ UNCHANGED << database, seen, selected, mutex, initialiser, index, maintenance,
                  auxiliary >>

--------------------------------------------------------------------------------
(***************************************************************************)
(* rebuildIndex refuses while somebody has the index open.  Then it makes  *)
(* an empty one, which fails if the writers have been opened meanwhile, and *)
(* only then enters DataManager.init, which selects all rows, hands them to *)
(* new threads, and deletes the documents of rows that it has not found.   *)
(***************************************************************************)
StartRebuild(t) ==
  /\ changes + maintenance < MaxOperations
  /\ maintenance' = maintenance + 1
  /\ Begin(t, Rebuild)
  /\ UNCHANGED << database, seen, selected, locks, index, auxiliary >>

CheckClosed(t) ==
  /\ AtCall(t, "check", None)
  /\ MonitorFree(t)
  /\ todo' = [todo EXCEPT ![t] = IF count > 0 THEN << >> ELSE Tail(@)]
  /\ UNCHANGED << database, seen, selected, locks, index, maintenance, auxiliary >>

\* The empty index replaces the documents of the default language.
CreateIndex(t) ==
  /\ AtCall(t, "create", None)
  /\ MonitorFree(t)
  /\ IF writers
     THEN /\ todo' = [todo EXCEPT ![t] = << >>]
          /\ UNCHANGED << buffer, disk >>
     ELSE /\ CallMade(t)
          /\ \E emptied \in SUBSET Rows :
               /\ buffer' = [r \in Rows |-> IF r \in emptied THEN << >> ELSE buffer[r]]
               /\ disk' = [r \in Rows |-> IF r \in emptied THEN << >> ELSE disk[r]]
  /\ UNCHANGED << database, seen, selected, locks, count, writers, maintenance,
                  auxiliary >>

EnterInit(t) ==
  /\ AtCall(t, "init", None)
  /\ initialiser = None
  /\ initialiser' = t
  /\ CallMade(t)
  /\ UNCHANGED << database, seen, selected, mutex, monitor, index, maintenance,
                  auxiliary >>

LeaveInit(t) ==
  /\ AtCall(t, "done", None)
  /\ initialiser' = None
  /\ selected' = [selected EXCEPT ![t] = {}]
  /\ CallMade(t)
  /\ UNCHANGED << database, seen, mutex, monitor, index, maintenance,
                  auxiliary >>

SelectRows(t, table) ==
  /\ AtCall(t, "select", table)
  /\ selected' = [selected EXCEPT ![t] = @ \cup { r \in table : row[r] # 0 }]
  /\ CallMade(t)
  /\ UNCHANGED << database, seen, locks, index, maintenance, auxiliary >>

\* A single row is not a group.
IndexMetadataTask(rows) ==
  IF rows = {} THEN << >>
  ELSE IF \E r \in rows : rows = {r} THEN IndexOne(CHOOSE r \in rows : TRUE)
  ELSE IndexGroup(rows)

\* The documents that a new reader finds; the worker is handed all the rows.
CompareDocs(t, w, table) ==
  /\ AtCall(t, "docs", table)
  /\ LET gone == { r \in table \ selected[t] : disk[r] # << >> }
     IN  todo' = [todo EXCEPT ![t] = Loop("sweep", gone) \o Tail(@),
                              ![w] = @ \o IndexMetadataTask(selected[t] \cap table)]
  /\ UNCHANGED << database, seen, selected, locks, index, maintenance, auxiliary >>

Sweep(t, gone, r) ==
  /\ AtCall(t, "sweep", gone)
  /\ r \in gone
  /\ CallBrings(t, Unindex(r) \o Loop("sweep", gone \ {r}))
  /\ UNCHANGED << database, seen, selected, locks, index, maintenance, auxiliary >>

--------------------------------------------------------------------------------
CallOf(t) ==
  \/ \E r \in Rows :
       \/ ReadRow(t, r) \/ ReadRowFails(t, r) \/ DeleteDocuments(t, r)
       \/ AddDocument(t, r) \/ AddFails(t, r)
  \/ \E s \in Rows \cup {None} :
       Lock(t, s) \/ Unlock(t, s) \/ OpenWriter(t, s) \/ CloseWriter(t, s)
  \/ \E rows \in SUBSET Rows : \E r \in rows :
       ReadInGroup(t, rows, r) \/ ReadInGroupFails(t, rows, r) \/ Sweep(t, rows, r)
  \/ EnterMonitor(t) \/ Merge(t) \/ LeaveMonitor(t)
  \/ CheckClosed(t) \/ CreateIndex(t) \/ EnterInit(t) \/ LeaveInit(t)
  \/ \E table \in {Metadata, Workspaces} :
       SelectRows(t, table) \/ \E w \in Workers : CompareDocs(t, w, table)

Next ==
  \/ \E t \in Requests, r \in Rows : Change(t, r) \/ Drop(t, r) \/ Reindex(t, r)
  \/ \E t \in Optimisers : StartOptimise(t)
  \/ \E t \in Rebuilders : StartRebuild(t)
  \/ \E t \in Threads : CallOf(t)

Spec == Init /\ [][Next]_vars

(***************************************************************************)
(* A thread that can make its call makes it.  Java monitors are not fair;  *)
(* with the bounded number of operations here every waiting thread has its *)
(* turn.                                                                   *)
(***************************************************************************)
FairSpec == Spec /\ \A t \in Threads : WF_vars(CallOf(t))

--------------------------------------------------------------------------------
(***************************************************************************)
(* A search finds a record once: between the deletion of the old document  *)
(* of a row and the addition of the new one no other thread adds one.      *)
(***************************************************************************)
AtMostOneDocument ==
  \A r \in Rows : Len(buffer[r]) <= 1 /\ Len(disk[r]) <= 1

(***************************************************************************)
(* When no thread is at work the writers are closed, so that nothing is    *)
(* left in their buffers and the index can be rebuilt: every path through  *)
(* index, delete, the groups and the optimiser gives its reference back,   *)
(* those on which a document fails, too.                                   *)
(***************************************************************************)
Quiet == \A t \in Threads : Idle(t)

ClosedWhenQuiet == Quiet => count = 0 /\ ~writers /\ buffer = disk

(***************************************************************************)
(* When no thread is at work the index holds exactly the rows of the       *)
(* database as they are, after rebuildings, too, except where a document   *)
(* or its reading has failed, or where a row was changed after another     *)
(* thread had looked at it for its own indexing, or for a rebuilding that  *)
(* had not found it.  Rebuildings may overlap.                             *)
(***************************************************************************)
IndexFollowsRows ==
  Quiet =>
    \A r \in Rows \ (overtaken \cup failed) :
      disk[r] = IF row[r] = 0 THEN << >> ELSE << row[r] >>

\* The optimiser has the monitor and waits for MUTEX, whose holder needs the
\* monitor.
Jammed ==
  \E o \in Optimisers :
    /\ monitor = o
    /\ mutex \notin {None, o}
    /\ ~Idle(mutex)
    /\ Head(todo[mutex])[1] \in {"open", "delete", "add", "close"}

(***************************************************************************)
(* All threads come to their ends, unless the optimiser meets an indexing  *)
(* thread: they take the monitor and MUTEX in opposite orders.             *)
(***************************************************************************)
IndexingEnds == ~Quiet ~> Quiet \/ Jammed
================================================================================
