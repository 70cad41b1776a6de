-------------------------------- MODULE Aligner --------------------------------
(***************************************************************************)
(* The alignment of CSW harvesters: how a run brings the records of a      *)
(* remote catalogue into table Metadata, beside the runs of other          *)
(* harvesters and the users of the catalogue.  The run itself, its job and *)
(* the removal of a harvester are in module Harvester.                     *)
(*                                                                         *)
(* A run is one database transaction after another.  A failure while a     *)
(* record is added or updated is caught and not rolled back: what was done *)
(* to the record is committed together with the next one.                  *)
(***************************************************************************)
EXTENDS Naturals

CONSTANTS
  Harvesters,
  Uuids,
  None,        \* no record, no harvester
  MaxChanges,  \* bound: changes of the remote catalogues and by local users
  MaxRuns,     \* bound: runs of harvesters
  MaxFailures  \* bound: failures in runs

ASSUME BoundAssumption == {MaxChanges, MaxRuns, MaxFailures} \subseteq Nat

VARIABLES
  remote,      \* the records of the catalogue that each harvester reads
  metadata,    \* table Metadata, by uuid, which is unique
  ids,         \* number of ids given out
  run,         \* what each harvester does
  found,       \* the records that its search has found (Set<RecordInfo>)
  localUuids,  \* its records at the beginning of the alignment (UUIDMapper)
  todo,        \* the uuids it still has to remove, or to add or update
  work,        \* the record that it adds or updates
  changes, runs, failures,   \* counters of the bounds
  disturbed,   \* auxiliary: what others, or a failure, did since its search
  partial      \* auxiliary: uuids that were added without their harvester

external == << remote, changes >>
table == << metadata, ids >>
position == << run, found, localUuids, todo >>
vars == << external, table, position, work, runs, failures, disturbed, partial >>

\* What the remote catalogue says of a record: its content and its date of change,
\* a day, so that several contents may have one date.
Remote == [version : 0 .. MaxChanges, date : 0 .. MaxChanges]

\* pending: the harvester whose transaction has inserted the row, until it commits.
\* complete: it has its privileges, categories and the status approved.
Row == [id : Nat, owner : Harvesters \cup {None}, content : Remote,
        date : 0 .. MaxChanges, complete : BOOLEAN, pending : Harvesters \cup {None}]

Local == [id : Nat, date : 0 .. MaxChanges]

ASSUME NoneAssumption ==
  /\ None \notin Harvesters /\ None \notin Uuids
  /\ None \notin Remote /\ None \notin Row /\ None \notin Local

Idle == [step |-> "idle", uuid |-> None, id |-> 0, content |-> None]
Work == [step : {"idle", "add", "insert", "mark", "update", "write", "finish"},
         uuid : Uuids \cup {None}, id : Nat, content : Remote \cup {None}]

Partly(S) == [Uuids -> S \cup {None}]

(***************************************************************************)
(* Types, and: a harvester works on a record in its second phase only, and *)
(* only then it keeps rows that are not committed.                         *)
(***************************************************************************)
TypeOK ==
  /\ remote \in [Harvesters -> Partly(Remote)]
  /\ metadata \in Partly(Row)
  /\ ids \in Nat
  /\ run \in [Harvesters -> {"off", "searched", "removing", "aligning"}]
  /\ found \in [Harvesters -> Partly(Remote)]
  /\ localUuids \in [Harvesters -> Partly(Local)]
  /\ todo \in [Harvesters -> SUBSET Uuids]
  /\ work \in [Harvesters -> Work]
  /\ << changes, runs, failures >> \in (0 .. MaxChanges) \X (0 .. MaxRuns) \X (0 .. MaxFailures)
  /\ disturbed \in [Harvesters -> SUBSET Uuids]
  /\ partial \subseteq Uuids
  /\ \A h \in Harvesters :
       work[h] # Idle \/ (\E u \in Uuids : metadata[u] # None /\ metadata[u].pending = h)
         => run[h] = "aligning"

Init ==
  /\ remote \in [Harvesters -> Partly({[version |-> 0, date |-> 0]})]
  /\ metadata = [u \in Uuids |-> None]
  /\ ids = 0
  /\ run = [h \in Harvesters |-> "off"]
  /\ found = [h \in Harvesters |-> [u \in Uuids |-> None]]
  /\ localUuids = [h \in Harvesters |-> [u \in Uuids |-> None]]
  /\ todo = [h \in Harvesters |-> {}]
  /\ work = [h \in Harvesters |-> Idle]
  /\ changes = 0
  /\ runs = 0
  /\ failures = 0
  /\ disturbed = [h \in Harvesters |-> Uuids]
  /\ partial = {}

--------------------------------------------------------------------------------
(***************************************************************************)
(* The table, as a transaction sees it.                                    *)
(***************************************************************************)
Present(u) == metadata[u] # None
VisibleTo(h, u) == Present(u) /\ metadata[u].pending \in {None, h}
HasId(u, id) == Present(u) /\ metadata[u].id = id

\* Mutant: the transaction is left open.
LeftOpen(h, rows) == rows

Committed(h, rows) ==
  [u \in Uuids |-> IF rows[u] # None /\ rows[u].pending = h
                   THEN [rows[u] EXCEPT !.pending = None] ELSE rows[u]]

RolledBack(h, rows) ==
  [u \in Uuids |-> IF rows[u] # None /\ rows[u].pending = h THEN None ELSE rows[u]]

Disturb(h, U) == disturbed' = [disturbed EXCEPT ![h] = @ \cup U]

\* Something is done to the row of u by h (or by a user: None).
Disturbing(h, u) ==
  disturbed' = [k \in Harvesters |-> IF k = h THEN disturbed[k] ELSE disturbed[k] \cup {u}]

\* Bound: failures.
Fail ==
  /\ failures < MaxFailures
  /\ failures' = failures + 1

--------------------------------------------------------------------------------
(***************************************************************************)
(* The remote catalogues, and the users of this one.  Harvested records    *)
(* are not edited, but they may be deleted, and a record with their uuid   *)
(* may be imported.                                                        *)
(***************************************************************************)
Change ==
  /\ changes < MaxChanges
  /\ changes' = changes + 1

RemoteChange(h, u) ==
  /\ Change
  /\ \/ \E day \in 0 .. changes' :
          /\ remote[h][u] # None => day >= remote[h][u].date
          /\ remote' = [remote EXCEPT ![h][u] = [version |-> changes', date |-> day]]
     \/ /\ remote[h][u] # None
        /\ remote' = [remote EXCEPT ![h][u] = None]
  /\ UNCHANGED << table, position, work, runs, failures, disturbed, partial >>

UserDeletes(u) ==
  /\ Change
  /\ VisibleTo(None, u)
  /\ metadata' = [metadata EXCEPT ![u] = None]
  /\ partial' = partial \ {u}
  /\ Disturbing(None, u)
  /\ UNCHANGED << remote, ids, position, work, runs, failures >>

UserAdds(u) ==
  /\ Change
  /\ ~Present(u)
  /\ ids' = ids + 1
  /\ metadata' = [metadata EXCEPT ![u] =
       [id |-> ids', owner |-> None, content |-> [version |-> 0, date |-> 0],
        date |-> 0, complete |-> TRUE, pending |-> None]]
  /\ partial' = partial \cup {u}
  /\ Disturbing(None, u)
  /\ UNCHANGED << remote, position, work, runs, failures >>

--------------------------------------------------------------------------------
(***************************************************************************)
(* A run: the search, the records that the harvester has, the removal of   *)
(* those that were not found, and then one record after the other.         *)
(***************************************************************************)
Search(h) ==
  /\ run[h] = "off"
  /\ runs < MaxRuns
  /\ runs' = runs + 1
  /\ run' = [run EXCEPT ![h] = "searched"]
  /\ found' = [found EXCEPT ![h] = remote[h]]
  /\ disturbed' = [disturbed EXCEPT ![h] = {}]
  /\ UNCHANGED << external, table, localUuids, todo, work, failures, partial >>

Mapped(h) ==
  [u \in Uuids |-> IF VisibleTo(h, u) /\ metadata[u].owner = h
                   THEN [id |-> metadata[u].id, date |-> metadata[u].date] ELSE None]

ReadLocalUuids(h) ==
  /\ run[h] = "searched"
  /\ run' = [run EXCEPT ![h] = "removing"]
  /\ localUuids' = [localUuids EXCEPT ![h] = Mapped(h)]
  /\ todo' = [todo EXCEPT ![h] = {u \in Uuids : Mapped(h)[u] # None /\ found[h][u] = None}]
  /\ UNCHANGED << external, table, found, work, runs, failures, disturbed, partial >>

RemoveOld(h, u) ==
  /\ run[h] = "removing"
  /\ u \in todo[h]
  /\ todo' = [todo EXCEPT ![h] = @ \ {u}]
  /\ IF HasId(u, localUuids[h][u].id)
     THEN metadata' = [metadata EXCEPT ![u] = None] /\ Disturbing(h, u)
     ELSE UNCHANGED << metadata, disturbed >>
  /\ UNCHANGED << external, ids, run, found, localUuids, work, runs, failures, partial >>

RemovedOld(h) ==
  /\ run[h] = "removing"
  /\ todo[h] = {}
  /\ run' = [run EXCEPT ![h] = "aligning"]
  /\ todo' = [todo EXCEPT ![h] = {u \in Uuids : found[h][u] # None}]
  /\ UNCHANGED << external, table, found, localUuids, work, runs, failures,
                  disturbed, partial >>

\* Mutant: a record that has not changed is not updated.
LaterThan(date, localDate) == date > localDate

\* RecordInfo.isMoreRecentThan accepts a day before.
IsMoreRecentThan(date, localDate) == date + 1 > localDate

\* Mutant: whoever has the record.
UpdateAnybodys(h, u) ==
  localUuids[h][u] # None => IsMoreRecentThan(found[h][u].date, localUuids[h][u].date)

\* A record without a local date is "managed by another harvesting node".
ToUpdate(h, u) ==
  /\ localUuids[h][u] # None
  /\ IsMoreRecentThan(found[h][u].date, localUuids[h][u].date)

Look(h, u) ==
  /\ run[h] = "aligning"
  /\ work[h] = Idle
  /\ u \in todo[h]
  /\ todo' = [todo EXCEPT ![h] = @ \ {u}]
  /\ work' = [work EXCEPT ![h] =
       IF ~VisibleTo(h, u) THEN [Idle EXCEPT !.step = "add", !.uuid = u]
       ELSE IF ToUpdate(h, u)
       THEN [Idle EXCEPT !.step = "update", !.uuid = u, !.id = metadata[u].id]
       ELSE Idle]
  /\ UNCHANGED << external, table, run, found, localUuids, runs, failures,
                  disturbed, partial >>

\* GetRecordById: the record may be gone or changed since the search.
Retrieve(h) ==
  LET u == work[h].uuid
  IN  /\ work[h].step \in {"add", "update"}
      /\ work' = [work EXCEPT ![h] =
           IF remote[h][u] = None THEN Idle
           ELSE [work[h] EXCEPT
                   !.step = IF work[h].step = "add" THEN "insert" ELSE "write",
                   !.content = remote[h][u]]]
      /\ IF remote[h][u] = None THEN Disturb(h, {u}) ELSE UNCHANGED disturbed
      /\ UNCHANGED << external, table, position, runs, failures, partial >>

Inserted(h, pending) ==
  LET u == work[h].uuid
  IN  /\ work[h].step = "insert"
      /\ ~Present(u)
      /\ ids' = ids + 1
      /\ metadata' = [metadata EXCEPT ![u] =
           [id |-> ids', owner |-> None, content |-> work[h].content,
            date |-> found[h][u].date, complete |-> FALSE, pending |-> pending]]
      /\ work' = [work EXCEPT ![h].step = "mark", ![h].id = ids']
      /\ Disturbing(h, u)
      /\ UNCHANGED << external, position, runs, failures, partial >>

\* Mutant: the new row is committed at once.
InsertCommitted(h) == Inserted(h, None)

\* While another transaction has inserted the uuid, the statement waits for it.
Insert(h) == Inserted(h, h)

\* setHarvestedExt
Mark(h) ==
  /\ work[h].step = "mark"
  /\ metadata' = [metadata EXCEPT ![work[h].uuid].owner = h]
  /\ work' = [work EXCEPT ![h].step = "finish"]
  /\ UNCHANGED << external, ids, position, runs, failures, disturbed, partial >>

\* updateMetadata commits; it fails when the row is gone.
Write(h) ==
  LET u == work[h].uuid
  IN  /\ work[h].step = "write"
      /\ IF HasId(u, work[h].id)
         THEN /\ metadata' = Committed(h, [metadata EXCEPT
                    ![u].content = work[h].content, ![u].date = found[h][u].date,
                    ![u].complete = FALSE])
              /\ work' = [work EXCEPT ![h].step = "finish"]
              /\ Disturbing(h, u)
         ELSE /\ work' = [work EXCEPT ![h] = Idle]
              /\ UNCHANGED << metadata, disturbed >>
      /\ UNCHANGED << external, ids, position, runs, failures, partial >>

\* Privileges, categories and setStatusExt, which commits; their rows refer to the
\* record's.
Finish(h) ==
  LET u == work[h].uuid
  IN  /\ work[h].step = "finish"
      /\ metadata' = IF HasId(u, work[h].id)
                     THEN Committed(h, [metadata EXCEPT ![u].complete = TRUE])
                     ELSE metadata
      /\ work' = [work EXCEPT ![h] = Idle]
      /\ UNCHANGED << external, ids, position, runs, failures, disturbed, partial >>

\* The exception is caught.  What the transaction has done stays in it.
FailRecord(h) ==
  LET u == work[h].uuid
  IN  /\ work[h] # Idle
      /\ \/ Fail
         \/ work[h].step = "insert" /\ VisibleTo(h, u) /\ UNCHANGED failures
      /\ work' = [work EXCEPT ![h] = Idle]
      /\ partial' = IF work[h].step = "mark" THEN partial \cup {u} ELSE partial
      /\ Disturb(h, {u})
      /\ UNCHANGED << external, table, position, runs >>

\* The resources of the run are closed, which commits.
End(h) ==
  /\ run[h] = "aligning"
  /\ work[h] = Idle
  /\ todo[h] = {}
  /\ run' = [run EXCEPT ![h] = "off"]
  /\ metadata' = Committed(h, metadata)
  /\ UNCHANGED << external, ids, found, localUuids, todo, work, runs, failures,
                  disturbed, partial >>

\* An error outside of a record, or the end of the server: the transaction is
\* rolled back.
Abort(h) ==
  /\ run[h] # "off"
  /\ Fail
  /\ run' = [run EXCEPT ![h] = "off"]
  /\ metadata' = RolledBack(h, metadata)
  /\ todo' = [todo EXCEPT ![h] = {}]
  /\ work' = [work EXCEPT ![h] = Idle]
  /\ partial' = {u \in partial : RolledBack(h, metadata)[u] # None}
  /\ Disturb(h, Uuids)
  /\ UNCHANGED << external, ids, found, localUuids, runs >>

Align(h) ==
  \/ Search(h) \/ ReadLocalUuids(h)
  \/ \E u \in Uuids : RemoveOld(h, u) \/ Look(h, u)
  \/ RemovedOld(h) \/ Retrieve(h) \/ Insert(h) \/ Mark(h) \/ Write(h) \/ Finish(h)
  \/ FailRecord(h) \/ End(h) \/ Abort(h)

Next ==
  \/ \E h \in Harvesters : Align(h)
  \/ \E u \in Uuids : UserDeletes(u) \/ UserAdds(u) \/ \E h \in Harvesters : RemoteChange(h, u)

Spec == Init /\ [][Next]_vars

--------------------------------------------------------------------------------
(***************************************************************************)
(* After a run, every record that its search has found is there, with at   *)
(* least that content and complete if it is the harvester's, and the       *)
(* harvester has no other one, apart from those that somebody else had to  *)
(* do with or that failed in this run: whatever failed in the runs before, *)
(* and although records may change twice on one day.  A record that its    *)
(* catalogue has removed and put back with an earlier date than the local  *)
(* one is not updated.                                                     *)
(***************************************************************************)
UpToDate(u, info) ==
  \/ metadata[u].date > info.date
  \/ metadata[u].content.version >= info.version /\ metadata[u].complete

AlignedFor(h, u) ==
  /\ found[h][u] # None => Present(u)
  /\ Present(u) /\ metadata[u].owner = h =>
       found[h][u] # None /\ UpToDate(u, found[h][u])

Aligned ==
  \A h \in Harvesters : run[h] = "off" =>
    \A u \in Uuids \ disturbed[h] : AlignedFor(h, u)

(***************************************************************************)
(* A run changes and removes records of its own harvester only, unless its *)
(* own record has been replaced by another one during the run.             *)
(***************************************************************************)
OthersUntouched ==
  [][ \A h \in Harvesters, u \in Uuids :
        Align(h) /\ Present(u) /\ metadata'[u] # metadata[u] =>
          \/ metadata[u].owner = h
          \/ metadata[u].pending = h
          \/ localUuids[h][u] # None /\ localUuids[h][u].id # metadata[u].id ]_vars

(***************************************************************************)
(* A record that a run has added is never seen without its harvester, even *)
(* if the run is cut off, unless just this addition has failed: then it    *)
(* belongs to nobody, and no run takes it up again.                        *)
(***************************************************************************)
AddedWithOwner ==
  \A u \in Uuids \ partial :
    Present(u) /\ metadata[u].pending = None => metadata[u].owner \in Harvesters
================================================================================
