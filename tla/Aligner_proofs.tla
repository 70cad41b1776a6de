----------------------------- MODULE Aligner_proofs ----------------------------
(***************************************************************************)
(* Theorems about the runs of harvesters, for any number of harvesters,    *)
(* records, changes, runs and failures.                                    *)
(***************************************************************************)
EXTENDS Aligner, TLAPS

\* Ids grow: what is known of a row by its id is never about a later row.
IdsKnown ==
  /\ \A u \in Uuids : Present(u) => metadata[u].id \in 1 .. ids
  /\ \A h \in Harvesters, u \in Uuids : localUuids[h][u] # None => localUuids[h][u].id <= ids
  /\ \A h \in Harvesters : work[h].id <= ids

\* What a run still has to do is about records it has found, or has to remove.
TodoKnown ==
  \A h \in Harvesters, u \in Uuids :
    u \in todo[h] =>
      /\ run[h] = "removing" => localUuids[h][u] # None
      /\ run[h] = "aligning" => found[h][u] # None

WorkingOn(h, steps) == work[h].step \in steps

\* A record is worked on once in a run, with what is needed for its next step.
WorkKnown ==
  \A h \in Harvesters :
    LET u == work[h].uuid
    IN  /\ WorkingOn(h, {"idle"}) => work[h] = Idle
        /\ ~WorkingOn(h, {"idle"}) => u \in Uuids /\ u \notin todo[h] /\ found[h][u] # None
        /\ WorkingOn(h, {"insert", "write"}) => work[h].content \in Remote
        /\ WorkingOn(h, {"update", "write"}) => localUuids[h][u] # None

\* A row that is not committed is known to the harvester only that has inserted it.
PendingHidden ==
  \A h, k \in Harvesters, u \in Uuids :
    Present(u) /\ metadata[u].pending = h =>
      /\ u \notin todo[h]
      /\ metadata[u].owner \in {None, h}
      /\ k # h =>
           /\ localUuids[k][u] # None => localUuids[k][u].id # metadata[u].id
           /\ work[k].uuid = u => work[k].id # metadata[u].id

\* Nobody takes away the row that a harvester has just inserted.
InsertedThere ==
  \A h \in Harvesters :
    WorkingOn(h, {"mark"}) =>
      HasId(work[h].uuid, work[h].id) /\ metadata[work[h].uuid].pending = h

TypeInv ==
  TypeOK /\ IdsKnown /\ TodoKnown /\ WorkKnown /\ PendingHidden /\ InsertedThere
--------------------------------------------------------------------------------
(***************************************************************************)
(* The table: a commit changes nothing of a row but that it is pending.    *)
(***************************************************************************)
LEMMA CommittedRows ==
  ASSUME NEW h \in Harvesters, NEW rows \in Partly(Row)
  PROVE  /\ Committed(h, rows) \in Partly(Row)
         /\ \A u \in Uuids :
              /\ Committed(h, rows)[u] = None <=> rows[u] = None
              /\ rows[u] # None =>
                   /\ Committed(h, rows)[u].id = rows[u].id
                   /\ Committed(h, rows)[u].owner = rows[u].owner
                   /\ Committed(h, rows)[u].content = rows[u].content
                   /\ Committed(h, rows)[u].date = rows[u].date
                   /\ Committed(h, rows)[u].complete = rows[u].complete
                   /\ Committed(h, rows)[u].pending =
                        IF rows[u].pending = h THEN None ELSE rows[u].pending
BY NoneAssumption DEF Committed, Partly, Row

LEMMA RolledBackRows ==
  ASSUME NEW h \in Harvesters, NEW rows \in Partly(Row)
  PROVE  /\ RolledBack(h, rows) \in Partly(Row)
         /\ \A u \in Uuids :
              /\ rows[u] = None => RolledBack(h, rows)[u] = None
              /\ rows[u] # None =>
                   RolledBack(h, rows)[u] = IF rows[u].pending = h THEN None ELSE rows[u]
BY NoneAssumption DEF RolledBack, Partly, Row


(***************************************************************************)
(* What a commit, a rollback and the end of a record have in common: rows  *)
(* keep their ids and owners, those that other harvesters have not yet     *)
(* committed stay so, and the harvester goes on with less.                 *)
(***************************************************************************)
SettlesRows(h) ==
  \A u \in Uuids :
    /\ metadata'[u] # None =>
         /\ metadata[u] # None
         /\ metadata'[u].id = metadata[u].id
         /\ metadata'[u].owner = metadata[u].owner
         /\ metadata'[u].pending \in {metadata[u].pending, None}
    /\ metadata[u] # None /\ metadata[u].pending \notin {h, None} =>
         metadata'[u] # None /\ metadata'[u].pending = metadata[u].pending

SettlesWork(h) ==
  /\ \A k \in Harvesters \ {h} : work'[k] = work[k] /\ todo'[k] = todo[k]
  /\ todo'[h] \in {todo[h], {}}
  /\ \/ work'[h] = Idle
     \/ /\ work'[h].step = "finish"
        /\ work'[h].uuid = work[h].uuid
        /\ work'[h].id = work[h].id

LEMMA SettledKnown ==
  ASSUME TypeInv, NEW h \in Harvesters, SettlesRows(h), SettlesWork(h),
         UNCHANGED << ids, localUuids >>
  PROVE  IdsKnown' /\ PendingHidden' /\ InsertedThere'
<1>. USE DEF TypeInv, Present, HasId, WorkingOn, Idle
<1>1. IdsKnown'
  BY DEF IdsKnown, SettlesRows, SettlesWork, TypeOK
<1>2. PendingHidden'
  <2>1. SUFFICES ASSUME NEW g \in Harvesters, NEW k \in Harvesters, NEW u \in Uuids,
                        metadata'[u] # None, metadata'[u].pending = g
                 PROVE  /\ u \notin todo'[g]
                        /\ metadata'[u].owner \in {None, g}
                        /\ k # g =>
                             /\ localUuids[k][u] # None =>
                                  localUuids[k][u].id # metadata'[u].id
                             /\ work'[k].uuid = u => work'[k].id # metadata'[u].id
    BY DEF PendingHidden
  <2>2. /\ metadata[u] # None /\ metadata[u].pending = g
        /\ metadata'[u].id = metadata[u].id /\ metadata'[u].owner = metadata[u].owner
    BY <2>1, NoneAssumption DEF SettlesRows
  <2>3. u \notin todo'[g] /\ metadata'[u].owner \in {None, g}
    BY <2>2 DEF PendingHidden, SettlesWork
  <2>4. k # g /\ work'[k].uuid = u => work'[k].id # metadata'[u].id
    BY <2>2, NoneAssumption DEF PendingHidden, SettlesWork
  <2>5. k # g /\ localUuids[k][u] # None => localUuids[k][u].id # metadata'[u].id
    BY <2>2 DEF PendingHidden
  <2>6. QED
    BY <2>3, <2>4, <2>5
<1>3. InsertedThere'
  <2>1. SUFFICES ASSUME NEW k \in Harvesters, work'[k].step = "mark"
                 PROVE  /\ metadata'[work'[k].uuid] # None
                        /\ metadata'[work'[k].uuid].id = work'[k].id
                        /\ metadata'[work'[k].uuid].pending = k
    BY DEF InsertedThere
  <2>2. k # h /\ work'[k] = work[k]
    BY <2>1 DEF SettlesWork
  <2>3. HasId(work[k].uuid, work[k].id) /\ metadata[work[k].uuid].pending = k
    BY <2>1, <2>2 DEF InsertedThere
  <2>4. work[k].uuid \in Uuids
    BY <2>1, <2>2 DEF WorkKnown
  <2>5. QED
    BY <2>2, <2>3, <2>4, NoneAssumption DEF SettlesRows
<1>4. QED
  BY <1>1, <1>2, <1>3

LEMMA WriteSettles ==
  ASSUME TypeInv, NEW h \in Harvesters, Write(h)
  PROVE  /\ metadata' \in Partly(Row) /\ SettlesRows(h) /\ SettlesWork(h)
         /\ work' \in [Harvesters -> Work]
         /\ disturbed' \in [Harvesters -> SUBSET Uuids]
<1>. DEFINE u == work[h].uuid
            rows == [metadata EXCEPT ![u].content = work[h].content,
                                     ![u].date = found[h][u].date,
                                     ![u].complete = FALSE]
<1>. USE DEF TypeInv
<1>1. u \in Uuids /\ found[h][u] \in Remote /\ work[h].content \in Remote
  BY DEF TypeOK, Partly, WorkKnown, WorkingOn, Write
<1>2. CASE HasId(u, work[h].id)
  <2>1. metadata[u] \in Row /\ found[h][u].date \in 0 .. MaxChanges
    BY <1>1, <1>2 DEF TypeOK, Partly, Remote, HasId, Present
  <2>2. /\ rows \in Partly(Row)
        /\ \A v \in Uuids :
             /\ rows[v] = None <=> metadata[v] = None
             /\ metadata[v] # None =>
                  /\ rows[v].id = metadata[v].id
                  /\ rows[v].owner = metadata[v].owner
                  /\ rows[v].pending = metadata[v].pending
    <3>1. /\ rows[u] \in Row
          /\ rows[u].id = metadata[u].id
          /\ rows[u].owner = metadata[u].owner
          /\ rows[u].pending = metadata[u].pending
      BY <1>1, <2>1 DEF TypeOK, Partly, Row
    <3>2. metadata \in Partly(Row) /\ rows \in [Uuids -> Row \cup {None}]
      BY <1>1, <3>1 DEF TypeOK, Partly
    <3>3. \A v \in Uuids \ {u} : rows[v] = metadata[v]
      BY <3>2 DEF Partly
    <3>4. QED
      BY <2>1, <3>1, <3>2, <3>3, NoneAssumption DEF Partly
  <2>3. metadata' = Committed(h, rows)
    BY <1>2 DEF Write
  <2>4. metadata' \in Partly(Row) /\ SettlesRows(h)
    <3>. HIDE DEF rows
    <3>1. QED
      BY <2>2, <2>3, CommittedRows DEF SettlesRows
  <2>5. work' = [work EXCEPT ![h].step = "finish"]
    BY <1>2 DEF Write
  <2>6. work' \in [Harvesters -> Work] /\ SettlesWork(h)
    BY <2>5 DEF TypeOK, Work, SettlesWork, Write, position
  <2>7. disturbed' \in [Harvesters -> SUBSET Uuids]
    <3>1. Disturbing(h, u)
      BY <1>2 DEF Write
    <3>2. QED
      BY <1>1, <3>1 DEF TypeOK, Disturbing
  <2>8. QED
    BY <2>4, <2>6, <2>7
<1>3. CASE ~HasId(u, work[h].id)
  <2>1. work' = [work EXCEPT ![h] = Idle] /\ UNCHANGED << metadata, disturbed, todo >>
    BY <1>3 DEF Write, position
  <2>2. Idle \in Work
    BY DEF Idle, Work
  <2>3. QED
    BY <2>1, <2>2 DEF TypeOK, SettlesRows, SettlesWork
<1>4. QED
  BY <1>2, <1>3

LEMMA FinishSettles ==
  ASSUME TypeInv, NEW h \in Harvesters, Finish(h)
  PROVE  /\ metadata' \in Partly(Row) /\ SettlesRows(h) /\ SettlesWork(h)
         /\ work' \in [Harvesters -> Work]
<1>. DEFINE u == work[h].uuid
            rows == [metadata EXCEPT ![u].complete = TRUE]
<1>. USE DEF TypeInv
<1>1. u \in Uuids
  BY DEF WorkKnown, WorkingOn, Finish
<1>2. metadata' \in Partly(Row) /\ SettlesRows(h)
  <2>1. CASE HasId(u, work[h].id)
    <3>1. metadata[u] \in Row
      BY <1>1, <2>1 DEF TypeOK, Partly, HasId, Present
    <3>2. /\ rows \in Partly(Row)
          /\ \A v \in Uuids :
               /\ rows[v] = None <=> metadata[v] = None
               /\ metadata[v] # None =>
                    /\ rows[v].id = metadata[v].id
                    /\ rows[v].owner = metadata[v].owner
                    /\ rows[v].pending = metadata[v].pending
      <4>1. /\ rows[u] \in Row
            /\ rows[u].id = metadata[u].id
            /\ rows[u].owner = metadata[u].owner
            /\ rows[u].pending = metadata[u].pending
        BY <1>1, <3>1 DEF TypeOK, Partly, Row
      <4>2. metadata \in Partly(Row) /\ rows \in [Uuids -> Row \cup {None}]
        BY <1>1, <4>1 DEF TypeOK, Partly
      <4>3. \A v \in Uuids \ {u} : rows[v] = metadata[v]
        BY <4>2 DEF Partly
      <4>4. QED
        BY <3>1, <4>1, <4>2, <4>3, NoneAssumption DEF Partly
    <3>3. metadata' = Committed(h, rows)
      BY <2>1 DEF Finish
    <3>. HIDE DEF rows
    <3>4. QED
      BY <3>2, <3>3, CommittedRows DEF SettlesRows
  <2>2. CASE ~HasId(u, work[h].id)
    BY <2>2 DEF Finish, TypeOK, SettlesRows
  <2>3. QED
    BY <2>1, <2>2
<1>3. Idle \in Work
  BY DEF Idle, Work
<1>4. work' \in [Harvesters -> Work] /\ SettlesWork(h)
  BY <1>3 DEF TypeOK, SettlesWork, Finish, position
<1>5. QED
  BY <1>2, <1>4

LEMMA FailRecordSettles ==
  ASSUME TypeInv, NEW h \in Harvesters, FailRecord(h)
  PROVE  SettlesRows(h) /\ SettlesWork(h) /\ work' \in [Harvesters -> Work]
<1>1. Idle \in Work
  BY DEF Idle, Work
<1>2. QED
  BY <1>1 DEF TypeInv, TypeOK, SettlesRows, SettlesWork, FailRecord, table, position

LEMMA EndSettles ==
  ASSUME TypeInv, NEW h \in Harvesters, End(h)
  PROVE  metadata' \in Partly(Row) /\ SettlesRows(h) /\ SettlesWork(h)
<1>1. metadata' \in Partly(Row) /\ SettlesRows(h)
  BY CommittedRows DEF TypeInv, TypeOK, SettlesRows, End
<1>2. SettlesWork(h)
  BY DEF SettlesWork, End
<1>3. QED
  BY <1>1, <1>2

LEMMA AbortSettles ==
  ASSUME TypeInv, NEW h \in Harvesters, Abort(h)
  PROVE  /\ metadata' \in Partly(Row) /\ SettlesRows(h) /\ SettlesWork(h)
         /\ work' \in [Harvesters -> Work]
         /\ \A u \in Uuids : metadata'[u] # None => metadata'[u].pending # h
<1>1. /\ metadata' \in Partly(Row)
      /\ SettlesRows(h)
      /\ \A u \in Uuids : metadata'[u] # None => metadata'[u].pending # h
  BY RolledBackRows DEF TypeInv, TypeOK, SettlesRows, Abort
<1>2. Idle \in Work
  BY DEF Idle, Work
<1>3. work' \in [Harvesters -> Work] /\ SettlesWork(h)
  BY <1>2 DEF TypeInv, TypeOK, SettlesWork, Abort
<1>4. QED
  BY <1>1, <1>3

--------------------------------------------------------------------------------
(***************************************************************************)
(* The types and what is known of ids, todo lists, work and rows that are  *)
(* not committed, one lemma per action.                                    *)
(***************************************************************************)
LEMMA RemoteChangeType ==
  ASSUME TypeInv, NEW h \in Harvesters, NEW u \in Uuids, RemoteChange(h, u)
  PROVE  TypeInv'
<1>. USE NoneAssumption, BoundAssumption DEF TypeInv, RemoteChange, Change, external,
         table, position, Present, HasId, VisibleTo, WorkingOn
<1>1. TypeOK'
  <2>1. changes' \in 0 .. MaxChanges
    BY DEF TypeOK
  <2>2. ASSUME NEW day \in 0 .. changes'
        PROVE  [remote EXCEPT ![h][u] = [version |-> changes', date |-> day]]
                 \in [Harvesters -> Partly(Remote)]
    <3>1. [version |-> changes', date |-> day] \in Remote
      BY <2>1, <2>2 DEF TypeOK, Remote
    <3>2. QED
      BY <3>1 DEF TypeOK, Partly
  <2>3. [remote EXCEPT ![h][u] = None] \in [Harvesters -> Partly(Remote)]
    BY DEF TypeOK, Partly
  <2>4. remote' \in [Harvesters -> Partly(Remote)]
    BY <2>2, <2>3
  <2>5. QED
    BY <2>1, <2>4 DEF TypeOK
<1>2. IdsKnown'
  BY DEF IdsKnown
<1>3. TodoKnown'
  BY DEF IdsKnown, TodoKnown
<1>4. WorkKnown'
  BY DEF IdsKnown, TodoKnown, WorkKnown
<1>5. PendingHidden'
  BY DEF PendingHidden, TodoKnown, WorkKnown
<1>6. InsertedThere'
  BY DEF PendingHidden, InsertedThere, WorkKnown
<1>. QED
  BY <1>1, <1>2, <1>3, <1>4, <1>5, <1>6

LEMMA UserDeletesType ==
  ASSUME TypeInv, NEW u \in Uuids, UserDeletes(u)
  PROVE  TypeInv'
<1>. USE NoneAssumption, BoundAssumption DEF TypeInv, UserDeletes, Change, Disturbing,
         external, table, position, Present, HasId, VisibleTo, WorkingOn
<1>1. TypeOK'
  BY DEF TypeOK, Partly
<1>2. IdsKnown'
  BY DEF TypeOK, Partly, IdsKnown
<1>3. TodoKnown'
  BY DEF TypeOK, Partly, IdsKnown, TodoKnown
<1>4. WorkKnown'
  BY DEF IdsKnown, TodoKnown, WorkKnown
<1>5. PendingHidden'
  BY DEF PendingHidden, TodoKnown, WorkKnown
<1>6. InsertedThere'
  BY DEF PendingHidden, InsertedThere, WorkKnown
<1>. QED
  BY <1>1, <1>2, <1>3, <1>4, <1>5, <1>6

LEMMA UserAddsType ==
  ASSUME TypeInv, NEW u \in Uuids, UserAdds(u)
  PROVE  TypeInv'
<1>. USE NoneAssumption, BoundAssumption DEF TypeInv, UserAdds, Change, Disturbing,
         external, table, position, Present, HasId, VisibleTo, WorkingOn
<1>1. TypeOK'
  BY DEF TypeOK, Partly, Remote, Row
<1>2. IdsKnown'
  BY DEF TypeOK, Partly, Remote, Row, Local, Work, IdsKnown
<1>3. TodoKnown'
  BY DEF TypeOK, Partly, Remote, Row, Local, Work, IdsKnown, TodoKnown
<1>4. WorkKnown'
  BY DEF TypeOK, Partly, Local, Work, IdsKnown, TodoKnown, WorkKnown
<1>5. PendingHidden'
  BY DEF PendingHidden, TodoKnown, WorkKnown
<1>6. InsertedThere'
  BY DEF PendingHidden, InsertedThere, WorkKnown
<1>. QED
  BY <1>1, <1>2, <1>3, <1>4, <1>5, <1>6

LEMMA SearchType ==
  ASSUME TypeInv, NEW h \in Harvesters, Search(h)
  PROVE  TypeInv'
<1>. USE NoneAssumption, BoundAssumption DEF TypeInv, Search, external, table,
         position, Present, HasId, VisibleTo, WorkingOn
<1>1. TypeOK'
  BY DEF TypeOK, Partly
<1>2. IdsKnown'
  BY DEF TypeOK, Partly, IdsKnown
<1>3. TodoKnown'
  BY DEF TypeOK, Partly, IdsKnown, TodoKnown
<1>4. WorkKnown'
  BY DEF TypeOK, Idle, IdsKnown, TodoKnown, WorkKnown
<1>5. PendingHidden'
  BY DEF TypeOK, Idle, PendingHidden, TodoKnown, WorkKnown
<1>6. InsertedThere'
  BY DEF TypeOK, Idle, PendingHidden, InsertedThere, WorkKnown
<1>. QED
  BY <1>1, <1>2, <1>3, <1>4, <1>5, <1>6

LEMMA ReadLocalUuidsType ==
  ASSUME TypeInv, NEW h \in Harvesters, ReadLocalUuids(h)
  PROVE  TypeInv'
<1>. USE NoneAssumption, BoundAssumption DEF TypeInv, ReadLocalUuids, Mapped,
         external, table, position, Present, HasId, VisibleTo, WorkingOn
<1>1. TypeOK'
  BY DEF TypeOK, Partly, Row, Local
<1>2. IdsKnown'
  BY DEF TypeOK, Partly, Row, Local, IdsKnown
<1>3. TodoKnown'
  BY DEF TypeOK, Partly, Row, Local, IdsKnown, TodoKnown
<1>4. WorkKnown'
  BY DEF TypeOK, Idle, IdsKnown, TodoKnown, WorkKnown
<1>5. PendingHidden'
  BY DEF TypeOK, Idle, PendingHidden, TodoKnown, WorkKnown
<1>6. InsertedThere'
  BY DEF TypeOK, Idle, PendingHidden, InsertedThere, WorkKnown
<1>. QED
  BY <1>1, <1>2, <1>3, <1>4, <1>5, <1>6

LEMMA RemoveOldType ==
  ASSUME TypeInv, NEW h \in Harvesters, NEW u \in Uuids, RemoveOld(h, u)
  PROVE  TypeInv'
<1>. USE NoneAssumption, BoundAssumption DEF TypeInv, RemoveOld, Disturbing, external,
         table, position, Present, HasId, VisibleTo, WorkingOn
<1>1. TypeOK'
  <2>1. /\ metadata' \in Partly(Row)
        /\ todo' \in [Harvesters -> SUBSET Uuids]
        /\ disturbed' \in [Harvesters -> SUBSET Uuids]
    <3>1. [metadata EXCEPT ![u] = None] \in Partly(Row)
      BY DEF TypeOK, Partly
    <3>2. [k \in Harvesters |-> IF k = h THEN disturbed[k] ELSE disturbed[k] \cup {u}]
            \in [Harvesters -> SUBSET Uuids]
      BY DEF TypeOK
    <3>3. QED
      BY <3>1, <3>2 DEF TypeOK
  <2>2. \A v \in Uuids : metadata'[v] # None => metadata'[v] = metadata[v]
    BY DEF TypeOK, Partly
  <2>3. QED
    BY <2>1, <2>2 DEF TypeOK
<1>2. IdsKnown'
  BY DEF TypeOK, Partly, Remote, Row, Local, IdsKnown
<1>3. TodoKnown'
  BY DEF TypeOK, Partly, Remote, Row, Local, IdsKnown, TodoKnown
<1>4. WorkKnown'
  BY DEF TypeOK, Partly, Remote, Row, Local, IdsKnown, TodoKnown, WorkKnown
<1>5. PendingHidden'
  BY DEF TypeOK, Partly, PendingHidden, TodoKnown, WorkKnown
<1>6. InsertedThere'
  <2>1. SUFFICES ASSUME NEW k \in Harvesters, work[k].step = "mark"
                 PROVE  HasId(work[k].uuid, work[k].id)' /\ metadata'[work[k].uuid].pending = k
    BY DEF InsertedThere
  <2>2. HasId(work[k].uuid, work[k].id) /\ metadata[work[k].uuid].pending = k
    BY <2>1 DEF InsertedThere
  <2>3. work[k].uuid \in Uuids
    BY <2>1 DEF WorkKnown
  <2>4. k # h
    BY <2>1 DEF TypeOK, Idle
  <2>5. work[k].uuid = u => ~HasId(u, localUuids[h][u].id)
    BY <2>2, <2>4 DEF PendingHidden, TodoKnown
  <2>6. metadata'[work[k].uuid] = metadata[work[k].uuid]
    BY <2>3, <2>5 DEF TypeOK, Partly
  <2>. QED
    BY <2>2, <2>6
<1>. QED
  BY <1>1, <1>2, <1>3, <1>4, <1>5, <1>6

LEMMA RemovedOldType ==
  ASSUME TypeInv, NEW h \in Harvesters, RemovedOld(h)
  PROVE  TypeInv'
<1>. USE NoneAssumption, BoundAssumption DEF TypeInv, RemovedOld, external, table,
         position, Present, HasId, VisibleTo, WorkingOn
<1>1. TypeOK'
  BY DEF TypeOK, Partly
<1>2. IdsKnown'
  BY DEF TypeOK, Partly, IdsKnown
<1>3. TodoKnown'
  BY DEF TypeOK, Partly, IdsKnown, TodoKnown
<1>4. WorkKnown'
  BY DEF TypeOK, Idle, IdsKnown, TodoKnown, WorkKnown
<1>5. PendingHidden'
  <2>1. \A v \in Uuids : Present(v) => metadata[v].pending # h
    BY DEF TypeOK
  <2>2. QED
    BY <2>1 DEF PendingHidden, TypeOK
<1>6. InsertedThere'
  BY DEF InsertedThere
<1>. QED
  BY <1>1, <1>2, <1>3, <1>4, <1>5, <1>6

LEMMA LookType ==
  ASSUME TypeInv, NEW h \in Harvesters, NEW u \in Uuids, Look(h, u)
  PROVE  TypeInv'
<1>. USE NoneAssumption, BoundAssumption DEF TypeInv, Look, ToUpdate,
         IsMoreRecentThan, Idle, external, table, position, Present, HasId, VisibleTo,
         WorkingOn
<1>1. TypeOK'
  <2>1. VisibleTo(h, u) => metadata[u].id \in Nat
    BY DEF TypeOK, Partly, Row
  <2>2. work' \in [Harvesters -> Work]
    BY <2>1 DEF TypeOK, Work
  <2>3. \A k \in Harvesters : work'[k] # work[k] => k = h
    BY DEF TypeOK
  <2>4. QED
    BY <2>2, <2>3 DEF TypeOK
<1>2. IdsKnown'
  BY DEF IdsKnown
<1>3. TodoKnown'
  BY DEF IdsKnown, TodoKnown
<1>4. WorkKnown'
  BY DEF TypeOK, IdsKnown, TodoKnown, WorkKnown
<1>5. PendingHidden'
  <2>1. SUFFICES ASSUME NEW g \in Harvesters, NEW k \in Harvesters, NEW v \in Uuids,
                        Present(v), metadata[v].pending = g
                 PROVE  /\ v \notin todo'[g]
                        /\ metadata[v].owner \in {None, g}
                        /\ k # g =>
                             /\ localUuids[k][v] # None =>
                                  localUuids[k][v].id # metadata[v].id
                             /\ work'[k].uuid = v => work'[k].id # metadata[v].id
    BY DEF PendingHidden
  <2>2. /\ v \notin todo'[g]
        /\ metadata[v].owner \in {None, g}
        /\ k # g /\ localUuids[k][v] # None => localUuids[k][v].id # metadata[v].id
    BY <2>1 DEF PendingHidden, TypeOK
  <2>3. ASSUME k # g, work'[k].uuid = v
        PROVE  work'[k].id # metadata[v].id
    <3>1. CASE k # h
      BY <2>1, <2>3, <3>1 DEF PendingHidden, TypeOK
    <3>2. CASE k = h
      <4>1. u = v
        BY <2>3, <3>2, NoneAssumption DEF TypeOK
      <4>2. ~VisibleTo(h, u)
        BY <2>1, <2>3, <3>2, <4>1, NoneAssumption
      <4>3. work'[h].id = 0 /\ metadata[v].id # 0
        BY <4>2, <2>1 DEF TypeOK, IdsKnown
      <4>4. QED
        BY <3>2, <4>3
    <3>3. QED
      BY <3>1, <3>2
  <2>. QED
    BY <2>2, <2>3
<1>6. InsertedThere'
  BY DEF InsertedThere
<1>. QED
  BY <1>1, <1>2, <1>3, <1>4, <1>5, <1>6

LEMMA RetrieveType ==
  ASSUME TypeInv, NEW h \in Harvesters, Retrieve(h)
  PROVE  TypeInv'
<1>. DEFINE u0 == work[h].uuid
<1>. USE NoneAssumption, BoundAssumption DEF TypeInv, Retrieve, Disturb, Idle,
         external, table, position, Present, HasId, VisibleTo, WorkingOn
<1>1. TypeOK'
  <2>1. u0 \in Uuids /\ remote[h][u0] \in Remote \cup {None}
    <3>1. u0 \in Uuids
      BY DEF TypeOK, WorkKnown, Work
    <3>2. QED
      BY <3>1 DEF TypeOK, Partly
  <2>2. ASSUME remote[h][u0] # None
        PROVE  [work[h] EXCEPT !.step = IF work[h].step = "add" THEN "insert" ELSE "write",
                               !.content = remote[h][u0]] \in Work
    BY <2>1, <2>2 DEF TypeOK, Work
  <2>3. work' \in [Harvesters -> Work]
    <3>1. Idle \in Work
      BY DEF Work
    <3>2. QED
      BY <2>2, <3>1 DEF TypeOK
  <2>4. disturbed' \in [Harvesters -> SUBSET Uuids]
    BY <2>1 DEF TypeOK
  <2>5. \A k \in Harvesters : work'[k] # work[k] => k = h
    BY DEF TypeOK
  <2>6. run[h] = "aligning"
    BY DEF TypeOK
  <2>7. QED
    BY <2>3, <2>4, <2>5, <2>6 DEF TypeOK
<1>2. IdsKnown'
  BY DEF TypeOK, IdsKnown
<1>3. TodoKnown'
  BY DEF TypeOK, IdsKnown, TodoKnown
<1>4. WorkKnown'
  <2>1. remote[h][u0] \in Remote \cup {None}
    <3>1. u0 \in Uuids
      BY DEF TypeOK, WorkKnown, Work
    <3>2. QED
      BY <3>1 DEF TypeOK, Partly
  <2>2. ASSUME NEW k \in Harvesters, k # h
        PROVE  work'[k] = work[k]
    BY <2>2 DEF TypeOK
  <2>3. remote[h][u0] = None => work'[h] = Idle
    BY DEF TypeOK
  <2>4. ASSUME remote[h][u0] # None
        PROVE  /\ work'[h].step = IF work[h].step = "add" THEN "insert" ELSE "write"
               /\ work'[h].uuid = u0
               /\ work'[h].content = remote[h][u0]
    BY <2>4 DEF TypeOK, Work
  <2>5. QED
    BY <2>1, <2>2, <2>3, <2>4 DEF WorkKnown, TypeOK
<1>5. PendingHidden'
  BY DEF PendingHidden
<1>6. InsertedThere'
  BY DEF PendingHidden, InsertedThere
<1>. QED
  BY <1>1, <1>2, <1>3, <1>4, <1>5, <1>6

LEMMA InsertType ==
  ASSUME TypeInv, NEW h \in Harvesters, Insert(h)
  PROVE  TypeInv'
<1>. DEFINE u0 == work[h].uuid
<1>. USE NoneAssumption, BoundAssumption DEF TypeInv, Insert, Idle, Inserted,
         Disturbing, external, table, position, Present, HasId, VisibleTo, WorkingOn
<1>1. TypeOK'
  <2>1. u0 \in Uuids /\ found[h][u0] \in Remote /\ work[h].content \in Remote
    <3>1. u0 \in Uuids /\ found[h][u0] # None
      BY DEF WorkKnown
    <3>2. QED
      BY <3>1 DEF TypeOK, Partly, WorkKnown
  <2>2. ids + 1 \in Nat /\ found[h][u0].date \in 0 .. MaxChanges
    BY <2>1 DEF TypeOK, Remote
  <2>3. metadata' \in Partly(Row)
    BY <2>1, <2>2 DEF TypeOK, Partly, Row
  <2>4. work' \in [Harvesters -> Work]
    <3>1. [work[h] EXCEPT !.step = "mark", !.id = ids'] \in Work
      BY <2>2 DEF TypeOK, Work
    <3>2. QED
      BY <3>1 DEF TypeOK
  <2>5. disturbed' \in [Harvesters -> SUBSET Uuids]
    BY <2>1 DEF TypeOK
  <2>6. run[h] = "aligning" /\ work[h] # Idle
    BY DEF TypeOK
  <2>7. \A v \in Uuids : metadata'[v] # metadata[v] => metadata'[v].pending = h
    BY <2>1 DEF TypeOK, Partly
  <2>8. \A k \in Harvesters : work'[k] # work[k] => k = h
    BY DEF TypeOK
  <2>9. QED
    BY <2>2, <2>3, <2>4, <2>5, <2>6, <2>7, <2>8 DEF TypeOK
<1>2. IdsKnown'
  BY DEF TypeOK, Remote, Work, IdsKnown
<1>3. TodoKnown'
  BY DEF TypeOK, Remote, Work, IdsKnown
<1>4. WorkKnown'
  BY DEF TypeOK, Remote, Work, IdsKnown
<1>5. PendingHidden'
  BY DEF TypeOK, IdsKnown, PendingHidden, WorkKnown
<1>6. InsertedThere'
  BY DEF TypeOK, Partly, Row, Work, IdsKnown, PendingHidden, InsertedThere, WorkKnown
<1>. QED
  BY <1>1, <1>2, <1>3, <1>4, <1>5, <1>6

LEMMA MarkType ==
  ASSUME TypeInv, NEW h \in Harvesters, Mark(h)
  PROVE  TypeInv'
<1>. DEFINE u0 == work[h].uuid
<1>. USE NoneAssumption, BoundAssumption DEF TypeInv, Mark, Idle, external, table,
         position, Present, HasId, VisibleTo, WorkingOn
<1>1. TypeOK'
  <2>1. u0 \in Uuids /\ metadata[u0] \in Row
    <3>1. u0 \in Uuids /\ metadata[u0] # None
      BY DEF WorkKnown, InsertedThere
    <3>2. QED
      BY <3>1 DEF TypeOK, Partly
  <2>2. metadata' \in Partly(Row)
    BY <2>1 DEF TypeOK, Partly, Row
  <2>3. work' \in [Harvesters -> Work]
    BY DEF TypeOK, Work
  <2>4. \A v \in Uuids : metadata'[v] # None =>
          metadata[v] # None /\ metadata'[v].pending = metadata[v].pending
    BY <2>1 DEF TypeOK, Partly, Row
  <2>5. run[h] = "aligning"
    BY DEF TypeOK
  <2>6. \A k \in Harvesters : work'[k] # work[k] => k = h
    BY DEF TypeOK
  <2>7. QED
    BY <2>2, <2>3, <2>4, <2>5, <2>6 DEF TypeOK
<1>2. IdsKnown'
  BY DEF IdsKnown, InsertedThere
<1>3. TodoKnown'
  BY DEF IdsKnown, InsertedThere, TodoKnown
<1>4. WorkKnown'
  BY DEF IdsKnown, InsertedThere, TodoKnown, WorkKnown
<1>5. PendingHidden'
  BY DEF PendingHidden, InsertedThere, TodoKnown, WorkKnown
<1>6. InsertedThere'
  BY DEF TypeOK, PendingHidden, InsertedThere, WorkKnown
<1>. QED
  BY <1>1, <1>2, <1>3, <1>4, <1>5, <1>6

LEMMA WriteType ==
  ASSUME TypeInv, NEW h \in Harvesters, Write(h)
  PROVE  TypeInv'
<1>1. /\ metadata' \in Partly(Row) /\ SettlesRows(h) /\ SettlesWork(h)
      /\ work' \in [Harvesters -> Work]
      /\ disturbed' \in [Harvesters -> SUBSET Uuids]
  BY WriteSettles
<1>2. run[h] = "aligning" /\ work[h].step = "write"
  BY DEF TypeInv, TypeOK, Idle, Write
<1>. USE DEF TypeInv, Write, external, position
<1>3. TypeOK'
  BY <1>1, <1>2, NoneAssumption DEF TypeOK, SettlesRows, SettlesWork
<1>4. IdsKnown' /\ PendingHidden' /\ InsertedThere'
  BY <1>1, SettledKnown
<1>5. TodoKnown'
  BY DEF TodoKnown
<1>6. WorkKnown'
  BY <1>1, <1>2 DEF WorkKnown, WorkingOn, SettlesWork, Idle
<1>7. QED
  BY <1>3, <1>4, <1>5, <1>6

LEMMA FinishType ==
  ASSUME TypeInv, NEW h \in Harvesters, Finish(h)
  PROVE  TypeInv'
<1>1. /\ metadata' \in Partly(Row) /\ SettlesRows(h) /\ SettlesWork(h)
      /\ work' \in [Harvesters -> Work]
  BY FinishSettles
<1>2. run[h] = "aligning" /\ work[h].step = "finish"
  BY DEF TypeInv, TypeOK, Idle, Finish
<1>0. UNCHANGED << external, ids, position, runs, failures, disturbed, partial >>
  BY DEF Finish
<1>. USE DEF TypeInv, external, position
<1>3. TypeOK'
  BY <1>0, <1>1, <1>2, NoneAssumption DEF TypeOK, SettlesRows, SettlesWork
<1>4. IdsKnown' /\ PendingHidden' /\ InsertedThere'
  BY <1>0, <1>1, SettledKnown
<1>5. TodoKnown'
  BY <1>0 DEF TodoKnown
<1>6. WorkKnown'
  BY <1>0, <1>1, <1>2 DEF WorkKnown, WorkingOn, SettlesWork, Idle
<1>7. QED
  BY <1>3, <1>4, <1>5, <1>6

LEMMA FailRecordType ==
  ASSUME TypeInv, NEW h \in Harvesters, FailRecord(h)
  PROVE  TypeInv'
<1>1. SettlesRows(h) /\ SettlesWork(h) /\ work' \in [Harvesters -> Work]
  BY FailRecordSettles
<1>2. run[h] = "aligning" /\ work[h].uuid \in Uuids
  BY DEF TypeInv, TypeOK, WorkKnown, WorkingOn, Idle, FailRecord
<1>3. failures' \in 0 .. MaxFailures
  BY BoundAssumption DEF TypeInv, TypeOK, Fail, FailRecord
<1>. USE DEF TypeInv, FailRecord, external, table, position
<1>4. TypeOK'
  BY <1>1, <1>2, <1>3, NoneAssumption DEF TypeOK, Disturb, SettlesWork
<1>5. IdsKnown' /\ PendingHidden' /\ InsertedThere'
  BY <1>1, SettledKnown
<1>6. TodoKnown'
  BY DEF TodoKnown
<1>7. WorkKnown'
  BY <1>1, <1>2 DEF WorkKnown, WorkingOn, SettlesWork, Idle
<1>8. QED
  BY <1>4, <1>5, <1>6, <1>7

LEMMA EndType ==
  ASSUME TypeInv, NEW h \in Harvesters, End(h)
  PROVE  TypeInv'
<1>1. metadata' \in Partly(Row) /\ SettlesRows(h) /\ SettlesWork(h)
  BY EndSettles
<1>2. \A u \in Uuids : metadata'[u] # None => metadata'[u].pending # h
  BY CommittedRows, NoneAssumption DEF TypeInv, TypeOK, End
<1>. USE DEF TypeInv, End, external
<1>3. TypeOK'
  BY <1>1, <1>2, NoneAssumption DEF TypeOK, SettlesRows
<1>4. IdsKnown' /\ PendingHidden' /\ InsertedThere'
  BY <1>1, SettledKnown
<1>5. TodoKnown'
  BY DEF TodoKnown, TypeOK
<1>6. WorkKnown'
  BY DEF WorkKnown, WorkingOn
<1>7. QED
  BY <1>3, <1>4, <1>5, <1>6

LEMMA AbortType ==
  ASSUME TypeInv, NEW h \in Harvesters, Abort(h)
  PROVE  TypeInv'
<1>1. /\ metadata' \in Partly(Row) /\ SettlesRows(h) /\ SettlesWork(h)
      /\ work' \in [Harvesters -> Work]
      /\ \A u \in Uuids : metadata'[u] # None => metadata'[u].pending # h
  BY AbortSettles
<1>2. failures' \in 0 .. MaxFailures
  BY BoundAssumption DEF TypeInv, TypeOK, Fail, Abort
<1>. USE DEF TypeInv, Abort, external
<1>3. TypeOK'
  BY <1>1, <1>2, NoneAssumption DEF TypeOK, Disturb, SettlesRows, SettlesWork
<1>4. IdsKnown' /\ PendingHidden' /\ InsertedThere'
  BY <1>1, SettledKnown
<1>5. TodoKnown'
  BY DEF TodoKnown, TypeOK
<1>6. WorkKnown'
  BY <1>1 DEF WorkKnown, WorkingOn, SettlesWork, Idle, TypeOK
<1>7. QED
  BY <1>3, <1>4, <1>5, <1>6


LEMMA TypeStep ==
  ASSUME TypeInv, Next
  PROVE  TypeInv'
BY RemoteChangeType, UserDeletesType, UserAddsType, SearchType, ReadLocalUuidsType,
   RemoveOldType, RemovedOldType, LookType, RetrieveType, InsertType, MarkType,
   WriteType, FinishType, FailRecordType, EndType, AbortType DEF Next, Align
--------------------------------------------------------------------------------
(***************************************************************************)
(* Who owns what.                                                          *)
(***************************************************************************)
\* What a run takes for its harvester's record is that, or has been replaced.
LocalOwned ==
  \A h \in Harvesters, u \in Uuids :
    localUuids[h][u] # None /\ HasId(u, localUuids[h][u].id) => metadata[u].owner = h

\* What a run completes it has added or found among its own.
FinishOwned ==
  \A h \in Harvesters :
    LET u == work[h].uuid
    IN  work[h].step = "finish" /\ HasId(u, work[h].id) =>
          metadata[u].owner = h \/ localUuids[h][u] # None

\* A row without an owner is about to be marked by the run that has inserted it.
MarkedNext ==
  \A u \in Uuids \ partial :
    Present(u) /\ metadata[u].owner = None =>
      \E h \in Harvesters :
        metadata[u].pending = h /\ work[h].step = "mark" /\ work[h].uuid = u

(***************************************************************************)
(* How far a run has got with a record that nobody has disturbed.          *)
(***************************************************************************)
Own(h, u) == Present(u) /\ metadata[u].owner = h

\* What the run has read of the record is still so.
ReadAsItIs(h, u) ==
  /\ localUuids[h][u] # None
  /\ localUuids[h][u].id = metadata[u].id
  /\ localUuids[h][u].date = metadata[u].date

Done(h, u) ==
  /\ found[h][u] # None => VisibleTo(h, u)
  /\ Own(h, u) => found[h][u] # None /\ UpToDate(u, found[h][u])

AsRecentAsFound(h, u) == metadata[u].content.version >= found[h][u].version

RemovingInv(h, u) ==
  Own(h, u) => ReadAsItIs(h, u) /\ (found[h][u] = None => u \in todo[h])

TodoInv(h, u) == u \in todo[h] => (Own(h, u) => ReadAsItIs(h, u))

BusyInv(h, u) ==
  LET w == work[h]
  IN  /\ w.step \in {"add", "insert"} => ~Own(h, u)
      /\ w.step \in {"update", "write", "finish"} => VisibleTo(h, u) /\ HasId(u, w.id)
      /\ w.step \in {"mark", "finish"} => AsRecentAsFound(h, u)

AligningInv(h, u) ==
  /\ Own(h, u) => found[h][u] # None
  /\ TodoInv(h, u)
  /\ work[h].uuid = u => BusyInv(h, u)
  /\ u \notin todo[h] /\ work[h].uuid # u => Done(h, u)

RunInvFor(h, u) ==
  /\ run[h] = "removing" => RemovingInv(h, u)
  /\ run[h] = "aligning" => AligningInv(h, u)
  /\ run[h] = "off" => Done(h, u)

RunInv == \A h \in Harvesters : \A u \in Uuids \ disturbed[h] : RunInvFor(h, u)

\* Versions of a remote record grow, and what is retrieved is no older than found.
VersionsGrow ==
  \A h \in Harvesters, u \in Uuids :
    /\ remote[h][u] # None => remote[h][u].version <= changes
    /\ found[h][u] # None => found[h][u].version <= changes
    /\ remote[h][u] # None /\ found[h][u] # None =>
         remote[h][u].version >= found[h][u].version
    /\ work[h].step \in {"insert", "write"} /\ work[h].uuid = u =>
         work[h].content.version >= found[h][u].version

OwnerInv == LocalOwned /\ FinishOwned /\ MarkedNext

LEMMA SettledOwned ==
  ASSUME TypeInv, OwnerInv, NEW h \in Harvesters, SettlesRows(h), SettlesWork(h),
         UNCHANGED localUuids,
         work'[h].step = "finish" => localUuids[h][work[h].uuid] # None,
         \A u \in partial : metadata'[u] # None => u \in partial',
         work[h].step = "mark" =>
           work[h].uuid \in partial' \/ metadata'[work[h].uuid] = None
  PROVE  OwnerInv'
<1>. USE DEF OwnerInv, TypeInv, Present, HasId
<1>1. LocalOwned'
  BY DEF LocalOwned, SettlesRows
<1>2. FinishOwned'
  <2>1. SUFFICES ASSUME NEW k \in Harvesters, work'[k].step = "finish",
                        metadata'[work'[k].uuid] # None,
                        metadata'[work'[k].uuid].id = work'[k].id
                 PROVE  \/ metadata'[work'[k].uuid].owner = k
                        \/ localUuids[k][work'[k].uuid] # None
    BY DEF FinishOwned
  <2>2. CASE k = h
    BY <2>1, <2>2 DEF SettlesWork, Idle
  <2>3. CASE k # h
    <3>1. work'[k] = work[k] /\ work[k].uuid \in Uuids
      BY <2>1, <2>3 DEF SettlesWork, WorkKnown, WorkingOn
    <3>2. QED
      BY <2>1, <3>1 DEF FinishOwned, SettlesRows
  <2>4. QED
    BY <2>2, <2>3
<1>3. MarkedNext'
  <2>1. SUFFICES ASSUME NEW u \in Uuids, u \notin partial',
                        metadata'[u] # None, metadata'[u].owner = None
                 PROVE  \E k \in Harvesters :
                          metadata'[u].pending = k /\ work'[k].step = "mark" /\ work'[k].uuid = u
    BY DEF MarkedNext
  <2>2. metadata[u] # None /\ metadata[u].owner = None /\ u \notin partial
    BY <2>1 DEF SettlesRows
  <2>3. PICK k \in Harvesters :
          metadata[u].pending = k /\ work[k].step = "mark" /\ work[k].uuid = u
    BY <2>2 DEF MarkedNext
  <2>4. k # h
    BY <2>1, <2>3
  <2>5. work'[k] = work[k]
    BY <2>4 DEF SettlesWork
  <2>6. metadata'[u].pending = k
    BY <2>2, <2>3, <2>4, NoneAssumption DEF SettlesRows
  <2>7. QED
    BY <2>3, <2>5, <2>6
<1>4. QED
  BY <1>1, <1>2, <1>3

LEMMA EndOfRecordOwned ==
  ASSUME TypeInv, OwnerInv, NEW h \in Harvesters,
         Write(h) \/ Finish(h) \/ FailRecord(h) \/ End(h) \/ Abort(h)
  PROVE  OwnerInv'
<1>1. CASE Write(h)
  <2>1. SettlesRows(h) /\ SettlesWork(h)
    BY <1>1, WriteSettles
  <2>2. work[h].step = "write" /\ localUuids[h][work[h].uuid] # None
    BY <1>1 DEF Write, TypeInv, WorkKnown, WorkingOn
  <2>3. UNCHANGED << localUuids, partial >>
    BY <1>1 DEF Write, position
  <2>4. QED
    BY <2>1, <2>2, <2>3, SettledOwned
<1>2. CASE Finish(h)
  <2>1. SettlesRows(h) /\ SettlesWork(h)
    BY <1>2, FinishSettles
  <2>2. work[h].step = "finish" /\ work'[h] = Idle /\ UNCHANGED << localUuids, partial >>
    BY <1>2 DEF Finish, position, TypeInv, TypeOK
  <2>3. QED
    BY <2>1, <2>2, SettledOwned DEF Idle
<1>3. CASE FailRecord(h)
  <2>1. SettlesRows(h) /\ SettlesWork(h)
    BY <1>3, FailRecordSettles
  <2>2. /\ work'[h] = Idle /\ UNCHANGED localUuids
        /\ partial' = IF work[h].step = "mark" THEN partial \cup {work[h].uuid} ELSE partial
    BY <1>3 DEF FailRecord, position, TypeInv, TypeOK
  <2>3. QED
    BY <2>1, <2>2, SettledOwned DEF Idle
<1>4. CASE End(h)
  <2>1. SettlesRows(h) /\ SettlesWork(h)
    BY <1>4, EndSettles
  <2>2. work[h] = Idle /\ UNCHANGED << localUuids, partial, work >>
    BY <1>4 DEF End
  <2>3. QED
    BY <2>1, <2>2, SettledOwned DEF Idle
<1>5. CASE Abort(h)
  <2>1. /\ metadata' \in Partly(Row) /\ SettlesRows(h) /\ SettlesWork(h)
        /\ \A u \in Uuids : metadata'[u] # None => metadata'[u].pending # h
    BY <1>5, AbortSettles
  <2>2. /\ work'[h] = Idle /\ UNCHANGED localUuids
        /\ partial' = {u \in partial : metadata'[u] # None}
    BY <1>5 DEF Abort, TypeInv, TypeOK
  <2>3. work[h].step = "mark" => metadata'[work[h].uuid] = None
    <3>1. SUFFICES ASSUME work[h].step = "mark"
                   PROVE  metadata'[work[h].uuid] = None
      OBVIOUS
    <3>2. work[h].uuid \in Uuids /\ metadata[work[h].uuid] # None
          /\ metadata[work[h].uuid].pending = h
      BY <3>1 DEF TypeInv, WorkKnown, InsertedThere, WorkingOn, HasId, Present
    <3>3. metadata' = RolledBack(h, metadata)
      BY <1>5 DEF Abort
    <3>4. QED
      BY <3>2, <3>3, RolledBackRows DEF TypeInv, TypeOK
  <2>4. QED
    BY <2>1, <2>2, <2>3, SettledOwned DEF Idle
<1>6. QED
  BY <1>1, <1>2, <1>3, <1>4, <1>5

LEMMA OutsideOwned ==
  ASSUME TypeInv, OwnerInv, NEW u \in Uuids,
         UserDeletes(u) \/ UserAdds(u) \/ \E h \in Harvesters : RemoteChange(h, u)
  PROVE  OwnerInv'
<1>. USE DEF OwnerInv, TypeInv, Present, HasId
<1>1. CASE UserDeletes(u)
  BY <1>1 DEF UserDeletes, LocalOwned, FinishOwned, MarkedNext, TypeOK, Partly, position
<1>2. CASE UserAdds(u)
  <2>1. LocalOwned'
    BY <1>2 DEF UserAdds, LocalOwned, TypeOK, Partly, Local, IdsKnown, position
  <2>2. FinishOwned'
    BY <1>2 DEF UserAdds, FinishOwned, TypeOK, Partly, Work, WorkKnown, WorkingOn,
       IdsKnown, position
  <2>3. MarkedNext'
    BY <1>2 DEF UserAdds, MarkedNext, TypeOK, Partly
  <2>4. QED
    BY <2>1, <2>2, <2>3
<1>3. ASSUME NEW h \in Harvesters, RemoteChange(h, u)
      PROVE  OwnerInv'
  BY <1>3 DEF RemoteChange, LocalOwned, FinishOwned, MarkedNext, table, position
<1>4. QED
  BY <1>1, <1>2, <1>3

LEMMA RunOwned ==
  ASSUME TypeInv, OwnerInv, NEW h \in Harvesters, Align(h)
  PROVE  OwnerInv'
<1>. USE DEF OwnerInv, TypeInv, Present, HasId
<1>1. CASE Search(h)
  BY <1>1 DEF Search, LocalOwned, FinishOwned, MarkedNext, table
<1>2. CASE ReadLocalUuids(h)
  <2>1. \A k \in Harvesters \ {h} : localUuids'[k] = localUuids[k]
    BY <1>2 DEF ReadLocalUuids, TypeOK
  <2>2. LocalOwned'
    BY <1>2, <2>1, NoneAssumption DEF ReadLocalUuids, Mapped, VisibleTo, LocalOwned,
       TypeOK, table
  <2>3. work[h] = Idle
    BY <1>2 DEF ReadLocalUuids, TypeOK
  <2>4. FinishOwned'
    BY <1>2, <2>1, <2>3 DEF ReadLocalUuids, FinishOwned, Idle, table
  <2>5. MarkedNext'
    BY <1>2 DEF ReadLocalUuids, MarkedNext, table
  <2>6. QED
    BY <2>2, <2>4, <2>5
<1>3. ASSUME NEW u \in Uuids, RemoveOld(h, u)
      PROVE  OwnerInv'
  <2>1. \A v \in Uuids : metadata'[v] # None => metadata'[v] = metadata[v]
    BY <1>3 DEF RemoveOld, TypeOK, Partly
  <2>2. \A k \in Harvesters : work[k].step # "idle" => work[k].uuid \in Uuids
    BY DEF WorkKnown, WorkingOn
  <2>3. QED
    BY <1>3, <2>1, <2>2 DEF RemoveOld, LocalOwned, FinishOwned, MarkedNext
<1>4. ASSUME NEW u \in Uuids, Look(h, u)
      PROVE  OwnerInv'
  <2>1. \A k \in Harvesters \ {h} : work'[k] = work[k]
    BY <1>4 DEF Look, TypeOK
  <2>2. work[h] = Idle /\ work'[h].step \in {"idle", "add", "update"}
    BY <1>4 DEF Look, Idle, TypeOK
  <2>3. QED
    BY <1>4, <2>1, <2>2 DEF Look, LocalOwned, FinishOwned, MarkedNext, Idle, table
<1>5. CASE RemovedOld(h)
  BY <1>5 DEF RemovedOld, LocalOwned, FinishOwned, MarkedNext, table
<1>6. CASE Retrieve(h)
  <2>1. \A k \in Harvesters \ {h} : work'[k] = work[k]
    BY <1>6 DEF Retrieve, TypeOK
  <2>2. work[h].step \in {"add", "update"} /\ work'[h].step \in {"idle", "insert", "write"}
    BY <1>6 DEF Retrieve, Idle, TypeOK, Work
  <2>3. QED
    BY <1>6, <2>1, <2>2 DEF Retrieve, LocalOwned, FinishOwned, MarkedNext, table,
       position
<1>7. CASE Insert(h)
  <2>. DEFINE u == work[h].uuid
  <2>1. u \in Uuids /\ ~Present(u) /\ work[h].step = "insert"
    BY <1>7 DEF Insert, Inserted, WorkKnown, WorkingOn
  <2>2. /\ metadata'[u].id = ids + 1 /\ metadata'[u].pending = h
        /\ \A v \in Uuids \ {u} : metadata'[v] = metadata[v]
        /\ work'[h].step = "mark" /\ work'[h].uuid = u
        /\ \A k \in Harvesters \ {h} : work'[k] = work[k]
    BY <1>7, <2>1 DEF Insert, Inserted, TypeOK, Partly, Work
  <2>3. UNCHANGED << localUuids, partial >>
    BY <1>7 DEF Insert, Inserted, position
  <2>4. LocalOwned'
    BY <2>2, <2>3 DEF LocalOwned, IdsKnown, TypeOK, Partly, Local
  <2>5. FinishOwned'
    <3>1. SUFFICES ASSUME NEW k \in Harvesters, work'[k].step = "finish",
                          metadata'[work'[k].uuid] # None,
                          metadata'[work'[k].uuid].id = work'[k].id
                   PROVE  \/ metadata'[work'[k].uuid].owner = k
                          \/ localUuids'[k][work'[k].uuid] # None
      BY DEF FinishOwned
    <3>2. k # h /\ work'[k] = work[k]
      BY <2>2, <3>1
    <3>3. work[k].uuid \in Uuids /\ work[k].id <= ids /\ work[k].id \in Nat /\ ids \in Nat
      BY <3>1, <3>2 DEF WorkKnown, WorkingOn, IdsKnown, TypeOK, Work
    <3>4. work[k].uuid # u
      BY <2>2, <3>1, <3>2, <3>3
    <3>5. QED
      BY <2>2, <2>3, <3>1, <3>2, <3>3, <3>4 DEF FinishOwned
  <2>6. MarkedNext'
    BY <2>1, <2>2, <2>3 DEF MarkedNext
  <2>7. QED
    BY <2>4, <2>5, <2>6
<1>8. CASE Mark(h)
  <2>. DEFINE u == work[h].uuid
  <2>1. /\ u \in Uuids /\ metadata[u] \in Row /\ metadata[u].pending = h
        /\ work[h].step = "mark"
    <3>1. u \in Uuids /\ metadata[u] # None /\ metadata[u].pending = h /\ work[h].step = "mark"
      BY <1>8 DEF Mark, WorkKnown, InsertedThere, WorkingOn
    <3>2. QED
      BY <3>1 DEF TypeOK, Partly
  <2>2. /\ metadata'[u] \in Row /\ metadata'[u].owner = h /\ metadata'[u].id = metadata[u].id
        /\ \A v \in Uuids \ {u} : metadata'[v] = metadata[v]
    BY <1>8, <2>1 DEF Mark, TypeOK, Partly, Row
  <2>3. /\ work'[h].step = "finish" /\ work'[h].uuid = u /\ work'[h].id = work[h].id
        /\ \A k \in Harvesters \ {h} : work'[k] = work[k]
    BY <1>8 DEF Mark, TypeOK, Work
  <2>4. UNCHANGED << localUuids, partial >>
    BY <1>8 DEF Mark, position
  <2>5. LocalOwned'
    BY <2>1, <2>2, <2>4, NoneAssumption DEF LocalOwned, PendingHidden
  <2>6. FinishOwned'
    <3>1. SUFFICES ASSUME NEW k \in Harvesters, k # h, work[k].step = "finish",
                          metadata'[work[k].uuid] # None,
                          metadata'[work[k].uuid].id = work[k].id
                   PROVE  \/ metadata'[work[k].uuid].owner = k
                          \/ localUuids[k][work[k].uuid] # None
      BY <2>2, <2>3, <2>4 DEF FinishOwned
    <3>2. work[k].uuid # u
      BY <2>1, <2>2, <3>1, NoneAssumption DEF PendingHidden
    <3>3. work[k].uuid \in Uuids
      BY <3>1 DEF WorkKnown, WorkingOn
    <3>4. QED
      BY <2>2, <3>1, <3>2, <3>3 DEF FinishOwned
  <2>7. MarkedNext'
    BY <2>2, <2>3, <2>4, NoneAssumption DEF MarkedNext
  <2>8. QED
    BY <2>5, <2>6, <2>7
<1>9. CASE Write(h) \/ Finish(h) \/ FailRecord(h) \/ End(h) \/ Abort(h)
  BY <1>9, EndOfRecordOwned
<1>10. QED
  BY <1>1, <1>2, <1>3, <1>4, <1>5, <1>6, <1>7, <1>8, <1>9 DEF Align

(***************************************************************************)
(* A step of a run changes a row only if it is the harvester's, or is not  *)
(* committed yet, or has replaced the harvester's.                         *)
(***************************************************************************)
MayChange(h, u) ==
  \/ metadata[u].owner = h
  \/ metadata[u].pending = h
  \/ localUuids[h][u] # None /\ localUuids[h][u].id # metadata[u].id

LEMMA OnlyPendingCommitted ==
  ASSUME NEW h \in Harvesters, NEW rows, NEW u \in Uuids, rows[u] # None,
         Committed(h, rows)[u] # rows[u] \/ RolledBack(h, rows)[u] # rows[u]
  PROVE  rows[u].pending = h
BY DEF Committed, RolledBack

LEMMA RunKeepsOthers ==
  ASSUME TypeInv, OwnerInv, NEW h \in Harvesters, Align(h),
         NEW u \in Uuids, Present(u), metadata'[u] # metadata[u]
  PROVE  MayChange(h, u)
<1>. USE DEF MayChange, TypeInv, OwnerInv, Present, HasId
<1>1. CASE \E v \in Uuids : RemoveOld(h, v)
  <2>1. PICK v \in Uuids : RemoveOld(h, v)
    BY <1>1
  <2>2. u = v /\ HasId(u, localUuids[h][u].id) /\ localUuids[h][u] # None
    BY <2>1 DEF RemoveOld, TypeOK, Partly, TodoKnown
  <2>3. QED
    BY <2>2 DEF LocalOwned
<1>2. CASE Insert(h)
  BY <1>2 DEF Insert, Inserted, TypeOK, Partly
<1>3. CASE Mark(h)
  <2>1. work[h].uuid = u
    BY <1>3 DEF Mark, TypeOK, Partly
  <2>2. QED
    BY <1>3, <2>1 DEF Mark, InsertedThere, WorkingOn
<1>4. CASE Write(h)
  <2>. DEFINE v == work[h].uuid
              rows == [metadata EXCEPT ![v].content = work[h].content,
                                       ![v].date = found[h][v].date,
                                       ![v].complete = FALSE]
  <2>1. metadata' = Committed(h, rows) /\ HasId(v, work[h].id)
    BY <1>4 DEF Write
  <2>2. v \in Uuids /\ localUuids[h][v] # None
    BY <1>4 DEF Write, WorkKnown, WorkingOn
  <2>3. CASE u = v
    BY <2>1, <2>2, <2>3 DEF LocalOwned
  <2>4. CASE u # v
    <3>1. rows[u] = metadata[u]
      BY <2>4 DEF TypeOK, Partly
    <3>. HIDE DEF rows
    <3>2. QED
      BY <2>1, <3>1, OnlyPendingCommitted
  <2>5. QED
    BY <2>3, <2>4
<1>5. CASE Finish(h)
  <2>. DEFINE v == work[h].uuid
              rows == [metadata EXCEPT ![v].complete = TRUE]
  <2>1. metadata' = Committed(h, rows) /\ HasId(v, work[h].id) /\ work[h].step = "finish"
    BY <1>5 DEF Finish
  <2>2. CASE u = v
    BY <2>1, <2>2 DEF LocalOwned, FinishOwned
  <2>3. CASE u # v
    <3>1. rows[u] = metadata[u]
      BY <2>3 DEF TypeOK, Partly
    <3>. HIDE DEF rows
    <3>2. QED
      BY <2>1, <3>1, OnlyPendingCommitted
  <2>4. QED
    BY <2>2, <2>3
<1>6. CASE End(h) \/ Abort(h)
  BY <1>6, OnlyPendingCommitted DEF End, Abort
<1>7. QED
  BY <1>1, <1>2, <1>3, <1>4, <1>5, <1>6
     DEF Align, Search, ReadLocalUuids, RemovedOld, Look, Retrieve, FailRecord, table
--------------------------------------------------------------------------------
(***************************************************************************)
(* A step that leaves the record of u to harvester h as it is, or to       *)
(* somebody else, keeps what the run of h has reached with it.             *)
(***************************************************************************)
RowKept(h, u) ==
  /\ VisibleTo(h, u) =>
       /\ VisibleTo(h, u)'
       /\ metadata'[u].id = metadata[u].id
       /\ metadata'[u].content = metadata[u].content
       /\ metadata'[u].date = metadata[u].date
       /\ metadata[u].complete => metadata'[u].complete
  /\ Own(h, u)' => Own(h, u)

PositionKept(h, u) ==
  /\ run'[h] = run[h]
  /\ found'[h] = found[h]
  /\ localUuids'[h] = localUuids[h]
  /\ u \in todo'[h] <=> u \in todo[h]
  /\ work'[h] = work[h] \/ u \notin {work[h].uuid, work'[h].uuid}

LEMMA OwnVisible ==
  ASSUME TypeInv, NEW h \in Harvesters, NEW u \in Uuids, Own(h, u)
  PROVE  VisibleTo(h, u)
BY NoneAssumption DEF TypeInv, TypeOK, Partly, Row, PendingHidden, Own, VisibleTo,
   Present

LEMMA KeptRunInv ==
  ASSUME TypeInv, NEW h \in Harvesters, NEW u \in Uuids, RunInvFor(h, u),
         RowKept(h, u), PositionKept(h, u)
  PROVE  RunInvFor(h, u)'
<1>1. Own(h, u)' => Own(h, u) /\ VisibleTo(h, u)
  BY OwnVisible DEF RowKept
<1>2. ASSUME Done(h, u)
      PROVE  Done(h, u)'
  BY <1>1, <1>2 DEF Done, RowKept, PositionKept, UpToDate
<1>3. ASSUME Own(h, u)', ReadAsItIs(h, u)
      PROVE  ReadAsItIs(h, u)'
  BY <1>1, <1>3 DEF ReadAsItIs, RowKept, PositionKept
<1>4. CASE run[h] = "removing"
  BY <1>1, <1>3, <1>4 DEF RunInvFor, RemovingInv, PositionKept
<1>5. CASE run[h] = "aligning"
  <2>1. AligningInv(h, u)
    BY <1>5 DEF RunInvFor
  <2>2. ASSUME work[h].uuid = u, work'[h] = work[h]
        PROVE  BusyInv(h, u)'
    <3>1. BusyInv(h, u)
      BY <2>1, <2>2 DEF AligningInv
    <3>2. work[h].step = "mark" => VisibleTo(h, u)
      BY <2>2 DEF TypeInv, InsertedThere, WorkingOn, VisibleTo, HasId
    <3>3. QED
      BY <2>2, <3>1, <3>2 DEF BusyInv, RowKept, PositionKept, AsRecentAsFound, HasId,
         VisibleTo
  <2>3. AligningInv(h, u)'
    BY <1>1, <1>2, <1>3, <2>1, <2>2 DEF AligningInv, TodoInv, PositionKept
  <2>4. QED
    BY <1>5, <2>3 DEF RunInvFor, PositionKept
<1>6. CASE run[h] = "off"
  BY <1>2, <1>6 DEF RunInvFor, PositionKept
<1>7. QED
  BY <1>4, <1>5, <1>6 DEF RunInvFor, PositionKept

\* What the commits of harvester k do to a row.
LEMMA CommitKept ==
  ASSUME TypeInv, NEW h \in Harvesters, NEW k \in Harvesters, NEW u \in Uuids,
         NEW rows \in Partly(Row), metadata' = Committed(k, rows),
         \/ rows[u] = metadata[u]
         \/ metadata[u] # None /\ rows[u] = [metadata[u] EXCEPT !.complete = TRUE]
  PROVE  RowKept(h, u)
<1>1. metadata \in Partly(Row)
  BY DEF TypeInv, TypeOK
<1>2. /\ rows[u] = None <=> metadata[u] = None
      /\ metadata[u] # None =>
           /\ rows[u].id = metadata[u].id
           /\ rows[u].owner = metadata[u].owner
           /\ rows[u].content = metadata[u].content
           /\ rows[u].date = metadata[u].date
           /\ rows[u].pending = metadata[u].pending
           /\ metadata[u].complete => rows[u].complete
  BY <1>1, NoneAssumption DEF Partly, Row
<1>3. /\ metadata'[u] = None <=> metadata[u] = None
      /\ metadata[u] # None =>
           /\ metadata'[u].id = metadata[u].id
           /\ metadata'[u].owner = metadata[u].owner
           /\ metadata'[u].content = metadata[u].content
           /\ metadata'[u].date = metadata[u].date
           /\ metadata'[u].pending \in {metadata[u].pending, None}
           /\ metadata[u].complete => metadata'[u].complete
  BY <1>2, CommittedRows
<1>4. QED
  BY <1>3 DEF RowKept, VisibleTo, Present, Own

\* Other harvesters, users and remote catalogues keep what is not disturbed.
LEMMA OthersKeepRows ==
  ASSUME TypeInv, NEW h \in Harvesters, NEW k \in Harvesters \ {h}, Align(k),
         NEW u \in Uuids, u \notin disturbed'[h]
  PROVE  RowKept(h, u) /\ u \notin disturbed[h]
<1>. USE DEF TypeInv, Present, HasId
<1>1. CASE metadata' = metadata /\ disturbed'[h] = disturbed[h]
  BY <1>1 DEF RowKept, VisibleTo, Own
<1>2. ASSUME NEW v \in Uuids, RemoveOld(k, v)
      PROVE  RowKept(h, u) /\ u \notin disturbed[h]
  BY <1>2 DEF RemoveOld, Disturbing, RowKept, VisibleTo, Own, TypeOK, Partly
<1>3. CASE Insert(k)
  <2>1. Disturbing(k, work[k].uuid)
    BY <1>3 DEF Insert, Inserted
  <2>2. u # work[k].uuid /\ u \notin disturbed[h]
    BY <2>1 DEF Disturbing
  <2>3. metadata'[u] = metadata[u]
    BY <1>3, <2>2 DEF Insert, Inserted, TypeOK, Partly
  <2>4. QED
    BY <2>2, <2>3 DEF RowKept, VisibleTo, Own
<1>4. CASE Mark(k)
  <2>1. u \notin disturbed[h]
    BY <1>4 DEF Mark
  <2>2. CASE u # work[k].uuid
    BY <1>4, <2>1, <2>2 DEF Mark, RowKept, VisibleTo, Own, TypeOK, Partly
  <2>3. CASE u = work[k].uuid
    <3>1. metadata[u] \in Row /\ metadata[u].pending = k
      BY <1>4, <2>3 DEF Mark, InsertedThere, WorkingOn, TypeOK, Partly
    <3>2. metadata'[u].owner = k
      BY <1>4, <2>3, <3>1 DEF Mark, TypeOK, Partly, Row
    <3>3. QED
      BY <2>1, <3>1, <3>2, NoneAssumption DEF RowKept, VisibleTo, Own
  <2>4. QED
    BY <2>2, <2>3
<1>5. CASE Write(k) /\ HasId(work[k].uuid, work[k].id)
  <2>. DEFINE v == work[k].uuid
              rows == [metadata EXCEPT ![v].content = work[k].content,
                                       ![v].date = found[k][v].date,
                                       ![v].complete = FALSE]
  <2>1. metadata' = Committed(k, rows) /\ Disturbing(k, v)
    BY <1>5 DEF Write
  <2>2. u # v /\ u \notin disturbed[h]
    BY <2>1 DEF Disturbing
  <2>3. rows[u] = metadata[u]
    BY <2>2 DEF TypeOK, Partly
  <2>. HIDE DEF rows
  <2>4. Committed(k, rows)[u] = IF metadata[u] # None /\ metadata[u].pending = k
                                THEN [metadata[u] EXCEPT !.pending = None] ELSE metadata[u]
    BY <2>3 DEF Committed
  <2>5. metadata[u] \in Row \cup {None}
    BY DEF TypeOK, Partly
  <2>6. QED
    BY <2>1, <2>2, <2>4, <2>5, NoneAssumption DEF RowKept, VisibleTo, Own, Row
<1>6. CASE Finish(k) /\ HasId(work[k].uuid, work[k].id)
  <2>. DEFINE v == work[k].uuid
              rows == [metadata EXCEPT ![v].complete = TRUE]
  <2>1. metadata' = Committed(k, rows) /\ UNCHANGED disturbed
    BY <1>6 DEF Finish
  <2>2. v \in Uuids /\ metadata[v] \in Row
    BY <1>6 DEF Finish, WorkKnown, WorkingOn, TypeOK, Partly
  <2>3. rows \in Partly(Row)
    <3>1. rows[v] \in Row
      BY <2>2 DEF TypeOK, Partly, Row
    <3>2. QED
      BY <2>2, <3>1 DEF TypeOK, Partly
  <2>4. \/ rows[u] = metadata[u]
        \/ metadata[u] # None /\ rows[u] = [metadata[u] EXCEPT !.complete = TRUE]
    BY <1>6, <2>2 DEF TypeOK, Partly
  <2>. HIDE DEF rows
  <2>5. QED
    BY <2>1, <2>3, <2>4, CommitKept
<1>7. CASE End(k)
  BY <1>7, CommitKept DEF End, TypeOK
<1>8. CASE Abort(k)
  <2>1. u \notin disturbed[h] /\ metadata' = RolledBack(k, metadata)
    BY <1>8 DEF Abort, Disturb, TypeOK
  <2>2. \/ metadata'[u] = metadata[u]
        \/ metadata'[u] = None /\ metadata[u].pending = k
    BY <2>1 DEF RolledBack
  <2>3. QED
    BY <2>1, <2>2, NoneAssumption DEF RowKept, VisibleTo, Own
<1>9. CASE \/ Search(k) \/ ReadLocalUuids(k) \/ RemovedOld(k) \/ Retrieve(k) \/ FailRecord(k)
           \/ \E v \in Uuids : Look(k, v)
           \/ Write(k) /\ ~HasId(work[k].uuid, work[k].id)
           \/ Finish(k) /\ ~HasId(work[k].uuid, work[k].id)
  <2>1. metadata' = metadata
    BY <1>9 DEF Search, ReadLocalUuids, RemovedOld, Retrieve, FailRecord, Look, Write,
       Finish,
       table
  <2>2. disturbed'[h] = disturbed[h]
    BY <1>9 DEF Search, ReadLocalUuids, RemovedOld, Retrieve, FailRecord, Look, Write,
       Finish,
       Disturb, TypeOK
  <2>3. QED
    BY <1>1, <2>1, <2>2
<1>10. QED
  BY <1>2, <1>3, <1>4, <1>5, <1>6, <1>7, <1>8, <1>9 DEF Align

(***************************************************************************)
(* One step of the run of harvester h, seen from a record of its own.      *)
(***************************************************************************)
LEMMA OwnRunBegins ==
  ASSUME TypeInv, RunInv, NEW h \in Harvesters, NEW u \in Uuids, u \notin disturbed'[h],
         \/ Search(h) \/ ReadLocalUuids(h) \/ RemovedOld(h)
         \/ \E v \in Uuids : RemoveOld(h, v)
  PROVE  RunInvFor(h, u)'
<1>. USE DEF TypeInv
<1>1. CASE Search(h)
  BY <1>1 DEF Search, RunInvFor, TypeOK
<1>2. CASE ReadLocalUuids(h)
  <2>1. run'[h] = "removing" /\ localUuids'[h] = Mapped(h) /\ UNCHANGED << table, found >>
        /\ todo'[h] = {v \in Uuids : Mapped(h)[v] # None /\ found[h][v] = None}
    BY <1>2 DEF ReadLocalUuids, TypeOK
  <2>2. Own(h, u)' => Own(h, u) /\ VisibleTo(h, u)
    BY <2>1, OwnVisible DEF Own, Present, table
  <2>3. ASSUME Own(h, u), VisibleTo(h, u)
        PROVE  /\ Mapped(h)[u] = [id |-> metadata[u].id, date |-> metadata[u].date]
               /\ Mapped(h)[u] # None
    <3>1. metadata[u] \in Row
      BY <2>3 DEF TypeOK, Partly, Own, Present
    <3>2. [id |-> metadata[u].id, date |-> metadata[u].date] \in Local
      BY <3>1 DEF Row, Local
    <3>3. QED
      BY <2>3, <3>2, NoneAssumption DEF Mapped, Own
  <2>4. QED
    BY <2>1, <2>2, <2>3 DEF RunInvFor, RemovingInv, ReadAsItIs, table
<1>3. CASE RemovedOld(h)
  <2>1. run[h] = "removing" /\ run'[h] = "aligning" /\ todo[h] = {} /\ u \notin disturbed[h]
        /\ todo'[h] = {v \in Uuids : found[h][v] # None}
        /\ UNCHANGED << table, found, localUuids, work >>
    BY <1>3 DEF RemovedOld, TypeOK
  <2>2. RemovingInv(h, u)
    BY <2>1 DEF RunInv, RunInvFor
  <2>3. work[h].uuid # u
    BY <2>1, NoneAssumption DEF TypeOK, Idle
  <2>4. AligningInv(h, u)'
    BY <2>1, <2>2, <2>3 DEF AligningInv, RemovingInv, TodoInv, Done, Own, Present,
       VisibleTo,
       ReadAsItIs, table
  <2>5. QED
    BY <2>1, <2>4 DEF RunInvFor
<1>4. ASSUME NEW v \in Uuids, RemoveOld(h, v)
      PROVE  RunInvFor(h, u)'
  <2>1. run[h] = "removing" /\ run'[h] = "removing" /\ u \notin disturbed[h]
    BY <1>4 DEF RemoveOld, Disturbing, TypeOK
  <2>2. RemovingInv(h, u)
    BY <2>1 DEF RunInv, RunInvFor
  <2>3. metadata'[u] # None => metadata'[u] = metadata[u]
    BY <1>4 DEF RemoveOld, TypeOK, Partly
  <2>4. u = v => ~Own(h, u)'
    <3>1. u = v /\ HasId(u, localUuids[h][u].id) => metadata'[u] = None
      BY <1>4 DEF RemoveOld, TypeOK, Partly
    <3>2. Own(h, u)' => Own(h, u)
      BY <2>3 DEF Own, Present
    <3>3. QED
      BY <2>2, <3>1, <3>2 DEF RemovingInv, ReadAsItIs, Own, Present, HasId
  <2>5. u # v => (u \in todo'[h] <=> u \in todo[h])
    BY <1>4 DEF RemoveOld, TypeOK
  <2>6. RemovingInv(h, u)'
    BY <1>4, <2>2, <2>3, <2>4, <2>5 DEF RemoveOld, RemovingInv, Own, Present, ReadAsItIs
  <2>7. QED
    BY <2>1, <2>6 DEF RunInvFor
<1>5. QED
  BY <1>1, <1>2, <1>3, <1>4

LEMMA OwnRunLooks ==
  ASSUME TypeInv, RunInv, NEW h \in Harvesters, NEW u \in Uuids, u \notin disturbed'[h],
         NEW v \in Uuids, Look(h, v)
  PROVE  RunInvFor(h, u)'
<1>. USE DEF TypeInv
<1>1. /\ run[h] = "aligning" /\ run'[h] = "aligning" /\ u \notin disturbed[h]
      /\ UNCHANGED << metadata, found, localUuids >>
      /\ todo'[h] = todo[h] \ {v} /\ v \in todo[h] /\ work[h] = Idle
  BY DEF Look, TypeOK, table
<1>2. AligningInv(h, u)
  BY <1>1 DEF RunInv, RunInvFor
<1>3. work'[h].uuid \in {v, None}
  BY DEF Look, TypeOK, Idle
<1>4. CASE u # v
  <2>1. RowKept(h, u) /\ PositionKept(h, u)
    BY <1>1, <1>3, <1>4, NoneAssumption DEF RowKept, PositionKept, VisibleTo, Present,
       Own, Idle
  <2>2. QED
    BY <1>1, <2>1, KeptRunInv DEF RunInv
<1>5. CASE u = v
  <2>1. found[h][u] # None /\ (Own(h, u) => ReadAsItIs(h, u))
    BY <1>1, <1>2, <1>5 DEF TodoKnown, AligningInv, TodoInv
  <2>2. CASE ~VisibleTo(h, u)
    <3>1. work'[h] = [Idle EXCEPT !.step = "add", !.uuid = u]
      BY <1>5, <2>2 DEF Look, TypeOK
    <3>2. ~Own(h, u)
      BY <2>2, OwnVisible
    <3>3. AligningInv(h, u)'
      BY <1>1, <1>5, <3>1, <3>2 DEF AligningInv, TodoInv, BusyInv, Own, Present, Idle
    <3>4. QED
      BY <1>1, <3>3 DEF RunInvFor
  <2>3. CASE VisibleTo(h, u) /\ ToUpdate(h, u)
    <3>1. work'[h] = [Idle EXCEPT !.step = "update", !.uuid = u, !.id = metadata[u].id]
      BY <1>5, <2>3 DEF Look, TypeOK
    <3>2. AligningInv(h, u)'
      BY <1>1, <1>2, <1>5, <2>3, <3>1
         DEF AligningInv, TodoInv, BusyInv, Own, Present, VisibleTo, HasId, Idle
    <3>3. QED
      BY <1>1, <3>2 DEF RunInvFor
  <2>4. CASE VisibleTo(h, u) /\ ~ToUpdate(h, u)
    <3>1. work'[h] = Idle
      BY <1>5, <2>4 DEF Look, TypeOK
    <3>2. found[h][u] \in Remote
      BY <2>1 DEF TypeOK, Partly
    <3>3. Own(h, u) => UpToDate(u, found[h][u])
      <4>1. SUFFICES ASSUME Own(h, u)
                     PROVE  metadata[u].date > found[h][u].date
        BY DEF UpToDate
      <4>2. ~IsMoreRecentThan(found[h][u].date, metadata[u].date)
        BY <2>1, <2>4, <4>1 DEF ToUpdate, ReadAsItIs
      <4>3. metadata[u].date \in Nat /\ found[h][u].date \in Nat
        BY <3>2, <4>1, BoundAssumption DEF TypeOK, Partly, Row, Remote, Own, Present
      <4>4. QED
        BY <4>2, <4>3 DEF IsMoreRecentThan
    <3>4. Done(h, u)
      BY <2>1, <2>4, <3>3 DEF Done
    <3>5. AligningInv(h, u)'
      BY <1>1, <1>5, <2>1, <3>1, <3>4, NoneAssumption
         DEF AligningInv, TodoInv, Done, Own, Present, VisibleTo, UpToDate, Idle
    <3>6. QED
      BY <1>1, <3>5 DEF RunInvFor
  <2>5. QED
    BY <2>2, <2>3, <2>4
<1>6. QED
  BY <1>4, <1>5

LEMMA OwnRunRetrieves ==
  ASSUME TypeInv, RunInv, VersionsGrow, NEW h \in Harvesters, NEW u \in Uuids,
         u \notin disturbed'[h], Retrieve(h)
  PROVE  RunInvFor(h, u)'
<1>. USE DEF TypeInv
<1>1. /\ run[h] = "aligning" /\ UNCHANGED << run, metadata, found, localUuids, todo >>
      /\ work[h].uuid \in Uuids /\ work[h].step \in {"add", "update"}
  BY DEF Retrieve, TypeOK, WorkKnown, WorkingOn, Idle, table, position
<1>2. u \notin disturbed[h] /\ (u = work[h].uuid => remote[h][u] # None)
  BY <1>1 DEF Retrieve, Disturb, TypeOK
<1>3. CASE u # work[h].uuid
  <2>1. work'[h].uuid # u
    BY <1>1, <1>3, NoneAssumption DEF Retrieve, TypeOK, Work, Idle
  <2>2. RowKept(h, u) /\ PositionKept(h, u)
    BY <1>1, <1>3, <2>1 DEF RowKept, PositionKept, VisibleTo, Present, Own
  <2>3. QED
    BY <1>2, <2>2, KeptRunInv DEF RunInv
<1>4. CASE u = work[h].uuid
  <2>1. AligningInv(h, u)
    BY <1>1, <1>2 DEF RunInv, RunInvFor
  <2>2. /\ work'[h].step = IF work[h].step = "add" THEN "insert" ELSE "write"
        /\ work'[h].uuid = u /\ work'[h].id = work[h].id
    BY <1>1, <1>2, <1>4 DEF Retrieve, TypeOK, Work
  <2>3. BusyInv(h, u)'
    BY <1>1, <1>4, <2>1, <2>2 DEF AligningInv, BusyInv, Own, Present, VisibleTo, HasId
  <2>4. AligningInv(h, u)'
    BY <1>1, <1>4, <2>1, <2>2, <2>3 DEF AligningInv, TodoInv, Own, Present, ReadAsItIs
  <2>5. QED
    BY <1>1, <2>4 DEF RunInvFor
<1>5. QED
  BY <1>3, <1>4

LEMMA OwnRunAdds ==
  ASSUME TypeInv, RunInv, VersionsGrow, NEW h \in Harvesters, NEW u \in Uuids,
         u \notin disturbed'[h], Insert(h) \/ Mark(h)
  PROVE  RunInvFor(h, u)'
<1>. USE DEF TypeInv
<1>1. /\ run[h] = "aligning" /\ UNCHANGED << run, found, localUuids, todo >>
      /\ work[h].uuid \in Uuids /\ work[h].step \in {"insert", "mark"}
      /\ work[h].uuid \notin todo[h] /\ u \notin disturbed[h]
  BY DEF Insert, Inserted, Mark, Disturbing, TypeOK, WorkKnown, WorkingOn, Idle,
     position
<1>2. AligningInv(h, u)
  BY <1>1 DEF RunInv, RunInvFor
<1>3. work'[h].uuid = work[h].uuid
  BY DEF Insert, Inserted, Mark, TypeOK, Work
<1>4. CASE u # work[h].uuid
  <2>1. metadata'[u] = metadata[u]
    BY <1>4 DEF Insert, Inserted, Mark, TypeOK, Partly
  <2>2. RowKept(h, u) /\ PositionKept(h, u)
    BY <1>1, <1>3, <1>4, <2>1 DEF RowKept, PositionKept, VisibleTo, Present, Own
  <2>3. QED
    BY <1>1, <2>2, KeptRunInv DEF RunInv
<1>5. CASE u = work[h].uuid /\ Insert(h)
  <2>1. metadata'[u].content = work[h].content /\ work'[h].step = "mark"
        /\ metadata'[u].owner = None /\ work[h].step = "insert"
    BY <1>5 DEF Insert, Inserted, TypeOK, Partly, Work
  <2>2. BusyInv(h, u)'
    BY <1>1, <1>5, <2>1 DEF BusyInv, AsRecentAsFound, VersionsGrow
  <2>3. ~Own(h, u)'
    BY <2>1, NoneAssumption DEF Own
  <2>4. AligningInv(h, u)'
    BY <1>1, <1>3, <1>5, <2>2, <2>3 DEF AligningInv, TodoInv
  <2>5. QED
    BY <1>1, <2>4 DEF RunInvFor
<1>6. CASE u = work[h].uuid /\ Mark(h)
  <2>1. /\ metadata[u] \in Row /\ metadata[u].id = work[h].id /\ metadata[u].pending = h
        /\ work[h].step = "mark"
    BY <1>1, <1>6 DEF Mark, InsertedThere, WorkingOn, HasId, Present, TypeOK, Partly
  <2>2. /\ metadata'[u] \in Row /\ metadata'[u].id = work[h].id /\ metadata'[u].pending = h
        /\ metadata'[u].content = metadata[u].content
    BY <1>6, <2>1 DEF Mark, TypeOK, Partly, Row
  <2>3. work'[h].step = "finish" /\ work'[h].id = work[h].id
    BY <1>6 DEF Mark, TypeOK, Work
  <2>4. BusyInv(h, u)'
    BY <1>1, <1>2, <1>6, <2>1, <2>2, <2>3, NoneAssumption
       DEF AligningInv, BusyInv, AsRecentAsFound, VisibleTo, HasId, Present
  <2>5. found'[h][u] # None
    BY <1>1, <1>6, <2>1 DEF WorkKnown, WorkingOn
  <2>6. AligningInv(h, u)'
    BY <1>1, <1>3, <1>6, <2>4, <2>5 DEF AligningInv, TodoInv
  <2>7. QED
    BY <1>1, <2>6 DEF RunInvFor
<1>7. QED
  BY <1>4, <1>5, <1>6

LEMMA OwnRunWrites ==
  ASSUME TypeInv, RunInv, VersionsGrow, NEW h \in Harvesters, NEW u \in Uuids,
         u \notin disturbed'[h], Write(h)
  PROVE  RunInvFor(h, u)'
<1>. DEFINE v == work[h].uuid
            rows == [metadata EXCEPT ![v].content = work[h].content,
                                     ![v].date = found[h][v].date,
                                     ![v].complete = FALSE]
<1>. USE DEF TypeInv
<1>1. /\ run[h] = "aligning" /\ UNCHANGED << run, found, localUuids, todo >>
      /\ v \in Uuids /\ work[h].step = "write" /\ v \notin todo[h] /\ u \notin disturbed[h]
      /\ found[h][v] \in Remote /\ work[h].content \in Remote
  BY DEF Write, Disturbing, TypeOK, WorkKnown, WorkingOn, Idle, position, Partly
<1>2. AligningInv(h, u)
  BY <1>1 DEF RunInv, RunInvFor
<1>3. CASE ~HasId(v, work[h].id)
  <2>1. u # v
    BY <1>1, <1>2, <1>3 DEF AligningInv, BusyInv
  <2>2. RowKept(h, u) /\ PositionKept(h, u)
    BY <1>1, <1>3, <2>1, NoneAssumption
       DEF Write, RowKept, PositionKept, VisibleTo, Present, Own, TypeOK, Idle
  <2>3. QED
    BY <1>1, <2>2, KeptRunInv DEF RunInv
<1>4. CASE HasId(v, work[h].id)
  <2>1. metadata' = Committed(h, rows)
    BY <1>4 DEF Write
  <2>2. metadata[v] \in Row /\ found[h][v].date \in 0 .. MaxChanges
    BY <1>1, <1>4 DEF TypeOK, Partly, HasId, Present, Remote
  <2>3. /\ rows[v] \in Row
        /\ rows[v].id = metadata[v].id
        /\ rows[v].owner = metadata[v].owner
        /\ rows[v].pending = metadata[v].pending
        /\ rows[v].content = work[h].content
    BY <1>1, <2>2 DEF TypeOK, Partly, Row
  <2>4. rows \in Partly(Row)
    BY <1>1, <2>3 DEF TypeOK, Partly
  <2>5. work'[h] = [work[h] EXCEPT !.step = "finish"]
    BY <1>4 DEF Write, TypeOK
  <2>6. work'[h].step = "finish" /\ work'[h].uuid = v /\ work'[h].id = work[h].id
    BY <2>5 DEF TypeOK, Work
  <2>7. CASE u # v
    <3>1. rows[u] = metadata[u]
      BY <2>7 DEF TypeOK, Partly
    <3>2. RowKept(h, u)
      <4>. HIDE DEF rows
      <4>1. QED
        BY <2>1, <2>4, <3>1, CommitKept
    <3>3. PositionKept(h, u)
      BY <1>1, <2>6, <2>7 DEF PositionKept
    <3>4. QED
      BY <1>1, <3>2, <3>3, KeptRunInv DEF RunInv
  <2>8. CASE u = v
    <3>1. BusyInv(h, u)
      BY <1>2, <2>8 DEF AligningInv
    <3>2. /\ metadata'[u] # None /\ metadata'[u].id = metadata[u].id
          /\ metadata'[u].content = work[h].content
          /\ metadata'[u].pending = IF metadata[u].pending = h THEN None ELSE metadata[u].pending
      <4>. HIDE DEF rows
      <4>1. rows[u] # None
        BY <2>3, <2>8, NoneAssumption
      <4>2. QED
        BY <2>1, <2>3, <2>4, <2>8, <4>1, CommittedRows
    <3>3. /\ VisibleTo(h, u)'
          /\ Present(u)' /\ metadata'[u].id = work'[h].id
      BY <1>1, <2>6, <2>8, <3>1, <3>2 DEF BusyInv, VisibleTo, HasId, Present
    <3>4. AsRecentAsFound(h, u)'
      <4>1. work[h].content.version >= found[h][u].version
        BY <1>1, <2>8 DEF VersionsGrow
      <4>2. metadata'[u].content = work[h].content /\ found' = found
        BY <1>1, <3>2
      <4>3. QED
        BY <4>1, <4>2 DEF AsRecentAsFound
    <3>8. BusyInv(h, u)'
      BY <2>6, <3>3, <3>4 DEF BusyInv, HasId
    <3>5. found'[h][u] # None
      BY <1>1, <2>8, NoneAssumption
    <3>6. AligningInv(h, u)'
      BY <1>1, <2>6, <2>8, <3>8, <3>5 DEF AligningInv, TodoInv
    <3>7. QED
      BY <1>1, <3>6 DEF RunInvFor
  <2>9. QED
    BY <2>7, <2>8
<1>5. QED
  BY <1>3, <1>4

LEMMA OwnRunFinishes ==
  ASSUME TypeInv, RunInv, NEW h \in Harvesters, NEW u \in Uuids,
         u \notin disturbed'[h], Finish(h)
  PROVE  RunInvFor(h, u)'
<1>. DEFINE v == work[h].uuid
            rows == [metadata EXCEPT ![v].complete = TRUE]
<1>. USE DEF TypeInv
<1>1. /\ run[h] = "aligning" /\ UNCHANGED << run, found, localUuids, todo >>
      /\ v \in Uuids /\ work[h].step = "finish" /\ v \notin todo[h] /\ u \notin disturbed[h]
      /\ found[h][v] # None /\ work'[h] = Idle
  BY DEF Finish, TypeOK, WorkKnown, WorkingOn, Idle, position
<1>2. AligningInv(h, u)
  BY <1>1 DEF RunInv, RunInvFor
<1>3. CASE ~HasId(v, work[h].id)
  <2>1. u # v
    BY <1>1, <1>2, <1>3 DEF AligningInv, BusyInv
  <2>2. RowKept(h, u) /\ PositionKept(h, u)
    BY <1>1, <1>3, <2>1, NoneAssumption
       DEF Finish, RowKept, PositionKept, VisibleTo, Present, Own, Idle
  <2>3. QED
    BY <1>1, <2>2, KeptRunInv DEF RunInv
<1>4. CASE HasId(v, work[h].id)
  <2>1. metadata' = Committed(h, rows) /\ metadata[v] \in Row
    BY <1>1, <1>4 DEF Finish, TypeOK, Partly, HasId, Present
  <2>2. rows \in Partly(Row) /\ rows[v] \in Row
    <3>1. rows[v] \in Row
      BY <1>1, <2>1 DEF TypeOK, Partly, Row
    <3>2. QED
      BY <1>1, <3>1 DEF TypeOK, Partly
  <2>3. CASE u # v
    <3>1. rows[u] = metadata[u]
      BY <2>3 DEF TypeOK, Partly
    <3>2. RowKept(h, u)
      <4>. HIDE DEF rows
      <4>1. QED
        BY <2>1, <2>2, <3>1, CommitKept
    <3>3. PositionKept(h, u)
      BY <1>1, <2>3, NoneAssumption DEF PositionKept, Idle
    <3>4. QED
      BY <1>1, <3>2, <3>3, KeptRunInv DEF RunInv
  <2>4. CASE u = v
    <3>1. BusyInv(h, u)
      BY <1>2, <2>4 DEF AligningInv
    <3>2. /\ rows[u].content = metadata[u].content /\ rows[u].complete = TRUE
          /\ rows[u].pending = metadata[u].pending
      BY <1>1, <2>1, <2>4 DEF TypeOK, Partly, Row
    <3>3. /\ metadata'[u] # None
          /\ metadata'[u].content = metadata[u].content /\ metadata'[u].complete = TRUE
          /\ metadata'[u].pending = IF metadata[u].pending = h THEN None ELSE metadata[u].pending
      <4>. HIDE DEF rows
      <4>1. QED
        BY <2>1, <2>2, <2>4, <3>2, CommittedRows, NoneAssumption
    <3>4. VisibleTo(h, u)' /\ UpToDate(u, found[h][u])'
      BY <1>1, <3>1, <3>3 DEF BusyInv, AsRecentAsFound, VisibleTo, Present, UpToDate,
         TypeOK
    <3>5. Done(h, u)'
      BY <1>1, <2>4, <3>4 DEF Done
    <3>6. AligningInv(h, u)'
      BY <1>1, <2>4, <3>5, NoneAssumption DEF AligningInv, TodoInv, Idle
    <3>7. QED
      BY <1>1, <3>6 DEF RunInvFor
  <2>5. QED
    BY <2>3, <2>4
<1>5. QED
  BY <1>3, <1>4

LEMMA OwnRunEnds ==
  ASSUME TypeInv, RunInv, NEW h \in Harvesters, NEW u \in Uuids,
         u \notin disturbed'[h], FailRecord(h) \/ End(h) \/ Abort(h)
  PROVE  RunInvFor(h, u)'
<1>. USE DEF TypeInv
<1>1. CASE FailRecord(h)
  <2>1. u # work[h].uuid /\ u \notin disturbed[h]
    BY <1>1 DEF FailRecord, Disturb, TypeOK
  <2>2. work'[h].uuid # u
    BY <1>1, NoneAssumption DEF FailRecord, TypeOK, Idle
  <2>3. RowKept(h, u) /\ PositionKept(h, u)
    BY <1>1, <2>1, <2>2
       DEF FailRecord, RowKept, PositionKept, VisibleTo, Present, Own, table, position
  <2>4. QED
    BY <2>1, <2>3, KeptRunInv DEF RunInv
<1>2. CASE End(h)
  <2>1. /\ run[h] = "aligning" /\ run'[h] = "off" /\ work[h] = Idle /\ todo[h] = {}
        /\ u \notin disturbed[h] /\ UNCHANGED found
    BY <1>2 DEF End, TypeOK
  <2>2. Done(h, u)
    BY <2>1, NoneAssumption DEF RunInv, RunInvFor, AligningInv, Idle
  <2>3. RowKept(h, u)
    BY <1>2, CommitKept DEF End, TypeOK
  <2>4. Done(h, u)'
    BY <2>1, <2>2, <2>3, OwnVisible DEF Done, RowKept, UpToDate
  <2>5. QED
    BY <2>1, <2>4 DEF RunInvFor
<1>3. CASE Abort(h)
  BY <1>3 DEF Abort, Disturb, TypeOK
<1>4. QED
  BY <1>1, <1>2, <1>3

(***************************************************************************)
(* The versions of remote records grow with the changes.                   *)
(***************************************************************************)
LEMMA RemoteVersionsGrow ==
  ASSUME TypeInv, VersionsGrow, NEW h \in Harvesters, NEW u \in Uuids, RemoteChange(h, u)
  PROVE  VersionsGrow'
<1>. USE DEF TypeInv
<1>1. /\ changes \in Nat /\ changes' = changes + 1 /\ UNCHANGED << found, work >>
      /\ \/ \E day \in 0 .. changes' :
              remote' = [remote EXCEPT ![h][u] = [version |-> changes', date |-> day]]
         \/ remote' = [remote EXCEPT ![h][u] = None]
  BY BoundAssumption DEF RemoteChange, Change, TypeOK, position
<1>2. \A k \in Harvesters, v \in Uuids : found[k][v] # None => found[k][v].version \in Nat
  BY DEF TypeOK, Partly, Remote
<1>3. \A k \in Harvesters, v \in Uuids :
        \/ remote'[k][v] = remote[k][v]
        \/ remote'[k][v] # None => remote'[k][v].version = changes + 1
  <2>1. ASSUME NEW day \in 0 .. changes', NEW k \in Harvesters, NEW v \in Uuids,
               remote' = [remote EXCEPT ![h][u] = [version |-> changes', date |-> day]]
        PROVE  \/ remote'[k][v] = remote[k][v]
               \/ remote'[k][v].version = changes + 1
    BY <1>1, <2>1 DEF TypeOK, Partly
  <2>2. ASSUME remote' = [remote EXCEPT ![h][u] = None], NEW k \in Harvesters, NEW v \in Uuids
        PROVE  remote'[k][v] = remote[k][v] \/ remote'[k][v] = None
    BY <2>2 DEF TypeOK, Partly
  <2>3. QED
    BY <1>1, <2>1, <2>2
<1>4. \A k \in Harvesters, v \in Uuids : remote[k][v] # None => remote[k][v].version \in Nat
  BY DEF TypeOK, Partly, Remote
<1>5. SUFFICES ASSUME NEW k \in Harvesters, NEW v \in Uuids
               PROVE  /\ remote'[k][v] # None => remote'[k][v].version <= changes'
                      /\ found'[k][v] # None => found'[k][v].version <= changes'
                      /\ remote'[k][v] # None /\ found'[k][v] # None =>
                           remote'[k][v].version >= found'[k][v].version
                      /\ work'[k].step \in {"insert", "write"} /\ work'[k].uuid = v =>
                           work'[k].content.version >= found'[k][v].version
  BY DEF VersionsGrow
<1>6. QED
  BY <1>1, <1>2, <1>3, <1>4, <1>5 DEF VersionsGrow

\* A step that leaves the remote catalogues alone.
LEMMA LocalVersionsGrow ==
  ASSUME TypeInv, VersionsGrow, UNCHANGED remote, changes' \in {changes, changes + 1},
         NEW h \in Harvesters, found' = found \/ found' = [found EXCEPT ![h] = remote[h]],
         \A k \in Harvesters :
           work'[k].step \in {"insert", "write"} =>
             \/ work'[k] = work[k]
             \/ /\ work'[k].uuid \in Uuids
                /\ work'[k].content = remote[k][work'[k].uuid]
                /\ remote[k][work'[k].uuid] # None /\ found[k][work'[k].uuid] # None,
         \A k \in Harvesters : found'[k] # found[k] => work'[k].step = "idle"
  PROVE  VersionsGrow'
<1>. USE DEF TypeInv
<1>1. changes \in Nat
  BY BoundAssumption DEF TypeOK
<1>2. \A k \in Harvesters, v \in Uuids :
        /\ found[k][v] # None => found[k][v].version \in Nat
        /\ remote[k][v] # None => remote[k][v].version \in Nat
  BY DEF TypeOK, Partly, Remote
<1>3. SUFFICES ASSUME NEW k \in Harvesters, NEW v \in Uuids
               PROVE  /\ remote'[k][v] # None => remote'[k][v].version <= changes'
                      /\ found'[k][v] # None => found'[k][v].version <= changes'
                      /\ remote'[k][v] # None /\ found'[k][v] # None =>
                           remote'[k][v].version >= found'[k][v].version
                      /\ work'[k].step \in {"insert", "write"} /\ work'[k].uuid = v =>
                           work'[k].content.version >= found'[k][v].version
  BY DEF VersionsGrow
<1>4. found'[k] = found[k] \/ found'[k] = remote[k]
  BY DEF TypeOK
<1>5. /\ remote'[k][v] # None => remote'[k][v].version <= changes'
      /\ found'[k][v] # None => found'[k][v].version <= changes'
      /\ remote'[k][v] # None /\ found'[k][v] # None =>
           remote'[k][v].version >= found'[k][v].version
  BY <1>1, <1>2, <1>4 DEF VersionsGrow
<1>6. ASSUME work'[k].step \in {"insert", "write"}, work'[k].uuid = v
      PROVE  work'[k].content.version >= found'[k][v].version
  <2>1. found'[k] = found[k]
    BY <1>6
  <2>2. QED
    BY <1>6, <2>1 DEF VersionsGrow
<1>7. QED
  BY <1>5, <1>6

LEMMA VersionsStep ==
  ASSUME TypeInv, VersionsGrow, Next
  PROVE  VersionsGrow'
<1>. USE DEF TypeInv
<1>1. ASSUME NEW h \in Harvesters, NEW u \in Uuids, RemoteChange(h, u)
      PROVE  VersionsGrow'
  BY <1>1, RemoteVersionsGrow
<1>2. ASSUME NEW h \in Harvesters, Search(h)
      PROVE  VersionsGrow'
  <2>1. work[h] = Idle /\ UNCHANGED << remote, changes, work >>
        /\ found' = [found EXCEPT ![h] = remote[h]]
    BY <1>2 DEF Search, TypeOK, external
  <2>2. \A k \in Harvesters : found'[k] # found[k] => work'[k].step = "idle"
    BY <2>1 DEF TypeOK, Idle
  <2>3. QED
    BY <2>1, <2>2, LocalVersionsGrow
<1>3. ASSUME NEW h \in Harvesters, Retrieve(h)
      PROVE  VersionsGrow'
  <2>1. UNCHANGED << remote, changes, found >> /\ work[h].uuid \in Uuids
        /\ found[h][work[h].uuid] # None
    BY <1>3 DEF Retrieve, WorkKnown, WorkingOn, external, position
  <2>2. /\ \A k \in Harvesters \ {h} : work'[k] = work[k]
        /\ work'[h].step \in {"insert", "write"} =>
             /\ remote[h][work[h].uuid] # None
             /\ work'[h].content = remote[h][work[h].uuid] /\ work'[h].uuid = work[h].uuid
    BY <1>3 DEF Retrieve, TypeOK, Work, Idle
  <2>3. QED
    BY <2>1, <2>2, LocalVersionsGrow
<1>4. ASSUME NEW h \in Harvesters,
             \/ ReadLocalUuids(h) \/ RemovedOld(h) \/ Insert(h) \/ Mark(h) \/ Write(h)
             \/ Finish(h) \/ FailRecord(h) \/ End(h) \/ Abort(h)
             \/ \E u \in Uuids : RemoveOld(h, u) \/ Look(h, u)
      PROVE  VersionsGrow'
  <2>1. UNCHANGED << remote, changes, found >>
    BY <1>4 DEF ReadLocalUuids, RemovedOld, Insert, Inserted, Mark, Write, Finish,
       FailRecord,
       End, Abort, RemoveOld, Look, external, position
  <2>2. /\ \A k \in Harvesters \ {h} : work'[k] = work[k]
        /\ work'[h] = work[h] \/ work'[h].step \notin {"insert", "write"}
    <3>1. CASE \/ ReadLocalUuids(h) \/ RemovedOld(h) \/ End(h)
               \/ \E u \in Uuids : RemoveOld(h, u)
      BY <3>1 DEF ReadLocalUuids, RemovedOld, End, RemoveOld
    <3>2. CASE \E u \in Uuids : Look(h, u)
      BY <3>2 DEF Look, Idle, TypeOK
    <3>3. CASE Insert(h) \/ Mark(h)
      BY <3>3 DEF Insert, Inserted, Mark, TypeOK, Work
    <3>4. CASE Write(h) \/ Finish(h) \/ FailRecord(h) \/ Abort(h)
      BY <3>4 DEF Write, Finish, FailRecord, Abort, Idle, TypeOK, Work
    <3>5. QED
      BY <1>4, <3>1, <3>2, <3>3, <3>4
  <2>3. QED
    BY <2>1, <2>2, LocalVersionsGrow
<1>5. ASSUME NEW u \in Uuids, UserDeletes(u) \/ UserAdds(u)
      PROVE  VersionsGrow'
  <2>1. UNCHANGED << remote, found, work >> /\ changes' = changes + 1 /\ changes \in Nat
    BY <1>5, BoundAssumption DEF UserDeletes, UserAdds, Change, position, TypeOK
  <2>2. \A k \in Harvesters, v \in Uuids :
          /\ found[k][v] # None => found[k][v].version \in Nat
          /\ remote[k][v] # None => remote[k][v].version \in Nat
    BY DEF TypeOK, Partly, Remote
  <2>3. QED
    BY <2>1, <2>2 DEF VersionsGrow
<1>6. QED
  BY <1>1, <1>2, <1>3, <1>4, <1>5 DEF Next, Align

(***************************************************************************)
(* All steps, from the beginning.                                          *)
(***************************************************************************)
LEMMA OthersKeepPosition ==
  ASSUME TypeInv, NEW h \in Harvesters, NEW k \in Harvesters \ {h}, Align(k), NEW u \in Uuids
  PROVE  PositionKept(h, u)
<1>. USE DEF TypeInv, TypeOK, PositionKept
<1>1. CASE Search(k) \/ ReadLocalUuids(k) \/ RemovedOld(k) \/ End(k) \/ Abort(k)
  BY <1>1 DEF Search, ReadLocalUuids, RemovedOld, End, Abort
<1>2. CASE \E v \in Uuids : RemoveOld(k, v) \/ Look(k, v)
  BY <1>2 DEF RemoveOld, Look
<1>3. CASE \/ Retrieve(k) \/ Insert(k) \/ Mark(k) \/ Write(k) \/ Finish(k) \/ FailRecord(k)
  BY <1>3 DEF Retrieve, Insert, Inserted, Mark, Write, Finish, FailRecord, position
<1>4. QED
  BY <1>1, <1>2, <1>3 DEF Align

LEMMA RunStep ==
  ASSUME TypeInv, RunInv, VersionsGrow, Next
  PROVE  RunInv'
<1>1. SUFFICES ASSUME NEW h \in Harvesters, NEW u \in Uuids, u \notin disturbed'[h]
               PROVE  RunInvFor(h, u)'
  BY DEF RunInv
<1>2. CASE Align(h)
  BY <1>1, <1>2, OwnRunBegins, OwnRunLooks, OwnRunRetrieves, OwnRunAdds, OwnRunWrites,
     OwnRunFinishes, OwnRunEnds DEF Align
<1>3. ASSUME NEW k \in Harvesters \ {h}, Align(k)
      PROVE  RunInvFor(h, u)'
  BY <1>1, <1>3, OthersKeepRows, OthersKeepPosition, KeptRunInv DEF RunInv
<1>4. ASSUME NEW v \in Uuids,
             UserDeletes(v) \/ UserAdds(v) \/ \E k \in Harvesters : RemoteChange(k, v)
      PROVE  RunInvFor(h, u)'
  <2>1. /\ u \notin disturbed[h]
        /\ UNCHANGED << position, work >>
        /\ \/ metadata' = metadata
           \/ u # v /\ metadata'[u] = metadata[u]
    <3>1. CASE UserDeletes(v) \/ UserAdds(v)
      <4>1. u # v /\ u \notin disturbed[h] /\ UNCHANGED << position, work >>
        BY <1>1, <3>1, NoneAssumption DEF UserDeletes, UserAdds, Disturbing
      <4>2. metadata'[u] = metadata[u]
        BY <3>1, <4>1 DEF UserDeletes, UserAdds, TypeInv, TypeOK, Partly
      <4>3. QED
        BY <4>1, <4>2
    <3>2. ASSUME NEW k \in Harvesters, RemoteChange(k, v)
          PROVE  u \notin disturbed[h] /\ UNCHANGED << position, work, metadata >>
      BY <1>1, <3>2 DEF RemoteChange, table
    <3>3. QED
      BY <1>4, <3>1, <3>2
  <2>2. RowKept(h, u) /\ PositionKept(h, u)
    BY <2>1 DEF RowKept, PositionKept, position, VisibleTo, Present, Own
  <2>3. QED
    BY <1>1, <2>1, <2>2, KeptRunInv DEF RunInv
<1>5. QED
  BY <1>2, <1>3, <1>4 DEF Next

LEMMA OwnerStep ==
  ASSUME TypeInv, OwnerInv, Next
  PROVE  OwnerInv'
BY RunOwned, OutsideOwned DEF Next

LEMMA AtInit ==
  ASSUME Init
  PROVE  TypeInv /\ OwnerInv /\ RunInv /\ VersionsGrow
<1>. USE NoneAssumption, BoundAssumption DEF Init
<1>1. TypeOK
  <2>1. [version |-> 0, date |-> 0] \in Remote
    BY DEF Remote
  <2>2. remote \in [Harvesters -> Partly(Remote)]
    BY <2>1 DEF Partly
  <2>3. Idle \in Work
    BY DEF Idle, Work
  <2>4. QED
    BY <2>2, <2>3 DEF TypeOK, Partly
<1>2. IdsKnown /\ TodoKnown /\ WorkKnown /\ PendingHidden /\ InsertedThere
  BY DEF IdsKnown, TodoKnown, WorkKnown, WorkingOn, PendingHidden, InsertedThere,
     Present, Idle
<1>3. OwnerInv
  BY DEF OwnerInv, LocalOwned, FinishOwned, MarkedNext, Present, Idle
<1>4. RunInv
  BY DEF RunInv
<1>5. VersionsGrow
  <2>1. \A h \in Harvesters, u \in Uuids : remote[h][u] # None => remote[h][u].version = 0
    BY DEF Partly
  <2>2. QED
    BY <2>1 DEF VersionsGrow, Idle
<1>6. QED
  BY <1>1, <1>2, <1>3, <1>4, <1>5 DEF TypeInv

LEMMA Unchanged ==
  ASSUME UNCHANGED vars, TypeInv, OwnerInv, RunInv, VersionsGrow
  PROVE  TypeInv' /\ OwnerInv' /\ RunInv' /\ VersionsGrow'
<1>. USE DEF vars, external, table, position
<1>1. TypeInv'
  BY DEF TypeInv, TypeOK, IdsKnown, TodoKnown, WorkKnown, WorkingOn, PendingHidden,
     InsertedThere, Present, HasId
<1>2. OwnerInv'
  BY DEF OwnerInv, LocalOwned, FinishOwned, MarkedNext, Present, HasId
<1>3. RunInv' /\ VersionsGrow'
  BY DEF RunInv, RunInvFor, RemovingInv, AligningInv, TodoInv, BusyInv, Done, Own,
     ReadAsItIs,
     AsRecentAsFound, UpToDate, VisibleTo, HasId, Present, VersionsGrow
<1>4. QED
  BY <1>1, <1>2, <1>3

\* The invariants hold together.
LEMMA Invariants ==
  Spec => [](TypeInv /\ OwnerInv /\ RunInv /\ VersionsGrow)
<1>1. TypeInv /\ OwnerInv /\ RunInv /\ VersionsGrow /\ [Next]_vars =>
        (TypeInv /\ OwnerInv /\ RunInv /\ VersionsGrow)'
  BY TypeStep, OwnerStep, RunStep, VersionsStep, Unchanged
<1>2. QED
  BY <1>1, AtInit, PTL DEF Spec

--------------------------------------------------------------------------------
\* The variables keep their types, in particular: a harvester works on a record, and
\* keeps rows that are not committed, in the second phase of its run only.
THEOREM TypeCorrect == Spec => []TypeOK
BY Invariants, PTL DEF TypeInv

\* After a run every record that its search has found is there, as recent as the
\* search has found it and complete if it is the harvester's, and the harvester has no
\* other one, whoever else has run and whatever has failed in earlier runs.
THEOREM AlignedAfterRuns == Spec => []Aligned
<1>1. RunInv => Aligned
  BY DEF RunInv, RunInvFor, Done, Own, VisibleTo, Aligned, AlignedFor
<1>2. QED
  BY <1>1, Invariants, PTL

\* A record that a run has added is never seen without its harvester, unless just this
\* addition has failed.
THEOREM AddedAreOwned == Spec => []AddedWithOwner
<1>1. TypeInv /\ OwnerInv => AddedWithOwner
  <2>1. SUFFICES ASSUME TypeInv, OwnerInv, NEW u \in Uuids \ partial, Present(u),
                        metadata[u].pending = None
                 PROVE  metadata[u].owner \in Harvesters
    BY DEF AddedWithOwner
  <2>2. metadata[u].owner \in Harvesters \cup {None}
    BY <2>1 DEF TypeInv, TypeOK, Partly, Row, Present
  <2>3. metadata[u].owner # None
    BY <2>1, NoneAssumption DEF OwnerInv, MarkedNext
  <2>4. QED
    BY <2>2, <2>3
<1>2. QED
  BY <1>1, Invariants, PTL

\* A run changes and removes records of its own harvester only, unless its own record
\* has been replaced during the run.
THEOREM OthersKept == Spec => OthersUntouched
<1>1. TypeInv /\ OwnerInv /\ [Next]_vars =>
        [ \A h \in Harvesters, u \in Uuids :
            Align(h) /\ Present(u) /\ metadata'[u] # metadata[u] =>
              \/ metadata[u].owner = h
              \/ metadata[u].pending = h
              \/ localUuids[h][u] # None /\ localUuids[h][u].id # metadata[u].id ]_vars
  BY RunKeepsOthers DEF MayChange
<1>2. QED
  BY <1>1, Invariants, PTL DEF Spec, OthersUntouched
================================================================================
