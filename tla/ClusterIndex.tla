------------------------------ MODULE ClusterIndex -----------------------------
(***************************************************************************)
(* The Lucene indexes of the nodes of a cluster, for one record: its row   *)
(* in table Metadata and its copy in table Workspace, in the database that *)
(* the nodes share.  Each node indexes what its own requests change and    *)
(* tells the others by messages on topic RE-INDEX, which the broker delays *)
(* and which say only where to look: a node that gets one reads the        *)
(* database itself.                                                        *)
(*                                                                         *)
(* A request is the sequence of the steps it has still to make, in the     *)
(* order of the service that serves it, and may end early.  A node serves  *)
(* one request about the record at a time here (LuceneIndex has several),  *)
(* and one thread handles its messages, one after the other.               *)
(***************************************************************************)
EXTENDS Naturals, Sequences

CONSTANTS
  Nodes,
  MaxRequests    \* bound: requests

ASSUME BoundAssumption == MaxRequests \in Nat

VARIABLES
  row,        \* the committed version of each row, 0 where there is none
  version,    \* the last version so far
  written,    \* the rows that the request of a node has changed uncommitted
  value,      \* ... and their versions
  todo,       \* the steps that the request of each node has still to make
  silent,     \* whether the request of a node ends with an unannounced change
  requests,   \* number of requests so far
  seen,       \* what the request of each node has read of a row to index it
  topic,      \* the messages on their way to each node
  task,       \* the message that a node is handling, as a sequence
  found,      \* ... and what it has read of the row
  index,      \* the document of each row in the index of each node
  doubtful    \* auxiliary: <<node, row>> whose last reading was not the last word,
              \* or was not made or stored because something failed

database == << row, version, written, value >>
request == << todo, silent, requests, seen >>
inbox == << topic, task, found >>
vars == << database, request, inbox, index, doubtful >>

Rows == {"metadata", "workspace"}
Versions == Nat

Removing == {"drop", "remove"}
Statement == Removing \cup {"write", "copy", "update"}
Operation == Statement \cup {"commit", "tell", "tellDelete", "read", "store", "unindex"}

Message == [row : Rows, delete : BOOLEAN]

TypeOK ==
  /\ row \in [Rows -> Versions]
  /\ version \in Versions
  /\ written \in [Nodes -> SUBSET Rows]
  /\ value \in [Rows -> Versions]
  /\ todo \in [Nodes -> Seq(Operation \X Rows)]
  /\ silent \in [Nodes -> BOOLEAN]
  /\ requests \in 0 .. MaxRequests
  /\ seen \in [Nodes -> Versions]
  /\ topic \in [Nodes -> Seq(Message)]
  /\ task \in [Nodes -> Seq(Message)]
  /\ found \in [Nodes -> Versions]
  /\ index \in [Nodes -> [Rows -> Versions]]
  /\ doubtful \subseteq Nodes \X Rows

\* The record has been created and indexed everywhere, and so has its copy, if
\* somebody edits it.
Init ==
  /\ row \in { [metadata |-> 1, workspace |-> v] : v \in {0, 1} }
  /\ version = 1
  /\ written = [n \in Nodes |-> {}]
  /\ value = row
  /\ todo = [n \in Nodes |-> << >>]
  /\ silent = [n \in Nodes |-> FALSE]
  /\ requests = 0
  /\ seen = [n \in Nodes |-> 0]
  /\ topic = [n \in Nodes |-> << >>]
  /\ task = [n \in Nodes |-> << >>]
  /\ found = [n \in Nodes |-> 0]
  /\ index = [n \in Nodes |-> row]
  /\ doubtful = {}

--------------------------------------------------------------------------------
(***************************************************************************)
(* The steps of the services, in their order.  "write", "copy" and "drop"  *)
(* are transactions of one statement; "update" and "remove" are statements *)
(* of a transaction that goes on.                                          *)
(***************************************************************************)
Steps(r, operations) == [i \in DOMAIN operations |-> << operations[i], r >>]

\* indexMetadata: the message first, then the own index.
Index(r) == Steps(r, << "tell", "read", "store" >>)

IndexBoth == Index("metadata") \o Index("workspace")

\* deleteFromWorkspace tells nobody.
DropWorkspace == Steps("workspace", << "drop", "unindex" >>)

\* The status is in table MetadataStatus, and in the documents.
SetStatus == Steps("metadata", << "write" >>) \o IndexBoth

UnLock == Steps("metadata", << "write" >>) \o IndexBoth

OpenEditor == << << "write", "metadata" >>, << "copy", "workspace" >> >> \o IndexBoth

ChangeRecord == Steps("metadata", << "write" >>) \o Index("metadata")

\* The copy is indexed, and announced, before the change is committed, at the end of
\* the request.
GrabCopy ==
  Steps("workspace", << "update" >>) \o Index("workspace")
    \o Steps("workspace", << "commit" >>)

GrabLock == ChangeRecord \o GrabCopy

SaveCopy == Steps("workspace", << "write" >>) \o Index("workspace")

\* Mutant: an edit is saved like a grabbed copy.
SaveUncommitted(flagged, drafted) == GrabCopy

\* Update: the template flag of the record is written if it has changed, and the
\* record indexed in any case; the status may become DRAFT; the edit is saved.
ShowRecord(flagged) == IF flagged THEN ChangeRecord ELSE Index("metadata")

SaveEdit(flagged, drafted) ==
  ShowRecord(flagged) \o (IF drafted THEN SetStatus \o SaveCopy ELSE SaveCopy)

\* Update that forgets the edit of an approved or retired record and is finished.
ForgetEdit(flagged) == ShowRecord(flagged) \o UnLock \o DropWorkspace

\* Mutant: one transaction for both rows.
CancelAtOnce ==
  Steps("metadata", << "update" >>) \o Steps("workspace", << "remove", "commit" >>)
    \o Steps("workspace", << "unindex" >>) \o IndexBoth \o Index("metadata")

\* Unlock of an approved or retired record, whose status onCancelEdit keeps.
CancelEdit == UnLock \o DropWorkspace \o Index("metadata")

\* Unlock of any other record that has been public before.
RevertEdit == CancelEdit \o SetStatus

\* moveFromWorkspaceToMetadata, then setStatus.
Approve == UnLock \o ChangeRecord \o DropWorkspace \o SetStatus

\* Mutant: one message for both documents.
DeleteAtOnce ==
  Steps("workspace", << "remove" >>) \o Steps("metadata", << "remove", "commit" >>)
    \o Steps("record", << "tellDelete" >>)
    \o Steps("metadata", << "unindex" >>) \o Steps("workspace", << "unindex" >>)

Delete ==
  << << "remove", "workspace" >>, << "remove", "metadata" >>, << "commit", "metadata" >>,
     << "tellDelete", "metadata" >>, << "tellDelete", "workspace" >>,
     << "unindex", "metadata" >>, << "unindex", "workspace" >> >>

\* They end with a change that they do not tell of.
Silent == {CancelEdit, GrabLock} \cup {ForgetEdit(flagged) : flagged \in BOOLEAN}

Idle(n) == todo[n] = << >>

Begin(n, steps) ==
  /\ Idle(n)
  /\ requests < MaxRequests
  /\ requests' = requests + 1
  /\ silent' = [silent EXCEPT ![n] = steps \in Silent]
  /\ todo' = [todo EXCEPT ![n] = steps]
  /\ UNCHANGED << database, seen, inbox, index, doubtful >>

WithCopy == row["workspace"] # 0
WithRecord == row["metadata"] # 0

Serve(n) ==
  \/ WithRecord /\ ~WithCopy /\ Begin(n, OpenEditor)
  \/ \E flagged \in BOOLEAN :
       /\ WithRecord
       /\ WithCopy
       /\ \/ \E drafted \in BOOLEAN : Begin(n, SaveEdit(flagged, drafted))
          \/ Begin(n, ForgetEdit(flagged))
  \/ WithCopy /\ Begin(n, CancelEdit)
  \/ WithCopy /\ Begin(n, RevertEdit)
  \/ WithCopy /\ Begin(n, GrabLock)
  \/ WithCopy /\ Begin(n, Approve)
  \/ WithRecord /\ Begin(n, Delete)

--------------------------------------------------------------------------------
AtStep(n, operation, r) == ~Idle(n) /\ Head(todo[n]) = << operation, r >>

StepsDone(n, left) ==
  /\ todo' = [todo EXCEPT ![n] = left]
  /\ silent' = [silent EXCEPT ![n] = @ /\ left # << >>]

StepDone(n) == StepsDone(n, Tail(todo[n]))

\* What a request sees of a row: its own changes, and what is committed.
RowAt(n, r) == IF r \in written[n] THEN value[r] ELSE row[r]

\* Two transactions do not change a row at the same time.
RowFree(n, r) == \A other \in Nodes \ {n} : r \notin written[other]

\* UPDATE and DELETE do nothing to a row that is not there.
Missing(n, operation, r) == operation # "copy" /\ RowAt(n, r) = 0

WriteRow(n, operation, r) ==
  /\ AtStep(n, operation, r)
  /\ RowFree(n, r)
  /\ IF Missing(n, operation, r) THEN UNCHANGED << version, row, value, written >>
     ELSE /\ version' = version + (IF operation \in Removing THEN 0 ELSE 1)
          /\ value' = [value EXCEPT ![r] = IF operation \in Removing THEN 0 ELSE version']
          /\ IF operation \in {"update", "remove"}
             THEN written' = [written EXCEPT ![n] = @ \cup {r}] /\ UNCHANGED row
             ELSE row' = [row EXCEPT ![r] = value'[r]] /\ UNCHANGED written
  /\ StepDone(n)
  /\ UNCHANGED << requests, seen, inbox, index, doubtful >>

(***************************************************************************)
(* When what a node knows of a row is not the last word about it: another  *)
(* thread of the node has read the row too and has still to store what it  *)
(* saw, or the node's request has indexed its change before committing it, *)
(* or a cancellation or a grab elsewhere has still to change the row and   *)
(* will not tell anybody, or the document is deleted after somebody has    *)
(* made the row again.  What fails leaves a doubt, too: the document on    *)
(* its node, a message on all the others, and a request that ends early    *)
(* about every row that it still had to announce or to index.              *)
(***************************************************************************)
Handles(n, r) == task[n] # << >> /\ Head(task[n]).row = r

Indexes(n, r) == AtStep(n, "store", r) \/ AtStep(n, "unindex", r) \/ r \in written[n]

Unannounced(n, r) ==
  /\ silent[n]
  /\ \E i \in DOMAIN todo[n] :
       /\ todo[n][i] \in {<< "commit", r >>, << "drop", r >>}
       /\ \A j \in i .. Len(todo[n]) : todo[n][j] # << "tell", r >>

UnannouncedTo(n, r) == \E other \in Nodes \ {n} : Unannounced(other, r)

\* A reading that finds no published row changes nothing, and leaves a doubt.
StillInDoubt(n, r) == << n, r >> \in doubtful /\ r = "metadata" /\ row[r] = 0

Doubt(n, r, reason) ==
  doubtful' = IF reason THEN doubtful \cup {<< n, r >>} ELSE doubtful \ {<< n, r >>}

DoubtEverywhere(rows) ==
  doubtful' = doubtful \cup { << m, r >> : m \in Nodes, r \in rows }

Commit(n, r) ==
  /\ AtStep(n, "commit", r)
  /\ row' = [q \in Rows |-> RowAt(n, q)]
  /\ written' = [written EXCEPT ![n] = {}]
  /\ StepDone(n)
  /\ UNCHANGED << version, value, requests, seen, inbox, index, doubtful >>

Send(n, r, delete) ==
  LET m == [row |-> r, delete |-> delete]
  IN  topic' = [other \in Nodes |-> IF other = n THEN topic[n]
                                                 ELSE Append(topic[other], m)]

Tell(n, r) ==
  /\ \/ AtStep(n, "tell", r) /\ Send(n, r, FALSE)
     \/ AtStep(n, "tellDelete", r) /\ Send(n, r, TRUE)
  /\ StepDone(n)
  /\ UNCHANGED << database, requests, seen, task, found, index, doubtful >>

\* The exception of produce ends indexMetadata, which logs it.
TellFails(n, r) ==
  /\ AtStep(n, "tell", r)
  /\ StepsDone(n, Tail(Tail(Tail(todo[n]))))
  /\ DoubtEverywhere({r})
  /\ UNCHANGED << database, requests, seen, inbox, index >>

ReadRow(n, r) ==
  /\ AtStep(n, "read", r)
  /\ seen' = [seen EXCEPT ![n] = RowAt(n, r)]
  /\ Doubt(n, r, Handles(n, r) \/ UnannouncedTo(n, r) \/ StillInDoubt(n, r))
  /\ StepDone(n)
  /\ UNCHANGED << database, requests, inbox, index >>

\* Without a row only the document of a workspace copy is deleted.
Indexed(n, r, v) ==
  IF v = 0 /\ r = "metadata" THEN index ELSE [index EXCEPT ![n][r] = v]

StoreDocument(n, r) ==
  /\ AtStep(n, "store", r)
  /\ index' = Indexed(n, r, seen[n])
  /\ seen' = [seen EXCEPT ![n] = 0]
  /\ StepDone(n)
  /\ UNCHANGED << database, requests, inbox, doubtful >>

\* It fails before the old document is deleted, or after that; indexMetadata logs it.
StoreFails(n, r) ==
  /\ AtStep(n, "store", r)
  /\ index' \in {index, [index EXCEPT ![n][r] = 0]}
  /\ Doubt(n, r, TRUE)
  /\ seen' = [seen EXCEPT ![n] = 0]
  /\ StepDone(n)
  /\ UNCHANGED << database, requests, inbox >>

RemoveDocument(n, r) ==
  /\ AtStep(n, "unindex", r)
  /\ index' = [index EXCEPT ![n][r] = 0]
  /\ Doubt(n, r, Handles(n, r) \/ row[r] # 0)
  /\ StepDone(n)
  /\ UNCHANGED << database, requests, seen, inbox >>

\* An exception ends the request, or the node goes down.
RequestFails(n) ==
  /\ ~Idle(n)
  /\ written' = [written EXCEPT ![n] = {}]
  /\ value' = [r \in Rows |-> IF r \in written[n] THEN row[r] ELSE value[r]]
  /\ seen' = [seen EXCEPT ![n] = 0]
  /\ StepsDone(n, << >>)
  /\ DoubtEverywhere({ r \in Rows : \E i \in DOMAIN todo[n] : todo[n][i][2] = r })
  /\ UNCHANGED << row, version, requests, inbox, index >>

Request(n) ==
  \/ RequestFails(n)
  \/ \E r \in Rows :
       \/ \E operation \in Statement : WriteRow(n, operation, r)
       \/ Commit(n, r)
       \/ Tell(n, r)
       \/ TellFails(n, r)
       \/ ReadRow(n, r)
       \/ StoreDocument(n, r)
       \/ StoreFails(n, r)
       \/ RemoveDocument(n, r)

--------------------------------------------------------------------------------
(***************************************************************************)
(* ReIndexMessageHandler.  The messages come in their order, at any time:  *)
(* the broker delays them for three seconds, and a node that is down gets  *)
(* them later.  The request that has sent one may still be going on.       *)
(***************************************************************************)
TakeMessage(n) ==
  /\ task[n] = << >>
  /\ topic[n] # << >>
  /\ LET m == Head(topic[n])
     IN  /\ task' = [task EXCEPT ![n] = << m >>]
         /\ found' = [found EXCEPT ![n] = IF m.delete THEN 0 ELSE row[m.row]]
         /\ Doubt(n, m.row,
              \/ Indexes(n, m.row)
              \/ UnannouncedTo(n, m.row)
              \/ IF m.delete THEN row[m.row] # 0 ELSE StillInDoubt(n, m.row))
  /\ topic' = [topic EXCEPT ![n] = Tail(@)]
  /\ UNCHANGED << database, request, index >>

HandleMessage(n) ==
  /\ task[n] # << >>
  /\ LET m == Head(task[n])
     IN  index' = IF m.delete THEN [index EXCEPT ![n][m.row] = 0]
                              ELSE Indexed(n, m.row, found[n])
  /\ task' = [task EXCEPT ![n] = << >>]
  /\ found' = [found EXCEPT ![n] = 0]
  /\ UNCHANGED << database, request, topic, doubtful >>

\* The message has been acknowledged, and the exception is logged.
HandlingFails(n) ==
  /\ task[n] # << >>
  /\ LET r == Head(task[n]).row
     IN  /\ index' \in {index, [index EXCEPT ![n][r] = 0]}
         /\ Doubt(n, r, TRUE)
  /\ task' = [task EXCEPT ![n] = << >>]
  /\ found' = [found EXCEPT ![n] = 0]
  /\ UNCHANGED << database, request, topic >>

Next ==
  \E n \in Nodes :
    \/ Serve(n)
    \/ Request(n)
    \/ TakeMessage(n)
    \/ HandleMessage(n)
    \/ HandlingFails(n)

Spec == Init /\ [][Next]_vars

--------------------------------------------------------------------------------
(***************************************************************************)
(* User manual: topic RE-INDEX is "used to synchronize the nodes' Lucene   *)
(* indexes when metadata is added, deleted, updated, its privileges        *)
(* change".  When no request and no message is under way, every node has   *)
(* indexed the rows as they are, except a row whose last reading on that   *)
(* node was a doubtful one, or failed (see above).  The messages say       *)
(* nothing of versions and may be late: they are about the row as it is by *)
(* then.                                                                   *)
(***************************************************************************)
Quiet == \A n \in Nodes : Idle(n) /\ topic[n] = << >> /\ task[n] = << >>

InSyncWhenQuiet ==
  Quiet =>
    \A n \in Nodes, r \in Rows : << n, r >> \notin doubtful => index[n][r] = row[r]

(***************************************************************************)
(* No two transactions wait for each other's rows: a request that changes  *)
(* both rows commits between them, except the deletion.                    *)
(***************************************************************************)
WaitsFor(n, other) ==
  \E r \in written[other], operation \in Statement : AtStep(n, operation, r)

NoCircularWait ==
  \A n, other \in Nodes : WaitsFor(n, other) => n = other \/ ~WaitsFor(other, n)
================================================================================
