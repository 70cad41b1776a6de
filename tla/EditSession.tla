------------------------------ MODULE EditSession ------------------------------
(***************************************************************************)
(* The requests of an edit session, opened up into their database          *)
(* transactions.  A handler reads and checks, then writes table Metadata,  *)
(* table Workspace and the status in separate commits, so that requests of *)
(* other users fall between them, and a failure or a restart of the server *)
(* leaves the first ones done and the others not.  Only the methods of     *)
(* DataManager that are synchronized exclude each other.                   *)
(*                                                                         *)
(* A request is begun by an action that makes its checks (a refused one    *)
(* changes nothing), and pc[u] names the step that user u's request is at. *)
(* A document is the set of the users whose edits it holds.  All users are *)
(* in the one group with the editing operation on the record, none is an   *)
(* administrator, and the node is not of type "agiv".                      *)
(***************************************************************************)
EXTENDS StatusRules, Naturals, FiniteSets

CONSTANTS
  Users,
  Reviewers,        \* the users of profile Reviewer; the others are Editors
  None,             \* no row, no user, no document
  Valid,            \* the documents that pass the validation
  SymbolicLocking,  \* setting system/symbolicLocking/enable
  MinorEdits,       \* whether clients save minor edits
  MaxRunning,       \* bound: how many requests may be in progress at once
  Crashes           \* whether requests fail half-way and the server restarts

Documents == SUBSET Users

ASSUME UsersAssumption == Reviewers \subseteq Users /\ Valid \subseteq Documents
ASSUME NoneAssumption ==
  /\ None \notin Users
  /\ \A d \in Documents : d # None
  /\ \A row \in [data : Documents, lockedBy : Users \cup {None}] : row # None
ASSUME FlagAssumption ==
  /\ MaxRunning \in Nat
  /\ SymbolicLocking \in BOOLEAN
  /\ MinorEdits \in BOOLEAN
  /\ Crashes \in BOOLEAN

VARIABLES
  exists,     \* whether the record has a row in table Metadata
  md,         \* ... that row: [data, isLocked, lockedBy, owner]
  ws,         \* the row of table Workspace: [data, lockedBy], or None
  history,    \* the rows of table MetadataStatus
  public,     \* whether group All has the operations on the record
  monitor,    \* the user whose request holds the monitor of DataManager
  pc,         \* the step that each user's request is at
  form,       \* the document in each user's HTTP session, or None
  local       \* local variables of the request: [target, checked, moved]

rows == << exists, md, ws, history, public >>
vars == << exists, md, ws, history, public, monitor, pc, form, local >>

Steps == { "idle", "read", "lock", "copy", "onEdit", "write",
           "unlock", "drop", "revert", "closeUnlock", "closeDrop",
           "discard", "delete", "assign", "assignCopy",
           "move", "moveUnlock", "moveStore", "moveDrop", "setApproved" }

WorkspaceRow == [data : Documents, lockedBy : Users \cup {None}]

TypeOK ==
  /\ exists \in BOOLEAN
  /\ md \in [ data : Documents, isLocked : BOOLEAN,
              lockedBy : Users \cup {None}, owner : Users ]
  /\ ws \in WorkspaceRow \cup {None}
  /\ history \in History
  /\ public \in BOOLEAN
  /\ monitor \in Users \cup {None}
  /\ pc \in [Users -> Steps]
  /\ form \in [Users -> {None} \cup Documents]
  /\ local \in [Users -> [ target  : Users \cup {None},
                           checked : {None} \cup Documents,
                           moved   : {None} \cup Documents ]]

NoLocal == [target |-> None, checked |-> None, moved |-> None]

Init ==
  /\ exists = FALSE
  /\ \E u \in Users :
       md = [data |-> {}, isLocked |-> FALSE, lockedBy |-> None, owner |-> u]
  /\ ws = None
  /\ history = NoHistory
  /\ public = FALSE
  /\ monitor = None
  /\ pc = [u \in Users |-> "idle"]
  /\ form = [u \in Users |-> None]
  /\ local = [u \in Users |-> NoLocal]

--------------------------------------------------------------------------------
Running == { u \in Users : pc[u] # "idle" }

Begin(u, first) ==
  /\ exists
  /\ pc[u] = "idle"
  /\ Cardinality(Running) < MaxRunning
  /\ pc' = [pc EXCEPT ![u] = first]

\* u's request executes its step here, on an existing record, and goes on.
Continue(u, here, next) ==
  /\ exists
  /\ pc[u] = here
  /\ pc' = [pc EXCEPT ![u] = next]

MonitorFree == monitor = None

Unlocked == [md EXCEPT !.isLocked = FALSE, !.lockedBy = None]

DeleteMetadata ==
  /\ exists' = FALSE
  /\ md' = Unlocked
  /\ ws' = None
  /\ history' = NoHistory
  /\ public' = FALSE

(***************************************************************************)
(* metadata.create.  Its record is not known to anyone before it is done.  *)
(***************************************************************************)
Create(u) ==
  /\ ~exists
  /\ Running = {}
  /\ exists' = TRUE
  /\ md' = [data |-> {}, isLocked |-> FALSE, lockedBy |-> None, owner |-> u]
  /\ history' = SetStatus(NoHistory, "JUSTCREATED")
  /\ form' = [v \in Users |-> None]
  /\ UNCHANGED << ws, public, monitor, pc, local >>

(***************************************************************************)
(* metadata.edit.                                                          *)
(***************************************************************************)
\* Mutant: the lock is not looked at.
BeginEditUnchecked(u) ==
  /\ Begin(u, "read")
  /\ UNCHANGED << rows, monitor, form, local >>

BeginEdit(u) ==
  /\ md.isLocked => md.lockedBy = u
  /\ Begin(u, "read")
  /\ UNCHANGED << rows, monitor, form, local >>

\* The editor gets the workspace copy, or else the published row.
EditRead(u) ==
  /\ IF ws # None THEN Continue(u, "read", "idle") ELSE Continue(u, "read", "lock")
  /\ form' = [form EXCEPT ![u] = IF ws # None THEN ws.data ELSE md.data]
  /\ UNCHANGED << rows, monitor, local >>

\* Mutant: the owner is not changed with the lock.
LockMetadataOnly(u) ==
  /\ Continue(u, "lock", "copy")
  /\ md' = [md EXCEPT !.isLocked = TRUE, !.lockedBy = u]
  /\ UNCHANGED << exists, ws, history, public, monitor, form, local >>

\* lockMetadata writes the lock whatever the row holds by now.
LockMetadata(u) ==
  /\ Continue(u, "lock", "copy")
  /\ md' = [md EXCEPT !.isLocked = TRUE, !.lockedBy = u, !.owner = u]
  /\ UNCHANGED << exists, ws, history, public, monitor, form, local >>

\* Mutant: the columns of the published row are copied as they are.
SaveWorkspaceAsIs(u) ==
  /\ Continue(u, "copy", "idle")
  /\ ws' = IF ws = None THEN md ELSE ws
  /\ UNCHANGED << exists, md, history, public, monitor, form, local >>

\* copyToWorkspace fails on the key of the table if there is a row by now.
SaveWorkspace(u) ==
  /\ Continue(u, "copy", "idle")
  /\ ws' = IF ws = None THEN [data |-> md.data, lockedBy |-> md.lockedBy] ELSE ws
  /\ UNCHANGED << exists, md, history, public, monitor, form, local >>

(***************************************************************************)
(* metadata.update and metadata.update.finish.                             *)
(***************************************************************************)
BeginSave(u) ==
  /\ Begin(u, "onEdit")
  /\ UNCHANGED << rows, monitor, form, local >>

SaveOnEdit(u, minorEdit) ==
  /\ Continue(u, "onEdit", "write")
  /\ history' = OnEdit(history, minorEdit)
  /\ UNCHANGED << exists, md, ws, public, monitor, form, local >>

\* Mutant: updateMetadataWorkspace is not synchronized.
SaveWriteAnytime(u) ==
  /\ Continue(u, "write", "idle")
  /\ IF form[u] = None
     THEN UNCHANGED << ws, form >>
     ELSE /\ ws' = IF ws # None THEN [ws EXCEPT !.data = form[u] \cup {u}] ELSE ws
          /\ \E kept \in {form[u] \cup {u}, None} : form' = [form EXCEPT ![u] = kept]
  /\ UNCHANGED << exists, md, history, public, monitor, local >>

\* The edits are applied to the document of the session, and that document
\* replaces the one in the workspace row, if there is one.  A session without
\* a document makes the request fail.  The editor stays open or is finished.
SaveWrite(u) ==
  /\ MonitorFree
  /\ Continue(u, "write", "idle")
  /\ IF form[u] = None
     THEN UNCHANGED << ws, form >>
     ELSE /\ ws' = IF ws # None THEN [ws EXCEPT !.data = form[u] \cup {u}] ELSE ws
          /\ \E kept \in {form[u] \cup {u}, None} : form' = [form EXCEPT ![u] = kept]
  /\ UNCHANGED << exists, md, history, public, monitor, local >>

(***************************************************************************)
(* metadata.unlock, "Cancel edit session".                                 *)
(***************************************************************************)
BeginCancel(u) ==
  /\ md.lockedBy = u
  /\ Begin(u, "unlock")
  /\ UNCHANGED << rows, monitor, form, local >>

Unlock(u, here, next) ==
  /\ Continue(u, here, next)
  /\ md' = Unlocked
  /\ UNCHANGED << exists, ws, history, public, monitor, form, local >>

DeleteFromWorkspace(u, here, next) ==
  /\ MonitorFree
  /\ Continue(u, here, next)
  /\ ws' = None
  /\ UNCHANGED << exists, md, history, public, monitor, form, local >>

CancelRevert(u) ==
  /\ Continue(u, "revert", "idle")
  /\ \/ /\ CancelDeletes(history)
        /\ MonitorFree
        /\ DeleteMetadata
     \/ /\ ~CancelDeletes(history)
        /\ history' = CancelledHistory(history)
        /\ UNCHANGED << exists, md, ws, public >>
  /\ UNCHANGED << monitor, form, local >>

(***************************************************************************)
(* metadata.update.forgetandfinish: the editor is closed without saving.   *)
(***************************************************************************)
BeginClose(u) ==
  /\ \/ CurrentStatus(history) = "JUSTCREATED" /\ Begin(u, "discard")
     \/ /\ CurrentStatus(history) \in PublicStatuses
        /\ md.lockedBy = u
        /\ Begin(u, "closeUnlock")
  /\ form' = [form EXCEPT ![u] = None]
  /\ UNCHANGED << rows, monitor, local >>

CloseDelete(u) ==
  /\ MonitorFree
  /\ Continue(u, "delete", "idle")
  /\ DeleteMetadata
  /\ UNCHANGED << monitor, form, local >>

(***************************************************************************)
(* metadata.grab.lock.  The change of the workspace row is committed at    *)
(* the end of the request, that of the published row before.               *)
(***************************************************************************)
BeginGrab(u, target) ==
  /\ u \in Reviewers \/ SymbolicLocking
  /\ md.isLocked
  /\ Begin(u, "assign")
  /\ local' = [local EXCEPT ![u].target = target]
  /\ UNCHANGED << rows, monitor, form >>

GrabAssign(u) ==
  /\ Continue(u, "assign", "assignCopy")
  /\ md' = [md EXCEPT !.lockedBy = local[u].target, !.owner = local[u].target]
  /\ UNCHANGED << exists, ws, history, public, monitor, form, local >>

GrabAssignCopy(u) ==
  /\ Continue(u, "assignCopy", "idle")
  /\ ws' = IF ws # None THEN [ws EXCEPT !.lockedBy = local[u].target] ELSE ws
  /\ local' = [local EXCEPT ![u] = NoLocal]
  /\ UNCHANGED << exists, md, history, public, monitor, form >>

(***************************************************************************)
(* metadata.status, to APPROVED: statusChange of DefaultStatusActions and  *)
(* moveFromWorkspaceToMetadata, which holds the monitor throughout.        *)
(***************************************************************************)
ContentToValidate ==
  IF ValidatesWorkspace(CurrentStatus(history)) /\ ws # None THEN ws.data ELSE md.data

BeginApprove(u) ==
  /\ u \in Reviewers
  /\ CurrentStatus(history) # "APPROVED"
  /\ StatusChangeAllowedByUser("Reviewer", CurrentStatus(history), "APPROVED",
                               FALSE, ws # None, TRUE, TRUE)
  /\ ContentToValidate \in Valid
  /\ Begin(u, "move")
  /\ local' = [local EXCEPT ![u].checked = ContentToValidate]
  /\ UNCHANGED << rows, monitor, form >>

\* Without a workspace row there is nothing to move.
Move(u) ==
  /\ MonitorFree
  /\ IF ws = None
     THEN Continue(u, "move", "setApproved") /\ UNCHANGED << monitor, local >>
     ELSE /\ Continue(u, "move", "moveUnlock")
          /\ monitor' = u
          /\ local' = [local EXCEPT ![u].moved = ws.data]
  /\ UNCHANGED << rows, form >>

\* The operations for group All were set before: this commit is theirs too.
MoveUnlock(u) ==
  /\ Continue(u, "moveUnlock", "moveStore")
  /\ md' = Unlocked
  /\ public' = TRUE
  /\ UNCHANGED << exists, ws, history, monitor, form, local >>

\* Mutant: the monitor is not reentrant.
MoveStoreNested(u) ==
  /\ MonitorFree
  /\ Continue(u, "moveStore", "moveDrop")
  /\ md' = [md EXCEPT !.data = local[u].moved]
  /\ UNCHANGED << exists, ws, history, public, monitor, form, local >>

\* updateMetadata, called in the monitor that the request holds.
MoveStore(u) ==
  /\ Continue(u, "moveStore", "moveDrop")
  /\ md' = [md EXCEPT !.data = local[u].moved]
  /\ UNCHANGED << exists, ws, history, public, monitor, form, local >>

MoveDrop(u) ==
  /\ Continue(u, "moveDrop", "setApproved")
  /\ ws' = None
  /\ monitor' = None
  /\ UNCHANGED << exists, md, history, public, form, local >>

\* Mutant: the operations for group All are not committed with the status.
SetApprovedOnly(u) ==
  /\ Continue(u, "setApproved", "idle")
  /\ history' = SetStatus(history, "APPROVED")
  /\ local' = [local EXCEPT ![u] = NoLocal]
  /\ UNCHANGED << exists, md, ws, public, monitor, form >>

SetApproved(u) ==
  /\ Continue(u, "setApproved", "idle")
  /\ history' = SetStatus(history, "APPROVED")
  /\ public' = TRUE
  /\ local' = [local EXCEPT ![u] = NoLocal]
  /\ UNCHANGED << exists, md, ws, monitor, form >>

--------------------------------------------------------------------------------
(***************************************************************************)
(* Failures.                                                               *)
(***************************************************************************)
End(u) ==
  /\ pc[u] # "idle"
  /\ pc' = [pc EXCEPT ![u] = "idle"]
  /\ monitor' = IF monitor = u THEN None ELSE monitor
  /\ local' = [local EXCEPT ![u] = NoLocal]
  /\ UNCHANGED << rows, form >>

\* An exception: what is committed stays, the rest is rolled back.
Fail(u) == Crashes /\ End(u)

\* The record was deleted by another request: the steps left change nothing.
Vanished(u) == ~exists /\ End(u)

\* The server is restarted, and the HTTP sessions are gone.
Restart ==
  /\ Crashes
  /\ pc' = [u \in Users |-> "idle"]
  /\ form' = [u \in Users |-> None]
  /\ monitor' = None
  /\ local' = [u \in Users |-> NoLocal]
  /\ UNCHANGED rows

BeginAny(u) ==
  \/ BeginEdit(u) \/ BeginSave(u) \/ BeginCancel(u) \/ BeginClose(u)
  \/ \E target \in Users : BeginGrab(u, target)
  \/ BeginApprove(u)

EditStep(u) == EditRead(u) \/ LockMetadata(u) \/ SaveWorkspace(u)

SaveStep(u) ==
  \/ \E minorEdit \in {FALSE, MinorEdits} : SaveOnEdit(u, minorEdit)
  \/ SaveWrite(u)

CancelStep(u) ==
  \/ Unlock(u, "unlock", "drop")
  \/ DeleteFromWorkspace(u, "drop", "revert")
  \/ CancelRevert(u)

CloseStep(u) ==
  \/ Unlock(u, "closeUnlock", "closeDrop")
  \/ DeleteFromWorkspace(u, "closeDrop", "idle")
  \/ DeleteFromWorkspace(u, "discard", "delete")
  \/ CloseDelete(u)

GrabStep(u) == GrabAssign(u) \/ GrabAssignCopy(u)

ApproveStep(u) ==
  Move(u) \/ MoveUnlock(u) \/ MoveStore(u) \/ MoveDrop(u) \/ SetApproved(u)

\* A request that is under way takes its next step.
Step(u) ==
  \/ EditStep(u) \/ SaveStep(u) \/ CancelStep(u) \/ CloseStep(u) \/ GrabStep(u)
  \/ ApproveStep(u) \/ Vanished(u)

Next ==
  \/ \E u \in Users : Create(u) \/ BeginAny(u) \/ Step(u) \/ Fail(u)
  \/ Restart

Spec == Init /\ [][Next]_vars

\* The container goes on running the threads of the requests.
FairSpec == Spec /\ \A u \in Users : WF_vars(Step(u))

--------------------------------------------------------------------------------
(***************************************************************************)
(* Properties.                                                             *)
(***************************************************************************)

\* A request that gives the workspace row up goes on.
GivesCopyUp ==
  \E u \in Users : pc[u] \in {"drop", "closeDrop", "discard"} /\ pc'[u] # pc[u]

\* Saved edits are not lost half-way: a workspace row goes away when its user
\* gives it up, or when its content is what the published row holds, however
\* requests overlap and wherever one of them fails.
CopyDroppedOncePublished ==
  [][ws # None /\ ws' = None /\ exists' => md.data = ws.data \/ GivesCopyUp]_vars

\* The published row is replaced by the content of the workspace row, as it is
\* at that moment: no save slips in while an approval moves the document.
PublishesCurrentCopy ==
  [][exists /\ exists' /\ md'.data # md.data
       => ws # None /\ md'.data = ws.data]_vars

\* A record whose newest public status is APPROVED is visible to group All,
\* even if an approval fails half-way: the status comes last.
ApprovedIsPublic == LastPublicStatus(history) = "APPROVED" => public

\* The monitor of DataManager is never kept: a request that took it gives it
\* back, although it calls other synchronized methods while it has it.
MonitorReleased == \A u \in Users : monitor = u ~> monitor # u

GrabsLock == \E u \in Users : GrabAssign(u)

\* A lock changes hands by metadata.grab.lock only.
LockHandedOver ==
  [][md.isLocked /\ md'.isLocked /\ md'.lockedBy # md.lockedBy => GrabsLock]_vars

\* What an approval publishes is the document that was validated for it.
PublishesWhatWasValidated ==
  [][\A u \in Users : MoveStore(u) => md'.data = local[u].checked]_vars
================================================================================
