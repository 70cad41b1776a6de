---------------------------- MODULE StatusWorkflow ----------------------------
(***************************************************************************)
(* The editorial workflow of one metadata record: created or imported,     *)
(* opened in an edit session (locked, copied to the Workspace table),      *)
(* saved, cancelled, taken over, moved through the review statuses,        *)
(* published, retired and deleted, its privileges set by the workflow and  *)
(* by hand.                                                                *)
(*                                                                         *)
(* One action is one service request, executed as a whole; EditSession     *)
(* opens the requests up into their database transactions.  Records do not *)
(* interact: every handler below touches the rows of one id.  After a      *)
(* deletion the same variables describe the next record.                   *)
(*                                                                         *)
(* Content is abstracted to a model value; Valid is the content that       *)
(* passes the XSD, the ISO and the GeoNetwork schematrons.  The fixed      *)
(* information and the conformity keywords the code writes into a document *)
(* on its way to the table keep it in its class.                           *)
(***************************************************************************)
EXTENDS StatusRules

CONSTANTS
  Users, Groups, Content, Valid,
  None,             \* no row, no user
  Profile,          \* the profile of each user
  MemberOf,         \* the groups of each user
  CanDeleteGroups,  \* servlet parameter: whose reviewers may delete
  Agiv,             \* whether the node is of type "agiv"
  SymbolicLocking,  \* setting system/symbolicLocking/enable
  Requested,        \* the statuses that clients ask for
  MinorEdits,       \* whether clients save minor edits
  TogglesTemplate,  \* whether clients turn records into templates and back
  Processing        \* whether metadata.processing rewrites published rows

ASSUME ValidAssumption == Valid \subseteq Content
ASSUME NoneAssumption ==
  /\ None \notin Users
  /\ None \notin [data : Content, lockedBy : Users]
ASSUME ProfileAssumption == Profile \in [Users -> Profiles]
ASSUME MemberAssumption == MemberOf \in [Users -> SUBSET Groups]
ASSUME RequestedAssumption == Requested \subseteq Status
ASSUME FlagAssumption ==
  /\ Agiv \in BOOLEAN
  /\ SymbolicLocking \in BOOLEAN
  /\ MinorEdits \in BOOLEAN
  /\ TogglesTemplate \in BOOLEAN
  /\ Processing \in BOOLEAN

VARIABLES
  exists,      \* whether the record has a row in table Metadata
  data,        \* ... and that row's content: the published version
  template,    \* ... its isTemplate column
  lockedBy,    \* ... its isLocked and lockedBy columns; None: not locked
  owner,       \* ... its owner column (as data and template: any value if no row)
  copy,        \* the row of table Workspace: [data, lockedBy], or None
  history,     \* the rows of table MetadataStatus
  public,      \* whether group All has the operations on the record
  editGroups,  \* the groups with the editing operation on the record
  byHand       \* auxiliary: the last to change public was no step of the
               \* workflow but a request about privileges

row == << exists, data, template, lockedBy, owner >>
vars == << exists, data, template, lockedBy, owner, copy, history, public,
           editGroups, byHand >>

WorkspaceRow == [data : Content, lockedBy : Users]

TypeOK ==
  /\ exists \in BOOLEAN
  /\ data \in Content
  /\ template \in BOOLEAN
  /\ lockedBy \in Users \cup {None}
  /\ owner \in Users
  /\ copy \in WorkspaceRow \cup {None}
  /\ history \in History
  /\ public \in BOOLEAN
  /\ editGroups \subseteq Groups
  /\ byHand \in BOOLEAN

--------------------------------------------------------------------------------
(***************************************************************************)
(* Access: AccessManager.                                                  *)
(***************************************************************************)

IsWorkspace == copy # None

InEditGroup(u) == MemberOf[u] \cap editGroups # {}

IsOwner(u) ==
  \/ Profile[u] = "Administrator"
  \/ owner = u
  \/ Profile[u] \in {"Reviewer", "UserAdmin"} /\ InEditGroup(u)

HasEditPermission(u) == Profile[u] = "Editor" /\ InEditGroup(u)

CanEdit(u) == IsOwner(u) \/ HasEditPermission(u)

UnlockAllowed(u) == lockedBy = u

GrabLockAllowed(u, target) ==
  \/ Profile[u] = "Administrator"
  \/ /\ \/ Profile[u] \in {"Reviewer", "UserAdmin"}
        \/ Profile[u] = "Editor" /\ SymbolicLocking
     /\ InEditGroup(u)
     /\ MemberOf[target] \cap MemberOf[u] # {}

NotLockedByOther(u) == lockedBy \in {None, u}

--------------------------------------------------------------------------------
(***************************************************************************)
(* Helpers of the handlers: DataManager.                                   *)
(***************************************************************************)

\* deleteMetadata: every table's rows of the record go in one transaction.
DeleteMetadata ==
  /\ exists' = FALSE
  /\ lockedBy' = None
  /\ copy' = None
  /\ history' = NoHistory
  /\ public' = FALSE
  /\ editGroups' = {}
  /\ byHand' = FALSE
  /\ UNCHANGED << data, template, owner >>

\* What a request may ask for: operations of group All, editing of groups.
Privileges == [all : BOOLEAN, groups : SUBSET Groups]

\* copyDefaultPrivForGroup, for the one group that a request names: group All
\* and the other internal groups view what they are given and never edit it.
DefaultPrivileges ==
  {[all |-> TRUE, groups |-> {}]} \cup {[all |-> FALSE, groups |-> {g}] : g \in Groups}

\* insertMetadata and createMetadata: a new row of Metadata and its privileges.
InsertRow(u, d, t, p, h) ==
  /\ exists' = TRUE
  /\ data' = d
  /\ template' = t
  /\ lockedBy' = None
  /\ owner' = u
  /\ copy' = None
  /\ history' = h
  /\ public' = p.all
  /\ editGroups' = p.groups
  /\ byHand' = p.all

\* metadata.update first sets the template flag, and hides a template.
TemplateChoices == IF TogglesTemplate THEN BOOLEAN ELSE {template}

SetTemplate(t) ==
  /\ template' = t
  /\ public' = (public /\ ~t)

--------------------------------------------------------------------------------
(***************************************************************************)
(* The requests.                                                           *)
(***************************************************************************)

Init ==
  /\ exists = FALSE
  /\ data \in Content
  /\ template \in BOOLEAN
  /\ lockedBy = None
  /\ owner \in Users
  /\ copy = None
  /\ history = NoHistory
  /\ public = FALSE
  /\ editGroups = {}
  /\ byHand = FALSE

\* metadata.create: a copy of a template's content, in status JUSTCREATED.
Create(u, d, t, p) ==
  /\ ~exists
  /\ p \in DefaultPrivileges
  /\ InsertRow(u, d, t, p, SetStatus(NoHistory, "JUSTCREATED"))

\* metadata.insert, the MEF import: no status is given to the record, and the
\* privileges are those of the group named or those in the file, group All's
\* included, validated or not.  An import over a record with the same uuid
\* deletes that record first.
Import(u, d, t, p) ==
  /\ exists => CanEdit(u)
  /\ InsertRow(u, d, t, p, NoHistory)

\* Mutant: the workspace copy is taken before the lock.
OpenEditorCopyFirst(u) ==
  /\ exists
  /\ CanEdit(u)
  /\ NotLockedByOther(u)
  /\ ~IsWorkspace
  /\ lockedBy' = u
  /\ owner' = u
  /\ copy' = [data |-> data, lockedBy |-> lockedBy]
  /\ UNCHANGED << exists, data, template, history, public, editGroups, byHand >>

\* metadata.edit on a record that is in no edit session.  With a workspace
\* copy the editor is shown that copy and no row changes.
OpenEditor(u) ==
  /\ exists
  /\ CanEdit(u)
  /\ NotLockedByOther(u)
  /\ ~IsWorkspace
  /\ lockedBy' = u
  /\ owner' = u
  /\ copy' = [data |-> data, lockedBy |-> u]
  /\ UNCHANGED << exists, data, template, history, public, editGroups, byHand >>

\* Mutant: a save writes the published row (updateMetadata).
SaveEditInPlace(u, t, minorEdit, d, written) ==
  /\ exists
  /\ CanEdit(u)
  /\ SetTemplate(t)
  /\ history' = OnEdit(history, minorEdit)
  /\ data' = IF written THEN d ELSE data
  /\ UNCHANGED << exists, copy, lockedBy, owner, editGroups, byHand >>

\* metadata.update and metadata.update.finish.  The status is changed before
\* the document is applied: a request that fails on the document (written =
\* FALSE) leaves the new status.  Without a workspace row nothing is written.
SaveEdit(u, t, minorEdit, d, written) ==
  /\ exists
  /\ CanEdit(u)
  /\ SetTemplate(t)
  /\ history' = OnEdit(history, minorEdit)
  /\ copy' = IF written /\ IsWorkspace THEN [copy EXCEPT !.data = d] ELSE copy
  /\ UNCHANGED << exists, data, lockedBy, owner, editGroups, byHand >>

\* metadata.update.forget: only the template flag reaches the database.
ForgetEdit(u, t) ==
  /\ exists
  /\ CanEdit(u)
  /\ SetTemplate(t)
  /\ UNCHANGED << exists, data, lockedBy, owner, copy, history, editGroups,
                  byHand >>

\* metadata.update.forgetandfinish: the editor is closed without saving.  In
\* any other status, and for a user who does not hold the lock, it does no
\* more than ForgetEdit.
CloseEditor(u, t) ==
  /\ exists
  /\ CanEdit(u)
  /\ \/ /\ CurrentStatus(history) = "JUSTCREATED"
        /\ DeleteMetadata
     \/ /\ CurrentStatus(history) \in PublicStatuses
        /\ UnlockAllowed(u)
        /\ SetTemplate(t)
        /\ lockedBy' = None
        /\ copy' = None
        /\ UNCHANGED << exists, data, owner, history, editGroups, byHand >>

\* metadata.unlock, "Cancel edit session".
CancelEditSession(u) ==
  /\ exists
  /\ UnlockAllowed(u)
  /\ \/ /\ CancelDeletes(history)
        /\ DeleteMetadata
     \/ /\ ~CancelDeletes(history)
        /\ lockedBy' = None
        /\ copy' = None
        /\ history' = CancelledHistory(history)
        /\ UNCHANGED << exists, data, template, owner, public, editGroups,
                        byHand >>

\* Mutant: the lock is handed over in table Metadata only.
CopyKeepsHolder(u) == copy

\* The workspace row after its holder was replaced.
CopyHeldBy(u) == IF IsWorkspace THEN [copy EXCEPT !.lockedBy = u] ELSE copy

\* metadata.grab.lock: the edit session is handed to another user.
GrabLock(u, target) ==
  /\ exists
  /\ lockedBy # None
  /\ GrabLockAllowed(u, target)
  /\ lockedBy' = target
  /\ owner' = target
  /\ copy' = CopyHeldBy(target)
  /\ UNCHANGED << exists, data, template, history, public, editGroups, byHand >>

\* The content that must be valid before the status changes to s.
ContentToValidate ==
  IF ValidatesWorkspace(CurrentStatus(history)) /\ IsWorkspace
  THEN copy.data ELSE data

StatusChangeAllowed(u, s) ==
  /\ s # CurrentStatus(history)
  /\ StatusChangeAllowedByUser(Profile[u], CurrentStatus(history), s, Agiv,
                               IsWorkspace, IsOwner(u), CanEdit(u))
  /\ template \/ s \notin ValidatedStatuses \/ ContentToValidate \in Valid

\* moveFromWorkspaceToMetadata, with the operations given to group All.
Approve ==
  /\ public' = TRUE
  /\ data' = IF IsWorkspace THEN copy.data ELSE data
  /\ lockedBy' = IF IsWorkspace THEN None ELSE lockedBy
  /\ copy' = None
  /\ history' = SetStatus(history, "APPROVED")
  /\ byHand' = FALSE
  /\ UNCHANGED << exists, template, owner, editGroups >>

\* metadata.status and metadata.batch.update.status.  Only the first asks for
\* ownership, so the request is granted to whom the batch grants it.
StatusChange(u, s) ==
  /\ exists
  /\ StatusChangeAllowed(u, s)
  /\ \/ /\ s = "APPROVED"
        /\ Approve
     \/ /\ s \in RejectionStatuses
        /\ LastBeforeCurrentStatus(history) # NoStatus
        /\ history' = SetStatus(history, LastBeforeCurrentStatus(history))
        /\ UNCHANGED << row, copy, public, editGroups, byHand >>
     \/ /\ s = "REMOVED"
        /\ DeleteMetadata
     \* REMOVED is among these too: the deletion may fail, and that is ignored.
     \/ /\ s \notin RejectionStatuses \cup {"APPROVED"}
        /\ history' = SetStatus(history, s)
        /\ public' = (public /\ s # "RETIRED")
        /\ byHand' = (byHand /\ s # "RETIRED")
        /\ UNCHANGED << row, copy, editGroups >>

\* metadata.delete.  On an agiv node a record that was ever approved is
\* deleted by an administrator, or by a reviewer of the groups entitled to it.
DeleteAllowed(u) ==
  /\ NotLockedByOther(u)
  /\ (Agiv /\ EverApproved(history) /\ Profile[u] \in {"Editor", "Reviewer"})
       => Profile[u] = "Reviewer" /\ MemberOf[u] \cap CanDeleteGroups # {}

Delete(u) ==
  /\ exists
  /\ CanEdit(u)
  /\ DeleteAllowed(u)
  /\ DeleteMetadata

\* metadata.batch.newowner, a service of user administrators and above.
NewOwner(u, target, p) ==
  /\ exists
  /\ Profile[u] \in {"UserAdmin", "Administrator"}
  /\ IsOwner(u)
  /\ p \in DefaultPrivileges
  /\ owner' = target
  /\ public' = (public \/ p.all)
  /\ editGroups' = editGroups \cup p.groups
  /\ byHand' = (byHand \/ public' # public)
  /\ UNCHANGED << exists, data, template, lockedBy, copy, history >>

\* metadata.admin, for reviewers and above, of any record: all operations are
\* replaced, but a user administrator's own record keeps those of group All.
\* metadata.batch.update.privileges keeps them for everybody and asks for
\* ownership, which is the case that p gives group All what it had.
SetPrivileges(u, p) ==
  /\ exists
  /\ Profile[u] \in {"Reviewer", "UserAdmin", "Administrator"}
  /\ public' = (p.all \/ (public /\ owner = u /\ Profile[u] = "UserAdmin"))
  /\ editGroups' = p.groups
  /\ byHand' = (byHand \/ public' # public)
  /\ UNCHANGED << exists, data, template, lockedBy, owner, copy, history >>

\* metadata.processing: the published row is rewritten, whoever edits it.
ProcessRecord(u, d) ==
  /\ Processing
  /\ exists
  /\ IsOwner(u)
  /\ data' = d
  /\ UNCHANGED << exists, template, lockedBy, owner, copy, history, public,
                  editGroups, byHand >>

CreateAny == \E u \in Users, d \in Content, t \in BOOLEAN, p \in Privileges :
               Create(u, d, t, p)
ImportAny == \E u \in Users, d \in Content, t \in BOOLEAN, p \in Privileges :
               Import(u, d, t, p)
SaveAny == \E u \in Users, d \in Content, t \in TemplateChoices,
              written \in BOOLEAN, minorEdit \in {FALSE, MinorEdits} :
             SaveEdit(u, t, minorEdit, d, written)
ForgetAny == \E u \in Users, t \in TemplateChoices : ForgetEdit(u, t)
CloseAny == \E u \in Users, t \in TemplateChoices : CloseEditor(u, t)
StatusChangeAny == \E u \in Users, s \in Requested : StatusChange(u, s)
CancelAny == \E u \in Users : CancelEditSession(u)
EditingAny == SaveAny \/ ForgetAny \/ CloseAny \/ CancelAny
DeleteAny == \E u \in Users : Delete(u)

Next ==
  \/ CreateAny
  \/ ImportAny
  \/ \E u \in Users : OpenEditor(u)
  \/ SaveAny
  \/ ForgetAny
  \/ CloseAny
  \/ CancelAny
  \/ \E u, target \in Users : GrabLock(u, target)
  \/ StatusChangeAny
  \/ DeleteAny
  \/ \E u, target \in Users, p \in Privileges : NewOwner(u, target, p)
  \/ \E u \in Users, p \in Privileges : SetPrivileges(u, p)
  \/ \E u \in Users, d \in Content : ProcessRecord(u, d)

Spec == Init /\ [][Next]_vars

--------------------------------------------------------------------------------
(***************************************************************************)
(* Safety.                                                                 *)
(***************************************************************************)

\* A record is locked exactly while it has a workspace copy, the copy names
\* the holder of the lock, and nothing is left behind by a deleted record:
\* the two rows are written by five different services.
LockMatchesWorkspace ==
  /\ IsWorkspace <=> lockedBy # None
  /\ IsWorkspace => exists /\ copy.lockedBy = lockedBy

\* Group All sees a record exactly when its newest public status is APPROVED,
\* unless its operations were changed by hand since: an import, a new owner or
\* metadata.admin.  Approval and retirement set them anew; the cancelled edit
\* and the rejected request only put a status back, and must not disagree.
PublicationMatchesHistory ==
  ~template /\ ~byHand => (public <=> LastPublicStatus(history) = "APPROVED")

\* What was approved and not retired since passed the XSD and schematron
\* validation, and so did what the workflow shows to group All.  The gate of
\* statusChange validates the workspace copy or the published row depending
\* on the current status, and then publishes the workspace copy.
PublicContentValid ==
  ~template /\ (LastPublicStatus(history) = "APPROVED" \/ (public /\ ~byHand))
    => data \in Valid

\* The workspace copies that the gate does not look at hold nothing new.
UnreviewedCopyPristine ==
  LET cur == CurrentStatus(history) IN
  /\ IsWorkspace
  /\ \/ ~ValidatesWorkspace(cur)
     \/ cur = "RETIRED_FOR_AGIV"
     \/ cur = "REMOVED_FOR_AGIV" /\ ~ValidatesWorkspace(history.previous)
  => copy.data = data

\* Published content is replaced by an approval (or by the import of another
\* document under the same uuid) and by nothing that happens in an editor.
PublishedOnlyByApproval ==
  [][exists /\ exists' /\ data' # data
       => \/ history' = SetStatus(history, "APPROVED") /\ data' = copy.data
          \/ ImportAny]_vars

\* On an agiv node a request that brings a record to APPROVED is granted to
\* administrators only (and to user administrators, whom no table restricts);
\* anybody else brings it there by cancelling an edit, publishing nothing new.
AgivDecidesApproval ==
  [][Agiv /\ CurrentStatus(history') = "APPROVED"
          /\ CurrentStatus(history) # "APPROVED"
       => /\ \A u \in Users, s \in Requested :
               StatusChange(u, s) => Profile[u] \in {"Administrator", "UserAdmin"}
          /\ \/ StatusChangeAny
             \/ EverApproved(history) /\ UNCHANGED << data, public >>]_vars

\* A record that was approved once is not deleted, nor its history lost,
\* because an editor is saved, closed or cancelled: the two requests that
\* throw new records away tell them by their statuses.
ApprovedSurvivesEditing ==
  [][EverApproved(history) /\ EditingAny => EverApproved(history')]_vars
--------------------------------------------------------------------------------
(***************************************************************************)
(* What a comment of the repository says of this workflow, and the code    *)
(* does not keep in every configuration.                                   *)
(***************************************************************************)

\* DefaultStatusActions, on the GDI node: metadata records only get the
\* "Approved" status if the XSD and schematron validation was performed OK.
\* Here of what is published; a minor edit of a new record escapes the gate.
ApprovedOnlyIfValid ==
  exists /\ ~template /\ CurrentStatus(history) = "APPROVED" => data \in Valid
================================================================================
