------------------------- MODULE StatusWorkflow_proofs -------------------------
(***************************************************************************)
(* Theorems about the editorial workflow, for every set of users, groups   *)
(* and contents.                                                           *)
(***************************************************************************)
EXTENDS StatusWorkflow, TLAPS

USE DEF IsWorkspace

\* Adding a row to a history gives a history.
LEMMA SetStatusType ==
  ASSUME NEW h \in History, NEW s \in Status
  PROVE  SetStatus(h, s) \in History
BY DEF SetStatus, History, PublicStatuses, Status, NoStatus

LEMMA NoHistoryType == NoHistory \in History
BY DEF NoHistory, History, NoStatus

LEMMA OnEditType ==
  ASSUME NEW h \in History, NEW minorEdit
  PROVE  OnEdit(h, minorEdit) \in History
<1>1. "DRAFT" \in Status
  BY DEF Status
<1>2. QED
  BY <1>1, SetStatusType DEF OnEdit

\* When a cancelled edit puts a status back, there is one to put back.
LEMMA CancelledHistoryType ==
  ASSUME NEW h \in History, ~CancelDeletes(h)
  PROVE  CancelledHistory(h) \in History
<1>1. CASE CancelKeepsStatus(h)
  BY <1>1 DEF CancelledHistory
<1>2. CASE ~CancelKeepsStatus(h)
  <2>1. h.lastPublic \in PublicStatuses
    BY <1>2 DEF CancelDeletes, LastPublicStatus, History
  <2>2. h.lastPublic \in Status
    BY <2>1 DEF PublicStatuses, Status
  <2>3. QED
    BY <1>2, <2>2, SetStatusType DEF CancelledHistory, LastPublicStatus
<1>3. QED
  BY <1>1, <1>2

--------------------------------------------------------------------------------
\* Typing and the coherence of the edit session are proved together: that a
\* workspace row has a holder depends on the lock that goes with it.
SessionInv == TypeOK /\ LockMatchesWorkspace

LEMMA InitSession == Init => SessionInv
BY NoHistoryType
   DEF Init, SessionInv, TypeOK, LockMatchesWorkspace

LEMMA DeleteMetadataSession == TypeOK /\ DeleteMetadata => SessionInv'
BY NoHistoryType
   DEF DeleteMetadata, SessionInv, TypeOK, LockMatchesWorkspace

LEMMA InsertRowSession ==
  ASSUME NEW u \in Users, NEW d \in Content, NEW t \in BOOLEAN,
         NEW p \in Privileges, NEW h \in History,
         InsertRow(u, d, t, p, h)
  PROVE  SessionInv'
BY DEF InsertRow, Privileges, SessionInv, TypeOK, LockMatchesWorkspace

LEMMA NextSession == SessionInv /\ [Next]_vars => SessionInv'
<1> SUFFICES ASSUME SessionInv, [Next]_vars
             PROVE  SessionInv'
  OBVIOUS
<1> USE NoneAssumption, MemberAssumption, RequestedAssumption
<1> USE DEF SessionInv
<1>1. CASE CreateAny
  <2>1. "JUSTCREATED" \in Status
    BY DEF Status
  <2>2. SetStatus(NoHistory, "JUSTCREATED") \in History
    BY <2>1, NoHistoryType, SetStatusType
  <2>3. QED
    BY <1>1, <2>2, InsertRowSession DEF CreateAny, Create
<1>2. CASE ImportAny
  BY <1>2, NoHistoryType, InsertRowSession DEF ImportAny, Import
<1>3. ASSUME NEW u \in Users, OpenEditor(u)
      PROVE  SessionInv'
  <2>1. copy' \in WorkspaceRow /\ copy' # None
    BY <1>3 DEF OpenEditor, TypeOK, WorkspaceRow
  <2>2. TypeOK'
    BY <1>3, <2>1 DEF OpenEditor, TypeOK
  <2>3. LockMatchesWorkspace'
    BY <1>3, <2>1 DEF OpenEditor, LockMatchesWorkspace
  <2>4. QED
    BY <2>2, <2>3
<1>4. CASE SaveAny
  <2>1. PICK u \in Users, d \in Content, t \in TemplateChoices,
             written \in BOOLEAN, minorEdit \in {FALSE, MinorEdits} :
               SaveEdit(u, t, minorEdit, d, written)
    BY <1>4 DEF SaveAny
  <2>2. template' \in BOOLEAN /\ public' \in BOOLEAN
    BY <2>1 DEF SaveEdit, SetTemplate, TemplateChoices, TypeOK
  <2>3. history' \in History
    BY <2>1, OnEditType DEF SaveEdit, TypeOK
  <2>4. copy' \in WorkspaceRow \cup {None}
    BY <2>1 DEF SaveEdit, TypeOK, WorkspaceRow
  <2>5. /\ copy' = None <=> copy = None
        /\ copy # None => copy'.lockedBy = copy.lockedBy
    BY <2>1 DEF SaveEdit, TypeOK, WorkspaceRow
  <2>6. QED
    BY <2>1, <2>2, <2>3, <2>4, <2>5
       DEF SaveEdit, TypeOK, LockMatchesWorkspace
<1>5. CASE ForgetAny
  BY <1>5 DEF ForgetAny, ForgetEdit, SetTemplate, TemplateChoices, TypeOK,
              LockMatchesWorkspace
<1>6. CASE CloseAny
  <2>1. PICK u \in Users, t \in TemplateChoices : CloseEditor(u, t)
    BY <1>6 DEF CloseAny
  <2>2. CASE DeleteMetadata
    BY <2>2, DeleteMetadataSession
  <2>3. CASE ~DeleteMetadata
    BY <2>1, <2>3 DEF CloseEditor, SetTemplate, TemplateChoices, TypeOK,
                      LockMatchesWorkspace
  <2>4. QED
    BY <2>2, <2>3
<1>7. ASSUME NEW u \in Users, CancelEditSession(u)
      PROVE  SessionInv'
  <2>1. CASE DeleteMetadata
    BY <2>1, DeleteMetadataSession
  <2>2. CASE ~DeleteMetadata
    BY <1>7, <2>2, CancelledHistoryType
       DEF CancelEditSession, TypeOK, LockMatchesWorkspace
  <2>3. QED
    BY <2>1, <2>2
<1>8. ASSUME NEW u \in Users, NEW target \in Users, GrabLock(u, target)
      PROVE  SessionInv'
  <2>1. copy \in WorkspaceRow
    BY <1>8 DEF GrabLock, TypeOK, LockMatchesWorkspace
  <2>2. copy' = [copy EXCEPT !.lockedBy = target]
    BY <1>8, <2>1 DEF GrabLock, CopyHeldBy, WorkspaceRow
  <2>3. copy' \in WorkspaceRow /\ copy'.lockedBy = target /\ copy' # None
    BY <2>1, <2>2 DEF WorkspaceRow
  <2>4. TypeOK'
    BY <1>8, <2>3 DEF GrabLock, TypeOK
  <2>5. LockMatchesWorkspace'
    BY <1>8, <2>1, <2>3 DEF GrabLock, LockMatchesWorkspace, WorkspaceRow
  <2>6. QED
    BY <2>4, <2>5
<1>9. CASE StatusChangeAny
  <2>1. PICK u \in Users, s \in Requested : StatusChange(u, s)
    BY <1>9 DEF StatusChangeAny
  <2>2. s \in Status /\ "APPROVED" \in Status
    BY DEF Status
  <2>3. CASE Approve
    <3>1. history' \in History
      BY <2>2, <2>3, SetStatusType DEF Approve, TypeOK
    <3>2. data' \in Content
      BY <2>3 DEF Approve, TypeOK, WorkspaceRow
    <3>3. QED
      BY <2>3, <3>1, <3>2 DEF Approve, TypeOK, LockMatchesWorkspace
  <2>4. CASE /\ LastBeforeCurrentStatus(history) # NoStatus
             /\ history' = SetStatus(history, LastBeforeCurrentStatus(history))
             /\ UNCHANGED << row, copy, public, editGroups, byHand >>
    <3>1. LastBeforeCurrentStatus(history) \in Status
      BY <2>4 DEF LastBeforeCurrentStatus, History, TypeOK
    <3>2. QED
      BY <2>4, <3>1, SetStatusType DEF TypeOK, LockMatchesWorkspace, row
  <2>5. CASE DeleteMetadata
    BY <2>5, DeleteMetadataSession
  <2>6. CASE /\ history' = SetStatus(history, s)
             /\ public' = (public /\ s # "RETIRED")
             /\ byHand' = (byHand /\ s # "RETIRED")
             /\ UNCHANGED << row, copy, editGroups >>
    BY <2>2, <2>6, SetStatusType DEF TypeOK, LockMatchesWorkspace, row
  <2>7. QED
    BY <2>1, <2>3, <2>4, <2>5, <2>6 DEF StatusChange
<1>10. CASE DeleteAny
  BY <1>10, DeleteMetadataSession DEF DeleteAny, Delete
<1>11. ASSUME NEW u \in Users, NEW target \in Users, NEW p \in Privileges,
              NewOwner(u, target, p) \/ SetPrivileges(u, p)
       PROVE  SessionInv'
  BY <1>11 DEF NewOwner, SetPrivileges, Privileges, TypeOK, LockMatchesWorkspace
<1>12. ASSUME NEW u \in Users, NEW d \in Content, ProcessRecord(u, d)
       PROVE  SessionInv'
  BY <1>12 DEF ProcessRecord, TypeOK, LockMatchesWorkspace
<1>13. CASE UNCHANGED vars
  BY <1>13 DEF vars, TypeOK, LockMatchesWorkspace
<1>14. QED
  BY <1>1, <1>2, <1>3, <1>4, <1>5, <1>6, <1>7, <1>8, <1>9, <1>10, <1>11,
     <1>12, <1>13 DEF Next, CancelAny

\* Every variable keeps its type: no handler leaves a status that is none, a
\* workspace row without a holder, or a lock held by nobody.
THEOREM TypeCorrect == Spec => []TypeOK
<1>1. Spec => []SessionInv
  BY InitSession, NextSession, PTL DEF Spec
<1>2. SessionInv => TypeOK
  BY DEF SessionInv
<1>3. QED
  BY <1>1, <1>2, PTL

\* The lock of a record and its workspace copy come and go together and name
\* the same user, whoever edits, cancels, grabs, approves, imports or deletes.
THEOREM SessionCoherent == Spec => []LockMatchesWorkspace
<1>1. Spec => []SessionInv
  BY InitSession, NextSession, PTL DEF Spec
<1>2. SessionInv => LockMatchesWorkspace
  BY DEF SessionInv
<1>3. QED
  BY <1>1, <1>2, PTL
--------------------------------------------------------------------------------
(***************************************************************************)
(* What the workflow publishes.  This rests on the shape of the status     *)
(* history (HistoryInv), which says what a rejected request or a cancelled *)
(* edit can put back.                                                      *)
(***************************************************************************)

\* The status tables restrict every user there is.
OnlyNamedProfiles == \A u \in Users : Profile[u] # "UserAdmin"

\* Clients ask for the statuses of the status form.
OnlyOfferedStatuses == Requested \cap {"UNKNOWN", "JUSTCREATED"} = {}

Requests == {"RETIRED_FOR_AGIV", "REMOVED_FOR_AGIV"}

--------------------------------------------------------------------------------
(***************************************************************************)
(* The decision tables.                                                    *)
(***************************************************************************)

\* A retirement or removal is refused only after it was requested.
LEMMA RejectionAnswersRequest ==
  ASSUME OnlyNamedProfiles, NEW u \in Users, NEW s \in RejectionStatuses,
         TypeOK, StatusChangeAllowed(u, s)
  PROVE  history.current \in Requests
<1>1. CurrentStatus(history) \in Status
  BY DEF CurrentStatus, TypeOK, History, Status
<1>2. CASE Profile[u] = "Administrator"
  <2>1. CurrentStatus(history) \notin RefusedToAdministrator(s, Agiv)
    BY <1>2 DEF StatusChangeAllowed, StatusChangeAllowedByUser
  <2>2. CurrentStatus(history) \in Requests
    BY <1>1, <2>1 DEF RefusedToAdministrator, RejectionStatuses, Requests
  <2>3. QED
    BY <2>2 DEF CurrentStatus, Requests, NoStatus
<1>3. CASE Profile[u] = "Reviewer"
  <2>1. CurrentStatus(history) \notin RefusedToReviewer(s, Agiv, IsWorkspace)
    BY <1>3 DEF StatusChangeAllowed, StatusChangeAllowedByUser
  <2>2. QED
    BY <1>1, <2>1 DEF RefusedToReviewer, RejectionStatuses
<1>4. CASE Profile[u] = "Editor"
  <2>1. CurrentStatus(history) \notin RefusedToEditor(s, IsOwner(u))
    BY <1>4 DEF StatusChangeAllowed, StatusChangeAllowedByUser
  <2>2. QED
    BY <1>1, <2>1 DEF RefusedToEditor, RejectionStatuses
<1>5. QED
  BY <1>2, <1>3, <1>4, ProfileAssumption DEF OnlyNamedProfiles, Profiles

\* Reviewers and editors of an agiv node bring no record to APPROVED.
LEMMA OnlyAdministratorsApprove ==
  ASSUME Agiv, NEW u \in Users, NEW s \in RejectionStatuses \cup {"APPROVED"},
         TypeOK, StatusChangeAllowed(u, s)
  PROVE  Profile[u] \in {"Administrator", "UserAdmin"}
<1>1. CurrentStatus(history) \in Status
  BY DEF CurrentStatus, TypeOK, History, Status
<1>2. CASE Profile[u] = "Reviewer"
  <2>1. CurrentStatus(history) \notin RefusedToReviewer(s, Agiv, IsWorkspace)
    BY <1>2 DEF StatusChangeAllowed, StatusChangeAllowedByUser
  <2>2. QED
    BY <1>1, <2>1 DEF RefusedToReviewer, RejectionStatuses
<1>3. CASE Profile[u] = "Editor"
  <2>1. CurrentStatus(history) \notin RefusedToEditor(s, IsOwner(u))
    BY <1>3 DEF StatusChangeAllowed, StatusChangeAllowedByUser
  <2>2. QED
    BY <1>1, <2>1 DEF RefusedToEditor, RejectionStatuses
<1>4. QED
  BY <1>2, <1>3, ProfileAssumption DEF Profiles

\* A retirement or removal is not requested while another one is pending.
LEMMA RequestFollowsNoRequest ==
  ASSUME OnlyNamedProfiles, NEW u \in Users, NEW s \in Requests,
         TypeOK, StatusChangeAllowed(u, s)
  PROVE  history.current \notin Requests
<1>1. CurrentStatus(history) \in Status /\ s # CurrentStatus(history)
  BY DEF CurrentStatus, TypeOK, History, Status, StatusChangeAllowed
<1>2. CASE Profile[u] = "Administrator"
  <2>1. CurrentStatus(history) \notin RefusedToAdministrator(s, Agiv)
    BY <1>2 DEF StatusChangeAllowed, StatusChangeAllowedByUser
  <2>2. CurrentStatus(history) \notin Requests
    BY <1>1, <2>1 DEF RefusedToAdministrator, Requests
  <2>3. QED
    BY <2>2 DEF CurrentStatus, Requests, NoStatus
<1>3. CASE Profile[u] = "Reviewer"
  <2>1. CurrentStatus(history) \notin RefusedToReviewer(s, Agiv, IsWorkspace)
    BY <1>3 DEF StatusChangeAllowed, StatusChangeAllowedByUser
  <2>2. CurrentStatus(history) \notin Requests
    BY <1>1, <2>1 DEF RefusedToReviewer, Requests, AwaitingAgiv
  <2>3. QED
    BY <2>2 DEF CurrentStatus, Requests, NoStatus
<1>4. CASE Profile[u] = "Editor"
  <2>1. CurrentStatus(history) \notin RefusedToEditor(s, IsOwner(u))
    BY <1>4 DEF StatusChangeAllowed, StatusChangeAllowedByUser
  <2>2. QED
    BY <1>1, <2>1 DEF RefusedToEditor, Requests
<1>5. QED
  BY <1>2, <1>3, <1>4, ProfileAssumption DEF OnlyNamedProfiles, Profiles

--------------------------------------------------------------------------------
(***************************************************************************)
(* The shape of the status history.                                        *)
(***************************************************************************)

\* The newest two statuses agree with the newest public one.
PublicInv(h) ==
  /\ h.current \in PublicStatuses => h.lastPublic = h.current
  /\ h.previous \in PublicStatuses /\ h.current \notin PublicStatuses
       => h.lastPublic = h.previous
  /\ h.everApproved => h.lastPublic # NoStatus
  /\ h.lastPublic = "APPROVED" => h.everApproved

\* JUSTCREATED is left for good, and a request is not made upon a request.
CreationInv(h) ==
  /\ h.everApproved => h.current # "JUSTCREATED"
  /\ h.previous = "JUSTCREATED" /\ h.current # "APPROVED" => ~h.everApproved
  /\ h.current \in Requests => h.previous \notin Requests

LEMMA SetStatusPublic ==
  ASSUME NEW h \in History, NEW s \in Status, PublicInv(h)
  PROVE  PublicInv(SetStatus(h, s))
BY DEF SetStatus, PublicInv, History, PublicStatuses, NoStatus, Status

LEMMA SetStatusCreation ==
  ASSUME NEW h \in History, NEW s \in Status, CreationInv(h),
         s = "JUSTCREATED" => ~h.everApproved,
         s \in Requests => h.current \notin Requests
  PROVE  CreationInv(SetStatus(h, s))
BY DEF SetStatus, CreationInv, History, Requests, Status

LEMMA NoHistoryInv == PublicInv(NoHistory) /\ CreationInv(NoHistory)
BY DEF NoHistory, NoStatus, PublicInv, CreationInv, PublicStatuses, Requests

LEMMA StatusNames ==
  /\ {"DRAFT", "JUSTCREATED", "APPROVED", "RETIRED"} \subseteq Status
  /\ PublicStatuses \subseteq Status
BY DEF Status, PublicStatuses

\* A cancelled edit puts back a public status, or none.
LEMMA CancelledStatus ==
  ASSUME NEW h \in History, ~CancelDeletes(h)
  PROVE  \/ CancelledHistory(h) = h
         \/ /\ h.lastPublic \in PublicStatuses
            /\ CancelledHistory(h) = SetStatus(h, h.lastPublic)
BY DEF CancelDeletes, CancelledHistory, CancelKeepsStatus, LastPublicStatus,
       History

\* What each request does to the history of a record.
HistoryStep ==
  \/ history' = history
  \/ history' \in {NoHistory, SetStatus(NoHistory, "JUSTCREATED")}
  \/ history' = SetStatus(history, "DRAFT")
  \/ history.lastPublic \in PublicStatuses
     /\ history' = SetStatus(history, history.lastPublic)
  \/ \E u \in Users, s \in Requested :
       /\ StatusChange(u, s) /\ StatusChangeAllowed(u, s)
       /\ \/ s \notin RejectionStatuses /\ history' = SetStatus(history, s)
          \/ /\ s \in RejectionStatuses
             /\ history.previous # NoStatus
             /\ history' = SetStatus(history, history.previous)

LEMMA EveryHistoryStep == TypeOK /\ [Next]_vars => HistoryStep
<1> SUFFICES ASSUME TypeOK, [Next]_vars
             PROVE  HistoryStep
  OBVIOUS
<1>0. ASSUME DeleteMetadata PROVE HistoryStep
  BY <1>0 DEF DeleteMetadata, HistoryStep
<1>1. CASE CreateAny
  BY <1>1 DEF CreateAny, Create, InsertRow, HistoryStep
<1>2. CASE ImportAny
  BY <1>2 DEF ImportAny, Import, InsertRow, HistoryStep
<1>3. CASE SaveAny
  <2>1. PICK minorEdit \in {FALSE, MinorEdits} :
               history' = OnEdit(history, minorEdit)
    BY <1>3 DEF SaveAny, SaveEdit
  <2>2. QED
    BY <2>1 DEF OnEdit, HistoryStep
<1>4. CASE ForgetAny
  BY <1>4 DEF ForgetAny, ForgetEdit, HistoryStep
<1>5. CASE CloseAny
  BY <1>0, <1>5 DEF CloseAny, CloseEditor, HistoryStep
<1>6. CASE CancelAny
  <2>1. PICK u \in Users : CancelEditSession(u)
    BY <1>6 DEF CancelAny
  <2>2. CASE DeleteMetadata
    BY <1>0, <2>2
  <2>3. CASE ~DeleteMetadata
    <3>1. ~CancelDeletes(history) /\ history' = CancelledHistory(history)
      BY <2>1, <2>3 DEF CancelEditSession
    <3>2. QED
      BY <3>1, CancelledStatus DEF HistoryStep, TypeOK
  <2>4. QED
    BY <2>2, <2>3
<1>7. CASE StatusChangeAny
  <2>1. PICK u \in Users, s \in Requested : StatusChange(u, s)
    BY <1>7 DEF StatusChangeAny
  <2>2. StatusChangeAllowed(u, s)
    BY <2>1 DEF StatusChange
  <2>3. CASE s = "APPROVED" /\ Approve
    BY <2>1, <2>2, <2>3 DEF Approve, HistoryStep, RejectionStatuses
  <2>4. CASE /\ s \in RejectionStatuses
             /\ LastBeforeCurrentStatus(history) # NoStatus
             /\ history' = SetStatus(history, LastBeforeCurrentStatus(history))
    BY <2>1, <2>2, <2>4 DEF HistoryStep, LastBeforeCurrentStatus
  <2>5. CASE DeleteMetadata
    BY <1>0, <2>5
  <2>6. CASE /\ s \notin RejectionStatuses \cup {"APPROVED"}
             /\ history' = SetStatus(history, s)
    BY <2>1, <2>2, <2>6 DEF HistoryStep
  <2>7. QED
    BY <2>1, <2>3, <2>4, <2>5, <2>6 DEF StatusChange
<1>8. CASE DeleteAny
  BY <1>0, <1>8 DEF DeleteAny, Delete
<1>9. CASE history' = history
  BY <1>9 DEF HistoryStep
<1>10. QED
  BY <1>1, <1>2, <1>3, <1>4, <1>5, <1>6, <1>7, <1>8, <1>9
     DEF Next, vars, OpenEditor, GrabLock, NewOwner, SetPrivileges, ProcessRecord

LEMMA StepPublic ==
  ASSUME TypeOK, PublicInv(history), HistoryStep
  PROVE  PublicInv(history')
<1> USE StatusNames, NoHistoryInv, NoHistoryType, SetStatusPublic DEF TypeOK
<1>1. history.previous # NoStatus => history.previous \in Status
  BY DEF History
<1>2. PublicInv(SetStatus(NoHistory, "JUSTCREATED"))
  BY SetStatusPublic
<1>3. QED
  BY <1>1, <1>2, RequestedAssumption DEF HistoryStep

LEMMA StepCreation ==
  ASSUME OnlyNamedProfiles, OnlyOfferedStatuses,
         TypeOK, PublicInv(history), CreationInv(history), HistoryStep
  PROVE  CreationInv(history')
<1> USE StatusNames, NoHistoryInv, NoHistoryType, SetStatusCreation DEF TypeOK
<1>1. CASE history' \in {history, NoHistory}
  BY <1>1
<1>2. CASE history' = SetStatus(NoHistory, "JUSTCREATED")
  BY <1>2 DEF NoHistory, Requests
<1>3. CASE history' = SetStatus(history, "DRAFT")
  BY <1>3 DEF Requests
<1>4. CASE /\ history.lastPublic \in PublicStatuses
           /\ history' = SetStatus(history, history.lastPublic)
  BY <1>4 DEF Requests, PublicStatuses
<1>5. ASSUME NEW u \in Users, NEW s \in Requested, StatusChangeAllowed(u, s),
             s \notin RejectionStatuses, history' = SetStatus(history, s)
      PROVE  CreationInv(history')
  <2>1. s \in Status /\ s # "JUSTCREATED"
    BY RequestedAssumption DEF OnlyOfferedStatuses
  <2>2. s \in Requests => history.current \notin Requests
    BY <1>5, RequestFollowsNoRequest
  <2>3. QED
    BY <1>5, <2>1, <2>2
<1>6. ASSUME NEW u \in Users, NEW s \in RejectionStatuses,
             StatusChangeAllowed(u, s), history.previous # NoStatus,
             history' = SetStatus(history, history.previous)
      PROVE  CreationInv(history')
  <2>1. history.current \in Requests
    BY <1>6, RejectionAnswersRequest
  <2>2. history.previous \notin Requests /\ history.current # "APPROVED"
    BY <2>1 DEF CreationInv, Requests
  <2>3. history.previous \in Status
    BY <1>6 DEF History
  <2>4. history.previous = "JUSTCREATED" => ~history.everApproved
    BY <2>2 DEF CreationInv
  <2>5. QED
    BY <1>6, <2>2, <2>3, <2>4
<1>7. QED
  BY <1>1, <1>2, <1>3, <1>4, <1>5, <1>6 DEF HistoryStep

--------------------------------------------------------------------------------
(***************************************************************************)
(* Publication.                                                            *)
(***************************************************************************)

HistoryPublic == PublicInv(history)
HistoryCreation == CreationInv(history)

\* The newest two statuses of a record agree with its newest public status,
\* and its newest public status with whether it was approved: for any users
\* and any requests, user administrators' included.
THEOREM PublicHistory == Spec => []HistoryPublic
<1>1. Init => HistoryPublic
  BY NoHistoryInv DEF Init, HistoryPublic
<1>2. TypeOK /\ HistoryPublic /\ [Next]_vars => HistoryPublic'
  BY EveryHistoryStep, StepPublic DEF HistoryPublic
<1>3. QED
  BY <1>1, <1>2, TypeCorrect, PTL DEF Spec

\* The same of JUSTCREATED and of pending requests, where the tables decide.
LEMMA CreationHistory ==
  ASSUME OnlyNamedProfiles, OnlyOfferedStatuses
  PROVE  Spec => []HistoryCreation
<1>1. Init => HistoryCreation
  BY NoHistoryInv DEF Init, HistoryCreation
<1>2. TypeOK /\ HistoryPublic /\ HistoryCreation /\ [Next]_vars
        => HistoryCreation'
  BY EveryHistoryStep, StepCreation DEF HistoryPublic, HistoryCreation
<1>3. QED
  BY <1>1, <1>2, TypeCorrect, PublicHistory, PTL DEF Spec

\* A rejected request does not touch the newest public status.
LEMMA RejectionKeepsPublic ==
  ASSUME OnlyNamedProfiles, TypeOK, PublicInv(history),
         NEW u \in Users, NEW s \in RejectionStatuses,
         StatusChangeAllowed(u, s), history.previous # NoStatus
  PROVE  LastPublicStatus(SetStatus(history, history.previous))
           = LastPublicStatus(history)
<1>1. history.current \notin PublicStatuses
  BY RejectionAnswersRequest DEF Requests, PublicStatuses
<1>2. QED
  BY <1>1 DEF PublicInv, LastPublicStatus, SetStatus, TypeOK, History

LEMMA NextPublication ==
  ASSUME OnlyNamedProfiles, ~TogglesTemplate,
         TypeOK, HistoryPublic, PublicationMatchesHistory, [Next]_vars
  PROVE  PublicationMatchesHistory'
<1> USE DEF PublicationMatchesHistory, LastPublicStatus
<1>0. ASSUME DeleteMetadata PROVE PublicationMatchesHistory'
  BY <1>0 DEF DeleteMetadata, NoHistory, NoStatus
<1>1. CASE CreateAny
  BY <1>1 DEF CreateAny, Create, InsertRow, SetStatus, NoHistory, NoStatus,
              PublicStatuses
<1>2. CASE ImportAny
  BY <1>2 DEF ImportAny, Import, InsertRow, NoHistory, NoStatus
<1>3. CASE SaveAny
  <2>1. template' = template /\ public' = (public /\ ~template)
    BY <1>3 DEF SaveAny, SaveEdit, SetTemplate, TemplateChoices
  <2>2. history'.lastPublic = history.lastPublic
    BY <1>3 DEF SaveAny, SaveEdit, OnEdit, SetStatus, PublicStatuses
  <2>3. QED
    BY <1>3, <2>1, <2>2 DEF SaveAny, SaveEdit, TypeOK
<1>4. CASE ForgetAny
  BY <1>4 DEF ForgetAny, ForgetEdit, SetTemplate, TemplateChoices, TypeOK
<1>5. CASE CloseAny
  <2>1. CASE DeleteMetadata
    BY <1>0, <2>1
  <2>2. CASE ~DeleteMetadata
    <3>1. PICK u \in Users : CloseEditor(u, template)
      BY <1>5 DEF CloseAny, TemplateChoices
    <3>2. SetTemplate(template) /\ history' = history /\ byHand' = byHand
      BY <2>2, <3>1 DEF CloseEditor
    <3>3. QED
      BY <3>2 DEF TypeOK, SetTemplate
  <2>3. QED
    BY <2>1, <2>2
<1>6. CASE CancelAny
  <2>1. CASE DeleteMetadata
    BY <1>0, <2>1
  <2>2. CASE ~DeleteMetadata
    <3>1. ~CancelDeletes(history) /\ history' = CancelledHistory(history)
      BY <1>6, <2>2 DEF CancelAny, CancelEditSession
    <3>2. history'.lastPublic = history.lastPublic
      BY <3>1, CancelledStatus DEF SetStatus, TypeOK, History
    <3>3. UNCHANGED << template, public, byHand >>
      BY <1>6, <2>2 DEF CancelAny, CancelEditSession
    <3>4. QED
      BY <3>2, <3>3
  <2>3. QED
    BY <2>1, <2>2
<1>7. CASE StatusChangeAny
  <2>1. PICK u \in Users, s \in Requested : StatusChange(u, s)
    BY <1>7 DEF StatusChangeAny
  <2>2. CASE Approve
    BY <2>2 DEF Approve, SetStatus, PublicStatuses, TypeOK, History
  <2>3. CASE /\ s \in RejectionStatuses
             /\ LastBeforeCurrentStatus(history) # NoStatus
             /\ history' = SetStatus(history, LastBeforeCurrentStatus(history))
             /\ UNCHANGED << row, copy, public, editGroups, byHand >>
    <3>1. history'.lastPublic = history.lastPublic
      BY <2>1, <2>3, RejectionKeepsPublic
         DEF StatusChange, LastBeforeCurrentStatus, HistoryPublic
    <3>2. QED
      BY <2>3, <3>1 DEF row
  <2>4. CASE DeleteMetadata
    BY <1>0, <2>4
  <2>5. CASE /\ s # "APPROVED"
             /\ history' = SetStatus(history, s)
             /\ public' = (public /\ s # "RETIRED")
             /\ byHand' = (byHand /\ s # "RETIRED")
             /\ UNCHANGED << row, copy, editGroups >>
    BY <2>5 DEF SetStatus, PublicStatuses, TypeOK, History, row
  <2>6. QED
    BY <2>1, <2>2, <2>3, <2>4, <2>5 DEF StatusChange
<1>8. CASE DeleteAny
  BY <1>0, <1>8 DEF DeleteAny, Delete
<1>9. CASE UNCHANGED << template, history, public, byHand >>
  BY <1>9
<1>10. CASE \/ \E u, target \in Users, p \in Privileges : NewOwner(u, target, p)
            \/ \E u \in Users, p \in Privileges : SetPrivileges(u, p)
  <2>1. /\ UNCHANGED << template, history >>
        /\ byHand' = (byHand \/ public' # public)
    BY <1>10 DEF NewOwner, SetPrivileges
  <2>2. ~byHand' => ~byHand /\ public' = public
    BY <2>1
  <2>3. QED
    BY <2>1, <2>2
<1>11. QED
  BY <1>1, <1>2, <1>3, <1>4, <1>5, <1>6, <1>7, <1>8, <1>9, <1>10
     DEF Next, vars, OpenEditor, GrabLock, NewOwner, SetPrivileges, ProcessRecord

\* Until its privileges are changed by hand, group All sees a record exactly
\* when its newest public status is APPROVED, if no record becomes a template
\* or stops being one, and every user has one of the three profiles that the
\* status tables name.
THEOREM PublicationFollowsHistory ==
  ASSUME OnlyNamedProfiles, ~TogglesTemplate
  PROVE  Spec => []PublicationMatchesHistory
<1>1. Init => PublicationMatchesHistory
  BY DEF Init, PublicationMatchesHistory, LastPublicStatus, NoHistory, NoStatus
<1>2. TypeOK /\ HistoryPublic /\ PublicationMatchesHistory /\ [Next]_vars
        => PublicationMatchesHistory'
  BY NextPublication
<1>3. QED
  BY <1>1, <1>2, TypeCorrect, PublicHistory, PTL DEF Spec
--------------------------------------------------------------------------------
(***************************************************************************)
(* The review of the content that is published, and what the steps of the  *)
(* workflow may never do.                                                  *)
(***************************************************************************)

\* A node of type "agiv" whose clients work through the editor's forms: no
\* minor edits, no template toggling, no XSL processing of published rows.
ReviewedNode ==
  /\ Agiv
  /\ OnlyNamedProfiles
  /\ OnlyOfferedStatuses
  /\ MinorEdits = FALSE
  /\ ~TogglesTemplate
  /\ ~Processing

--------------------------------------------------------------------------------
(***************************************************************************)
(* Two more entries of the decision tables.                                *)
(***************************************************************************)

\* On an agiv node a record is retired only after that was requested.
LEMMA RetiredOnRequest ==
  ASSUME Agiv, OnlyNamedProfiles, TypeOK, NEW u \in Users,
         StatusChangeAllowed(u, "RETIRED")
  PROVE  CurrentStatus(history) = "RETIRED_FOR_AGIV"
<1>1. CurrentStatus(history) \in Status
  BY DEF CurrentStatus, TypeOK, History, Status
<1>2. CASE Profile[u] = "Administrator"
  <2>1. CurrentStatus(history) \notin RefusedToAdministrator("RETIRED", Agiv)
    BY <1>2 DEF StatusChangeAllowed, StatusChangeAllowedByUser
  <2>2. QED
    BY <1>1, <2>1 DEF RefusedToAdministrator
<1>3. CASE Profile[u] = "Reviewer"
  <2>1. CurrentStatus(history) \notin RefusedToReviewer("RETIRED", Agiv, IsWorkspace)
    BY <1>3 DEF StatusChangeAllowed, StatusChangeAllowedByUser
  <2>2. QED
    BY <1>1, <2>1 DEF RefusedToReviewer
<1>4. CASE Profile[u] = "Editor"
  <2>1. CurrentStatus(history) \notin RefusedToEditor("RETIRED", IsOwner(u))
    BY <1>4 DEF StatusChangeAllowed, StatusChangeAllowedByUser
  <2>2. QED
    BY <1>1, <2>1 DEF RefusedToEditor
<1>5. QED
  BY <1>2, <1>3, <1>4, ProfileAssumption DEF OnlyNamedProfiles, Profiles

\* The retirement of a record in an edit session is requested from APPROVED.
LEMMA RetirementRequest ==
  ASSUME OnlyNamedProfiles, TypeOK, IsWorkspace, NEW u \in Users,
         StatusChangeAllowed(u, "RETIRED_FOR_AGIV")
  PROVE  CurrentStatus(history) = "APPROVED"
<1>1. CurrentStatus(history) \in Status
  BY DEF CurrentStatus, TypeOK, History, Status
<1> DEFINE s == "RETIRED_FOR_AGIV"
<1>2. CASE Profile[u] = "Administrator"
  <2>1. CurrentStatus(history) \notin RefusedToAdministrator(s, Agiv)
    BY <1>2 DEF StatusChangeAllowed, StatusChangeAllowedByUser
  <2>2. QED
    BY <1>1, <2>1 DEF RefusedToAdministrator
<1>3. CASE Profile[u] = "Reviewer"
  <2>1. CurrentStatus(history) \notin RefusedToReviewer(s, Agiv, IsWorkspace)
    BY <1>3 DEF StatusChangeAllowed, StatusChangeAllowedByUser
  <2>2. QED
    BY <1>1, <2>1 DEF RefusedToReviewer
<1>4. CASE Profile[u] = "Editor"
  <2>1. CurrentStatus(history) \notin RefusedToEditor(s, IsOwner(u))
    BY <1>4 DEF StatusChangeAllowed, StatusChangeAllowedByUser
  <2>2. QED
    BY <1>1, <2>1 DEF RefusedToEditor
<1>5. QED
  BY <1>2, <1>3, <1>4, ProfileAssumption DEF OnlyNamedProfiles, Profiles

--------------------------------------------------------------------------------
(***************************************************************************)
(* The workspace copies that the validation gate does not look at.         *)
(***************************************************************************)

\* A copy that holds nothing new stays out of the gate's sight by any status.
LEMMA PristineByData ==
  ASSUME copy' # None => copy'.data = data'
  PROVE  UnreviewedCopyPristine'
BY DEF UnreviewedCopyPristine

\* A workspace copy is changed under a status that the gate validates.
LEMMA StatusChangePristine ==
  ASSUME ReviewedNode, TypeOK, HistoryCreation, UnreviewedCopyPristine,
         NEW u \in Users, NEW s \in Requested, StatusChange(u, s)
  PROVE  UnreviewedCopyPristine'
<1>1. s \in Status \ {"UNKNOWN", "JUSTCREATED"}
  BY RequestedAssumption DEF ReviewedNode, OnlyOfferedStatuses
<1>2. StatusChangeAllowed(u, s)
  BY DEF StatusChange
<1>3. CASE Approve \/ DeleteMetadata
  BY <1>3, PristineByData DEF Approve, DeleteMetadata
<1>4. CASE /\ s \in RejectionStatuses
           /\ LastBeforeCurrentStatus(history) # NoStatus
           /\ history' = SetStatus(history, LastBeforeCurrentStatus(history))
           /\ UNCHANGED << row, copy, public, editGroups, byHand >>
  <2>1. history.current \in Requests
    BY <1>2, <1>4, RejectionAnswersRequest DEF ReviewedNode
  <2>2. /\ history'.current = history.previous
        /\ history'.previous = history.current
        /\ history.previous \in Status
        /\ history.previous \notin Requests
    BY <1>4, <2>1 DEF SetStatus, LastBeforeCurrentStatus, HistoryCreation,
                      CreationInv, TypeOK, History
  <2>3. /\ CurrentStatus(history) = history.current
        /\ CurrentStatus(history') = history.previous
    BY <2>1, <2>2 DEF CurrentStatus, Requests, NoStatus, Status
  <2>4. CASE ValidatesWorkspace(history.previous)
    BY <2>2, <2>3, <2>4 DEF UnreviewedCopyPristine, Requests
  <2>5. CASE ~ValidatesWorkspace(history.previous) /\ copy # None
    <3>1. copy.data = data
      BY <2>1, <2>3, <2>5 DEF UnreviewedCopyPristine, Requests
    <3>2. QED
      BY <1>4, <3>1, PristineByData DEF row
  <2>6. CASE copy = None
    BY <1>4, <2>6, PristineByData
  <2>7. QED
    BY <2>4, <2>5, <2>6
<1>5. CASE /\ s \notin RejectionStatuses \cup {"APPROVED"}
           /\ history' = SetStatus(history, s)
           /\ UNCHANGED << row, copy, editGroups >>
  <2>1. /\ CurrentStatus(history') = s
        /\ history'.previous = history.current
    BY <1>1, <1>5 DEF SetStatus, CurrentStatus, Status, NoStatus
  <2>2. CASE copy = None
    BY <1>5, <2>2, PristineByData
  <2>3. CASE copy # None /\ s = "RETIRED"
    <3>1. CurrentStatus(history) = "RETIRED_FOR_AGIV"
      BY <1>2, <2>3, RetiredOnRequest DEF ReviewedNode
    <3>2. copy.data = data
      BY <2>3, <3>1 DEF UnreviewedCopyPristine
    <3>3. QED
      BY <1>5, <3>2, PristineByData DEF row
  <2>4. CASE copy # None /\ s = "RETIRED_FOR_AGIV"
    <3>1. CurrentStatus(history) = "APPROVED"
      BY <1>2, <2>4, RetirementRequest DEF ReviewedNode
    <3>2. copy.data = data
      BY <2>4, <3>1 DEF UnreviewedCopyPristine, ValidatesWorkspace
    <3>3. QED
      BY <1>5, <3>2, PristineByData DEF row
  <2>5. CASE copy # None /\ s = "REMOVED_FOR_AGIV"
    <3>1. CASE ValidatesWorkspace(history.current)
      BY <2>1, <2>5, <3>1 DEF UnreviewedCopyPristine, ValidatesWorkspace
    <3>2. CASE ~ValidatesWorkspace(history.current)
      <4>1. CurrentStatus(history) = history.current
        BY <3>2 DEF ValidatesWorkspace, CurrentStatus, NoStatus
      <4>2. copy.data = data
        BY <2>5, <3>2, <4>1 DEF UnreviewedCopyPristine
      <4>3. QED
        BY <1>5, <4>2, PristineByData DEF row
    <3>3. QED
      BY <3>1, <3>2
  <2>6. CASE s \notin {"RETIRED", "RETIRED_FOR_AGIV", "REMOVED_FOR_AGIV"}
    BY <1>1, <1>5, <2>1, <2>6 DEF UnreviewedCopyPristine, ValidatesWorkspace
  <2>7. QED
    BY <2>2, <2>3, <2>4, <2>5, <2>6
<1>6. QED
  BY <1>3, <1>4, <1>5 DEF StatusChange

\* An approval publishes content that the gate has seen, or that was public.
LEMMA ApprovedContent ==
  ASSUME TypeOK, UnreviewedCopyPristine, NEW u \in Users,
         StatusChangeAllowed(u, "APPROVED"), Approve
  PROVE  template \/ data' \in Valid
<1>1. template \/ ContentToValidate \in Valid
  BY DEF StatusChangeAllowed, ValidatedStatuses
<1>2. CASE ~IsWorkspace
  BY <1>1, <1>2 DEF ContentToValidate, Approve
<1>3. CASE IsWorkspace /\ ValidatesWorkspace(CurrentStatus(history))
  BY <1>1, <1>3 DEF ContentToValidate, Approve
<1>4. CASE IsWorkspace /\ ~ValidatesWorkspace(CurrentStatus(history))
  <2>1. copy.data = data
    BY <1>4 DEF UnreviewedCopyPristine
  <2>2. QED
    BY <1>1, <1>4, <2>1 DEF ContentToValidate, Approve
<1>5. QED
  BY <1>2, <1>3, <1>4

ContentInv == UnreviewedCopyPristine /\ PublicContentValid

\* What the workflow has published, or will show when the operations of group
\* All were taken away by hand.
Reviewed == LastPublicStatus(history) = "APPROVED" \/ (public /\ ~byHand)

\* A step that reviews nothing new leaves the published row as it is.
LEMMA NothingPublished ==
  ASSUME PublicContentValid, UNCHANGED data, template => template',
         Reviewed' => Reviewed \/ template'
  PROVE  PublicContentValid'
BY DEF PublicContentValid, Reviewed

\* Only a granted request makes APPROVED the newest public status.
LEMMA NewApproval ==
  ASSUME OnlyNamedProfiles, TypeOK, HistoryPublic, [Next]_vars,
         LastPublicStatus(history') = "APPROVED",
         LastPublicStatus(history) # "APPROVED"
  PROVE  StatusChangeAny
<1>1. ASSUME NEW s \in Status, history' = SetStatus(history, s)
      PROVE  s = "APPROVED"
  BY <1>1 DEF LastPublicStatus, SetStatus, PublicStatuses
<1>2. history' \notin {NoHistory, SetStatus(NoHistory, "JUSTCREATED")}
  BY DEF LastPublicStatus, SetStatus, NoHistory, NoStatus, PublicStatuses
<1>3. ~(history.lastPublic \in PublicStatuses
          /\ history' = SetStatus(history, history.lastPublic))
  BY <1>1, StatusNames DEF LastPublicStatus
<1>4. history' # SetStatus(history, "DRAFT")
  BY <1>1, StatusNames
<1>5. ASSUME NEW u \in Users, NEW s \in RejectionStatuses,
             StatusChangeAllowed(u, s), history.previous # NoStatus
      PROVE  history' # SetStatus(history, history.previous)
  BY <1>5, RejectionKeepsPublic DEF HistoryPublic
<1>6. QED
  BY <1>1, <1>2, <1>3, <1>4, <1>5, EveryHistoryStep, RequestedAssumption
     DEF HistoryStep, StatusChangeAny

LEMMA NextContent ==
  ASSUME ReviewedNode, TypeOK, HistoryPublic, HistoryCreation, ContentInv,
         [Next]_vars
  PROVE  ContentInv'
<1> USE PristineByData DEF ContentInv
<1>0. ASSUME DeleteMetadata PROVE ContentInv'
  BY <1>0 DEF DeleteMetadata, PublicContentValid, LastPublicStatus, NoHistory,
              NoStatus
<1>1. CASE CreateAny
  BY <1>1 DEF CreateAny, Create, InsertRow, PublicContentValid,
              LastPublicStatus, SetStatus, NoHistory, NoStatus, PublicStatuses
<1>2. CASE ImportAny
  BY <1>2 DEF ImportAny, Import, InsertRow, PublicContentValid,
              LastPublicStatus, NoHistory, NoStatus
<1>3. CASE StatusChangeAny
  <2>1. PICK u \in Users, s \in Requested : StatusChange(u, s)
    BY <1>3 DEF StatusChangeAny
  <2>2. UnreviewedCopyPristine'
    BY <2>1, StatusChangePristine
  <2>3. CASE s = "APPROVED" /\ Approve
    BY <2>1, <2>2, <2>3, ApprovedContent
       DEF StatusChange, Approve, PublicContentValid
  <2>4. CASE DeleteMetadata
    BY <1>0, <2>4
  <2>5. CASE /\ s \in RejectionStatuses
             /\ LastBeforeCurrentStatus(history) # NoStatus
             /\ history' = SetStatus(history, LastBeforeCurrentStatus(history))
             /\ UNCHANGED << row, copy, public, editGroups, byHand >>
    <3>1. LastPublicStatus(history') = LastPublicStatus(history)
      BY <2>1, <2>5, RejectionKeepsPublic
         DEF StatusChange, LastBeforeCurrentStatus, HistoryPublic, ReviewedNode
    <3>2. PublicContentValid'
      BY <2>5, <3>1, NothingPublished DEF row, Reviewed
    <3>3. QED
      BY <2>2, <3>2
  <2>6. CASE /\ s # "APPROVED"
             /\ history' = SetStatus(history, s)
             /\ public' = (public /\ s # "RETIRED")
             /\ byHand' = (byHand /\ s # "RETIRED")
             /\ UNCHANGED << row, copy, editGroups >>
    <3>1. Reviewed' => Reviewed
      BY <2>6 DEF Reviewed, LastPublicStatus, SetStatus, TypeOK, History,
                  PublicStatuses
    <3>2. PublicContentValid'
      BY <2>6, <3>1, NothingPublished DEF row
    <3>3. QED
      BY <2>2, <3>2
  <2>7. QED
    BY <2>1, <2>3, <2>4, <2>5, <2>6 DEF StatusChange
<1>4. ASSUME ~StatusChangeAny,
             UNCHANGED << data, template >>, public' /\ ~byHand' => public /\ ~byHand
      PROVE  PublicContentValid'
  BY <1>4, NewApproval, NothingPublished DEF Reviewed, ReviewedNode
<1>5. ASSUME ~StatusChangeAny, NEW u \in Users, OpenEditor(u)
      PROVE  ContentInv'
  BY <1>4, <1>5 DEF OpenEditor
<1>6. CASE SaveAny /\ ~StatusChangeAny
  <2>1. PICK u \in Users, d \in Content, written \in BOOLEAN :
               SaveEdit(u, template, FALSE, d, written)
    BY <1>6 DEF SaveAny, TemplateChoices, ReviewedNode
  <2>2. PublicContentValid'
    BY <1>4, <1>6, <2>1 DEF SaveEdit, SetTemplate, TypeOK
  <2>3. CurrentStatus(history') = "DRAFT"
    BY <2>1 DEF SaveEdit, OnEdit, SetStatus, CurrentStatus, NoStatus
  <2>4. UnreviewedCopyPristine'
    BY <2>3 DEF UnreviewedCopyPristine, ValidatesWorkspace
  <2>5. QED
    BY <2>2, <2>4
<1>7. CASE ForgetAny /\ ~StatusChangeAny
  <2>1. SetTemplate(template) /\ UNCHANGED << copy, data, history, byHand >>
    BY <1>7 DEF ForgetAny, ForgetEdit, TemplateChoices, ReviewedNode
  <2>2. PublicContentValid'
    BY <1>4, <1>7, <2>1 DEF SetTemplate, TypeOK
  <2>3. UnreviewedCopyPristine'
    BY <2>1 DEF UnreviewedCopyPristine
  <2>4. QED
    BY <2>2, <2>3
<1>8. CASE CloseAny /\ ~StatusChangeAny
  <2>1. PICK u \in Users : CloseEditor(u, template)
    BY <1>8 DEF CloseAny, TemplateChoices, ReviewedNode
  <2>2. CASE DeleteMetadata
    BY <1>0, <2>2
  <2>3. CASE SetTemplate(template) /\ copy' = None /\ UNCHANGED << data, byHand >>
    BY <1>4, <1>8, <2>3 DEF SetTemplate, TypeOK
  <2>4. QED
    BY <2>1, <2>2, <2>3 DEF CloseEditor
<1>9. CASE CancelAny /\ ~StatusChangeAny
  <2>1. \/ DeleteMetadata
        \/ copy' = None /\ UNCHANGED << data, template, public, byHand >>
    BY <1>9 DEF CancelAny, CancelEditSession
  <2>2. QED
    BY <1>0, <1>4, <1>9, <2>1
<1>10. ASSUME ~StatusChangeAny, NEW u \in Users, NEW target \in Users,
              GrabLock(u, target)
       PROVE  ContentInv'
  <2>1. /\ UNCHANGED << data, template, public, history, byHand >>
        /\ copy' # None => copy # None
        /\ copy # None => copy'.data = copy.data
    BY <1>10 DEF GrabLock, CopyHeldBy, TypeOK, WorkspaceRow
  <2>2. QED
    BY <1>4, <1>10, <2>1 DEF UnreviewedCopyPristine
<1>11. CASE DeleteAny
  BY <1>0, <1>11 DEF DeleteAny, Delete
<1>12. ASSUME ~StatusChangeAny, NEW u \in Users, NEW target \in Users,
              NEW p \in Privileges, NewOwner(u, target, p) \/ SetPrivileges(u, p)
       PROVE  ContentInv'
  <2>1. /\ UNCHANGED << data, template, copy, history >>
        /\ byHand' = (byHand \/ public' # public)
    BY <1>12 DEF NewOwner, SetPrivileges
  <2>2. public' /\ ~byHand' => public /\ ~byHand
    BY <2>1
  <2>3. QED
    BY <1>4, <1>12, <2>1, <2>2 DEF UnreviewedCopyPristine
<1>13. CASE UNCHANGED vars
  BY <1>13 DEF vars, UnreviewedCopyPristine, PublicContentValid
<1>14. QED
  BY <1>1, <1>2, <1>3, <1>5, <1>6, <1>7, <1>8, <1>9, <1>10, <1>11, <1>12, <1>13
     DEF Next, ProcessRecord, ReviewedNode

\* On a reviewed node what was approved has passed the validation, and so has
\* what group All sees by an approval, although the gate looks at the published
\* row in five statuses and the approval then publishes the workspace copy.
\* What an import or metadata.admin shows to group All is excepted.
THEOREM PublishedContentReviewed ==
  ASSUME ReviewedNode
  PROVE  Spec => [](PublicContentValid /\ UnreviewedCopyPristine)
<1>1. Init => ContentInv
  BY DEF Init, ContentInv, UnreviewedCopyPristine, PublicContentValid,
         LastPublicStatus, NoHistory, NoStatus
<1>2. TypeOK /\ HistoryPublic /\ HistoryCreation /\ ContentInv /\ [Next]_vars => ContentInv'
  BY NextContent
<1>3. Spec => []HistoryCreation
  BY CreationHistory DEF ReviewedNode
<1>4. ContentInv => PublicContentValid /\ UnreviewedCopyPristine
  BY DEF ContentInv
<1>5. QED
  BY <1>1, <1>2, <1>3, <1>4, TypeCorrect, PublicHistory, PTL DEF Spec

--------------------------------------------------------------------------------
(***************************************************************************)
(* What a step may never do.                                               *)
(***************************************************************************)

LEMMA StaysApproved ==
  ASSUME NEW h \in History, NEW s, EverApproved(h)
  PROVE  EverApproved(SetStatus(h, s))
BY DEF EverApproved, SetStatus, History

LEMMA EditingStep ==
  ASSUME TypeOK, HistoryPublic, HistoryCreation, EverApproved(history), EditingAny
  PROVE  EverApproved(history')
<1> USE StaysApproved DEF TypeOK
<1>1. CASE SaveAny
  BY <1>1 DEF SaveAny, SaveEdit, OnEdit
<1>2. CASE ForgetAny
  BY <1>2 DEF ForgetAny, ForgetEdit
<1>3. CASE CloseAny
  <2>1. CurrentStatus(history) # "JUSTCREATED"
    BY DEF HistoryCreation, CreationInv, CurrentStatus, EverApproved
  <2>2. QED
    BY <1>3, <2>1 DEF CloseAny, CloseEditor
<1>4. CASE CancelAny
  <2>1. ~CancelDeletes(history)
    BY DEF CancelDeletes, LastPublicStatus, HistoryPublic, PublicInv,
           EverApproved
  <2>2. history' = CancelledHistory(history)
    BY <1>4, <2>1 DEF CancelAny, CancelEditSession
  <2>3. QED
    BY <2>1, <2>2, CancelledStatus
<1>5. QED
  BY <1>1, <1>2, <1>3, <1>4 DEF EditingAny

\* Closing or cancelling an editor deletes no record that was ever approved.
THEOREM ApprovedRecordsSurvive ==
  ASSUME OnlyNamedProfiles, OnlyOfferedStatuses
  PROVE  Spec => ApprovedSurvivesEditing
<1>1. TypeOK /\ HistoryPublic /\ HistoryCreation /\ [Next]_vars
        => [EverApproved(history) /\ EditingAny => EverApproved(history')]_vars
  BY EditingStep
<1>2. QED
  BY <1>1, TypeCorrect, PublicHistory, CreationHistory, PTL
     DEF Spec, ApprovedSurvivesEditing

\* The status becomes APPROVED by a request that was granted, or returns to it
\* when an edit is cancelled.
LEMMA ApprovalStep ==
  ASSUME TypeOK, HistoryPublic, [Next]_vars,
         CurrentStatus(history') = "APPROVED",
         CurrentStatus(history) # "APPROVED"
  PROVE  \/ StatusChangeAny
         \/ EverApproved(history) /\ UNCHANGED << data, public >>
<1>0. ASSUME history' = NoHistory PROVE FALSE
  BY <1>0 DEF NoHistory, CurrentStatus, NoStatus
<1>1. CASE CreateAny
  BY <1>1 DEF CreateAny, Create, InsertRow, SetStatus, CurrentStatus, NoStatus
<1>2. CASE ImportAny
  BY <1>0, <1>2 DEF ImportAny, Import, InsertRow
<1>3. CASE SaveAny
  BY <1>3 DEF SaveAny, SaveEdit, OnEdit, SetStatus, CurrentStatus, NoStatus
<1>4. CASE CloseAny
  BY <1>0, <1>4 DEF CloseAny, CloseEditor, DeleteMetadata
<1>5. CASE CancelAny
  <2>1. ~CancelDeletes(history) /\ history' = CancelledHistory(history)
    BY <1>0, <1>5 DEF CancelAny, CancelEditSession, DeleteMetadata
  <2>2. UNCHANGED << data, public >>
    BY <1>0, <1>5, <2>1 DEF CancelAny, CancelEditSession, DeleteMetadata
  <2>3. history.lastPublic = "APPROVED"
    BY <2>1, CancelledStatus DEF SetStatus, CurrentStatus, NoStatus, TypeOK
  <2>4. EverApproved(history)
    BY <2>3 DEF HistoryPublic, PublicInv, EverApproved
  <2>5. QED
    BY <2>2, <2>4
<1>6. CASE StatusChangeAny
  BY <1>6
<1>7. CASE DeleteAny
  BY <1>0, <1>7 DEF DeleteAny, Delete, DeleteMetadata
<1>8. CASE history' = history
  BY <1>8
<1>9. QED
  BY <1>1, <1>2, <1>3, <1>4, <1>5, <1>6, <1>7, <1>8
     DEF Next, vars, OpenEditor, ForgetAny, ForgetEdit, GrabLock, NewOwner,
         SetPrivileges, ProcessRecord

\* The tables grant a request that ends in APPROVED to administrators only.
LEMMA ApprovalGranted ==
  ASSUME Agiv, TypeOK, NEW u \in Users, NEW s \in Requested, StatusChange(u, s),
         CurrentStatus(history') = "APPROVED"
  PROVE  Profile[u] \in {"Administrator", "UserAdmin"}
<1>1. StatusChangeAllowed(u, s)
  BY DEF StatusChange
<1>2. s \in RejectionStatuses \cup {"APPROVED"}
  BY DEF StatusChange, DeleteMetadata, NoHistory, SetStatus, CurrentStatus,
         NoStatus
<1>3. QED
  BY <1>1, <1>2, OnlyAdministratorsApprove

\* On an agiv node reviewers and editors approve nothing: they bring a record
\* back to APPROVED only by cancelling an edit, which publishes nothing.
THEOREM ApprovalIsAgivs == Spec => AgivDecidesApproval
<1>1. TypeOK /\ HistoryPublic /\ [Next]_vars
        => [Agiv /\ CurrentStatus(history') = "APPROVED"
                 /\ CurrentStatus(history) # "APPROVED"
              => /\ \A u \in Users, s \in Requested :
                      StatusChange(u, s)
                        => Profile[u] \in {"Administrator", "UserAdmin"}
                 /\ \/ StatusChangeAny
                    \/ EverApproved(history) /\ UNCHANGED << data, public >>]_vars
  BY ApprovalStep, ApprovalGranted
<1>2. QED
  BY <1>1, TypeCorrect, PublicHistory, PTL DEF Spec, AgivDecidesApproval

LEMMA PublishingStep ==
  ASSUME ~Processing, TypeOK, [Next]_vars, exists, exists', data' # data
  PROVE  \/ history' = SetStatus(history, "APPROVED") /\ data' = copy.data
         \/ ImportAny
<1>1. CASE StatusChangeAny
  BY <1>1 DEF StatusChangeAny, StatusChange, Approve, DeleteMetadata, row
<1>2. CASE CloseAny \/ CancelAny
  BY <1>2 DEF CloseAny, CloseEditor, CancelAny, CancelEditSession,
              DeleteMetadata
<1>3. QED
  BY <1>1, <1>2
     DEF Next, vars, CreateAny, Create, OpenEditor, SaveAny, SaveEdit,
         ForgetAny, ForgetEdit, GrabLock, DeleteAny, Delete, DeleteMetadata,
         NewOwner, SetPrivileges, ProcessRecord

\* Where metadata.processing is not used, what happens in an editor reaches
\* the published row by an approval only.
THEOREM PublishedByApproval ==
  ASSUME ~Processing
  PROVE  Spec => PublishedOnlyByApproval
<1>1. TypeOK /\ [Next]_vars
        => [exists /\ exists' /\ data' # data
              => \/ history' = SetStatus(history, "APPROVED") /\ data' = copy.data
                 \/ ImportAny]_vars
  BY PublishingStep
<1>2. QED
  BY <1>1, TypeCorrect, PTL DEF Spec, PublishedOnlyByApproval
================================================================================
