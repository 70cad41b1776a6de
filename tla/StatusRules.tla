------------------------------ MODULE StatusRules ------------------------------
(***************************************************************************)
(* The status vocabulary of a metadata record, the status history kept in  *)
(* table MetadataStatus, and the decision tables of DefaultStatusActions.  *)
(* Pure operators: the modules that hold state (StatusWorkflow,            *)
(* EditSession) are built on them.                                         *)
(***************************************************************************)

Status == { "UNKNOWN", "DRAFT", "APPROVED", "RETIRED", "SUBMITTED",
            "REJECTED", "JUSTCREATED", "SUBMITTED_FOR_AGIV",
            "APPROVED_BY_AGIV", "REJECTED_BY_AGIV", "RETIRED_FOR_AGIV",
            "REMOVED_FOR_AGIV", "REMOVED", "REJECTED_FOR_RETIRE",
            "REJECTED_FOR_REMOVE" }

Profiles == { "Administrator", "UserAdmin", "Reviewer", "Editor" }

(***************************************************************************)
(* History.  MetadataStatus holds one row per change, and the code only    *)
(* ever asks four things of the rows of a record: the newest status, the   *)
(* one before it, the newest public one, and whether one is APPROVED.      *)
(* Rows are only added, or all deleted with the record, so these four      *)
(* answers are kept instead of the rows.  NoStatus: there is no such row.  *)
(***************************************************************************)
NoStatus == "NONE"

PublicStatuses == { "APPROVED", "RETIRED" }

History == [ current      : Status \cup {NoStatus},
             previous     : Status \cup {NoStatus},
             lastPublic   : PublicStatuses \cup {NoStatus},
             everApproved : BOOLEAN ]

NoHistory == [ current      |-> NoStatus, previous     |-> NoStatus,
               lastPublic   |-> NoStatus, everApproved |-> FALSE ]

\* A row is inserted and becomes the newest one.
SetStatus(h, s) ==
  [ current      |-> s,
    previous     |-> h.current,
    lastPublic   |-> IF s \in PublicStatuses THEN s ELSE h.lastPublic,
    everApproved |-> h.everApproved \/ s = "APPROVED" ]

CurrentStatus(h) ==
  IF h.current = NoStatus THEN "UNKNOWN" ELSE h.current

LastBeforeCurrentStatus(h) == h.previous

LastPublicStatus(h) == h.lastPublic

EverApproved(h) == h.everApproved

(***************************************************************************)
(* What an edit and its cancellation do to the status.                     *)
(***************************************************************************)
OnEdit(h, minorEdit) ==
  IF ~minorEdit /\ CurrentStatus(h) # "DRAFT" THEN SetStatus(h, "DRAFT") ELSE h

\* Cancelling an edit session leaves these statuses as they are.
KeptOnCancel ==
  { "APPROVED", "RETIRED", "RETIRED_FOR_AGIV", "REJECTED_FOR_REMOVE" }

CancelKeepsStatus(h) == CurrentStatus(h) \in KeptOnCancel

\* Mutant: the cancelled record is deleted whatever its history.
CancelAlwaysDeletes(h) == ~CancelKeepsStatus(h)

\* With no public status to go back to, the cancelled record is deleted.
CancelDeletes(h) == ~CancelKeepsStatus(h) /\ LastPublicStatus(h) = NoStatus

\* Mutant: the status put back is APPROVED, not the newest public one.
CancelToApproved(h) ==
  IF CancelKeepsStatus(h) THEN h ELSE SetStatus(h, "APPROVED")

CancelledHistory(h) ==
  IF CancelKeepsStatus(h) THEN h ELSE SetStatus(h, LastPublicStatus(h))

(***************************************************************************)
(* Who may move a record from status cur to status s.  For each profile    *)
(* and each requested status, the current statuses from which the change   *)
(* is refused; agiv says whether the node is of type "agiv".               *)
(***************************************************************************)
RefusedToAdministrator(s, agiv) ==
  CASE s \in {"DRAFT", "SUBMITTED", "REJECTED"} -> Status
    [] s = "APPROVED" -> { "SUBMITTED", "REJECTED", "REJECTED_BY_AGIV",
                           "RETIRED_FOR_AGIV", "REMOVED_FOR_AGIV",
                           "REJECTED_FOR_RETIRE", "REJECTED_FOR_REMOVE" }
    [] s = "RETIRED" -> IF agiv THEN Status \ {"RETIRED_FOR_AGIV"} ELSE {}
    [] s = "SUBMITTED_FOR_AGIV" -> Status \ {"DRAFT"}
    [] s = "APPROVED_BY_AGIV" -> Status \ {"DRAFT", "SUBMITTED_FOR_AGIV"}
    [] s = "REJECTED_BY_AGIV" -> { "DRAFT", "APPROVED", "RETIRED", "SUBMITTED",
                                   "REJECTED", "APPROVED_BY_AGIV",
                                   "RETIRED_FOR_AGIV", "REMOVED_FOR_AGIV" }
    [] s = "RETIRED_FOR_AGIV" -> Status \ {"APPROVED"}
    [] s = "REMOVED_FOR_AGIV" -> { "SUBMITTED_FOR_AGIV", "APPROVED_BY_AGIV",
                                   "RETIRED_FOR_AGIV" }
    [] s = "REMOVED" -> IF agiv THEN Status \ {"REMOVED_FOR_AGIV"} ELSE {}
    [] s = "REJECTED_FOR_RETIRE" -> Status \ {"RETIRED_FOR_AGIV"}
    [] s = "REJECTED_FOR_REMOVE" -> Status \ {"REMOVED_FOR_AGIV"}
    [] OTHER -> {}

\* While AGIV decides on a record its reviewers may not touch the status.
AwaitingAgiv == { "SUBMITTED_FOR_AGIV", "APPROVED_BY_AGIV",
                  "RETIRED_FOR_AGIV", "REMOVED_FOR_AGIV" }

RefusedToReviewer(s, agiv, isWorkspace) ==
  AwaitingAgiv \cup
  CASE s = "APPROVED" -> IF agiv THEN Status ELSE {}
    [] s = "RETIRED" -> IF agiv THEN Status ELSE Status \ {"APPROVED"}
    [] s \in {"SUBMITTED", "SUBMITTED_FOR_AGIV"} -> {"APPROVED", "RETIRED"}
    [] s = "REJECTED" -> {"APPROVED", "RETIRED", "REJECTED_BY_AGIV"}
    [] s \in {"RETIRED_FOR_AGIV", "REMOVED_FOR_AGIV"} ->
         IF isWorkspace THEN Status
         ELSE IF s = "RETIRED_FOR_AGIV" THEN {"RETIRED"} ELSE {}
    [] OTHER -> Status

\* Mutant: ownership is all that an editor needs.
RefusedToNonOwner(s, isOwner) == IF isOwner THEN {} ELSE Status

\* An editor may only submit a record of his own.
RefusedToEditor(s, isOwner) ==
  IF isOwner /\ s = "SUBMITTED"
  THEN Status \ {"DRAFT", "REJECTED", "REJECTED_BY_AGIV"}
  ELSE Status

\* The tables name three profiles: a user administrator falls through them.
StatusChangeAllowedByUser(profile, cur, s, agiv, isWorkspace, isOwner, canEdit) ==
  /\ canEdit
  /\ cur \notin CASE profile = "Administrator" -> RefusedToAdministrator(s, agiv)
                  [] profile = "Reviewer" -> RefusedToReviewer(s, agiv, isWorkspace)
                  [] profile = "Editor" -> RefusedToEditor(s, isOwner)
                  [] OTHER -> {}

(***************************************************************************)
(* Validation: the requested statuses that need valid content, and whether *)
(* the content validated is that of the workspace copy.                    *)
(***************************************************************************)
ValidatedStatuses == { "SUBMITTED_FOR_AGIV", "APPROVED_BY_AGIV", "APPROVED" }

\* Mutant: the copy is validated only when it was submitted before.
ValidatesSubmitted(cur) == cur = "SUBMITTED"

ValidatesWorkspace(cur) ==
  cur \notin { "APPROVED", "RETIRED", "JUSTCREATED", "UNKNOWN" }

\* A refused retirement or removal puts back the status before the request.
RejectionStatuses == { "REJECTED_FOR_RETIRE", "REJECTED_FOR_REMOVE" }
================================================================================
