--------------------------- MODULE MCStatusWorkflow ---------------------------
(***************************************************************************)
(* Instances of StatusWorkflow for TLC: one user for each profile that the *)
(* tables name, one group that they share, one valid and one invalid       *)
(* content.                                                                *)
(***************************************************************************)
EXTENDS StatusWorkflow

CONSTANTS admin, reviewer, editor, group, good, bad

MCUsers == {admin, reviewer, editor}

ProfileOf(u) == CASE u = admin -> "Administrator"
                  [] u = reviewer -> "Reviewer"
                  [] u = editor -> "Editor"

MCProfile == [u \in Users |-> ProfileOf(u)]
MCMemberOf == [u \in Users |-> {group}]

\* metadata-status.xsl offers every status but UNKNOWN and JUSTCREATED.
OfferedStatuses == Status \ {"UNKNOWN", "JUSTCREATED"}
================================================================================
