----------------------------- MODULE MCEditSession -----------------------------
(***************************************************************************)
(* Instances of EditSession for TLC: a reviewer and an editor; a document  *)
(* with an edit of the reviewer is valid, and so is a document unchanged.  *)
(***************************************************************************)
EXTENDS EditSession

CONSTANTS reviewer, editor

MCUsers == {reviewer, editor}
MCReviewers == {reviewer}

\* The editor's edits alone make a document invalid.
MCValid == SUBSET Users \ {{editor}}
================================================================================
