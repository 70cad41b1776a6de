---------------------------- MODULE MCSerialSession ----------------------------
(***************************************************************************)
(* The instance of SerialSession for TLC: a reviewer and an editor; the    *)
(* editor's edits alone make a document invalid.                           *)
(***************************************************************************)
EXTENDS SerialSession

CONSTANTS reviewer, editor

MCUsers == {reviewer, editor}
MCReviewers == {reviewer}
MCValid == SUBSET Users \ {{editor}}
================================================================================
