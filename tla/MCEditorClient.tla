----------------------------- MODULE MCEditorClient ----------------------------
(***************************************************************************)
(* Instances of EditorClient for TLC: two records, two values and two      *)
(* elements.                                                               *)
(***************************************************************************)
EXTENDS EditorClient

CONSTANTS r1, r2, v1, v2, e1, e2

TwoRecords == {r1, r2}
TwoValues == {v1, v2}
TwoChanges == {e1, e2}
================================================================================
