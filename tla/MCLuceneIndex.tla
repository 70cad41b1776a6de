----------------------------- MODULE MCLuceneIndex -----------------------------
(***************************************************************************)
(* Instances of LuceneIndex for TLC: a published row and a workspace copy, *)
(* and three threads of requests with the worker of the rebuildings.  Two  *)
(* threads change rows, two rebuild the index and one optimises it, so     *)
(* that any three of these, but for an optimisation between two            *)
(* rebuildings, are at work together.                                      *)
(***************************************************************************)
EXTENDS LuceneIndex

CONSTANTS m, w, q1, q2, admin, worker

OneRow == {m}
OneCopy == {w}
Editors == {q1, q2}
OneWorker == {worker}
TwoRebuilders == {q2, admin}
OneOptimiser == {admin}
================================================================================
