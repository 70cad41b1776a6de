------------------------------- MODULE MCAligner -------------------------------
(***************************************************************************)
(* Instances of Aligner for TLC: two harvesters, whose catalogues may have *)
(* the same records.                                                       *)
(***************************************************************************)
EXTENDS Aligner, TLC

CONSTANTS h1, h2, u1, u2

TwoHarvesters == {h1, h2}
TwoUuids == {u1, u2}
AlignerSymmetry == Permutations(TwoHarvesters) \cup Permutations(TwoUuids)
================================================================================
