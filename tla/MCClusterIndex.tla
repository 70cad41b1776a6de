---------------------------- MODULE MCClusterIndex -----------------------------
(***************************************************************************)
(* Instances of ClusterIndex for TLC: two nodes.                           *)
(***************************************************************************)
EXTENDS ClusterIndex

CONSTANTS n1, n2

TwoNodes == {n1, n2}
(***************************************************************************)
(* The state up to the names of versions.  A version is made once, copied   *)
(* and compared with others of its row, so that all there is to know of a   *)
(* copy is whether it is of the committed version, of the uncommitted one,  *)
(* of an older one, or of none.                                             *)
(***************************************************************************)
Age(r, v) ==
  IF v = 0 THEN "none"
  ELSE IF v = row[r] THEN "committed"
  ELSE IF v = value[r] THEN "uncommitted"
  ELSE "old"

(***************************************************************************)
(* What a node knows of a row: the version that its index has when it has  *)
(* stored what it has read already.  While that is doubtful no version     *)
(* matters: the next reading that removes the doubt stores another one.    *)
(***************************************************************************)
Knows(n, r) ==
  LET Read(v) == IF v = 0 /\ r = "metadata" THEN index[n][r] ELSE v
      v == IF task[n] # << >> /\ Head(task[n]).row = r
           THEN IF Head(task[n]).delete THEN 0 ELSE Read(found[n])
           ELSE IF AtStep(n, "store", r) THEN Read(seen[n]) ELSE index[n][r]
  IN  IF << n, r >> \in doubtful THEN "doubtful" ELSE Age(r, v)

\* The nodes are alike, and two of them are the set of what there is about each.
About(n) ==
  << written[n], todo[n], silent[n], topic[n], task[n], [r \in Rows |-> Knows(n, r)] >>

UpToVersions ==
  << [r \in Rows |-> << row[r] = 0, Age(r, value[r]) >>], requests,
     { About(n) : n \in Nodes } >>
================================================================================
