------------------------------ MODULE MCHarvester ------------------------------
(***************************************************************************)
(* Instances of Harvester for TLC: one harvester, one record, and one or   *)
(* two clients that run it.                                                *)
(***************************************************************************)
EXTENDS Harvester

CONSTANTS h1, c1, c2, r1

OneHarvester == {h1}
OneClient == {c1}
TwoClients == {c1, c2}
OneRecord == {r1}
================================================================================
