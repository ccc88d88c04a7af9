-------------------------- MODULE MCNodeMigration --------------------------
(* Instances of NodeMigration for TLC.                                      *)
EXTENDS NodeMigration, TLC

CONSTANTS p, q, e1, e2, e3

\* Two events for pool p, one for pool q.
MCPoolOf == e1 :> p @@ e2 :> p @@ e3 :> q
TwoEvents == e1 :> p @@ e2 :> p
=============================================================================
