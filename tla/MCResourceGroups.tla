-------------------------- MODULE MCResourceGroups --------------------------
(* Instances of ResourceGroups for TLC.                                     *)
EXTENDS ResourceGroups

\* Every other instance counts twice.
MCWeight == [i \in Ids |-> IF i = 3 THEN 2 ELSE 1]
=============================================================================
