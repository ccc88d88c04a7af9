--------------------------- MODULE MCPoolManager ---------------------------
(* Instances of PoolManager for TLC.                                        *)
EXTENDS PoolManager, TLC

CONSTANTS a, b, c

\* Group 1 is an ASG or a spot fleet, group 2 a spot fleet; a capacity of 1 is
\* two units.
MCGroupOf == [n \in Nodes |-> IF n \in {a, b} THEN 1 ELSE 2]
MCWeight == [n \in Nodes |-> IF n = c THEN 4 ELSE 2]
MCRank == [n \in Nodes |-> IF n = c THEN 1 ELSE 0]
MCGroupMin == 1 :> 0 @@ 2 :> 0
MCGroupMax == 1 :> 4 @@ 2 :> 4
=============================================================================
