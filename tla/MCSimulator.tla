----------------------------- MODULE MCSimulator -----------------------------
(* Two markets; an instance of the second weighs as much as two of the first. *)
(* A delay may be drawn that is below 0.                                      *)
EXTENDS Simulator

MCWeight == <<1, 2>>
MCBid == <<2, 1>>
MCDelays == {-1, 2}
=============================================================================
