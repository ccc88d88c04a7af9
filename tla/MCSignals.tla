------------------------------ MODULE MCSignals ------------------------------
(* Two chunks of metrics; runs modulo 3. *)
EXTENDS Signals
=============================================================================
