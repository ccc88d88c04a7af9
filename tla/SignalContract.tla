---------------------------- MODULE SignalContract ----------------------------
(***************************************************************************)
(* What Autoscaler.run relies on when it evaluates a signal: every         *)
(* evaluation comes to an end, and its result is the answer to the metrics *)
(* of this very run, or a failure; an answer to an earlier run is never    *)
(* taken for it.  Runs are numbered modulo Runs.                           *)
(***************************************************************************)
EXTENDS Naturals

CONSTANT Runs

VARIABLES asked, run, result

NoResult == Runs     \* a failure, or nothing yet

Init == asked = FALSE /\ run = 0 /\ result = NoResult

Ask == /\ ~asked /\ asked' = TRUE
       /\ run' = (run + 1) % Runs /\ result' = NoResult

Reply == /\ asked /\ asked' = FALSE
         /\ result' \in {run, NoResult} /\ UNCHANGED run

Next == Ask \/ Reply

Spec == Init /\ [][Next]_<<asked, run, result>> /\ WF_<<asked, run, result>>(Reply)
=============================================================================
